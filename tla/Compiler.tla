------------------------------ MODULE Compiler ------------------------------
(* The compiler: the semantic pass (Semantic) followed by the code generator *)
(* (src/llvm/ast.cpp, src/symbol/runtime.hpp), a second walk over the same   *)
(* AST that keeps tables of its own.                                         *)
(*                                                                           *)
(* The generator resolves functions by name in a stack of RuntimeScopes and  *)
(* variables by name in the RuntimeBlock of the current function.  Captured  *)
(* variables become extra reference parameters: a function's signature, the  *)
(* names in its block and the operands at every call must agree about them,  *)
(* and each of the three is computed at another node of the tree.            *)
(*                                                                           *)
(* Emitted code is abstracted to the types of operands and parameters: a     *)
(* value of a data type t has level 0, its address level 1, and a mismatch   *)
(* is what the LLVM builder or verifyModule() stops at.                      *)
EXTENDS Semantic

CONSTANT NameOrder   \* the order std::map keeps variable names in

ASSUME NameOrderAssumption ==
  /\ NameOrder \in Seq(VarNames)
  /\ \A x \in VarNames : \E i \in DOMAIN NameOrder : NameOrder[i] = x
  /\ \A i, j \in DOMAIN NameOrder : i # j => NameOrder[i] # NameOrder[j]

\* initFunctions() leaves the arguments of its functions by value.
ASSUME LibraryAssumption ==
  \A i \in DOMAIN Library : \A j \in DOMAIN Library[i].args : Library[i].args[j].pass = "val"

VARIABLES
  pc,       \* the next node of `ast` to compile
  rscopes,  \* RuntimeScope: a map of function names per open scope
  blocks,   \* the RuntimeBlocks of the open function definitions
  lfuns,    \* the LLVM functions created: their function type and parameters
  at,       \* the depth of the block whose function the builder inserts into
  emit      \* "emitting", "written" (out.ll) or "broken"

cgvars == <<pc, at, rscopes, blocks, lfuns, emit>>
allvars == <<vars, cgvars>>

\* What a name of a block stands for: the variable it denotes (by the node
\* that declares it), its data type and its level.
Slot  == [node : Nat, t : DataTypes, level : 0 .. 1]
Param == [name : VarNames \cup {None}, node : Nat, t : DataTypes, level : 0 .. 1]
LFun  == [fun : Nat, params : Seq(Param)]
Block == [ref : SUBSET VarNames, slot : [VarNames -> Slot \cup {None}]]

ASSUME SlotAssumption == None \notin Slot

Node1  == ast[pc]
Block1 == blocks[Len(blocks)]

-----------------------------------------------------------------------------
(* RuntimeScope.                                                             *)

\* Mutation: the outermost function of that name.
GetFunOutermost(name) ==
  rscopes[CHOOSE k \in DOMAIN rscopes :
            /\ rscopes[k][name] # None
            /\ \A j \in 1 .. k - 1 : rscopes[j][name] = None][name]

\* getFun(): the innermost function of that name.
GetFun(name) ==
  rscopes[CHOOSE k \in DOMAIN rscopes :
            /\ rscopes[k][name] # None
            /\ \A j \in k + 1 .. Len(rscopes) : rscopes[j][name] = None][name]

GetFunCurrentScope(name) == rscopes[Len(rscopes)][name]

InsertRuntimeFunc(name, lf) == [rscopes EXCEPT ![Len(rscopes)][name] = lf]

-----------------------------------------------------------------------------
(* Parameters and operands.                                                  *)

Indirection(pass) == IF pass = "ref" THEN 1 ELSE 0

\* The captured names of m in the order of the map, without those in skip.
CapturedNames(m, skip) ==
  LET upTo[n \in 0 .. Len(NameOrder)] ==
        IF n = 0 THEN <<>>
        ELSE IF m[NameOrder[n]] # None /\ NameOrder[n] \notin skip
             THEN Append(upTo[n - 1], NameOrder[n])
             ELSE upTo[n - 1]
  IN upTo[Len(NameOrder)]

Formals(h, args, n) ==
  [i \in DOMAIN h.formals |->
     [name |-> h.formals[i].name, node |-> n, t |-> args[i].t,
      level |-> Indirection(args[i].pass)]]

\* A captured variable arrives by reference, under its own name.
Captured(m, names) ==
  [i \in DOMAIN names |->
     [name |-> names[i], node |-> m[names[i]].node, t |-> m[names[i]].t, level |-> 1]]

\* Mutation: the signature lists the captured variables in another order.
ParametersReversed(h, args, n, m) ==
  LET names == CapturedNames(m, FormalNames(h)) IN
  Formals(h, args, n) \o Captured(m, [i \in DOMAIN names |-> names[Len(names) + 1 - i]])

\* The parameters of an LLVM function: the formals of the header at node n
\* with the pass modes of args, then a reference for every captured variable
\* that is not already the name of a formal.
Parameters(h, args, n, m) ==
  Formals(h, args, n) \o Captured(m, CapturedNames(m, FormalNames(h)))

\* A definition's block: its names are those of its own parameters, the
\* stack slots behind them have the types of the signature.
NewBlock(params, signature) ==
  LET Index(x) == CHOOSE i \in DOMAIN params : params[i].name = x
      named    == {params[i].name : i \in DOMAIN signature}
  IN [ref  |-> {params[i].name : i \in {j \in DOMAIN params : params[j].level = 1}},
      slot |-> [x \in VarNames |->
                  IF x \in named
                  THEN [node |-> params[Index(x)].node, t |-> signature[Index(x)].t,
                        level |-> signature[Index(x)].level]
                  ELSE None]]

\* isRef() and the slot's type agree, so that loads and stores are typed.
Addressable(x) ==
  /\ Block1.slot[x] # None
  /\ Block1.slot[x].level = IF x \in Block1.ref THEN 1 ELSE 0

\* The names the node reads or writes have values of the types sem() gave them.
Usable(binds) ==
  \A x \in Keys(binds) : Addressable(x) /\ Block1.slot[x].t = binds[x].t

\* An argument is passed by address if its parameter is a reference and it is
\* a variable, and else as a value.  Arguments are variables and values here: an
\* array element, which goes by address too (llvm/ast.cpp:759-763), is none.
ArgumentOperand(o, arg) ==
  IF o \in VarNames
  THEN [node |-> Block1.slot[o].node, t |-> Block1.slot[o].t, level |-> Indirection(arg.pass)]
  ELSE [node |-> 0, t |-> arg.t, level |-> 0]

CaptureOperand(x) == [node |-> Block1.slot[x].node, t |-> Block1.slot[x].t, level |-> 1]

\* Mutation: the captured variables of the callee left out.
ArgumentsOnly(node) ==
  [i \in DOMAIN node.args |-> ArgumentOperand(node.args[i], ftypes[node.fun].args[i])]

\* The operands of a call: its arguments, then every variable the callee
\* captures, under the name the callee knows it by.
CallOperands(node) ==
  LET captured == CapturedNames(ftypes[node.fun].prev, {}) IN
  [i \in DOMAIN node.args |-> ArgumentOperand(node.args[i], ftypes[node.fun].args[i])]
  \o [i \in DOMAIN captured |-> CaptureOperand(captured[i])]

Matches(operands, params) ==
  /\ Len(operands) = Len(params)
  /\ \A i \in DOMAIN params :
       operands[i].t = params[i].t /\ operands[i].level = params[i].level

-----------------------------------------------------------------------------
(* The walk of the generator.                                                *)

Emitting      == outcome = "accepted" /\ emit = "emitting"
Compiling(op) == Emitting /\ pc \in DOMAIN ast /\ Node1.op = op

Advance == pc' = pc + 1 /\ UNCHANGED emit

\* A null or ill-typed operand: the builder or verifyModule() ends the process.
Break ==
  /\ emit' = "broken"
  /\ pc' = 0 /\ at' = 0 /\ rscopes' = <<>> /\ blocks' = <<>> /\ lfuns' = <<>>

CompileDeclaration ==
  LET params == Parameters(Node1.header, DeclArgs(Node1.header), pc, ftypes[Node1.fun].prev)
  IN
  /\ Compiling("declare")
  /\ lfuns' = Append(lfuns, [fun |-> Node1.fun, params |-> params])
  /\ rscopes' = InsertRuntimeFunc(Node1.name, Len(lfuns) + 1)
  /\ Advance
  /\ UNCHANGED <<blocks, at>>

\* A definition of a declared function keeps the declaration's signature and
\* names its parameters one by one from its own list.
CompileDefinition ==
  LET h         == Node1.header
      params    == Parameters(h, DefArgs(h), pc, ftypes[Node1.fun].prev)
      known     == GetFunCurrentScope(Node1.name)
      signature == IF known = None THEN params ELSE lfuns[known].params
  IN
  /\ Compiling("define")
  /\ IF Len(signature) > Len(params) THEN Break
     ELSE /\ lfuns' = IF known # None THEN lfuns
                      ELSE Append(lfuns, [fun |-> Node1.fun, params |-> params])
          /\ rscopes' = Append(InsertRuntimeFunc(Node1.name,
                                 IF known # None THEN known ELSE Len(lfuns) + 1), NoFuns)
          /\ blocks' = Append(blocks, NewBlock(params, signature))
          /\ at' = Len(blocks) + 1
          /\ Advance

\* The stack slots go where the builder stands.
CompileVarList ==
  LET ids == Elements(Node1.ids)
      new == [node |-> pc, t |-> Node1.type.t, level |-> 0]
      ref == IF Node1.type.pass = "ref" THEN Block1.ref \cup ids ELSE Block1.ref \ ids
  IN
  /\ Compiling("var")
  /\ IF at # Len(blocks) THEN Break
     ELSE /\ blocks' = [blocks EXCEPT ![Len(blocks)] =
                          [ref |-> ref,
                           slot |-> [x \in VarNames |-> IF x \in ids THEN new ELSE @.slot[x]]]]
          /\ Advance
          /\ UNCHANGED <<rscopes, lfuns, at>>

\* The body starts in the entry block of its function.
CompileStatement ==
  /\ at' = Len(blocks)
  /\ UNCHANGED <<rscopes, blocks, lfuns>>

CompileUse ==
  /\ Compiling("assign") \/ Compiling("condition")
  /\ IF ~Usable(Node1.binds) THEN Break ELSE CompileStatement /\ Advance

CompileSkip == Compiling("skip") /\ CompileStatement /\ Advance

\* The call at pc has a variable for every argument name and captured name.
CallIsSupplied ==
  /\ Usable(Node1.binds)
  /\ \A x \in Keys(ftypes[Node1.fun].prev) : Addressable(x)

CompileCall ==
  /\ Compiling("call")
  /\ IF CallIsSupplied /\ Matches(CallOperands(Node1), lfuns[GetFun(Node1.name)].params)
     THEN CompileStatement /\ Advance
     ELSE Break

\* StmtBody::compile() drops what follows a `return` or `exit`: in the body of
\* the function that is all up to its end, in the body of an `if` or `for`,
\* whose extent the tape does not show, nothing here.
CompileReturn ==
  /\ Compiling("return") \/ Compiling("exit")
  /\ IF Node1.op = "return" /\ (~Usable(Node1.binds) \/ Node1.operand = "void") THEN Break
     ELSE /\ CompileStatement
          /\ UNCHANGED emit
          /\ \E next \in pc + 1 .. Len(ast) :
               /\ next = pc + 1 \/ ast[next].op = "end"
               /\ \A k \in pc + 1 .. next - 1 : ast[k].op # "end"
               /\ pc' = next

\* Mutation: the scope stays open.
CloseRuntimeScopeForgotten == rscopes

CloseRuntimeScope == SubSeq(rscopes, 1, Len(rscopes) - 1)

\* Back in the function around it.  The program's own definition has none and
\* is marked isMain; in the others isMain is uninitialised.
CompileEnd(isMain) ==
  /\ Compiling("end")
  /\ blocks' = SubSeq(blocks, 1, Len(blocks) - 1)
  /\ rscopes' = CloseRuntimeScope
  /\ at' = IF isMain \/ Len(blocks) = 1 THEN at ELSE Len(blocks) - 1
  /\ Advance
  /\ UNCHANGED lfuns

\* `main` calls the program's function, the first one created after the
\* library, without arguments; then the module is verified and written.
Write ==
  /\ Emitting /\ pc = Len(ast) + 1
  /\ IF lfuns[Len(Library) + 1].params # <<>> THEN Break
     ELSE emit' = "written" /\ UNCHANGED <<pc, at, rscopes, blocks, lfuns>>

GenInit ==
  /\ pc = 1 /\ at = 0
  /\ rscopes = <<LibraryScope.functions, NoFuns>>
  /\ blocks = <<>>
  /\ lfuns = [i \in DOMAIN Library |->
                [fun |-> i, params |-> [j \in DOMAIN Library[i].args |->
                   [name |-> None, node |-> 0, t |-> Library[i].args[j].t, level |-> 0]]]]
  /\ emit = "emitting"

Generate ==
  \/ CompileDeclaration
  \/ CompileDefinition
  \/ CompileVarList
  \/ CompileUse
  \/ CompileSkip
  \/ CompileCall
  \/ CompileReturn
  \/ \E isMain \in UninitBool : CompileEnd(isMain)
  \/ Write

CompilerInit == Init /\ GenInit
CompilerNext ==
  \/ Next /\ UNCHANGED cgvars
  \/ Generate /\ UNCHANGED vars

CompilerSpec == CompilerInit /\ [][CompilerNext]_allvars

-----------------------------------------------------------------------------
(* Properties.                                                               *)

\* Types of the generator's state: one block per open definition and one scope
\* of functions per block, the library's and the program's scope aside.
CompilerTypeOK ==
  /\ emit \in {"emitting", "written", "broken"}
  /\ pc \in Nat /\ at \in Nat
  /\ rscopes \in Seq([FunNames -> DOMAIN lfuns \cup {None}])
  /\ blocks \in Seq(Block)
  /\ lfuns \in Seq(LFun)
  /\ emit = "emitting" => Len(rscopes) = Len(blocks) + 2

\* The two passes resolve a called name in tables of their own, the SymbolTable
\* and the RuntimeScopes, and find the same function (getFun, runtime.hpp:164).
FunctionsAgree ==
  Compiling("call") => lfuns[GetFun(Node1.name)].fun = Node1.fun

\* The nodes from the definition of function fun to its end.
Span(fun) ==
  {i \in DOMAIN ast :
     /\ \E d \in 1 .. i : ast[d].op = "define" /\ ast[d].fun = fun
     /\ \E e \in i .. Len(ast) : ast[e].op = "end" /\ ast[e].fun = fun}

\* The names node i declares, and the function it declares them in.
Declared(i) == CASE ast[i].op = "define" -> FormalNames(ast[i].header)
                 [] ast[i].op = "var"    -> Elements(ast[i].ids)
                 [] OTHER                -> {}
Owner(i) == IF ast[i].op = "define" THEN ast[i].fun ELSE ast[i].by

\* No function declares a variable of the name of one in a function around it.
NoShadowing ==
  \A i, j \in DOMAIN ast :
    i # j /\ Declared(i) \cap Declared(j) # {} => j \notin Span(Owner(i))

\* A definition of a declared function has no reference parameter, and no
\* formal of the declaration has the name of a captured variable.
DeclarationsAgree ==
  \A i, j \in DOMAIN ast :
    ast[i].op = "declare" /\ ast[j].op = "define" /\ ast[i].fun = ast[j].fun =>
      /\ DefArgs(ast[j].header) = DeclArgs(ast[j].header)
      /\ FormalNames(ast[i].header) \cap Keys(ftypes[ast[i].fun].prev) = {}

\* No call passes a value for a reference parameter.
ReferencesAreVariables ==
  \A i \in DOMAIN ast : ast[i].op = "call" =>
    \A k \in DOMAIN ast[i].args :
      ftypes[ast[i].fun].args[k].pass = "ref" => ast[i].args[k] \in VarNames

WellBehaved ==
  /\ NoShadowing /\ DeclarationsAgree /\ ReferencesAreVariables
  /\ \A i \in DOMAIN ast :
       /\ ast[i].op = "call" => SuppliesCaptures(i)
       /\ ast[i].op = "return" => ast[i].operand # "void"
  /\ ast[1].header.formals = <<>>

\* What sem() accepts compiles to a verified module, for the programs without
\* the constructs the generator is known to mishandle: names, signatures and
\* operands of captured variables, each computed from the captures at another
\* node, fit together (llvm/ast.cpp:763-796, 853-880, 898-907).
WellBehavedCompiles == emit = "broken" => ~WellBehaved

\* At node pc, every name stands for the variable sem() resolved it to, and a
\* callee receives the very variables it captured.
BindsLexically ==
  LET callee   == lfuns[GetFun(Node1.name)]
      operands == CallOperands(Node1)
  IN
  /\ Compiling("assign") \/ Compiling("condition") \/ Compiling("return") =>
       \A x \in Keys(Node1.binds) : Addressable(x) => Block1.slot[x].node = Node1.binds[x].node
  /\ Compiling("call") /\ CallIsSupplied /\ Matches(operands, callee.params) =>
       \A i \in Len(Node1.args) + 1 .. Len(operands) : operands[i].node = callee.params[i].node

\* Passing captured variables by name is lexical scoping as long as no name is
\* declared twice in nested functions (llvm/ast.cpp:783-793).
LexicalWithoutShadowing == NoShadowing => BindsLexically

-----------------------------------------------------------------------------
(* Statements of the repository that the code does not meet.                 *)

\* A finished function that is called works on the variables it captured,
\* whatever its caller declares: var_shadowing_extreme.tony:41 expects 42 of it.
CapturesAreLexical == (Compiling("call") => Node1.sealed) => BindsLexically

\* "Iterating through previous Scope args (all references)", llvm/ast.cpp:783:
\* the caller has a variable behind every captured name of the callee.
CapturesAreReferences ==
  Compiling("call") => \A x \in Keys(ftypes[Node1.fun].prev) : Block1.slot[x] # None
=============================================================================
