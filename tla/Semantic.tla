------------------------------ MODULE Semantic ------------------------------
(* The semantic pass of the Tony compiler: the walk of `root->sem()` over    *)
(* the AST (src/semantic/semantic.cpp) with the symbol table it maintains    *)
(* (src/symbol/symbol.hpp) and the function types it fills in                *)
(* (src/symbol/type.cpp).                                                    *)
(*                                                                           *)
(* A Tony program is a tree of nested function definitions.  The model       *)
(* chooses the program while it is walked: every action is the visit of one  *)
(* AST node, and `ast` is the tape of the nodes visited so far, each with    *)
(* the annotations sem() leaves on it for the code generator.  The walk is   *)
(* sequential; what makes it hard is that a function's list of captured      *)
(* variables keeps growing while nested bodies, calls and forward            *)
(* declarations already use it.                                              *)
EXTENDS Naturals, Sequences, FiniteSets

CONSTANTS
  VarNames,     \* identifiers a program may use for variables
  FunNames,     \* identifiers a program may use for functions
  ProgramNames, \* names the program's own definition may have
  DataTypes,    \* the types a variable can have ("bool" among them)
  Library,      \* the functions of initFunctions(): Seq([name, ret, args])
  Headers,      \* function headers: [ret, formals: Seq([name, t, pass])]
  IdLists,      \* identifier lists of a variable definition
  Operands,     \* what may stand in an expression: names, and types for literals
  ArgLists,     \* the argument lists of a call
  StmtKinds,    \* the statements and local definitions a program may use
  UninitBool,   \* the values an uninitialised bool may be read as
  None,         \* "not in the map"
  Uninit,       \* an uninitialised TonyType pointer
  MaxNodes,     \* bound: no node begins beyond it but a `skip` or an `end`
  MaxDepth      \* bound: nesting of function definitions

Names == VarNames \cup FunNames
PassModes == {"val", "ref"}
RetTypes == DataTypes \cup {"void"}

\* A TonyType of a variable: its identity is the AST node it was parsed from.
VarType == [t : DataTypes, pass : PassModes, node : Nat]
VarMap  == [VarNames -> VarType \cup {None}]
Arg     == [t : DataTypes, pass : PassModes]
Formal  == [name : VarNames, t : DataTypes, pass : PassModes]

ASSUME NameAssumption ==
  /\ None \notin Nat /\ None \notin VarType
  /\ Uninit \notin Nat
  /\ UninitBool \subseteq BOOLEAN
ASSUME GrammarAssumption ==
  /\ Library \in Seq([name : FunNames, ret : RetTypes, args : Seq(Arg)])
  /\ Headers \subseteq [ret : RetTypes, formals : Seq(Formal)]
  /\ IdLists \subseteq Seq(VarNames)
  /\ Operands \subseteq Names \cup RetTypes
  /\ ArgLists \subseteq Seq(Operands)

VARIABLES
  scopes,   \* the SymbolTable: scopes[1] the library, scopes[2] the program's name
  walk,     \* per open definition: visiting its local "defs" or its "body"
  ftypes,   \* every function TonyType created so far
  ast,      \* the nodes visited so far, annotated
  outcome   \* "walking", "accepted", "rejected" (error()) or "undefined"

vars == <<scopes, walk, ftypes, ast, outcome>>

NoVars == [x \in VarNames |-> None]
NoFuns == [f \in FunNames |-> None]
Keys(m) == {x \in DOMAIN m : m[x] # None}

FType == [ret : RetTypes, args : Seq(Arg), prev : VarMap, declared : BOOLEAN]
Scope == [locals : VarMap, functions : [FunNames -> Nat \cup {None}],
          ret : RetTypes, hasReturn : BOOLEAN, fun : Nat \cup {Uninit}]

Node ==
  [op : {"define", "declare"}, name : FunNames, header : Headers, fun : Nat]
    \cup [op : {"var"}, ids : IdLists, type : VarType, by : Nat]
    \cup [op : {"assign"}, target : VarNames, operand : Operands, binds : VarMap, by : Nat]
    \cup [op : {"call"}, name : FunNames, args : Seq(Operands), binds : VarMap, fun : Nat,
          by : Nat, sealed : BOOLEAN, locals : SUBSET VarNames]
    \cup [op : {"return"}, operand : Operands, binds : VarMap, by : Nat]
    \cup [op : {"exit"}, by : Nat]
    \cup [op : {"condition"}, operand : Operands, binds : VarMap, by : Nat]
    \cup [op : {"skip"}]
    \cup [op : {"end"}, fun : Nat]

-----------------------------------------------------------------------------
(* The symbol table.                                                         *)

Top    == scopes[Len(scopes)]
Parent == scopes[Len(scopes) - 1]

IsLocal(n, k)  == n \in VarNames /\ scopes[k].locals[n] # None
IsNested(n, k) == n \in FunNames /\ scopes[k].functions[n] # None

\* lookup(n, T_BOTH): n is found at level k and at no level inside it.
Resolves(n, k) ==
  /\ IsLocal(n, k) \/ IsNested(n, k)
  /\ \A j \in k + 1 .. Len(scopes) : ~IsLocal(n, j) /\ ~IsNested(n, j)

Visible(n) == \E k \in DOMAIN scopes : Resolves(n, k)
Level(n)   == CHOOSE k \in DOMAIN scopes : Resolves(n, k)

\* lookupBoth() looks among a scope's variables before its functions.
IsVar(n) == Visible(n) /\ IsLocal(n, Level(n))
IsFun(n) == Visible(n) /\ ~IsLocal(n, Level(n))
Var(n)   == scopes[Level(n)].locals[n]
Fun(n)   == scopes[Level(n)].functions[n]

\* The type an expression has is t.
HasType(o, t) == IF o \in Names THEN IsVar(o) /\ Var(o).t = t ELSE o = t

(* Captured variables (TonyType::previous_scope_args).                       *)

\* Insert every entry of g into f; addPreviousScopeArg() overwrites.
Override(f, g) == [x \in VarNames |-> IF g[x] # None THEN g[x] ELSE f[x]]

\* Mutation: the callee's captures taken over without looking at the locals.
NotLocalToUnchecked(s, m) == m

\* The captures m of a callee that scope s does not itself declare.
NotLocalTo(s, m) == [x \in VarNames |-> IF s.locals[x] = None THEN m[x] ELSE None]

\* What the names among the operands os denote: the types Id::sem() sets.
Bindings(os) == [x \in VarNames |-> IF x \in os THEN Var(x) ELSE None]

\* Mutation: the lookup in the current scope forgotten.
CapturedByAll(os) == Bindings(os)

\* What Id::sem() adds for the operands os: those that are not local.
CapturedBy(os) == NotLocalTo(Top, Bindings(os))

AddCaptures(fts, f, m) == [fts EXCEPT ![f].prev = Override(@, m)]

-----------------------------------------------------------------------------
(* Control of the walk.                                                      *)

Walking == outcome = "walking"
Room    == Len(ast) + Len(walk) < MaxNodes
InDefs  == Walking /\ walk # <<>> /\ walk[Len(walk)] = "defs"
InBody  == Walking /\ walk # <<>>

\* The visit of one more node of the kind k.
Visit(k)      == k \in StmtKinds /\ Room
Record(node)  == ast' = Append(ast, node)
Statement     == walk' = [walk EXCEPT ![Len(walk)] = "body"]

\* error() and yyerror() end the process.
Stop(why) ==
  /\ outcome' = why
  /\ scopes' = <<>> /\ walk' = <<>> /\ ftypes' = <<>> /\ ast' = <<>>

-----------------------------------------------------------------------------
(* Headers and definitions.                                                  *)

Elements(ids)  == {ids[i] : i \in DOMAIN ids}
FormalNames(h) == {h.formals[i].name : i \in DOMAIN h.formals}
Distinct(ids)  == \A i, j \in DOMAIN ids : i # j => ids[i] # ids[j]
DistinctFormals(h) ==
  \A i, j \in DOMAIN h.formals : i # j => h.formals[i].name # h.formals[j].name

FormalIndex(h, x) == CHOOSE i \in DOMAIN h.formals : h.formals[i].name = x
FormalLocals(h) ==
  [x \in VarNames |->
     IF x \in FormalNames(h)
     THEN [t |-> h.formals[FormalIndex(h, x)].t,
           pass |-> h.formals[FormalIndex(h, x)].pass, node |-> Len(ast) + 1]
     ELSE None]

\* Only a definition runs Formal::sem(), which sets the pass mode: the
\* arguments of a declaration keep the default.
DefArgs(h) ==
  [i \in DOMAIN h.formals |-> [t |-> h.formals[i].t, pass |-> h.formals[i].pass]]
DeclArgs(h) ==
  [i \in DOMAIN h.formals |-> [t |-> h.formals[i].t, pass |-> "val"]]

\* check_type_equality() of two function types.
SameSignature(ft, h) ==
  /\ ft.ret = h.ret
  /\ Len(ft.args) = Len(h.formals)
  /\ \A i \in DOMAIN h.formals : ft.args[i].t = h.formals[i].t

FunctionType(ret, args, declared) ==
  [ret |-> ret, args |-> args, prev |-> NoVars, declared |-> declared]

EmptyScope(ret, f) ==
  [locals |-> NoVars, functions |-> NoFuns, ret |-> ret, hasReturn |-> FALSE, fun |-> f]

\* Mutation: setScopeFunction() forgotten.
OpenScopeNoFunction(s, h, f) ==
  Append(s, [EmptyScope(h.ret, Uninit) EXCEPT !.locals = FormalLocals(h)])

\* openScope(), the formals inserted, setScopeFunction(f).
OpenScope(s, h, f) ==
  Append(s, [EmptyScope(h.ret, f) EXCEPT !.locals = FormalLocals(h)])

\* Mutation: a function registered one scope too far out.
InsertFuncOuter(k, name, f) == [scopes EXCEPT ![k - 1].functions[name] = f]

\* insert(name, f, T_FUNC) into the scope at level k.
InsertFunc(k, name, f) == [scopes EXCEPT ![k].functions[name] = f]

CanDefine(name, h) ==
  /\ Walking /\ Visit("define") /\ Len(walk) < MaxDepth
  /\ IF walk = <<>> THEN name \in ProgramNames ELSE InDefs
  /\ name \in FunNames /\ h \in Headers

Enter(name, h, f) ==
  /\ walk' = Append(walk, "defs")
  /\ Record([op |-> "define", name |-> name, header |-> h, fun |-> f])
  /\ UNCHANGED outcome

\* A definition of a name its parent scope does not know yet.
DefineFresh(name, h) ==
  LET f == Len(ftypes) + 1 IN
  /\ CanDefine(name, h) /\ DistinctFormals(h)
  /\ Top.functions[name] = None
  /\ ftypes' = Append(ftypes, FunctionType(h.ret, DefArgs(h), FALSE))
  /\ scopes' = OpenScope(InsertFunc(Len(scopes), name, f), h, f)
  /\ Enter(name, h, f)

\* Mutation: the declaration is not used up.
AdoptKeepingDeclared(f) == ftypes

Adopt(f) == [ftypes EXCEPT ![f].declared = FALSE]

\* A definition of a declared function adopts the type of the declaration.
DefineDeclared(name, h) ==
  LET f == Top.functions[name] IN
  /\ CanDefine(name, h) /\ DistinctFormals(h)
  /\ f # None
  /\ ftypes[f].declared
  /\ SameSignature(ftypes[f], h)
  /\ ftypes' = Adopt(f)
  /\ scopes' = OpenScope(scopes, h, f)
  /\ Enter(name, h, f)

RejectDefinition(name, h) ==
  LET f == Top.functions[name] IN
  /\ CanDefine(name, h)
  /\ \/ ~DistinctFormals(h)
     \/ f # None /\ ~ftypes[f].declared
     \/ f # None /\ ~SameSignature(ftypes[f], h)
  /\ Stop("rejected")

Declare(name, h) ==
  LET f == Len(ftypes) + 1 IN
  /\ InDefs /\ Visit("declare")
  /\ IF Top.functions[name] # None THEN Stop("rejected")
     ELSE /\ ftypes' = Append(ftypes, FunctionType(h.ret, DeclArgs(h), TRUE))
          /\ scopes' = InsertFunc(Len(scopes), name, f)
          /\ Record([op |-> "declare", name |-> name, header |-> h, fun |-> f])
          /\ UNCHANGED <<walk, outcome>>

\* A variable definition reads VarList::isRef, which only Formal::sem() sets.
VarDefinition(ids, t, isRef) ==
  LET declared == Elements(ids)
      type == [t |-> t, pass |-> IF isRef THEN "ref" ELSE "val", node |-> Len(ast) + 1]
  IN
  /\ InDefs /\ Visit("var")
  /\ IF ~Distinct(ids) \/ (\E x \in declared : Top.locals[x] # None)
     THEN Stop("rejected")
     ELSE /\ scopes' = [scopes EXCEPT ![Len(scopes)].locals =
                          [x \in VarNames |-> IF x \in declared THEN type ELSE @[x]]]
          /\ Record([op |-> "var", ids |-> ids, type |-> type, by |-> Top.fun])
          /\ UNCHANGED <<walk, ftypes, outcome>>

-----------------------------------------------------------------------------
(* Statements.  Nesting in `if` and `for` opens no scope: their conditions   *)
(* are nodes of their own and their bodies are the statements that follow.   *)

\* An expression over the operands os is evaluated by the current function.
Capture(os) == ftypes' = AddCaptures(ftypes, Top.fun, CapturedBy(os))

Assign(x, o) ==
  /\ InBody /\ Visit("assign")
  /\ IF ~(IsVar(x) /\ HasType(o, Var(x).t)) THEN Stop("rejected")
     ELSE /\ Capture({x, o})
          /\ Record([op |-> "assign", target |-> x, operand |-> o,
                     binds |-> Bindings({x, o}), by |-> Top.fun])
          /\ Statement
          /\ UNCHANGED <<scopes, outcome>>

\* No definition is still adding captures to f.
Sealed(f) ==
  /\ ~ftypes[f].declared
  /\ \A k \in DOMAIN scopes : scopes[k].fun # f

WellTypedCall(name, args) ==
  /\ IsFun(name)
  /\ Len(args) = Len(ftypes[Fun(name)].args)
  /\ \A i \in DOMAIN args : HasType(args[i], ftypes[Fun(name)].args[i].t)

\* The caller captures what its arguments name, and then what the callee
\* captures at this moment.
AfterArgs(args) == AddCaptures(ftypes, Top.fun, CapturedBy(Elements(args)))

\* Mutation: the callee's captures are not handed to the caller.
AfterCallNoCaptures(f, args) == AfterArgs(args)
\* Mutation: caller and callee swapped.
AfterCallSwapped(f, args) ==
  AddCaptures(AfterArgs(args), f, NotLocalTo(Top, AfterArgs(args)[Top.fun].prev))

AfterCall(f, args) ==
  AddCaptures(AfterArgs(args), Top.fun, NotLocalTo(Top, AfterArgs(args)[f].prev))

Call(name, args) ==
  /\ InBody /\ Visit("call")
  /\ IF ~WellTypedCall(name, args) THEN Stop("rejected")
     ELSE /\ ftypes' = AfterCall(Fun(name), args)
          /\ Record([op |-> "call", name |-> name, args |-> args,
                     binds |-> Bindings(Elements(args)), fun |-> Fun(name),
                     by |-> Top.fun, sealed |-> Sealed(Fun(name)), locals |-> Keys(Top.locals)])
          /\ Statement
          /\ UNCHANGED <<scopes, outcome>>

\* Mutation: the return counts for the enclosing functions as well.
MarkReturnEverywhere == [k \in DOMAIN scopes |-> [scopes[k] EXCEPT !.hasReturn = TRUE]]

MarkReturn == [scopes EXCEPT ![Len(scopes)].hasReturn = TRUE]

Return(o) ==
  /\ InBody /\ Visit("return")
  /\ IF ~HasType(o, Top.ret) THEN Stop("rejected")
     ELSE /\ Capture({o})
          /\ scopes' = MarkReturn
          /\ Record([op |-> "return", operand |-> o, binds |-> Bindings({o}), by |-> Top.fun])
          /\ Statement
          /\ UNCHANGED outcome

Exit ==
  /\ InBody /\ Visit("exit")
  /\ IF Top.ret # "void" THEN Stop("rejected")
     ELSE /\ Record([op |-> "exit", by |-> Top.fun])
          /\ Statement
          /\ UNCHANGED <<scopes, ftypes, outcome>>

Condition(o) ==
  /\ InBody /\ Visit("condition")
  /\ IF ~HasType(o, "bool") THEN Stop("rejected")
     ELSE /\ Capture({o})
          /\ Record([op |-> "condition", operand |-> o, binds |-> Bindings({o}), by |-> Top.fun])
          /\ Statement
          /\ UNCHANGED <<scopes, outcome>>

\* The grammar wants a statement in every body: `skip` is always possible.
Skip ==
  /\ InDefs
  /\ Record([op |-> "skip"])
  /\ Statement
  /\ UNCHANGED <<scopes, ftypes, outcome>>

-----------------------------------------------------------------------------
(* The end of a definition.                                                  *)

\* What the closed definition hands to the function around it.
Transferred == NotLocalTo(Parent, ftypes[Top.fun].prev)

ClosedWell == Top.ret = "void" \/ Top.hasReturn

LeaveInner ==
  /\ InBody /\ walk[Len(walk)] = "body" /\ Len(walk) > 1
  /\ IF ~ClosedWell THEN Stop("rejected")
     ELSE /\ ftypes' = AddCaptures(ftypes, Parent.fun, Transferred)
          /\ scopes' = SubSeq(scopes, 1, Len(scopes) - 1)
          /\ walk' = SubSeq(walk, 1, Len(walk) - 1)
          /\ Record([op |-> "end", fun |-> Top.fun])
          /\ UNCHANGED outcome

\* The program's own definition: the scope around it has no function, and
\* prevFunctionType is the pointer its constructor left uninitialised.
LeaveProgram ==
  /\ InBody /\ walk = <<"body">>
  /\ IF ~ClosedWell THEN Stop("rejected")
     ELSE IF Keys(Transferred) # {} THEN Stop("undefined")
     ELSE /\ outcome' = "accepted"
          /\ scopes' = <<>> /\ walk' = <<>>
          /\ Record([op |-> "end", fun |-> Top.fun])
          /\ UNCHANGED ftypes

Finished == ~Walking /\ UNCHANGED vars

-----------------------------------------------------------------------------
\* The two scopes the first definition opens, with initFunctions() between.
LibraryScope ==
  [EmptyScope("void", Uninit) EXCEPT !.functions =
     [f \in FunNames |-> IF \E i \in DOMAIN Library : Library[i].name = f
                         THEN CHOOSE i \in DOMAIN Library : Library[i].name = f
                         ELSE None]]

Init ==
  /\ scopes = <<LibraryScope, EmptyScope("void", Uninit)>>
  /\ walk = <<>>
  /\ ftypes = [i \in DOMAIN Library |->
                 FunctionType(Library[i].ret, Library[i].args, TRUE)]
  /\ ast = <<>>
  /\ outcome = "walking"

Next ==
  \/ \E name \in FunNames, h \in Headers :
       \/ DefineFresh(name, h)
       \/ DefineDeclared(name, h)
       \/ RejectDefinition(name, h)
       \/ Declare(name, h)
  \/ \E ids \in IdLists, t \in DataTypes, isRef \in UninitBool : VarDefinition(ids, t, isRef)
  \/ \E x \in VarNames, o \in Operands : Assign(x, o)
  \/ \E name \in FunNames, args \in ArgLists : Call(name, args)
  \/ \E o \in Operands : Return(o)
  \/ \E o \in Operands : Condition(o)
  \/ Exit
  \/ Skip
  \/ LeaveInner
  \/ LeaveProgram
  \/ Finished

Spec == Init /\ [][Next]_vars

-----------------------------------------------------------------------------
(* Properties.                                                               *)

\* Types of the state: the symbol table is as deep as the walk, every scope of
\* a definition knows its function, and the two outer scopes know none.
TypeOK ==
  /\ outcome \in {"walking", "accepted", "rejected", "undefined"}
  /\ scopes \in Seq(Scope)
  /\ walk \in Seq({"defs", "body"})
  /\ ftypes \in Seq(FType)
  /\ ast \in Seq(Node)
  /\ Walking => Len(scopes) = Len(walk) + 2
  /\ \A k \in DOMAIN scopes :
       /\ scopes[k].fun \in IF k <= 2 THEN {Uninit} ELSE DOMAIN ftypes
       /\ \A n \in FunNames : scopes[k].functions[n] \in DOMAIN ftypes \cup {None}

\* The names reachable from scope k are those of the scopes around it.  A
\* function registered in scope k captures nothing that lives further in, so
\* every caller that can see the function can see what it captures
\* (addPreviousScopeArg at semantic.cpp:53, 611, 671).
CapturesVisible ==
  \A k \in DOMAIN scopes, n \in FunNames, x \in VarNames :
    /\ scopes[k].functions[n] # None
    /\ ftypes[scopes[k].functions[n]].prev[x] # None
    => \E j \in 1 .. k : IsLocal(x, j)

\* The program's own function ends with nothing left to capture, so the loop
\* at semantic.cpp:669 never follows the uninitialised functionType of the
\* scope around it (symbol.hpp:24).
NoUninitialisedAccess == outcome # "undefined"

\* The caller of node i can supply the callee's captures: each is a local of
\* the caller at the call or, when all is walked, captured by the caller too.
SuppliesCaptures(i) ==
  Keys(ftypes[ast[i].fun].prev) \subseteq Keys(ftypes[ast[i].by].prev) \cup ast[i].locals

\* A call of a function whose captures are final can be completed: what the
\* callee captures reaches the caller (semantic.cpp:605-612).
CallsAreClosed ==
  \A i \in DOMAIN ast : ast[i].op = "call" /\ ast[i].sealed => SuppliesCaptures(i)

\* A function type gains captures only while its own definition is open: the
\* end of a definition, or a call, never reopens a finished one.
CapturesAreFinal ==
  [][\A f \in DOMAIN ftypes :
       f \in DOMAIN ftypes' /\ ftypes'[f].prev # ftypes[f].prev
         => \E k \in DOMAIN scopes : scopes[k].fun = f]_vars

\* What makes CapturesVisible inductive.  The function of an open scope is
\* registered in the scope around it, no function type is registered twice,
\* and the two outer scopes, whose function pointer is uninitialised, hold no
\* variables (semantic.cpp:645-654, insertIntoParentScope).
OuterScopesEmpty ==
  \A k \in DOMAIN scopes : k <= 2 => scopes[k].locals = NoVars
FunctionsRegistered ==
  \A k \in DOMAIN scopes :
    k > 2 => \E n \in FunNames : scopes[k - 1].functions[n] = scopes[k].fun
RegisteredOnce ==
  \A k, l \in DOMAIN scopes, n, m \in FunNames :
    /\ scopes[k].functions[n] # None
    /\ scopes[k].functions[n] = scopes[l].functions[m]
    => k = l /\ n = m
ScopesAreLinked == OuterScopesEmpty /\ FunctionsRegistered /\ RegisteredOnce

\* No two definitions share a function type: a declaration is used up by the
\* first definition that adopts it (toggleDeclDef, semantic.cpp:410).
OneBodyPerFunction ==
  \A i, j \in DOMAIN ast :
    ast[i].op = "define" /\ ast[j].op = "define" /\ ast[i].fun = ast[j].fun => i = j

\* Every closed function with a result has a return of its own, not one of a
\* nested function, and `exit` stands only in functions without a result.
ReturnsMatchFunctions ==
  \A i \in DOMAIN ast :
    /\ ast[i].op = "exit" => ftypes[ast[i].by].ret = "void"
    /\ ast[i].op = "end" /\ ftypes[ast[i].fun].ret # "void" =>
         \E j \in 1 .. i : ast[j].op = "return" /\ ast[j].by = ast[i].fun
=============================================================================
