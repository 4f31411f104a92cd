--------------------------- MODULE CompilerProofs ---------------------------
(* Proofs about the code generator, for every program and every choice of    *)
(* the constants: its tables are well-typed and deep as the walk, it finds   *)
(* the function the semantic pass found for every call, without shadowing    *)
(* every name reaches the variable it was resolved to, and well-behaved      *)
(* programs compile.                                                         *)
(*                                                                           *)
(* The generator walks over a tape that the semantic pass has left, whose    *)
(* tables are gone.  History brings them back: for every node of the tape    *)
(* the tables before and after its visit.  The generator's RuntimeScopes are *)
(* then compared with the tables before the node it compiles.                *)
(*                                                                           *)
(* For variables even that is too much, since both passes know them by       *)
(* tables that are opened, overwritten and closed again.  A variable is      *)
(* taken for the node that declares it, and a function for the set of the    *)
(* functions around it: every name a function uses, captures or hands to a   *)
(* callee is then a variable of a function around it, and if no name is      *)
(* declared twice in nested functions, there is just one of that name.       *)
EXTENDS Compiler, SemanticProofs, LeastNumbers

-----------------------------------------------------------------------------
(* The tables of the semantic pass at one moment, and what a node does.      *)

Moment == [scopes : Seq(Scope), walk : Seq({"defs", "body"})]

Start == [scopes |-> <<LibraryScope, EmptyScope("void", Uninit)>>, walk |-> <<>>]
Now   == [scopes |-> scopes, walk |-> walk]

At(m, what) == m.walk # <<>> /\ m.walk[Len(m.walk)] = what

\* The innermost function of the name n is f.
Finds(s, n, f) ==
  \E k \in DOMAIN s : /\ s[k].functions[n] = f /\ f # None
                      /\ \A j \in k + 1 .. Len(s) : s[j].functions[n] = None

\* The functions of the scopes s after f is registered in the innermost one
\* under the name n, where at most f was known before.
Registered(s, t, n, f) ==
  /\ n \in FunNames /\ f \in Nat /\ s[Len(s)].functions[n] \in {None, f}
  /\ \A k \in 1 .. Len(s), x \in FunNames :
       t[k].functions[x] = IF k = Len(s) /\ x = n THEN f ELSE s[k].functions[x]
  /\ \A k \in 1 .. Len(s) : t[k].fun = s[k].fun

\* The first n scopes have the same functions in both tables.
SameFunctions(s, t, n) ==
  \A k \in 1 .. n : t[k].functions = s[k].functions /\ t[k].fun = s[k].fun

\* The function of the innermost scope.
Inner(m) == m.scopes[Len(m.scopes)].fun

Statements == {"assign", "call", "return", "exit", "condition", "skip"}

\* Visiting the node leads from the tables a to the tables b.
Moves(node, a, b) ==
  /\ node.op \in Statements =>
       /\ a.walk # <<>> /\ b.walk = [a.walk EXCEPT ![Len(a.walk)] = "body"]
       /\ Len(b.scopes) = Len(a.scopes) /\ SameFunctions(a.scopes, b.scopes, Len(a.scopes))
  /\ node.op \in Statements \ {"skip"} => node.by = Inner(a)
  /\ node.op = "call" => Finds(a.scopes, node.name, node.fun)
  /\ node.op = "var" =>
       /\ At(a, "defs") /\ b.walk = a.walk /\ node.by = Inner(a)
       /\ Len(b.scopes) = Len(a.scopes) /\ SameFunctions(a.scopes, b.scopes, Len(a.scopes))
  /\ node.op = "declare" =>
       /\ At(a, "defs") /\ b.walk = a.walk
       /\ Len(b.scopes) = Len(a.scopes) /\ Registered(a.scopes, b.scopes, node.name, node.fun)
  /\ node.op = "define" =>
       /\ a.walk = <<>> \/ At(a, "defs")
       /\ b.walk = Append(a.walk, "defs")
       /\ Len(b.scopes) = Len(a.scopes) + 1
       /\ Registered(a.scopes, b.scopes, node.name, node.fun)
       /\ b.scopes[Len(b.scopes)].functions = NoFuns /\ Inner(b) = node.fun
       /\ DistinctFormals(node.header)
  /\ node.op = "end" =>
       /\ At(a, "body") /\ b.walk = SubSeq(a.walk, 1, Len(a.walk) - 1) /\ node.fun = Inner(a)
       /\ Len(b.scopes) = Len(a.scopes) - 1 /\ SameFunctions(a.scopes, b.scopes, Len(b.scopes))

\* h has the tables after every node of the tape, from the start.
History(tape, h) ==
  /\ h \in [0 .. Len(tape) -> Moment] /\ h[0] = Start
  /\ \A i \in 0 .. Len(tape) : Len(h[i].scopes) = Len(h[i].walk) + 2
  /\ \A i \in 1 .. Len(tape) : Moves(tape[i], h[i - 1], h[i])

HistoryInv == \E h : History(ast, h) /\ (Walking => h[Len(ast)] = Now)

\* Every function of the tape has a type.
FunctionsKnown ==
  \A i \in 1 .. Len(ast) : ast[i].op \in {"define", "declare"} => ast[i].fun \in DOMAIN ftypes

LEMMA StartIsMoment == Start \in Moment /\ Len(Start.scopes) = Len(Start.walk) + 2
<1>1. "void" \in RetTypes /\ Uninit \in Nat \cup {Uninit} /\ NoVars \in VarMap
  BY DEF RetTypes, NoVars, VarMap
<1>2. EmptyScope("void", Uninit) \in Scope
  BY <1>1 DEF EmptyScope, Scope, NoFuns
<1>3. LibraryScope \in Scope
  <2> DEFINE found(f) == CHOOSE i \in DOMAIN Library : Library[i].name = f
             fns == [f \in FunNames |-> IF \E i \in DOMAIN Library : Library[i].name = f THEN found(f) ELSE None]
  <2>1. DOMAIN Library \subseteq Nat
    BY GrammarAssumption, LenProperties
  <2>2. \A f \in FunNames : (\E i \in DOMAIN Library : Library[i].name = f) => found(f) \in DOMAIN Library
    OBVIOUS
  <2>3. fns \in [FunNames -> Nat \cup {None}]
    <3> HIDE DEF found
    <3> QED
      BY <2>1, <2>2
  <2>4. LibraryScope = [EmptyScope("void", Uninit) EXCEPT !.functions = fns]
    BY DEF LibraryScope
  <2> HIDE DEF fns
  <2> QED
    BY <1>2, <2>3, <2>4 DEF Scope
<1>4. Start.scopes \in Seq(Scope) /\ Len(Start.scopes) = 2
  BY <1>2, <1>3 DEF Start
<1>5. Start.walk = <<>> /\ Start.walk \in Seq({"defs", "body"}) /\ Len(Start.walk) = 0
  BY DEF Start
<1> DEFINE s == Start.scopes
           w == Start.walk
<1>6. Start = [scopes |-> s, walk |-> w]
  BY DEF Start
<1>7. Len(s) = Len(w) + 2 /\ s \in Seq(Scope) /\ w \in Seq({"defs", "body"})
  BY <1>4, <1>5
<1> HIDE DEF s, w
<1>8. Start \in Moment
  BY <1>6, <1>7 DEF Moment
<1> QED
  BY <1>7, <1>8 DEF s, w

LEMMA HistoryBegins == History(<<>>, [i \in {0} |-> Start])
<1>1. Len(<<>>) = 0 /\ 0 .. 0 = {0} /\ 1 .. 0 = {}
  OBVIOUS
<1> QED
  BY <1>1, StartIsMoment DEF History

\* One more node.
LEMMA HistoryGrows ==
  ASSUME NEW tape \in Seq(Node), NEW h, History(tape, h), NEW node \in Node,
         NEW b \in Moment, Len(b.scopes) = Len(b.walk) + 2, Moves(node, h[Len(tape)], b)
  PROVE  \E g : History(Append(tape, node), g) /\ g[Len(tape) + 1] = b
<1> DEFINE n == Len(tape)
           new == Append(tape, node)
           g == [i \in 0 .. n + 1 |-> IF i = n + 1 THEN b ELSE h[i]]
<1>1. n \in Nat /\ Len(new) = n + 1 /\ new[n + 1] = node /\ \A i \in 1 .. n : new[i] = tape[i]
  BY AppendProperties, LenProperties
<1>2. /\ h \in [0 .. n -> Moment] /\ h[0] = Start
      /\ \A i \in 0 .. n : Len(h[i].scopes) = Len(h[i].walk) + 2
      /\ \A i \in 1 .. n : Moves(tape[i], h[i - 1], h[i])
  BY DEF History
<1>3. \A i \in 0 .. n : i \in 0 .. n + 1 /\ i # n + 1 /\ h[i] \in Moment
  BY <1>1, <1>2
<1>4. \A i \in 0 .. n + 1 : i = n + 1 \/ i \in 0 .. n
  BY <1>1
<1>5. n + 1 \in 0 .. n + 1 /\ 0 \in 0 .. n /\ n \in 0 .. n /\ (n + 1) - 1 = n
  BY <1>1
<1> HIDE DEF n, new
<1>6. g[n + 1] = b /\ \A i \in 0 .. n : g[i] = h[i]
  BY <1>3, <1>5
<1>7. g \in [0 .. n + 1 -> Moment]
  BY <1>3, <1>4
<1> HIDE DEF g
<1>8. \A i \in 0 .. n + 1 : Len(g[i].scopes) = Len(g[i].walk) + 2
  BY <1>2, <1>4, <1>6
<1>9. ASSUME NEW i \in 1 .. n + 1 PROVE Moves(new[i], g[i - 1], g[i])
  <2>1. CASE i = n + 1
    <3>1. new[i] = node /\ g[i] = b /\ g[i - 1] = h[n]
      BY <1>1, <1>5, <1>6, <2>1
    <3> QED
      BY <3>1 DEF n
  <2>2. CASE i # n + 1
    <3>1. i \in 1 .. n /\ i \in 0 .. n /\ i - 1 \in 0 .. n
      BY <1>1, <2>2
    <3>2. new[i] = tape[i] /\ g[i] = h[i] /\ g[i - 1] = h[i - 1]
      BY <1>1, <1>6, <3>1
    <3> QED
      BY <1>2, <3>1, <3>2
  <2> QED
    BY <2>1, <2>2
<1>10. g[0] = Start
  BY <1>2, <1>5, <1>6
<1>11. History(new, g)
  BY <1>1, <1>7, <1>8, <1>9, <1>10 DEF History
<1> QED
  BY <1>6, <1>11 DEF n, new

-----------------------------------------------------------------------------
(* Every step of the semantic pass adds a moment to the history.             *)

HInv == IInv /\ HistoryInv /\ FunctionsKnown

LEMMA StopHistory ==
  ASSUME NEW why, why # "walking", Stop(why)
  PROVE  HistoryInv' /\ FunctionsKnown'
<1>1. ast' = <<>> /\ ~Walking' /\ Len(<<>>) = 0 /\ 1 .. 0 = {}
  BY DEF Stop, Walking
<1>2. HistoryInv'
  BY <1>1, HistoryBegins DEF HistoryInv
<1>3. FunctionsKnown'
  BY <1>1 DEF FunctionsKnown
<1> QED
  BY <1>2, <1>3

\* A step that visits a node and leads to the tables b.
LEMMA VisitGrows ==
  ASSUME HInv, IInv', Walking, NEW node, Record(node),
         NEW b \in Moment, Len(b.scopes) = Len(b.walk) + 2, Walking' => b = Now',
         Moves(node, Now, b), DOMAIN ftypes \subseteq DOMAIN ftypes',
         node.op \in {"define", "declare"} => node.fun \in DOMAIN ftypes'
  PROVE  HistoryInv' /\ FunctionsKnown'
<1>1. ast \in Seq(Node) /\ ast' = Append(ast, node) /\ ast' \in Seq(Node)
  BY DEF HInv, IInv, TypeOK, Record
<1>2. /\ Len(ast) \in Nat /\ Len(ast') = Len(ast) + 1 /\ ast'[Len(ast) + 1] = node
      /\ \A i \in 1 .. Len(ast) : ast'[i] = ast[i]
  BY <1>1, LenProperties
<1>3. node \in Node
  <2>1. Len(ast) + 1 \in 1 .. Len(ast')
    BY <1>2
  <2> QED
    BY <1>1, <1>2, <2>1, ElementOfSeq
<1>4. PICK h : History(ast, h) /\ h[Len(ast)] = Now
  BY DEF HInv, HistoryInv
<1>5. PICK g : History(Append(ast, node), g) /\ g[Len(ast) + 1] = b
  BY <1>1, <1>3, <1>4, HistoryGrows
<1>6. HistoryInv'
  BY <1>1, <1>2, <1>5 DEF HistoryInv
<1>7. FunctionsKnown'
  <2>1. \A i \in 1 .. Len(ast') : i = Len(ast) + 1 \/ i \in 1 .. Len(ast)
    BY <1>2
  <2> QED
    BY <1>2, <2>1 DEF HInv, FunctionsKnown
<1> QED
  BY <1>6, <1>7

\* The tables a step leaves behind while it goes on walking.
LEMMA NextMoment ==
  ASSUME IInv', Walking'
  PROVE  Now' \in Moment /\ Len(Now'.scopes) = Len(Now'.walk) + 2
BY DEF IInv, TypeOK, Now, Moment

LEMMA StatementHistory ==
  ASSUME HInv, IInv', InBody, NEW node, Record(node), node.op \in Statements,
         Statement, UNCHANGED outcome, scopes' = scopes \/ scopes' = MarkReturn,
         DOMAIN ftypes' = DOMAIN ftypes,
         node.op # "skip" => node.by = Top.fun,
         node.op = "call" => Finds(scopes, node.name, node.fun)
  PROVE  HistoryInv' /\ FunctionsKnown'
<1>1. /\ Walking /\ Walking' /\ walk # <<>> /\ DOMAIN scopes = 1 .. Len(scopes)
      /\ \A k \in DOMAIN scopes : scopes[k] \in Scope
  BY InsideDefinition DEF InBody, Walking, HInv, IInv
<1>2. Len(scopes') = Len(scopes) /\ SameFunctions(scopes, scopes', Len(scopes))
  <2>1. CASE scopes' = scopes
    BY <2>1 DEF SameFunctions
  <2>2. CASE scopes' = MarkReturn
    <3>1. /\ Len(MarkReturn) = Len(scopes)
          /\ \A k \in DOMAIN scopes :
               MarkReturn[k].functions = scopes[k].functions /\ MarkReturn[k].fun = scopes[k].fun
      BY <1>1 DEF MarkReturn, Scope
    <3> QED
      BY <1>1, <2>2, <3>1 DEF SameFunctions
  <2> QED
    BY <2>1, <2>2
<1>3. walk' = [walk EXCEPT ![Len(walk)] = "body"]
  BY DEF Statement
<1>4. Moves(node, Now, Now')
  <2>1. node.op \notin {"var", "declare", "define", "end"}
    BY DEF Statements
  <2> QED
    BY <1>1, <1>2, <1>3, <2>1 DEF Moves, Now, Inner, Top
<1> QED
  BY <1>1, <1>4, NextMoment, VisitGrows DEF Statements

\* A call finds the innermost function of its name, and no variable hides it.
LEMMA CallFinds ==
  ASSUME NEW name \in FunNames, IsFun(name), TypeOK, InBody
  PROVE  Finds(scopes, name, Fun(name))
<1> DEFINE k == Level(name)
<1>1. k \in DOMAIN scopes /\ Resolves(name, k) /\ ~IsLocal(name, k)
  BY LevelResolves DEF IsFun
<1>2. DOMAIN scopes = 1 .. Len(scopes)
  BY InsideDefinition
<1>3. scopes[k].functions[name] = Fun(name) /\ Fun(name) # None
  BY <1>1 DEF Resolves, IsNested, Fun
<1>4. \A j \in k + 1 .. Len(scopes) : scopes[j].functions[name] = None
  BY <1>1 DEF Resolves, IsNested
<1> QED
  BY <1>1, <1>3, <1>4 DEF Finds

LEMMA StatementsGrowHistory ==
  ASSUME HInv, IInv',
         \/ \E x \in VarNames, o \in Operands : Assign(x, o)
         \/ \E name \in FunNames, args \in ArgLists : Call(name, args)
         \/ \E o \in Operands : Return(o) \/ Condition(o)
         \/ Exit \/ Skip
  PROVE  HistoryInv' /\ FunctionsKnown'
<1>1. CASE Stop("rejected")
  BY <1>1, StopHistory
<1> SUFFICES ASSUME ~Stop("rejected") PROVE HistoryInv' /\ FunctionsKnown'
  BY <1>1
<1>2. ASSUME NEW os, Capture(os) PROVE DOMAIN ftypes' = DOMAIN ftypes
  BY <1>2 DEF Capture, AddCaptures
<1>3. ASSUME NEW x \in VarNames, NEW o \in Operands, Assign(x, o)
      PROVE  HistoryInv' /\ FunctionsKnown'
  BY <1>2, <1>3, StatementHistory DEF Assign, Statements
<1>4. ASSUME NEW o \in Operands, Return(o)
      PROVE  HistoryInv' /\ FunctionsKnown'
  BY <1>2, <1>4, StatementHistory DEF Return, Statements
<1>5. ASSUME NEW o \in Operands, Condition(o)
      PROVE  HistoryInv' /\ FunctionsKnown'
  BY <1>2, <1>5, StatementHistory DEF Condition, Statements
<1>6. CASE Exit
  BY <1>6, StatementHistory DEF Exit, Statements
<1>7. CASE Skip
  BY <1>7, StatementHistory DEF Skip, Statements, InDefs, InBody
<1>8. ASSUME NEW name \in FunNames, NEW args \in ArgLists, Call(name, args)
      PROVE  HistoryInv' /\ FunctionsKnown'
  <2> DEFINE node == [op |-> "call", name |-> name, args |-> args,
                      binds |-> Bindings(Elements(args)), fun |-> Fun(name), by |-> Top.fun,
                      sealed |-> Sealed(Fun(name)), locals |-> Keys(Top.locals)]
  <2>1. /\ InBody /\ Record(node) /\ Statement /\ UNCHANGED <<scopes, outcome>>
        /\ ftypes' = AfterCall(Fun(name), args) /\ IsFun(name)
    BY <1>8 DEF Call, WellTypedCall
  <2>2. DOMAIN ftypes' = DOMAIN ftypes
    BY <2>1 DEF AfterCall, AfterArgs, AddCaptures
  <2>3. Finds(scopes, name, Fun(name))
    BY <2>1, CallFinds DEF HInv, IInv
  <2>4. node.op = "call" /\ node.name = name /\ node.fun = Fun(name) /\ node.by = Top.fun
    OBVIOUS
  <2> HIDE DEF node
  <2> QED
    BY <2>1, <2>2, <2>3, <2>4, StatementHistory DEF Statements
<1> QED
  BY <1>3, <1>4, <1>5, <1>6, <1>7, <1>8

LEMMA VarHistory ==
  ASSUME HInv, IInv', NEW ids \in IdLists, NEW t \in DataTypes, NEW isRef \in UninitBool,
         VarDefinition(ids, t, isRef)
  PROVE  HistoryInv' /\ FunctionsKnown'
<1> DEFINE L    == Len(scopes)
           type == [t |-> t, pass |-> IF isRef THEN "ref" ELSE "val", node |-> Len(ast) + 1]
           node == [op |-> "var", ids |-> ids, type |-> type, by |-> Top.fun]
           loc  == [x \in VarNames |-> IF x \in Elements(ids) THEN type ELSE scopes[L].locals[x]]
           new  == [scopes EXCEPT ![L].locals = loc]
<1>1. CASE Stop("rejected")
  BY <1>1, StopHistory
<1>2. CASE ~Stop("rejected")
  <2>1. /\ InDefs /\ InBody /\ Walking /\ Walking' /\ Record(node) /\ scopes' = new
        /\ UNCHANGED <<walk, ftypes, outcome>>
    BY <1>2 DEF VarDefinition, InDefs, InBody, Walking
  <2>2. /\ L \in Nat /\ DOMAIN scopes = 1 .. L
        /\ \A k \in DOMAIN scopes : scopes[k] \in Scope
    BY <2>1, InsideDefinition DEF HInv, IInv
  <2>3. node.op = "var" /\ node.by = Inner(Now)
    BY DEF Inner, Now, Top
  <2> HIDE DEF node, loc
  <2>4. Len(new) = L /\ \A k \in 1 .. L : /\ new[k].functions = scopes[k].functions
                                        /\ new[k].fun = scopes[k].fun
    BY <2>2 DEF Scope
  <2>5. SameFunctions(scopes, scopes', L) /\ Len(scopes') = L
    BY <2>1, <2>4 DEF SameFunctions
  <2> HIDE DEF new
  <2>6. Moves(node, Now, Now')
    BY <2>1, <2>3, <2>5 DEF Moves, Now, At, InDefs, Statements
  <2> QED
    BY <2>1, <2>3, <2>6, NextMoment, VisitGrows
<1> QED
  BY <1>1, <1>2

\* Functions of the scopes after f is registered in the innermost of them.
LEMMA InsertRegisters ==
  ASSUME IInv, Walking, NEW name \in FunNames, NEW f \in Nat, Top.functions[name] = None
  PROVE  Registered(scopes, InsertFunc(Len(scopes), name, f), name, f)
<1> DEFINE new == InsertFunc(Len(scopes), name, f)
<1>1. /\ Top = scopes[Len(scopes)] /\ DOMAIN scopes = 1 .. Len(scopes)
      /\ \A k \in DOMAIN scopes, n \in FunNames :
           new[k].functions[n] =
             IF k = Len(scopes) /\ n = name THEN f ELSE scopes[k].functions[n]
      /\ \A k \in DOMAIN scopes : new[k].fun = scopes[k].fun
  BY WhileWalking, InsertFuncProperties DEF IInv
<1> HIDE DEF new
<1>2. Registered(scopes, new, name, f)
  BY <1>1 DEF Registered
<1> QED
  BY <1>2 DEF new

LEMMA DeclareHistory ==
  ASSUME HInv, IInv', NEW name \in FunNames, NEW h \in Headers, Declare(name, h)
  PROVE  HistoryInv' /\ FunctionsKnown'
<1> DEFINE f    == Len(ftypes) + 1
           t    == FunctionType(h.ret, DeclArgs(h), TRUE)
           node == [op |-> "declare", name |-> name, header |-> h, fun |-> f]
           new  == InsertFunc(Len(scopes), name, f)
<1>1. CASE Stop("rejected")
  BY <1>1, StopHistory
<1>2. CASE ~Stop("rejected")
  <2>1. /\ InDefs /\ Walking /\ Walking' /\ Record(node) /\ scopes' = new
        /\ ftypes' = Append(ftypes, t) /\ UNCHANGED <<walk, outcome>>
        /\ Top.functions[name] = None
    BY <1>2 DEF Declare, InDefs, Walking
  <2>2. /\ f \in Nat /\ DOMAIN ftypes' = 1 .. f /\ DOMAIN ftypes = 1 .. Len(ftypes)
        /\ Len(ftypes) \in Nat
    <3>1. ftypes \in Seq(FType) /\ Len(ftypes) \in Nat /\ DOMAIN ftypes = 1 .. Len(ftypes)
      BY <2>1, WhileWalking DEF HInv, IInv
    <3>2. DOMAIN Append(ftypes, t) = 1 .. Len(ftypes) + 1
      BY <3>1
    <3> QED
      BY <2>1, <3>1, <3>2
  <2>3. node.op = "declare" /\ node.name = name /\ node.fun = f
    OBVIOUS
  <2>4. Registered(scopes, new, name, f)
    BY <2>1, <2>2, InsertRegisters DEF HInv
  <2>5. Len(new) = Len(scopes)
    BY <2>1, <2>2, InsertFuncProperties DEF HInv, IInv
  <2> HIDE DEF node, new, t
  <2>6. Moves(node, Now, Now')
    BY <2>1, <2>3, <2>4, <2>5 DEF Moves, Now, At, InDefs, Statements
  <2>7. DOMAIN ftypes \subseteq DOMAIN ftypes' /\ f \in DOMAIN ftypes'
    BY <2>2
  <2> HIDE DEF f
  <2> QED
    BY <2>1, <2>3, <2>6, <2>7, NextMoment, VisitGrows
<1> QED
  BY <1>1, <1>2

\* A scope is opened, its function registered in the scope around it.
LEMMA EnterHistory ==
  ASSUME HInv, IInv', NEW name \in FunNames, NEW h \in Headers, NEW f \in Nat,
         CanDefine(name, h), DistinctFormals(h), Enter(name, h, f),
         NEW mid \in Seq(Scope), Len(mid) = Len(scopes), Registered(scopes, mid, name, f),
         scopes' = OpenScope(mid, h, f),
         DOMAIN ftypes \subseteq DOMAIN ftypes', f \in DOMAIN ftypes'
  PROVE  HistoryInv' /\ FunctionsKnown'
<1> DEFINE node == [op |-> "define", name |-> name, header |-> h, fun |-> f]
<1>1. /\ Walking /\ Walking' /\ Record(node) /\ walk' = Append(walk, "defs")
      /\ walk = <<>> \/ InDefs
  BY DEF CanDefine, Enter, Walking
<1>2. Len(scopes) \in Nat /\ Len(scopes) >= 2
  BY <1>1, WhileWalking DEF HInv, IInv
<1>3. /\ Len(scopes') = Len(scopes) + 1
      /\ \A k \in 1 .. Len(scopes) : scopes'[k] = mid[k]
      /\ scopes'[Len(scopes) + 1].functions = NoFuns /\ scopes'[Len(scopes) + 1].fun = f
  <2> DEFINE new == OpenScope(mid, h, f)
  <2>1. /\ Len(new) = Len(mid) + 1 /\ \A k \in 1 .. Len(mid) : new[k] = mid[k]
        /\ new[Len(mid) + 1].functions = NoFuns /\ new[Len(mid) + 1].fun = f
    BY OpenScopeProperties DEF HInv, IInv
  <2>2. scopes' = new
    OBVIOUS
  <2> HIDE DEF new
  <2> QED
    BY <2>1, <2>2
<1>4. Registered(scopes, scopes', name, f)
  BY <1>3 DEF Registered
<1>5. node.op = "define" /\ node.name = name /\ node.fun = f /\ node.header = h
  OBVIOUS
<1> HIDE DEF node
<1>6. Moves(node, Now, Now')
  BY <1>1, <1>3, <1>4, <1>5 DEF Moves, Now, At, InDefs, Statements, Inner
<1> QED
  BY <1>1, <1>5, <1>6, NextMoment, VisitGrows

LEMMA DefineHistory ==
  ASSUME HInv, IInv', NEW name \in FunNames, NEW h \in Headers,
         DefineFresh(name, h) \/ DefineDeclared(name, h)
  PROVE  HistoryInv' /\ FunctionsKnown'
<1>1. /\ Walking /\ scopes \in Seq(Scope) /\ Len(scopes) \in Nat /\ Len(scopes) >= 2
      /\ DOMAIN scopes = 1 .. Len(scopes) /\ Top = scopes[Len(scopes)]
      /\ ftypes \in Seq(FType) /\ Len(ftypes) \in Nat /\ DOMAIN ftypes = 1 .. Len(ftypes)
  BY WhileWalking DEF HInv, IInv, DefineFresh, DefineDeclared, CanDefine
<1>2. CASE DefineFresh(name, h)
  <2> DEFINE f   == Len(ftypes) + 1
             mid == InsertFunc(Len(scopes), name, f)
             t   == FunctionType(h.ret, DefArgs(h), FALSE)
  <2>1. /\ CanDefine(name, h) /\ DistinctFormals(h) /\ Enter(name, h, f)
        /\ Top.functions[name] = None /\ ftypes' = Append(ftypes, t)
        /\ scopes' = OpenScope(mid, h, f)
    BY <1>2 DEF DefineFresh
  <2>2. f \in Nat /\ DOMAIN Append(ftypes, t) = 1 .. f
    BY <1>1
  <2>3. DOMAIN ftypes \subseteq DOMAIN ftypes' /\ f \in DOMAIN ftypes'
    BY <1>1, <2>1, <2>2
  <2>4. Registered(scopes, mid, name, f)
    BY <1>1, <2>1, <2>2, InsertRegisters DEF HInv
  <2>5. mid \in Seq(Scope) /\ Len(mid) = Len(scopes)
    BY <1>1, <2>2, InsertFuncProperties DEF HInv, IInv
  <2> HIDE DEF f, mid, t
  <2> QED
    BY <2>1, <2>2, <2>3, <2>4, <2>5, EnterHistory
<1>3. CASE DefineDeclared(name, h)
  <2> DEFINE f == Top.functions[name]
  <2>1. /\ CanDefine(name, h) /\ DistinctFormals(h) /\ Enter(name, h, f) /\ f # None
        /\ ftypes' = Adopt(f) /\ scopes' = OpenScope(scopes, h, f)
    BY <1>3 DEF DefineDeclared
  <2>2. f \in DOMAIN ftypes
    <3>1. Len(scopes) \in DOMAIN scopes
      BY <1>1
    <3>2. scopes[Len(scopes)].functions[name] \in DOMAIN ftypes \cup {None}
      BY <3>1 DEF HInv, IInv, TypeOK
    <3> QED
      BY <1>1, <2>1, <3>2
  <2>3. DOMAIN ftypes' = DOMAIN ftypes
    BY <2>1 DEF Adopt
  <2>4. f \in Nat
    BY <1>1, <2>2
  <2>5. Registered(scopes, scopes, name, f)
    <3>1. scopes[Len(scopes)].functions[name] = f
      BY <1>1
    <3> HIDE DEF f
    <3>2. \A k \in 1 .. Len(scopes), x \in FunNames :
            scopes[k].functions[x] = IF k = Len(scopes) /\ x = name THEN f ELSE scopes[k].functions[x]
      BY <3>1
    <3> QED
      BY <2>4, <3>1, <3>2 DEF Registered
  <2> HIDE DEF f
  <2> QED
    BY <1>1, <2>1, <2>2, <2>3, <2>4, <2>5, EnterHistory
<1> QED
  BY <1>2, <1>3

\* The end of a definition, and the tables b without its scope.
LEMMA EndHistory ==
  ASSUME HInv, IInv', InBody, At(Now, "body"), NEW f, f = Top.fun, Record([op |-> "end", fun |-> f]),
         ftypes' = ftypes \/ DOMAIN ftypes' = DOMAIN ftypes,
         NEW b, b = [scopes |-> SubSeq(scopes, 1, Len(scopes) - 1),
                     walk   |-> SubSeq(walk, 1, Len(walk) - 1)],
         Walking' => b = Now'
  PROVE  HistoryInv' /\ FunctionsKnown'
<1> DEFINE node == [op |-> "end", fun |-> f]
           L == Len(scopes)
           W == Len(walk)
<1>1. /\ Walking /\ L \in Nat /\ W \in Nat /\ L > 2 /\ W > 0 /\ L = W + 2
      /\ scopes \in Seq(Scope) /\ walk \in Seq({"defs", "body"})
  BY InsideDefinition, WhileWalking DEF HInv, IInv, TypeOK, InBody
<1>2. /\ b.scopes \in Seq(Scope) /\ Len(b.scopes) = L - 1
      /\ \A k \in 1 .. L - 1 : b.scopes[k] = scopes[k]
  BY <1>1, SubSeqProperties
<1>3. b.walk \in Seq({"defs", "body"}) /\ Len(b.walk) = W - 1
  <2> DEFINE S == {"defs", "body"}
  <2>1. walk \in Seq(S) /\ b.walk = SubSeq(walk, 1, W - 1)
    BY <1>1
  <2> HIDE DEF S
  <2>2. \A i \in 1 .. W - 1 : walk[i] \in S
    BY <1>1, <2>1, ElementOfSeq
  <2>3. 1 \in Int /\ W - 1 \in Int /\ W - 1 >= 0
    BY <1>1
  <2> HIDE DEF W
  <2>4. SubSeq(walk, 1, W - 1) \in Seq(S)
    BY <2>2, <2>3, SubSeqProperties
  <2>5. Len(SubSeq(walk, 1, W - 1)) = W - 1
    BY <1>1
  <2> QED
    BY <2>1, <2>4, <2>5 DEF S
<1>4. b = [scopes |-> b.scopes, walk |-> b.walk] /\ b.walk = SubSeq(walk, 1, W - 1)
  OBVIOUS
<1>5. b \in Moment
  BY <1>2, <1>3, <1>4 DEF Moment
<1>6. node.op = "end" /\ Record(node) /\ node.fun = scopes[L].fun
  BY DEF Top
<1> HIDE DEF node
<1>7. Moves(node, Now, b)
  <2>1. SameFunctions(scopes, b.scopes, L - 1)
    BY <1>2 DEF SameFunctions
  <2>2. Now.scopes = scopes /\ Now.walk = walk
    BY DEF Now
  <2> QED
    BY <1>2, <1>4, <1>6, <2>1, <2>2 DEF Moves, Statements, Inner
<1>8. Len(b.scopes) = Len(b.walk) + 2
  BY <1>1, <1>2, <1>3
<1>9. DOMAIN ftypes \subseteq DOMAIN ftypes'
  OBVIOUS
<1> HIDE DEF L, W
<1> QED
  BY <1>1, <1>5, <1>6, <1>7, <1>8, <1>9, VisitGrows

LEMMA LeaveHistory ==
  ASSUME HInv, IInv', LeaveInner \/ LeaveProgram
  PROVE  HistoryInv' /\ FunctionsKnown'
<1> DEFINE b == [scopes |-> SubSeq(scopes, 1, Len(scopes) - 1),
                 walk   |-> SubSeq(walk, 1, Len(walk) - 1)]
<1>1. CASE Stop("rejected") \/ Stop("undefined")
  BY <1>1, StopHistory
<1>2. CASE LeaveInner /\ ~Stop("rejected")
  <2>1. /\ InBody /\ At(Now, "body") /\ Record([op |-> "end", fun |-> Top.fun])
        /\ DOMAIN ftypes' = DOMAIN ftypes /\ b = Now'
    BY <1>2 DEF LeaveInner, InBody, At, Now, AddCaptures
  <2> HIDE DEF b
  <2> QED
    BY <2>1, EndHistory DEF b
<1>3. CASE LeaveProgram /\ ~Stop("rejected") /\ ~Stop("undefined")
  <2>1. /\ InBody /\ Record([op |-> "end", fun |-> Top.fun])
        /\ ftypes' = ftypes /\ walk = <<"body">> /\ ~Walking'
    BY <1>3 DEF LeaveProgram, InBody, Walking
  <2>2. At(Now, "body")
    BY <2>1 DEF At, Now
  <2> HIDE DEF b
  <2> QED
    BY <2>1, <2>2, EndHistory DEF b
<1> QED
  BY <1>1, <1>2, <1>3

LEMMA InitHistory ==
  ASSUME Init
  PROVE  HistoryInv /\ FunctionsKnown
<1>1. ast = <<>> /\ Len(<<>>) = 0 /\ 1 .. 0 = {} /\ Now = Start
  BY DEF Init, Now, Start
<1> DEFINE h == [i \in {0} |-> Start]
<1>2. h[0] = Start /\ History(<<>>, h)
  BY HistoryBegins
<1> HIDE DEF h
<1>3. HistoryInv
  BY <1>1, <1>2 DEF HistoryInv
<1>4. FunctionsKnown
  BY <1>1 DEF FunctionsKnown
<1> QED
  BY <1>3, <1>4

LEMMA NextHistory ==
  ASSUME HInv, [Next]_vars
  PROVE  HInv'
<1>1. IInv'
  BY NextInv DEF HInv
<1>2. CASE UNCHANGED vars \/ Finished
  <2>1. UNCHANGED vars
    BY <1>2 DEF Finished
  <2>2. UNCHANGED ast /\ UNCHANGED ftypes /\ Walking' = Walking /\ Now' = Now
    BY <2>1 DEF vars, Walking, Now
  <2>3. HistoryInv' /\ FunctionsKnown'
    BY <2>2 DEF HInv, HistoryInv, FunctionsKnown
  <2> QED
    BY <1>1, <2>3 DEF HInv
<1>3. ASSUME NEW name \in FunNames, NEW h \in Headers,
             \/ DefineFresh(name, h) \/ DefineDeclared(name, h)
             \/ RejectDefinition(name, h) \/ Declare(name, h)
      PROVE  HistoryInv' /\ FunctionsKnown'
  BY <1>1, <1>3, DefineHistory, DeclareHistory, StopHistory DEF RejectDefinition
<1>4. ASSUME NEW ids \in IdLists, NEW t \in DataTypes, NEW isRef \in UninitBool,
             VarDefinition(ids, t, isRef)
      PROVE  HistoryInv' /\ FunctionsKnown'
  BY <1>1, <1>4, VarHistory
<1>5. CASE \/ \E x \in VarNames, o \in Operands : Assign(x, o)
           \/ \E name \in FunNames, args \in ArgLists : Call(name, args)
           \/ \E o \in Operands : Return(o) \/ Condition(o)
           \/ Exit \/ Skip
  BY <1>1, <1>5, StatementsGrowHistory DEF HInv
<1>6. CASE LeaveInner \/ LeaveProgram
  BY <1>1, <1>6, LeaveHistory DEF HInv
<1>7. ASSUME HistoryInv', FunctionsKnown' PROVE HInv'
  BY <1>1, <1>7 DEF HInv
<1> QED
  BY <1>2, <1>3, <1>4, <1>5, <1>6, <1>7 DEF Next

\* The tape tells the tables every node was visited with, in every reachable
\* state of the semantic pass.
THEOREM HistoryInvariance == Spec => []HInv
<1>1. Init => HInv
  BY InitInv, InitHistory DEF HInv
<1>2. HInv /\ [Next]_vars => HInv'
  BY NextHistory
<1> QED
  BY <1>1, <1>2, PTL DEF Spec

-----------------------------------------------------------------------------
(* The captured names, in the order of the map.                              *)

\* One step of upTo in CapturedNames.
Kept(m, skip, f, n) ==
  IF n = 0 THEN <<>>
  ELSE IF m[NameOrder[n]] # None /\ NameOrder[n] \notin skip
       THEN Append(f[n - 1], NameOrder[n])
       ELSE f[n - 1]

Keeps(m, skip, f, k) ==
  /\ f = [n \in 0 .. Len(NameOrder) |-> f[n]]
  /\ \A n \in 0 .. k : f[n] = Kept(m, skip, f, n)

LEMMA KeepsOneMore ==
  ASSUME NEW m, NEW skip, NEW f, NEW k \in Nat, k + 1 <= Len(NameOrder), Keeps(m, skip, f, k)
  PROVE  \E g : Keeps(m, skip, g, k + 1)
<1> DEFINE N == Len(NameOrder)
           v == Kept(m, skip, f, k + 1)
           g == [n \in 0 .. N |-> IF n = k + 1 THEN v ELSE f[n]]
<1>1. N \in Nat /\ k + 1 \in 0 .. N
  BY NameOrderAssumption, LenProperties
<1>2. \A n \in 0 .. k : n \in 0 .. N /\ n # k + 1 /\ n - 1 # k + 1
  BY <1>1
<1>3. \A n \in 0 .. k : n # 0 => n - 1 \in 0 .. N
  BY <1>1
<1> HIDE DEF N, v
<1>4. /\ g = [n \in 0 .. N |-> g[n]] /\ g[k + 1] = v
      /\ \A n \in 0 .. N : n # k + 1 => g[n] = f[n]
  BY <1>1
<1> HIDE DEF g
<1>5. ASSUME NEW n \in 0 .. k PROVE g[n] = Kept(m, skip, g, n)
  <2>1. f[n] = Kept(m, skip, f, n) /\ g[n] = f[n]
    BY <1>2, <1>4 DEF Keeps
  <2>2. n # 0 => g[n - 1] = f[n - 1]
    BY <1>2, <1>3, <1>4
  <2> QED
    BY <2>1, <2>2 DEF Kept
<1>6. g[k + 1] = Kept(m, skip, g, k + 1)
  <2>1. (k + 1) - 1 = k /\ k \in 0 .. k /\ k \in 0 .. N /\ k # k + 1
    BY <1>1
  <2>2. g[k] = f[k]
    BY <1>4, <2>1
  <2>3. Kept(m, skip, g, k + 1) = Kept(m, skip, f, k + 1)
    BY <2>1, <2>2 DEF Kept
  <2> QED
    BY <1>4, <2>3 DEF v
<1>7. \A n \in 0 .. k + 1 : n = k + 1 \/ n \in 0 .. k
  OBVIOUS
<1>8. Keeps(m, skip, g, k + 1)
  BY <1>4, <1>5, <1>6, <1>7 DEF Keeps, N
<1> QED
  BY <1>8

\* The equation of upTo has a solution, so CapturedNames is one of its values.
LEMMA UpToExists ==
  ASSUME NEW m, NEW skip
  PROVE  \E f : /\ \A n \in 0 .. Len(NameOrder) : f[n] = Kept(m, skip, f, n)
                /\ CapturedNames(m, skip) = f[Len(NameOrder)]
<1> DEFINE N == Len(NameOrder)
           fails == {k \in 0 .. N : ~\E f : Keeps(m, skip, f, k)}
<1>1. N \in Nat
  BY NameOrderAssumption, LenProperties
<1>2. 0 \notin fails
  <2> DEFINE f == [n \in 0 .. N |-> <<>>]
  <2>1. f = [n \in 0 .. N |-> f[n]] /\ f[0] = <<>> /\ 0 .. 0 = {0}
    BY <1>1
  <2> HIDE DEF f
  <2>2. Keeps(m, skip, f, 0)
    BY <2>1 DEF Keeps, Kept
  <2> QED
    BY <2>2
<1>3. fails = {}
  <2> SUFFICES ASSUME fails # {} PROVE FALSE
    OBVIOUS
  <2>1. fails \subseteq Nat
    BY <1>1
  <2>2. PICK k \in fails : \A x \in fails : k <= x
    <3> HIDE DEF fails
    <3> QED
      BY <2>1, LeastNumber
  <2>3. k \in 0 .. N /\ k # 0
    BY <1>2
  <2>4. /\ k - 1 \in 0 .. N /\ k - 1 \in Nat /\ ~(k <= k - 1) /\ (k - 1) + 1 = k
        /\ (k - 1) + 1 <= N
    BY <1>1, <2>3
  <2>5. k - 1 \notin fails
    BY <2>2, <2>4
  <2>6. PICK f : Keeps(m, skip, f, k - 1)
    BY <2>4, <2>5
  <2>7. \E g : Keeps(m, skip, g, (k - 1) + 1)
    BY <2>4, <2>6, KeepsOneMore
  <2>8. \E g : Keeps(m, skip, g, k)
    BY <2>4, <2>7
  <2> QED
    BY <2>8
<1>4. PICK f : Keeps(m, skip, f, N)
  <2>1. N \in 0 .. N
    BY <1>1
  <2> QED
    BY <1>3, <2>1
<1>5. f = [n \in 0 .. N |-> Kept(m, skip, f, n)]
  BY <1>4 DEF Keeps
<1> DEFINE upTo == CHOOSE g : g = [n \in 0 .. N |-> Kept(m, skip, g, n)]
<1>6. upTo = [n \in 0 .. N |-> Kept(m, skip, upTo, n)]
  <2>1. \E g : g = [n \in 0 .. N |-> Kept(m, skip, g, n)]
    BY <1>5
  <2> QED
    BY <2>1, Zenon
<1>7. CapturedNames(m, skip) = upTo[N]
  BY Zenon DEF CapturedNames, Kept
<1> HIDE DEF upTo
<1>8. \A n \in 0 .. N : upTo[n] = Kept(m, skip, upTo, n)
  BY <1>6
<1> QED
  BY <1>7, <1>8

\* s lists the names of m among the first n of the map, each of them once.
Lists(m, skip, s, n) ==
  /\ s \in Seq(VarNames)
  /\ \A i \in 1 .. Len(s) : /\ m[s[i]] # None /\ s[i] \notin skip
                            /\ \E k \in 1 .. n : s[i] = NameOrder[k]
  /\ \A i, j \in 1 .. Len(s) : i # j => s[i] # s[j]

LEMMA ListsOneMore ==
  ASSUME NEW m, NEW skip, NEW n \in 1 .. Len(NameOrder), NEW s, Lists(m, skip, s, n - 1),
         NEW t, t = IF m[NameOrder[n]] # None /\ NameOrder[n] \notin skip
                    THEN Append(s, NameOrder[n]) ELSE s
  PROVE  Lists(m, skip, t, n)
<1> DEFINE x == NameOrder[n]
<1>1. /\ NameOrder \in Seq(VarNames) /\ Len(NameOrder) \in Nat
      /\ DOMAIN NameOrder = 1 .. Len(NameOrder)
      /\ \A i, j \in DOMAIN NameOrder : i # j => NameOrder[i] # NameOrder[j]
  BY NameOrderAssumption, LenProperties
<1>2. n \in Nat /\ n - 1 \in Nat /\ n <= Len(NameOrder) /\ n \in DOMAIN NameOrder
  BY <1>1
<1>3. x \in VarNames
  BY <1>1, <1>2, ElementOfSeq
<1>4. \A k \in 1 .. n - 1 : k \in 1 .. n /\ k \in DOMAIN NameOrder /\ k # n
  BY <1>1, <1>2
<1>5. n \in 1 .. n
  BY <1>2
<1>6. \A k \in 1 .. n - 1 : x # NameOrder[k]
  BY <1>1, <1>2, <1>4
<1>7. /\ s \in Seq(VarNames) /\ Len(s) \in Nat
      /\ \A i \in 1 .. Len(s) : /\ m[s[i]] # None /\ s[i] \notin skip /\ s[i] # x
                                /\ \E k \in 1 .. n : s[i] = NameOrder[k]
      /\ \A i, j \in 1 .. Len(s) : i # j => s[i] # s[j]
  BY <1>4, <1>6, LenProperties DEF Lists
<1>8. CASE t = s
  BY <1>7, <1>8 DEF Lists
<1>9. CASE t = Append(s, x) /\ m[x] # None /\ x \notin skip
  <2>1. /\ t \in Seq(VarNames) /\ Len(t) = Len(s) + 1 /\ t[Len(s) + 1] = x
        /\ \A i \in 1 .. Len(s) : t[i] = s[i]
    BY <1>3, <1>7, <1>9, AppendProperties
  <2>2. \A i \in 1 .. Len(t) : i = Len(s) + 1 \/ i \in 1 .. Len(s)
    BY <1>7, <2>1
  <2>3. \E k \in 1 .. n : x = NameOrder[k]
    BY <1>5
  <2>4. \A i \in 1 .. Len(t) : /\ m[t[i]] # None /\ t[i] \notin skip
                               /\ \E k \in 1 .. n : t[i] = NameOrder[k]
    BY <1>7, <1>9, <2>1, <2>2, <2>3
  <2>5. \A i, j \in 1 .. Len(t) : i # j => t[i] # t[j]
    BY <1>7, <2>1, <2>2
  <2> QED
    BY <2>1, <2>4, <2>5 DEF Lists
<1> QED
  BY <1>8, <1>9

\* The captured names of m are names of m, each of them once.
LEMMA CapturedNamesProperties ==
  ASSUME NEW m, NEW skip
  PROVE  LET c == CapturedNames(m, skip) IN
         /\ c \in Seq(VarNames)
         /\ \A i \in 1 .. Len(c) : m[c[i]] # None /\ c[i] \notin skip
         /\ \A i, j \in 1 .. Len(c) : i # j => c[i] # c[j]
<1> DEFINE N == Len(NameOrder)
           c == CapturedNames(m, skip)
<1>1. N \in Nat
  BY NameOrderAssumption, LenProperties
<1>2. PICK f : (\A n \in 0 .. N : f[n] = Kept(m, skip, f, n)) /\ c = f[N]
  BY UpToExists
<1> DEFINE fails == {k \in 0 .. N : ~Lists(m, skip, f[k], k)}
<1>3. 0 \notin fails
  <2>1. 0 \in 0 .. N
    BY <1>1
  <2>2. f[0] = <<>>
    BY <1>2, <2>1 DEF Kept
  <2>3. Lists(m, skip, <<>>, 0)
    BY DEF Lists
  <2> QED
    BY <2>2, <2>3
<1>4. fails = {}
  <2> SUFFICES ASSUME fails # {} PROVE FALSE
    OBVIOUS
  <2>1. fails \subseteq Nat
    BY <1>1
  <2>2. PICK k \in fails : \A x \in fails : k <= x
    <3> HIDE DEF fails
    <3> QED
      BY <2>1, LeastNumber
  <2>3. k \in 0 .. N /\ k # 0
    BY <1>3
  <2>4. k - 1 \in 0 .. N /\ ~(k <= k - 1) /\ k \in 1 .. N
    BY <1>1, <2>3
  <2>5. Lists(m, skip, f[k - 1], k - 1)
    BY <2>2, <2>4
  <2>6. f[k] = IF m[NameOrder[k]] # None /\ NameOrder[k] \notin skip
               THEN Append(f[k - 1], NameOrder[k]) ELSE f[k - 1]
    BY <1>2, <2>3 DEF Kept
  <2>7. Lists(m, skip, f[k], k)
    BY <2>4, <2>5, <2>6, ListsOneMore
  <2> QED
    BY <2>7
<1>5. N \in 0 .. N
  BY <1>1
<1>6. Lists(m, skip, c, N)
  BY <1>2, <1>4, <1>5
<1> HIDE DEF c
<1> QED
  BY <1>6 DEF Lists, c

-----------------------------------------------------------------------------
(* Signatures and blocks.                                                    *)

Named(params) == \A i \in 1 .. Len(params) : params[i].name \in VarNames
NamedOnce(params) ==
  \A i, j \in 1 .. Len(params) : i # j => params[i].name # params[j].name

LEMMA FormalsType ==
  ASSUME NEW h \in Headers, NEW args \in Seq(Arg), Len(args) = Len(h.formals), NEW n \in Nat
  PROVE  LET f == Formals(h, args, n) IN
         /\ f \in Seq(Param) /\ Len(f) = Len(h.formals)
         /\ \A i \in 1 .. Len(f) : f[i].name = h.formals[i].name /\ f[i].name \in FormalNames(h)
         /\ Named(f)
<1> DEFINE L == Len(h.formals)
           f == Formals(h, args, n)
<1>1. h.formals \in Seq(Formal) /\ L \in Nat /\ DOMAIN h.formals = 1 .. L
  BY GrammarAssumption, LenProperties
<1>2. \A i \in 1 .. L : h.formals[i] \in Formal /\ args[i] \in Arg
  BY <1>1, ElementOfSeq
<1>3. f = [i \in 1 .. L |-> [name |-> h.formals[i].name, node |-> n, t |-> args[i].t,
                             level |-> Indirection(args[i].pass)]]
  BY <1>1 DEF Formals
<1>4. ASSUME NEW i \in 1 .. L
      PROVE  f[i] \in Param /\ f[i].name = h.formals[i].name /\ f[i].name \in VarNames
  <2>1. h.formals[i].name \in VarNames /\ args[i].t \in DataTypes /\ Indirection(args[i].pass) \in 0 .. 1
    BY <1>2 DEF Formal, Arg, Indirection
  <2>2. f[i] = [name |-> h.formals[i].name, node |-> n, t |-> args[i].t,
                level |-> Indirection(args[i].pass)]
    BY <1>3
  <2> HIDE DEF f
  <2> QED
    BY <2>1, <2>2 DEF Param
<1>5. f = [i \in 1 .. L |-> f[i]]
  BY <1>3
<1> HIDE DEF f
<1>6. f \in [1 .. L -> Param]
  BY <1>4, <1>5
<1>7. f \in Seq(Param) /\ Len(f) = L
  <2> HIDE DEF L
  <2>1. f \in Seq(Param)
    BY <1>1, <1>6, SeqDef
  <2>2. DOMAIN f = 1 .. L /\ DOMAIN f = 1 .. Len(f) /\ Len(f) \in Nat
    BY <1>6, <2>1, LenProperties
  <2> QED
    BY <1>1, <2>1, <2>2
<1>8. \A i \in 1 .. L : f[i].name \in FormalNames(h)
  BY <1>1, <1>4 DEF FormalNames
<1> QED
  BY <1>4, <1>7, <1>8 DEF f, Named

LEMMA CapturedType ==
  ASSUME NEW m \in VarMap, NEW names \in Seq(VarNames),
         \A i \in 1 .. Len(names) : m[names[i]] # None
  PROVE  LET c == Captured(m, names) IN
         /\ c \in Seq(Param) /\ Len(c) = Len(names)
         /\ \A i \in 1 .. Len(c) : c[i].name = names[i]
         /\ Named(c)
<1> DEFINE L == Len(names)
           c == Captured(m, names)
<1>1. L \in Nat /\ DOMAIN names = 1 .. L /\ \A i \in 1 .. L : names[i] \in VarNames
  BY LenProperties, ElementOfSeq
<1>2. c = [i \in 1 .. L |-> [name |-> names[i], node |-> m[names[i]].node,
                             t |-> m[names[i]].t, level |-> 1]]
  BY <1>1 DEF Captured
<1>3. ASSUME NEW i \in 1 .. L
      PROVE  c[i] \in Param /\ c[i].name = names[i]
  <2>1. m[names[i]] \in VarType
    BY <1>1 DEF VarMap
  <2>2. m[names[i]].node \in Nat /\ m[names[i]].t \in DataTypes /\ names[i] \in VarNames
    BY <1>1, <2>1 DEF VarType
  <2>3. c[i] = [name |-> names[i], node |-> m[names[i]].node, t |-> m[names[i]].t, level |-> 1]
    BY <1>2
  <2> HIDE DEF c
  <2> QED
    BY <2>2, <2>3 DEF Param
<1>4. c = [i \in 1 .. L |-> c[i]]
  BY <1>2
<1> HIDE DEF c
<1>5. c \in [1 .. L -> Param]
  BY <1>3, <1>4
<1>6. c \in Seq(Param) /\ Len(c) = L
  <2> HIDE DEF L
  <2>1. c \in Seq(Param)
    BY <1>1, <1>5, SeqDef
  <2>2. DOMAIN c = 1 .. L /\ DOMAIN c = 1 .. Len(c) /\ Len(c) \in Nat
    BY <1>5, <2>1, LenProperties
  <2> QED
    BY <1>1, <2>1, <2>2
<1> QED
  BY <1>1, <1>3, <1>6 DEF c, Named

\* The parameters of a function have types, names, and no name twice.
LEMMA ParametersProperties ==
  ASSUME NEW h \in Headers, NEW args \in Seq(Arg), Len(args) = Len(h.formals), NEW n \in Nat,
         NEW m \in VarMap
  PROVE  LET p == Parameters(h, args, n, m) IN
         /\ p \in Seq(Param) /\ Named(p)
         /\ DistinctFormals(h) => NamedOnce(p)
<1> DEFINE skip == FormalNames(h)
           names == CapturedNames(m, skip)
           f == Formals(h, args, n)
           c == Captured(m, names)
           p == Parameters(h, args, n, m)
<1>1. p = f \o c
  BY DEF Parameters
<1>2. /\ f \in Seq(Param) /\ Len(f) = Len(h.formals) /\ Named(f)
      /\ \A i \in 1 .. Len(f) : f[i].name = h.formals[i].name /\ f[i].name \in skip
  BY FormalsType
<1>3. /\ names \in Seq(VarNames)
      /\ \A i \in 1 .. Len(names) : m[names[i]] # None /\ names[i] \notin skip
      /\ \A i, j \in 1 .. Len(names) : i # j => names[i] # names[j]
  <2> HIDE DEF skip
  <2> QED
    BY CapturedNamesProperties
<1> HIDE DEF names
<1>4. /\ c \in Seq(Param) /\ Len(c) = Len(names) /\ Named(c)
      /\ \A i \in 1 .. Len(c) : c[i].name = names[i]
  BY <1>3, CapturedType
<1>5. h.formals \in Seq(Formal) /\ DOMAIN h.formals = 1 .. Len(f)
  <2>1. h.formals \in Seq(Formal)
    BY GrammarAssumption
  <2> QED
    BY <1>2, <2>1, LenProperties
<1> HIDE DEF f, c, p, skip
<1>6. /\ p \in Seq(Param) /\ Len(p) = Len(f) + Len(c) /\ Len(f) \in Nat /\ Len(c) \in Nat
      /\ \A i \in 1 .. Len(f) : p[i] = f[i]
      /\ \A i \in 1 .. Len(c) : p[Len(f) + i] = c[i]
  <2>1. Len(f) \in Nat /\ Len(c) \in Nat
    BY <1>2, <1>4, LenProperties
  <2> DEFINE S == Param
  <2>2. f \in Seq(S) /\ c \in Seq(S)
    BY <1>2, <1>4
  <2> HIDE DEF S
  <2>3. /\ f \o c \in Seq(S) /\ Len(f \o c) = Len(f) + Len(c)
        /\ \A i \in 1 .. Len(f) + Len(c) : (f \o c)[i] = IF i <= Len(f) THEN f[i] ELSE c[i - Len(f)]
    BY <2>2, ConcatProperties
  <2>4. p \in Seq(Param) /\ Len(p) = Len(f) + Len(c)
    BY <1>1, <2>3 DEF S
  <2>5. \A i \in 1 .. Len(p) : p[i] = IF i <= Len(f) THEN f[i] ELSE c[i - Len(f)]
    BY <1>1, <2>3
  <2>6. \A i \in 1 .. Len(f) : i \in 1 .. Len(p) /\ i <= Len(f)
    BY <2>1, <2>4
  <2>7. \A i \in 1 .. Len(c) :
          /\ Len(f) + i \in 1 .. Len(p) /\ ~(Len(f) + i <= Len(f)) /\ (Len(f) + i) - Len(f) = i
    BY <2>1, <2>4
  <2> QED
    BY <2>1, <2>4, <2>5, <2>6, <2>7
<1>7. ASSUME NEW i \in 1 .. Len(p)
      PROVE  \/ i \in 1 .. Len(f) /\ p[i] = f[i]
             \/ i - Len(f) \in 1 .. Len(c) /\ p[i] = c[i - Len(f)]
  <2>1. CASE i <= Len(f)
    BY <1>6, <2>1
  <2>2. CASE i > Len(f)
    <3>1. i - Len(f) \in 1 .. Len(c) /\ Len(f) + (i - Len(f)) = i
      BY <1>6, <2>2
    <3>2. p[Len(f) + (i - Len(f))] = c[i - Len(f)]
      BY <1>6, <3>1
    <3> QED
      BY <3>1, <3>2
  <2> QED
    BY <1>6, <2>1, <2>2
<1>8. Named(p)
  BY <1>2, <1>4, <1>7 DEF Named
<1>9. ASSUME DistinctFormals(h), NEW i \in 1 .. Len(p), NEW j \in 1 .. Len(p), i # j
      PROVE  p[i].name # p[j].name
  <2>1. CASE i \in 1 .. Len(f) /\ p[i] = f[i] /\ j \in 1 .. Len(f) /\ p[j] = f[j]
    BY <1>2, <1>5, <1>9, <2>1 DEF DistinctFormals
  <2>2. ASSUME NEW k \in 1 .. Len(f), NEW l \in 1 .. Len(c)
        PROVE  f[k].name # c[l].name
    BY <1>2, <1>3, <1>4
  <2>3. CASE /\ i - Len(f) \in 1 .. Len(c) /\ p[i] = c[i - Len(f)]
             /\ j - Len(f) \in 1 .. Len(c) /\ p[j] = c[j - Len(f)]
    <3>1. i - Len(f) # j - Len(f)
      BY <1>6, <1>9
    <3> QED
      BY <1>3, <1>4, <2>3, <3>1
  <2> QED
    BY <1>7, <2>1, <2>2, <2>3
<1>10. DistinctFormals(h) => NamedOnce(p)
  BY <1>9 DEF NamedOnce
<1> QED
  BY <1>6, <1>8, <1>10 DEF p

LEMMA NewBlockType ==
  ASSUME NEW params \in Seq(Param), Named(params), NamedOnce(params),
         NEW signature \in Seq(Param), Len(signature) <= Len(params)
  PROVE  NewBlock(params, signature) \in Block
<1> DEFINE Index(x) == CHOOSE i \in DOMAIN params : params[i].name = x
           named == {params[i].name : i \in DOMAIN signature}
           slot == [x \in VarNames |->
                      IF x \in named
                      THEN [node |-> params[Index(x)].node, t |-> signature[Index(x)].t,
                            level |-> signature[Index(x)].level]
                      ELSE None]
           ref == {params[i].name : i \in {j \in DOMAIN params : params[j].level = 1}}
<1>1. /\ DOMAIN params = 1 .. Len(params) /\ DOMAIN signature = 1 .. Len(signature)
      /\ Len(params) \in Nat /\ Len(signature) \in Nat
  BY LenProperties
<1>2. ref \subseteq VarNames
  BY <1>1 DEF Named
<1>3. ASSUME NEW x \in named
      PROVE  [node |-> params[Index(x)].node, t |-> signature[Index(x)].t,
              level |-> signature[Index(x)].level] \in Slot
  <2>1. PICK i \in 1 .. Len(signature) : params[i].name = x
    BY <1>1
  <2>2. i \in 1 .. Len(params)
    BY <1>1
  <2>3. Index(x) \in 1 .. Len(params) /\ params[Index(x)].name = x
    BY <1>1, <2>1, <2>2
  <2>4. Index(x) = i
    <3> HIDE DEF Index
    <3> QED
      BY <2>1, <2>2, <2>3 DEF NamedOnce
  <2> HIDE DEF Index
  <2>5. params[Index(x)] \in Param /\ signature[Index(x)] \in Param
    BY <2>2, <2>4, ElementOfSeq
  <2> QED
    BY <2>5 DEF Param, Slot
<1>4. slot \in [VarNames -> Slot \cup {None}]
  <2> HIDE DEF named, Index
  <2> QED
    BY <1>3
<1>5. NewBlock(params, signature) = [ref |-> ref, slot |-> slot]
  BY DEF NewBlock
<1> HIDE DEF ref, slot
<1> QED
  BY <1>2, <1>4, <1>5 DEF Block

-----------------------------------------------------------------------------
(* The invariant of the generator.                                           *)

RuntimeScope(lf) == [FunNames -> DOMAIN lf \cup {None}]

Typed(rs, bs, lf) == rs \in Seq(RuntimeScope(lf)) /\ bs \in Seq(Block) /\ lf \in Seq(LFun)

\* The i-th LLVM function is that of f, or there is neither.
Same(f, i, lf) == IF f = None THEN i = None ELSE i # None /\ lf[i].fun = f

\* The RuntimeScopes rs know the functions that the tables m know.
Agree(m, rs, lf) ==
  /\ Len(rs) = Len(m.scopes)
  /\ \A k \in 1 .. Len(rs), n \in FunNames : Same(m.scopes[k].functions[n], rs[k][n], lf)

\* While code is emitted, the generator's tables are as deep as those before
\* the node it compiles, and find the same functions.
GenInv ==
  /\ emit \in {"emitting", "written", "broken"}
  /\ pc \in Nat /\ at \in Nat
  /\ Typed(rscopes, blocks, lfuns)
  /\ outcome # "accepted" => pc = 1 /\ emit = "emitting"
  /\ emit = "emitting" =>
       \E h : /\ History(ast, h) /\ pc \in 1 .. Len(ast) + 1
              /\ Agree(h[pc - 1], rscopes, lfuns)
              /\ Len(blocks) = Len(h[pc - 1].walk)

\* The functions of lf stay what they are in lg.
Extends(lf, lg) == \A j \in DOMAIN lf : j \in DOMAIN lg /\ lg[j] = lf[j]

\* insertFunc() into the RuntimeScopes rs.
Put(rs, n, i) == [rs EXCEPT ![Len(rs)][n] = i]

\* f is registered under n as the i-th function of lg, which extends lf.
LEMMA RegisterAgrees ==
  ASSUME NEW m, NEW t, NEW lf \in Seq(LFun), NEW lg \in Seq(LFun),
         NEW rs \in Seq(RuntimeScope(lf)), Len(rs) > 0, Agree(m, rs, lf),
         Extends(lf, lg), NEW n \in FunNames, NEW f, NEW i \in DOMAIN lg, lg[i].fun = f,
         Registered(m.scopes, t, n, f)
  PROVE  /\ Put(rs, n, i) \in Seq(RuntimeScope(lg)) /\ Len(Put(rs, n, i)) = Len(rs)
         /\ \A k \in 1 .. Len(rs), x \in FunNames :
              Same(t[k].functions[x], Put(rs, n, i)[k][x], lg)
<1> DEFINE L == Len(rs)
           new == Put(rs, n, i)
<1>1. L \in Nat /\ DOMAIN rs = 1 .. L /\ L \in 1 .. L
  BY LenProperties
<1>2. \A k \in 1 .. L : rs[k] \in RuntimeScope(lf)
  BY <1>1, ElementOfSeq
<1>3. rs[L] \in RuntimeScope(lf)
  BY <1>1, <1>2
<1>4. /\ DOMAIN new = 1 .. L /\ \A k \in 1 .. L : k # L => new[k] = rs[k]
      /\ new[L] = [rs[L] EXCEPT ![n] = i]
  BY <1>1 DEF Put
<1>5. \A x \in FunNames : new[L][x] = IF x = n THEN i ELSE rs[L][x]
  BY <1>3, <1>4 DEF RuntimeScope
<1>6. RuntimeScope(lf) \subseteq RuntimeScope(lg)
  BY DEF RuntimeScope, Extends
<1>7. [rs[L] EXCEPT ![n] = i] \in RuntimeScope(lg)
  BY <1>3, <1>6 DEF RuntimeScope
<1>8. \A k \in 1 .. L : new[k] \in RuntimeScope(lg)
  BY <1>2, <1>4, <1>6, <1>7
<1>9. new = [k \in 1 .. L |-> new[k]]
  BY <1>1 DEF Put
<1> HIDE DEF new
<1>10. new \in Seq(RuntimeScope(lg)) /\ Len(new) = L
  <2> DEFINE S == RuntimeScope(lg)
  <2>1. new \in [1 .. L -> S]
    BY <1>8, <1>9
  <2> HIDE DEF S, L
  <2>2. new \in Seq(S)
    BY <1>1, <2>1, SeqDef
  <2>3. DOMAIN new = 1 .. L /\ DOMAIN new = 1 .. Len(new) /\ Len(new) \in Nat
    BY <1>4, <2>2, LenProperties
  <2> QED
    BY <1>1, <2>2, <2>3 DEF S
<1>11. /\ f \in Nat /\ f # None /\ i # None /\ Len(m.scopes) = L
       /\ \A k \in 1 .. L, x \in FunNames :
            t[k].functions[x] = IF k = L /\ x = n THEN f ELSE m.scopes[k].functions[x]
  <2>1. i \in Nat
    BY LenProperties
  <2> QED
    BY <2>1, NameAssumption DEF Registered, Agree
<1>12. ASSUME NEW k \in 1 .. L, NEW x \in FunNames
       PROVE  Same(t[k].functions[x], new[k][x], lg)
  <2>1. CASE k = L /\ x = n
    BY <1>5, <1>11, <2>1 DEF Same
  <2>2. CASE ~(k = L /\ x = n)
    <3>1. t[k].functions[x] = m.scopes[k].functions[x] /\ new[k][x] = rs[k][x]
      BY <1>4, <1>5, <1>11, <2>2
    <3>2. Same(m.scopes[k].functions[x], rs[k][x], lf)
      BY DEF Agree
    <3>3. rs[k][x] # None => lg[rs[k][x]] = lf[rs[k][x]]
      BY <1>2 DEF RuntimeScope, Extends
    <3> QED
      BY <3>1, <3>2, <3>3 DEF Same
  <2> QED
    BY <2>1, <2>2
<1> QED
  BY <1>10, <1>12 DEF new

\* A broken generator has empty state.
LEMMA BreakStep ==
  ASSUME outcome = "accepted", Break, UNCHANGED vars
  PROVE  GenInv'
<1>1. <<>> \in Seq(RuntimeScope(<<>>)) /\ <<>> \in Seq(Block) /\ <<>> \in Seq(LFun)
  BY EmptySeq
<1>2. Typed(<<>>, <<>>, <<>>)
  BY <1>1 DEF Typed
<1> QED
  BY <1>2 DEF Break, GenInv, vars

\* The generator goes on to the node `next`, with tables that agree there.
LEMMA GoOn ==
  ASSUME outcome = "accepted", emit = "emitting", UNCHANGED <<vars, emit>>,
         NEW h, History(ast, h), NEW next \in 1 .. Len(ast) + 1, pc' = next,
         at' \in Nat, Typed(rscopes', blocks', lfuns'),
         Agree(h[next - 1], rscopes', lfuns'), Len(blocks') = Len(h[next - 1].walk)
  PROVE  GenInv'
<1>1. next \in Nat
  OBVIOUS
<1>2. ast' = ast /\ outcome' = outcome /\ emit' = emit
  BY DEF vars
<1> QED
  BY <1>1, <1>2 DEF GenInv

\* What is known while the node at pc is compiled.
LEMMA AtNode ==
  ASSUME HInv, GenInv, Emitting, pc \in DOMAIN ast
  PROVE  \E h : /\ History(ast, h)
                /\ pc \in 1 .. Len(ast) /\ pc + 1 \in 1 .. Len(ast) + 1 /\ (pc + 1) - 1 = pc
                /\ h[pc - 1] \in Moment /\ h[pc] \in Moment
                /\ Node1 \in Node /\ Moves(Node1, h[pc - 1], h[pc])
                /\ Len(h[pc - 1].scopes) = Len(h[pc - 1].walk) + 2
                /\ Agree(h[pc - 1], rscopes, lfuns) /\ Len(blocks) = Len(h[pc - 1].walk)
<1>1. ast \in Seq(Node) /\ DOMAIN ast = 1 .. Len(ast) /\ Len(ast) \in Nat
  BY LenProperties DEF HInv, IInv, TypeOK
<1>2. PICK h : /\ History(ast, h)
               /\ Agree(h[pc - 1], rscopes, lfuns) /\ Len(blocks) = Len(h[pc - 1].walk)
  BY DEF Emitting, GenInv
<1>3. pc \in 1 .. Len(ast) /\ pc - 1 \in 0 .. Len(ast) /\ pc \in 0 .. Len(ast)
  BY <1>1
<1>4. pc + 1 \in 1 .. Len(ast) + 1 /\ (pc + 1) - 1 = pc
  BY <1>1
<1>5. Node1 \in Node
  BY <1>1, <1>3, ElementOfSeq DEF Node1
<1>6. /\ h[pc - 1] \in Moment /\ h[pc] \in Moment
      /\ Len(h[pc - 1].scopes) = Len(h[pc - 1].walk) + 2
      /\ Moves(Node1, h[pc - 1], h[pc])
  BY <1>2, <1>3 DEF History, Node1
<1> QED
  BY <1>2, <1>3, <1>4, <1>5, <1>6

\* The sizes of the generator's tables.
LEMMA TableSizes ==
  ASSUME GenInv, NEW m \in Moment, Len(m.scopes) = Len(m.walk) + 2,
         Agree(m, rscopes, lfuns), Len(blocks) = Len(m.walk)
  PROVE  /\ Len(rscopes) \in Nat /\ Len(blocks) \in Nat /\ Len(rscopes) = Len(blocks) + 2
         /\ DOMAIN rscopes = 1 .. Len(rscopes) /\ DOMAIN blocks = 1 .. Len(blocks)
         /\ DOMAIN lfuns = 1 .. Len(lfuns) /\ Len(lfuns) \in Nat
         /\ rscopes \in Seq(RuntimeScope(lfuns)) /\ blocks \in Seq(Block) /\ lfuns \in Seq(LFun)
         /\ Len(m.scopes) = Len(rscopes) /\ m.walk \in Seq({"defs", "body"})
<1>1. rscopes \in Seq(RuntimeScope(lfuns)) /\ blocks \in Seq(Block) /\ lfuns \in Seq(LFun)
  BY DEF GenInv, Typed
<1>2. m.walk \in Seq({"defs", "body"})
  BY DEF Moment
<1>3. Len(m.scopes) = Len(rscopes)
  BY DEF Agree
<1> QED
  BY <1>1, <1>2, <1>3, LenProperties

\* A header and captures that the tape refers to.
LEMMA HeaderAt ==
  ASSUME HInv, pc \in 1 .. Len(ast), Node1 \in Node, Node1.op \in {"define", "declare"}
  PROVE  /\ Node1.header \in Headers /\ Node1.name \in FunNames /\ Node1.fun \in Nat
         /\ Node1.fun \in DOMAIN ftypes /\ ftypes[Node1.fun].prev \in VarMap
<1>1. Node1.header \in Headers /\ Node1.name \in FunNames /\ Node1.fun \in Nat
  BY DEF Node
<1>2. Node1.fun \in DOMAIN ftypes
  BY DEF HInv, FunctionsKnown, Node1
<1>3. ftypes[Node1.fun] \in FType
  BY <1>2, LenProperties, ElementOfSeq DEF HInv, IInv, TypeOK
<1> QED
  BY <1>1, <1>2, <1>3 DEF FType

LEMMA ArgsLength ==
  ASSUME NEW h \in Headers
  PROVE  /\ DefArgs(h) \in Seq(Arg) /\ Len(DefArgs(h)) = Len(h.formals)
         /\ DeclArgs(h) \in Seq(Arg) /\ Len(DeclArgs(h)) = Len(h.formals)
<1>1. h.formals \in Seq(Formal)
  BY GrammarAssumption
<1>2. /\ Len(h.formals) \in Nat
      /\ DOMAIN DefArgs(h) = 1 .. Len(h.formals) /\ DOMAIN DeclArgs(h) = 1 .. Len(h.formals)
  BY <1>1, LenProperties DEF DefArgs, DeclArgs
<1>3. DefArgs(h) \in Seq(Arg) /\ DeclArgs(h) \in Seq(Arg)
  BY ArgsType
<1> QED
  BY <1>2, <1>3, LenProperties

-----------------------------------------------------------------------------
(* The actions of the generator.                                             *)

LEMMA DeclarationKeeps ==
  ASSUME HInv, GenInv, CompileDeclaration, UNCHANGED vars
  PROVE  GenInv'
<1> DEFINE hd == Node1.header
           params == Parameters(hd, DeclArgs(hd), pc, ftypes[Node1.fun].prev)
           r  == [fun |-> Node1.fun, params |-> params]
           lg == Append(lfuns, r)
           i  == Len(lfuns) + 1
           new == Put(rscopes, Node1.name, i)
<1>1. /\ Emitting /\ pc \in DOMAIN ast /\ Node1.op = "declare"
      /\ lfuns' = lg /\ rscopes' = new /\ pc' = pc + 1 /\ UNCHANGED <<emit, blocks, at>>
  BY DEF CompileDeclaration, Compiling, Advance, InsertRuntimeFunc, Put
<1>2. PICK h : /\ History(ast, h)
               /\ pc \in 1 .. Len(ast) /\ pc + 1 \in 1 .. Len(ast) + 1 /\ (pc + 1) - 1 = pc
               /\ h[pc - 1] \in Moment /\ h[pc] \in Moment
               /\ Node1 \in Node /\ Moves(Node1, h[pc - 1], h[pc])
               /\ Len(h[pc - 1].scopes) = Len(h[pc - 1].walk) + 2
               /\ Agree(h[pc - 1], rscopes, lfuns) /\ Len(blocks) = Len(h[pc - 1].walk)
  BY <1>1, AtNode
<1> DEFINE a == h[pc - 1]
           b == h[pc]
<1>3. /\ hd \in Headers /\ Node1.name \in FunNames /\ Node1.fun \in Nat
      /\ ftypes[Node1.fun].prev \in VarMap
  BY <1>1, <1>2, HeaderAt
<1>4. pc \in Nat
  BY DEF GenInv
<1>5. params \in Seq(Param)
  <2> DEFINE args == DeclArgs(hd)
             m == ftypes[Node1.fun].prev
  <2>1. args \in Seq(Arg) /\ Len(args) = Len(hd.formals) /\ m \in VarMap
    BY <1>3, ArgsLength
  <2>2. params = Parameters(hd, args, pc, m)
    OBVIOUS
  <2> HIDE DEF args, m, hd, params
  <2> QED
    BY <1>3, <1>4, <2>1, <2>2, ParametersProperties
<1> HIDE DEF params, hd
<1>6. /\ Len(rscopes) \in Nat /\ Len(rscopes) = Len(blocks) + 2 /\ Len(blocks) \in Nat
      /\ lfuns \in Seq(LFun) /\ Len(lfuns) \in Nat /\ DOMAIN lfuns = 1 .. Len(lfuns)
      /\ rscopes \in Seq(RuntimeScope(lfuns)) /\ blocks \in Seq(Block)
      /\ Len(a.scopes) = Len(rscopes)
  BY <1>2, TableSizes
<1>7. r \in LFun /\ r.fun = Node1.fun
  BY <1>3, <1>5 DEF LFun
<1> HIDE DEF r
<1>8. /\ lg \in Seq(LFun) /\ i \in DOMAIN lg /\ lg[i] = r
      /\ \A j \in DOMAIN lfuns : j \in DOMAIN lg /\ lg[j] = lfuns[j]
  <2>1. lg \in Seq(LFun) /\ Len(lg) = i /\ lg[i] = r /\ \A j \in 1 .. Len(lfuns) : lg[j] = lfuns[j]
    BY <1>6, <1>7, AppendProperties
  <2>2. DOMAIN lg = 1 .. i
    BY <2>1, LenProperties
  <2> QED
    BY <1>6, <2>1, <2>2
<1>9. /\ Registered(a.scopes, b.scopes, Node1.name, Node1.fun)
      /\ Len(b.scopes) = Len(a.scopes) /\ b.walk = a.walk
  BY <1>1, <1>2 DEF Moves
<1> HIDE DEF lg, i
<1>10. /\ new \in Seq(RuntimeScope(lg)) /\ Len(new) = Len(rscopes)
       /\ \A k \in 1 .. Len(rscopes), x \in FunNames :
            Same(b.scopes[k].functions[x], new[k][x], lg)
  <2>1. Len(rscopes) > 0 /\ lg[i].fun = Node1.fun
    BY <1>6, <1>7, <1>8
  <2> HIDE DEF a, b, new
  <2> DEFINE n == Node1.name
             f == Node1.fun
             t == b.scopes
  <2>2. n \in FunNames /\ lg[i].fun = f /\ Registered(a.scopes, t, n, f)
    BY <1>3, <1>9, <2>1
  <2>3. new = Put(rscopes, n, i) /\ Agree(a, rscopes, lfuns)
    BY <1>2 DEF new, a
  <2> HIDE DEF n, f, t
  <2>4. lfuns \in Seq(LFun) /\ lg \in Seq(LFun) /\ i \in DOMAIN lg
    BY <1>6, <1>8
  <2>5. Extends(lfuns, lg)
    BY <1>8 DEF Extends
  <2>6. rscopes \in Seq(RuntimeScope(lfuns)) /\ Len(rscopes) > 0 /\ Agree(a, rscopes, lfuns)
    BY <1>6, <2>1, <2>3
  <2>7. /\ Put(rscopes, n, i) \in Seq(RuntimeScope(lg)) /\ Len(Put(rscopes, n, i)) = Len(rscopes)
        /\ \A k \in 1 .. Len(rscopes), x \in FunNames :
             Same(t[k].functions[x], Put(rscopes, n, i)[k][x], lg)
    BY <2>2, <2>4, <2>5, <2>6, RegisterAgrees
  <2> QED
    BY <2>3, <2>7 DEF t
<1> HIDE DEF new
<1>11. Agree(b, new, lg) /\ Len(blocks) = Len(b.walk)
  BY <1>2, <1>6, <1>9, <1>10 DEF Agree
<1>12. Typed(new, blocks, lg)
  BY <1>6, <1>8, <1>10 DEF Typed
<1>13. at' \in Nat
  BY <1>1 DEF GenInv
<1> DEFINE next == pc + 1
<1>14. next \in 1 .. Len(ast) + 1 /\ h[next - 1] = b
  BY <1>2
<1>15. /\ Agree(h[next - 1], rscopes', lfuns') /\ Len(blocks') = Len(h[next - 1].walk)
       /\ Typed(rscopes', blocks', lfuns')
  BY <1>1, <1>11, <1>12, <1>14
<1>16. pc' = next /\ outcome = "accepted" /\ emit = "emitting" /\ UNCHANGED <<vars, emit>>
  BY <1>1 DEF Emitting
<1> HIDE DEF b, next
<1> QED
  BY <1>2, <1>13, <1>14, <1>15, <1>16, GoOn

\* A new LLVM function comes behind the others.
LEMMA NewFunction ==
  ASSUME NEW lf \in Seq(LFun), NEW r \in LFun
  PROVE  LET lg == Append(lf, r) IN
         /\ lg \in Seq(LFun) /\ Len(lf) + 1 \in DOMAIN lg /\ lg[Len(lf) + 1] = r
         /\ \A j \in DOMAIN lf : j \in DOMAIN lg /\ lg[j] = lf[j]
<1> DEFINE lg == Append(lf, r)
<1>1. /\ lg \in Seq(LFun) /\ Len(lg) = Len(lf) + 1 /\ lg[Len(lf) + 1] = r
      /\ \A j \in 1 .. Len(lf) : lg[j] = lf[j]
  BY AppendProperties
<1>2. /\ DOMAIN lf = 1 .. Len(lf) /\ Len(lf) \in Nat
      /\ DOMAIN lg = 1 .. Len(lf) + 1
  BY <1>1, LenProperties
<1> HIDE DEF lg
<1>3. Len(lf) + 1 \in DOMAIN lg /\ \A j \in DOMAIN lf : j \in DOMAIN lg
  BY <1>2
<1> QED
  BY <1>1, <1>2, <1>3 DEF lg

\* The scope that a definition opens knows no functions.
LEMMA OpenAgrees ==
  ASSUME NEW b, NEW lf, NEW rs \in Seq(RuntimeScope(lf)), Len(b.scopes) = Len(rs) + 1,
         \A k \in 1 .. Len(rs), x \in FunNames : Same(b.scopes[k].functions[x], rs[k][x], lf),
         b.scopes[Len(b.scopes)].functions = NoFuns
  PROVE  Append(rs, NoFuns) \in Seq(RuntimeScope(lf)) /\ Agree(b, Append(rs, NoFuns), lf)
<1> DEFINE new == Append(rs, NoFuns)
           S   == RuntimeScope(lf)
<1>1. NoFuns \in S
  BY DEF NoFuns, RuntimeScope
<1> HIDE DEF S
<1>2. /\ new \in Seq(S) /\ Len(new) = Len(rs) + 1 /\ new[Len(rs) + 1] = NoFuns
      /\ \A k \in 1 .. Len(rs) : new[k] = rs[k]
  BY <1>1, AppendProperties DEF S
<1>3. Len(rs) \in Nat
  BY LenProperties
<1>4. \A k \in 1 .. Len(rs) + 1 : k = Len(rs) + 1 \/ k \in 1 .. Len(rs)
  BY <1>3
<1> HIDE DEF new
<1>5. ASSUME NEW k \in 1 .. Len(new), NEW x \in FunNames
      PROVE  Same(b.scopes[k].functions[x], new[k][x], lf)
  <2>1. CASE k = Len(rs) + 1
    BY <1>2, <2>1 DEF NoFuns, Same
  <2>2. CASE k \in 1 .. Len(rs)
    BY <1>2, <2>2
  <2> QED
    BY <1>2, <1>4, <2>1, <2>2
<1> QED
  BY <1>2, <1>5 DEF new, S, Agree

LEMMA DefinitionKeeps ==
  ASSUME HInv, GenInv, CompileDefinition, UNCHANGED vars
  PROVE  GenInv'
<1> DEFINE hd == Node1.header
           params == Parameters(hd, DefArgs(hd), pc, ftypes[Node1.fun].prev)
           known == GetFunCurrentScope(Node1.name)
           signature == IF known = None THEN params ELSE lfuns[known].params
           r  == [fun |-> Node1.fun, params |-> params]
           lg == IF known # None THEN lfuns ELSE Append(lfuns, r)
           i  == IF known # None THEN known ELSE Len(lfuns) + 1
           mid == Put(rscopes, Node1.name, i)
           block == NewBlock(params, signature)
<1>1. Emitting /\ pc \in DOMAIN ast /\ Node1.op = "define" /\ outcome = "accepted" /\ emit = "emitting"
  BY DEF CompileDefinition, Compiling, Emitting
<1>2. CASE Len(signature) > Len(params)
  <2>1. Break
    BY <1>2 DEF CompileDefinition
  <2> QED
    BY <1>1, <2>1, BreakStep
<1>3. CASE ~(Len(signature) > Len(params))
  <2>1. /\ lfuns' = lg /\ rscopes' = Append(mid, NoFuns) /\ blocks' = Append(blocks, block)
        /\ at' = Len(blocks) + 1 /\ pc' = pc + 1 /\ emit' = emit
    BY <1>3 DEF CompileDefinition, Advance, InsertRuntimeFunc, Put
  <2>2. PICK h : /\ History(ast, h)
                 /\ pc \in 1 .. Len(ast) /\ pc + 1 \in 1 .. Len(ast) + 1 /\ (pc + 1) - 1 = pc
                 /\ h[pc - 1] \in Moment /\ h[pc] \in Moment
                 /\ Node1 \in Node /\ Moves(Node1, h[pc - 1], h[pc])
                 /\ Len(h[pc - 1].scopes) = Len(h[pc - 1].walk) + 2
                 /\ Agree(h[pc - 1], rscopes, lfuns) /\ Len(blocks) = Len(h[pc - 1].walk)
    BY <1>1, AtNode
  <2> DEFINE a == h[pc - 1]
             b == h[pc]
  <2>3. /\ hd \in Headers /\ Node1.name \in FunNames /\ Node1.fun \in Nat
        /\ ftypes[Node1.fun].prev \in VarMap
    BY <1>1, <2>2, HeaderAt
  <2>4. /\ Registered(a.scopes, b.scopes, Node1.name, Node1.fun)
        /\ Len(b.scopes) = Len(a.scopes) + 1 /\ b.walk = Append(a.walk, "defs")
        /\ b.scopes[Len(b.scopes)].functions = NoFuns /\ DistinctFormals(hd)
    BY <1>1, <2>2 DEF Moves
  <2>5. params \in Seq(Param) /\ Named(params) /\ NamedOnce(params)
    <3> DEFINE args == DefArgs(hd)
               m == ftypes[Node1.fun].prev
    <3>1. args \in Seq(Arg) /\ Len(args) = Len(hd.formals) /\ m \in VarMap
      BY <2>3, ArgsLength
    <3>2. params = Parameters(hd, args, pc, m) /\ pc \in Nat
      BY DEF GenInv
    <3> HIDE DEF args, m, hd, params
    <3> QED
      BY <2>3, <2>4, <3>1, <3>2, ParametersProperties
  <2> HIDE DEF params
  <2>6. /\ Len(rscopes) \in Nat /\ Len(rscopes) = Len(blocks) + 2 /\ Len(blocks) \in Nat
        /\ lfuns \in Seq(LFun) /\ DOMAIN lfuns = 1 .. Len(lfuns)
        /\ rscopes \in Seq(RuntimeScope(lfuns)) /\ blocks \in Seq(Block)
        /\ DOMAIN rscopes = 1 .. Len(rscopes) /\ Len(a.scopes) = Len(rscopes)
        /\ a.walk \in Seq({"defs", "body"})
    BY <2>2, TableSizes
  <2>7. Len(rscopes) \in 1 .. Len(rscopes) /\ Len(rscopes) > 0
    BY <2>6
  <2>8. known \in DOMAIN lfuns \cup {None}
    <3>1. rscopes[Len(rscopes)] \in RuntimeScope(lfuns)
      BY <2>6, <2>7, ElementOfSeq
    <3> QED
      BY <2>3, <3>1 DEF GetFunCurrentScope, RuntimeScope
  <2>9. known # None => lfuns[known] \in LFun /\ lfuns[known].fun = Node1.fun
    <3>1. Same(a.scopes[Len(rscopes)].functions[Node1.name], known, lfuns)
      BY <2>2, <2>3, <2>7 DEF Agree, GetFunCurrentScope
    <3>2. a.scopes[Len(rscopes)].functions[Node1.name] \in {None, Node1.fun}
      BY <2>4, <2>6 DEF Registered
    <3>3. known # None => lfuns[known] \in LFun
      BY <2>6, <2>8, ElementOfSeq
    <3> QED
      BY <3>1, <3>2, <3>3 DEF Same
  <2> HIDE DEF known
  <2>10. signature \in Seq(Param) /\ Len(signature) <= Len(params)
    <3>1. signature \in Seq(Param)
      BY <2>5, <2>9 DEF LFun
    <3> HIDE DEF signature
    <3> QED
      BY <1>3, <2>5, <3>1, LenProperties
  <2> HIDE DEF signature
  <2>11. block \in Block
    BY <2>5, <2>10, NewBlockType
  <2> HIDE DEF block
  <2>12. r \in LFun /\ r.fun = Node1.fun
    BY <2>3, <2>5 DEF LFun
  <2> HIDE DEF r
  <2>13. /\ lg \in Seq(LFun) /\ i \in DOMAIN lg /\ lg[i].fun = Node1.fun
         /\ \A j \in DOMAIN lfuns : j \in DOMAIN lg /\ lg[j] = lfuns[j]
    <3>1. CASE known # None
      BY <2>6, <2>8, <2>9, <3>1
    <3>2. CASE known = None
      <4>1. lg = Append(lfuns, r) /\ i = Len(lfuns) + 1
        BY <3>2
      <4> HIDE DEF lg, i
      <4> QED
        BY <2>6, <2>12, <4>1, NewFunction
    <3> QED
      BY <3>1, <3>2
  <2> HIDE DEF lg, i
  <2>14. /\ mid \in Seq(RuntimeScope(lg)) /\ Len(mid) = Len(rscopes)
         /\ \A k \in 1 .. Len(rscopes), x \in FunNames :
              Same(b.scopes[k].functions[x], mid[k][x], lg)
    <3> DEFINE n == Node1.name
               f == Node1.fun
               t == b.scopes
    <3>1. /\ n \in FunNames /\ lg[i].fun = f /\ Registered(a.scopes, t, n, f)
          /\ mid = Put(rscopes, n, i) /\ Agree(a, rscopes, lfuns)
      BY <2>2, <2>3, <2>4, <2>13
    <3> HIDE DEF n, f, t, a, b, mid
    <3>2. lfuns \in Seq(LFun) /\ lg \in Seq(LFun) /\ i \in DOMAIN lg
      BY <2>6, <2>13
    <3>3. Extends(lfuns, lg)
      BY <2>13 DEF Extends
    <3>4. rscopes \in Seq(RuntimeScope(lfuns)) /\ Len(rscopes) > 0 /\ Agree(a, rscopes, lfuns)
      BY <2>6, <2>7, <3>1
    <3>5. n \in FunNames /\ lg[i].fun = f /\ Registered(a.scopes, t, n, f)
      BY <3>1
    <3>6. /\ Put(rscopes, n, i) \in Seq(RuntimeScope(lg))
          /\ Len(Put(rscopes, n, i)) = Len(rscopes)
          /\ \A k \in 1 .. Len(rscopes), x \in FunNames :
               Same(t[k].functions[x], Put(rscopes, n, i)[k][x], lg)
      <4>1. Put(rscopes, n, i) \in Seq(RuntimeScope(lg))
        BY <3>2, <3>3, <3>4, <3>5, RegisterAgrees
      <4>2. Len(Put(rscopes, n, i)) = Len(rscopes)
        BY <3>4 DEF Put
      <4>3. \A k \in 1 .. Len(rscopes), x \in FunNames :
               Same(t[k].functions[x], Put(rscopes, n, i)[k][x], lg)
        BY <3>2, <3>3, <3>4, <3>5, RegisterAgrees
      <4> QED
        BY <4>1, <4>2, <4>3
    <3> QED
      BY <3>1, <3>6 DEF t
  <2> HIDE DEF mid
  <2>15. Append(mid, NoFuns) \in Seq(RuntimeScope(lg)) /\ Agree(b, Append(mid, NoFuns), lg)
    <3>1. Len(b.scopes) = Len(mid) + 1
      BY <2>4, <2>6, <2>14
    <3>2. b.scopes[Len(b.scopes)].functions = NoFuns
      BY <2>4
    <3> HIDE DEF b
    <3> QED
      BY <2>14, <3>1, <3>2, OpenAgrees
  <2>16. Append(blocks, block) \in Seq(Block) /\ Len(Append(blocks, block)) = Len(b.walk)
    <3>1. Append(blocks, block) \in Seq(Block) /\ Len(Append(blocks, block)) = Len(blocks) + 1
      BY <2>6, <2>11, AppendProperties
    <3>2. Len(Append(a.walk, "defs")) = Len(a.walk) + 1
      BY <2>6
    <3> QED
      BY <2>2, <2>4, <3>1, <3>2
  <2> DEFINE next == pc + 1
  <2>17. next \in 1 .. Len(ast) + 1 /\ h[next - 1] = b
    BY <2>2
  <2>18. /\ Agree(h[next - 1], rscopes', lfuns') /\ Len(blocks') = Len(h[next - 1].walk)
         /\ Typed(rscopes', blocks', lfuns')
    BY <2>1, <2>13, <2>15, <2>16, <2>17 DEF Typed
  <2>19. pc' = next /\ at' \in Nat /\ UNCHANGED <<vars, emit>>
    BY <2>1, <2>6
  <2> HIDE DEF b, next
  <2> QED
    BY <1>1, <2>2, <2>17, <2>18, <2>19, GoOn
<1> QED
  BY <1>2, <1>3

\* A node that opens and closes nothing leaves the agreement as it is.
LEMMA StaysInAgreement ==
  ASSUME NEW node, node.op \in Statements \cup {"var"}, NEW a \in Moment, NEW b,
         Moves(node, a, b), NEW rs, NEW lf, Agree(a, rs, lf)
  PROVE  Agree(b, rs, lf) /\ Len(b.walk) = Len(a.walk)
<1>1. Len(b.scopes) = Len(a.scopes) /\ SameFunctions(a.scopes, b.scopes, Len(a.scopes))
  BY DEF Moves
<1>2. b.walk = a.walk \/ b.walk = [a.walk EXCEPT ![Len(a.walk)] = "body"]
  BY DEF Moves
<1>3. a.walk \in Seq({"defs", "body"})
  BY DEF Moment
<1>4. Len(b.walk) = Len(a.walk)
  BY <1>2, <1>3
<1>5. Agree(b, rs, lf)
  BY <1>1 DEF Agree, SameFunctions
<1> QED
  BY <1>4, <1>5

LEMMA VarListKeeps ==
  ASSUME HInv, GenInv, CompileVarList, UNCHANGED vars
  PROVE  GenInv'
<1>1. Emitting /\ pc \in DOMAIN ast /\ Node1.op = "var" /\ outcome = "accepted" /\ emit = "emitting"
  BY DEF CompileVarList, Compiling, Emitting
<1>2. CASE at # Len(blocks)
  BY <1>1, <1>2, BreakStep DEF CompileVarList
<1>3. CASE at = Len(blocks)
  <2> DEFINE L   == Len(blocks)
             ids == Elements(Node1.ids)
             new == [node |-> pc, t |-> Node1.type.t, level |-> 0]
             ref == IF Node1.type.pass = "ref" THEN Block1.ref \cup ids ELSE Block1.ref \ ids
             slot == [x \in VarNames |-> IF x \in ids THEN new ELSE Block1.slot[x]]
             block == [ref |-> ref, slot |-> slot]
             bs == [blocks EXCEPT ![L] = block]
  <2>1. /\ blocks' = bs /\ pc' = pc + 1 /\ UNCHANGED <<emit, rscopes, lfuns, at>>
    BY <1>3 DEF CompileVarList, Advance, Block1
  <2>2. PICK h : /\ History(ast, h)
                 /\ pc \in 1 .. Len(ast) /\ pc + 1 \in 1 .. Len(ast) + 1 /\ (pc + 1) - 1 = pc
                 /\ h[pc - 1] \in Moment /\ h[pc] \in Moment
                 /\ Node1 \in Node /\ Moves(Node1, h[pc - 1], h[pc])
                 /\ Len(h[pc - 1].scopes) = Len(h[pc - 1].walk) + 2
                 /\ Agree(h[pc - 1], rscopes, lfuns) /\ Len(blocks) = Len(h[pc - 1].walk)
    BY <1>1, AtNode
  <2> DEFINE a == h[pc - 1]
             b == h[pc]
  <2>3. /\ L \in Nat /\ blocks \in Seq(Block) /\ a.walk \in Seq({"defs", "body"})
        /\ rscopes \in Seq(RuntimeScope(lfuns)) /\ lfuns \in Seq(LFun)
    BY <2>2, TableSizes
  <2>4. L \in 1 .. L
    <3>1. a.walk # <<>>
      BY <1>1, <2>2 DEF Moves, At
    <3> QED
      BY <2>2, <2>3, <3>1, EmptySeq
  <2>5. Block1 \in Block
    BY <2>3, <2>4, ElementOfSeq DEF Block1
  <2>6. ids \subseteq VarNames /\ new \in Slot
    <3>1. Node1.ids \in IdLists /\ Node1.type \in VarType
      BY <1>1, <2>2 DEF Node
    <3>2. Node1.ids \in Seq(VarNames)
      BY <3>1, GrammarAssumption
    <3>3. ids \subseteq VarNames
      BY <3>2, LenProperties, ElementOfSeq DEF Elements
    <3> QED
      BY <3>1, <3>3 DEF Slot, VarType, GenInv
  <2> HIDE DEF ids, new
  <2>7. block \in Block
    BY <2>5, <2>6 DEF Block
  <2> HIDE DEF block
  <2>8. bs \in Seq(Block) /\ Len(bs) = L
    BY <2>3, <2>4, <2>7, ExceptSeq
  <2> HIDE DEF bs
  <2>9. Agree(b, rscopes, lfuns) /\ Len(b.walk) = Len(a.walk)
    BY <1>1, <2>2, StaysInAgreement
  <2> DEFINE next == pc + 1
  <2>10. next \in 1 .. Len(ast) + 1 /\ h[next - 1] = b
    BY <2>2
  <2>11. /\ Agree(h[next - 1], rscopes', lfuns') /\ Len(blocks') = Len(h[next - 1].walk)
         /\ Typed(rscopes', blocks', lfuns')
    BY <2>1, <2>2, <2>3, <2>8, <2>9, <2>10 DEF Typed
  <2>12. pc' = next /\ at' \in Nat /\ UNCHANGED <<vars, emit>>
    BY <2>1 DEF GenInv
  <2> HIDE DEF b, next
  <2> QED
    BY <1>1, <2>2, <2>10, <2>11, <2>12, GoOn
<1> QED
  BY <1>2, <1>3

\* A statement leaves the generator's tables alone, and goes on behind itself.
LEMMA StatementCompiles ==
  ASSUME HInv, GenInv, Emitting, pc \in DOMAIN ast, Node1.op \in Statements,
         CompileStatement, Advance, UNCHANGED vars
  PROVE  GenInv'
<1>1. PICK h : /\ History(ast, h)
               /\ pc \in 1 .. Len(ast) /\ pc + 1 \in 1 .. Len(ast) + 1 /\ (pc + 1) - 1 = pc
               /\ h[pc - 1] \in Moment /\ h[pc] \in Moment
               /\ Node1 \in Node /\ Moves(Node1, h[pc - 1], h[pc])
               /\ Len(h[pc - 1].scopes) = Len(h[pc - 1].walk) + 2
               /\ Agree(h[pc - 1], rscopes, lfuns) /\ Len(blocks) = Len(h[pc - 1].walk)
  BY AtNode
<1> DEFINE a == h[pc - 1]
           b == h[pc]
           next == pc + 1
<1>2. /\ at' = Len(blocks) /\ UNCHANGED <<rscopes, blocks, lfuns, emit>> /\ pc' = next
      /\ outcome = "accepted" /\ emit = "emitting"
  BY DEF CompileStatement, Advance, Emitting
<1>3. Len(blocks) \in Nat /\ Typed(rscopes, blocks, lfuns)
  BY <1>1, TableSizes DEF GenInv
<1>4. Agree(b, rscopes, lfuns) /\ Len(b.walk) = Len(a.walk)
  BY <1>1, StaysInAgreement
<1>5. next \in 1 .. Len(ast) + 1 /\ h[next - 1] = b
  BY <1>1
<1>6. /\ Agree(h[next - 1], rscopes', lfuns') /\ Len(blocks') = Len(h[next - 1].walk)
      /\ Typed(rscopes', blocks', lfuns') /\ at' \in Nat
  BY <1>1, <1>2, <1>3, <1>4, <1>5
<1> HIDE DEF b, next
<1> QED
  BY <1>1, <1>2, <1>5, <1>6, GoOn

LEMMA StatementsKeep ==
  ASSUME HInv, GenInv, CompileUse \/ CompileSkip \/ CompileCall, UNCHANGED vars
  PROVE  GenInv'
<1>1. Emitting /\ pc \in DOMAIN ast /\ Node1.op \in Statements /\ outcome = "accepted"
  BY DEF CompileUse, CompileSkip, CompileCall, Compiling, Emitting, Statements
<1>2. Break \/ (CompileStatement /\ Advance)
  BY DEF CompileUse, CompileSkip, CompileCall
<1> QED
  BY <1>1, <1>2, BreakStep, StatementCompiles

LEMMA StatementIsInBody ==
  ASSUME NEW node, node.op \in Statements, NEW a \in Moment, NEW b, Moves(node, a, b)
  PROVE  At(b, "body")
<1>1. a.walk # <<>> /\ b.walk = [a.walk EXCEPT ![Len(a.walk)] = "body"]
  BY DEF Moves
<1>2. a.walk \in Seq({"defs", "body"})
  BY DEF Moment
<1>3. Len(a.walk) \in 1 .. Len(a.walk) /\ DOMAIN a.walk = 1 .. Len(a.walk)
  BY <1>1, <1>2, EmptySeq, LenProperties
<1>4. Len(b.walk) = Len(a.walk) /\ b.walk[Len(a.walk)] = "body" /\ Len(b.walk) > 0
  BY <1>1, <1>2, <1>3
<1>5. b.walk # <<>>
  BY <1>4
<1> QED
  BY <1>4, <1>5 DEF At

\* In a body comes a statement or the end of the definition.
LEMMA BodyHasStatements ==
  ASSUME NEW node \in Node, node.op # "end", NEW a, At(a, "body"), NEW b, Moves(node, a, b)
  PROVE  node.op \in Statements
<1>1. node.op \notin {"var", "declare", "define"}
  BY DEF Moves, At
<1>2. node.op \in Statements \cup {"var", "declare", "define", "end"}
  BY DEF Node, Statements
<1> QED
  BY <1>1, <1>2

\* From the statement p on, the tables stay what they are up to the next end.
LEMMA StaysUpToTheEnd ==
  ASSUME NEW tape \in Seq(Node), NEW h, History(tape, h), NEW p \in 1 .. Len(tape),
         tape[p].op \in Statements, NEW q \in p .. Len(tape),
         \A k \in p + 1 .. q : tape[k].op # "end",
         NEW rs, NEW lf, Agree(h[p - 1], rs, lf)
  PROVE  Agree(h[q], rs, lf) /\ Len(h[q].walk) = Len(h[p - 1].walk)
<1> DEFINE Stays(j) == /\ Agree(h[j], rs, lf) /\ Len(h[j].walk) = Len(h[p - 1].walk)
                       /\ At(h[j], "body")
           fails == {j \in p .. q : ~Stays(j)}
<1>1. Len(tape) \in Nat /\ p \in Nat /\ q \in Nat /\ p >= 1
  BY LenProperties
<1>2. ASSUME NEW j \in 1 .. Len(tape)
      PROVE  /\ tape[j] \in Node /\ h[j - 1] \in Moment /\ h[j] \in Moment
             /\ Moves(tape[j], h[j - 1], h[j])
  <2>1. j - 1 \in 0 .. Len(tape) /\ j \in 0 .. Len(tape)
    BY <1>1
  <2> QED
    BY <2>1, ElementOfSeq DEF History
<1>3. p \notin fails
  <2>1. /\ h[p - 1] \in Moment /\ Moves(tape[p], h[p - 1], h[p])
    BY <1>2
  <2> DEFINE a == h[p - 1]
             b == h[p]
             node == tape[p]
  <2>2. /\ a \in Moment /\ Moves(node, a, b) /\ node.op \in Statements /\ Agree(a, rs, lf)
    BY <2>1
  <2> HIDE DEF a, b, node
  <2>3. Agree(b, rs, lf) /\ Len(b.walk) = Len(a.walk) /\ At(b, "body")
    BY <2>2, StaysInAgreement, StatementIsInBody
  <2> QED
    BY <2>3 DEF a, b
<1>4. fails = {}
  <2> SUFFICES ASSUME fails # {} PROVE FALSE
    OBVIOUS
  <2>1. fails \subseteq Nat
    BY <1>1
  <2>2. PICK j \in fails : \A x \in fails : j <= x
    <3> HIDE DEF fails
    <3> QED
      BY <2>1, LeastNumber
  <2>3. j \in p .. q /\ j # p /\ ~Stays(j)
    BY <1>3, <2>2
  <2>4. /\ j \in p + 1 .. q /\ j \in 1 .. Len(tape) /\ j - 1 \in p .. q /\ ~(j <= j - 1)
    BY <1>1, <2>3
  <2>5. Stays(j - 1)
    BY <2>2, <2>4
  <2>6. tape[j].op # "end"
    BY <2>4
  <2> DEFINE a == h[j - 1]
             b == h[j]
             node == tape[j]
  <2>7. /\ a \in Moment /\ node \in Node /\ Moves(node, a, b) /\ node.op # "end"
        /\ Agree(a, rs, lf) /\ At(a, "body") /\ Len(a.walk) = Len(h[p - 1].walk)
    BY <1>2, <2>4, <2>5, <2>6
  <2> HIDE DEF a, b, node
  <2>8. Agree(b, rs, lf) /\ Len(b.walk) = Len(a.walk) /\ At(b, "body")
    BY <2>7, BodyHasStatements, StaysInAgreement, StatementIsInBody
  <2> QED
    BY <2>3, <2>7, <2>8 DEF b
<1>5. q \in p .. q
  BY <1>1
<1> QED
  BY <1>4, <1>5

LEMMA ReturnKeeps ==
  ASSUME HInv, GenInv, CompileReturn, UNCHANGED vars
  PROVE  GenInv'
<1>1. /\ Emitting /\ pc \in DOMAIN ast /\ Node1.op \in Statements
      /\ outcome = "accepted" /\ emit = "emitting"
  BY DEF CompileReturn, Compiling, Emitting, Statements
<1>2. CASE Break
  BY <1>1, <1>2, BreakStep
<1>3. CASE ~Break
  <2>1. PICK next \in pc + 1 .. Len(ast) :
          /\ \A k \in pc + 1 .. next - 1 : ast[k].op # "end"
          /\ pc' = next
    BY <1>3 DEF CompileReturn
  <2>2. CompileStatement /\ UNCHANGED emit
    BY <1>3 DEF CompileReturn
  <2>3. PICK h : /\ History(ast, h)
                 /\ pc \in 1 .. Len(ast) /\ pc + 1 \in 1 .. Len(ast) + 1 /\ (pc + 1) - 1 = pc
                 /\ h[pc - 1] \in Moment /\ h[pc] \in Moment
                 /\ Node1 \in Node /\ Moves(Node1, h[pc - 1], h[pc])
                 /\ Len(h[pc - 1].scopes) = Len(h[pc - 1].walk) + 2
                 /\ Agree(h[pc - 1], rscopes, lfuns) /\ Len(blocks) = Len(h[pc - 1].walk)
    BY <1>1, AtNode
  <2>4. Len(blocks) \in Nat /\ Typed(rscopes, blocks, lfuns)
    BY <2>3, TableSizes DEF GenInv
  <2>5. ast \in Seq(Node) /\ Len(ast) \in Nat
    BY LenProperties DEF HInv, IInv, TypeOK
  <2>6. next - 1 \in pc .. Len(ast) /\ next \in 1 .. Len(ast) + 1
    BY <2>3, <2>5
  <2>7. Agree(h[next - 1], rscopes, lfuns) /\ Len(h[next - 1].walk) = Len(h[pc - 1].walk)
    <3> DEFINE q == next - 1
    <3>1. q \in pc .. Len(ast) /\ \A k \in pc + 1 .. q : ast[k].op # "end"
      BY <2>1, <2>6
    <3>2. ast[pc].op \in Statements
      BY <1>1 DEF Node1
    <3> HIDE DEF q
    <3>3. Agree(h[q], rscopes, lfuns) /\ Len(h[q].walk) = Len(h[pc - 1].walk)
      BY <2>3, <2>5, <3>1, <3>2, StaysUpToTheEnd
    <3> QED
      BY <3>3 DEF q
  <2>8. /\ Agree(h[next - 1], rscopes', lfuns') /\ Len(blocks') = Len(h[next - 1].walk)
        /\ Typed(rscopes', blocks', lfuns') /\ at' \in Nat
    BY <2>2, <2>3, <2>4, <2>7 DEF CompileStatement
  <2> QED
    BY <1>1, <2>1, <2>2, <2>3, <2>6, <2>8, GoOn
<1> QED
  BY <1>2, <1>3

\* The last element of a sequence dropped.
LEMMA Shorter ==
  ASSUME NEW S, NEW s \in Seq(S), Len(s) > 0
  PROVE  /\ SubSeq(s, 1, Len(s) - 1) \in Seq(S) /\ Len(SubSeq(s, 1, Len(s) - 1)) = Len(s) - 1
         /\ \A k \in 1 .. Len(s) - 1 : SubSeq(s, 1, Len(s) - 1)[k] = s[k]
<1> DEFINE L == Len(s) - 1
<1>1. Len(s) \in Nat /\ L \in Nat /\ L \in Int /\ 1 \in Int /\ \A i \in 1 .. L : s[i] \in S
  BY LenProperties, ElementOfSeq
<1> HIDE DEF L
<1>2. SubSeq(s, 1, L) \in Seq(S)
  BY <1>1, SubSeqProperties
<1>3. Len(SubSeq(s, 1, L)) = L /\ \A k \in 1 .. L : SubSeq(s, 1, L)[k] = s[k]
  BY <1>1
<1> QED
  BY <1>2, <1>3 DEF L

LEMMA EndKeeps ==
  ASSUME HInv, GenInv, NEW isMain, CompileEnd(isMain), UNCHANGED vars
  PROVE  GenInv'
<1> DEFINE rs == SubSeq(rscopes, 1, Len(rscopes) - 1)
           bs == SubSeq(blocks, 1, Len(blocks) - 1)
<1>1. /\ Emitting /\ pc \in DOMAIN ast /\ Node1.op = "end"
      /\ outcome = "accepted" /\ emit = "emitting"
      /\ blocks' = bs /\ rscopes' = rs /\ lfuns' = lfuns /\ pc' = pc + 1 /\ emit' = emit
      /\ at' = at \/ (Len(blocks) # 1 /\ at' = Len(blocks) - 1)
  BY DEF CompileEnd, Compiling, Emitting, Advance, CloseRuntimeScope
<1>2. PICK h : /\ History(ast, h)
               /\ pc \in 1 .. Len(ast) /\ pc + 1 \in 1 .. Len(ast) + 1 /\ (pc + 1) - 1 = pc
               /\ h[pc - 1] \in Moment /\ h[pc] \in Moment
               /\ Node1 \in Node /\ Moves(Node1, h[pc - 1], h[pc])
               /\ Len(h[pc - 1].scopes) = Len(h[pc - 1].walk) + 2
               /\ Agree(h[pc - 1], rscopes, lfuns) /\ Len(blocks) = Len(h[pc - 1].walk)
  BY <1>1, AtNode
<1> DEFINE a == h[pc - 1]
           b == h[pc]
           next == pc + 1
<1>3. /\ Len(rscopes) \in Nat /\ Len(blocks) \in Nat /\ Len(rscopes) = Len(blocks) + 2
      /\ rscopes \in Seq(RuntimeScope(lfuns)) /\ blocks \in Seq(Block) /\ lfuns \in Seq(LFun)
      /\ Len(a.scopes) = Len(rscopes) /\ a.walk \in Seq({"defs", "body"})
  BY <1>2, TableSizes
<1>4. /\ a.walk # <<>> /\ b.walk = SubSeq(a.walk, 1, Len(a.walk) - 1)
      /\ Len(b.scopes) = Len(a.scopes) - 1 /\ SameFunctions(a.scopes, b.scopes, Len(b.scopes))
  BY <1>1, <1>2 DEF Moves, At
<1>5. Len(blocks) > 0 /\ Len(rscopes) > 0
  BY <1>2, <1>3, <1>4, EmptySeq
<1>6. bs \in Seq(Block) /\ Len(bs) = Len(blocks) - 1
  BY <1>3, <1>5, Shorter
<1>7. /\ rs \in Seq(RuntimeScope(lfuns)) /\ Len(rs) = Len(rscopes) - 1
      /\ \A k \in 1 .. Len(rscopes) - 1 : rs[k] = rscopes[k]
  <2> DEFINE S == RuntimeScope(lfuns)
  <2>1. rscopes \in Seq(S) /\ Len(rscopes) > 0
    BY <1>3, <1>5
  <2> HIDE DEF S
  <2>2. /\ rs \in Seq(S) /\ Len(rs) = Len(rscopes) - 1
        /\ \A k \in 1 .. Len(rscopes) - 1 : rs[k] = rscopes[k]
    BY <2>1, Shorter
  <2> QED
    BY <2>2 DEF S
<1>8. Len(b.walk) = Len(a.walk) - 1
  <2> DEFINE w == a.walk
  <2>1. w \in Seq({"defs", "body"}) /\ Len(w) > 0 /\ b.walk = SubSeq(w, 1, Len(w) - 1)
    BY <1>2, <1>3, <1>4, <1>5
  <2> HIDE DEF w
  <2>2. Len(SubSeq(w, 1, Len(w) - 1)) = Len(w) - 1
    BY <2>1, Shorter
  <2> QED
    BY <2>1, <2>2 DEF w
<1> HIDE DEF rs, bs
<1>9. Agree(b, rs, lfuns)
  <2>1. Len(rs) = Len(b.scopes)
    BY <1>3, <1>4, <1>7
  <2>2. ASSUME NEW k \in 1 .. Len(rs), NEW n \in FunNames
        PROVE  Same(b.scopes[k].functions[n], rs[k][n], lfuns)
    <3>1. k \in 1 .. Len(rscopes) /\ k \in 1 .. Len(rscopes) - 1
      BY <1>3, <1>7
    <3>2. b.scopes[k].functions = a.scopes[k].functions
      BY <1>4, <2>1 DEF SameFunctions
    <3>3. Same(a.scopes[k].functions[n], rscopes[k][n], lfuns)
      BY <1>2, <3>1 DEF Agree
    <3> QED
      BY <1>7, <3>1, <3>2, <3>3
  <2> QED
    BY <2>1, <2>2 DEF Agree
<1>10. at' \in Nat
  <2>1. at \in Nat /\ Len(blocks) - 1 \in Nat
    BY <1>3, <1>5 DEF GenInv
  <2> QED
    BY <1>1, <2>1
<1>11. next \in 1 .. Len(ast) + 1 /\ h[next - 1] = b
  BY <1>2
<1>12. /\ Agree(h[next - 1], rscopes', lfuns') /\ Len(blocks') = Len(h[next - 1].walk)
       /\ Typed(rscopes', blocks', lfuns')
  BY <1>1, <1>2, <1>3, <1>6, <1>7, <1>8, <1>9, <1>11 DEF Typed
<1>13. pc' = next /\ UNCHANGED <<vars, emit>>
  BY <1>1
<1> HIDE DEF b, next
<1> QED
  BY <1>1, <1>2, <1>10, <1>11, <1>12, <1>13, GoOn

LEMMA WriteKeeps ==
  ASSUME GenInv, Write, UNCHANGED vars
  PROVE  GenInv'
<1>1. outcome = "accepted"
  BY DEF Write, Emitting
<1>2. CASE Break
  BY <1>1, <1>2, BreakStep
<1>3. CASE ~Break
  <2>1. emit' = "written" /\ UNCHANGED <<pc, at, rscopes, blocks, lfuns>> /\ outcome' = outcome
    BY <1>3 DEF Write, vars
  <2> QED
    BY <1>1, <2>1 DEF GenInv
<1> QED
  BY <1>2, <1>3

LEMMA GenerateKeeps ==
  ASSUME HInv, GenInv, Generate, UNCHANGED vars
  PROVE  GenInv'
BY DeclarationKeeps, DefinitionKeeps, VarListKeeps, StatementsKeep, ReturnKeeps, EndKeeps,
  WriteKeeps DEF Generate

\* While the semantic pass walks, the generator stands before the first node.
LEMMA PassKeeps ==
  ASSUME HInv, HInv', GenInv, [Next]_vars, UNCHANGED cgvars
  PROVE  GenInv'
<1>1. CASE UNCHANGED vars
  <2>1. /\ ast' = ast /\ outcome' = outcome
        /\ UNCHANGED <<pc, at, rscopes, blocks, lfuns, emit>>
    BY <1>1 DEF vars, cgvars
  <2> QED
    BY <2>1 DEF GenInv
<1>2. CASE outcome # "accepted"
  <2>1. /\ pc = 1 /\ emit = "emitting"
        /\ UNCHANGED <<pc, at, rscopes, blocks, lfuns, emit>>
    BY <1>2 DEF GenInv, cgvars
  <2>2. Agree(Start, rscopes, lfuns) /\ Len(blocks) = Len(Start.walk)
    <3>1. PICK h : /\ History(ast, h)
                   /\ Agree(h[pc - 1], rscopes, lfuns) /\ Len(blocks) = Len(h[pc - 1].walk)
      BY <2>1 DEF GenInv
    <3>2. pc - 1 = 0 /\ h[0] = Start
      BY <2>1, <3>1 DEF History
    <3> QED
      BY <3>1, <3>2
  <2>3. PICK g : History(ast', g)
    BY DEF HInv, HistoryInv
  <2>4. g[0] = Start /\ pc' - 1 = 0 /\ pc' = 1
    BY <2>1, <2>3 DEF History
  <2>5. Len(ast') \in Nat
    BY LenProperties DEF HInv, IInv, TypeOK
  <2>6. 1 \in 1 .. Len(ast') + 1
    BY <2>5
  <2>7. Agree(g[pc' - 1], rscopes', lfuns') /\ Len(blocks') = Len(g[pc' - 1].walk)
    BY <2>1, <2>2, <2>4
  <2>8. \E h : /\ History(ast', h) /\ pc' \in 1 .. Len(ast') + 1
               /\ Agree(h[pc' - 1], rscopes', lfuns') /\ Len(blocks') = Len(h[pc' - 1].walk)
    BY <2>3, <2>4, <2>6, <2>7
  <2>9. at' \in Nat /\ Typed(rscopes', blocks', lfuns')
    BY <2>1 DEF GenInv
  <2> QED
    BY <2>1, <2>4, <2>8, <2>9 DEF GenInv
<1>3. CASE outcome = "accepted"
  <2>1. ~Walking
    BY <1>3 DEF Walking
  <2>2. Finished \/ UNCHANGED vars
    BY <2>1 DEF Next, DefineFresh, DefineDeclared, RejectDefinition, CanDefine, Declare,
      VarDefinition, InDefs, InBody, Assign, Call, Return, Condition, Exit, Skip, LeaveInner,
      LeaveProgram
  <2> QED
    BY <1>1, <2>2 DEF Finished
<1> QED
  BY <1>2, <1>3

-----------------------------------------------------------------------------
(* The theorems.                                                             *)

\* The RuntimeScopes begin with the functions of the library.
LEMMA GenInitInv ==
  ASSUME CompilerInit
  PROVE  GenInv
<1>1. /\ pc = 1 /\ at = 0 /\ emit = "emitting" /\ ast = <<>> /\ outcome = "walking"
      /\ rscopes = <<LibraryScope.functions, NoFuns>> /\ blocks = <<>>
  BY DEF CompilerInit, Init, GenInit
<1>2. /\ Library \in Seq([name : FunNames, ret : RetTypes, args : Seq(Arg)])
      /\ Len(Library) \in Nat /\ DOMAIN Library = 1 .. Len(Library)
      /\ \A i \in 1 .. Len(Library) : Library[i].args \in Seq(Arg)
  <2>1. Library \in Seq([name : FunNames, ret : RetTypes, args : Seq(Arg)])
    BY GrammarAssumption
  <2>2. Len(Library) \in Nat /\ DOMAIN Library = 1 .. Len(Library)
    BY <2>1, LenProperties
  <2> DEFINE S == [name : FunNames, ret : RetTypes, args : Seq(Arg)]
  <2> HIDE DEF S
  <2>3. \A i \in 1 .. Len(Library) : Library[i] \in S
    BY <2>1, ElementOfSeq DEF S
  <2>4. \A i \in 1 .. Len(Library) : Library[i].args \in Seq(Arg)
    BY <2>3 DEF S
  <2> QED
    BY <2>1, <2>2, <2>4
<1> DEFINE par(i) == [j \in DOMAIN Library[i].args |->
                        [name |-> None, node |-> 0, t |-> Library[i].args[j].t, level |-> 0]]
<1>3. ASSUME NEW i \in 1 .. Len(Library)
      PROVE  par(i) \in Seq(Param)
  <2> DEFINE args == Library[i].args
             n == Len(args)
             p == par(i)
  <2>1. args \in Seq(Arg) /\ n \in Nat /\ DOMAIN args = 1 .. n
    BY <1>2, LenProperties
  <2>2. \A j \in 1 .. n : args[j].t \in DataTypes
    <3> HIDE DEF args
    <3>1. \A j \in 1 .. n : args[j] \in Arg
      BY <2>1, ElementOfSeq
    <3> QED
      BY <3>1 DEF Arg
  <2>3. p \in [1 .. n -> Param]
    BY <2>1, <2>2 DEF Param
  <2> HIDE DEF p, n
  <2>4. p \in Seq(Param)
    BY <2>1, <2>3, SeqDef
  <2> QED
    BY <2>4 DEF p
<1>4. lfuns = [i \in 1 .. Len(Library) |-> [fun |-> i, params |-> par(i)]]
  BY <1>2 DEF CompilerInit, GenInit
<1> HIDE DEF par
<1>5. lfuns \in Seq(LFun) /\ DOMAIN lfuns = 1 .. Len(Library)
      /\ \A i \in DOMAIN lfuns : lfuns[i].fun = i
  <2>1. \A i \in 1 .. Len(Library) : [fun |-> i, params |-> par(i)] \in LFun
    BY <1>3 DEF LFun
  <2>2. lfuns \in [1 .. Len(Library) -> LFun]
    BY <1>4, <2>1
  <2>3. lfuns \in Seq(LFun)
    <3> DEFINE n == Len(Library)
    <3>1. n \in Nat /\ lfuns \in [1 .. n -> LFun]
      BY <1>2, <2>2
    <3> HIDE DEF n
    <3> QED
      BY <3>1, SeqDef
  <2> QED
    BY <1>4, <2>2, <2>3
<1> DEFINE fns == LibraryScope.functions
           S   == RuntimeScope(lfuns)
<1>6. \A f \in FunNames : fns[f] \in DOMAIN Library \cup {None}
  BY DEF LibraryScope, EmptyScope
<1>7. fns \in S /\ NoFuns \in S
  <2>1. fns = [f \in FunNames |-> fns[f]]
    BY DEF LibraryScope, EmptyScope
  <2> HIDE DEF fns
  <2> QED
    BY <1>2, <1>5, <1>6, <2>1 DEF RuntimeScope, NoFuns
<1>8. rscopes \in Seq(S) /\ Len(rscopes) = 2 /\ rscopes[1] = fns /\ rscopes[2] = NoFuns
  <2> HIDE DEF fns, S
  <2> QED
    BY <1>1, <1>7 DEF fns
<1>9. Typed(rscopes, blocks, lfuns)
  BY <1>1, <1>5, <1>8, EmptySeq DEF Typed
<1>10. Agree(Start, rscopes, lfuns)
  <2>1. /\ Len(Start.scopes) = 2 /\ Start.scopes[1].functions = fns
        /\ Start.scopes[2].functions = NoFuns
    BY DEF Start, EmptyScope
  <2>2. ASSUME NEW n \in FunNames
        PROVE  Same(fns[n], fns[n], lfuns) /\ Same(NoFuns[n], NoFuns[n], lfuns)
    BY <1>2, <1>5, <1>6 DEF Same, NoFuns
  <2>3. 1 .. 2 = {1, 2}
    OBVIOUS
  <2> HIDE DEF fns
  <2> QED
    BY <1>8, <2>1, <2>2, <2>3 DEF Agree
<1>11. Len(blocks) = Len(Start.walk)
  BY <1>1 DEF Start
<1> DEFINE h == [i \in {0} |-> Start]
<1>12. History(ast, h) /\ h[0] = Start /\ pc - 1 = 0 /\ pc \in 1 .. Len(ast) + 1
  BY <1>1, HistoryBegins
<1> HIDE DEF h
<1>13. \E g : /\ History(ast, g) /\ pc \in 1 .. Len(ast) + 1
              /\ Agree(g[pc - 1], rscopes, lfuns) /\ Len(blocks) = Len(g[pc - 1].walk)
  BY <1>10, <1>11, <1>12
<1> QED
  BY <1>1, <1>9, <1>13 DEF GenInv

\* The generator's tables are those of the semantic pass before the same node,
\* in every reachable state.
THEOREM CompilerInvariance == CompilerSpec => [](HInv /\ GenInv)
<1>1. CompilerInit => HInv /\ GenInv
  BY InitInv, InitHistory, GenInitInv DEF CompilerInit, HInv
<1>2. HInv /\ GenInv /\ [CompilerNext]_allvars => (HInv /\ GenInv)'
  <2> SUFFICES ASSUME HInv, GenInv, [CompilerNext]_allvars PROVE HInv' /\ GenInv'
    OBVIOUS
  <2>1. /\ [Next]_vars
        /\ UNCHANGED cgvars \/ (Generate /\ UNCHANGED vars)
    BY DEF CompilerNext, allvars
  <2>2. HInv'
    BY <2>1, NextHistory
  <2> QED
    BY <2>1, <2>2, PassKeeps, GenerateKeeps
<1> QED
  BY <1>1, <1>2, PTL DEF CompilerSpec

\* The generator's tables are well-typed for any program: one block and one
\* RuntimeScope for every open definition, and no slot without a parameter.
THEOREM CompilerTypes == CompilerSpec => []CompilerTypeOK
<1>1. HInv /\ GenInv => CompilerTypeOK
  <2> SUFFICES ASSUME HInv, GenInv PROVE CompilerTypeOK
    OBVIOUS
  <2>1. emit = "emitting" => Len(rscopes) = Len(blocks) + 2
    <3> SUFFICES ASSUME emit = "emitting" PROVE Len(rscopes) = Len(blocks) + 2
      OBVIOUS
    <3>1. PICK h : /\ History(ast, h) /\ pc \in 1 .. Len(ast) + 1
                   /\ Agree(h[pc - 1], rscopes, lfuns) /\ Len(blocks) = Len(h[pc - 1].walk)
      BY DEF GenInv
    <3>2. Len(ast) \in Nat
      BY LenProperties DEF HInv, IInv, TypeOK
    <3>3. pc - 1 \in 0 .. Len(ast)
      BY <3>1, <3>2
    <3>4. Len(h[pc - 1].scopes) = Len(h[pc - 1].walk) + 2
      BY <3>1, <3>3 DEF History
    <3> QED
      BY <3>1, <3>4 DEF Agree
  <2> QED
    BY <2>1 DEF GenInv, Typed, RuntimeScope, CompilerTypeOK
<1> QED
  BY <1>1, CompilerInvariance, PTL

\* The function the generator finds for a call.
LEMMA CalleeFound ==
  ASSUME HInv, GenInv, Compiling("call")
  PROVE  GetFun(Node1.name) \in DOMAIN lfuns /\ lfuns[GetFun(Node1.name)].fun = Node1.fun
<1>1. Emitting /\ pc \in DOMAIN ast /\ Node1.op = "call"
  BY DEF Compiling
<1>2. PICK h : /\ h[pc - 1] \in Moment /\ Node1 \in Node /\ Moves(Node1, h[pc - 1], h[pc])
               /\ Len(h[pc - 1].scopes) = Len(h[pc - 1].walk) + 2
               /\ Agree(h[pc - 1], rscopes, lfuns) /\ Len(blocks) = Len(h[pc - 1].walk)
  BY <1>1, AtNode
<1> DEFINE s == h[pc - 1].scopes
           n == Node1.name
           f == Node1.fun
           L == Len(rscopes)
<1>3. n \in FunNames /\ Finds(s, n, f)
  BY <1>1, <1>2 DEF Node, Moves
<1>4. L \in Nat /\ DOMAIN rscopes = 1 .. L /\ Len(s) = L /\ s \in Seq(Scope)
  BY <1>2, TableSizes DEF Moment
<1>5. DOMAIN s = 1 .. L
  BY <1>4, LenProperties
<1>6. \A k \in 1 .. L : Same(s[k].functions[n], rscopes[k][n], lfuns)
  BY <1>2, <1>3 DEF Agree
<1> HIDE DEF s, n, f, L
<1>7. PICK k \in 1 .. L : /\ s[k].functions[n] = f /\ f # None
                          /\ \A j \in k + 1 .. L : s[j].functions[n] = None
  BY <1>3, <1>4, <1>5 DEF Finds
<1>8. rscopes[k][n] # None /\ lfuns[rscopes[k][n]].fun = f
  BY <1>6, <1>7 DEF Same
<1>9. \A j \in k + 1 .. L : rscopes[j][n] = None
  <2>1. \A j \in k + 1 .. L : j \in 1 .. L
    BY <1>4
  <2> QED
    BY <1>6, <1>7, <2>1 DEF Same
<1> DEFINE c == CHOOSE l \in 1 .. L : /\ rscopes[l][n] # None
                                      /\ \A j \in l + 1 .. L : rscopes[j][n] = None
<1>10. c \in 1 .. L /\ rscopes[c][n] # None /\ \A j \in c + 1 .. L : rscopes[j][n] = None
  BY <1>7, <1>8, <1>9
<1>11. GetFun(n) = rscopes[c][n]
  BY <1>4 DEF GetFun, L
<1> HIDE DEF c
<1>12. c = k
  <2>1. c \in Nat /\ k \in Nat
    BY <1>4, <1>7, <1>10
  <2>2. ~(c < k)
    <3> SUFFICES ASSUME c < k PROVE FALSE
      OBVIOUS
    <3>1. k \in c + 1 .. L
      BY <1>4, <1>7, <1>10
    <3> QED
      BY <1>8, <1>10, <3>1
  <2>3. ~(k < c)
    <3> SUFFICES ASSUME k < c PROVE FALSE
      OBVIOUS
    <3>1. c \in k + 1 .. L
      BY <1>4, <1>7, <1>10
    <3> QED
      BY <1>9, <1>10, <3>1
  <2> QED
    BY <2>1, <2>2, <2>3
<1>13. rscopes[k][n] \in DOMAIN lfuns
  <2>1. rscopes \in Seq(RuntimeScope(lfuns))
    BY <1>2, TableSizes
  <2>2. rscopes[k] \in RuntimeScope(lfuns)
    BY <1>4, <2>1, ElementOfSeq DEF L
  <2> QED
    BY <1>3, <1>8, <2>2 DEF RuntimeScope, n
<1> QED
  BY <1>8, <1>11, <1>12, <1>13 DEF n, f

\* The function the generator finds by name for a call is the one the semantic
\* pass found, whatever is declared, defined and nested under the same names
\* (getFun, runtime.hpp:164).
THEOREM FunctionsFound == CompilerSpec => []FunctionsAgree
<1>1. HInv /\ GenInv => FunctionsAgree
  BY CalleeFound DEF FunctionsAgree
<1> QED
  BY <1>1, CompilerInvariance, PTL

\* The compiler's semantic pass is that of Semantic: the generator changes none
\* of its state, so what is proved of the pass holds of the compiler.
THEOREM CompilerIsPass == CompilerSpec => Spec
<1>1. CompilerInit => Init
  BY DEF CompilerInit
<1>2. [CompilerNext]_allvars => [Next]_vars
  BY DEF CompilerNext, allvars
<1> QED
  BY <1>1, <1>2, PTL DEF CompilerSpec, Spec

-----------------------------------------------------------------------------
(* Variables and the functions around a function, on a tape.                 *)

Declaring == {"define", "var"}
Using     == {"assign", "condition", "return", "call"}

Declares(node) == CASE node.op = "define" -> FormalNames(node.header)
                    [] node.op = "var"    -> Elements(node.ids)
                    [] OTHER              -> {}
OwnerOf(node) == IF node.op = "define" THEN node.fun ELSE node.by

\* The variable x as node i declares it.
AsDeclared(node, i, x) ==
  IF node.op = "define"
  THEN [t    |-> node.header.formals[FormalIndex(node.header, x)].t,
        pass |-> node.header.formals[FormalIndex(node.header, x)].pass, node |-> i]
  ELSE node.type

\* v is the variable of the name x that function o declares.
IsVariable(tape, v, x, o) ==
  /\ v.node \in 1 .. Len(tape)
  /\ x \in Declares(tape[v.node]) /\ OwnerOf(tape[v.node]) = o
  /\ v = AsDeclared(tape[v.node], v.node, x)

\* The definition of g stands at node j or before it.
Begins(tape, g, j) == \E d \in 1 .. j : tape[d].op = "define" /\ tape[d].fun = g

Ends(tape, g, j) == \E e \in j .. Len(tape) : tape[e].op = "end" /\ tape[e].fun = g

\* ar[f] are the functions around f, f among them: one lies in the other.
Around(fts, ar) ==
  /\ ar \in [DOMAIN fts -> SUBSET DOMAIN fts]
  /\ \A f \in DOMAIN fts : f \in ar[f]
  /\ \A f \in DOMAIN fts : \A g, o \in ar[f] : g \in ar[o] \/ o \in ar[g]

\* Captures are variables of other functions around the defined function.
CapturesAround(tape, fts, ar) ==
  \A f \in DOMAIN fts, x \in VarNames : fts[f].prev[x] # None =>
    /\ \E o \in ar[f] \ {f} : IsVariable(tape, fts[f].prev[x], x, o)
    /\ Begins(tape, f, Len(tape))

\* Everything a function declares stands in all functions around it.
DeclaresInside(tape, fts, ar) ==
  \A j \in 1 .. Len(tape) : tape[j].op \in Declaring =>
    /\ OwnerOf(tape[j]) \in DOMAIN fts /\ ~fts[OwnerOf(tape[j])].declared
    /\ \A g \in ar[OwnerOf(tape[j])] : Begins(tape, g, j)

EndsLater(tape, s, ar) ==
  \A j \in 1 .. Len(tape) : tape[j].op \in Declaring =>
    \A g \in ar[OwnerOf(tape[j])] : Ends(tape, g, j) \/ OpenIn(s, g)

\* The variable v of the name x, of function o, is known to f at node i.
KnownAt(tape, fts, f, i, v, x, o) ==
  IsVariable(tape, v, x, o) /\ IF o = f THEN v.node < i ELSE fts[f].prev[x] # None

UseFits(tape, fts, ar, node, i) ==
  /\ node.by \in DOMAIN fts
  /\ \A x \in VarNames : node.binds[x] # None =>
       \E o \in ar[node.by] : KnownAt(tape, fts, node.by, i, node.binds[x], x, o)

UsesFit(tape, fts, ar) ==
  \A i \in 1 .. Len(tape) : tape[i].op \in Using => UseFits(tape, fts, ar, tape[i], i)

DeclaredBefore(tape, f, x, i) ==
  \E d \in 1 .. i - 1 : tape[d].op \in Declaring /\ x \in Declares(tape[d]) /\ OwnerOf(tape[d]) = f

\* Whatever is around the callee, but itself, is around the caller; arguments
\* have the types of the parameters, and the caller's locals are declared.
CallFits(tape, fts, ar, node, i) ==
  /\ node.by \in DOMAIN fts /\ node.fun \in DOMAIN fts
  /\ ar[node.fun] \ {node.fun} \subseteq ar[node.by]
  /\ Len(node.args) = Len(fts[node.fun].args)
  /\ \A k \in 1 .. Len(node.args) : node.args[k] \in VarNames =>
       /\ node.binds[node.args[k]] # None
       /\ node.binds[node.args[k]].t = fts[node.fun].args[k].t
  /\ \A x \in node.locals : DeclaredBefore(tape, node.by, x, i)

CallsFit(tape, fts, ar) ==
  \A i \in 1 .. Len(tape) : tape[i].op = "call" => CallFits(tape, fts, ar, tape[i], i)

DeclaredEarlier(tape, f, i) ==
  \E j \in 1 .. i - 1 : tape[j].op = "declare" /\ tape[j].fun = f

\* Function types have the arguments of the first header of the function.
HeaderFits(tape, fts, node, i) ==
  /\ node.op = "declare" =>
       node.fun \in DOMAIN fts /\ fts[node.fun].args = DeclArgs(node.header)
  /\ node.op = "define" =>
       /\ node.fun \in DOMAIN fts /\ Len(fts[node.fun].args) = Len(node.header.formals)
       /\ \A k \in 1 .. Len(node.header.formals) :
            fts[node.fun].args[k].t = node.header.formals[k].t
       /\ fts[node.fun].args = DefArgs(node.header) \/ DeclaredEarlier(tape, node.fun, i)
  /\ node.op = "var" => /\ node.type.node = i
                        /\ TRUE \notin UninitBool => node.type.pass = "val"

HeadersFit(tape, fts) == \A i \in 1 .. Len(tape) : HeaderFits(tape, fts, tape[i], i)

\* The program's own definition has nothing around it.
ProgramFirst(tape, ar) ==
  Len(tape) >= 1 => tape[1].op = "define" /\ ar[tape[1].fun] = {tape[1].fun}

Placed(tape, fts, ar) ==
  /\ Around(fts, ar) /\ CapturesAround(tape, fts, ar) /\ DeclaresInside(tape, fts, ar)
  /\ UsesFit(tape, fts, ar) /\ CallsFit(tape, fts, ar) /\ HeadersFit(tape, fts)
  /\ ProgramFirst(tape, ar)

-----------------------------------------------------------------------------
(* The tables while the semantic pass walks.                                 *)

\* The functions of the open scopes up to level k.
UpTo(s, k) == {s[l].fun : l \in 3 .. k}

FunctionsPlaced(s, ar) ==
  \A k \in DOMAIN s, n \in FunNames : s[k].functions[n] # None =>
    ar[s[k].functions[n]] = UpTo(s, k) \cup {s[k].functions[n]}

\* The locals of a scope are what its function has declared.
LocalsDeclared(s, tape) ==
  \A k \in DOMAIN s, x \in VarNames :
    s[k].locals[x] # None => IsVariable(tape, s[k].locals[x], x, s[k].fun)
DeclaredLocal(s, tape) ==
  \A j \in 1 .. Len(tape), k \in DOMAIN s :
    tape[j].op \in Declaring /\ OwnerOf(tape[j]) = s[k].fun =>
      \A x \in Declares(tape[j]) : s[k].locals[x] # None

OpenBegin(s, tape) == \A k \in DOMAIN s : k > 2 => Begins(tape, s[k].fun, Len(tape))

\* All functions but those of the library have a node.
OnTape(tape, f) == \E j \in 1 .. Len(tape) : tape[j].op \in {"declare", "define"} /\ tape[j].fun = f

FunctionsOnTape(s, tape) ==
  \A k \in DOMAIN s, n \in FunNames :
    k > 1 /\ s[k].functions[n] # None => OnTape(tape, s[k].functions[n])

Tables(s, tape, ar) ==
  /\ FunctionsPlaced(s, ar) /\ LocalsDeclared(s, tape) /\ DeclaredLocal(s, tape)
  /\ OpenBegin(s, tape) /\ FunctionsOnTape(s, tape)

Places(ar) == Placed(ast, ftypes, ar) /\ EndsLater(ast, scopes, ar) /\ Tables(scopes, ast, ar)

PlacesInv ==
  /\ \E ar : Places(ar)
  /\ outcome = "accepted" => ast # <<>>

-----------------------------------------------------------------------------
(* One more node on the tape.                                                *)

LEMMA OneMoreNode ==
  ASSUME NEW tape \in Seq(Node), NEW node
  PROVE  /\ Len(tape) \in Nat /\ Len(Append(tape, node)) = Len(tape) + 1
         /\ Append(tape, node)[Len(tape) + 1] = node
         /\ \A i \in 1 .. Len(tape) : Append(tape, node)[i] = tape[i]
         /\ \A i \in 1 .. Len(tape) + 1 : i = Len(tape) + 1 \/ i \in 1 .. Len(tape)
BY LenProperties

LEMMA VariableStays ==
  ASSUME NEW tape \in Seq(Node), NEW node, NEW v, NEW x, NEW o, IsVariable(tape, v, x, o)
  PROVE  IsVariable(Append(tape, node), v, x, o)
<1>1. /\ v.node \in 1 .. Len(tape)
      /\ x \in Declares(tape[v.node]) /\ OwnerOf(tape[v.node]) = o
      /\ v = AsDeclared(tape[v.node], v.node, x)
  BY DEF IsVariable
<1>2. Append(tape, node)[v.node] = tape[v.node] /\ v.node \in 1 .. Len(Append(tape, node))
  BY <1>1, OneMoreNode
<1> QED
  BY <1>1, <1>2 DEF IsVariable

LEMMA BeginsStays ==
  ASSUME NEW tape \in Seq(Node), NEW node, NEW g, NEW j \in 0 .. Len(tape), Begins(tape, g, j),
         NEW i \in j .. Len(tape) + 1
  PROVE  Begins(Append(tape, node), g, i)
<1>1. PICK d \in 1 .. j : tape[d].op = "define" /\ tape[d].fun = g
  BY DEF Begins
<1>2. d \in 1 .. Len(tape) /\ d \in 1 .. i
  BY OneMoreNode
<1>3. Append(tape, node)[d] = tape[d]
  BY <1>2, OneMoreNode
<1> QED
  BY <1>1, <1>2, <1>3 DEF Begins

LEMMA EndsStays ==
  ASSUME NEW tape \in Seq(Node), NEW node, NEW g, NEW j \in 1 .. Len(tape), Ends(tape, g, j)
  PROVE  Ends(Append(tape, node), g, j)
<1>1. PICK e \in j .. Len(tape) : tape[e].op = "end" /\ tape[e].fun = g
  BY DEF Ends
<1>2. e \in 1 .. Len(tape) /\ e \in j .. Len(Append(tape, node))
  BY OneMoreNode
<1>3. Append(tape, node)[e] = tape[e]
  BY <1>2, OneMoreNode
<1> QED
  BY <1>1, <1>2, <1>3 DEF Ends

LEMMA DeclaredBeforeStays ==
  ASSUME NEW tape \in Seq(Node), NEW node, NEW f, NEW x, NEW i \in 1 .. Len(tape) + 1
  PROVE  /\ DeclaredBefore(tape, f, x, i) => DeclaredBefore(Append(tape, node), f, x, i)
         /\ DeclaredEarlier(tape, f, i) => DeclaredEarlier(Append(tape, node), f, i)
<1>1. \A d \in 1 .. i - 1 : d \in 1 .. Len(tape)
  BY OneMoreNode
<1>2. \A d \in 1 .. i - 1 : Append(tape, node)[d] = tape[d]
  BY <1>1, OneMoreNode
<1> QED
  BY <1>2 DEF DeclaredBefore, DeclaredEarlier

\* What a step does to the function types, and to what is around them.
KeepsTypes(fts, gts, ar, br) ==
  \A f \in DOMAIN fts :
    /\ f \in DOMAIN gts /\ br[f] = ar[f] /\ gts[f].args = fts[f].args
    /\ gts[f].declared => fts[f].declared
    /\ \A x \in VarNames : fts[f].prev[x] # None => gts[f].prev[x] # None

\* A capture is an old one or a variable of a function around an open one.
KeepsCaptures(tape, fts, gts, br) ==
  \A f \in DOMAIN gts, x \in VarNames : gts[f].prev[x] # None =>
    \/ f \in DOMAIN fts /\ gts[f].prev[x] = fts[f].prev[x]
    \/ /\ \E o \in br[f] \ {f} : IsVariable(tape, gts[f].prev[x], x, o)
       /\ Begins(tape, f, Len(tape))

\* The node that is recorded fits the types gts after it.
NodePlaced(tape, gts, br, node) ==
  /\ node.op \in Declaring =>
       /\ OwnerOf(node) \in DOMAIN gts /\ ~gts[OwnerOf(node)].declared
       /\ \A g \in br[OwnerOf(node)] : Begins(Append(tape, node), g, Len(tape) + 1)
  /\ node.op \in Using => UseFits(tape, gts, br, node, Len(tape) + 1)
  /\ node.op = "call" => CallFits(tape, gts, br, node, Len(tape) + 1)
  /\ HeaderFits(tape, gts, node, Len(tape) + 1)
  /\ Len(tape) = 0 => node.op = "define" /\ br[node.fun] = {node.fun}

LEMMA CapturesGo ==
  ASSUME NEW tape \in Seq(Node), NEW node, NEW fts, NEW gts, NEW ar, NEW br,
         CapturesAround(tape, fts, ar), KeepsTypes(fts, gts, ar, br),
         KeepsCaptures(tape, fts, gts, br)
  PROVE  CapturesAround(Append(tape, node), gts, br)
<1> DEFINE new == Append(tape, node)
<1>1. Len(tape) \in Nat /\ Len(new) = Len(tape) + 1
  BY OneMoreNode
<1>2. Len(tape) \in 0 .. Len(tape) /\ Len(new) \in Len(tape) .. Len(tape) + 1
  BY <1>1
<1> HIDE DEF new
<1>3. ASSUME NEW f, NEW v, NEW x, NEW o, IsVariable(tape, v, x, o) PROVE IsVariable(new, v, x, o)
  BY <1>3, VariableStays DEF new
<1>4. ASSUME NEW f, Begins(tape, f, Len(tape)) PROVE Begins(new, f, Len(new))
  BY <1>2, <1>4, BeginsStays DEF new
<1> SUFFICES ASSUME NEW f \in DOMAIN gts, NEW x \in VarNames, gts[f].prev[x] # None
             PROVE  /\ \E o \in br[f] \ {f} : IsVariable(new, gts[f].prev[x], x, o)
                    /\ Begins(new, f, Len(new))
  BY DEF CapturesAround, new
<1>5. CASE f \in DOMAIN fts /\ gts[f].prev[x] = fts[f].prev[x]
  <2>1. br[f] = ar[f]
    BY <1>5 DEF KeepsTypes
  <2>2. /\ \E o \in ar[f] \ {f} : IsVariable(tape, fts[f].prev[x], x, o)
        /\ Begins(tape, f, Len(tape))
    BY <1>5 DEF CapturesAround
  <2> QED
    BY <1>3, <1>4, <1>5, <2>1, <2>2
<1>6. CASE /\ \E o \in br[f] \ {f} : IsVariable(tape, gts[f].prev[x], x, o)
           /\ Begins(tape, f, Len(tape))
  BY <1>3, <1>4, <1>6
<1> QED
  BY <1>5, <1>6 DEF KeepsCaptures

LEMMA DeclaresGo ==
  ASSUME NEW tape \in Seq(Node), NEW node, NEW fts, NEW gts, NEW ar, NEW br,
         DeclaresInside(tape, fts, ar), KeepsTypes(fts, gts, ar, br),
         NodePlaced(tape, gts, br, node)
  PROVE  DeclaresInside(Append(tape, node), gts, br)
<1> DEFINE new == Append(tape, node)
<1>1. /\ Len(tape) \in Nat /\ Len(new) = Len(tape) + 1 /\ new[Len(tape) + 1] = node
      /\ \A i \in 1 .. Len(tape) : new[i] = tape[i]
      /\ \A i \in 1 .. Len(tape) + 1 : i = Len(tape) + 1 \/ i \in 1 .. Len(tape)
  BY OneMoreNode
<1> SUFFICES ASSUME NEW j \in 1 .. Len(tape) + 1, new[j].op \in Declaring
             PROVE  /\ OwnerOf(new[j]) \in DOMAIN gts /\ ~gts[OwnerOf(new[j])].declared
                    /\ \A g \in br[OwnerOf(new[j])] : Begins(new, g, j)
  BY <1>1 DEF DeclaresInside
<1>2. CASE j = Len(tape) + 1
  BY <1>1, <1>2 DEF NodePlaced
<1>3. CASE j \in 1 .. Len(tape)
  <2>1. new[j] = tape[j]
    BY <1>1, <1>3
  <2> HIDE DEF new
  <2> DEFINE o == OwnerOf(tape[j])
  <2>2. o \in DOMAIN fts /\ ~fts[o].declared /\ \A g \in ar[o] : Begins(tape, g, j)
    BY <1>3, <2>1 DEF DeclaresInside
  <2>3. o \in DOMAIN gts /\ ~gts[o].declared /\ br[o] = ar[o]
    BY <2>2 DEF KeepsTypes
  <2>4. ASSUME NEW g \in ar[o] PROVE Begins(new, g, j)
    <3>1. j \in 0 .. Len(tape) /\ j \in j .. Len(tape) + 1
      BY <1>1, <1>3
    <3> QED
      BY <2>2, <3>1, BeginsStays DEF new
  <2> QED
    BY <2>1, <2>3, <2>4
<1> QED
  BY <1>1, <1>2, <1>3

LEMMA UsesGo ==
  ASSUME NEW tape \in Seq(Node), NEW node, NEW fts, NEW gts, NEW ar, NEW br,
         UsesFit(tape, fts, ar), KeepsTypes(fts, gts, ar, br), NodePlaced(tape, gts, br, node)
  PROVE  UsesFit(Append(tape, node), gts, br)
<1> DEFINE new == Append(tape, node)
<1>1. /\ Len(tape) \in Nat /\ Len(new) = Len(tape) + 1 /\ new[Len(tape) + 1] = node
      /\ \A i \in 1 .. Len(tape) : new[i] = tape[i]
      /\ \A i \in 1 .. Len(tape) + 1 : i = Len(tape) + 1 \/ i \in 1 .. Len(tape)
  BY OneMoreNode
<1>2. ASSUME NEW u, NEW i, UseFits(tape, gts, br, u, i) PROVE UseFits(new, gts, br, u, i)
  <2>1. u.by \in DOMAIN gts
    BY <1>2 DEF UseFits
  <2>2. ASSUME NEW x \in VarNames, u.binds[x] # None
        PROVE  \E o \in br[u.by] : KnownAt(new, gts, u.by, i, u.binds[x], x, o)
    <3>1. PICK o \in br[u.by] : KnownAt(tape, gts, u.by, i, u.binds[x], x, o)
      BY <1>2, <2>2 DEF UseFits
    <3>2. IsVariable(new, u.binds[x], x, o)
      BY <3>1, VariableStays DEF KnownAt
    <3> QED
      BY <3>1, <3>2 DEF KnownAt
  <2> QED
    BY <2>1, <2>2 DEF UseFits
<1>3. ASSUME NEW u, NEW i, UseFits(tape, fts, ar, u, i) PROVE UseFits(tape, gts, br, u, i)
  <2>1. u.by \in DOMAIN fts /\ u.by \in DOMAIN gts /\ br[u.by] = ar[u.by]
    BY <1>3 DEF UseFits, KeepsTypes
  <2>2. ASSUME NEW x \in VarNames, NEW v, NEW o, KnownAt(tape, fts, u.by, i, v, x, o)
        PROVE  KnownAt(tape, gts, u.by, i, v, x, o)
    BY <2>1, <2>2 DEF KnownAt, KeepsTypes
  <2>3. ASSUME NEW x \in VarNames, u.binds[x] # None
        PROVE  \E o \in br[u.by] : KnownAt(tape, gts, u.by, i, u.binds[x], x, o)
    BY <1>3, <2>1, <2>2, <2>3 DEF UseFits
  <2> QED
    BY <2>1, <2>3 DEF UseFits
<1> HIDE DEF new
<1> SUFFICES ASSUME NEW i \in 1 .. Len(tape) + 1, new[i].op \in Using
             PROVE  UseFits(new, gts, br, new[i], i)
  BY <1>1 DEF UsesFit, new
<1>4. CASE i = Len(tape) + 1
  BY <1>1, <1>2, <1>4 DEF NodePlaced
<1>5. CASE i \in 1 .. Len(tape)
  BY <1>1, <1>2, <1>3, <1>5 DEF UsesFit
<1> QED
  BY <1>1, <1>4, <1>5

LEMMA CallsGo ==
  ASSUME NEW tape \in Seq(Node), NEW node, NEW fts, NEW gts, NEW ar, NEW br,
         CallsFit(tape, fts, ar), KeepsTypes(fts, gts, ar, br), NodePlaced(tape, gts, br, node)
  PROVE  CallsFit(Append(tape, node), gts, br)
<1> DEFINE new == Append(tape, node)
<1>1. /\ Len(tape) \in Nat /\ Len(new) = Len(tape) + 1 /\ new[Len(tape) + 1] = node
      /\ \A i \in 1 .. Len(tape) : new[i] = tape[i]
      /\ \A i \in 1 .. Len(tape) + 1 : i = Len(tape) + 1 \/ i \in 1 .. Len(tape)
  BY OneMoreNode
<1>2. ASSUME NEW u, NEW i \in 1 .. Len(tape) + 1, CallFits(tape, gts, br, u, i)
      PROVE  CallFits(new, gts, br, u, i)
  BY <1>2, DeclaredBeforeStays DEF CallFits
<1>3. ASSUME NEW u, NEW i, CallFits(tape, fts, ar, u, i) PROVE CallFits(tape, gts, br, u, i)
  <2>1. u.by \in DOMAIN fts /\ u.by \in DOMAIN gts /\ br[u.by] = ar[u.by]
    BY <1>3 DEF CallFits, KeepsTypes
  <2>2. /\ u.fun \in DOMAIN fts /\ u.fun \in DOMAIN gts /\ br[u.fun] = ar[u.fun]
        /\ gts[u.fun].args = fts[u.fun].args
    BY <1>3 DEF CallFits, KeepsTypes
  <2> QED
    BY <1>3, <2>1, <2>2 DEF CallFits
<1> HIDE DEF new
<1> SUFFICES ASSUME NEW i \in 1 .. Len(tape) + 1, new[i].op = "call"
             PROVE  CallFits(new, gts, br, new[i], i)
  BY <1>1 DEF CallsFit, new
<1>4. CASE i = Len(tape) + 1
  BY <1>1, <1>2, <1>4 DEF NodePlaced
<1>5. CASE i \in 1 .. Len(tape)
  BY <1>1, <1>2, <1>3, <1>5 DEF CallsFit
<1> QED
  BY <1>1, <1>4, <1>5

LEMMA HeadersGo ==
  ASSUME NEW tape \in Seq(Node), NEW node, NEW fts, NEW gts, NEW ar, NEW br,
         HeadersFit(tape, fts), KeepsTypes(fts, gts, ar, br), NodePlaced(tape, gts, br, node)
  PROVE  HeadersFit(Append(tape, node), gts)
<1> DEFINE new == Append(tape, node)
<1>1. /\ Len(tape) \in Nat /\ Len(new) = Len(tape) + 1 /\ new[Len(tape) + 1] = node
      /\ \A i \in 1 .. Len(tape) : new[i] = tape[i]
      /\ \A i \in 1 .. Len(tape) + 1 : i = Len(tape) + 1 \/ i \in 1 .. Len(tape)
  BY OneMoreNode
<1>2. ASSUME NEW u, NEW i \in 1 .. Len(tape) + 1, HeaderFits(tape, gts, u, i)
      PROVE  HeaderFits(new, gts, u, i)
  BY <1>2, DeclaredBeforeStays DEF HeaderFits
<1>3. ASSUME NEW u, NEW i, HeaderFits(tape, fts, u, i) PROVE HeaderFits(tape, gts, u, i)
  BY <1>3 DEF HeaderFits, KeepsTypes
<1> HIDE DEF new
<1> SUFFICES ASSUME NEW i \in 1 .. Len(tape) + 1 PROVE HeaderFits(new, gts, new[i], i)
  BY <1>1 DEF HeadersFit, new
<1>4. CASE i = Len(tape) + 1
  BY <1>1, <1>2, <1>4 DEF NodePlaced
<1>5. CASE i \in 1 .. Len(tape)
  BY <1>1, <1>2, <1>3, <1>5 DEF HeadersFit
<1> QED
  BY <1>1, <1>4, <1>5

\* A step that records a node keeps the tape placed.
LEMMA PlacedGoes ==
  ASSUME NEW tape \in Seq(Node), NEW node, NEW fts, NEW gts, NEW ar, NEW br,
         Placed(tape, fts, ar), Around(gts, br), KeepsTypes(fts, gts, ar, br),
         KeepsCaptures(tape, fts, gts, br), NodePlaced(tape, gts, br, node)
  PROVE  Placed(Append(tape, node), gts, br)
<1>1. ProgramFirst(Append(tape, node), br)
  <2>1. CASE Len(tape) = 0
    BY <2>1, OneMoreNode DEF NodePlaced, ProgramFirst
  <2>2. CASE Len(tape) # 0
    <3>1. 1 \in 1 .. Len(tape)
      BY <2>2, OneMoreNode
    <3>2. tape[1].op = "define" /\ ar[tape[1].fun] = {tape[1].fun}
      BY <3>1 DEF Placed, ProgramFirst
    <3>3. tape[1].fun \in DOMAIN fts
      BY <3>1, <3>2 DEF Placed, HeadersFit, HeaderFits
    <3>4. Append(tape, node)[1] = tape[1] /\ br[tape[1].fun] = ar[tape[1].fun]
      BY <3>1, <3>3, OneMoreNode DEF KeepsTypes
    <3> QED
      BY <3>2, <3>4 DEF ProgramFirst
  <2> QED
    BY <2>1, <2>2
<1> QED
  BY <1>1, CapturesGo, DeclaresGo, UsesGo, CallsGo, HeadersGo DEF Placed

\* The ends of the functions around a node are still to come.
LEMMA EndsGo ==
  ASSUME NEW tape \in Seq(Node), NEW node, NEW fts, NEW gts, NEW ar, NEW br, NEW s, NEW t,
         Placed(tape, fts, ar), EndsLater(tape, s, ar), KeepsTypes(fts, gts, ar, br),
         \A g \in DOMAIN fts : OpenIn(s, g) => OpenIn(t, g) \/ (node.op = "end" /\ node.fun = g),
         node.op \in Declaring => \A g \in br[OwnerOf(node)] : OpenIn(t, g)
  PROVE  EndsLater(Append(tape, node), t, br)
<1> DEFINE new == Append(tape, node)
<1>1. /\ Len(tape) \in Nat /\ Len(new) = Len(tape) + 1 /\ new[Len(tape) + 1] = node
      /\ \A i \in 1 .. Len(tape) : new[i] = tape[i]
      /\ \A i \in 1 .. Len(tape) + 1 : i = Len(tape) + 1 \/ i \in 1 .. Len(tape)
  BY OneMoreNode
<1> HIDE DEF new
<1> SUFFICES ASSUME NEW j \in 1 .. Len(tape) + 1, new[j].op \in Declaring,
                    NEW g \in br[OwnerOf(new[j])]
             PROVE  Ends(new, g, j) \/ OpenIn(t, g)
  BY <1>1 DEF EndsLater, new
<1>2. CASE j = Len(tape) + 1
  BY <1>1, <1>2
<1>3. CASE j \in 1 .. Len(tape)
  <2>1. new[j] = tape[j] /\ OwnerOf(tape[j]) \in DOMAIN fts
    BY <1>1, <1>3 DEF Placed, DeclaresInside
  <2>2. g \in ar[OwnerOf(tape[j])] /\ g \in DOMAIN fts
    BY <2>1 DEF KeepsTypes, Placed, Around
  <2>3. Ends(tape, g, j) \/ OpenIn(s, g)
    BY <1>3, <2>1, <2>2 DEF EndsLater
  <2>4. Ends(tape, g, j) => Ends(new, g, j)
    BY <1>3, EndsStays DEF new
  <2>5. node.op = "end" /\ node.fun = g => Ends(new, g, j)
    <3>1. Len(tape) + 1 \in j .. Len(new)
      BY <1>1, <1>3
    <3> QED
      BY <1>1, <3>1 DEF Ends
  <2> QED
    BY <2>2, <2>3, <2>4, <2>5
<1> QED
  BY <1>1, <1>2, <1>3

-----------------------------------------------------------------------------
(* One more node, and the tables after it.                                   *)

\* Scope k of t is that of s with perhaps more locals, or that of a function
\* that has declared nothing before the definition at the node.
ScopeGoes(tape, node, s, t, k) ==
  /\ \/ /\ k \in DOMAIN s /\ t[k].fun = s[k].fun
        /\ \A x \in VarNames : s[k].locals[x] # None => t[k].locals[x] = s[k].locals[x]
     \/ /\ node.op = "define" /\ node.fun = t[k].fun
        /\ \A j \in 1 .. Len(tape) : tape[j].op \in Declaring => OwnerOf(tape[j]) # t[k].fun
  /\ \A x \in VarNames : t[k].locals[x] # None =>
       \/ k \in DOMAIN s /\ t[k].fun = s[k].fun /\ t[k].locals[x] = s[k].locals[x]
       \/ IsVariable(Append(tape, node), t[k].locals[x], x, t[k].fun)
  /\ node.op \in Declaring /\ OwnerOf(node) = t[k].fun =>
       \A x \in Declares(node) : t[k].locals[x] # None

\* A function of t is one of s, or the node's.
FunctionsGo(node, s, t) ==
  \A k \in DOMAIN t, n \in FunNames : t[k].functions[n] # None =>
    \/ k \in DOMAIN s /\ t[k].functions[n] = s[k].functions[n]
    \/ node.op \in {"declare", "define"} /\ node.fun = t[k].functions[n]

LEMMA DeclaresNames ==
  ASSUME NEW node \in Node
  PROVE  Declares(node) \subseteq VarNames
<1>1. CASE node.op = "define"
  <2>1. node.header \in Headers
    BY <1>1 DEF Node
  <2>2. node.header.formals \in Seq(Formal)
    BY <2>1, GrammarAssumption
  <2>3. \A i \in DOMAIN node.header.formals : node.header.formals[i] \in Formal
    BY <2>2, LenProperties, ElementOfSeq
  <2> QED
    BY <1>1, <2>3 DEF Declares, FormalNames, Formal
<1>2. CASE node.op = "var"
  <2>1. node.ids \in IdLists
    BY <1>2 DEF Node
  <2>2. node.ids \in Seq(VarNames)
    BY <2>1, GrammarAssumption
  <2>3. \A i \in DOMAIN node.ids : node.ids[i] \in VarNames
    BY <2>2, LenProperties, ElementOfSeq
  <2> QED
    BY <1>2, <2>3 DEF Declares, Elements
<1> QED
  BY <1>1, <1>2 DEF Declares

LEMMA TablesGo ==
  ASSUME NEW tape \in Seq(Node), NEW node \in Node, NEW s, NEW t, NEW ar, NEW br,
         Tables(s, tape, ar), FunctionsPlaced(t, br), FunctionsGo(node, s, t),
         \A k \in DOMAIN t : ScopeGoes(tape, node, s, t, k)
  PROVE  Tables(t, Append(tape, node), br)
<1> DEFINE new == Append(tape, node)
<1>1. /\ Len(tape) \in Nat /\ Len(new) = Len(tape) + 1 /\ new[Len(tape) + 1] = node
      /\ \A i \in 1 .. Len(tape) : new[i] = tape[i]
      /\ \A i \in 1 .. Len(tape) + 1 : i = Len(tape) + 1 \/ i \in 1 .. Len(tape)
  BY OneMoreNode
<1>2. LocalsDeclared(t, new)
  <2> SUFFICES ASSUME NEW k \in DOMAIN t, NEW x \in VarNames, t[k].locals[x] # None
               PROVE  IsVariable(new, t[k].locals[x], x, t[k].fun)
    BY DEF LocalsDeclared
  <2>1. CASE k \in DOMAIN s /\ t[k].fun = s[k].fun /\ t[k].locals[x] = s[k].locals[x]
    <3>1. IsVariable(tape, t[k].locals[x], x, t[k].fun)
      BY <2>1 DEF Tables, LocalsDeclared
    <3> QED
      BY <3>1, VariableStays
  <2> QED
    BY <2>1 DEF ScopeGoes
<1>3. OpenBegin(t, new)
  <2> SUFFICES ASSUME NEW k \in DOMAIN t, k > 2 PROVE Begins(new, t[k].fun, Len(new))
    BY DEF OpenBegin
  <2>1. CASE node.op = "define" /\ node.fun = t[k].fun
    <3>1. Len(new) \in 1 .. Len(new) /\ new[Len(new)] = node
      BY <1>1
    <3> HIDE DEF new
    <3> QED
      BY <2>1, <3>1 DEF Begins
  <2>2. CASE k \in DOMAIN s /\ t[k].fun = s[k].fun
    <3>1. Begins(tape, t[k].fun, Len(tape))
      BY <2>2 DEF Tables, OpenBegin
    <3>2. Len(tape) \in 0 .. Len(tape) /\ Len(new) \in Len(tape) .. Len(tape) + 1
      BY <1>1
    <3> QED
      BY <3>1, <3>2, BeginsStays
  <2> QED
    BY <2>1, <2>2 DEF ScopeGoes
<1>4. DeclaredLocal(t, new)
  <2> HIDE DEF new
  <2> SUFFICES ASSUME NEW j \in 1 .. Len(tape) + 1, NEW k \in DOMAIN t, new[j].op \in Declaring,
                      OwnerOf(new[j]) = t[k].fun, NEW x \in Declares(new[j])
               PROVE  t[k].locals[x] # None
    BY <1>1 DEF DeclaredLocal
  <2>1. CASE j = Len(tape) + 1
    BY <1>1, <2>1 DEF ScopeGoes
  <2>2. CASE j \in 1 .. Len(tape)
    <3>1. new[j] = tape[j] /\ tape[j] \in Node
      BY <1>1, <2>2, ElementOfSeq
    <3>2. x \in VarNames
      BY <3>1, DeclaresNames
    <3>3. /\ k \in DOMAIN s /\ t[k].fun = s[k].fun
          /\ s[k].locals[x] # None => t[k].locals[x] = s[k].locals[x]
      BY <2>2, <3>1, <3>2 DEF ScopeGoes
    <3>4. s[k].locals[x] # None
      BY <2>2, <3>1, <3>3 DEF Tables, DeclaredLocal
    <3> QED
      BY <3>3, <3>4
  <2> QED
    BY <1>1, <2>1, <2>2
<1>5. FunctionsOnTape(t, new)
  <2> HIDE DEF new
  <2> SUFFICES ASSUME NEW k \in DOMAIN t, NEW n \in FunNames, k > 1, t[k].functions[n] # None
               PROVE  OnTape(new, t[k].functions[n])
    BY DEF FunctionsOnTape
  <2> DEFINE f == t[k].functions[n]
  <2>1. CASE k \in DOMAIN s /\ f = s[k].functions[n]
    <3>1. PICK j \in 1 .. Len(tape) : tape[j].op \in {"declare", "define"} /\ tape[j].fun = f
      BY <2>1 DEF Tables, FunctionsOnTape, OnTape
    <3>2. j \in 1 .. Len(new) /\ new[j] = tape[j]
      BY <1>1
    <3> QED
      BY <3>1, <3>2 DEF OnTape
  <2>2. CASE node.op \in {"declare", "define"} /\ node.fun = f
    <3>1. Len(tape) + 1 \in 1 .. Len(new)
      BY <1>1
    <3> QED
      BY <1>1, <2>2, <3>1 DEF OnTape
  <2> QED
    BY <2>1, <2>2 DEF FunctionsGo
<1> QED
  BY <1>2, <1>3, <1>4, <1>5 DEF Tables

\* A step that records a node, from ar to br.
LEMMA PlacesGo ==
  ASSUME TypeOK, NEW ar, NEW br, NEW node \in Node, Record(node), Places(ar),
         Around(ftypes', br), KeepsTypes(ftypes, ftypes', ar, br),
         KeepsCaptures(ast, ftypes, ftypes', br), NodePlaced(ast, ftypes', br, node),
         \A g \in DOMAIN ftypes : OpenIn(scopes, g) => OpenIn(scopes', g) \/ (node.op = "end" /\ node.fun = g),
         node.op \in Declaring => \A g \in br[OwnerOf(node)] : OpenIn(scopes', g),
         FunctionsPlaced(scopes', br), FunctionsGo(node, scopes, scopes'),
         \A k \in DOMAIN scopes' : ScopeGoes(ast, node, scopes, scopes', k)
  PROVE  PlacesInv'
<1>1. ast \in Seq(Node) /\ ast' = Append(ast, node)
  BY DEF TypeOK, Record
<1> DEFINE tape == Append(ast, node)
<1>2. Placed(tape, ftypes', br)
  BY <1>1, PlacedGoes DEF Places
<1>3. EndsLater(tape, scopes', br)
  BY <1>1, EndsGo DEF Places
<1>4. Tables(scopes', tape, br)
  BY <1>1, TablesGo DEF Places
<1>5. tape # <<>>
  BY <1>1
<1> HIDE DEF tape
<1> QED
  BY <1>1, <1>2, <1>3, <1>4, <1>5 DEF PlacesInv, Places, tape

-----------------------------------------------------------------------------
(* The open functions, their variables and their captures.                   *)

\* Around an open function are the functions of the scopes up to its own.
LEMMA OpenAround ==
  ASSUME IInv, Walking, NEW ar, FunctionsPlaced(scopes, ar), NEW k \in DOMAIN scopes, k > 2
  PROVE  /\ scopes[k].fun \in DOMAIN ftypes /\ scopes[k].fun # None
         /\ ar[scopes[k].fun] = UpTo(scopes, k)
         /\ \A l \in DOMAIN scopes : scopes[l].fun = scopes[k].fun => l = k
<1>1. /\ Len(scopes) \in Nat /\ DOMAIN scopes = 1 .. Len(scopes)
      /\ DOMAIN ftypes \subseteq Nat
  BY WhileWalking DEF IInv
<1>2. scopes[k].fun \in DOMAIN ftypes /\ scopes[k].fun # None
  BY <1>1, NameAssumption DEF IInv, TypeOK
<1>3. k - 1 \in DOMAIN scopes
  BY <1>1
<1>4. PICK n \in FunNames : scopes[k - 1].functions[n] = scopes[k].fun
  BY DEF IInv, ScopesAreLinked, FunctionsRegistered
<1>5. ar[scopes[k].fun] = UpTo(scopes, k - 1) \cup {scopes[k].fun}
  BY <1>2, <1>3, <1>4 DEF FunctionsPlaced
<1>6. UpTo(scopes, k) = UpTo(scopes, k - 1) \cup {scopes[k].fun}
  <2>1. 3 .. k = (3 .. k - 1) \cup {k}
    BY <1>1
  <2> QED
    BY <2>1 DEF UpTo
<1>7. ASSUME NEW l \in DOMAIN scopes, scopes[l].fun = scopes[k].fun PROVE l = k
  <2>1. l > 2
    <3>1. CASE l <= 2
      <4>1. scopes[l].fun = Uninit
        BY <3>1 DEF IInv, TypeOK
      <4> QED
        BY <1>1, <1>2, <1>7, <4>1, NameAssumption
    <3> QED
      BY <1>1, <3>1
  <2>2. l - 1 \in DOMAIN scopes
    BY <1>1, <2>1
  <2>3. PICK m \in FunNames : scopes[l - 1].functions[m] = scopes[l].fun
    BY <2>1 DEF IInv, ScopesAreLinked, FunctionsRegistered
  <2>4. k - 1 = l - 1
    BY <1>2, <1>3, <1>4, <1>7, <2>2, <2>3 DEF IInv, ScopesAreLinked, RegisteredOnce
  <2> QED
    BY <1>1, <2>4
<1> QED
  BY <1>2, <1>5, <1>6, <1>7

\* The current function, and what is around it.
LEMMA CurrentAround ==
  ASSUME IInv, InBody, NEW ar, FunctionsPlaced(scopes, ar)
  PROVE  /\ Len(scopes) \in Nat /\ Len(scopes) > 2 /\ DOMAIN scopes = 1 .. Len(scopes)
         /\ Top = scopes[Len(scopes)] /\ Top.fun \in DOMAIN ftypes
         /\ ar[Top.fun] = UpTo(scopes, Len(scopes))
         /\ \A l \in DOMAIN scopes : scopes[l].fun = Top.fun => l = Len(scopes)
<1>1. /\ Len(scopes) \in Nat /\ Len(scopes) > 2 /\ DOMAIN scopes = 1 .. Len(scopes)
      /\ Top = scopes[Len(scopes)] /\ Walking
  BY InsideDefinition DEF IInv, InBody, Top
<1>2. Len(scopes) \in DOMAIN scopes
  BY <1>1
<1> QED
  BY <1>1, <1>2, OpenAround

\* A variable in scope is one of a function around the current one, and of the
\* current one just if it is local.
LEMMA VariableAround ==
  ASSUME IInv, InBody, NEW ar, FunctionsPlaced(scopes, ar), LocalsDeclared(scopes, ast),
         NEW x \in VarNames, IsVar(x)
  PROVE  /\ Var(x) # None
         /\ \E o \in ar[Top.fun] :
              IsVariable(ast, Var(x), x, o) /\ (o = Top.fun <=> Top.locals[x] # None)
<1> DEFINE l == Level(x)
<1>1. /\ Len(scopes) \in Nat /\ Len(scopes) > 2 /\ DOMAIN scopes = 1 .. Len(scopes)
      /\ Top = scopes[Len(scopes)] /\ Top.fun \in DOMAIN ftypes
      /\ ar[Top.fun] = UpTo(scopes, Len(scopes))
      /\ \A k \in DOMAIN scopes : scopes[k].fun = Top.fun => k = Len(scopes)
  BY CurrentAround
<1>2. /\ l \in DOMAIN scopes /\ scopes[l].locals[x] # None /\ Var(x) = scopes[l].locals[x]
      /\ \A j \in l + 1 .. Len(scopes) : scopes[j].locals[x] = None
  BY LevelResolves DEF IsVar, Resolves, IsLocal, Var
<1> HIDE DEF l
<1>3. l > 2
  <2>1. CASE l <= 2
    <3>1. scopes[l].locals = NoVars
      BY <1>2, <2>1 DEF IInv, ScopesAreLinked, OuterScopesEmpty
    <3> QED
      BY <1>2, <3>1 DEF NoVars
  <2> QED
    BY <1>1, <1>2, <2>1
<1>4. IsVariable(ast, Var(x), x, scopes[l].fun)
  BY <1>2 DEF LocalsDeclared
<1>5. scopes[l].fun \in ar[Top.fun]
  <2>1. l \in 3 .. Len(scopes)
    BY <1>1, <1>2, <1>3
  <2> QED
    BY <1>1, <2>1 DEF UpTo
<1>6. scopes[l].fun = Top.fun <=> Top.locals[x] # None
  <2>1. CASE l = Len(scopes)
    BY <1>1, <1>2, <2>1
  <2>2. CASE l # Len(scopes)
    <3>1. Len(scopes) \in l + 1 .. Len(scopes)
      BY <1>1, <1>2, <2>2
    <3> QED
      BY <1>1, <1>2, <2>2, <3>1
  <2> QED
    BY <2>1, <2>2
<1> QED
  BY <1>2, <1>4, <1>5, <1>6

\* What a function f may take over: variables of the functions around it.
Outer(tape, m, f, ar) ==
  \A x \in VarNames : m[x] # None => \E o \in ar[f] \ {f} : IsVariable(tape, m[x], x, o)

\* Function types that have taken over such variables.
LEMMA AddedCaptures ==
  ASSUME NEW tape, NEW old, NEW fts \in Seq(FType), NEW ar,
         DOMAIN fts = DOMAIN old, KeepsTypes(old, fts, ar, ar), KeepsCaptures(tape, old, fts, ar),
         NEW fn \in DOMAIN fts, NEW m \in VarMap, Outer(tape, m, fn, ar),
         Begins(tape, fn, Len(tape)),
         NEW gts, gts = AddCaptures(fts, fn, m)
  PROVE  /\ gts \in Seq(FType) /\ DOMAIN gts = DOMAIN old
         /\ KeepsTypes(old, gts, ar, ar) /\ KeepsCaptures(tape, old, gts, ar)
         /\ \A x \in VarNames : m[x] # None => gts[fn].prev[x] # None
<1>1. /\ gts \in Seq(FType) /\ DOMAIN gts = DOMAIN fts
      /\ \A f \in DOMAIN fts :
           gts[f].prev = IF f = fn THEN Override(fts[fn].prev, m) ELSE fts[f].prev
  BY AddCapturesProperties
<1>2. \A f \in DOMAIN fts : gts[f].args = fts[f].args /\ gts[f].declared = fts[f].declared
  <2>1. fts[fn] \in FType
    BY LenProperties, ElementOfSeq
  <2> QED
    BY <2>1 DEF AddCaptures, FType
<1>3. \A x \in VarNames : gts[fn].prev[x] = IF m[x] # None THEN m[x] ELSE fts[fn].prev[x]
  BY <1>1 DEF Override
<1>4. KeepsTypes(old, gts, ar, ar)
  <2> SUFFICES ASSUME NEW f \in DOMAIN old
               PROVE  /\ f \in DOMAIN gts /\ gts[f].args = old[f].args
                      /\ gts[f].declared => old[f].declared
                      /\ \A x \in VarNames : old[f].prev[x] # None => gts[f].prev[x] # None
    BY DEF KeepsTypes
  <2>1. /\ f \in DOMAIN fts /\ fts[f].args = old[f].args
        /\ fts[f].declared => old[f].declared
        /\ \A x \in VarNames : old[f].prev[x] # None => fts[f].prev[x] # None
    BY DEF KeepsTypes
  <2> QED
    BY <1>1, <1>2, <1>3, <2>1
<1>5. KeepsCaptures(tape, old, gts, ar)
  <2> SUFFICES ASSUME NEW f \in DOMAIN gts, NEW x \in VarNames, gts[f].prev[x] # None
               PROVE  \/ f \in DOMAIN old /\ gts[f].prev[x] = old[f].prev[x]
                      \/ /\ \E o \in ar[f] \ {f} : IsVariable(tape, gts[f].prev[x], x, o)
                         /\ Begins(tape, f, Len(tape))
    BY DEF KeepsCaptures
  <2>1. CASE f = fn /\ m[x] # None
    BY <1>3, <2>1 DEF Outer
  <2>2. CASE ~(f = fn /\ m[x] # None)
    <3>1. gts[f].prev[x] = fts[f].prev[x] /\ f \in DOMAIN fts
      BY <1>1, <1>3, <2>2
    <3> QED
      BY <3>1 DEF KeepsCaptures
  <2> QED
    BY <2>1, <2>2
<1> QED
  BY <1>1, <1>3, <1>4, <1>5

LEMMA KeepsItself ==
  ASSUME NEW tape, NEW fts, NEW ar
  PROVE  KeepsTypes(fts, fts, ar, ar) /\ KeepsCaptures(tape, fts, fts, ar)
BY DEF KeepsTypes, KeepsCaptures

\* Captures that are kept are around their function.
LEMMA KeptAround ==
  ASSUME NEW tape, NEW fts, NEW gts, NEW ar, CapturesAround(tape, fts, ar),
         DOMAIN gts = DOMAIN fts, KeepsCaptures(tape, fts, gts, ar), NEW f \in DOMAIN gts
  PROVE  Outer(tape, gts[f].prev, f, ar)
BY DEF CapturesAround, KeepsCaptures, Outer

\* What is not local comes from another function.
LEMMA NotLocalIsOuter ==
  ASSUME IInv, InBody, NEW tape, DeclaredLocal(scopes, tape), NEW k \in DOMAIN scopes,
         NEW ar, NEW m, NEW os,
         \A x \in VarNames : m[x] # None => \E o \in os : IsVariable(tape, m[x], x, o),
         os \subseteq ar[scopes[k].fun]
  PROVE  Outer(tape, NotLocalTo(scopes[k], m), scopes[k].fun, ar)
<1> SUFFICES ASSUME NEW x \in VarNames, NotLocalTo(scopes[k], m)[x] # None
             PROVE  \E o \in ar[scopes[k].fun] \ {scopes[k].fun} :
                      IsVariable(tape, NotLocalTo(scopes[k], m)[x], x, o)
  BY DEF Outer
<1>1. scopes[k].locals[x] = None /\ m[x] # None /\ NotLocalTo(scopes[k], m)[x] = m[x]
  BY DEF NotLocalTo
<1>2. PICK o \in os : IsVariable(tape, m[x], x, o)
  BY <1>1
<1>3. o # scopes[k].fun
  <2>1. CASE o = scopes[k].fun
    <3>1. /\ m[x].node \in 1 .. Len(tape) /\ x \in Declares(tape[m[x].node])
          /\ OwnerOf(tape[m[x].node]) = scopes[k].fun
      BY <1>2, <2>1 DEF IsVariable
    <3>2. tape[m[x].node].op \in Declaring
      BY <3>1 DEF Declares, Declaring
    <3> QED
      BY <1>1, <3>1, <3>2 DEF DeclaredLocal
  <2> QED
    BY <2>1
<1> QED
  BY <1>1, <1>2, <1>3

-----------------------------------------------------------------------------
(* Statements.                                                               *)

LEMMA RecordedNode ==
  ASSUME TypeOK, TypeOK', NEW node, Record(node)
  PROVE  node \in Node
<1>1. ast \in Seq(Node) /\ ast' \in Seq(Node) /\ ast' = Append(ast, node)
  BY DEF TypeOK, Record
<1>2. Len(ast') = Len(ast) + 1 /\ ast'[Len(ast) + 1] = node /\ Len(ast) \in Nat
  BY <1>1, LenProperties
<1>3. Len(ast) + 1 \in 1 .. Len(ast')
  BY <1>2
<1> QED
  BY <1>1, <1>2, <1>3, ElementOfSeq

\* In a definition, its own node is on the tape.
LEMMA TapeBegun ==
  ASSUME IInv, InBody, NEW ar, Places(ar)
  PROVE  Len(ast) \in Nat /\ Len(ast) > 0 /\ Begins(ast, Top.fun, Len(ast))
<1>1. Len(ast) \in Nat
  BY LenProperties DEF IInv, TypeOK
<1>2. Len(scopes) \in DOMAIN scopes /\ Len(scopes) > 2
  BY InsideDefinition DEF IInv
<1>3. Begins(ast, Top.fun, Len(ast))
  BY <1>2 DEF Places, Tables, OpenBegin, Top
<1> QED
  BY <1>1, <1>3 DEF Begins

\* Scopes that differ in no function, variable or name of a function.
SameTables(s, t) ==
  /\ DOMAIN t = DOMAIN s
  /\ \A k \in DOMAIN s : /\ t[k].locals = s[k].locals /\ t[k].functions = s[k].functions
                         /\ t[k].fun = s[k].fun

LEMMA ReturnMarked ==
  ASSUME \A k \in DOMAIN scopes : scopes[k] \in Scope
  PROVE  SameTables(scopes, MarkReturn)
BY DEF SameTables, MarkReturn, Scope

LEMMA SameFunctionsPlaced ==
  ASSUME NEW s, NEW t, NEW ar, FunctionsPlaced(s, ar), DOMAIN t = DOMAIN s,
         \E n \in Nat : DOMAIN s = 1 .. n,
         \A k \in DOMAIN s : t[k].functions = s[k].functions /\ t[k].fun = s[k].fun
  PROVE  FunctionsPlaced(t, ar)
<1>1. ASSUME NEW k \in DOMAIN s PROVE UpTo(t, k) = UpTo(s, k)
  <2>1. \A l \in 3 .. k : l \in DOMAIN s
    OBVIOUS
  <2> QED
    BY <2>1 DEF UpTo
<1> SUFFICES ASSUME NEW k \in DOMAIN t, NEW n \in FunNames, t[k].functions[n] # None
             PROVE  ar[t[k].functions[n]] = UpTo(t, k) \cup {t[k].functions[n]}
  BY DEF FunctionsPlaced
<1>2. k \in DOMAIN s /\ t[k].functions = s[k].functions /\ UpTo(t, k) = UpTo(s, k)
  BY <1>1
<1>3. s[k].functions[n] # None
  BY <1>2
<1>4. ar[s[k].functions[n]] = UpTo(s, k) \cup {s[k].functions[n]}
  BY <1>2, <1>3 DEF FunctionsPlaced
<1> QED
  BY <1>2, <1>4

LEMMA StatementPlaces ==
  ASSUME IInv, IInv', InBody, NEW ar, Places(ar), NEW node, Record(node), node.op \in Statements,
         scopes' = scopes \/ scopes' = MarkReturn, DOMAIN ftypes' = DOMAIN ftypes,
         KeepsTypes(ftypes, ftypes', ar, ar), KeepsCaptures(ast, ftypes, ftypes', ar),
         node.op \in Using => UseFits(ast, ftypes', ar, node, Len(ast) + 1),
         node.op = "call" => CallFits(ast, ftypes', ar, node, Len(ast) + 1)
  PROVE  PlacesInv'
<1>1. node \in Node
  BY RecordedNode DEF IInv
<1>2. SameTables(scopes, scopes')
  BY InsideDefinition, ReturnMarked DEF IInv, SameTables
<1>3. node.op \notin {"define", "declare", "var", "end"}
  BY DEF Statements
<1>4. Around(ftypes', ar)
  BY DEF Places, Placed, Around
<1>5. NodePlaced(ast, ftypes', ar, node)
  <2>1. Len(ast) # 0
    BY TapeBegun
  <2>2. HeaderFits(ast, ftypes', node, Len(ast) + 1)
    BY <1>3 DEF HeaderFits
  <2>3. node.op \notin Declaring
    BY <1>3 DEF Declaring
  <2> QED
    BY <2>1, <2>2, <2>3 DEF NodePlaced
<1>6. \A g : OpenIn(scopes, g) => OpenIn(scopes', g)
  BY <1>2 DEF SameTables, OpenIn
<1>7. FunctionsPlaced(scopes', ar)
  <2>1. DOMAIN scopes = 1 .. Len(scopes) /\ Len(scopes) \in Nat
    BY InsideDefinition DEF IInv
  <2> QED
    BY <1>2, <2>1, SameFunctionsPlaced DEF SameTables, Places, Tables
<1>8. FunctionsGo(node, scopes, scopes')
  BY <1>2 DEF SameTables, FunctionsGo
<1>9. \A k \in DOMAIN scopes' : ScopeGoes(ast, node, scopes, scopes', k)
  BY <1>2, <1>3 DEF SameTables, ScopeGoes, Declaring
<1> QED
  BY <1>1, <1>3, <1>4, <1>5, <1>6, <1>7, <1>8, <1>9, PlacesGo DEF IInv, Declaring

\* What the current function captures of the operands os.
LEMMA OperandsPlaced ==
  ASSUME IInv, InBody, NEW ar, Places(ar), NEW os, \A x \in os \cap VarNames : IsVar(x)
  PROVE  /\ CapturedBy(os) \in VarMap /\ Outer(ast, CapturedBy(os), Top.fun, ar)
         /\ \A x \in VarNames : Bindings(os)[x] # None =>
              /\ \E o \in ar[Top.fun] : IsVariable(ast, Bindings(os)[x], x, o)
                                        /\ (o = Top.fun <=> CapturedBy(os)[x] = None)
<1>1. CapturedBy(os) \in VarMap
  BY CapturedByProperties DEF IInv
<1>2. ASSUME NEW x \in VarNames, Bindings(os)[x] # None
      PROVE  \E o \in ar[Top.fun] : IsVariable(ast, Bindings(os)[x], x, o)
                                    /\ (o = Top.fun <=> CapturedBy(os)[x] = None)
  <2>1. x \in os /\ Bindings(os)[x] = Var(x)
    BY <1>2 DEF Bindings
  <2>2. IsVar(x)
    BY <2>1
  <2>3. PICK o \in ar[Top.fun] :
          IsVariable(ast, Var(x), x, o) /\ (o = Top.fun <=> Top.locals[x] # None)
    BY <2>2, VariableAround DEF Places, Tables
  <2>4. CapturedBy(os)[x] = IF Top.locals[x] = None THEN Bindings(os)[x] ELSE None
    BY DEF CapturedBy, NotLocalTo
  <2> QED
    BY <1>2, <2>1, <2>3, <2>4
<1>3. Outer(ast, CapturedBy(os), Top.fun, ar)
  <2> SUFFICES ASSUME NEW x \in VarNames, CapturedBy(os)[x] # None
               PROVE  \E o \in ar[Top.fun] \ {Top.fun} : IsVariable(ast, CapturedBy(os)[x], x, o)
    BY DEF Outer
  <2>1. CapturedBy(os)[x] = Bindings(os)[x] /\ Bindings(os)[x] # None
    BY DEF CapturedBy, NotLocalTo
  <2> QED
    BY <1>2, <2>1
<1> QED
  BY <1>1, <1>2, <1>3

\* A node that uses the operands os fits what they have become.
LEMMA OperandsFit ==
  ASSUME IInv, InBody, NEW ar, Places(ar), NEW os, \A x \in os \cap VarNames : IsVar(x),
         NEW gts, DOMAIN gts = DOMAIN ftypes,
         \A x \in VarNames : CapturedBy(os)[x] # None => gts[Top.fun].prev[x] # None,
         NEW node, node.by = Top.fun, node.binds = Bindings(os)
  PROVE  UseFits(ast, gts, ar, node, Len(ast) + 1)
<1>1. Top.fun \in DOMAIN gts
  BY InsideDefinition DEF IInv
<1>2. ASSUME NEW x \in VarNames, Bindings(os)[x] # None
      PROVE  \E o \in ar[Top.fun] : KnownAt(ast, gts, Top.fun, Len(ast) + 1, Bindings(os)[x], x, o)
  <2> DEFINE v == Bindings(os)[x]
  <2>1. PICK o \in ar[Top.fun] :
          IsVariable(ast, v, x, o) /\ (o = Top.fun <=> CapturedBy(os)[x] = None)
    BY <1>2, OperandsPlaced
  <2>2. v.node < Len(ast) + 1
    <3>1. v.node \in 1 .. Len(ast) /\ Len(ast) \in Nat
      BY <2>1, LenProperties DEF IsVariable, IInv, TypeOK
    <3> HIDE DEF v
    <3> QED
      BY <3>1
  <2> HIDE DEF v
  <2>3. KnownAt(ast, gts, Top.fun, Len(ast) + 1, v, x, o)
    BY <2>1, <2>2 DEF KnownAt
  <2> QED
    BY <2>3 DEF v
<1> QED
  BY <1>1, <1>2 DEF UseFits

LEMMA CapturePlaces ==
  ASSUME IInv, IInv', InBody, PlacesInv, NEW os, \A x \in os \cap VarNames : IsVar(x),
         Capture(os), NEW node, Record(node), scopes' = scopes \/ scopes' = MarkReturn,
         node.op \in {"assign", "return", "condition"},
         node.by = Top.fun, node.binds = Bindings(os)
  PROVE  PlacesInv'
<1>1. PICK ar : Places(ar)
  BY DEF PlacesInv
<1>2. CapturedBy(os) \in VarMap /\ Outer(ast, CapturedBy(os), Top.fun, ar)
  BY <1>1, OperandsPlaced
<1>3. ftypes \in Seq(FType) /\ Top.fun \in DOMAIN ftypes
  BY InsideDefinition DEF IInv, TypeOK
<1>4. ftypes' = AddCaptures(ftypes, Top.fun, CapturedBy(os))
  BY DEF Capture
<1>5. /\ DOMAIN ftypes' = DOMAIN ftypes
      /\ KeepsTypes(ftypes, ftypes', ar, ar) /\ KeepsCaptures(ast, ftypes, ftypes', ar)
      /\ \A x \in VarNames : CapturedBy(os)[x] # None => ftypes'[Top.fun].prev[x] # None
  <2> DEFINE f == Top.fun
             m == CapturedBy(os)
  <2>1. /\ Begins(ast, f, Len(ast)) /\ f \in DOMAIN ftypes /\ m \in VarMap /\ Outer(ast, m, f, ar)
        /\ ftypes' = AddCaptures(ftypes, f, m)
    BY <1>1, <1>2, <1>3, <1>4, TapeBegun
  <2>2. KeepsTypes(ftypes, ftypes, ar, ar) /\ KeepsCaptures(ast, ftypes, ftypes, ar)
    BY KeepsItself
  <2> HIDE DEF f, m
  <2>3. /\ DOMAIN ftypes' = DOMAIN ftypes
        /\ KeepsTypes(ftypes, ftypes', ar, ar) /\ KeepsCaptures(ast, ftypes, ftypes', ar)
        /\ \A x \in VarNames : m[x] # None => ftypes'[f].prev[x] # None
    BY <1>3, <2>1, <2>2, AddedCaptures
  <2> QED
    BY <2>3 DEF f, m
<1>6. UseFits(ast, ftypes', ar, node, Len(ast) + 1)
  BY <1>1, <1>5, OperandsFit
<1> QED
  BY <1>1, <1>5, <1>6, StatementPlaces DEF Statements

\* A stopped compiler has empty tables.
LEMMA StopPlaces ==
  ASSUME NEW why, why # "accepted", Stop(why)
  PROVE  PlacesInv'
<1>1. /\ ast' = <<>> /\ ftypes' = <<>> /\ scopes' = <<>> /\ outcome' # "accepted"
      /\ Len(<<>>) = 0 /\ 1 .. 0 = {} /\ DOMAIN <<>> = {}
  BY DEF Stop
<1> DEFINE ar == [f \in {} |-> {}]
<1>2. ar \in [{} -> SUBSET {}]
  OBVIOUS
<1> HIDE DEF ar
<1>3. Placed(<<>>, <<>>, ar)
  BY <1>1, <1>2 DEF Placed, Around, CapturesAround, DeclaresInside, UsesFit, CallsFit, HeadersFit,
    ProgramFirst
<1>4. EndsLater(<<>>, <<>>, ar) /\ Tables(<<>>, <<>>, ar)
  BY <1>1 DEF EndsLater, Tables, FunctionsPlaced, LocalsDeclared, DeclaredLocal, OpenBegin,
    FunctionsOnTape
<1> QED
  BY <1>1, <1>3, <1>4 DEF PlacesInv, Places

LEMMA AssignPlaces ==
  ASSUME IInv, IInv', PlacesInv, NEW x \in VarNames, NEW o \in Operands, Assign(x, o)
  PROVE  PlacesInv'
<1>1. CASE ~(IsVar(x) /\ HasType(o, Var(x).t))
  BY <1>1, StopPlaces DEF Assign
<1>2. CASE IsVar(x) /\ HasType(o, Var(x).t)
  <2> DEFINE os   == {x, o}
             node == [op |-> "assign", target |-> x, operand |-> o, binds |-> Bindings(os),
                      by |-> Top.fun]
  <2>1. InBody /\ Capture(os) /\ Record(node) /\ UNCHANGED scopes
    BY <1>2 DEF Assign
  <2>2. \A y \in os \cap VarNames : IsVar(y)
    BY <1>2 DEF HasType, Names
  <2>3. node.op = "assign" /\ node.by = Top.fun /\ node.binds = Bindings(os)
    OBVIOUS
  <2> HIDE DEF node, os
  <2> QED
    BY <2>1, <2>2, <2>3, CapturePlaces
<1> QED
  BY <1>1, <1>2

LEMMA ReturnPlaces ==
  ASSUME IInv, IInv', PlacesInv, NEW o \in Operands, Return(o)
  PROVE  PlacesInv'
<1>1. CASE ~HasType(o, Top.ret)
  BY <1>1, StopPlaces DEF Return
<1>2. CASE HasType(o, Top.ret)
  <2> DEFINE os   == {o}
             node == [op |-> "return", operand |-> o, binds |-> Bindings(os), by |-> Top.fun]
  <2>1. InBody /\ Capture(os) /\ Record(node) /\ scopes' = MarkReturn
    BY <1>2 DEF Return
  <2>2. \A y \in os \cap VarNames : IsVar(y)
    BY <1>2 DEF HasType, Names
  <2>3. node.op = "return" /\ node.by = Top.fun /\ node.binds = Bindings(os)
    OBVIOUS
  <2> HIDE DEF node, os
  <2> QED
    BY <2>1, <2>2, <2>3, CapturePlaces
<1> QED
  BY <1>1, <1>2

LEMMA ConditionPlaces ==
  ASSUME IInv, IInv', PlacesInv, NEW o \in Operands, Condition(o)
  PROVE  PlacesInv'
<1>1. CASE ~HasType(o, "bool")
  BY <1>1, StopPlaces DEF Condition
<1>2. CASE HasType(o, "bool")
  <2> DEFINE os   == {o}
             node == [op |-> "condition", operand |-> o, binds |-> Bindings(os), by |-> Top.fun]
  <2>1. InBody /\ Capture(os) /\ Record(node) /\ UNCHANGED scopes
    BY <1>2 DEF Condition
  <2>2. \A y \in os \cap VarNames : IsVar(y)
    BY <1>2 DEF HasType, Names
  <2>3. node.op = "condition" /\ node.by = Top.fun /\ node.binds = Bindings(os)
    OBVIOUS
  <2> HIDE DEF node, os
  <2> QED
    BY <2>1, <2>2, <2>3, CapturePlaces
<1> QED
  BY <1>1, <1>2

LEMMA ExitAndSkipPlaces ==
  ASSUME IInv, IInv', PlacesInv, Exit \/ Skip
  PROVE  PlacesInv'
<1>1. CASE Exit /\ Stop("rejected")
  BY <1>1, StopPlaces
<1>2. CASE Skip \/ (Exit /\ ~Stop("rejected"))
  <2>1. PICK node : /\ Record(node) /\ node.op \in {"skip", "exit"}
                    /\ InBody /\ UNCHANGED <<scopes, ftypes>>
    BY <1>2 DEF Exit, Skip, InDefs, InBody
  <2>2. PICK ar : Places(ar)
    BY DEF PlacesInv
  <2>3. KeepsTypes(ftypes, ftypes', ar, ar) /\ KeepsCaptures(ast, ftypes, ftypes', ar)
    BY <2>1, KeepsItself
  <2>4. node.op \in Statements /\ node.op \notin Using /\ node.op # "call"
    BY <2>1 DEF Statements, Using
  <2> QED
    BY <2>1, <2>2, <2>3, <2>4, StatementPlaces
<1> QED
  BY <1>1, <1>2

\* A call takes over what is around the callee, and so around the caller.
LEMMA CallPlaces ==
  ASSUME IInv, IInv', PlacesInv, NEW name \in FunNames, NEW args \in ArgLists, Call(name, args)
  PROVE  PlacesInv'
<1>1. CASE ~WellTypedCall(name, args)
  BY <1>1, StopPlaces DEF Call
<1>2. CASE WellTypedCall(name, args)
  <2> DEFINE c    == Fun(name)
             me   == Top.fun
             os   == Elements(args)
             mid  == AfterArgs(args)
             m    == NotLocalTo(Top, mid[c].prev)
             node == [op |-> "call", name |-> name, args |-> args,
                      binds |-> Bindings(os), fun |-> c, by |-> me,
                      sealed |-> Sealed(c), locals |-> Keys(Top.locals)]
  <2>1. /\ InBody /\ Record(node) /\ UNCHANGED scopes
        /\ ftypes' = AddCaptures(mid, me, m)
    BY <1>2 DEF Call, AfterCall
  <2>2. PICK ar : Places(ar)
    BY DEF PlacesInv
  <2>3. /\ Len(scopes) \in Nat /\ Len(scopes) > 2 /\ DOMAIN scopes = 1 .. Len(scopes)
        /\ Top = scopes[Len(scopes)] /\ me \in DOMAIN ftypes /\ Top \in Scope
        /\ ar[me] = UpTo(scopes, Len(scopes)) /\ ftypes \in Seq(FType)
        /\ Len(scopes) \in DOMAIN scopes
    BY <2>1, <2>2, CurrentAround, InsideDefinition DEF Places, Tables, IInv, TypeOK
  <2>4. \A x \in os \cap VarNames : IsVar(x)
    BY <1>2 DEF Elements, WellTypedCall, HasType, Names
  <2>5. c \in DOMAIN ftypes /\ \E k \in DOMAIN scopes : ar[c] = UpTo(scopes, k) \cup {c}
    <3> DEFINE k == Level(name)
    <3>1. k \in DOMAIN scopes /\ scopes[k].functions[name] = c /\ c # None
      BY <1>2, LevelResolves DEF WellTypedCall, IsFun, Resolves, IsNested, Fun
    <3> HIDE DEF k
    <3>2. c \in DOMAIN ftypes
      BY <3>1 DEF IInv, TypeOK
    <3>3. ar[c] = UpTo(scopes, k) \cup {c}
      BY <2>2, <3>1 DEF Places, Tables, FunctionsPlaced
    <3> QED
      BY <3>1, <3>2, <3>3
  <2>6. ar[c] \ {c} \subseteq ar[me]
    <3>1. PICK k \in DOMAIN scopes : ar[c] = UpTo(scopes, k) \cup {c}
      BY <2>5
    <3>2. UpTo(scopes, k) \subseteq UpTo(scopes, Len(scopes))
      BY <2>3 DEF UpTo
    <3> QED
      BY <2>3, <3>1, <3>2
  <2>7. /\ CapturedBy(os) \in VarMap /\ Outer(ast, CapturedBy(os), me, ar)
    BY <2>1, <2>2, <2>4, OperandsPlaced
  <2>8. Begins(ast, me, Len(ast))
    BY <2>1, <2>2, TapeBegun
  <2>9. mid = AddCaptures(ftypes, me, CapturedBy(os))
    BY DEF AfterArgs
  <2> HIDE DEF mid, c, me
  <2>10. /\ mid \in Seq(FType) /\ DOMAIN mid = DOMAIN ftypes
         /\ KeepsTypes(ftypes, mid, ar, ar) /\ KeepsCaptures(ast, ftypes, mid, ar)
         /\ \A x \in VarNames : CapturedBy(os)[x] # None => mid[me].prev[x] # None
    <3> DEFINE p == CapturedBy(os)
    <3>1. p \in VarMap /\ Outer(ast, p, me, ar) /\ mid = AddCaptures(ftypes, me, p)
      BY <2>7, <2>9
    <3>2. KeepsTypes(ftypes, ftypes, ar, ar) /\ KeepsCaptures(ast, ftypes, ftypes, ar)
      BY KeepsItself
    <3> HIDE DEF p
    <3>3. /\ mid \in Seq(FType) /\ DOMAIN mid = DOMAIN ftypes
          /\ KeepsTypes(ftypes, mid, ar, ar) /\ KeepsCaptures(ast, ftypes, mid, ar)
          /\ \A x \in VarNames : p[x] # None => mid[me].prev[x] # None
      BY <2>3, <2>8, <3>1, <3>2, AddedCaptures
    <3> QED
      BY <3>3 DEF p
  <2>11. mid[c].prev \in VarMap /\ m \in VarMap
    <3>1. mid[c] \in FType
      BY <2>5, <2>10, LenProperties, ElementOfSeq
    <3>2. mid[c].prev \in VarMap
      BY <3>1 DEF FType
    <3> QED
      BY <2>3, <3>2, NotLocalToProperties
  <2>12. Outer(ast, m, me, ar)
    <3>1. Outer(ast, mid[c].prev, c, ar)
      BY <2>2, <2>5, <2>10, KeptAround DEF Places, Placed
    <3> DEFINE p  == mid[c].prev
               ms == ar[c] \ {c}
    <3>2. \A x \in VarNames : p[x] # None => \E o \in ms : IsVariable(ast, p[x], x, o)
      BY <3>1 DEF Outer
    <3>3. ms \subseteq ar[scopes[Len(scopes)].fun]
      BY <2>3, <2>6 DEF me
    <3>4. m = NotLocalTo(scopes[Len(scopes)], p) /\ me = scopes[Len(scopes)].fun
      BY <2>3 DEF me
    <3> HIDE DEF p, ms, m
    <3> QED
      BY <2>1, <2>2, <2>3, <3>2, <3>3, <3>4, NotLocalIsOuter DEF Places, Tables
  <2> HIDE DEF m
  <2>13. /\ DOMAIN ftypes' = DOMAIN ftypes
         /\ KeepsTypes(ftypes, ftypes', ar, ar) /\ KeepsCaptures(ast, ftypes, ftypes', ar)
    BY <2>1, <2>3, <2>8, <2>10, <2>11, <2>12, AddedCaptures
  <2>14. \A x \in VarNames : CapturedBy(os)[x] # None => ftypes'[me].prev[x] # None
    <3>1. \A x \in VarNames : mid[me].prev[x] # None => ftypes'[me].prev[x] # None
      <4>1. KeepsTypes(mid, ftypes', ar, ar)
        <5>1. KeepsTypes(mid, mid, ar, ar) /\ KeepsCaptures(ast, mid, mid, ar)
          BY KeepsItself
        <5> QED
          BY <2>1, <2>3, <2>8, <2>10, <2>11, <2>12, <5>1, AddedCaptures
      <4> QED
        BY <2>3, <2>10, <4>1 DEF KeepsTypes
    <3> QED
      BY <2>10, <3>1
  <2>15. /\ node.op = "call" /\ node.by = me /\ node.binds = Bindings(os) /\ node.fun = c
         /\ node.args = args /\ node.locals = Keys(Top.locals)
    OBVIOUS
  <2> HIDE DEF node
  <2>16. UseFits(ast, ftypes', ar, node, Len(ast) + 1)
    BY <2>1, <2>2, <2>4, <2>13, <2>14, <2>15, OperandsFit DEF me
  <2>17. CallFits(ast, ftypes', ar, node, Len(ast) + 1)
    <3>1. ftypes'[c].args = ftypes[c].args
      BY <2>5, <2>13 DEF KeepsTypes
    <3>2. Len(args) = Len(ftypes[c].args)
      BY <1>2 DEF WellTypedCall, c
    <3>3. ASSUME NEW i \in 1 .. Len(args), args[i] \in VarNames
          PROVE  /\ node.binds[args[i]] # None
                 /\ node.binds[args[i]].t = ftypes[c].args[i].t
      <4>1. i \in DOMAIN args
        <5>1. args \in Seq(Operands)
          BY GrammarAssumption
        <5> QED
          BY <5>1, LenProperties
      <4>2. IsVar(args[i]) /\ Var(args[i]).t = ftypes[c].args[i].t
        BY <1>2, <3>3, <4>1 DEF WellTypedCall, HasType, Names, c
      <4>3. node.binds[args[i]] = Var(args[i])
        BY <2>15, <3>3, <4>1 DEF Bindings, Elements, os
      <4>4. Var(args[i]) # None
        BY <2>1, <2>2, <3>3, <4>2, VariableAround DEF Places, Tables
      <4> QED
        BY <4>2, <4>3, <4>4
    <3>4. ASSUME NEW x \in Keys(Top.locals) PROVE DeclaredBefore(ast, me, x, Len(ast) + 1)
      <4>1. x \in VarNames /\ Top.locals[x] # None
        BY <2>3 DEF Keys, Scope, VarMap
      <4> DEFINE v == Top.locals[x]
      <4>2. IsVariable(ast, v, x, me)
        BY <2>2, <2>3, <4>1 DEF Places, Tables, LocalsDeclared, me
      <4> HIDE DEF v
      <4>3. /\ v.node \in 1 .. (Len(ast) + 1) - 1 /\ x \in Declares(ast[v.node])
            /\ OwnerOf(ast[v.node]) = me
        <5>1. Len(ast) \in Nat
          BY LenProperties DEF IInv, TypeOK
        <5> QED
          BY <4>2, <5>1 DEF IsVariable
      <4>4. ast[v.node].op \in Declaring
        BY <4>3 DEF Declares, Declaring
      <4> QED
        BY <4>3, <4>4 DEF DeclaredBefore
    <3> QED
      BY <2>3, <2>5, <2>6, <2>13, <2>15, <3>1, <3>2, <3>3, <3>4 DEF CallFits
  <2> QED
    BY <2>1, <2>2, <2>13, <2>15, <2>16, <2>17, StatementPlaces DEF Statements
<1> QED
  BY <1>1, <1>2

-----------------------------------------------------------------------------
(* Definitions, declarations and variables.                                  *)

\* The functions of the open scopes have begun, and use up no declaration.
LEMMA OpenHasBegun ==
  ASSUME TapeNow, Walking, NEW ar, Places(ar), NEW g \in UpTo(scopes, Len(scopes)), NEW node
  PROVE  /\ g \in DOMAIN ftypes /\ ~ftypes[g].declared /\ OpenIn(scopes, g)
         /\ Begins(Append(ast, node), g, Len(ast) + 1) /\ Len(ast) > 0
<1>1. /\ Len(scopes) \in Nat /\ DOMAIN scopes = 1 .. Len(scopes) /\ Len(ast) \in Nat
      /\ ast \in Seq(Node)
  BY WhileWalking DEF TapeNow, IInv, TypeOK
<1>2. PICK l \in 3 .. Len(scopes) : g = scopes[l].fun
  BY DEF UpTo
<1>3. l \in DOMAIN scopes /\ l > 2
  BY <1>1
<1>4. Begins(ast, g, Len(ast))
  BY <1>2, <1>3 DEF Places, Tables, OpenBegin
<1>5. PICK d \in 1 .. Len(ast) : ast[d].op = "define" /\ ast[d].fun = g
  BY <1>4 DEF Begins
<1>6. g \in DOMAIN ftypes /\ ~ftypes[g].declared
  <2>1. d \in DOMAIN ast
    BY <1>1, LenProperties
  <2> QED
    BY <1>5, <2>1 DEF TapeNow, TapeInv, TapeIn, BodiesIn
<1>7. Begins(Append(ast, node), g, Len(ast) + 1)
  <2>1. Len(ast) \in 0 .. Len(ast) /\ Len(ast) + 1 \in Len(ast) .. Len(ast) + 1
    BY <1>1
  <2> QED
    BY <1>1, <1>4, <2>1, BeginsStays
<1> QED
  BY <1>1, <1>2, <1>3, <1>5, <1>6, <1>7 DEF OpenIn

LEMMA VarPlaces ==
  ASSUME TapeNow, IInv', PlacesInv, NEW ids \in IdLists, NEW t \in DataTypes,
         NEW isRef \in UninitBool, VarDefinition(ids, t, isRef)
  PROVE  PlacesInv'
<1> DEFINE L    == Len(scopes)
           type == [t |-> t, pass |-> IF isRef THEN "ref" ELSE "val", node |-> Len(ast) + 1]
           node == [op |-> "var", ids |-> ids, type |-> type, by |-> Top.fun]
<1>1. CASE ~Distinct(ids) \/ (\E x \in Elements(ids) : Top.locals[x] # None)
  BY <1>1, StopPlaces DEF VarDefinition
<1>2. CASE ~(~Distinct(ids) \/ (\E x \in Elements(ids) : Top.locals[x] # None))
  <2>1. /\ InBody /\ Walking /\ Record(node) /\ UNCHANGED ftypes
        /\ scopes' = [scopes EXCEPT ![L].locals =
                        [x \in VarNames |-> IF x \in Elements(ids) THEN type ELSE @[x]]]
        /\ \A x \in Elements(ids) : Top.locals[x] = None
    BY <1>2 DEF VarDefinition, InDefs, InBody
  <2>2. PICK ar : Places(ar)
    BY DEF PlacesInv
  <2>3. /\ L \in Nat /\ L > 2 /\ DOMAIN scopes = 1 .. L /\ L \in DOMAIN scopes
        /\ Top = scopes[L] /\ Top.fun \in DOMAIN ftypes
        /\ ar[Top.fun] = UpTo(scopes, L)
        /\ \A l \in DOMAIN scopes : scopes[l].fun = Top.fun => l = L
    BY <2>1, <2>2, CurrentAround DEF Places, Tables, TapeNow
  <2>4. \A k \in DOMAIN scopes : scopes[k] \in Scope
    BY <2>1, InsideDefinition DEF TapeNow, IInv
  <2>5. /\ node.op = "var" /\ node.by = Top.fun /\ node.ids = ids /\ node.type = type
        /\ type.node = Len(ast) + 1 /\ (TRUE \notin UninitBool => type.pass = "val")
    BY NameAssumption
  <2> HIDE DEF node, type
  <2>6. /\ DOMAIN scopes' = DOMAIN scopes
        /\ \A k \in DOMAIN scopes :
             /\ scopes'[k].functions = scopes[k].functions /\ scopes'[k].fun = scopes[k].fun
             /\ \A x \in VarNames :
                  scopes'[k].locals[x] =
                    IF k = L /\ x \in Elements(ids) THEN type ELSE scopes[k].locals[x]
    BY <2>1, <2>3, <2>4 DEF Scope
  <2>7. node \in Node
    BY <2>1, RecordedNode DEF TapeNow, IInv
  <2>8. ast \in Seq(Node) /\ Len(ast) \in Nat
    BY LenProperties DEF TapeNow, IInv, TypeOK
  <2>9. ASSUME NEW x \in Elements(ids) PROVE IsVariable(Append(ast, node), type, x, Top.fun)
    <3> DEFINE new == Append(ast, node)
    <3>1. type.node \in 1 .. Len(new) /\ new[type.node] = node
      BY <2>5, <2>8, OneMoreNode
    <3> HIDE DEF new
    <3> QED
      BY <2>5, <3>1 DEF IsVariable, Declares, OwnerOf, AsDeclared
  <2>10. \A k \in DOMAIN scopes' : ScopeGoes(ast, node, scopes, scopes', k)
    <3> SUFFICES ASSUME NEW k \in DOMAIN scopes PROVE ScopeGoes(ast, node, scopes, scopes', k)
      BY <2>6
    <3>1. Declares(node) = Elements(ids) /\ OwnerOf(node) = Top.fun
      BY <2>5 DEF Declares, OwnerOf
    <3>2. Elements(ids) \subseteq VarNames
      BY <2>7, <3>1, DeclaresNames
    <3>3. type # None
      <4>1. \A x \in Elements(ids) : scopes'[L].locals[x] = type
        BY <2>3, <2>6, <3>2
      <4>2. type \in VarType
        BY <2>5, <2>7 DEF Node
      <4> QED
        BY <4>2, NameAssumption
    <3>4. \A x \in VarNames : scopes[k].locals[x] # None => scopes'[k].locals[x] = scopes[k].locals[x]
      BY <2>1, <2>3, <2>6
    <3>5. ASSUME NEW x \in VarNames, scopes'[k].locals[x] # None
          PROVE  \/ scopes'[k].locals[x] = scopes[k].locals[x]
                 \/ IsVariable(Append(ast, node), scopes'[k].locals[x], x, scopes'[k].fun)
      BY <2>3, <2>6, <2>9
    <3>6. ASSUME OwnerOf(node) = scopes'[k].fun, NEW x \in Declares(node)
          PROVE  scopes'[k].locals[x] # None
      BY <2>3, <2>6, <3>1, <3>2, <3>3, <3>6
    <3> QED
      BY <2>6, <3>4, <3>5, <3>6 DEF ScopeGoes
  <2>11. FunctionsPlaced(scopes', ar)
    BY <2>2, <2>3, <2>6, SameFunctionsPlaced DEF Places, Tables
  <2>12. FunctionsGo(node, scopes, scopes')
    BY <2>6 DEF FunctionsGo
  <2>13. Around(ftypes', ar) /\ KeepsTypes(ftypes, ftypes', ar, ar)
         /\ KeepsCaptures(ast, ftypes, ftypes', ar)
    BY <2>1, <2>2, KeepsItself DEF Places, Placed
  <2>14. \A g : OpenIn(scopes, g) => OpenIn(scopes', g)
    BY <2>6 DEF OpenIn
  <2>15. OwnerOf(node) = Top.fun /\ Top.fun \in UpTo(scopes, L)
    <3>1. L \in 3 .. L
      BY <2>3
    <3> QED
      BY <2>3, <2>5, <3>1 DEF OwnerOf, UpTo
  <2>16. ASSUME NEW g \in ar[OwnerOf(node)]
         PROVE  /\ ~ftypes[g].declared /\ Begins(Append(ast, node), g, Len(ast) + 1)
                /\ OpenIn(scopes, g) /\ Len(ast) > 0
    BY <2>1, <2>2, <2>3, <2>15, OpenHasBegun
  <2>17. NodePlaced(ast, ftypes', ar, node)
    <3>1. node.op \in Declaring /\ node.op \notin Using /\ node.op # "call"
      BY <2>5 DEF Declaring, Using
    <3>2. HeaderFits(ast, ftypes', node, Len(ast) + 1)
      BY <2>5 DEF HeaderFits
    <3>3. OwnerOf(node) \in ar[OwnerOf(node)]
      BY <2>3, <2>15
    <3>4. ~ftypes[OwnerOf(node)].declared /\ Len(ast) # 0
      BY <2>16, <3>3
    <3> QED
      BY <2>1, <2>3, <2>15, <2>16, <3>1, <3>2, <3>4 DEF NodePlaced
  <2> QED
    BY <2>1, <2>2, <2>7, <2>10, <2>11, <2>12, <2>13, <2>14, <2>16, <2>17, PlacesGo DEF TapeNow, IInv
<1> QED
  BY <1>1, <1>2

\* What is around a new function of the current scope.
Extended(ar, gts, f, br) ==
  /\ Around(gts, br) /\ KeepsTypes(ftypes, gts, ar, br) /\ KeepsCaptures(ast, ftypes, gts, br)
  /\ br[f] = UpTo(scopes, Len(scopes)) \cup {f} /\ \A g \in DOMAIN ftypes : br[g] = ar[g]

LEMMA NewAround ==
  ASSUME TapeNow, Walking, NEW ar, Places(ar), NEW ty \in FType, ty.prev = NoVars,
         NEW gts, gts = Append(ftypes, ty), NEW f, f = Len(ftypes) + 1
  PROVE  /\ f \in DOMAIN gts /\ f \notin DOMAIN ftypes /\ gts[f] = ty /\ f # None /\ f \in Nat
         /\ \E br : Extended(ar, gts, f, br)
<1> DEFINE up == UpTo(scopes, Len(scopes))
           br == [g \in DOMAIN gts |-> IF g = f THEN UpTo(scopes, Len(scopes)) \cup {f} ELSE ar[g]]
<1>1. /\ Len(scopes) \in Nat /\ DOMAIN scopes = 1 .. Len(scopes)
      /\ ftypes \in Seq(FType) /\ Len(ftypes) \in Nat /\ DOMAIN ftypes = 1 .. Len(ftypes)
  BY WhileWalking DEF TapeNow, IInv
<1>2. /\ DOMAIN gts = 1 .. f /\ gts[f] = ty /\ f \in Nat
      /\ \A g \in 1 .. Len(ftypes) : gts[g] = ftypes[g]
  BY <1>1, AppendProperties, LenProperties
<1>3. /\ f \in DOMAIN gts /\ f \notin DOMAIN ftypes /\ f # None
      /\ \A g \in DOMAIN ftypes : g \in DOMAIN gts /\ g # f
      /\ \A g \in DOMAIN gts : g = f \/ g \in DOMAIN ftypes
  BY <1>1, <1>2, NameAssumption
<1>4. br[f] = up \cup {f} /\ \A g \in DOMAIN ftypes : br[g] = ar[g]
  BY <1>3
<1>5. \A g \in up : g \in DOMAIN ftypes
  BY OpenHasBegun
<1>6. ASSUME NEW g \in up, NEW o \in up PROVE g \in ar[o] \/ o \in ar[g]
  <2>1. PICK k \in 3 .. Len(scopes) : g = scopes[k].fun
    BY DEF UpTo
  <2>2. PICK l \in 3 .. Len(scopes) : o = scopes[l].fun
    BY DEF UpTo
  <2>3. k \in DOMAIN scopes /\ k > 2 /\ l \in DOMAIN scopes /\ l > 2
    BY <1>1
  <2>4. ar[g] = UpTo(scopes, k) /\ ar[o] = UpTo(scopes, l)
    BY <2>1, <2>2, <2>3, OpenAround DEF TapeNow, Places, Tables
  <2>5. k \in 3 .. l \/ l \in 3 .. k
    BY <1>1
  <2> QED
    BY <2>1, <2>2, <2>4, <2>5 DEF UpTo
<1> HIDE DEF up, br
<1>7. Around(ftypes, ar)
  BY DEF Places, Placed
<1>8. Around(gts, br)
  <2>1. br \in [DOMAIN gts -> SUBSET DOMAIN gts]
    <3>0. br = [g \in DOMAIN gts |-> br[g]]
      BY DEF br
    <3>1. ASSUME NEW g \in DOMAIN gts PROVE br[g] \subseteq DOMAIN gts
      <4>1. CASE g = f
        BY <1>3, <1>4, <1>5, <4>1
      <4>2. CASE g \in DOMAIN ftypes
        <5>1. br[g] = ar[g] /\ ar[g] \subseteq DOMAIN ftypes
          BY <1>4, <1>7, <4>2 DEF Around
        <5> QED
          BY <1>3, <5>1
      <4> QED
        BY <1>3, <4>1, <4>2
    <3> QED
      BY <3>0, <3>1
  <2>2. \A g \in DOMAIN gts : g \in br[g]
    BY <1>3, <1>4, <1>7 DEF Around
  <2>3. ASSUME NEW e \in DOMAIN gts, NEW g \in br[e], NEW o \in br[e]
        PROVE  g \in br[o] \/ o \in br[g]
    <3>1. CASE e = f
      <4>1. CASE g = f \/ o = f
        BY <1>4, <3>1, <4>1
      <4>2. CASE g \in up /\ o \in up
        BY <1>4, <1>5, <1>6, <4>2
      <4> QED
        BY <1>4, <3>1, <4>1, <4>2
    <3>2. CASE e \in DOMAIN ftypes
      <4>1. g \in ar[e] /\ o \in ar[e]
        BY <1>4, <3>2
      <4>2. g \in DOMAIN ftypes /\ o \in DOMAIN ftypes
        BY <1>7, <3>2, <4>1 DEF Around
      <4> QED
        BY <1>4, <1>7, <3>2, <4>1, <4>2 DEF Around
    <3> QED
      BY <1>3, <3>1, <3>2
  <2> QED
    BY <2>1, <2>2, <2>3 DEF Around
<1>9. KeepsTypes(ftypes, gts, ar, br)
  BY <1>1, <1>2, <1>3, <1>4 DEF KeepsTypes
<1>10. KeepsCaptures(ast, ftypes, gts, br)
  <2> SUFFICES ASSUME NEW g \in DOMAIN gts, NEW x \in VarNames, gts[g].prev[x] # None
               PROVE  g \in DOMAIN ftypes /\ gts[g].prev[x] = ftypes[g].prev[x]
    BY DEF KeepsCaptures
  <2>1. g # f
    BY <1>2 DEF NoVars
  <2> QED
    BY <1>1, <1>2, <1>3, <2>1
<1>11. Extended(ar, gts, f, br)
  BY <1>4, <1>8, <1>9, <1>10 DEF up, Extended
<1> QED
  BY <1>2, <1>3, <1>11

\* The new function is registered where it belongs.
LEMMA InsertPlaced ==
  ASSUME IInv, Walking, NEW ar, FunctionsPlaced(scopes, ar), NEW br, NEW f \in Nat,
         br[f] = UpTo(scopes, Len(scopes)) \cup {f}, \A g \in DOMAIN ftypes : br[g] = ar[g],
         NEW name \in FunNames, NEW mid, mid = InsertFunc(Len(scopes), name, f),
         NEW node, node.op \in {"declare", "define"}, node.fun = f
  PROVE  FunctionsPlaced(mid, br) /\ FunctionsGo(node, scopes, mid)
<1>1. /\ Len(scopes) \in Nat /\ DOMAIN scopes = 1 .. Len(scopes)
  BY WhileWalking DEF IInv
<1>2. /\ DOMAIN mid = DOMAIN scopes
      /\ \A k \in DOMAIN scopes :
           /\ mid[k].fun = scopes[k].fun
           /\ \A n \in FunNames : mid[k].functions[n] =
                IF k = Len(scopes) /\ n = name THEN f ELSE scopes[k].functions[n]
  BY InsertFuncProperties DEF IInv
<1>3. ASSUME NEW k \in DOMAIN scopes PROVE UpTo(mid, k) = UpTo(scopes, k)
  <2>1. \A l \in 3 .. k : l \in DOMAIN scopes
    BY <1>1
  <2> QED
    BY <1>2, <2>1 DEF UpTo
<1>4. FunctionsPlaced(mid, br)
  <2> SUFFICES ASSUME NEW k \in DOMAIN mid, NEW n \in FunNames, mid[k].functions[n] # None
               PROVE  br[mid[k].functions[n]] = UpTo(mid, k) \cup {mid[k].functions[n]}
    BY DEF FunctionsPlaced
  <2>1. k \in DOMAIN scopes /\ UpTo(mid, k) = UpTo(scopes, k)
    BY <1>2, <1>3
  <2>2. CASE k = Len(scopes) /\ n = name
    BY <1>2, <2>1, <2>2
  <2>3. CASE ~(k = Len(scopes) /\ n = name)
    <3>1. mid[k].functions[n] = scopes[k].functions[n]
      BY <1>2, <2>1, <2>3
    <3>2. scopes[k].functions[n] \in DOMAIN ftypes
      BY <2>1, <3>1 DEF IInv, TypeOK
    <3>3. ar[scopes[k].functions[n]] = UpTo(scopes, k) \cup {scopes[k].functions[n]}
      BY <2>1, <3>1 DEF FunctionsPlaced
    <3> QED
      BY <2>1, <3>1, <3>2, <3>3
  <2> QED
    BY <2>2, <2>3
<1>5. FunctionsGo(node, scopes, mid)
  BY <1>2 DEF FunctionsGo
<1> QED
  BY <1>4, <1>5

LEMMA DeclarePlaces ==
  ASSUME TapeNow, IInv', PlacesInv, NEW name \in FunNames, NEW h \in Headers, Declare(name, h)
  PROVE  PlacesInv'
<1> DEFINE f    == Len(ftypes) + 1
           ty   == FunctionType(h.ret, DeclArgs(h), TRUE)
           node == [op |-> "declare", name |-> name, header |-> h, fun |-> f]
           new  == InsertFunc(Len(scopes), name, f)
           gts  == Append(ftypes, ty)
<1>1. CASE Top.functions[name] # None
  BY <1>1, StopPlaces DEF Declare
<1>2. CASE Top.functions[name] = None
  <2>1. /\ InBody /\ Walking /\ Record(node) /\ scopes' = new /\ ftypes' = gts
    BY <1>2 DEF Declare, InDefs, InBody
  <2>2. PICK ar : Places(ar)
    BY DEF PlacesInv
  <2>3. ty \in FType /\ ty.prev = NoVars /\ ty.args = DeclArgs(h)
    BY ArgsType, NewFunctionType, GrammarAssumption DEF FunctionType
  <2>4. node.op = "declare" /\ node.fun = f /\ node.header = h
    OBVIOUS
  <2> HIDE DEF ty, node
  <2>5. /\ f \in DOMAIN gts /\ gts[f] = ty /\ f \in Nat
        /\ \E br : Extended(ar, gts, f, br)
    <3>1. gts = Append(ftypes, ty) /\ f = Len(ftypes) + 1
      OBVIOUS
    <3> HIDE DEF f, gts
    <3> QED
      BY <2>1, <2>2, <2>3, <3>1, NewAround
  <2> HIDE DEF gts, f
  <2>13. PICK br : Extended(ar, gts, f, br)
    BY <2>5
  <2>6. FunctionsPlaced(new, br) /\ FunctionsGo(node, scopes, new)
    BY <2>1, <2>2, <2>4, <2>5, <2>13, InsertPlaced DEF TapeNow, Places, Tables, Extended
  <2>7. /\ DOMAIN new = DOMAIN scopes
        /\ \A k \in DOMAIN scopes : new[k].locals = scopes[k].locals /\ new[k].fun = scopes[k].fun
    BY <2>1, <2>5, InsertFuncProperties DEF TapeNow, IInv
  <2> HIDE DEF new
  <2>8. node \in Node
    BY <2>1, RecordedNode DEF TapeNow, IInv
  <2>9. node.op \notin Declaring /\ node.op \notin Using /\ node.op # "call" /\ node.op # "end"
    BY <2>4 DEF Declaring, Using
  <2>10. \A k \in DOMAIN scopes' : ScopeGoes(ast, node, scopes, scopes', k)
    BY <2>1, <2>7, <2>9 DEF ScopeGoes
  <2>11. \A g : OpenIn(scopes, g) => OpenIn(scopes', g)
    BY <2>1, <2>7 DEF OpenIn
  <2>12. NodePlaced(ast, ftypes', br, node)
    <3>1. Len(ast) # 0
      BY <2>1, <2>2, TapeBegun DEF TapeNow
    <3>2. HeaderFits(ast, ftypes', node, Len(ast) + 1)
      BY <2>1, <2>3, <2>4, <2>5 DEF HeaderFits
    <3> QED
      BY <2>9, <3>1, <3>2 DEF NodePlaced
  <2> QED
    BY <2>1, <2>2, <2>6, <2>8, <2>9, <2>10, <2>11, <2>12, <2>13, PlacesGo DEF TapeNow, IInv, Extended
<1> QED
  BY <1>1, <1>2

\* The scope a definition opens holds the formals.
LEMMA OpenScopeLocals ==
  ASSUME NEW old \in Seq(Scope), NEW h, NEW f, NEW s, s = OpenScope(old, h, f)
  PROVE  /\ Len(old) \in Nat /\ DOMAIN s = 1 .. Len(old) + 1
         /\ \A k \in 1 .. Len(old) : s[k] = old[k]
         /\ s[Len(old) + 1].locals = FormalLocals(h) /\ s[Len(old) + 1].functions = NoFuns
         /\ s[Len(old) + 1].fun = f
<1> DEFINE e == [EmptyScope(h.ret, f) EXCEPT !.locals = FormalLocals(h)]
<1>1. e.locals = FormalLocals(h) /\ e.functions = NoFuns /\ e.fun = f
  BY DEF EmptyScope
<1>2. s = Append(old, e)
  BY DEF OpenScope
<1> HIDE DEF e
<1>3. Len(old) \in Nat /\ s \in Seq(Scope \cup {e})
  BY <1>2, LenProperties
<1>4. DOMAIN s = 1 .. Len(s) /\ Len(s) = Len(old) + 1
  BY <1>2, <1>3, LenProperties
<1>5. \A k \in 1 .. Len(old) : s[k] = old[k]
  BY <1>2, <1>3
<1>6. s[Len(old) + 1] = e
  BY <1>2, <1>3
<1> QED
  BY <1>1, <1>3, <1>4, <1>5, <1>6

\* The formals are variables of the function that is defined.
LEMMA FormalsDeclared ==
  ASSUME ast \in Seq(Node), NEW h \in Headers, NEW node, node.op = "define", node.header = h,
         NEW x \in VarNames
  PROVE  /\ FormalLocals(h)[x] # None <=> x \in FormalNames(h)
         /\ x \in FormalNames(h) => IsVariable(Append(ast, node), FormalLocals(h)[x], x, node.fun)
<1> DEFINE new == Append(ast, node)
           n == Len(ast) + 1
           v == AsDeclared(node, n, x)
<1>1. Len(ast) \in Nat /\ n \in 1 .. Len(new) /\ new[n] = node
  BY OneMoreNode
<1>2. FormalLocals(h)[x] = IF x \in FormalNames(h) THEN v ELSE None
  BY DEF FormalLocals, AsDeclared
<1>3. v.node = n
  BY DEF AsDeclared
<1>4. x \in FormalNames(h) => v # None
  <2> SUFFICES ASSUME x \in FormalNames(h) PROVE v \in VarType
    BY NameAssumption
  <2>1. FormalIndex(h, x) \in DOMAIN h.formals
    BY DEF FormalNames, FormalIndex
  <2>2. h.formals \in Seq(Formal)
    BY GrammarAssumption
  <2>3. h.formals[FormalIndex(h, x)] \in Formal
    BY <2>1, <2>2, LenProperties, ElementOfSeq
  <2>4. n \in Nat
    BY <1>1
  <2> QED
    BY <2>3, <2>4 DEF AsDeclared, Formal, VarType
<1> HIDE DEF v, n, new
<1>5. x \in FormalNames(h) => IsVariable(new, v, x, node.fun)
  BY <1>1, <1>3 DEF IsVariable, Declares, OwnerOf, v
<1> QED
  BY <1>2, <1>4, <1>5 DEF new

\* The definition of f opens a scope, in which no function is known yet.
LEMMA EnterPlaces ==
  ASSUME TapeNow, IInv', Walking, NEW ar, Places(ar), NEW br, Around(ftypes', br),
         KeepsTypes(ftypes, ftypes', ar, br), KeepsCaptures(ast, ftypes, ftypes', br),
         NEW name, NEW h \in Headers, NEW f \in DOMAIN ftypes', ~ftypes'[f].declared,
         br[f] = UpTo(scopes, Len(scopes)) \cup {f},
         NEW node, Record(node), node.op = "define", node.header = h, node.fun = f,
         HeaderFits(ast, ftypes', node, Len(ast) + 1),
         NEW mid \in Seq(Scope), DOMAIN mid = DOMAIN scopes,
         \A k \in DOMAIN scopes : mid[k].locals = scopes[k].locals /\ mid[k].fun = scopes[k].fun,
         FunctionsPlaced(mid, br), FunctionsGo(node, scopes, mid),
         scopes' = OpenScope(mid, h, f), f \in DOMAIN ftypes => ftypes[f].declared
  PROVE  PlacesInv'
<1> DEFINE L == Len(scopes)
<1>1. /\ L \in Nat /\ L >= 2 /\ DOMAIN scopes = 1 .. L /\ L = Len(walk) + 2
      /\ ast \in Seq(Node) /\ Len(ast) \in Nat
      /\ \A k \in DOMAIN scopes : scopes[k].fun \in DOMAIN ftypes \cup {Uninit}
      /\ DOMAIN ftypes' \subseteq Nat
  <2>1. \A k \in DOMAIN scopes : scopes[k].fun \in DOMAIN ftypes \cup {Uninit}
    BY DEF TapeNow, IInv, TypeOK
  <2>2. DOMAIN ftypes' \subseteq Nat
    BY LenProperties DEF IInv, TypeOK
  <2> QED
    BY <2>1, <2>2, WhileWalking DEF TapeNow, IInv, TypeOK
<1>2. node \in Node
  BY RecordedNode DEF TapeNow, IInv
<1>3. /\ DOMAIN scopes' = 1 .. L + 1
      /\ \A k \in 1 .. L : scopes'[k] = mid[k]
      /\ scopes'[L + 1].locals = FormalLocals(h) /\ scopes'[L + 1].functions = NoFuns
      /\ scopes'[L + 1].fun = f
  <2>1. Len(mid) \in Nat /\ DOMAIN mid = 1 .. Len(mid)
    BY LenProperties
  <2>2. Len(mid) = L
    BY <1>1, <2>1
  <2> HIDE DEF L
  <2> QED
    BY <2>2, OpenScopeLocals
<1> HIDE DEF L
<1>4. \A k \in 1 .. L + 1 : k = L + 1 \/ k \in 1 .. L
  BY <1>1
<1>5. ASSUME NEW j \in 1 .. Len(ast), ast[j].op \in Declaring PROVE OwnerOf(ast[j]) # f
  BY <1>5 DEF Places, Placed, DeclaresInside
<1>6. ASSUME NEW k \in DOMAIN scopes PROVE scopes[k].fun # f
  <2>1. CASE k <= 2
    <3>1. scopes[k].fun = Uninit
      BY <2>1 DEF TapeNow, IInv, TypeOK
    <3> QED
      BY <1>1, <3>1, NameAssumption
  <2>2. CASE k > 2
    <3>1. k \in 3 .. Len(scopes)
      BY <1>1, <2>2 DEF L
    <3>2. scopes[k].fun \in UpTo(scopes, Len(scopes))
      BY <3>1 DEF UpTo
    <3> QED
      BY <3>2, OpenHasBegun
  <2> QED
    BY <1>1, <2>1, <2>2
<1>7. Declares(node) = FormalNames(h) /\ OwnerOf(node) = f
  BY DEF Declares, OwnerOf
<1>8. \A k \in DOMAIN scopes' : ScopeGoes(ast, node, scopes, scopes', k)
  <2> SUFFICES ASSUME NEW k \in 1 .. L + 1 PROVE ScopeGoes(ast, node, scopes, scopes', k)
    BY <1>3
  <2>1. CASE k \in 1 .. L
    BY <1>1, <1>3, <1>6, <1>7, <2>1 DEF ScopeGoes
  <2>2. CASE k = L + 1
    <3>1. scopes'[k].fun = f /\ scopes'[k].locals = FormalLocals(h)
      BY <1>3, <2>2
    <3>2. ASSUME NEW x \in VarNames, FormalLocals(h)[x] # None
          PROVE  IsVariable(Append(ast, node), FormalLocals(h)[x], x, f)
      BY <1>1, <3>2, FormalsDeclared
    <3>3. ASSUME NEW x \in Declares(node) PROVE FormalLocals(h)[x] # None
      <4>1. x \in VarNames
        BY <1>2, DeclaresNames
      <4> QED
        BY <1>1, <1>7, <4>1, FormalsDeclared
    <3> QED
      BY <1>5, <3>1, <3>2, <3>3 DEF ScopeGoes
  <2> QED
    BY <1>4, <2>1, <2>2
<1>9. FunctionsPlaced(scopes', br)
  <2> SUFFICES ASSUME NEW k \in 1 .. L + 1, NEW n \in FunNames, scopes'[k].functions[n] # None
               PROVE  br[scopes'[k].functions[n]] = UpTo(scopes', k) \cup {scopes'[k].functions[n]}
    BY <1>3 DEF FunctionsPlaced
  <2>1. k \in 1 .. L
    BY <1>3, <1>4 DEF NoFuns
  <2>2. UpTo(scopes', k) = UpTo(mid, k)
    <3>1. \A l \in 3 .. k : l \in 1 .. L
      BY <1>1, <2>1
    <3> QED
      BY <1>3, <3>1 DEF UpTo
  <2>3. scopes'[k] = mid[k] /\ k \in DOMAIN mid
    BY <1>1, <1>3, <2>1
  <2> QED
    BY <2>2, <2>3 DEF FunctionsPlaced
<1>10. FunctionsGo(node, scopes, scopes')
  <2> SUFFICES ASSUME NEW k \in 1 .. L + 1, NEW n \in FunNames, scopes'[k].functions[n] # None
               PROVE  \/ k \in DOMAIN scopes /\ scopes'[k].functions[n] = scopes[k].functions[n]
                      \/ node.op \in {"declare", "define"} /\ node.fun = scopes'[k].functions[n]
    BY <1>3 DEF FunctionsGo
  <2>1. k \in 1 .. L
    BY <1>3, <1>4 DEF NoFuns
  <2>2. scopes'[k] = mid[k] /\ k \in DOMAIN mid
    BY <1>1, <1>3, <2>1
  <2> QED
    BY <2>2 DEF FunctionsGo
<1>11. ASSUME NEW g, OpenIn(scopes, g) PROVE OpenIn(scopes', g)
  <2>1. PICK k \in 1 .. L : scopes[k].fun = g
    BY <1>1, <1>11 DEF OpenIn
  <2>2. scopes'[k].fun = g /\ k \in DOMAIN scopes'
    BY <1>1, <1>3, <2>1
  <2> QED
    BY <2>2 DEF OpenIn
<1>12. ASSUME NEW g \in br[f]
       PROVE  OpenIn(scopes', g) /\ Begins(Append(ast, node), g, Len(ast) + 1)
  <2>1. CASE g \in UpTo(scopes, Len(scopes))
    BY <1>11, <2>1, OpenHasBegun
  <2>2. CASE g = f
    <3>1. L + 1 \in DOMAIN scopes'
      BY <1>1, <1>3
    <3>2. OpenIn(scopes', f)
      BY <1>3, <3>1 DEF OpenIn
    <3>3. Len(ast) + 1 \in 1 .. Len(ast) + 1 /\ Append(ast, node)[Len(ast) + 1] = node
      BY <1>1, OneMoreNode
    <3> QED
      BY <2>2, <3>2, <3>3 DEF Begins
  <2> QED
    BY <2>1, <2>2
<1>13. NodePlaced(ast, ftypes', br, node)
  <2>1. ASSUME Len(ast) = 0 PROVE br[node.fun] = {node.fun}
    <3>1. UpTo(scopes, Len(scopes)) = {}
      BY <2>1, OpenHasBegun
    <3> QED
      BY <3>1
  <2>2. node.op \notin Using /\ node.op # "call"
    BY DEF Using
  <2> QED
    BY <1>7, <1>12, <2>1, <2>2 DEF NodePlaced
<1>14. \A g \in br[OwnerOf(node)] : OpenIn(scopes', g)
  BY <1>7, <1>12
<1> QED
  BY <1>2, <1>8, <1>9, <1>10, <1>11, <1>13, <1>14, PlacesGo DEF TapeNow, IInv

LEMMA DefineFreshPlaces ==
  ASSUME TapeNow, IInv', PlacesInv, NEW name \in FunNames, NEW h \in Headers, DefineFresh(name, h)
  PROVE  PlacesInv'
<1> DEFINE f    == Len(ftypes) + 1
           ty   == FunctionType(h.ret, DefArgs(h), FALSE)
           node == [op |-> "define", name |-> name, header |-> h, fun |-> f]
           mid  == InsertFunc(Len(scopes), name, f)
           gts  == Append(ftypes, ty)
<1>1. /\ Walking /\ Record(node) /\ scopes' = OpenScope(mid, h, f) /\ ftypes' = gts
  BY DEF DefineFresh, CanDefine, Enter
<1>2. PICK ar : Places(ar)
  BY DEF PlacesInv
<1>3. ty \in FType /\ ty.prev = NoVars /\ ty.args = DefArgs(h) /\ ~ty.declared
  BY ArgsType, NewFunctionType, GrammarAssumption DEF FunctionType
<1>4. node.op = "define" /\ node.fun = f /\ node.header = h
  OBVIOUS
<1> HIDE DEF ty, node
<1>5. /\ f \in DOMAIN gts /\ f \notin DOMAIN ftypes /\ gts[f] = ty /\ f \in Nat
      /\ \E br : Extended(ar, gts, f, br)
  <2>1. gts = Append(ftypes, ty) /\ f = Len(ftypes) + 1
    OBVIOUS
  <2>2. Walking
    BY <1>1
  <2>3. ty \in FType /\ ty.prev = NoVars
    BY <1>3
  <2> HIDE DEF f, gts, mid
  <2> QED
    BY <1>2, <2>1, <2>2, <2>3, NewAround
<1> HIDE DEF gts, f
<1>6. PICK br : Extended(ar, gts, f, br)
  BY <1>5
<1>7. FunctionsPlaced(mid, br) /\ FunctionsGo(node, scopes, mid)
  BY <1>1, <1>2, <1>4, <1>5, <1>6, InsertPlaced DEF TapeNow, Places, Tables, Extended
<1>8. /\ mid \in Seq(Scope) /\ DOMAIN mid = DOMAIN scopes
      /\ \A k \in DOMAIN scopes : mid[k].locals = scopes[k].locals /\ mid[k].fun = scopes[k].fun
  BY <1>1, <1>5, InsertFuncProperties DEF TapeNow, IInv
<1> HIDE DEF mid
<1>9. HeaderFits(ast, ftypes', node, Len(ast) + 1)
  <2>1. h.formals \in Seq(Formal)
    BY GrammarAssumption
  <2>2. /\ Len(DefArgs(h)) = Len(h.formals)
        /\ \A k \in 1 .. Len(h.formals) : DefArgs(h)[k].t = h.formals[k].t
    BY <2>1 DEF DefArgs
  <2> QED
    BY <1>1, <1>3, <1>4, <1>5, <2>2 DEF HeaderFits
<1> QED
  BY <1>1, <1>2, <1>3, <1>4, <1>5, <1>6, <1>7, <1>8, <1>9, EnterPlaces DEF Extended

LEMMA DefineDeclaredPlaces ==
  ASSUME TapeNow, IInv', PlacesInv, NEW name \in FunNames, NEW h \in Headers,
         DefineDeclared(name, h)
  PROVE  PlacesInv'
<1> DEFINE f    == Top.functions[name]
           node == [op |-> "define", name |-> name, header |-> h, fun |-> f]
<1>1. /\ Walking /\ Record(node) /\ scopes' = OpenScope(scopes, h, f) /\ ftypes' = Adopt(f)
      /\ f # None /\ ftypes[f].declared /\ Len(ftypes[f].args) = Len(h.formals)
      /\ \A k \in 1 .. Len(h.formals) : ftypes[f].args[k].t = h.formals[k].t
  <2>1. h.formals \in Seq(Formal)
    BY GrammarAssumption
  <2>2. DOMAIN h.formals = 1 .. Len(h.formals)
    BY <2>1, LenProperties
  <2> QED
    BY <2>2 DEF DefineDeclared, CanDefine, Enter, SameSignature
<1>2. /\ Len(scopes) \in Nat /\ Len(scopes) >= 2 /\ DOMAIN scopes = 1 .. Len(scopes)
      /\ scopes \in Seq(Scope) /\ Top = scopes[Len(scopes)] /\ ftypes \in Seq(FType)
      /\ Len(scopes) \in DOMAIN scopes
  BY <1>1, WhileWalking DEF TapeNow, IInv
<1>3. f \in DOMAIN ftypes
  BY <1>1, <1>2 DEF TapeNow, IInv, TypeOK
<1>4. PICK ar : Places(ar)
  BY DEF PlacesInv
<1>5. ar[f] = UpTo(scopes, Len(scopes)) \cup {f}
  BY <1>1, <1>2, <1>4 DEF Places, Tables, FunctionsPlaced
<1>6. OnTape(ast, f)
  BY <1>1, <1>2, <1>4 DEF Places, Tables, FunctionsOnTape
<1>7. node.op = "define" /\ node.fun = f /\ node.header = h
  OBVIOUS
<1> HIDE DEF node, f
<1>8. /\ DOMAIN ftypes' = DOMAIN ftypes
      /\ \A g \in DOMAIN ftypes :
           /\ ftypes'[g].prev = ftypes[g].prev /\ ftypes'[g].args = ftypes[g].args
           /\ ftypes'[g].declared = IF g = f THEN FALSE ELSE ftypes[g].declared
  <2>1. ftypes[f] \in FType
    BY <1>2, <1>3, LenProperties, ElementOfSeq
  <2> QED
    BY <1>1, <1>3, <2>1 DEF Adopt, FType
<1>9. KeepsTypes(ftypes, ftypes', ar, ar) /\ KeepsCaptures(ast, ftypes, ftypes', ar)
  BY <1>8 DEF KeepsTypes, KeepsCaptures
<1>10. Around(ftypes', ar)
  BY <1>4, <1>8 DEF Places, Placed, Around
<1>11. HeaderFits(ast, ftypes', node, Len(ast) + 1)
  <2>1. PICK j \in 1 .. Len(ast) : ast[j].op \in {"declare", "define"} /\ ast[j].fun = f
    BY <1>6 DEF OnTape
  <2>2. Len(ast) \in Nat /\ j \in 1 .. (Len(ast) + 1) - 1 /\ DOMAIN ast = 1 .. Len(ast)
    BY LenProperties DEF TapeNow, IInv, TypeOK
  <2>3. ast[j].op # "define"
    BY <1>1, <2>1, <2>2 DEF TapeNow, TapeInv, TapeIn, BodiesIn
  <2>4. DeclaredEarlier(ast, f, Len(ast) + 1)
    BY <2>1, <2>2, <2>3 DEF DeclaredEarlier
  <2> QED
    BY <1>1, <1>3, <1>7, <1>8, <2>4 DEF HeaderFits
<1>12. FunctionsPlaced(scopes, ar) /\ FunctionsGo(node, scopes, scopes)
  BY <1>4 DEF Places, Tables, FunctionsGo
<1> QED
  BY <1>1, <1>2, <1>3, <1>4, <1>5, <1>7, <1>8, <1>9, <1>10, <1>11, <1>12, EnterPlaces

-----------------------------------------------------------------------------
(* The end of a definition.                                                  *)

LEMMA LeaveInnerPlaces ==
  ASSUME TapeNow, IInv', PlacesInv, LeaveInner
  PROVE  PlacesInv'
<1> DEFINE node == [op |-> "end", fun |-> Top.fun]
           fn   == Parent.fun
           L    == Len(scopes)
           p    == ftypes[Top.fun].prev
<1>1. CASE ~ClosedWell
  BY <1>1, StopPlaces DEF LeaveInner
<1>2. CASE ClosedWell
  <2>1. /\ InBody /\ Walking /\ Len(walk) > 1 /\ Record(node)
        /\ ftypes' = AddCaptures(ftypes, fn, Transferred)
        /\ scopes' = SubSeq(scopes, 1, L - 1)
    BY <1>2 DEF LeaveInner, InBody
  <2>2. PICK ar : Places(ar)
    BY DEF PlacesInv
  <2>3. /\ L \in Nat /\ L > 3 /\ DOMAIN scopes = 1 .. L /\ scopes \in Seq(Scope)
        /\ Top = scopes[L] /\ Parent = scopes[L - 1] /\ Top \in Scope /\ Parent \in Scope
        /\ ftypes \in Seq(FType) /\ Len(ast) \in Nat
    BY <2>1, WhileWalking, InsideDefinition DEF TapeNow, IInv, InBody, Parent
  <2>4. L \in DOMAIN scopes /\ L - 1 \in DOMAIN scopes /\ L - 1 > 2 /\ L > 2
    BY <2>3
  <2>5. /\ Top.fun \in DOMAIN ftypes /\ ar[Top.fun] = UpTo(scopes, L)
        /\ \A l \in DOMAIN scopes : scopes[l].fun = Top.fun => l = L
    BY <2>1, <2>2, <2>3, <2>4, OpenAround DEF TapeNow, Places, Tables
  <2>6. fn \in DOMAIN ftypes /\ ar[fn] = UpTo(scopes, L - 1)
    BY <2>1, <2>2, <2>3, <2>4, OpenAround DEF TapeNow, Places, Tables
  <2>7. ar[Top.fun] \ {Top.fun} \subseteq ar[fn]
    <3>1. L \in Nat
      BY <2>3
    <3>2. ar[Top.fun] = {scopes[l].fun : l \in 3 .. L} /\ Top.fun = scopes[L].fun
      BY <2>3, <2>5 DEF UpTo
    <3>3. ar[fn] = {scopes[l].fun : l \in 3 .. L - 1}
      BY <2>6 DEF UpTo
    <3> HIDE DEF L, fn
    <3>4. \A l \in 3 .. L : l = L \/ l \in 3 .. L - 1
      BY <3>1
    <3> QED
      BY <3>2, <3>3, <3>4
  <2>8. p \in VarMap
    <3>1. ftypes[Top.fun] \in FType
      BY <2>3, <2>5, LenProperties, ElementOfSeq
    <3> QED
      BY <3>1 DEF FType
  <2>9. Transferred \in VarMap /\ Transferred = NotLocalTo(scopes[L - 1], p)
    BY <2>3, <2>8, NotLocalToProperties DEF Transferred
  <2>10. Outer(ast, Transferred, fn, ar)
    <3> DEFINE ms == ar[Top.fun] \ {Top.fun}
    <3>1. \A x \in VarNames : p[x] # None => \E o \in ms : IsVariable(ast, p[x], x, o)
      BY <2>2, <2>5 DEF Places, Placed, CapturesAround
    <3>2. ms \subseteq ar[scopes[L - 1].fun] /\ fn = scopes[L - 1].fun
      BY <2>3, <2>7
    <3> HIDE DEF ms, p, fn, L
    <3> QED
      BY <2>1, <2>2, <2>4, <2>9, <3>1, <3>2, NotLocalIsOuter DEF TapeNow, Places, Tables
  <2>11. Begins(ast, fn, Len(ast))
    BY <2>2, <2>3, <2>4 DEF Places, Tables, OpenBegin
  <2>12. KeepsTypes(ftypes, ftypes, ar, ar) /\ KeepsCaptures(ast, ftypes, ftypes, ar)
    BY KeepsItself
  <2> HIDE DEF fn
  <2>13. /\ DOMAIN ftypes' = DOMAIN ftypes
         /\ KeepsTypes(ftypes, ftypes', ar, ar) /\ KeepsCaptures(ast, ftypes, ftypes', ar)
    BY <2>1, <2>3, <2>6, <2>9, <2>10, <2>11, <2>12, AddedCaptures
  <2>14. Around(ftypes', ar)
    BY <2>2, <2>13 DEF Places, Placed, Around
  <2>15. /\ DOMAIN scopes' = 1 .. L - 1
         /\ \A k \in 1 .. L - 1 : scopes'[k] = scopes[k] /\ k \in DOMAIN scopes
    BY <2>1, <2>3
  <2>16. node \in Node
    BY <2>1, RecordedNode DEF TapeNow, IInv
  <2>17. node.op = "end" /\ node.fun = Top.fun
    OBVIOUS
  <2> HIDE DEF node
  <2>18. node.op \notin Declaring /\ node.op \notin Using /\ node.op # "call"
    BY <2>17 DEF Declaring, Using
  <2>19. ASSUME NEW g, OpenIn(scopes, g) PROVE OpenIn(scopes', g) \/ node.fun = g
    <3>1. PICK k \in 1 .. L : scopes[k].fun = g
      BY <2>3, <2>19 DEF OpenIn
    <3>2. CASE k = L
      BY <2>3, <2>17, <3>1, <3>2
    <3>3. CASE k \in 1 .. L - 1
      BY <2>15, <3>1, <3>3 DEF OpenIn
    <3>4. L \in Nat
      BY <2>3
    <3> HIDE DEF L
    <3>5. k = L \/ k \in 1 .. L - 1
      BY <3>1, <3>4
    <3> QED
      BY <3>2, <3>3, <3>5
  <2>20. FunctionsPlaced(scopes', ar)
    <3> SUFFICES ASSUME NEW k \in 1 .. L - 1, NEW n \in FunNames, scopes'[k].functions[n] # None
                 PROVE  ar[scopes'[k].functions[n]] = UpTo(scopes', k) \cup {scopes'[k].functions[n]}
      BY <2>15 DEF FunctionsPlaced
    <3>1. UpTo(scopes', k) = UpTo(scopes, k)
      <4>1. \A l \in 3 .. k : l \in 1 .. L - 1
        BY <2>3
      <4> QED
        BY <2>15, <4>1 DEF UpTo
    <3>2. scopes'[k] = scopes[k] /\ k \in DOMAIN scopes
      BY <2>15
    <3> QED
      BY <2>2, <3>1, <3>2 DEF Places, Tables, FunctionsPlaced
  <2>21. FunctionsGo(node, scopes, scopes')
    BY <2>15 DEF FunctionsGo
  <2>22. \A k \in DOMAIN scopes' : ScopeGoes(ast, node, scopes, scopes', k)
    BY <2>15, <2>18 DEF ScopeGoes
  <2>23. NodePlaced(ast, ftypes', ar, node)
    <3>1. Len(ast) # 0
      BY <2>1, <2>2, TapeBegun DEF TapeNow
    <3>2. HeaderFits(ast, ftypes', node, Len(ast) + 1)
      BY <2>17 DEF HeaderFits
    <3> QED
      BY <2>18, <3>1, <3>2 DEF NodePlaced
  <2> QED
    BY <2>1, <2>2, <2>13, <2>14, <2>16, <2>17, <2>18, <2>19, <2>20, <2>21, <2>22, <2>23, PlacesGo
    DEF TapeNow, IInv
<1> QED
  BY <1>1, <1>2

LEMMA LeaveProgramPlaces ==
  ASSUME TapeNow, IInv', PlacesInv, LeaveProgram
  PROVE  PlacesInv'
<1> DEFINE node == [op |-> "end", fun |-> Top.fun]
<1>1. CASE ~ClosedWell \/ Keys(Transferred) # {}
  BY <1>1, StopPlaces DEF LeaveProgram
<1>2. CASE ClosedWell /\ Keys(Transferred) = {}
  <2>1. /\ InBody /\ Walking /\ walk = <<"body">> /\ Record(node) /\ UNCHANGED ftypes
        /\ scopes' = <<>>
    BY <1>2 DEF LeaveProgram, InBody
  <2>2. PICK ar : Places(ar)
    BY DEF PlacesInv
  <2>3. /\ Len(scopes) = 3 /\ DOMAIN scopes = 1 .. 3 /\ Top = scopes[3]
    <3>1. Len(walk) = 1
      BY <2>1
    <3>2. Len(scopes) = Len(walk) + 2 /\ scopes \in Seq(Scope)
      BY <2>1, WhileWalking DEF TapeNow, IInv
    <3>3. Len(scopes) = 3
      BY <3>1, <3>2
    <3> QED
      BY <3>2, <3>3, LenProperties DEF Top
  <2>4. node.op = "end" /\ node.fun = scopes[3].fun
    BY <2>3
  <2>5. node \in Node
    BY <2>1, RecordedNode DEF TapeNow, IInv
  <2> HIDE DEF node
  <2>6. node.op \notin Declaring /\ node.op \notin Using /\ node.op # "call"
    BY <2>4 DEF Declaring, Using
  <2>7. ASSUME NEW g \in DOMAIN ftypes, OpenIn(scopes, g) PROVE node.fun = g
    <3>1. PICK k \in 1 .. 3 : scopes[k].fun = g
      BY <2>3, <2>7 DEF OpenIn
    <3>2. ~(k <= 2)
      <4>1. DOMAIN ftypes \subseteq Nat
        BY LenProperties DEF TapeNow, IInv, TypeOK
      <4>2. k <= 2 => scopes[k].fun = Uninit
        BY <2>3 DEF TapeNow, IInv, TypeOK
      <4> QED
        BY <3>1, <4>1, <4>2, NameAssumption
    <3>3. k = 3
      BY <3>2
    <3> QED
      BY <2>4, <3>1, <3>3
  <2>8. DOMAIN scopes' = {}
    BY <2>1
  <2>9. FunctionsPlaced(scopes', ar) /\ FunctionsGo(node, scopes, scopes')
    BY <2>8 DEF FunctionsPlaced, FunctionsGo
  <2>10. NodePlaced(ast, ftypes', ar, node)
    <3>1. Len(ast) # 0
      BY <2>1, <2>2, TapeBegun DEF TapeNow
    <3>2. HeaderFits(ast, ftypes', node, Len(ast) + 1)
      BY <2>4 DEF HeaderFits
    <3> QED
      BY <2>6, <3>1, <3>2 DEF NodePlaced
  <2>11. Around(ftypes', ar) /\ KeepsTypes(ftypes, ftypes', ar, ar)
         /\ KeepsCaptures(ast, ftypes, ftypes', ar)
    BY <2>1, <2>2, KeepsItself DEF Places, Placed
  <2> QED
    BY <2>1, <2>2, <2>4, <2>5, <2>6, <2>7, <2>8, <2>9, <2>10, <2>11, PlacesGo DEF TapeNow, IInv
<1> QED
  BY <1>1, <1>2

LEMMA InitPlaces ==
  ASSUME Init
  PROVE  PlacesInv
<1> DEFINE ar == [f \in DOMAIN ftypes |-> {f}]
<1>1. /\ ast = <<>> /\ Len(<<>>) = 0 /\ 1 .. 0 = {} /\ outcome = "walking"
      /\ \A f \in DOMAIN ftypes : ftypes[f].prev = NoVars
      /\ DOMAIN ftypes = DOMAIN Library
  BY DEF Init, FunctionType
<1>2. /\ DOMAIN scopes = 1 .. 2 /\ scopes[1] = LibraryScope /\ scopes[2] = EmptyScope("void", Uninit)
  BY DEF Init
<1>3. /\ \A k \in DOMAIN scopes : scopes[k].locals = NoVars
      /\ scopes[2].functions = NoFuns
      /\ \A n \in FunNames : scopes[1].functions[n] # None => scopes[1].functions[n] \in DOMAIN Library
  <2>1. \A k \in DOMAIN scopes : k = 1 \/ k = 2
    BY <1>2
  <2>2. LibraryScope.locals = NoVars
    BY DEF LibraryScope, EmptyScope
  <2>3. ASSUME NEW n \in FunNames, LibraryScope.functions[n] # None
        PROVE  LibraryScope.functions[n] \in DOMAIN Library
    BY <2>3 DEF LibraryScope, EmptyScope
  <2> QED
    BY <1>2, <2>1, <2>2, <2>3 DEF EmptyScope
<1>4. Placed(ast, ftypes, ar)
  BY <1>1 DEF Placed, Around, CapturesAround, DeclaresInside, UsesFit, CallsFit, HeadersFit,
    ProgramFirst, NoVars
<1>5. FunctionsPlaced(scopes, ar)
  <2> SUFFICES ASSUME NEW k \in DOMAIN scopes, NEW n \in FunNames, scopes[k].functions[n] # None
               PROVE  ar[scopes[k].functions[n]] = UpTo(scopes, k) \cup {scopes[k].functions[n]}
    BY DEF FunctionsPlaced
  <2>1. k = 1
    BY <1>2, <1>3 DEF NoFuns
  <2>2. scopes[k].functions[n] \in DOMAIN ftypes
    BY <1>1, <1>3, <2>1
  <2>3. UpTo(scopes, k) = {}
    BY <2>1 DEF UpTo
  <2> QED
    BY <2>2, <2>3
<1>6. LocalsDeclared(scopes, ast)
  BY <1>3 DEF LocalsDeclared, NoVars
<1>7. DeclaredLocal(scopes, ast) /\ OpenBegin(scopes, ast) /\ EndsLater(ast, scopes, ar)
  BY <1>1, <1>2 DEF DeclaredLocal, OpenBegin, EndsLater
<1>8. FunctionsOnTape(scopes, ast)
  BY <1>2, <1>3 DEF FunctionsOnTape, NoFuns
<1> HIDE DEF ar
<1> QED
  BY <1>1, <1>4, <1>5, <1>6, <1>7, <1>8 DEF PlacesInv, Places, Tables

LEMMA NextPlaces ==
  ASSUME TapeNow, PlacesInv, [Next]_vars
  PROVE  PlacesInv'
<1>1. IInv' /\ IInv
  BY NextInv DEF TapeNow
<1>2. CASE UNCHANGED vars \/ Finished
  BY <1>2 DEF Finished, vars, PlacesInv, Places
<1>3. ASSUME NEW name \in FunNames, NEW h \in Headers, RejectDefinition(name, h)
      PROVE  PlacesInv'
  BY <1>3, StopPlaces DEF RejectDefinition
<1> QED
  BY <1>1, <1>2, <1>3, DefineFreshPlaces, DefineDeclaredPlaces, DeclarePlaces, VarPlaces,
    AssignPlaces, ReturnPlaces, ConditionPlaces, ExitAndSkipPlaces, CallPlaces, LeaveInnerPlaces,
    LeaveProgramPlaces DEF Next

\* Whatever names a program gives its variables: what a function uses,
\* captures or hands to a callee are variables of the functions around it, and
\* these functions lie inside one another.
THEOREM PlacesInvariance == Spec => [](TapeNow /\ PlacesInv)
<1>1. Init => TapeNow /\ PlacesInv
  BY InitInv, InitTape, InitPlaces DEF TapeNow
<1>2. TapeNow /\ PlacesInv /\ [Next]_vars => (TapeNow /\ PlacesInv)'
  BY NextInv, NextTape, NextPlaces DEF TapeNow
<1> QED
  BY <1>1, <1>2, PTL DEF Spec

-----------------------------------------------------------------------------
(* The functions of the library, and the end of the walk.                    *)

\* The program defines and declares functions of its own; the types of the
\* library's stay what initFunctions() made them.
LibraryKept(tape, fts) ==
  /\ \A i \in DOMAIN Library : i \in DOMAIN fts /\ fts[i].args = Library[i].args
  /\ \A j \in 1 .. Len(tape) :
       tape[j].op \in {"declare", "define"} => tape[j].fun \notin DOMAIN Library

LibraryInv ==
  /\ outcome \in {"walking", "accepted"} => LibraryKept(ast, ftypes)
  /\ outcome = "accepted" => ast # <<>> /\ scopes = <<>>

KeepsArgs(fts, gts) == \A f \in DOMAIN fts : f \in DOMAIN gts /\ gts[f].args = fts[f].args

LEMMA AddKeepsArgs ==
  ASSUME NEW fts, NEW f, NEW m
  PROVE  KeepsArgs(fts, AddCaptures(fts, f, m))
BY DEF AddCaptures, KeepsArgs

LEMMA AppendKeepsArgs ==
  ASSUME NEW S, NEW fts \in Seq(S), NEW ty
  PROVE  KeepsArgs(fts, Append(fts, ty))
<1>1. \A f \in DOMAIN fts : f \in DOMAIN Append(fts, ty) /\ Append(fts, ty)[f] = fts[f]
  BY LenProperties
<1> QED
  BY <1>1 DEF KeepsArgs

LEMMA LibraryGoes ==
  ASSUME TypeOK, Walking, LibraryInv, NEW node, Record(node), KeepsArgs(ftypes, ftypes'),
         node.op \in {"declare", "define"} => node.fun \notin DOMAIN Library
  PROVE  LibraryKept(ast', ftypes')
<1>1. ast \in Seq(Node) /\ ast' = Append(ast, node)
  BY DEF TypeOK, Record
<1>2. LibraryKept(ast, ftypes)
  BY DEF LibraryInv, Walking
<1>3. \A i \in DOMAIN Library : i \in DOMAIN ftypes' /\ ftypes'[i].args = Library[i].args
  BY <1>2 DEF LibraryKept, KeepsArgs
<1> DEFINE new == Append(ast, node)
<1>4. /\ Len(new) = Len(ast) + 1 /\ new[Len(ast) + 1] = node
      /\ \A i \in 1 .. Len(ast) : new[i] = ast[i]
      /\ \A i \in 1 .. Len(ast) + 1 : i = Len(ast) + 1 \/ i \in 1 .. Len(ast)
  BY <1>1, OneMoreNode
<1> HIDE DEF new
<1>5. \A j \in 1 .. Len(new) :
        new[j].op \in {"declare", "define"} => new[j].fun \notin DOMAIN Library
  BY <1>2, <1>4 DEF LibraryKept
<1> QED
  BY <1>1, <1>3, <1>5 DEF LibraryKept, new

\* A new function is not one of the library.
LEMMA FreshIsNoLibrary ==
  ASSUME TypeOK, Walking, LibraryInv
  PROVE  Len(ftypes) + 1 \notin DOMAIN Library /\ ftypes \in Seq(FType)
<1>1. \A i \in DOMAIN Library : i \in DOMAIN ftypes
  BY DEF LibraryInv, LibraryKept, Walking
<1>2. ftypes \in Seq(FType) /\ Len(ftypes) \in Nat /\ DOMAIN ftypes = 1 .. Len(ftypes)
  BY LenProperties DEF TypeOK
<1>3. Len(ftypes) + 1 \notin DOMAIN ftypes
  BY <1>2
<1> QED
  BY <1>1, <1>2, <1>3

LEMMA CallKeepsArgs ==
  ASSUME NEW f, NEW args, ftypes' = AfterCall(f, args)
  PROVE  KeepsArgs(ftypes, ftypes')
<1>1. KeepsArgs(ftypes, AfterArgs(args))
  BY AddKeepsArgs DEF AfterArgs
<1>2. KeepsArgs(AfterArgs(args), ftypes')
  BY AddKeepsArgs DEF AfterCall
<1> QED
  BY <1>1, <1>2 DEF KeepsArgs

LEMMA StatementLibrary ==
  ASSUME TypeOK, LibraryInv, NEW node, Record(node), Walking, KeepsArgs(ftypes, ftypes'),
         node.op \notin {"declare", "define"}, UNCHANGED outcome
  PROVE  LibraryInv'
<1>1. LibraryKept(ast', ftypes')
  BY LibraryGoes
<1> QED
  BY <1>1 DEF LibraryInv, Walking

LEMMA StopLibrary ==
  ASSUME NEW why \in {"rejected", "undefined"}, Stop(why)
  PROVE  LibraryInv'
BY DEF Stop, LibraryInv

LEMMA StatementsLibrary ==
  ASSUME TypeOK, LibraryInv,
         \/ \E x \in VarNames, o \in Operands : Assign(x, o)
         \/ \E name \in FunNames, args \in ArgLists : Call(name, args)
         \/ \E o \in Operands : Return(o) \/ Condition(o)
         \/ Exit
         \/ Skip
         \/ \E ids \in IdLists, t \in DataTypes, isRef \in UninitBool : VarDefinition(ids, t, isRef)
  PROVE  LibraryInv'
<1>0. CASE Stop("rejected")
  BY <1>0, StopLibrary
<1>1. ASSUME UNCHANGED ftypes PROVE KeepsArgs(ftypes, ftypes')
  BY <1>1 DEF KeepsArgs
<1>2. ASSUME NEW os, Capture(os) PROVE KeepsArgs(ftypes, ftypes')
  BY <1>2, AddKeepsArgs DEF Capture
<1>3. ASSUME NEW x \in VarNames, NEW o \in Operands, Assign(x, o), ~Stop("rejected") PROVE LibraryInv'
  <2> DEFINE node == [op |-> "assign", target |-> x, operand |-> o,
                      binds |-> Bindings({x, o}), by |-> Top.fun]
  <2>1. Record(node) /\ Capture({x, o}) /\ Walking /\ UNCHANGED outcome
    BY <1>3 DEF Assign, InBody
  <2>2. node.op \notin {"declare", "define"}
    OBVIOUS
  <2> HIDE DEF node
  <2> QED
    BY <1>2, <2>1, <2>2, StatementLibrary
<1>4. ASSUME NEW name \in FunNames, NEW args \in ArgLists, Call(name, args), ~Stop("rejected")
      PROVE  LibraryInv'
  <2> DEFINE node == [op |-> "call", name |-> name, args |-> args,
                      binds |-> Bindings(Elements(args)), fun |-> Fun(name),
                      by |-> Top.fun, sealed |-> Sealed(Fun(name)), locals |-> Keys(Top.locals)]
  <2>1. Record(node) /\ ftypes' = AfterCall(Fun(name), args) /\ Walking /\ UNCHANGED outcome
    BY <1>4 DEF Call, InBody
  <2>2. node.op \notin {"declare", "define"}
    OBVIOUS
  <2> HIDE DEF node
  <2> QED
    BY <2>1, <2>2, CallKeepsArgs, StatementLibrary
<1>5. ASSUME NEW o \in Operands, Return(o), ~Stop("rejected") PROVE LibraryInv'
  <2> DEFINE node == [op |-> "return", operand |-> o, binds |-> Bindings({o}), by |-> Top.fun]
  <2>1. Record(node) /\ Capture({o}) /\ Walking /\ UNCHANGED outcome
    BY <1>5 DEF Return, InBody
  <2>2. node.op \notin {"declare", "define"}
    OBVIOUS
  <2> HIDE DEF node
  <2> QED
    BY <1>2, <2>1, <2>2, StatementLibrary
<1>6. ASSUME NEW o \in Operands, Condition(o), ~Stop("rejected") PROVE LibraryInv'
  <2> DEFINE node == [op |-> "condition", operand |-> o, binds |-> Bindings({o}), by |-> Top.fun]
  <2>1. Record(node) /\ Capture({o}) /\ Walking /\ UNCHANGED outcome
    BY <1>6 DEF Condition, InBody
  <2>2. node.op \notin {"declare", "define"}
    OBVIOUS
  <2> HIDE DEF node
  <2> QED
    BY <1>2, <2>1, <2>2, StatementLibrary
<1>7. ASSUME Exit, ~Stop("rejected") PROVE LibraryInv'
  <2> DEFINE node == [op |-> "exit", by |-> Top.fun]
  <2>1. Record(node) /\ UNCHANGED ftypes /\ Walking /\ UNCHANGED outcome
    BY <1>7 DEF Exit, InBody
  <2>2. node.op \notin {"declare", "define"}
    OBVIOUS
  <2> HIDE DEF node
  <2> QED
    BY <1>1, <2>1, <2>2, StatementLibrary
<1>8. ASSUME Skip PROVE LibraryInv'
  <2> DEFINE node == [op |-> "skip"]
  <2>1. Record(node) /\ UNCHANGED ftypes /\ Walking /\ UNCHANGED outcome
    BY <1>8 DEF Skip, InDefs
  <2>2. node.op \notin {"declare", "define"}
    OBVIOUS
  <2> HIDE DEF node
  <2> QED
    BY <1>1, <2>1, <2>2, StatementLibrary
<1>9. ASSUME NEW ids \in IdLists, NEW t \in DataTypes, NEW isRef \in UninitBool,
             VarDefinition(ids, t, isRef), ~Stop("rejected")
      PROVE  LibraryInv'
  <2>1. PICK node : /\ Record(node) /\ node.op = "var"
                    /\ UNCHANGED ftypes /\ Walking /\ UNCHANGED outcome
    BY <1>9 DEF VarDefinition, InDefs
  <2> QED
    BY <1>1, <2>1, StatementLibrary
<1> QED
  BY <1>0, <1>3, <1>4, <1>5, <1>6, <1>7, <1>8, <1>9

LEMMA DefinitionsLibrary ==
  ASSUME TypeOK, PlacesInv, LibraryInv, NEW name \in FunNames, NEW h \in Headers,
         DefineFresh(name, h) \/ DefineDeclared(name, h) \/ Declare(name, h)
  PROVE  LibraryInv'
<1>1. CASE DefineFresh(name, h)
  <2> DEFINE f  == Len(ftypes) + 1
             ty == FunctionType(h.ret, DefArgs(h), FALSE)
             node == [op |-> "define", name |-> name, header |-> h, fun |-> f]
  <2>1. Walking /\ Record(node) /\ ftypes' = Append(ftypes, ty) /\ UNCHANGED outcome
    BY <1>1 DEF DefineFresh, CanDefine, Enter
  <2>2. node.fun \notin DOMAIN Library /\ ftypes \in Seq(FType)
    BY <2>1, FreshIsNoLibrary
  <2> HIDE DEF node, ty
  <2>3. KeepsArgs(ftypes, ftypes')
    BY <2>1, <2>2, AppendKeepsArgs
  <2>4. LibraryKept(ast', ftypes')
    BY <2>1, <2>2, <2>3, LibraryGoes
  <2> QED
    BY <2>1, <2>4 DEF LibraryInv, Walking
<1>2. CASE DefineDeclared(name, h)
  <2> DEFINE f  == Top.functions[name]
             node == [op |-> "define", name |-> name, header |-> h, fun |-> f]
  <2>1. Walking /\ Record(node) /\ ftypes' = Adopt(f) /\ f # None /\ UNCHANGED outcome
    BY <1>2 DEF DefineDeclared, CanDefine, Enter
  <2>2. KeepsArgs(ftypes, ftypes')
    BY <2>1 DEF Adopt, KeepsArgs
  <2>3. OnTape(ast, f)
    <3>1. /\ Len(scopes) \in Nat /\ Len(scopes) >= 2 /\ DOMAIN scopes = 1 .. Len(scopes)
          /\ Top = scopes[Len(scopes)]
      BY <2>1, WhileWalking
    <3>2. Len(scopes) \in DOMAIN scopes /\ Len(scopes) > 1
      BY <3>1
    <3>3. PICK ar : Places(ar)
      BY DEF PlacesInv
    <3> QED
      BY <2>1, <3>1, <3>2, <3>3 DEF Places, Tables, FunctionsOnTape
  <2>4. node.fun \notin DOMAIN Library
    <3>1. LibraryKept(ast, ftypes)
      BY <2>1 DEF LibraryInv, Walking
    <3> QED
      BY <2>3, <3>1 DEF OnTape, LibraryKept
  <2> HIDE DEF node, f
  <2>5. LibraryKept(ast', ftypes')
    BY <2>1, <2>2, <2>4, LibraryGoes
  <2> QED
    BY <2>1, <2>5 DEF LibraryInv, Walking
<1>3. CASE Declare(name, h) /\ ~Stop("rejected")
  <2> DEFINE f  == Len(ftypes) + 1
             ty == FunctionType(h.ret, DeclArgs(h), TRUE)
             node == [op |-> "declare", name |-> name, header |-> h, fun |-> f]
  <2>1. Walking /\ Record(node) /\ ftypes' = Append(ftypes, ty) /\ UNCHANGED outcome
    BY <1>3 DEF Declare, InDefs
  <2>2. node.fun \notin DOMAIN Library /\ ftypes \in Seq(FType)
    BY <2>1, FreshIsNoLibrary
  <2> HIDE DEF node, ty
  <2>3. KeepsArgs(ftypes, ftypes')
    BY <2>1, <2>2, AppendKeepsArgs
  <2>4. LibraryKept(ast', ftypes')
    BY <2>1, <2>2, <2>3, LibraryGoes
  <2> QED
    BY <2>1, <2>4 DEF LibraryInv, Walking
<1>4. CASE Stop("rejected")
  BY <1>4, StopLibrary
<1> QED
  BY <1>1, <1>2, <1>3, <1>4

LEMMA LeavesLibrary ==
  ASSUME TypeOK, LibraryInv, LeaveInner \/ LeaveProgram
  PROVE  LibraryInv'
<1> DEFINE node == [op |-> "end", fun |-> Top.fun]
<1>1. CASE Stop("rejected") \/ Stop("undefined")
  BY <1>1, StopLibrary
<1>2. CASE LeaveInner /\ ~Stop("rejected")
  <2>1. /\ Walking /\ Record(node) /\ UNCHANGED outcome
        /\ ftypes' = AddCaptures(ftypes, Parent.fun, Transferred)
    BY <1>2 DEF LeaveInner, InBody
  <2>2. node.op \notin {"declare", "define"}
    OBVIOUS
  <2> HIDE DEF node
  <2> QED
    BY <2>1, <2>2, AddKeepsArgs, StatementLibrary
<1>3. CASE LeaveProgram /\ ~Stop("rejected") /\ ~Stop("undefined")
  <2>1. /\ Walking /\ Record(node) /\ outcome' = "accepted" /\ scopes' = <<>>
        /\ ftypes' = ftypes
    BY <1>3 DEF LeaveProgram, InBody
  <2>2. node.op \notin {"declare", "define"}
    OBVIOUS
  <2> HIDE DEF node
  <2>3. KeepsArgs(ftypes, ftypes')
    BY <2>1 DEF KeepsArgs
  <2>4. LibraryKept(ast', ftypes')
    BY <2>1, <2>2, <2>3, LibraryGoes
  <2>5. ast' # <<>>
    BY <2>1 DEF Record, TypeOK
  <2> QED
    BY <2>1, <2>4, <2>5 DEF LibraryInv
<1> QED
  BY <1>1, <1>2, <1>3

LEMMA NextLibrary ==
  ASSUME TypeOK, PlacesInv, LibraryInv, [Next]_vars
  PROVE  LibraryInv'
<1>1. CASE UNCHANGED vars \/ Finished
  BY <1>1 DEF Finished, vars, LibraryInv
<1>2. ASSUME NEW name \in FunNames, NEW h \in Headers, RejectDefinition(name, h)
      PROVE  LibraryInv'
  BY <1>2, StopLibrary DEF RejectDefinition
<1> QED
  BY <1>1, <1>2, StatementsLibrary, DefinitionsLibrary, LeavesLibrary DEF Next

LEMMA InitLibrary ==
  ASSUME Init
  PROVE  LibraryInv
<1>1. ast = <<>> /\ outcome = "walking"
  BY DEF Init
<1>2. \A i \in DOMAIN Library : i \in DOMAIN ftypes /\ ftypes[i].args = Library[i].args
  BY DEF Init, FunctionType
<1> QED
  BY <1>1, <1>2 DEF LibraryInv, LibraryKept

-----------------------------------------------------------------------------
(* Lists of captured names, parameters and blocks.                           *)

\* Of the captured names, as many are left as do not stand in skip.
LEMMA FewerNames ==
  ASSUME NEW m, NEW skip
  PROVE  LET a == CapturedNames(m, skip)
             b == CapturedNames(m, {})
         IN /\ a \in Seq(VarNames) /\ b \in Seq(VarNames)
            /\ Len(a) = Len(b) => a = b
            /\ (\A x \in skip : m[x] = None) => a = b
<1> DEFINE N == Len(NameOrder)
           a == CapturedNames(m, skip)
           b == CapturedNames(m, {})
           C == \A x \in skip : m[x] = None
<1>1. /\ N \in Nat /\ NameOrder \in Seq(VarNames) /\ \A n \in 1 .. N : NameOrder[n] \in VarNames
  BY NameOrderAssumption, LenProperties, ElementOfSeq
<1>2. PICK f : (\A n \in 0 .. N : f[n] = Kept(m, skip, f, n)) /\ a = f[N]
  BY UpToExists
<1>3. PICK g : (\A n \in 0 .. N : g[n] = Kept(m, {}, g, n)) /\ b = g[N]
  BY UpToExists
<1> HIDE DEF a, b
<1> DEFINE Holds(s, t) == /\ s \in Seq(VarNames) /\ t \in Seq(VarNames) /\ Len(s) <= Len(t)
                          /\ Len(s) = Len(t) => s = t
                          /\ C => s = t
           fails == {k \in 0 .. N : ~Holds(f[k], g[k])}
<1>4. 0 \notin fails
  <2>1. 0 \in 0 .. N
    BY <1>1
  <2>2. f[0] = <<>> /\ g[0] = <<>>
    BY <1>2, <1>3, <2>1 DEF Kept
  <2>3. <<>> \in Seq(VarNames) /\ Len(<<>>) = 0 /\ 0 <= 0
    BY EmptySeq
  <2>4. Holds(<<>>, <<>>)
    BY <2>3
  <2>5. Holds(f[0], g[0])
    <3> HIDE DEF Holds
    <3> QED
      BY <2>2, <2>4
  <2> QED
    BY <2>5
<1>5. fails = {}
  <2> SUFFICES ASSUME fails # {} PROVE FALSE
    OBVIOUS
  <2>1. fails \subseteq Nat
    BY <1>1
  <2>2. PICK k \in fails : \A x \in fails : k <= x
    <3> HIDE DEF fails
    <3> QED
      BY <2>1, LeastNumber
  <2>3. k \in 0 .. N /\ k # 0 /\ ~Holds(f[k], g[k])
    BY <1>4, <2>2
  <2>4. k - 1 \in 0 .. N /\ ~(k <= k - 1) /\ k \in 1 .. N
    BY <1>1, <2>3
  <2>5. Holds(f[k - 1], g[k - 1])
    BY <2>2, <2>4
  <2> DEFINE x == NameOrder[k]
             s == f[k - 1]
             t == g[k - 1]
  <2>6. /\ f[k] = IF m[x] # None /\ x \notin skip THEN Append(s, x) ELSE s
        /\ g[k] = IF m[x] # None THEN Append(t, x) ELSE t
    BY <1>2, <1>3, <2>3 DEF Kept
  <2>7. x \in VarNames
    BY <1>1, <2>4
  <2>8. Holds(s, t)
    BY <2>5
  <2> HIDE DEF x, s, t, C
  <2>9. /\ s \in Seq(VarNames) /\ t \in Seq(VarNames) /\ Len(s) \in Nat /\ Len(t) \in Nat
        /\ Append(s, x) \in Seq(VarNames) /\ Len(Append(s, x)) = Len(s) + 1
        /\ Append(t, x) \in Seq(VarNames) /\ Len(Append(t, x)) = Len(t) + 1
    BY <2>7, <2>8, LenProperties, AppendProperties
  <2>10. CASE m[x] = None
    BY <2>3, <2>6, <2>8, <2>10
  <2>11. CASE m[x] # None /\ x \notin skip
    <3>1. f[k] = Append(s, x) /\ g[k] = Append(t, x)
      BY <2>6, <2>11
    <3>2. Len(Append(s, x)) = Len(Append(t, x)) => s = t
      BY <2>8, <2>9
    <3>3. Len(Append(s, x)) <= Len(Append(t, x))
      BY <2>8, <2>9
    <3>4. C => s = t
      BY <2>8
    <3> QED
      BY <2>3, <2>9, <3>1, <3>2, <3>3, <3>4
  <2>12. CASE m[x] # None /\ x \in skip
    <3>1. f[k] = s /\ g[k] = Append(t, x)
      BY <2>6, <2>12
    <3>2. Len(s) # Len(Append(t, x)) /\ Len(s) <= Len(Append(t, x))
      BY <2>8, <2>9
    <3>3. ~C
      BY <2>12 DEF C
    <3> QED
      BY <2>3, <2>9, <3>1, <3>2, <3>3
  <2> QED
    BY <2>10, <2>11, <2>12
<1>6. N \in 0 .. N
  BY <1>1
<1>7. Holds(a, b)
  BY <1>2, <1>3, <1>5, <1>6
<1> QED
  BY <1>7 DEF a, b

\* The parameters p: the formals of the header h of node n, then the captured
\* variables of m that names lists.
ParamsAre(p, h, args, n, m, names) ==
  /\ p \in Seq(Param) /\ Len(p) = Len(h.formals) + Len(names)
  /\ \A i \in 1 .. Len(h.formals) :
       p[i] = [name |-> h.formals[i].name, node |-> n, t |-> args[i].t,
               level |-> Indirection(args[i].pass)]
  /\ \A i \in 1 .. Len(names) :
       p[Len(h.formals) + i] = [name |-> names[i], node |-> m[names[i]].node,
                                t |-> m[names[i]].t, level |-> 1]

LEMMA ParametersAre ==
  ASSUME NEW h \in Headers, NEW args \in Seq(Arg), Len(args) = Len(h.formals), NEW n \in Nat,
         NEW m \in VarMap
  PROVE  ParamsAre(Parameters(h, args, n, m), h, args, n, m, CapturedNames(m, FormalNames(h)))
<1> DEFINE skip == FormalNames(h)
           names == CapturedNames(m, skip)
           f == Formals(h, args, n)
           c == Captured(m, names)
           L == Len(h.formals)
           p == Parameters(h, args, n, m)
<1>1. p = f \o c
  BY DEF Parameters
<1>2. /\ h.formals \in Seq(Formal) /\ L \in Nat /\ DOMAIN h.formals = 1 .. L
  BY GrammarAssumption, LenProperties
<1>3. f \in Seq(Param) /\ Len(f) = L
  BY FormalsType
<1>4. \A i \in 1 .. L : f[i] = [name |-> h.formals[i].name, node |-> n, t |-> args[i].t,
                                level |-> Indirection(args[i].pass)]
  BY <1>2 DEF Formals
<1>5. /\ names \in Seq(VarNames)
      /\ \A i \in 1 .. Len(names) : m[names[i]] # None
  <2> HIDE DEF skip
  <2> QED
    BY CapturedNamesProperties
<1> HIDE DEF names
<1>6. c \in Seq(Param) /\ Len(c) = Len(names)
  BY <1>5, CapturedType
<1>7. \A i \in 1 .. Len(names) : c[i] = [name |-> names[i], node |-> m[names[i]].node,
                                         t |-> m[names[i]].t, level |-> 1]
  <2>1. DOMAIN names = 1 .. Len(names)
    BY <1>5, LenProperties
  <2> QED
    BY <2>1 DEF Captured
<1> HIDE DEF f, c, p, skip, L
<1>8. p \in Seq(Param) /\ Len(p) = L + Len(names)
  <2> DEFINE S == Param
  <2>1. f \in Seq(S) /\ c \in Seq(S)
    BY <1>3, <1>6
  <2> HIDE DEF S
  <2>2. f \o c \in Seq(S) /\ Len(f \o c) = Len(f) + Len(c)
    BY <2>1, ConcatProperties
  <2> QED
    BY <1>1, <1>3, <1>6, <2>2 DEF S
<1>9. Len(names) \in Nat
  BY <1>5, LenProperties
<1>10. \A i \in 1 .. L : p[i] = f[i]
  <2> SUFFICES ASSUME NEW i \in 1 .. L PROVE p[i] = f[i]
    OBVIOUS
  <2>1. i \in 1 .. Len(f) + Len(c) /\ i <= Len(f)
    BY <1>2, <1>3, <1>6, <1>9
  <2> QED
    BY <1>1, <1>3, <1>6, <2>1, ConcatProperties
<1>11. \A i \in 1 .. Len(names) : p[L + i] = c[i]
  <2> SUFFICES ASSUME NEW i \in 1 .. Len(names) PROVE p[L + i] = c[i]
    OBVIOUS
  <2>1. L + i \in 1 .. Len(f) + Len(c) /\ ~(L + i <= Len(f)) /\ (L + i) - Len(f) = i
    BY <1>2, <1>3, <1>6, <1>9
  <2> QED
    BY <1>1, <1>3, <1>6, <2>1, ConcatProperties
<1> QED
  BY <1>4, <1>7, <1>8, <1>10, <1>11 DEF ParamsAre, p, L, names, skip

\* A block names what its parameters name, with the types of the signature.
LEMMA NewBlockSlots ==
  ASSUME NEW params \in Seq(Param), Named(params), NamedOnce(params),
         NEW signature \in Seq(Param), Len(signature) <= Len(params)
  PROVE  LET b == NewBlock(params, signature) IN
         /\ \A i \in 1 .. Len(signature) :
              /\ b.slot[params[i].name] # None
              /\ b.slot[params[i].name].node = params[i].node
              /\ b.slot[params[i].name].t = signature[i].t
              /\ b.slot[params[i].name].level = signature[i].level
         /\ \A i \in 1 .. Len(params) : params[i].name \in b.ref <=> params[i].level = 1
         /\ \A x \in VarNames : b.slot[x] # None =>
              \E i \in 1 .. Len(signature) : params[i].name = x
<1> DEFINE Index(x) == CHOOSE i \in DOMAIN params : params[i].name = x
           named == {params[i].name : i \in DOMAIN signature}
           rec(x) == [node |-> params[Index(x)].node, t |-> signature[Index(x)].t,
                      level |-> signature[Index(x)].level]
           slot == [x \in VarNames |-> IF x \in named THEN rec(x) ELSE None]
           ref == {params[i].name : i \in {j \in DOMAIN params : params[j].level = 1}}
           b == NewBlock(params, signature)
<1>1. /\ DOMAIN params = 1 .. Len(params) /\ DOMAIN signature = 1 .. Len(signature)
      /\ Len(params) \in Nat /\ Len(signature) \in Nat
  BY LenProperties
<1>2. b.slot = slot /\ b.ref = ref
  BY DEF NewBlock
<1> HIDE DEF b
<1>3. ASSUME NEW i \in 1 .. Len(signature)
      PROVE  /\ i \in 1 .. Len(params) /\ params[i].name \in VarNames /\ params[i].name \in named
             /\ Index(params[i].name) = i
  <2>1. i \in 1 .. Len(params)
    BY <1>1
  <2>2. params[i].name \in named /\ params[i].name \in VarNames
    BY <1>1, <2>1 DEF Named
  <2>3. Index(params[i].name) \in 1 .. Len(params)
        /\ params[Index(params[i].name)].name = params[i].name
    BY <1>1, <2>1
  <2>4. Index(params[i].name) = i
    <3> HIDE DEF Index
    <3> QED
      BY <2>1, <2>3 DEF NamedOnce
  <2> QED
    BY <2>1, <2>2, <2>4
<1>4. ASSUME NEW i \in 1 .. Len(signature)
      PROVE  /\ slot[params[i].name] = [node |-> params[i].node, t |-> signature[i].t,
                                        level |-> signature[i].level]
             /\ slot[params[i].name] # None
  <2>1. /\ params[i].name \in VarNames /\ params[i].name \in named
        /\ Index(params[i].name) = i /\ i \in 1 .. Len(params)
    BY <1>3
  <2> HIDE DEF Index, named
  <2>2. slot[params[i].name] = [node |-> params[i].node, t |-> signature[i].t,
                                level |-> signature[i].level]
    BY <2>1
  <2> HIDE DEF slot
  <2>3. params[i] \in Param /\ signature[i] \in Param
    BY <2>1, ElementOfSeq
  <2>4. slot[params[i].name] \in Slot
    BY <2>2, <2>3 DEF Param, Slot
  <2> QED
    BY <2>2, <2>4, SlotAssumption
<1>5. ASSUME NEW i \in 1 .. Len(params) PROVE params[i].name \in ref <=> params[i].level = 1
  BY <1>1 DEF NamedOnce
<1>6. ASSUME NEW x \in VarNames, slot[x] # None
      PROVE  \E i \in 1 .. Len(signature) : params[i].name = x
  <2>1. x \in named
    <3> HIDE DEF named, rec
    <3> QED
      BY <1>6
  <2> QED
    BY <1>1, <2>1
<1> HIDE DEF slot, ref, Index, named, rec
<1>7. ASSUME NEW i \in 1 .. Len(signature)
      PROVE  /\ b.slot[params[i].name] # None
             /\ b.slot[params[i].name].node = params[i].node
             /\ b.slot[params[i].name].t = signature[i].t
             /\ b.slot[params[i].name].level = signature[i].level
  <2>1. /\ slot[params[i].name] = [node |-> params[i].node, t |-> signature[i].t,
                                   level |-> signature[i].level]
        /\ slot[params[i].name] # None
    BY <1>4
  <2> QED
    BY <1>2, <2>1
<1>8. ASSUME NEW i \in 1 .. Len(params) PROVE params[i].name \in b.ref <=> params[i].level = 1
  BY <1>2, <1>5
<1>9. ASSUME NEW x \in VarNames, b.slot[x] # None
      PROVE  \E i \in 1 .. Len(signature) : params[i].name = x
  BY <1>2, <1>6, <1>9
<1> QED
  BY <1>7, <1>8, <1>9 DEF b

-----------------------------------------------------------------------------
(* One variable for a name, where nothing is shadowed.                       *)

DeclaredAt(tape, n, x, o) ==
  n \in 1 .. Len(tape) /\ x \in Declares(tape[n]) /\ OwnerOf(tape[n]) = o

\* The tape of a whole program.
Whole(ar) == Placed(ast, ftypes, ar) /\ EndsLater(ast, <<>>, ar)

LEMMA DeclaresIsDeclaring ==
  ASSUME NEW node, NEW x, x \in Declares(node)
  PROVE  node.op \in Declaring
BY DEF Declares, Declaring

LEMMA OneDeclarationInside ==
  ASSUME IInv, NoShadowing, NEW ar, Whole(ar), NEW x, NEW o, NEW g, NEW n, NEW l,
         DeclaredAt(ast, n, x, o), DeclaredAt(ast, l, x, g), o \in ar[g]
  PROVE  n = l
<1>1. /\ Len(ast) \in Nat /\ DOMAIN ast = 1 .. Len(ast)
  BY LenProperties DEF IInv, TypeOK
<1>2. /\ n \in 1 .. Len(ast) /\ x \in Declares(ast[n]) /\ OwnerOf(ast[n]) = o
      /\ l \in 1 .. Len(ast) /\ x \in Declares(ast[l]) /\ OwnerOf(ast[l]) = g
  BY DEF DeclaredAt
<1>3. ast[l].op \in Declaring
  BY <1>2, DeclaresIsDeclaring
<1>4. Begins(ast, o, l)
  BY <1>2, <1>3 DEF Whole, Placed, DeclaresInside
<1>5. Ends(ast, o, l)
  <2>1. ~OpenIn(<<>>, o)
    BY EmptySeq DEF OpenIn
  <2> QED
    BY <1>2, <1>3, <2>1 DEF Whole, EndsLater
<1>6. l \in Span(o)
  BY <1>1, <1>2, <1>4, <1>5 DEF Span, Begins, Ends
<1>7. Owner(n) = o /\ x \in Declared(n) \cap Declared(l)
  BY <1>2 DEF Owner, OwnerOf, Declared, Declares
<1> QED
  BY <1>1, <1>2, <1>6, <1>7 DEF NoShadowing

\* Without shadowing, a name denotes one variable for a function.
LEMMA OneDeclaration ==
  ASSUME IInv, NoShadowing, NEW ar, Whole(ar), NEW f \in DOMAIN ftypes, NEW x,
         NEW o \in ar[f], NEW g \in ar[f], NEW n, NEW l,
         DeclaredAt(ast, n, x, o), DeclaredAt(ast, l, x, g)
  PROVE  n = l
<1>1. g \in ar[o] \/ o \in ar[g]
  BY DEF Whole, Placed, Around
<1> QED
  BY <1>1, OneDeclarationInside

\* A declaration of x at node n makes the variable that n stands for.
LEMMA DeclaredIsVariable ==
  ASSUME IInv, NEW ar, Whole(ar), NEW n, NEW x, NEW o, DeclaredAt(ast, n, x, o)
  PROVE  /\ IsVariable(ast, AsDeclared(ast[n], n, x), x, o)
         /\ AsDeclared(ast[n], n, x).node = n
         /\ ast[n].op \in Declaring /\ ast[n] \in Node /\ x \in VarNames
<1>1. n \in 1 .. Len(ast) /\ x \in Declares(ast[n]) /\ OwnerOf(ast[n]) = o
  BY DEF DeclaredAt
<1>2. ast[n].op \in Declaring
  BY <1>1, DeclaresIsDeclaring
<1>3. HeaderFits(ast, ftypes, ast[n], n)
  BY <1>1 DEF Whole, Placed, HeadersFit
<1>4. AsDeclared(ast[n], n, x).node = n
  BY <1>2, <1>3 DEF Declaring, AsDeclared, HeaderFits
<1>5. ast[n] \in Node
  BY <1>1, ElementOfSeq DEF IInv, TypeOK
<1>6. x \in VarNames
  BY <1>1, <1>5, DeclaresNames
<1> QED
  BY <1>1, <1>2, <1>4, <1>5, <1>6 DEF IsVariable

LEMMA VariableIsDeclared ==
  ASSUME NEW v, NEW x, NEW o, IsVariable(ast, v, x, o)
  PROVE  DeclaredAt(ast, v.node, x, o) /\ v = AsDeclared(ast[v.node], v.node, x)
BY DEF IsVariable, DeclaredAt

-----------------------------------------------------------------------------
(* The tables before and after a node, for any history of the tape.          *)

\* The tables are as deep as before, with the same open functions.
Unmoved(a, b) ==
  /\ Len(b.walk) = Len(a.walk) /\ Len(b.scopes) = Len(a.scopes)
  /\ \A k \in 1 .. Len(a.scopes) : b.scopes[k].fun = a.scopes[k].fun

LEMMA HistoryAt ==
  ASSUME NEW tape \in Seq(Node), NEW h, History(tape, h), NEW p \in 1 .. Len(tape)
  PROVE  /\ h[p - 1] \in Moment /\ h[p] \in Moment /\ tape[p] \in Node
         /\ Moves(tape[p], h[p - 1], h[p])
         /\ Len(h[p - 1].scopes) = Len(h[p - 1].walk) + 2
         /\ Len(h[p].scopes) = Len(h[p].walk) + 2
<1>1. Len(tape) \in Nat
  BY LenProperties
<1>2. p - 1 \in 0 .. Len(tape) /\ p \in 0 .. Len(tape)
  BY <1>1
<1> QED
  BY <1>2, ElementOfSeq DEF History

LEMMA StatementUnmoved ==
  ASSUME NEW node, node.op \in Statements \cup {"var"}, NEW a \in Moment, NEW b, Moves(node, a, b)
  PROVE  Unmoved(a, b)
<1>1. Len(b.scopes) = Len(a.scopes) /\ SameFunctions(a.scopes, b.scopes, Len(a.scopes))
  BY DEF Moves
<1>2. b.walk = a.walk \/ b.walk = [a.walk EXCEPT ![Len(a.walk)] = "body"]
  BY DEF Moves
<1>3. a.walk \in Seq({"defs", "body"})
  BY DEF Moment
<1>4. Len(b.walk) = Len(a.walk)
  BY <1>2, <1>3
<1> QED
  BY <1>1, <1>4 DEF Unmoved, SameFunctions

\* From the statement p on there are only statements up to the next end.
LEMMA UnmovedUpToTheEnd ==
  ASSUME NEW tape \in Seq(Node), NEW h, History(tape, h), NEW p \in 1 .. Len(tape),
         tape[p].op \in Statements, NEW q \in p .. Len(tape),
         \A k \in p + 1 .. q : tape[k].op # "end"
  PROVE  Unmoved(h[p - 1], h[q]) /\ \A k \in p .. q : tape[k].op \in Statements
<1> DEFINE Stays(j) == Unmoved(h[p - 1], h[j]) /\ At(h[j], "body") /\ tape[j].op \in Statements
           fails == {j \in p .. q : ~Stays(j)}
<1>1. Len(tape) \in Nat /\ p \in Nat /\ q \in Nat /\ p >= 1
  BY LenProperties
<1>2. p \notin fails
  <2> DEFINE a == h[p - 1]
             b == h[p]
             node == tape[p]
  <2>1. a \in Moment /\ Moves(node, a, b) /\ node.op \in Statements
    BY HistoryAt
  <2> HIDE DEF a, b, node
  <2>2. Unmoved(a, b) /\ At(b, "body")
    BY <2>1, StatementUnmoved, StatementIsInBody
  <2> QED
    BY <2>1, <2>2 DEF a, b, node
<1>3. fails = {}
  <2> SUFFICES ASSUME fails # {} PROVE FALSE
    OBVIOUS
  <2>1. fails \subseteq Nat
    BY <1>1
  <2>2. PICK j \in fails : \A x \in fails : j <= x
    <3> HIDE DEF fails
    <3> QED
      BY <2>1, LeastNumber
  <2>3. j \in p .. q /\ j # p /\ ~Stays(j)
    BY <1>2, <2>2
  <2>4. /\ j \in p + 1 .. q /\ j \in 1 .. Len(tape) /\ j - 1 \in p .. q /\ ~(j <= j - 1)
    BY <1>1, <2>3
  <2>5. Stays(j - 1)
    BY <2>2, <2>4
  <2>6. tape[j].op # "end"
    BY <2>4
  <2> DEFINE a == h[j - 1]
             b == h[j]
             c == h[p - 1]
             node == tape[j]
  <2>7. /\ a \in Moment /\ node \in Node /\ Moves(node, a, b) /\ node.op # "end"
        /\ Unmoved(c, a) /\ At(a, "body")
    BY <2>4, <2>5, <2>6, HistoryAt
  <2> HIDE DEF a, b, node, c
  <2>8. node.op \in Statements
    BY <2>7, BodyHasStatements
  <2>9. Unmoved(a, b) /\ At(b, "body")
    BY <2>7, <2>8, StatementUnmoved, StatementIsInBody
  <2>10. Unmoved(c, b)
    BY <2>7, <2>9 DEF Unmoved
  <2> QED
    BY <2>3, <2>8, <2>9, <2>10 DEF b, c, node
<1>4. q \in p .. q
  BY <1>1
<1> QED
  BY <1>3, <1>4

-----------------------------------------------------------------------------
(* The blocks of the open functions.                                         *)

\* The function of the k-th block.
FunOf(m, k) == m.scopes[k + 2].fun

\* What a slot stands for is declared in a function around f.
SlotPlaced(b, f, ar) ==
  \A x \in VarNames : b.slot[x] # None => \E o \in ar[f] : DeclaredAt(ast, b.slot[x].node, x, o)

\* b is the block of the function f, whose definition stands before node p.
Standing(b, f, p, ar) == f \in DOMAIN ftypes /\ Begins(ast, f, p - 1) /\ SlotPlaced(b, f, ar)

BlocksStand(m, p, bs, ar) ==
  /\ Len(bs) = Len(m.walk) /\ Len(m.scopes) = Len(m.walk) + 2
  /\ \A k, l \in 1 .. Len(bs) : FunOf(m, k) = FunOf(m, l) => k = l
  /\ \A k \in 1 .. Len(bs) : Standing(bs[k], FunOf(m, k), p, ar)

LEMMA UnmovedFunctions ==
  ASSUME NEW a, NEW b, Unmoved(a, b), NEW bs \in Seq(Block), Len(bs) = Len(a.walk),
         Len(a.scopes) = Len(a.walk) + 2
  PROVE  /\ Len(bs) = Len(b.walk) /\ Len(b.scopes) = Len(b.walk) + 2
         /\ \A k \in 1 .. Len(bs) : FunOf(b, k) = FunOf(a, k)
<1>1. Len(bs) \in Nat
  BY LenProperties
<1>2. \A k \in 1 .. Len(bs) : k + 2 \in 1 .. Len(a.scopes)
  BY <1>1
<1> QED
  BY <1>2 DEF Unmoved, FunOf

LEMMA BeginsLater ==
  ASSUME NEW f, NEW p \in Nat, NEW q \in Nat, p <= q, Begins(ast, f, p - 1)
  PROVE  Begins(ast, f, q - 1)
<1>1. \A d \in 1 .. p - 1 : d \in 1 .. q - 1
  OBVIOUS
<1> QED
  BY <1>1 DEF Begins

LEMMA StayStands ==
  ASSUME NEW a, NEW b, Unmoved(a, b), NEW bs \in Seq(Block), NEW p \in Nat, NEW q \in Nat, p <= q,
         NEW ar, BlocksStand(a, p, bs, ar), NEW cs, Len(cs) = Len(bs),
         \A k \in 1 .. Len(bs) : cs[k] = bs[k] \/ SlotPlaced(cs[k], FunOf(a, k), ar)
  PROVE  BlocksStand(b, q, cs, ar)
<1>1. /\ Len(bs) = Len(b.walk) /\ Len(b.scopes) = Len(b.walk) + 2
      /\ \A k \in 1 .. Len(bs) : FunOf(b, k) = FunOf(a, k)
  BY UnmovedFunctions DEF BlocksStand
<1>2. ASSUME NEW k \in 1 .. Len(bs) PROVE Standing(cs[k], FunOf(b, k), q, ar)
  <2>1. Standing(bs[k], FunOf(a, k), p, ar)
    BY DEF BlocksStand
  <2>2. Begins(ast, FunOf(a, k), q - 1)
    BY <2>1, BeginsLater DEF Standing
  <2> QED
    BY <1>1, <2>1, <2>2 DEF Standing
<1> QED
  BY <1>1, <1>2 DEF BlocksStand

\* The node of a definition opens the block c on top of the others.
Opens(node, a, b) ==
  /\ node.op = "define" /\ Len(b.walk) = Len(a.walk) + 1 /\ Len(b.scopes) = Len(a.scopes) + 1
  /\ \A k \in 1 .. Len(a.scopes) : b.scopes[k].fun = a.scopes[k].fun
  /\ Inner(b) = node.fun

LEMMA DefinitionOpens ==
  ASSUME NEW node, node.op = "define", NEW a \in Moment, NEW b, Moves(node, a, b)
  PROVE  Opens(node, a, b)
<1>1. /\ Len(b.scopes) = Len(a.scopes) + 1 /\ b.walk = Append(a.walk, "defs")
      /\ Registered(a.scopes, b.scopes, node.name, node.fun) /\ Inner(b) = node.fun
  BY DEF Moves
<1>2. a.walk \in Seq({"defs", "body"})
  BY DEF Moment
<1>3. Len(b.walk) = Len(a.walk) + 1
  BY <1>1, <1>2
<1> QED
  BY <1>1, <1>3 DEF Opens, Registered

LEMMA OpenedFunctions ==
  ASSUME NEW node, NEW a, NEW b, Opens(node, a, b), NEW bs \in Seq(Block),
         Len(bs) = Len(a.walk), Len(a.scopes) = Len(a.walk) + 2, NEW c,
         NEW cs, cs = Append(bs, c)
  PROVE  /\ Len(cs) = Len(bs) + 1 /\ Len(cs) = Len(b.walk) /\ Len(b.scopes) = Len(b.walk) + 2
         /\ \A k \in 1 .. Len(bs) : FunOf(b, k) = FunOf(a, k) /\ cs[k] = bs[k]
         /\ FunOf(b, Len(bs) + 1) = node.fun /\ cs[Len(bs) + 1] = c
         /\ \A k \in 1 .. Len(cs) : k = Len(bs) + 1 \/ k \in 1 .. Len(bs)
<1>1. /\ Len(bs) \in Nat /\ Len(cs) = Len(bs) + 1 /\ cs[Len(bs) + 1] = c
      /\ \A k \in 1 .. Len(bs) : cs[k] = bs[k]
  BY LenProperties
<1>2. \A k \in 1 .. Len(bs) : k + 2 \in 1 .. Len(a.scopes)
  BY <1>1
<1>3. Len(b.scopes) = (Len(bs) + 1) + 2
  BY <1>1 DEF Opens
<1>4. FunOf(b, Len(bs) + 1) = node.fun
  BY <1>3 DEF Opens, FunOf, Inner
<1>5. Len(cs) = Len(b.walk) /\ Len(b.scopes) = Len(b.walk) + 2
  BY <1>1, <1>3 DEF Opens
<1>6. \A k \in 1 .. Len(bs) : FunOf(b, k) = FunOf(a, k)
  BY <1>2 DEF Opens, FunOf
<1>7. \A k \in 1 .. Len(cs) : k = Len(bs) + 1 \/ k \in 1 .. Len(bs)
  BY <1>1
<1> QED
  BY <1>1, <1>4, <1>5, <1>6, <1>7

\* A function that is defined at node p has not begun before.
LEMMA NotYetBegun ==
  ASSUME TapeNow, NEW p \in 1 .. Len(ast), ast[p].op = "define"
  PROVE  ~Begins(ast, ast[p].fun, p - 1)
<1>1. Len(ast) \in Nat /\ DOMAIN ast = 1 .. Len(ast)
  BY LenProperties DEF TapeNow, IInv, TypeOK
<1>2. \A d \in 1 .. p - 1 : d \in DOMAIN ast /\ d # p
  BY <1>1
<1> QED
  BY <1>1, <1>2 DEF Begins, TapeNow, TapeInv, TapeIn, BodiesIn

LEMMA OpenStands ==
  ASSUME TapeNow, NEW p \in 1 .. Len(ast), NEW a, NEW b, Opens(ast[p], a, b),
         NEW bs \in Seq(Block), NEW ar, BlocksStand(a, p, bs, ar), NEW c,
         ast[p].fun \in DOMAIN ftypes, SlotPlaced(c, ast[p].fun, ar)
  PROVE  BlocksStand(b, p + 1, Append(bs, c), ar)
<1> DEFINE cs == Append(bs, c)
           node == ast[p]
<1>1. /\ Len(cs) = Len(bs) + 1 /\ Len(cs) = Len(b.walk) /\ Len(b.scopes) = Len(b.walk) + 2
      /\ \A k \in 1 .. Len(bs) : FunOf(b, k) = FunOf(a, k) /\ cs[k] = bs[k]
      /\ FunOf(b, Len(bs) + 1) = node.fun /\ cs[Len(bs) + 1] = c
      /\ \A k \in 1 .. Len(cs) : k = Len(bs) + 1 \/ k \in 1 .. Len(bs)
  BY OpenedFunctions DEF BlocksStand
<1>2. p \in Nat /\ p + 1 \in Nat /\ p <= p + 1 /\ (p + 1) - 1 = p /\ p \in 1 .. p
  BY LenProperties DEF TapeNow, IInv, TypeOK
<1>3. node.op = "define"
  BY DEF Opens
<1> HIDE DEF cs
<1>4. ASSUME NEW k \in 1 .. Len(bs) PROVE Standing(cs[k], FunOf(b, k), p + 1, ar)
  <2>1. Standing(bs[k], FunOf(a, k), p, ar)
    BY DEF BlocksStand
  <2>2. Begins(ast, FunOf(a, k), (p + 1) - 1)
    BY <1>2, <2>1, BeginsLater DEF Standing
  <2> QED
    BY <1>1, <2>1, <2>2 DEF Standing
<1>5. Standing(c, node.fun, p + 1, ar)
  <2>1. Begins(ast, node.fun, (p + 1) - 1)
    BY <1>2, <1>3 DEF Begins
  <2> QED
    BY <2>1 DEF Standing
<1>6. \A k \in 1 .. Len(bs) : FunOf(a, k) # node.fun
  <2>1. ~Begins(ast, node.fun, p - 1)
    BY <1>3, NotYetBegun
  <2> QED
    BY <2>1 DEF BlocksStand, Standing
<1>7. \A k, l \in 1 .. Len(cs) : FunOf(b, k) = FunOf(b, l) => k = l
  BY <1>1, <1>6 DEF BlocksStand
<1>8. \A k \in 1 .. Len(cs) : Standing(cs[k], FunOf(b, k), p + 1, ar)
  BY <1>1, <1>4, <1>5
<1> QED
  BY <1>1, <1>7, <1>8 DEF BlocksStand, cs

\* The end of a definition closes its block.
Closes(a, b) ==
  /\ Len(b.walk) = Len(a.walk) - 1 /\ Len(b.scopes) = Len(a.scopes) - 1 /\ Len(a.walk) > 0
  /\ \A k \in 1 .. Len(b.scopes) : b.scopes[k].fun = a.scopes[k].fun

LEMMA EndCloses ==
  ASSUME NEW node, node.op = "end", NEW a \in Moment, NEW b, Moves(node, a, b)
  PROVE  Closes(a, b)
<1> DEFINE w == a.walk
<1>1. /\ Len(b.scopes) = Len(a.scopes) - 1 /\ b.walk = SubSeq(w, 1, Len(w) - 1) /\ w # <<>>
      /\ SameFunctions(a.scopes, b.scopes, Len(b.scopes))
  BY DEF Moves, At
<1>2. w \in Seq({"defs", "body"})
  BY DEF Moment
<1> HIDE DEF w
<1>3. Len(w) > 0 /\ Len(w) \in Nat
  BY <1>1, <1>2, EmptySeq, LenProperties
<1>4. Len(SubSeq(w, 1, Len(w) - 1)) = Len(w) - 1
  BY <1>2, <1>3, Shorter
<1> QED
  BY <1>1, <1>3, <1>4 DEF Closes, SameFunctions, w

LEMMA ClosedFunctions ==
  ASSUME NEW a, NEW b, Closes(a, b), NEW bs \in Seq(Block), Len(bs) = Len(a.walk),
         Len(a.scopes) = Len(a.walk) + 2, NEW cs, cs = SubSeq(bs, 1, Len(bs) - 1)
  PROVE  /\ Len(bs) \in Nat /\ Len(bs) > 0 /\ Len(cs) = Len(bs) - 1
         /\ Len(cs) = Len(b.walk) /\ Len(b.scopes) = Len(b.walk) + 2
         /\ \A k \in 1 .. Len(cs) : FunOf(b, k) = FunOf(a, k) /\ cs[k] = bs[k] /\ k \in 1 .. Len(bs)
<1>1. Len(bs) \in Nat /\ Len(bs) > 0
  BY LenProperties DEF Closes
<1>2. Len(cs) = Len(bs) - 1 /\ \A k \in 1 .. Len(bs) - 1 : cs[k] = bs[k]
  BY <1>1, Shorter
<1>3. Len(cs) = Len(b.walk) /\ Len(b.scopes) = Len(b.walk) + 2
  BY <1>1, <1>2 DEF Closes
<1>4. \A k \in 1 .. Len(bs) - 1 : k + 2 \in 1 .. Len(b.scopes) /\ k \in 1 .. Len(bs)
  BY <1>1, <1>2, <1>3
<1> QED
  BY <1>1, <1>2, <1>3, <1>4 DEF Closes, FunOf

LEMMA CloseStands ==
  ASSUME NEW a, NEW b, Closes(a, b), NEW bs \in Seq(Block), NEW p \in Nat, NEW ar,
         BlocksStand(a, p, bs, ar)
  PROVE  BlocksStand(b, p + 1, SubSeq(bs, 1, Len(bs) - 1), ar)
<1> DEFINE cs == SubSeq(bs, 1, Len(bs) - 1)
<1>0. /\ Len(bs) = Len(a.walk) /\ Len(a.scopes) = Len(a.walk) + 2
      /\ cs = SubSeq(bs, 1, Len(bs) - 1)
  BY DEF BlocksStand
<1> HIDE DEF cs
<1>1. /\ Len(bs) \in Nat /\ Len(bs) > 0 /\ Len(cs) = Len(bs) - 1
      /\ Len(cs) = Len(b.walk) /\ Len(b.scopes) = Len(b.walk) + 2
      /\ \A k \in 1 .. Len(cs) : FunOf(b, k) = FunOf(a, k) /\ cs[k] = bs[k] /\ k \in 1 .. Len(bs)
  BY <1>0, ClosedFunctions
<1>2. ASSUME NEW k \in 1 .. Len(cs) PROVE Standing(cs[k], FunOf(b, k), p + 1, ar)
  <2>1. k \in 1 .. Len(bs) /\ FunOf(b, k) = FunOf(a, k) /\ cs[k] = bs[k]
    BY <1>1
  <2>2. Standing(bs[k], FunOf(a, k), p, ar)
    BY <2>1 DEF BlocksStand
  <2>3. p + 1 \in Nat /\ p <= p + 1
    OBVIOUS
  <2>4. Begins(ast, FunOf(a, k), (p + 1) - 1)
    BY <2>2, <2>3, BeginsLater DEF Standing
  <2> QED
    BY <2>1, <2>2, <2>4 DEF Standing
<1>3. \A k, l \in 1 .. Len(cs) : FunOf(b, k) = FunOf(b, l) => k = l
  BY <1>1 DEF BlocksStand
<1> QED
  BY <1>1, <1>2, <1>3 DEF BlocksStand, cs

LEMMA DeclarationUnmoved ==
  ASSUME NEW node, node.op = "declare", NEW a, NEW b, Moves(node, a, b)
  PROVE  Unmoved(a, b)
BY DEF Moves, Unmoved, Registered

-----------------------------------------------------------------------------
(* The LLVM functions, and the nodes they were created for.                  *)

HeaderArgs(node) == IF node.op = "declare" THEN DeclArgs(node.header) ELSE DefArgs(node.header)

CapturesOf(node) == ftypes[node.fun].prev
CaptureList(node) == CapturedNames(CapturesOf(node), FormalNames(node.header))

\* What the header and the captures at node n make of its parameters.
NodeParams(n) == Parameters(ast[n].header, HeaderArgs(ast[n]), n, CapturesOf(ast[n]))

\* The LLVM function r was created for node n.
MadeAt(r, n) ==
  /\ n \in 1 .. Len(ast) /\ ast[n].op \in {"declare", "define"}
  /\ r.fun = ast[n].fun /\ r.params = NodeParams(n)

LibraryFun(i) ==
  [fun |-> i, params |-> [j \in DOMAIN Library[i].args |->
     [name |-> None, node |-> 0, t |-> Library[i].args[j].t, level |-> 0]]]

\* Behind the functions of the library come those of the nodes before p, the
\* program's own the first of them.
FunsMade(lf, p) ==
  /\ \A i \in DOMAIN lf : \/ i \in DOMAIN Library /\ lf[i] = LibraryFun(i)
                          \/ \E n \in 1 .. p - 1 : MadeAt(lf[i], n)
  /\ p = 1 => Len(lf) = Len(Library)
  /\ p > 1 => Len(Library) + 1 \in DOMAIN lf /\ MadeAt(lf[Len(Library) + 1], 1)

LEMMA LibraryLength == Len(Library) \in Nat /\ DOMAIN Library = 1 .. Len(Library)
BY GrammarAssumption, LenProperties

LEMMA FunsStay ==
  ASSUME NEW lf, NEW p \in Nat, NEW q \in Nat, p > 1, p <= q, FunsMade(lf, p)
  PROVE  FunsMade(lf, q)
<1>1. \A n \in 1 .. p - 1 : n \in 1 .. q - 1
  OBVIOUS
<1>2. q > 1 /\ q # 1
  OBVIOUS
<1> QED
  BY <1>1, <1>2 DEF FunsMade

LEMMA FunsGrow ==
  ASSUME NEW lf \in Seq(LFun), NEW p \in 1 .. Len(ast), FunsMade(lf, p), NEW r \in LFun, MadeAt(r, p)
  PROVE  FunsMade(Append(lf, r), p + 1)
<1> DEFINE lg == Append(lf, r)
           L == Len(lf)
<1>1. /\ L \in Nat /\ DOMAIN lg = 1 .. L + 1 /\ DOMAIN lf = 1 .. L /\ lg[L + 1] = r
      /\ \A i \in 1 .. L : lg[i] = lf[i]
  BY LenProperties
<1> HIDE DEF lg
<1>2. p \in Nat /\ p >= 1 /\ p \in 1 .. (p + 1) - 1 /\ p + 1 > 1 /\ p + 1 # 1
  OBVIOUS
<1>3. \A n \in 1 .. p - 1 : n \in 1 .. (p + 1) - 1
  BY <1>2
<1>4. ASSUME NEW i \in DOMAIN lg
      PROVE  \/ i \in DOMAIN Library /\ lg[i] = LibraryFun(i)
             \/ \E n \in 1 .. (p + 1) - 1 : MadeAt(lg[i], n)
  <2>1. CASE i = L + 1
    BY <1>1, <1>2, <2>1
  <2>2. CASE i \in 1 .. L
    BY <1>1, <1>3, <2>2 DEF FunsMade
  <2> QED
    BY <1>1, <2>1, <2>2
<1>5. Len(Library) + 1 \in DOMAIN lg /\ MadeAt(lg[Len(Library) + 1], 1)
  <2>1. CASE p = 1
    <3>1. L = Len(Library)
      BY <2>1 DEF FunsMade
    <3> HIDE DEF L
    <3> QED
      BY <1>1, <2>1, <3>1
  <2>2. CASE p > 1
    <3>1. Len(Library) + 1 \in 1 .. L /\ MadeAt(lf[Len(Library) + 1], 1)
      BY <1>1, <2>2 DEF FunsMade
    <3> HIDE DEF L
    <3> QED
      BY <1>1, <3>1
  <2> QED
    BY <1>2, <2>1, <2>2
<1> QED
  BY <1>2, <1>4, <1>5 DEF FunsMade, lg

\* The function of a definition's signature, if it was declared.
LEMMA KnownFunction ==
  ASSUME HInv, GenInv, Compiling("define"), NEW known, known = GetFunCurrentScope(Node1.name),
         known # None
  PROVE  known \in DOMAIN lfuns /\ lfuns[known].fun = Node1.fun
<1>1. Emitting /\ pc \in DOMAIN ast /\ Node1.op = "define"
  BY DEF Compiling
<1>2. PICK h : /\ h[pc - 1] \in Moment /\ Node1 \in Node /\ Moves(Node1, h[pc - 1], h[pc])
               /\ Len(h[pc - 1].scopes) = Len(h[pc - 1].walk) + 2
               /\ Agree(h[pc - 1], rscopes, lfuns) /\ Len(blocks) = Len(h[pc - 1].walk)
  BY <1>1, AtNode
<1> DEFINE a == h[pc - 1]
<1>3. /\ Len(rscopes) \in Nat /\ rscopes \in Seq(RuntimeScope(lfuns)) /\ Len(a.scopes) = Len(rscopes)
      /\ Len(rscopes) = Len(blocks) + 2 /\ Len(blocks) \in Nat
  BY <1>2, TableSizes
<1>4. Len(rscopes) \in 1 .. Len(rscopes)
  BY <1>3
<1>5. Node1.name \in FunNames /\ a.scopes[Len(rscopes)].functions[Node1.name] \in {None, Node1.fun}
  BY <1>1, <1>2, <1>3 DEF Moves, Registered
<1>6. Same(a.scopes[Len(rscopes)].functions[Node1.name], known, lfuns)
  BY <1>2, <1>4, <1>5 DEF Agree, GetFunCurrentScope
<1>7. rscopes[Len(rscopes)] \in RuntimeScope(lfuns)
  BY <1>3, <1>4, ElementOfSeq
<1>8. known \in DOMAIN lfuns \cup {None}
  BY <1>5, <1>7 DEF GetFunCurrentScope, RuntimeScope
<1> QED
  BY <1>5, <1>6, <1>8 DEF Same

LEMMA HeaderOf ==
  ASSUME HInv, NEW n \in 1 .. Len(ast), ast[n].op \in {"declare", "define"}
  PROVE  /\ ast[n].header \in Headers /\ ast[n].name \in FunNames /\ ast[n].fun \in Nat
         /\ ast[n].fun \in DOMAIN ftypes /\ CapturesOf(ast[n]) \in VarMap
         /\ HeaderArgs(ast[n]) \in Seq(Arg)
         /\ Len(HeaderArgs(ast[n])) = Len(ast[n].header.formals)
         /\ Len(ast[n].header.formals) \in Nat
<1>1. ast[n] \in Node
  BY ElementOfSeq DEF HInv, IInv, TypeOK
<1>2. ast[n].header \in Headers /\ ast[n].name \in FunNames /\ ast[n].fun \in Nat
  BY <1>1 DEF Node
<1>3. ast[n].fun \in DOMAIN ftypes
  BY DEF HInv, FunctionsKnown
<1>4. ftypes[ast[n].fun] \in FType
  BY <1>3, LenProperties, ElementOfSeq DEF HInv, IInv, TypeOK
<1>5. CapturesOf(ast[n]) \in VarMap
  BY <1>4 DEF FType, CapturesOf
<1>6. ast[n].header.formals \in Seq(Formal)
  BY <1>2, GrammarAssumption
<1> QED
  BY <1>2, <1>3, <1>5, <1>6, ArgsLength, LenProperties DEF HeaderArgs

LEMMA NodeParamsAre ==
  ASSUME HInv, NEW n \in 1 .. Len(ast), ast[n].op \in {"declare", "define"}
  PROVE  /\ ParamsAre(NodeParams(n), ast[n].header, HeaderArgs(ast[n]), n, CapturesOf(ast[n]),
                      CaptureList(ast[n]))
         /\ CaptureList(ast[n]) \in Seq(VarNames)
         /\ \A i \in 1 .. Len(CaptureList(ast[n])) : CapturesOf(ast[n])[CaptureList(ast[n])[i]] # None
<1> DEFINE h == ast[n].header
           args == HeaderArgs(ast[n])
           m == CapturesOf(ast[n])
           skip == FormalNames(h)
           names == CapturedNames(m, skip)
<1>1. h \in Headers /\ args \in Seq(Arg) /\ Len(args) = Len(h.formals) /\ m \in VarMap /\ n \in Nat
  BY HeaderOf
<1>2. NodeParams(n) = Parameters(h, args, n, m) /\ CaptureList(ast[n]) = names
  BY DEF NodeParams, CaptureList
<1> HIDE DEF args, m, h
<1>3. ParamsAre(Parameters(h, args, n, m), h, args, n, m, names)
  BY <1>1, ParametersAre
<1> HIDE DEF skip
<1>4. names \in Seq(VarNames) /\ \A i \in 1 .. Len(names) : m[names[i]] # None
  BY CapturedNamesProperties
<1> HIDE DEF names
<1> QED
  BY <1>2, <1>3, <1>4 DEF args, m, h

\* The parameters of a node are its formals and its captured variables.
LEMMA ParamSource ==
  ASSUME HInv, NEW n \in 1 .. Len(ast), ast[n].op \in {"declare", "define"},
         NEW i \in 1 .. Len(NodeParams(n))
  PROVE  \/ /\ i \in 1 .. Len(ast[n].header.formals)
            /\ NodeParams(n)[i].name = ast[n].header.formals[i].name /\ NodeParams(n)[i].node = n
         \/ LET x == NodeParams(n)[i].name IN
            /\ x \in VarNames /\ CapturesOf(ast[n])[x] # None
            /\ NodeParams(n)[i].node = CapturesOf(ast[n])[x].node
<1> DEFINE p == NodeParams(n)
           h == ast[n].header
           args == HeaderArgs(ast[n])
           m == CapturesOf(ast[n])
           names == CaptureList(ast[n])
           L == Len(h.formals)
<1>1. /\ ParamsAre(p, h, args, n, m, names) /\ names \in Seq(VarNames)
      /\ \A j \in 1 .. Len(names) : m[names[j]] # None
  BY NodeParamsAre
<1>2. L \in Nat
  BY HeaderOf
<1>3. i \in 1 .. Len(p)
  OBVIOUS
<1> HIDE DEF p, args, m, names
<1>4. CASE i \in 1 .. L
  <2>1. p[i] = [name |-> h.formals[i].name, node |-> n, t |-> args[i].t,
                level |-> Indirection(args[i].pass)]
    BY <1>1, <1>4 DEF ParamsAre
  <2>2. p[i].name = h.formals[i].name /\ p[i].node = n
    BY <2>1
  <2> QED
    BY <1>4, <2>2 DEF p
<1>5. CASE i \notin 1 .. L
  <2> DEFINE j == i - L
  <2>1. Len(names) \in Nat /\ Len(p) = L + Len(names)
    BY <1>1, LenProperties DEF ParamsAre
  <2>2. j \in 1 .. Len(names) /\ L + j = i
    <3> HIDE DEF L
    <3> QED
      BY <1>2, <1>3, <1>5, <2>1
  <2>3. names[j] \in VarNames
    <3> HIDE DEF j
    <3> QED
      BY <1>1, <2>2, ElementOfSeq
  <2>4. p[L + j] = [name |-> names[j], node |-> m[names[j]].node, t |-> m[names[j]].t, level |-> 1]
    <3> HIDE DEF j
    <3> QED
      BY <1>1, <2>2 DEF ParamsAre
  <2> HIDE DEF j, L
  <2>5. p[i].name = names[j] /\ p[i].node = m[names[j]].node
    BY <2>2, <2>4
  <2> QED
    BY <1>1, <2>2, <2>3, <2>5 DEF p, m
<1> QED
  BY <1>4, <1>5

LEMMA NodeParamsNamed ==
  ASSUME HInv, GenInv, Emitting, pc \in DOMAIN ast, Node1.op = "define"
  PROVE  /\ NodeParams(pc) \in Seq(Param) /\ Named(NodeParams(pc)) /\ NamedOnce(NodeParams(pc))
         /\ DistinctFormals(Node1.header)
<1>1. PICK h : pc \in 1 .. Len(ast) /\ Moves(Node1, h[pc - 1], h[pc])
  BY AtNode
<1> DEFINE hd == Node1.header
           args == HeaderArgs(Node1)
           m == CapturesOf(Node1)
<1>2. hd \in Headers /\ args \in Seq(Arg) /\ Len(args) = Len(hd.formals) /\ m \in VarMap /\ pc \in Nat
  BY <1>1, HeaderOf DEF Node1
<1>3. DistinctFormals(hd)
  BY <1>1 DEF Moves
<1>4. NodeParams(pc) = Parameters(hd, args, pc, m)
  BY DEF NodeParams, Node1
<1> HIDE DEF hd, args, m
<1> QED
  BY <1>2, <1>3, <1>4, ParametersProperties DEF hd

\* The signature of the function that is defined at pc.
Signs(sg) ==
  /\ sg \in Seq(Param) /\ Len(sg) <= Len(NodeParams(pc))
  /\ \/ sg = NodeParams(pc)
     \/ \E k \in DOMAIN lfuns : lfuns[k].fun = Node1.fun /\ sg = lfuns[k].params

\* What a definition does that compiles.
LEMMA DefinitionStep ==
  ASSUME HInv, GenInv, CompileDefinition, emit' = "emitting"
  PROVE  /\ pc' = pc + 1 /\ at' = Len(blocks) + 1
         /\ \E sg : Signs(sg) /\ blocks' = Append(blocks, NewBlock(NodeParams(pc), sg))
         /\ \/ lfuns' = lfuns /\ GetFunCurrentScope(Node1.name) # None
            \/ \E r \in LFun : MadeAt(r, pc) /\ lfuns' = Append(lfuns, r)
<1> DEFINE params == Parameters(Node1.header, DefArgs(Node1.header), pc, ftypes[Node1.fun].prev)
           known == GetFunCurrentScope(Node1.name)
           sg == IF known = None THEN params ELSE lfuns[known].params
           r == [fun |-> Node1.fun, params |-> params]
<1>1. Compiling("define") /\ Emitting /\ pc \in DOMAIN ast /\ Node1.op = "define"
  BY DEF CompileDefinition, Compiling
<1>2. params = NodeParams(pc)
  BY <1>1 DEF NodeParams, HeaderArgs, CapturesOf, Node1
<1>3. ~(Len(sg) > Len(params)) /\ pc' = pc + 1 /\ at' = Len(blocks) + 1
      /\ blocks' = Append(blocks, NewBlock(params, sg))
      /\ lfuns' = IF known # None THEN lfuns ELSE Append(lfuns, r)
  BY DEF CompileDefinition, Break, Advance
<1>4. params \in Seq(Param)
  BY <1>1, <1>2, NodeParamsNamed
<1> HIDE DEF params
<1>5. known # None => known \in DOMAIN lfuns /\ lfuns[known].fun = Node1.fun
  BY <1>1, KnownFunction
<1>6. lfuns \in Seq(LFun) /\ DOMAIN lfuns = 1 .. Len(lfuns)
  BY LenProperties DEF GenInv, Typed
<1> HIDE DEF known
<1>7. known # None => lfuns[known].params \in Seq(Param)
  <2>1. known # None => lfuns[known] \in LFun
    BY <1>5, <1>6, ElementOfSeq
  <2> QED
    BY <2>1 DEF LFun
<1>8. Signs(sg)
  <2>1. sg \in Seq(Param)
    BY <1>4, <1>7
  <2>2. sg = params \/ \E k \in DOMAIN lfuns : lfuns[k].fun = Node1.fun /\ sg = lfuns[k].params
    BY <1>5
  <2> HIDE DEF sg
  <2>3. Len(sg) <= Len(params)
    BY <1>3, <1>4, <2>1, LenProperties
  <2> QED
    BY <1>2, <2>1, <2>2, <2>3 DEF Signs
<1>9. pc \in 1 .. Len(ast)
  BY <1>1, LenProperties DEF HInv, IInv, TypeOK
<1>10. r \in LFun /\ MadeAt(r, pc)
  BY <1>1, <1>2, <1>4, <1>9, HeaderOf DEF LFun, MadeAt, Node1
<1> HIDE DEF sg, r
<1>11. \E s : Signs(s) /\ blocks' = Append(blocks, NewBlock(NodeParams(pc), s))
  BY <1>2, <1>3, <1>8
<1>12. \/ lfuns' = lfuns /\ known # None
       \/ \E s \in LFun : MadeAt(s, pc) /\ lfuns' = Append(lfuns, s)
  BY <1>3, <1>10
<1> QED
  BY <1>3, <1>11, <1>12 DEF known

LEMMA NewBlockPlaced ==
  ASSUME HInv, GenInv, Emitting, pc \in DOMAIN ast, Node1.op = "define",
         NEW ar, Whole(ar), NEW sg, Signs(sg)
  PROVE  SlotPlaced(NewBlock(NodeParams(pc), sg), Node1.fun, ar)
<1> DEFINE p == NodeParams(pc)
           b == NewBlock(p, sg)
           f == Node1.fun
<1>1. p \in Seq(Param) /\ Named(p) /\ NamedOnce(p)
  BY NodeParamsNamed
<1>2. sg \in Seq(Param) /\ Len(sg) <= Len(p) /\ Len(p) \in Nat /\ Len(sg) \in Nat
  BY <1>1, LenProperties DEF Signs
<1>3. pc \in 1 .. Len(ast) /\ Node1 = ast[pc]
  BY LenProperties DEF HInv, IInv, TypeOK, Node1
<1>4. f \in DOMAIN ftypes /\ Node1.header.formals \in Seq(Formal)
  BY <1>3, HeaderOf, GrammarAssumption
<1>5. ar \in [DOMAIN ftypes -> SUBSET DOMAIN ftypes] /\ f \in ar[f]
  BY <1>4 DEF Whole, Placed, Around
<1>6. ASSUME NEW i \in 1 .. Len(p)
      PROVE  \E o \in ar[f] : DeclaredAt(ast, p[i].node, p[i].name, o)
  <2>1. CASE /\ i \in 1 .. Len(Node1.header.formals)
             /\ p[i].name = Node1.header.formals[i].name /\ p[i].node = pc
    <3>1. p[i].name \in FormalNames(Node1.header)
      BY <1>4, <2>1, LenProperties DEF FormalNames
    <3>2. DeclaredAt(ast, pc, p[i].name, f)
      BY <1>3, <3>1 DEF DeclaredAt, Declares, OwnerOf
    <3> QED
      BY <1>5, <2>1, <3>2
  <2>2. CASE /\ p[i].name \in VarNames /\ CapturesOf(Node1)[p[i].name] # None
             /\ p[i].node = CapturesOf(Node1)[p[i].name].node
    <3> DEFINE x == p[i].name
               v == ftypes[f].prev[x]
    <3>1. x \in VarNames /\ v # None /\ p[i].node = v.node
      BY <2>2 DEF CapturesOf
    <3> HIDE DEF x, v, p
    <3>2. PICK o \in ar[f] : IsVariable(ast, v, x, o)
      BY <1>4, <3>1 DEF Whole, Placed, CapturesAround, v
    <3>3. DeclaredAt(ast, v.node, x, o)
      BY <3>2, VariableIsDeclared
    <3> QED
      BY <3>1, <3>2, <3>3 DEF x
  <2> QED
    BY <1>3, <2>1, <2>2, ParamSource
<1>7. ASSUME NEW x \in VarNames, b.slot[x] # None
      PROVE  \E o \in ar[f] : DeclaredAt(ast, b.slot[x].node, x, o)
  <2> HIDE DEF p
  <2>1. /\ \A i \in 1 .. Len(sg) : b.slot[p[i].name].node = p[i].node
        /\ \E i \in 1 .. Len(sg) : p[i].name = x
    BY <1>1, <1>2, <1>7, NewBlockSlots
  <2>2. PICK i \in 1 .. Len(sg) : p[i].name = x /\ b.slot[x].node = p[i].node
    BY <2>1
  <2>3. i \in 1 .. Len(p)
    BY <1>2
  <2> HIDE DEF b
  <2> QED
    BY <1>6, <2>2, <2>3
<1> QED
  BY <1>7 DEF SlotPlaced

-----------------------------------------------------------------------------
(* The generator's functions and blocks are those of the nodes it has seen.  *)

GenPlaced ==
  emit = "emitting" =>
    /\ pc = 1 => GenInit
    /\ FunsMade(lfuns, pc)
    /\ outcome = "accepted" =>
         \A h, ar : History(ast, h) /\ Whole(ar) => BlocksStand(h[pc - 1], pc, blocks, ar)

\* What holds before a step of the generator.
GenNow == HInv /\ TapeNow /\ GenInv

LEMMA GoesOnPlaced ==
  ASSUME UNCHANGED vars, NEW next \in Nat, next > 1, pc' = next, FunsMade(lfuns', next),
         \A h, ar : History(ast, h) /\ Whole(ar) => BlocksStand(h[next - 1], next, blocks', ar)
  PROVE  GenPlaced'
<1>1. ast' = ast /\ ftypes' = ftypes
  BY DEF vars
<1>2. FunsMade(lfuns, pc)'
  BY <1>1 DEF FunsMade, MadeAt, NodeParams, CapturesOf
<1>3. \A ar : Whole(ar)' => Whole(ar)
  BY <1>1 DEF Whole
<1>4. \A m, ar : BlocksStand(m, next, blocks', ar) => BlocksStand(m, pc, blocks, ar)'
  BY <1>1 DEF BlocksStand, Standing, SlotPlaced
<1>5. next # 1
  OBVIOUS
<1> QED
  BY <1>1, <1>2, <1>3, <1>4, <1>5 DEF GenPlaced

\* What is known before the node at pc is compiled.
LEMMA BeforeNode ==
  ASSUME GenNow, GenPlaced, Emitting, pc \in DOMAIN ast
  PROVE  /\ pc \in 1 .. Len(ast) /\ pc \in Nat /\ pc + 1 \in Nat /\ pc + 1 > 1 /\ pc <= pc + 1
         /\ (pc + 1) - 1 = pc /\ Node1 = ast[pc]
         /\ blocks \in Seq(Block) /\ Len(blocks) \in Nat /\ lfuns \in Seq(LFun)
         /\ pc < pc + 1 /\ FunsMade(lfuns, pc)
         /\ Node1.op # "define" => pc > 1
         /\ \A h, ar : History(ast, h) /\ Whole(ar) => BlocksStand(h[pc - 1], pc, blocks, ar)
<1>1. PICK h : /\ History(ast, h) /\ pc \in 1 .. Len(ast) /\ Node1 \in Node
               /\ Moves(Node1, h[pc - 1], h[pc])
  BY AtNode DEF GenNow
<1>2. ASSUME Node1.op # "define" PROVE pc # 1
  <2> SUFFICES ASSUME pc = 1 PROVE FALSE
    OBVIOUS
  <2>1. h[pc - 1] = Start
    BY <1>1 DEF History
  <2>2. h[pc - 1].walk = <<>>
    BY <2>1 DEF Start
  <2> QED
    BY <1>1, <1>2, <2>2 DEF Moves, At, Node, Statements
<1>3. blocks \in Seq(Block) /\ lfuns \in Seq(LFun) /\ Len(blocks) \in Nat
  BY LenProperties DEF GenNow, GenInv, Typed
<1> QED
  BY <1>1, <1>2, <1>3 DEF GenPlaced, Emitting, Node1

\* The tables of the semantic pass before the node at pc, and its function.
LEMMA MomentBefore ==
  ASSUME GenNow, GenPlaced, Emitting, pc \in DOMAIN ast, NEW h, History(ast, h)
  PROVE  /\ h[pc - 1] \in Moment /\ Node1 \in Node /\ Moves(Node1, h[pc - 1], h[pc])
         /\ Len(h[pc - 1].scopes) = Len(h[pc - 1].walk) + 2
         /\ Node1.op \in Using \cup {"var"} => Node1.by = Inner(h[pc - 1])
<1>1. pc \in 1 .. Len(ast) /\ Node1 = ast[pc] /\ ast \in Seq(Node)
  BY BeforeNode DEF GenNow, HInv, IInv, TypeOK
<1>2. /\ h[pc - 1] \in Moment /\ Node1 \in Node /\ Moves(Node1, h[pc - 1], h[pc])
      /\ Len(h[pc - 1].scopes) = Len(h[pc - 1].walk) + 2
  BY <1>1, HistoryAt
<1>3. Node1.op \in Using \cup {"var"} => Node1.by = Inner(h[pc - 1])
  BY <1>2 DEF Moves, Using, Statements
<1> QED
  BY <1>2, <1>3

\* A node that opens and closes nothing: its block may change.
LEMMA StepPlaced ==
  ASSUME GenNow, GenPlaced, Emitting, pc \in DOMAIN ast, UNCHANGED vars,
         NEW next \in Nat, pc < next, pc' = next, FunsMade(lfuns', next),
         \A h : History(ast, h) => Unmoved(h[pc - 1], h[next - 1]),
         Len(blocks') = Len(blocks),
         \A h, ar : History(ast, h) /\ Whole(ar) =>
           \A k \in 1 .. Len(blocks) :
             blocks'[k] = blocks[k] \/ SlotPlaced(blocks'[k], FunOf(h[pc - 1], k), ar)
  PROVE  GenPlaced'
<1>1. /\ pc \in Nat /\ pc >= 1 /\ blocks \in Seq(Block)
      /\ \A h, ar : History(ast, h) /\ Whole(ar) => BlocksStand(h[pc - 1], pc, blocks, ar)
  BY BeforeNode
<1>2. ASSUME NEW h, NEW ar, History(ast, h), Whole(ar)
      PROVE  BlocksStand(h[next - 1], next, blocks', ar)
  <2> DEFINE a == h[pc - 1]
             b == h[next - 1]
             cs == blocks'
  <2>1. /\ Unmoved(a, b) /\ BlocksStand(a, pc, blocks, ar) /\ Len(cs) = Len(blocks)
        /\ \A k \in 1 .. Len(blocks) : cs[k] = blocks[k] \/ SlotPlaced(cs[k], FunOf(a, k), ar)
        /\ pc <= next
    BY <1>1, <1>2
  <2> HIDE DEF a, b, cs
  <2>2. BlocksStand(b, next, cs, ar)
    BY <1>1, <2>1, StayStands
  <2> QED
    BY <2>2 DEF b, cs
<1>3. next > 1
  BY <1>1
<1> QED
  BY <1>2, <1>3, GoesOnPlaced

LEMMA DeclarationPlaced ==
  ASSUME GenNow, GenPlaced, CompileDeclaration, UNCHANGED vars
  PROVE  GenPlaced'
<1> DEFINE params == Parameters(Node1.header, DeclArgs(Node1.header), pc, ftypes[Node1.fun].prev)
           r == [fun |-> Node1.fun, params |-> params]
           next == pc + 1
<1>1. /\ Compiling("declare") /\ Emitting /\ pc \in DOMAIN ast /\ Node1.op = "declare"
      /\ lfuns' = Append(lfuns, r) /\ pc' = next /\ blocks' = blocks
  BY DEF CompileDeclaration, Compiling, Advance
<1>2. /\ pc \in 1 .. Len(ast) /\ pc \in Nat /\ next \in Nat /\ pc < next /\ next - 1 = pc
      /\ Node1 = ast[pc] /\ lfuns \in Seq(LFun) /\ FunsMade(lfuns, pc)
  BY <1>1, BeforeNode
<1>3. params = NodeParams(pc)
  BY <1>1, <1>2 DEF NodeParams, HeaderArgs, CapturesOf
<1>4. params \in Seq(Param) /\ Node1.fun \in Nat
  BY <1>1, <1>2, <1>3, NodeParamsAre, HeaderOf DEF ParamsAre, GenNow
<1> HIDE DEF params
<1>5. r \in LFun /\ MadeAt(r, pc)
  BY <1>1, <1>2, <1>3, <1>4 DEF LFun, MadeAt
<1> HIDE DEF r
<1>6. FunsMade(Append(lfuns, r), next)
  BY <1>2, <1>5, FunsGrow
<1>7. \A h : History(ast, h) => Unmoved(h[pc - 1], h[next - 1])
  <2> SUFFICES ASSUME NEW h, History(ast, h) PROVE Unmoved(h[pc - 1], h[pc])
    BY <1>2
  <2>1. Moves(Node1, h[pc - 1], h[pc])
    BY <1>2, HistoryAt DEF GenNow, HInv, IInv, TypeOK
  <2> QED
    BY <1>1, <2>1, DeclarationUnmoved
<1> HIDE DEF next
<1> QED
  BY <1>1, <1>2, <1>6, <1>7, StepPlaced

\* A statement leaves functions and blocks alone.
LEMMA StatementPlaced ==
  ASSUME GenNow, GenPlaced, Emitting, pc \in DOMAIN ast, Node1.op \in Statements, CompileStatement,
         Advance, UNCHANGED vars
  PROVE  GenPlaced'
<1> DEFINE next == pc + 1
<1>1. lfuns' = lfuns /\ pc' = next /\ blocks' = blocks
  BY DEF CompileStatement, Advance
<1>2. /\ pc \in 1 .. Len(ast) /\ pc \in Nat /\ next \in Nat /\ pc < next /\ next - 1 = pc
      /\ pc > 1 /\ pc <= next /\ Node1 = ast[pc] /\ FunsMade(lfuns, pc)
  BY BeforeNode DEF Statements
<1>3. FunsMade(lfuns, next)
  <2> HIDE DEF next
  <2> QED
    BY <1>2, FunsStay
<1>4. \A h : History(ast, h) => Unmoved(h[pc - 1], h[next - 1])
  <2> SUFFICES ASSUME NEW h, History(ast, h) PROVE Unmoved(h[pc - 1], h[pc])
    BY <1>2
  <2>1. Moves(Node1, h[pc - 1], h[pc]) /\ h[pc - 1] \in Moment
    BY <1>2, HistoryAt DEF GenNow, HInv, IInv, TypeOK
  <2> QED
    BY <2>1, StatementUnmoved
<1> HIDE DEF next
<1> QED
  BY <1>1, <1>2, <1>3, <1>4, StepPlaced

LEMMA StatementsPlaced ==
  ASSUME GenNow, GenPlaced, CompileUse \/ CompileSkip \/ CompileCall, UNCHANGED vars
  PROVE  GenPlaced'
<1>1. Emitting /\ pc \in DOMAIN ast /\ Node1.op \in Statements
  BY DEF CompileUse, CompileSkip, CompileCall, Compiling, Statements
<1>2. emit' # "emitting" \/ (CompileStatement /\ Advance)
  BY DEF CompileUse, CompileSkip, CompileCall, Break
<1>3. CASE emit' # "emitting"
  BY <1>3 DEF GenPlaced
<1> QED
  BY <1>1, <1>2, <1>3, StatementPlaced

LEMMA DefinitionPlaced ==
  ASSUME GenNow, GenPlaced, CompileDefinition, UNCHANGED vars
  PROVE  GenPlaced'
<1>1. CASE emit' # "emitting"
  BY <1>1 DEF GenPlaced
<1>2. CASE emit' = "emitting"
  <2> DEFINE next == pc + 1
  <2>1. Emitting /\ pc \in DOMAIN ast /\ Node1.op = "define"
    BY DEF CompileDefinition, Compiling
  <2>2. /\ pc \in 1 .. Len(ast) /\ pc \in Nat /\ next \in Nat /\ next > 1 /\ next - 1 = pc
        /\ pc <= next /\ Node1 = ast[pc] /\ lfuns \in Seq(LFun) /\ FunsMade(lfuns, pc)
        /\ blocks \in Seq(Block)
        /\ \A h, ar : History(ast, h) /\ Whole(ar) => BlocksStand(h[pc - 1], pc, blocks, ar)
    BY <2>1, BeforeNode
  <2>3. HInv /\ GenInv /\ TapeNow
    BY DEF GenNow
  <2>4. /\ pc' = next
        /\ \E sg : Signs(sg) /\ blocks' = Append(blocks, NewBlock(NodeParams(pc), sg))
        /\ \/ lfuns' = lfuns /\ GetFunCurrentScope(Node1.name) # None
           \/ \E r \in LFun : MadeAt(r, pc) /\ lfuns' = Append(lfuns, r)
    BY <1>2, <2>3, DefinitionStep
  <2>5. Node1.fun \in DOMAIN ftypes /\ Node1.name \in FunNames
    BY <2>1, <2>2, <2>3, HeaderOf
  <2>6. FunsMade(lfuns', next)
    <3>1. CASE lfuns' = lfuns /\ GetFunCurrentScope(Node1.name) # None
      <4>1. pc # 1
        <5> SUFFICES ASSUME pc = 1 PROVE FALSE
          OBVIOUS
        <5>1. rscopes = <<LibraryScope.functions, NoFuns>>
          BY <2>1 DEF GenPlaced, GenInit, Emitting
        <5>2. GetFunCurrentScope(Node1.name) = NoFuns[Node1.name]
          BY <5>1 DEF GetFunCurrentScope
        <5> QED
          BY <2>5, <3>1, <5>2 DEF NoFuns
      <4>2. pc > 1
        BY <2>2, <4>1
      <4> HIDE DEF next
      <4> QED
        BY <2>2, <3>1, <4>2, FunsStay
    <3>2. CASE \E r \in LFun : MadeAt(r, pc) /\ lfuns' = Append(lfuns, r)
      BY <2>2, <3>2, FunsGrow
    <3> QED
      BY <2>4, <3>1, <3>2
  <2>7. ASSUME NEW h, NEW ar, History(ast, h), Whole(ar)
        PROVE  BlocksStand(h[next - 1], next, blocks', ar)
    <3> DEFINE a == h[pc - 1]
               b == h[pc]
               f == Node1.fun
    <3>1. a \in Moment /\ Moves(Node1, a, b)
      BY <2>2, <2>3, <2>7, HistoryAt DEF HInv, IInv, TypeOK
    <3>2. BlocksStand(a, pc, blocks, ar)
      BY <2>2, <2>7
    <3> HIDE DEF a, b
    <3>3. Opens(ast[pc], a, b)
      BY <2>1, <2>2, <3>1, DefinitionOpens
    <3>4. PICK sg : Signs(sg) /\ blocks' = Append(blocks, NewBlock(NodeParams(pc), sg))
      BY <2>4
    <3> DEFINE c == NewBlock(NodeParams(pc), sg)
    <3>5. SlotPlaced(c, ast[pc].fun, ar)
      BY <2>1, <2>2, <2>3, <2>7, <3>4, NewBlockPlaced
    <3> HIDE DEF c
    <3>6. BlocksStand(b, pc + 1, Append(blocks, c), ar)
      BY <2>2, <2>3, <2>5, <3>2, <3>3, <3>5, OpenStands
    <3>7. blocks' = Append(blocks, c) /\ h[next - 1] = b
      BY <2>2, <3>4 DEF c, b
    <3> QED
      BY <3>6, <3>7
  <2> HIDE DEF next
  <2> QED
    BY <2>2, <2>4, <2>6, <2>7, GoesOnPlaced
<1> QED
  BY <1>1, <1>2

LEMMA VarListPlaced ==
  ASSUME GenNow, GenPlaced, CompileVarList, UNCHANGED vars
  PROVE  GenPlaced'
<1>1. CASE at # Len(blocks)
  BY <1>1 DEF CompileVarList, Break, GenPlaced
<1>2. CASE at = Len(blocks)
  <2> DEFINE L   == Len(blocks)
             ids == Elements(Node1.ids)
             new == [node |-> pc, t |-> Node1.type.t, level |-> 0]
             ref == IF Node1.type.pass = "ref" THEN Block1.ref \cup ids ELSE Block1.ref \ ids
             slot == [x \in VarNames |-> IF x \in ids THEN new ELSE Block1.slot[x]]
             block == [ref |-> ref, slot |-> slot]
             next == pc + 1
  <2>1. /\ Emitting /\ pc \in DOMAIN ast /\ Node1.op = "var"
        /\ blocks' = [blocks EXCEPT ![L] = block] /\ pc' = next /\ lfuns' = lfuns
    BY <1>2 DEF CompileVarList, Advance, Block1, Compiling
  <2>2. /\ pc \in 1 .. Len(ast) /\ pc \in Nat /\ next \in Nat /\ pc < next /\ next - 1 = pc
        /\ pc > 1 /\ pc <= next /\ Node1 = ast[pc] /\ FunsMade(lfuns, pc)
        /\ blocks \in Seq(Block) /\ L \in Nat
        /\ \A h, ar : History(ast, h) /\ Whole(ar) => BlocksStand(h[pc - 1], pc, blocks, ar)
    BY <2>1, BeforeNode
  <2>3. FunsMade(lfuns, next)
    <3> HIDE DEF next
    <3> QED
      BY <2>2, FunsStay
  <2>4. ASSUME NEW h, History(ast, h)
        PROVE  /\ Unmoved(h[pc - 1], h[pc]) /\ Node1.by = Inner(h[pc - 1])
               /\ Len(h[pc - 1].scopes) = Len(h[pc - 1].walk) + 2
    <3>1. /\ Moves(Node1, h[pc - 1], h[pc]) /\ h[pc - 1] \in Moment
          /\ Node1.by = Inner(h[pc - 1]) /\ Len(h[pc - 1].scopes) = Len(h[pc - 1].walk) + 2
      BY <2>1, <2>4, MomentBefore
    <3> QED
      BY <2>1, <3>1, StatementUnmoved
  <2>5. /\ \A h : History(ast, h) => Unmoved(h[pc - 1], h[next - 1])
        /\ Len(blocks') = L
    BY <2>1, <2>2, <2>4
  <2>6. ASSUME NEW h, NEW ar, History(ast, h), Whole(ar), NEW k \in 1 .. L
        PROVE  blocks'[k] = blocks[k] \/ SlotPlaced(blocks'[k], FunOf(h[pc - 1], k), ar)
    <3> DEFINE a == h[pc - 1]
               f == FunOf(a, k)
    <3>1. CASE k # L
      BY <2>1, <2>2, <3>1
    <3>2. CASE k = L
      <4>1. blocks'[k] = block /\ Block1 = blocks[k]
        <5>1. DOMAIN blocks = 1 .. L
          BY <2>2, LenProperties
        <5> HIDE DEF block
        <5> QED
          BY <2>1, <3>2, <5>1 DEF Block1
      <4>2. BlocksStand(a, pc, blocks, ar)
        BY <2>2, <2>6
      <4>3. Standing(Block1, f, pc, ar)
        BY <4>1, <4>2 DEF BlocksStand
      <4>4. f = Node1.by
        <5>1. Node1.by = Inner(a) /\ Len(a.scopes) = L + 2
          BY <2>4, <2>6, <4>2 DEF BlocksStand
        <5> QED
          BY <3>2, <5>1 DEF Inner, FunOf
      <4>5. f \in ar[f]
        BY <2>6, <4>3 DEF Standing, Whole, Placed, Around
      <4> HIDE DEF f
      <4>6. ASSUME NEW x \in VarNames, block.slot[x] # None
            PROVE  \E o \in ar[f] : DeclaredAt(ast, block.slot[x].node, x, o)
        <5>1. CASE x \in ids
          <6>1. block.slot[x].node = pc
            BY <5>1
          <6>2. DeclaredAt(ast, pc, x, f)
            BY <2>1, <2>2, <4>4, <5>1 DEF DeclaredAt, Declares, OwnerOf
          <6> QED
            BY <4>5, <6>1, <6>2
        <5>2. CASE x \notin ids
          <6>1. block.slot[x] = Block1.slot[x]
            BY <5>2
          <6> HIDE DEF block
          <6> QED
            BY <4>3, <4>6, <6>1 DEF Standing, SlotPlaced
        <5> QED
          BY <5>1, <5>2
      <4> HIDE DEF block
      <4> QED
        BY <4>1, <4>6 DEF SlotPlaced, f
    <3> QED
      BY <3>1, <3>2
  <2> HIDE DEF next, block
  <2> QED
    BY <2>1, <2>2, <2>3, <2>5, <2>6, StepPlaced
<1> QED
  BY <1>1, <1>2

LEMMA ReturnPlaced ==
  ASSUME GenNow, GenPlaced, CompileReturn, UNCHANGED vars
  PROVE  GenPlaced'
<1>1. Emitting /\ pc \in DOMAIN ast /\ Node1.op \in Statements
  BY DEF CompileReturn, Compiling, Statements
<1>2. CASE Break
  BY <1>2 DEF Break, GenPlaced
<1>3. CASE ~Break
  <2>1. PICK next \in pc + 1 .. Len(ast) :
          /\ \A k \in pc + 1 .. next - 1 : ast[k].op # "end"
          /\ pc' = next
    BY <1>3 DEF CompileReturn
  <2>2. lfuns' = lfuns /\ blocks' = blocks
    BY <1>3 DEF CompileReturn, CompileStatement
  <2>3. /\ pc \in 1 .. Len(ast) /\ pc \in Nat /\ pc > 1 /\ Node1 = ast[pc] /\ FunsMade(lfuns, pc)
    BY <1>1, BeforeNode DEF Statements
  <2>4. Len(ast) \in Nat /\ ast \in Seq(Node)
    BY LenProperties DEF GenNow, HInv, IInv, TypeOK
  <2>5. next \in Nat /\ pc < next /\ pc <= next /\ next - 1 \in pc .. Len(ast)
    BY <2>3, <2>4
  <2>6. FunsMade(lfuns, next)
    BY <2>3, <2>5, FunsStay
  <2>7. \A h : History(ast, h) => Unmoved(h[pc - 1], h[next - 1])
    <3> SUFFICES ASSUME NEW h, History(ast, h) PROVE Unmoved(h[pc - 1], h[next - 1])
      OBVIOUS
    <3> DEFINE q == next - 1
    <3>1. q \in pc .. Len(ast) /\ \A k \in pc + 1 .. q : ast[k].op # "end"
      BY <2>1, <2>5
    <3> HIDE DEF q
    <3>2. Unmoved(h[pc - 1], h[q])
      BY <1>1, <2>3, <2>4, <3>1, UnmovedUpToTheEnd
    <3> QED
      BY <3>2 DEF q
  <2> QED
    BY <1>1, <2>1, <2>2, <2>5, <2>6, <2>7, StepPlaced
<1> QED
  BY <1>2, <1>3

LEMMA EndPlaced ==
  ASSUME GenNow, GenPlaced, NEW isMain, CompileEnd(isMain), UNCHANGED vars
  PROVE  GenPlaced'
<1> DEFINE next == pc + 1
<1>1. /\ Emitting /\ pc \in DOMAIN ast /\ Node1.op = "end" /\ lfuns' = lfuns /\ pc' = next
      /\ blocks' = SubSeq(blocks, 1, Len(blocks) - 1)
  BY DEF CompileEnd, Compiling, Advance
<1>2. /\ pc \in 1 .. Len(ast) /\ pc \in Nat /\ next \in Nat /\ next > 1 /\ next - 1 = pc
      /\ pc > 1 /\ pc <= next /\ Node1 = ast[pc] /\ FunsMade(lfuns, pc) /\ blocks \in Seq(Block)
      /\ \A h, ar : History(ast, h) /\ Whole(ar) => BlocksStand(h[pc - 1], pc, blocks, ar)
  BY <1>1, BeforeNode
<1>3. FunsMade(lfuns, next)
  <2> HIDE DEF next
  <2> QED
    BY <1>2, FunsStay
<1>4. ASSUME NEW h, NEW ar, History(ast, h), Whole(ar)
      PROVE  BlocksStand(h[next - 1], next, blocks', ar)
  <2> DEFINE a == h[pc - 1]
             b == h[pc]
  <2>1. Moves(Node1, a, b) /\ a \in Moment
    BY <1>2, <1>4, HistoryAt DEF GenNow, HInv, IInv, TypeOK
  <2>2. BlocksStand(a, pc, blocks, ar)
    BY <1>2, <1>4
  <2> HIDE DEF a, b
  <2>3. Closes(a, b)
    BY <1>1, <2>1, EndCloses
  <2>4. BlocksStand(b, pc + 1, SubSeq(blocks, 1, Len(blocks) - 1), ar)
    BY <1>2, <2>2, <2>3, CloseStands
  <2>5. h[next - 1] = b
    BY <1>2 DEF b
  <2> QED
    BY <1>1, <2>4, <2>5
<1> HIDE DEF next
<1> QED
  BY <1>1, <1>2, <1>3, <1>4, GoesOnPlaced

LEMMA GeneratePlaced ==
  ASSUME GenNow, GenPlaced, Generate, UNCHANGED vars
  PROVE  GenPlaced'
<1>1. CASE Write
  <2>1. emit' # "emitting"
    BY <1>1 DEF Write, Break
  <2> QED
    BY <2>1 DEF GenPlaced
<1> QED
  BY <1>1, DeclarationPlaced, DefinitionPlaced, VarListPlaced, StatementsPlaced, ReturnPlaced,
    EndPlaced DEF Generate

\* Before its first node, the generator has the functions of the library.
OnlyLibrary(lf) ==
  DOMAIN lf = DOMAIN Library /\ Len(lf) = Len(Library) /\ \A i \in DOMAIN lf : lf[i] = LibraryFun(i)

LEMMA GenInitLibrary ==
  ASSUME GenInit
  PROVE  OnlyLibrary(lfuns) /\ blocks = <<>>
<1>1. /\ DOMAIN lfuns = DOMAIN Library /\ blocks = <<>>
      /\ \A i \in DOMAIN lfuns : lfuns[i] = LibraryFun(i)
  BY DEF GenInit, LibraryFun
<1>2. Len(lfuns) = Len(Library)
  <2>1. lfuns = [i \in 1 .. Len(Library) |-> lfuns[i]]
    BY LibraryLength DEF GenInit
  <2>2. Len(lfuns) = Len([i \in 1 .. Len(Library) |-> lfuns[i]])
    BY <2>1
  <2> DEFINE n == Len(Library)
  <2>3. n \in Nat
    BY LibraryLength
  <2> HIDE DEF n
  <2>4. Len([i \in 1 .. n |-> lfuns[i]]) = n
    BY <2>3
  <2> QED
    BY <2>2, <2>4 DEF n
<1> QED
  BY <1>1, <1>2 DEF OnlyLibrary

LEMMA FinishedStays ==
  ASSUME outcome = "accepted", [Next]_vars
  PROVE  UNCHANGED vars
<1>1. ~Walking
  BY DEF Walking
<1>2. Finished \/ UNCHANGED vars
  BY <1>1 DEF Next, DefineFresh, DefineDeclared, RejectDefinition, CanDefine, Declare,
    VarDefinition, InDefs, InBody, Assign, Call, Return, Condition, Exit, Skip, LeaveInner,
    LeaveProgram
<1> QED
  BY <1>2 DEF Finished

LEMMA PassPlaced ==
  ASSUME GenInv, GenPlaced, [Next]_vars, UNCHANGED cgvars
  PROVE  GenPlaced'
<1>1. UNCHANGED <<pc, at, rscopes, blocks, lfuns, emit>>
  BY DEF cgvars
<1>2. CASE UNCHANGED vars
  <2>1. outcome' = outcome /\ ast' = ast /\ ftypes' = ftypes
    BY <1>2 DEF vars
  <2>2. FunsMade(lfuns, pc) => FunsMade(lfuns, pc)'
    BY <1>1, <2>1 DEF FunsMade, MadeAt, NodeParams, CapturesOf
  <2>3. GenInit => GenInit'
    BY <1>1 DEF GenInit
  <2>4. \A ar : Whole(ar)' => Whole(ar)
    BY <2>1 DEF Whole
  <2>5. \A m, ar : BlocksStand(m, pc, blocks, ar) => BlocksStand(m, pc, blocks, ar)'
    BY <1>1, <2>1 DEF BlocksStand, Standing, SlotPlaced
  <2> QED
    BY <1>1, <2>1, <2>2, <2>3, <2>4, <2>5 DEF GenPlaced
<1>3. CASE ~UNCHANGED vars
  <2>1. outcome # "accepted"
    BY <1>3, FinishedStays
  <2>2. pc = 1 /\ GenInit
    BY <2>1 DEF GenInv, GenPlaced
  <2>3. GenInit' /\ pc' = 1
    BY <1>1, <2>2 DEF GenInit
  <2>4. OnlyLibrary(lfuns) /\ blocks = <<>>
    BY <2>2, GenInitLibrary
  <2>5. FunsMade(lfuns, pc)'
    BY <1>1, <2>3, <2>4 DEF FunsMade, OnlyLibrary
  <2>6. ASSUME NEW h, History(ast', h), NEW ar PROVE BlocksStand(h[pc - 1], pc, blocks, ar)'
    <3>1. h[pc' - 1] = Start
      BY <2>3, <2>6 DEF History
    <3>2. Len(Start.scopes) = 2 /\ Len(Start.walk) = 0 /\ Len(blocks') = 0 /\ 1 .. 0 = {}
      BY <1>1, <2>4 DEF Start
    <3> QED
      BY <3>1, <3>2 DEF BlocksStand
  <2> QED
    BY <2>3, <2>5, <2>6 DEF GenPlaced
<1> QED
  BY <1>2, <1>3

LEMMA GenStartPlaced ==
  ASSUME CompilerInit
  PROVE  GenPlaced
<1>1. outcome = "walking" /\ pc = 1 /\ GenInit
  BY DEF CompilerInit, Init, GenInit
<1>2. FunsMade(lfuns, pc)
  BY <1>1, GenInitLibrary DEF FunsMade, OnlyLibrary
<1> QED
  BY <1>1, <1>2 DEF GenPlaced

-----------------------------------------------------------------------------
(* The whole compiler.                                                       *)

CodeInv == PlacesInv /\ LibraryInv /\ GenNow /\ GenPlaced

LEMMA InitCode ==
  ASSUME CompilerInit
  PROVE  CodeInv
<1>1. Init
  BY DEF CompilerInit
<1> QED
  BY <1>1, InitInv, InitTape, InitHistory, InitPlaces, InitLibrary, GenInitInv, GenStartPlaced
  DEF CodeInv, GenNow, TapeNow, HInv

LEMMA NextCode ==
  ASSUME CodeInv, [CompilerNext]_allvars
  PROVE  CodeInv'
<1>1. [Next]_vars /\ (UNCHANGED cgvars \/ (Generate /\ UNCHANGED vars))
  BY DEF CompilerNext, allvars
<1>2. HInv /\ TapeNow /\ IInv /\ TypeOK /\ PlacesInv /\ LibraryInv /\ GenInv /\ GenPlaced /\ GenNow
  BY DEF CodeInv, GenNow, TapeNow, IInv
<1>3. HInv' /\ PlacesInv' /\ LibraryInv'
  BY <1>1, <1>2, NextHistory, NextPlaces, NextLibrary
<1>4. TapeNow'
  BY <1>1, <1>2, NextInv, NextTape DEF TapeNow
<1>5. GenInv'
  BY <1>1, <1>2, <1>3, PassKeeps, GenerateKeeps
<1>6. GenPlaced'
  BY <1>1, <1>2, PassPlaced, GeneratePlaced
<1> QED
  BY <1>3, <1>4, <1>5, <1>6 DEF CodeInv, GenNow

\* Functions and blocks of the generator, in every reachable state, come from
\* the nodes it has seen, and their variables from functions around them.
THEOREM CodePlacement == CompilerSpec => []CodeInv
<1> QED
  BY InitCode, NextCode, PTL DEF CompilerSpec

\* What surrounds the functions of an accepted program, and the current block.
LEMMA CurrentBlock ==
  ASSUME CodeInv, Emitting, pc \in DOMAIN ast, Node1.op \in Using \cup {"var"}
  PROVE  /\ \E ar : Whole(ar) /\ Standing(Block1, Node1.by, pc, ar)
         /\ Len(blocks) > 0 /\ Block1 \in Block
<1>1. PICK ar : Places(ar)
  BY DEF CodeInv, PlacesInv
<1>2. scopes = <<>>
  BY DEF CodeInv, LibraryInv, Emitting
<1>3. Whole(ar)
  BY <1>1, <1>2 DEF Places, Whole
<1>4. PICK h : History(ast, h)
  BY AtNode DEF CodeInv, GenNow
<1> DEFINE a == h[pc - 1]
           L == Len(blocks)
<1>5. /\ a \in Moment /\ Node1 \in Node /\ Moves(Node1, a, h[pc]) /\ Len(a.scopes) = Len(a.walk) + 2
      /\ Node1.by = Inner(a)
  BY <1>4, MomentBefore DEF CodeInv
<1>6. BlocksStand(a, pc, blocks, ar) /\ blocks \in Seq(Block) /\ L \in Nat
  BY <1>3, <1>4, BeforeNode DEF CodeInv
<1>7. a.walk # <<>> /\ a.walk \in Seq({"defs", "body"})
  BY <1>5 DEF Moves, At, Using, Statements, Moment
<1>8. L = Len(a.walk) /\ L > 0
  BY <1>6, <1>7, EmptySeq DEF BlocksStand
<1>9. L \in 1 .. L /\ FunOf(a, L) = Node1.by
  BY <1>5, <1>6, <1>8 DEF FunOf, Inner
<1>10. Standing(Block1, Node1.by, pc, ar)
  BY <1>6, <1>9 DEF BlocksStand, Block1
<1>11. Block1 \in Block
  BY <1>6, <1>9, ElementOfSeq DEF Block1
<1> QED
  BY <1>3, <1>8, <1>10, <1>11

\* A variable of a function around the current one is what the name's slot
\* stands for, if the name has one.
LEMMA SlotOfName ==
  ASSUME IInv, NoShadowing, NEW ar, Whole(ar), NEW f, NEW p, Standing(Block1, f, p, ar),
         NEW x \in VarNames, Block1.slot[x] # None, NEW v, NEW o \in ar[f], IsVariable(ast, v, x, o)
  PROVE  Block1.slot[x].node = v.node
<1>1. f \in DOMAIN ftypes
  BY DEF Standing
<1>2. PICK g \in ar[f] : DeclaredAt(ast, Block1.slot[x].node, x, g)
  BY DEF Standing, SlotPlaced
<1> DEFINE n == Block1.slot[x].node
           l == v.node
<1>3. DeclaredAt(ast, l, x, o) /\ DeclaredAt(ast, n, x, g)
  BY <1>2, VariableIsDeclared
<1> HIDE DEF n, l
<1>4. n = l
  BY <1>1, <1>3, OneDeclaration
<1> QED
  BY <1>4 DEF n, l

LEMMA UsesLexically ==
  ASSUME CodeInv, NoShadowing, Compiling("assign") \/ Compiling("condition") \/ Compiling("return"),
         NEW x \in Keys(Node1.binds), Addressable(x)
  PROVE  Block1.slot[x].node = Node1.binds[x].node
<1>1. Emitting /\ pc \in DOMAIN ast /\ Node1.op \in {"assign", "condition", "return"}
  BY DEF Compiling
<1>2. PICK ar : Whole(ar) /\ Standing(Block1, Node1.by, pc, ar)
  BY <1>1, CurrentBlock DEF Using
<1>3. pc \in 1 .. Len(ast) /\ Node1 = ast[pc] /\ IInv
  BY <1>1, BeforeNode DEF CodeInv, GenNow, HInv
<1>4. Node1 \in Node
  BY <1>3, ElementOfSeq DEF IInv, TypeOK
<1>5. Node1.binds \in VarMap
  BY <1>1, <1>4 DEF Node
<1>6. x \in VarNames /\ Node1.binds[x] # None
  BY <1>5 DEF Keys, VarMap
<1>7. PICK o \in ar[Node1.by] : IsVariable(ast, Node1.binds[x], x, o)
  BY <1>1, <1>2, <1>3, <1>6 DEF Whole, Placed, UsesFit, UseFits, KnownAt, Using
<1>8. Block1.slot[x] # None
  BY DEF Addressable
<1> DEFINE f == Node1.by
           v == Node1.binds[x]
<1>9. o \in ar[f] /\ IsVariable(ast, v, x, o) /\ Standing(Block1, f, pc, ar)
  BY <1>2, <1>7
<1> HIDE DEF f, v
<1>10. Block1.slot[x].node = v.node
  BY <1>2, <1>3, <1>6, <1>8, <1>9, SlotOfName
<1> QED
  BY <1>10 DEF v

-----------------------------------------------------------------------------
(* Calls.                                                                    *)

LEMMA JoinedTuples ==
  ASSUME NEW m \in Nat, NEW n \in Nat, NEW a, NEW b,
         a = [i \in 1 .. m |-> a[i]], b = [i \in 1 .. n |-> b[i]]
  PROVE  /\ Len(a \o b) = m + n /\ DOMAIN (a \o b) = 1 .. m + n
         /\ \A i \in 1 .. m : (a \o b)[i] = a[i]
         /\ \A j \in 1 .. n : (a \o b)[m + j] = b[j]
<1> DEFINE S == {a[i] : i \in 1 .. m} \cup {b[j] : j \in 1 .. n}
<1>1. a \in [1 .. m -> S] /\ b \in [1 .. n -> S]
  OBVIOUS
<1> HIDE DEF S
<1>2. a \in Seq(S) /\ b \in Seq(S)
  BY <1>1, SeqDef
<1>3. Len(a) = m /\ Len(b) = n
  BY <1>1, <1>2, LenProperties
<1>4. a \o b \in Seq(S) /\ Len(a \o b) = m + n /\ DOMAIN (a \o b) = 1 .. m + n
  BY <1>2, <1>3, ConcatProperties, LenProperties
<1>5. ASSUME NEW i \in 1 .. m PROVE (a \o b)[i] = a[i]
  <2>1. i \in 1 .. Len(a) + Len(b) /\ i <= Len(a)
    BY <1>3
  <2> QED
    BY <1>2, <2>1, ConcatProperties
<1>6. ASSUME NEW j \in 1 .. n PROVE (a \o b)[m + j] = b[j]
  <2>1. m + j \in 1 .. Len(a) + Len(b) /\ ~(m + j <= Len(a)) /\ (m + j) - Len(a) = j
    BY <1>3
  <2> QED
    BY <1>2, <2>1, ConcatProperties
<1> QED
  BY <1>4, <1>5, <1>6

\* What the callee captures, in the order of the map.
AllCaptures(f) == CapturedNames(ftypes[f].prev, {})

LEMMA OperandsAre ==
  ASSUME Node1.args \in Seq(Operands)
  PROVE  LET ops == CallOperands(Node1)
             A   == Len(Node1.args)
             cap == AllCaptures(Node1.fun)
         IN /\ A \in Nat /\ cap \in Seq(VarNames) /\ Len(cap) \in Nat
            /\ Len(ops) = A + Len(cap) /\ DOMAIN ops = 1 .. A + Len(cap)
            /\ \A i \in 1 .. A : ops[i] = ArgumentOperand(Node1.args[i], ftypes[Node1.fun].args[i])
            /\ \A j \in 1 .. Len(cap) : ops[A + j] = CaptureOperand(cap[j])
            /\ \A j \in 1 .. Len(cap) : ftypes[Node1.fun].prev[cap[j]] # None
<1> DEFINE args == Node1.args
           A == Len(args)
           m == ftypes[Node1.fun].prev
           none == {}
           cap == CapturedNames(m, none)
           a == [i \in DOMAIN args |-> ArgumentOperand(args[i], ftypes[Node1.fun].args[i])]
           b == [j \in DOMAIN cap |-> CaptureOperand(cap[j])]
           C == Len(cap)
<1>1. A \in Nat /\ DOMAIN args = 1 .. A
  BY LenProperties
<1>2. CallOperands(Node1) = a \o b /\ AllCaptures(Node1.fun) = cap
  BY DEF CallOperands, AllCaptures
<1> HIDE DEF none
<1>3. cap \in Seq(VarNames) /\ \A j \in 1 .. C : m[cap[j]] # None
  BY CapturedNamesProperties
<1> HIDE DEF cap
<1>4. C \in Nat /\ DOMAIN cap = 1 .. C
  BY <1>3, LenProperties
<1>5. /\ a = [i \in 1 .. A |-> a[i]] /\ b = [j \in 1 .. C |-> b[j]]
      /\ \A i \in 1 .. A : a[i] = ArgumentOperand(args[i], ftypes[Node1.fun].args[i])
      /\ \A j \in 1 .. C : b[j] = CaptureOperand(cap[j])
  BY <1>1, <1>4
<1> HIDE DEF a, b, A, C
<1>6. /\ Len(a \o b) = A + C /\ DOMAIN (a \o b) = 1 .. A + C
      /\ \A i \in 1 .. A : (a \o b)[i] = a[i]
      /\ \A j \in 1 .. C : (a \o b)[A + j] = b[j]
  BY <1>1, <1>4, <1>5, JoinedTuples
<1> QED
  BY <1>1, <1>2, <1>3, <1>4, <1>5, <1>6 DEF A, C

LEMMA CallNode ==
  ASSUME CodeInv, Compiling("call")
  PROVE  /\ Emitting /\ pc \in DOMAIN ast /\ pc \in 1 .. Len(ast) /\ Node1 = ast[pc] /\ Node1.op = "call"
         /\ Node1 \in Node /\ Node1.args \in Seq(Operands) /\ Node1.binds \in VarMap
         /\ \A ar : Whole(ar) => /\ CallFits(ast, ftypes, ar, Node1, pc)
                                 /\ UseFits(ast, ftypes, ar, Node1, pc)
<1>1. Emitting /\ pc \in DOMAIN ast /\ Node1.op = "call"
  BY DEF Compiling
<1>2. pc \in 1 .. Len(ast) /\ Node1 = ast[pc] /\ IInv
  BY <1>1, BeforeNode DEF CodeInv, GenNow, HInv
<1>3. Node1 \in Node
  BY <1>2, ElementOfSeq DEF IInv, TypeOK
<1>4. Node1.args \in Seq(Operands) /\ Node1.binds \in VarMap
  BY <1>1, <1>3 DEF Node
<1>5. \A ar : Whole(ar) => /\ CallFits(ast, ftypes, ar, Node1, pc)
                           /\ UseFits(ast, ftypes, ar, Node1, pc)
  BY <1>1, <1>2 DEF Whole, Placed, CallsFit, UsesFit, Using
<1> QED
  BY <1>1, <1>2, <1>3, <1>4, <1>5

\* The function that is called was created for the library or at a node.
LEMMA CalleeMade ==
  ASSUME CodeInv, Compiling("call"), NEW callee, callee = lfuns[GetFun(Node1.name)]
  PROVE  \/ /\ Node1.fun \in DOMAIN Library /\ callee = LibraryFun(Node1.fun)
            /\ ftypes[Node1.fun].args = Library[Node1.fun].args
         \/ \E n \in 1 .. pc - 1 : MadeAt(callee, n) /\ ast[n].fun = Node1.fun
<1>1. GetFun(Node1.name) \in DOMAIN lfuns /\ callee.fun = Node1.fun
  BY CalleeFound DEF CodeInv, GenNow
<1>2. FunsMade(lfuns, pc)
  BY CallNode, BeforeNode DEF CodeInv
<1>3. CASE \E i \in DOMAIN Library : callee = LibraryFun(i)
  <2>1. PICK i \in DOMAIN Library : callee = LibraryFun(i)
    BY <1>3
  <2>2. i = Node1.fun
    BY <1>1, <2>1 DEF LibraryFun
  <2>3. LibraryKept(ast, ftypes)
    BY CallNode DEF CodeInv, LibraryInv, Emitting
  <2> QED
    BY <2>1, <2>2, <2>3 DEF LibraryKept
<1>4. CASE \E n \in 1 .. pc - 1 : MadeAt(callee, n)
  BY <1>1, <1>4 DEF MadeAt
<1> QED
  BY <1>1, <1>2, <1>3, <1>4 DEF FunsMade

\* What a callee captures is a variable of a function around the caller.
LEMMA CaptureAround ==
  ASSUME CodeInv, Compiling("call"), NEW ar, Whole(ar), NEW x \in VarNames,
         ftypes[Node1.fun].prev[x] # None
  PROVE  \E o \in ar[Node1.by] : IsVariable(ast, ftypes[Node1.fun].prev[x], x, o)
<1>1. Node1.fun \in DOMAIN ftypes /\ ar[Node1.fun] \ {Node1.fun} \subseteq ar[Node1.by]
  BY CallNode DEF CallFits
<1>2. \E o \in ar[Node1.fun] \ {Node1.fun} : IsVariable(ast, ftypes[Node1.fun].prev[x], x, o)
  BY <1>1 DEF Whole, Placed, CapturesAround
<1> QED
  BY <1>1, <1>2

\* The header of a function's node has as many formals as its type arguments.
LEMMA FormalsOfType ==
  ASSUME NEW ar, Whole(ar), NEW n \in 1 .. Len(ast), ast[n].op \in {"declare", "define"},
         ast[n].header \in Headers
  PROVE  Len(ftypes[ast[n].fun].args) = Len(ast[n].header.formals)
<1>1. HeaderFits(ast, ftypes, ast[n], n)
  BY DEF Whole, Placed, HeadersFit
<1> QED
  BY <1>1, ArgsLength DEF HeaderFits

\* The parameters that take captured variables are those of all captures.
LEMMA CapturedParameters ==
  ASSUME CodeInv, Compiling("call"), NEW ar, Whole(ar), NEW n \in 1 .. Len(ast),
         ast[n].op \in {"declare", "define"}, ast[n].fun = Node1.fun,
         Len(NodeParams(n)) = Len(Node1.args) + Len(AllCaptures(Node1.fun)),
         NEW j \in 1 .. Len(AllCaptures(Node1.fun))
  PROVE  LET x == AllCaptures(Node1.fun)[j] IN
         /\ NodeParams(n)[Len(Node1.args) + j].node = ftypes[Node1.fun].prev[x].node
         /\ NodeParams(n)[Len(Node1.args) + j].t = ftypes[Node1.fun].prev[x].t
         /\ NodeParams(n)[Len(Node1.args) + j].level = 1
<1> DEFINE f == Node1.fun
           m == ftypes[f].prev
           h == ast[n].header
           skip == FormalNames(h)
           none == {}
           few == CapturedNames(m, skip)
           cap == CapturedNames(m, none)
           p == NodeParams(n)
           args == HeaderArgs(ast[n])
           A == Len(Node1.args)
<1>1. /\ HInv /\ h \in Headers
      /\ ParamsAre(p, h, args, n, m, few) /\ AllCaptures(f) = cap
  BY HeaderOf, NodeParamsAre DEF CodeInv, GenNow, CapturesOf, CaptureList, AllCaptures
<1>2. Len(h.formals) = A
  <2>1. Len(ftypes[f].args) = Len(h.formals)
    BY <1>1, FormalsOfType
  <2> QED
    BY <2>1, CallNode DEF CallFits
<1>3. A \in Nat
  BY CallNode, LenProperties
<1>4. j \in 1 .. Len(cap) /\ Len(p) = A + Len(cap)
  BY <1>1
<1> HIDE DEF p, args, m, skip, f, h, A
<1>5. few \in Seq(VarNames) /\ cap \in Seq(VarNames) /\ (Len(few) = Len(cap) => few = cap)
  BY FewerNames
<1> HIDE DEF none, few, cap
<1>6. Len(few) \in Nat /\ Len(cap) \in Nat
  BY <1>5, LenProperties
<1>7. few = cap
  BY <1>1, <1>2, <1>3, <1>4, <1>5, <1>6 DEF ParamsAre
<1>8. p[A + j] = [name |-> cap[j], node |-> m[cap[j]].node, t |-> m[cap[j]].t, level |-> 1]
  BY <1>1, <1>2, <1>4, <1>7 DEF ParamsAre
<1>9. p[A + j].node = m[cap[j]].node /\ p[A + j].t = m[cap[j]].t /\ p[A + j].level = 1
  BY <1>8
<1> QED
  BY <1>1, <1>9 DEF p, A, m, f

LEMMA CallsLexically ==
  ASSUME CodeInv, NoShadowing, Compiling("call"), CallIsSupplied,
         NEW callee, callee = lfuns[GetFun(Node1.name)],
         Matches(CallOperands(Node1), callee.params),
         NEW i \in Len(Node1.args) + 1 .. Len(CallOperands(Node1))
  PROVE  CallOperands(Node1)[i].node = callee.params[i].node
<1> DEFINE A == Len(Node1.args)
           cap == AllCaptures(Node1.fun)
           ops == CallOperands(Node1)
           j == i - A
           x == cap[j]
           v == ftypes[Node1.fun].prev[x]
<1>1. /\ A \in Nat /\ cap \in Seq(VarNames) /\ Len(cap) \in Nat /\ Len(ops) = A + Len(cap)
      /\ \A k \in 1 .. Len(cap) : ops[A + k] = CaptureOperand(cap[k])
      /\ \A k \in 1 .. Len(cap) : ftypes[Node1.fun].prev[cap[k]] # None
  BY CallNode, OperandsAre
<1> HIDE DEF A, cap, ops
<1>2. j \in 1 .. Len(cap) /\ A + j = i
  BY <1>1 DEF A, ops
<1> HIDE DEF j
<1>3. x \in VarNames /\ v # None
  BY <1>1, <1>2, ElementOfSeq
<1> HIDE DEF x
<1>4. ops[i].node = Block1.slot[x].node
  <2>1. ops[A + j] = CaptureOperand(cap[j])
    BY <1>1, <1>2
  <2>2. ops[i] = CaptureOperand(x)
    BY <1>2, <2>1 DEF x
  <2> QED
    BY <2>2 DEF CaptureOperand
<1>5. IInv /\ Emitting /\ pc \in DOMAIN ast /\ Node1.op = "call"
  BY CallNode DEF CodeInv, GenNow, HInv
<1>6. PICK ar : Whole(ar) /\ Standing(Block1, Node1.by, pc, ar)
  BY <1>5, CurrentBlock DEF Using
<1>7. Block1.slot[x] # None
  <2>1. Node1.fun \in DOMAIN ftypes
    BY <1>6, CallNode DEF CallFits
  <2>2. ftypes[Node1.fun] \in FType
    BY <1>5, <2>1, LenProperties, ElementOfSeq DEF IInv, TypeOK
  <2>3. x \in Keys(ftypes[Node1.fun].prev)
    BY <1>3, <2>2 DEF Keys, FType, VarMap
  <2> QED
    BY <2>3 DEF CallIsSupplied, Addressable
<1>8. PICK o \in ar[Node1.by] : IsVariable(ast, v, x, o)
  BY <1>3, <1>6, CaptureAround
<1>9. Block1.slot[x].node = v.node
  <2> DEFINE f == Node1.by
  <2>1. Standing(Block1, f, pc, ar) /\ o \in ar[f]
    BY <1>6, <1>8
  <2> HIDE DEF f, v
  <2> QED
    BY <1>3, <1>5, <1>6, <1>7, <1>8, <2>1, SlotOfName
<1>10. callee.params[i].node = v.node
  <2>1. Len(callee.params) = A + Len(cap)
    BY <1>1 DEF Matches, ops
  <2>2. CASE Node1.fun \in DOMAIN Library /\ callee = LibraryFun(Node1.fun)
             /\ ftypes[Node1.fun].args = Library[Node1.fun].args
    <3> DEFINE largs == Library[Node1.fun].args
    <3>1. largs \in Seq(Arg)
      <4> DEFINE S == [name : FunNames, ret : RetTypes, args : Seq(Arg)]
      <4>1. Library \in Seq(S) /\ Node1.fun \in 1 .. Len(Library)
        BY <2>2, GrammarAssumption, LibraryLength
      <4> HIDE DEF S
      <4>2. Library[Node1.fun] \in S
        BY <4>1, ElementOfSeq
      <4> QED
        BY <4>2 DEF S
    <3>2. Len(largs) = A
      BY <1>6, <2>2, CallNode DEF CallFits, A
    <3>3. Len(callee.params) = A
      <4>1. callee.params = [k \in DOMAIN largs |-> callee.params[k]]
        BY <2>2 DEF LibraryFun
      <4> DEFINE n == Len(largs)
      <4>2. n \in Nat /\ DOMAIN largs = 1 .. n
        BY <3>1, LenProperties
      <4> HIDE DEF largs, n
      <4>3. Len([k \in 1 .. n |-> callee.params[k]]) = n
        BY <4>2
      <4> QED
        BY <3>2, <4>1, <4>2, <4>3 DEF n
    <3> QED
      BY <1>1, <1>2, <2>1, <3>3
  <2>3. CASE \E n \in 1 .. pc - 1 : MadeAt(callee, n) /\ ast[n].fun = Node1.fun
    <3>1. PICK n \in 1 .. pc - 1 : MadeAt(callee, n) /\ ast[n].fun = Node1.fun
      BY <2>3
    <3>2. /\ n \in 1 .. Len(ast) /\ ast[n].op \in {"declare", "define"} /\ ast[n].fun = Node1.fun
          /\ callee.params = NodeParams(n)
      BY <3>1 DEF MadeAt
    <3>3. NodeParams(n)[Len(Node1.args) + j].node
            = ftypes[Node1.fun].prev[AllCaptures(Node1.fun)[j]].node
      BY <1>2, <1>6, <2>1, <3>2, CapturedParameters DEF cap, A
    <3> QED
      BY <1>2, <3>2, <3>3 DEF A, x, cap
  <2> QED
    BY <2>2, <2>3, CalleeMade
<1> QED
  BY <1>4, <1>9, <1>10 DEF ops

\* Without shadowing, every name at every node of every program stands for the
\* variable the semantic pass resolved it to, and every callee receives the very
\* variables it captured (llvm/ast.cpp:783-793).
THEOREM LexicalScoping == CompilerSpec => []LexicalWithoutShadowing
<1>1. CodeInv => LexicalWithoutShadowing
  <2> SUFFICES ASSUME CodeInv, NoShadowing PROVE BindsLexically
    BY DEF LexicalWithoutShadowing
  <2>1. Compiling("assign") \/ Compiling("condition") \/ Compiling("return") =>
          \A x \in Keys(Node1.binds) :
            Addressable(x) => Block1.slot[x].node = Node1.binds[x].node
    BY UsesLexically
  <2>2. Compiling("call") /\ CallIsSupplied
          /\ Matches(CallOperands(Node1), lfuns[GetFun(Node1.name)].params) =>
        \A i \in Len(Node1.args) + 1 .. Len(CallOperands(Node1)) :
          CallOperands(Node1)[i].node = lfuns[GetFun(Node1.name)].params[i].node
    BY CallsLexically
  <2> QED
    BY <2>1, <2>2 DEF BindsLexically
<1> QED
  BY <1>1, CodePlacement, PTL

-----------------------------------------------------------------------------
(* No captured name is left out.                                             *)

HasNames(m, skip, s, n) ==
  /\ s \in Seq(VarNames)
  /\ \A k \in 1 .. n : m[NameOrder[k]] # None /\ NameOrder[k] \notin skip =>
       \E i \in 1 .. Len(s) : s[i] = NameOrder[k]

LEMMA HasOneMore ==
  ASSUME NEW m, NEW skip, NEW n \in 1 .. Len(NameOrder), NEW s, HasNames(m, skip, s, n - 1),
         NEW t, t = IF m[NameOrder[n]] # None /\ NameOrder[n] \notin skip
                    THEN Append(s, NameOrder[n]) ELSE s
  PROVE  HasNames(m, skip, t, n)
<1> DEFINE x == NameOrder[n]
<1>1. n \in Nat /\ \A k \in 1 .. n : k = n \/ k \in 1 .. n - 1
  OBVIOUS
<1>2. x \in VarNames
  BY NameOrderAssumption, ElementOfSeq
<1>3. s \in Seq(VarNames) /\ Len(s) \in Nat
  BY LenProperties DEF HasNames
<1>4. CASE t = Append(s, x)
  <2>1. /\ t \in Seq(VarNames) /\ Len(t) = Len(s) + 1 /\ t[Len(s) + 1] = x
        /\ \A i \in 1 .. Len(s) : t[i] = s[i]
    BY <1>2, <1>3, <1>4, AppendProperties
  <2>2. Len(s) + 1 \in 1 .. Len(t) /\ \A i \in 1 .. Len(s) : i \in 1 .. Len(t)
    BY <1>3, <2>1
  <2>3. ASSUME NEW k \in 1 .. n, m[NameOrder[k]] # None, NameOrder[k] \notin skip
        PROVE  \E i \in 1 .. Len(t) : t[i] = NameOrder[k]
    <3>1. CASE k = n
      BY <2>1, <2>2, <3>1
    <3>2. CASE k \in 1 .. n - 1
      <4>1. PICK i \in 1 .. Len(s) : s[i] = NameOrder[k]
        BY <2>3, <3>2 DEF HasNames
      <4> QED
        BY <2>1, <2>2, <4>1
    <3> QED
      BY <1>1, <3>1, <3>2
  <2> QED
    BY <2>1, <2>3 DEF HasNames
<1>5. CASE t = s /\ (m[x] = None \/ x \in skip)
  BY <1>1, <1>5 DEF HasNames
<1> QED
  BY <1>4, <1>5

\* Every captured name that does not stand in skip is listed.
LEMMA EveryNameListed ==
  ASSUME NEW m, NEW skip, NEW x \in VarNames, m[x] # None, x \notin skip
  PROVE  \E i \in 1 .. Len(CapturedNames(m, skip)) : CapturedNames(m, skip)[i] = x
<1> DEFINE N == Len(NameOrder)
           c == CapturedNames(m, skip)
<1>1. N \in Nat /\ DOMAIN NameOrder = 1 .. N
  BY NameOrderAssumption, LenProperties
<1>2. PICK f : (\A n \in 0 .. N : f[n] = Kept(m, skip, f, n)) /\ c = f[N]
  BY UpToExists
<1> DEFINE fails == {k \in 0 .. N : ~HasNames(m, skip, f[k], k)}
<1>3. 0 \notin fails
  <2>1. 0 \in 0 .. N
    BY <1>1
  <2>2. f[0] = <<>>
    BY <1>2, <2>1 DEF Kept
  <2>3. HasNames(m, skip, <<>>, 0)
    BY EmptySeq DEF HasNames
  <2> QED
    BY <2>2, <2>3
<1>4. fails = {}
  <2> SUFFICES ASSUME fails # {} PROVE FALSE
    OBVIOUS
  <2>1. fails \subseteq Nat
    BY <1>1
  <2>2. PICK k \in fails : \A j \in fails : k <= j
    <3> HIDE DEF fails
    <3> QED
      BY <2>1, LeastNumber
  <2>3. k \in 0 .. N /\ k # 0
    BY <1>3
  <2>4. k - 1 \in 0 .. N /\ ~(k <= k - 1) /\ k \in 1 .. N
    BY <1>1, <2>3
  <2>5. HasNames(m, skip, f[k - 1], k - 1)
    BY <2>2, <2>4
  <2>6. f[k] = IF m[NameOrder[k]] # None /\ NameOrder[k] \notin skip
               THEN Append(f[k - 1], NameOrder[k]) ELSE f[k - 1]
    BY <1>2, <2>3 DEF Kept
  <2>7. HasNames(m, skip, f[k], k)
    BY <2>4, <2>5, <2>6, HasOneMore
  <2> QED
    BY <2>7
<1>5. N \in 0 .. N
  BY <1>1
<1>6. HasNames(m, skip, c, N)
  BY <1>2, <1>4, <1>5
<1>7. PICK k \in 1 .. N : NameOrder[k] = x
  BY <1>1, NameOrderAssumption
<1> HIDE DEF c
<1> QED
  BY <1>6, <1>7 DEF HasNames, c

-----------------------------------------------------------------------------
(* Slots that fit what they stand for.                                       *)

\* The name x of block b has the address of a variable like v.
SlotFits(b, x, v) ==
  b.slot[x] # None /\ b.slot[x].t = v.t /\ b.slot[x].level = IF x \in b.ref THEN 1 ELSE 0

\* b has a slot for what f has declared before node p, and for its captures.
BlockFits(b, f, p) ==
  \A x \in VarNames :
    /\ \A n : DeclaredAt(ast, n, x, f) /\ n < p => SlotFits(b, x, AsDeclared(ast[n], n, x))
    /\ ftypes[f].prev[x] # None => SlotFits(b, x, ftypes[f].prev[x])

BlocksFit(m, p, bs) == \A k \in 1 .. Len(bs) : BlockFits(bs[k], FunOf(m, k), p)

LEMMA FitsLater ==
  ASSUME NEW f, NEW b, NEW p \in Nat, NEW q \in Nat, BlockFits(b, f, p),
         \A k \in p .. q - 1 : ast[k].op \in Declaring => OwnerOf(ast[k]) # f
  PROVE  BlockFits(b, f, q)
<1> SUFFICES ASSUME NEW x \in VarNames, NEW n, DeclaredAt(ast, n, x, f), n < q
             PROVE  SlotFits(b, x, AsDeclared(ast[n], n, x))
  BY DEF BlockFits
<1>1. n \in Nat /\ ast[n].op \in Declaring /\ OwnerOf(ast[n]) = f
  BY DeclaresIsDeclaring DEF DeclaredAt
<1>2. n < p
  BY <1>1
<1> QED
  BY <1>2 DEF BlockFits

\* A name that f knows at node p has a slot that fits.
LEMMA NameFits ==
  ASSUME IInv, NoShadowing, NEW ar, Whole(ar), NEW b, NEW f \in DOMAIN ftypes, NEW p, BlockFits(b, f, p),
         NEW x \in VarNames, NEW v, NEW o \in ar[f], KnownAt(ast, ftypes, f, p, v, x, o)
  PROVE  SlotFits(b, x, v)
<1>1. DeclaredAt(ast, v.node, x, o) /\ v = AsDeclared(ast[v.node], v.node, x)
  BY VariableIsDeclared DEF KnownAt
<1>2. CASE o = f
  <2>1. v.node < p
    BY <1>2 DEF KnownAt
  <2> DEFINE n == v.node
  <2>2. DeclaredAt(ast, n, x, f) /\ n < p /\ v = AsDeclared(ast[n], n, x)
    BY <1>1, <1>2, <2>1
  <2> HIDE DEF n
  <2> QED
    BY <2>2 DEF BlockFits
<1>3. CASE o # f
  <2> DEFINE w == ftypes[f].prev[x]
  <2>1. w # None
    BY <1>3 DEF KnownAt
  <2>2. SlotFits(b, x, w)
    BY <2>1 DEF BlockFits
  <2>3. PICK g \in ar[f] : IsVariable(ast, w, x, g)
    BY <2>1 DEF Whole, Placed, CapturesAround
  <2> HIDE DEF w
  <2>4. DeclaredAt(ast, w.node, x, g) /\ w = AsDeclared(ast[w.node], w.node, x)
    BY <2>3, VariableIsDeclared
  <2>5. w.node = v.node
    <3> DEFINE n == w.node
               l == v.node
    <3>1. DeclaredAt(ast, n, x, g) /\ DeclaredAt(ast, l, x, o)
      BY <1>1, <2>4
    <3> HIDE DEF n, l
    <3>2. n = l
      BY <3>1, OneDeclaration
    <3> QED
      BY <3>2 DEF n, l
  <2> QED
    BY <1>1, <2>2, <2>4, <2>5
<1> QED
  BY <1>2, <1>3

\* Variables of one name that f knows are one variable.
LEMMA OneVariable ==
  ASSUME IInv, NoShadowing, NEW ar, Whole(ar), NEW f \in DOMAIN ftypes, NEW x, NEW v, NEW w,
         NEW o \in ar[f], NEW g \in ar[f], IsVariable(ast, v, x, o), IsVariable(ast, w, x, g)
  PROVE  v = w
<1> DEFINE n == v.node
           l == w.node
<1>1. /\ DeclaredAt(ast, n, x, o) /\ v = AsDeclared(ast[n], n, x)
      /\ DeclaredAt(ast, l, x, g) /\ w = AsDeclared(ast[l], l, x)
  BY VariableIsDeclared
<1> HIDE DEF n, l
<1>2. n = l
  BY <1>1, OneDeclaration
<1> QED
  BY <1>1, <1>2
-----------------------------------------------------------------------------
(* Programs that compile: every block has all variables of its function.     *)

\* Before node p, the blocks bs have a slot for every variable their functions
\* know by then, and the builder stands in the innermost one.
WellFits(p, bs, a) ==
  /\ bs # <<>> => a = Len(bs)
  /\ \A h : History(ast, h) => BlocksFit(h[p - 1], p, bs)

\* A well-behaved program before one of its nodes is compiled.
Fine == CodeInv /\ WellBehaved /\ Emitting /\ pc \in DOMAIN ast /\ WellFits(pc, blocks, at)

\* The next node has compiled.
StaysFine == emit' # "broken" /\ (emit' = "emitting" => WellFits(pc', blocks', at'))

LEMMA SomeWhole ==
  ASSUME CodeInv, Emitting
  PROVE  /\ \E ar : Whole(ar)
         /\ \E h : History(ast, h)
<1>1. PICK ar : Places(ar)
  BY DEF CodeInv, PlacesInv
<1>2. scopes = <<>>
  BY DEF CodeInv, LibraryInv, Emitting
<1>3. Whole(ar)
  BY <1>1, <1>2 DEF Places, Whole
<1> QED
  BY <1>3 DEF CodeInv, GenNow, HInv, HistoryInv

\* The block of the function the node at pc is in.
LEMMA CurrentFits ==
  ASSUME Fine, Node1.op \in Using \cup {"var"}
  PROVE  BlockFits(Block1, Node1.by, pc)
<1>1. CodeInv /\ Emitting /\ pc \in DOMAIN ast
  BY DEF Fine
<1>2. PICK ar : Whole(ar)
  BY <1>1, SomeWhole
<1>3. PICK h : History(ast, h)
  BY <1>1, SomeWhole
<1> DEFINE a == h[pc - 1]
           L == Len(blocks)
<1>4. Len(a.scopes) = Len(a.walk) + 2 /\ Node1.by = Inner(a)
  BY <1>1, <1>3, MomentBefore DEF CodeInv
<1>5. BlocksStand(a, pc, blocks, ar) /\ L \in Nat
  BY <1>1, <1>2, <1>3, BeforeNode DEF CodeInv
<1>6. L > 0
  BY <1>1, CurrentBlock
<1>7. BlocksFit(a, pc, blocks)
  BY <1>3 DEF Fine, WellFits
<1>8. L \in 1 .. L /\ FunOf(a, L) = Node1.by
  BY <1>4, <1>5, <1>6 DEF FunOf, Inner, BlocksStand
<1> QED
  BY <1>7, <1>8 DEF BlocksFit, Block1

\* The names a node uses have slots of the variables they denote.
LEMMA NamesAreUsable ==
  ASSUME Fine, Node1.op \in Using
  PROVE  /\ Usable(Node1.binds)
         /\ \A x \in VarNames : Node1.binds[x] # None => SlotFits(Block1, x, Node1.binds[x])
<1>1. CodeInv /\ Emitting /\ pc \in DOMAIN ast /\ NoShadowing
  BY DEF Fine, WellBehaved
<1>2. pc \in 1 .. Len(ast) /\ Node1 = ast[pc] /\ IInv
  BY <1>1, BeforeNode DEF CodeInv, GenNow, HInv
<1>3. Node1 \in Node
  BY <1>2, ElementOfSeq DEF IInv, TypeOK
<1>4. Node1.binds \in VarMap
  BY <1>3 DEF Node, Using
<1>5. PICK ar : Whole(ar)
  BY <1>1, SomeWhole
<1>6. UseFits(ast, ftypes, ar, Node1, pc)
  BY <1>2, <1>5 DEF Whole, Placed, UsesFit
<1>7. BlockFits(Block1, Node1.by, pc)
  BY CurrentFits
<1>8. ASSUME NEW x \in VarNames, Node1.binds[x] # None
      PROVE  SlotFits(Block1, x, Node1.binds[x])
  <2> DEFINE f == Node1.by
             v == Node1.binds[x]
  <2>1. PICK o \in ar[f] : KnownAt(ast, ftypes, f, pc, v, x, o)
    BY <1>6, <1>8 DEF UseFits
  <2>2. f \in DOMAIN ftypes /\ BlockFits(Block1, f, pc)
    BY <1>6, <1>7 DEF UseFits
  <2> DEFINE b == Block1
  <2>3. BlockFits(b, f, pc)
    BY <2>2
  <2> HIDE DEF f, v, b
  <2>4. SlotFits(b, x, v)
    BY <1>1, <1>2, <1>5, <2>1, <2>2, <2>3, NameFits
  <2> QED
    BY <2>4 DEF v, b
<1>9. \A x \in Keys(Node1.binds) : x \in VarNames /\ Node1.binds[x] # None
  BY <1>4 DEF Keys, VarMap
<1>10. \A x \in Keys(Node1.binds) : SlotFits(Block1, x, Node1.binds[x])
  BY <1>8, <1>9
<1>11. Usable(Node1.binds)
  BY <1>10 DEF Usable, Addressable, SlotFits
<1> QED
  BY <1>8, <1>11

\* The blocks still fit where the functions declare nothing.
LEMMA StayFits ==
  ASSUME Fine, NEW next \in Nat, pc < next,
         \A h : History(ast, h) => Unmoved(h[pc - 1], h[next - 1]),
         \A k \in pc .. next - 1 : ast[k].op \notin Declaring
  PROVE  \A h : History(ast, h) => BlocksFit(h[next - 1], next, blocks)
<1>1. CodeInv /\ Emitting /\ pc \in DOMAIN ast
  BY DEF Fine
<1>2. PICK ar : Whole(ar)
  BY <1>1, SomeWhole
<1> SUFFICES ASSUME NEW h, History(ast, h) PROVE BlocksFit(h[next - 1], next, blocks)
  OBVIOUS
<1> DEFINE a == h[pc - 1]
           b == h[next - 1]
<1>3. BlocksStand(a, pc, blocks, ar) /\ blocks \in Seq(Block) /\ pc \in Nat
  BY <1>1, <1>2, BeforeNode DEF CodeInv
<1>4. Unmoved(a, b) /\ BlocksFit(a, pc, blocks)
  BY DEF Fine, WellFits
<1> HIDE DEF a, b
<1>5. \A k \in 1 .. Len(blocks) : FunOf(b, k) = FunOf(a, k)
  BY <1>3, <1>4, UnmovedFunctions DEF BlocksStand
<1>6. ASSUME NEW k \in 1 .. Len(blocks)
      PROVE  BlockFits(blocks[k], FunOf(b, k), next)
  <2> DEFINE f == FunOf(a, k)
             c == blocks[k]
  <2>1. BlockFits(c, f, pc)
    BY <1>4 DEF BlocksFit
  <2> HIDE DEF f, c
  <2>2. BlockFits(c, f, next)
    BY <1>3, <2>1, FitsLater
  <2> QED
    BY <1>5, <2>2 DEF f, c
<1> QED
  BY <1>6 DEF BlocksFit, b

\* A node of which the generator only moves the builder.
LEMMA StatementFits ==
  ASSUME Fine, Node1.op \in Statements, CompileStatement, Advance
  PROVE  StaysFine
<1> DEFINE next == pc + 1
<1>1. blocks' = blocks /\ at' = Len(blocks) /\ pc' = next /\ emit' = "emitting"
  BY DEF CompileStatement, Advance, Fine, Emitting
<1>2. /\ pc \in 1 .. Len(ast) /\ pc \in Nat /\ next \in Nat /\ pc < next /\ next - 1 = pc
      /\ Node1 = ast[pc] /\ GenNow
  BY BeforeNode DEF Fine, CodeInv
<1>3. \A h : History(ast, h) => Unmoved(h[pc - 1], h[next - 1])
  <2> SUFFICES ASSUME NEW h, History(ast, h) PROVE Unmoved(h[pc - 1], h[pc])
    BY <1>2
  <2>1. Moves(Node1, h[pc - 1], h[pc]) /\ h[pc - 1] \in Moment
    BY <1>2, HistoryAt DEF GenNow, HInv, IInv, TypeOK
  <2> QED
    BY <2>1, StatementUnmoved
<1>4. \A k \in pc .. next - 1 : ast[k].op \notin Declaring
  BY <1>2 DEF Statements, Declaring
<1> HIDE DEF next
<1>5. \A h : History(ast, h) => BlocksFit(h[next - 1], next, blocks)
  BY <1>2, <1>3, <1>4, StayFits
<1> QED
  BY <1>1, <1>5 DEF StaysFine, WellFits

LEMMA UseAndSkipFit ==
  ASSUME Fine, CompileUse \/ CompileSkip
  PROVE  StaysFine
<1>1. CASE CompileSkip
  BY <1>1, StatementFits DEF CompileSkip, Compiling, Statements
<1>2. CASE CompileUse
  <2>1. Node1.op \in {"assign", "condition"}
    BY <1>2 DEF CompileUse, Compiling
  <2>2. Usable(Node1.binds)
    BY <2>1, NamesAreUsable DEF Using
  <2> QED
    BY <1>2, <2>1, <2>2, StatementFits DEF CompileUse, Statements
<1> QED
  BY <1>1, <1>2

LEMMA ReturnFits ==
  ASSUME Fine, CompileReturn
  PROVE  StaysFine
<1>1. Emitting /\ pc \in DOMAIN ast /\ Node1.op \in {"return", "exit"}
  BY DEF CompileReturn, Compiling
<1>2. pc \in 1 .. Len(ast) /\ pc \in Nat /\ Node1 = ast[pc] /\ GenNow
  BY <1>1, BeforeNode DEF Fine, CodeInv
<1>3. Node1.op = "return" => Usable(Node1.binds) /\ Node1.operand # "void"
  BY <1>1, <1>2, NamesAreUsable DEF Using, Fine, WellBehaved
<1>4. PICK next \in pc + 1 .. Len(ast) :
        /\ \A k \in pc + 1 .. next - 1 : ast[k].op # "end"
        /\ pc' = next
  BY <1>3 DEF CompileReturn
<1>5. blocks' = blocks /\ at' = Len(blocks) /\ emit' = "emitting"
  BY <1>1, <1>3 DEF CompileReturn, CompileStatement, Emitting
<1>6. Len(ast) \in Nat /\ ast \in Seq(Node)
  BY <1>2, LenProperties DEF GenNow, HInv, IInv, TypeOK
<1>7. next \in Nat /\ pc < next /\ next - 1 \in pc .. Len(ast)
  BY <1>2, <1>4, <1>6
<1> DEFINE q == next - 1
<1>8. q \in pc .. Len(ast) /\ \A k \in pc + 1 .. q : ast[k].op # "end"
  BY <1>4, <1>7
<1> HIDE DEF q
<1>9. ASSUME NEW h, History(ast, h)
      PROVE  Unmoved(h[pc - 1], h[q]) /\ \A k \in pc .. q : ast[k].op \in Statements
  <2>1. ast[pc].op \in Statements
    BY <1>1, <1>2 DEF Statements
  <2> QED
    BY <1>2, <1>6, <1>8, <1>9, <2>1, UnmovedUpToTheEnd
<1>10. \A h : History(ast, h) => Unmoved(h[pc - 1], h[next - 1])
  BY <1>9 DEF q
<1>11. \A k \in pc .. next - 1 : ast[k].op \notin Declaring
  <2>1. \E h : History(ast, h)
    BY SomeWhole DEF Fine
  <2>2. \A k \in pc .. q : ast[k].op \in Statements
    BY <1>9, <2>1
  <2> QED
    BY <2>2 DEF q, Statements, Declaring
<1>12. \A h : History(ast, h) => BlocksFit(h[next - 1], next, blocks)
  BY <1>7, <1>10, <1>11, StayFits
<1> QED
  BY <1>4, <1>5, <1>12 DEF StaysFine, WellFits

LEMMA DeclarationFits ==
  ASSUME Fine, CompileDeclaration
  PROVE  StaysFine
<1> DEFINE next == pc + 1
<1>1. /\ Node1.op = "declare" /\ blocks' = blocks /\ at' = at /\ pc' = next /\ emit' = "emitting"
      /\ Emitting /\ pc \in DOMAIN ast
  BY DEF CompileDeclaration, Compiling, Advance, Emitting
<1>2. /\ pc \in 1 .. Len(ast) /\ pc \in Nat /\ next \in Nat /\ pc < next /\ next - 1 = pc
      /\ Node1 = ast[pc] /\ GenNow
  BY BeforeNode DEF Fine, CodeInv
<1>3. \A h : History(ast, h) => Unmoved(h[pc - 1], h[next - 1])
  <2> SUFFICES ASSUME NEW h, History(ast, h) PROVE Unmoved(h[pc - 1], h[pc])
    BY <1>2
  <2>1. Moves(Node1, h[pc - 1], h[pc])
    BY <1>2, HistoryAt DEF GenNow, HInv, IInv, TypeOK
  <2> QED
    BY <1>1, <2>1, DeclarationUnmoved
<1>4. \A k \in pc .. next - 1 : ast[k].op \notin Declaring
  BY <1>1, <1>2 DEF Declaring
<1> HIDE DEF next
<1>5. \A h : History(ast, h) => BlocksFit(h[next - 1], next, blocks)
  BY <1>2, <1>3, <1>4, StayFits
<1> QED
  BY <1>1, <1>5 DEF StaysFine, WellFits, Fine

\* The blocks bs, without the last of them.
Shortens(a, bs, cs) ==
  /\ bs \in Seq(Block) /\ Len(bs) = Len(a.walk) /\ Len(a.scopes) = Len(a.walk) + 2
  /\ cs = SubSeq(bs, 1, Len(bs) - 1)

KeepsFunctions(a, b, bs, cs) ==
  /\ Len(bs) > 0 /\ Len(cs) = Len(bs) - 1
  /\ \A k \in 1 .. Len(cs) : FunOf(b, k) = FunOf(a, k) /\ cs[k] = bs[k] /\ k \in 1 .. Len(bs)

LEMMA ShortenedFunctions ==
  ASSUME NEW a, NEW b, Closes(a, b), NEW bs, NEW cs, Shortens(a, bs, cs)
  PROVE  KeepsFunctions(a, b, bs, cs)
<1>1. /\ bs \in Seq(Block) /\ Len(bs) = Len(a.walk) /\ Len(a.scopes) = Len(a.walk) + 2
      /\ cs = SubSeq(bs, 1, Len(bs) - 1)
  BY DEF Shortens
<1>2. Len(bs) \in Nat /\ Len(bs) > 0
  BY <1>1, LenProperties DEF Closes
<1>3. Len(cs) = Len(bs) - 1 /\ \A k \in 1 .. Len(bs) - 1 : cs[k] = bs[k]
  BY <1>1, <1>2, Shorter
<1>4. \A k \in 1 .. Len(bs) - 1 : k + 2 \in 1 .. Len(b.scopes) /\ k \in 1 .. Len(bs)
  BY <1>1, <1>2, <1>3 DEF Closes
<1> QED
  BY <1>2, <1>3, <1>4 DEF Closes, FunOf, KeepsFunctions

LEMMA ClosingFits ==
  ASSUME TRUE \notin UninitBool, Fine, NEW isMain \in UninitBool, CompileEnd(isMain)
  PROVE  StaysFine
<1> DEFINE next == pc + 1
           cs == SubSeq(blocks, 1, Len(blocks) - 1)
<1>1. /\ Emitting /\ pc \in DOMAIN ast /\ Node1.op = "end" /\ pc' = next /\ emit' = "emitting"
      /\ blocks' = cs
  BY DEF CompileEnd, Compiling, Advance, Emitting
<1>2. at' = IF Len(blocks) = 1 THEN at ELSE Len(blocks) - 1
  BY NameAssumption DEF CompileEnd
<1>3. /\ pc \in 1 .. Len(ast) /\ pc \in Nat /\ next \in Nat /\ pc <= next /\ next - 1 = pc
      /\ Node1 = ast[pc] /\ blocks \in Seq(Block) /\ Len(blocks) \in Nat /\ GenNow
      /\ \A h, ar : History(ast, h) /\ Whole(ar) => BlocksStand(h[pc - 1], pc, blocks, ar)
  BY <1>1, BeforeNode DEF Fine, CodeInv
<1>4. PICK ar : Whole(ar)
  BY SomeWhole DEF Fine
<1> HIDE DEF cs
<1>5. ASSUME NEW h, History(ast, h)
      PROVE  /\ BlocksFit(h[next - 1], next, cs)
             /\ Len(blocks) > 0 /\ Len(cs) = Len(blocks) - 1
  <2> DEFINE a == h[pc - 1]
             b == h[pc]
  <2>1. Moves(Node1, a, b) /\ a \in Moment
    BY <1>3, <1>5, HistoryAt DEF GenNow, HInv, IInv, TypeOK
  <2>2. BlocksStand(a, pc, blocks, ar) /\ BlocksFit(a, pc, blocks)
    BY <1>3, <1>4, <1>5 DEF Fine, WellFits
  <2> HIDE DEF a, b
  <2>3. Closes(a, b)
    BY <1>1, <2>1, EndCloses
  <2>4. /\ Len(blocks) > 0 /\ Len(cs) = Len(blocks) - 1
        /\ \A k \in 1 .. Len(cs) : FunOf(b, k) = FunOf(a, k) /\ cs[k] = blocks[k] /\ k \in 1 .. Len(blocks)
    <3>1. /\ cs = SubSeq(blocks, 1, Len(blocks) - 1) /\ Len(blocks) = Len(a.walk)
          /\ Len(a.scopes) = Len(a.walk) + 2 /\ blocks \in Seq(Block)
      BY <1>3, <2>2 DEF BlocksStand, cs
    <3>2. Shortens(a, blocks, cs)
      BY <3>1 DEF Shortens
    <3>3. KeepsFunctions(a, b, blocks, cs)
      BY <2>3, <3>2, ShortenedFunctions
    <3> QED
      BY <3>3 DEF KeepsFunctions
  <2>5. ASSUME NEW k \in 1 .. Len(cs)
        PROVE  BlockFits(cs[k], FunOf(b, k), next)
    <3> DEFINE f == FunOf(a, k)
               c == blocks[k]
    <3>1. BlockFits(c, f, pc)
      BY <2>2, <2>4 DEF BlocksFit
    <3>2. \A l \in pc .. next - 1 : ast[l].op \in Declaring => OwnerOf(ast[l]) # f
      BY <1>1, <1>3 DEF Declaring
    <3> HIDE DEF f, c, next
    <3>3. BlockFits(c, f, next)
      BY <1>3, <3>1, <3>2, FitsLater
    <3> QED
      BY <2>4, <3>3 DEF f, c
  <2>6. h[next - 1] = b
    BY <1>3 DEF b
  <2> QED
    BY <2>4, <2>5, <2>6 DEF BlocksFit
<1>6. cs # <<>> => at' = Len(cs)
  <2>1. Len(blocks) > 0 /\ Len(cs) = Len(blocks) - 1
    BY <1>5, SomeWhole DEF Fine
  <2>2. cs # <<>> => Len(cs) # 0
    <3>1. cs \in Seq(Block)
      BY <1>3, <2>1, Shorter DEF cs
    <3> QED
      BY <3>1, EmptySeq
  <2> QED
    BY <1>2, <1>3, <2>1, <2>2
<1> HIDE DEF next
<1> QED
  BY <1>1, <1>5, <1>6 DEF StaysFine, WellFits

\* The block of f after the names ids have become variables of it.
WithVariables(b, ids, type, n) ==
  [ref  |-> IF type.pass = "ref" THEN b.ref \cup ids ELSE b.ref \ ids,
   slot |-> [x \in VarNames |-> IF x \in ids THEN [node |-> n, t |-> type.t, level |-> 0]
                                ELSE b.slot[x]]]

LEMMA VariablesFit ==
  ASSUME IInv, NoShadowing, NEW ar, Whole(ar), NEW n \in 1 .. Len(ast), ast[n].op = "var",
         TRUE \notin UninitBool, NEW f \in DOMAIN ftypes, ast[n].by = f,
         NEW b, BlockFits(b, f, n)
  PROVE  BlockFits(WithVariables(b, Elements(ast[n].ids), ast[n].type, n), f, n + 1)
<1> DEFINE ids == Elements(ast[n].ids)
           type == ast[n].type
           new == [node |-> n, t |-> type.t, level |-> 0]
           c == WithVariables(b, ids, type, n)
<1>1. ast[n] \in Node /\ n \in Nat
  BY ElementOfSeq, LenProperties DEF IInv, TypeOK
<1>2. type \in VarType
  BY <1>1 DEF Node
<1>3. type.pass = "val"
  BY DEF Whole, Placed, HeadersFit, HeaderFits
<1>4. new # None
  <2>1. new \in Slot
    BY <1>1, <1>2 DEF Slot, VarType
  <2> QED
    BY <2>1, SlotAssumption
<1>5. Declares(ast[n]) = ids /\ OwnerOf(ast[n]) = f
  BY DEF Declares, OwnerOf
<1>6. /\ c.ref = b.ref \ ids
      /\ \A x \in VarNames : c.slot[x] = IF x \in ids THEN new ELSE b.slot[x]
  BY <1>3 DEF WithVariables
<1> HIDE DEF c, ids
<1>7. ASSUME NEW x \in VarNames, x \in ids
      PROVE  SlotFits(c, x, type)
  <2>1. c.slot[x] = new /\ x \notin c.ref
    BY <1>6, <1>7
  <2> QED
    BY <1>4, <2>1 DEF SlotFits
<1>8. ASSUME NEW x \in VarNames, NEW v, x \notin ids, SlotFits(b, x, v)
      PROVE  SlotFits(c, x, v)
  <2>1. c.slot[x] = b.slot[x] /\ (x \in c.ref <=> x \in b.ref)
    BY <1>6, <1>8
  <2> QED
    BY <1>8, <2>1 DEF SlotFits
<1>9. f \in ar[f]
  BY DEF Whole, Placed, Around
<1>10. ASSUME NEW x \in VarNames, x \in ids, NEW o \in ar[f], NEW l, DeclaredAt(ast, l, x, o)
       PROVE  l = n
  <2>1. DeclaredAt(ast, n, x, f)
    BY <1>5, <1>10 DEF DeclaredAt
  <2> QED
    BY <1>9, <1>10, <2>1, OneDeclaration
<1>11. ASSUME NEW x \in VarNames, NEW l, DeclaredAt(ast, l, x, f), l < n + 1
       PROVE  SlotFits(c, x, AsDeclared(ast[l], l, x))
  <2>1. CASE x \in ids
    <3>1. l = n
      BY <1>9, <1>10, <1>11, <2>1
    <3>2. AsDeclared(ast[l], l, x) = type
      BY <3>1 DEF AsDeclared
    <3> QED
      BY <1>7, <2>1, <3>2
  <2>2. CASE x \notin ids
    <3>1. l # n
      BY <1>5, <1>11, <2>2 DEF DeclaredAt
    <3>2. l \in Nat /\ l < n
      BY <1>1, <1>11, <3>1 DEF DeclaredAt
    <3> DEFINE v == AsDeclared(ast[l], l, x)
    <3>3. SlotFits(b, x, v)
      BY <1>11, <3>2 DEF BlockFits
    <3> HIDE DEF v
    <3>4. SlotFits(c, x, v)
      BY <1>8, <2>2, <3>3
    <3> QED
      BY <3>4 DEF v
  <2> QED
    BY <2>1, <2>2
<1>12. ASSUME NEW x \in VarNames, ftypes[f].prev[x] # None
       PROVE  SlotFits(c, x, ftypes[f].prev[x])
  <2> DEFINE v == ftypes[f].prev[x]
  <2>1. PICK o \in ar[f] \ {f} : IsVariable(ast, v, x, o)
    BY <1>12 DEF Whole, Placed, CapturesAround
  <2>2. SlotFits(b, x, v)
    BY <1>12 DEF BlockFits
  <2> HIDE DEF v
  <2>3. DeclaredAt(ast, v.node, x, o)
    BY <2>1, VariableIsDeclared
  <2>4. x \notin ids
    <3> SUFFICES ASSUME x \in ids PROVE FALSE
      OBVIOUS
    <3>1. v.node = n
      BY <1>10, <2>1, <2>3
    <3> QED
      BY <1>5, <2>1, <2>3, <3>1 DEF DeclaredAt
  <2>5. SlotFits(c, x, v)
    BY <1>8, <2>2, <2>4
  <2> QED
    BY <2>5 DEF v
<1> QED
  BY <1>11, <1>12 DEF BlockFits, c, ids

LEMMA VarListFits ==
  ASSUME TRUE \notin UninitBool, Fine, CompileVarList
  PROVE  StaysFine
<1> DEFINE L == Len(blocks)
           block == WithVariables(Block1, Elements(Node1.ids), Node1.type, pc)
           next == pc + 1
<1>1. Emitting /\ pc \in DOMAIN ast /\ Node1.op = "var" /\ CodeInv /\ NoShadowing
  BY DEF CompileVarList, Compiling, Fine, WellBehaved
<1>2. /\ pc \in 1 .. Len(ast) /\ pc \in Nat /\ next \in Nat /\ pc <= next /\ next - 1 = pc
      /\ Node1 = ast[pc] /\ blocks \in Seq(Block) /\ L \in Nat /\ GenNow
      /\ \A h, ar : History(ast, h) /\ Whole(ar) => BlocksStand(h[pc - 1], pc, blocks, ar)
  BY <1>1, BeforeNode DEF CodeInv
<1>3. PICK ar : Whole(ar) /\ Standing(Block1, Node1.by, pc, ar)
  BY <1>1, CurrentBlock
<1>4. L > 0 /\ at = L
  <2>1. L > 0
    BY <1>1, CurrentBlock
  <2> QED
    BY <1>2, <2>1, EmptySeq DEF Fine, WellFits
<1>5. blocks' = [blocks EXCEPT ![L] = block] /\ pc' = next /\ at' = at /\ emit' = "emitting"
  BY <1>1, <1>4 DEF CompileVarList, Advance, Block1, Emitting, WithVariables
<1>6. /\ Len(blocks') = L /\ DOMAIN blocks = 1 .. L
      /\ \A k \in 1 .. L : blocks'[k] = IF k = L THEN block ELSE blocks[k]
  <2>1. DOMAIN blocks = 1 .. L
    BY <1>2, LenProperties
  <2> HIDE DEF block
  <2>2. Len(blocks') = L
    <3>1. DOMAIN blocks' = 1 .. L
      BY <1>5, <2>1
    <3>2. blocks' = [k \in 1 .. L |-> blocks'[k]]
      BY <1>5, <2>1
    <3>3. Len([k \in 1 .. L |-> blocks'[k]]) = L
      <4> DEFINE n == L
      <4>1. n \in Nat
        BY <1>2
      <4> HIDE DEF n
      <4>2. Len([k \in 1 .. n |-> blocks'[k]]) = n
        BY <4>1
      <4> QED
        BY <4>2 DEF n
    <3> QED
      BY <3>2, <3>3
  <2> QED
    BY <1>5, <2>1, <2>2
<1>7. BlockFits(block, Node1.by, next)
  <2> DEFINE f == Node1.by
             b == Block1
  <2>1. f \in DOMAIN ftypes /\ BlockFits(b, f, pc) /\ ast[pc].op = "var" /\ ast[pc].by = f
    BY <1>1, <1>2, <1>3, CurrentFits DEF Standing
  <2> HIDE DEF f, b
  <2>2. BlockFits(WithVariables(b, Elements(ast[pc].ids), ast[pc].type, pc), f, pc + 1)
    BY <1>1, <1>2, <1>3, <2>1, VariablesFit DEF GenNow, HInv
  <2> QED
    BY <1>2, <2>2 DEF b, f
<1> HIDE DEF block
<1>8. ASSUME NEW h, History(ast, h)
      PROVE  BlocksFit(h[next - 1], next, blocks')
  <2> DEFINE a == h[pc - 1]
             b == h[pc]
  <2>1. /\ Moves(Node1, a, b) /\ a \in Moment /\ Len(a.scopes) = Len(a.walk) + 2
        /\ Node1.by = Inner(a)
    BY <1>1, <1>8, MomentBefore DEF CodeInv
  <2>2. BlocksStand(a, pc, blocks, ar) /\ BlocksFit(a, pc, blocks)
    BY <1>2, <1>3, <1>8 DEF Fine, WellFits
  <2> HIDE DEF a, b
  <2>3. Unmoved(a, b)
    BY <1>1, <2>1, StatementUnmoved
  <2>4. \A k \in 1 .. L : FunOf(b, k) = FunOf(a, k)
    BY <1>2, <2>2, <2>3, UnmovedFunctions DEF BlocksStand
  <2>5. FunOf(a, L) = Node1.by
    BY <2>1, <2>2 DEF FunOf, Inner, BlocksStand
  <2>6. ASSUME NEW k \in 1 .. L
        PROVE  BlockFits(blocks'[k], FunOf(b, k), next)
    <3>1. CASE k = L
      BY <1>6, <1>7, <2>4, <2>5, <3>1
    <3>2. CASE k # L
      <4> DEFINE f == FunOf(a, k)
                 c == blocks[k]
      <4>1. BlockFits(c, f, pc)
        BY <2>2 DEF BlocksFit
      <4>2. f # Node1.by
        BY <1>2, <1>4, <2>2, <2>5, <3>2 DEF BlocksStand
      <4>3. \A l \in pc .. next - 1 : ast[l].op \in Declaring => OwnerOf(ast[l]) # f
        <5> HIDE DEF f
        <5> QED
          BY <1>1, <1>2, <4>2 DEF OwnerOf
      <4> HIDE DEF f, c, next
      <4>4. BlockFits(c, f, next)
        BY <1>2, <4>1, <4>3, FitsLater
      <4> QED
        BY <1>6, <2>4, <3>2, <4>4 DEF f, c
    <3> QED
      BY <3>1, <3>2
  <2>7. h[next - 1] = b
    BY <1>2 DEF b
  <2> QED
    BY <1>6, <2>6, <2>7 DEF BlocksFit
<1> HIDE DEF next
<1>9. blocks' # <<>> => at' = Len(blocks')
  BY <1>4, <1>5, <1>6
<1> QED
  BY <1>5, <1>8, <1>9 DEF StaysFine, WellFits

-----------------------------------------------------------------------------
(* One signature for a function, at its declaration, its definition and its  *)
(* calls.                                                                    *)

\* p has the types and levels of the arguments of f and of its captures.
FitsType(p, f) ==
  /\ Len(p) = Len(ftypes[f].args) + Len(AllCaptures(f))
  /\ \A i \in 1 .. Len(ftypes[f].args) :
       p[i].t = ftypes[f].args[i].t /\ p[i].level = Indirection(ftypes[f].args[i].pass)
  /\ \A j \in 1 .. Len(AllCaptures(f)) :
       /\ p[Len(ftypes[f].args) + j].t = ftypes[f].prev[AllCaptures(f)[j]].t
       /\ p[Len(ftypes[f].args) + j].level = 1

LEMMA TypeSizes ==
  ASSUME CodeInv, Emitting, NEW f \in DOMAIN ftypes
  PROVE  /\ Len(ftypes[f].args) \in Nat /\ ftypes[f].args \in Seq(Arg) /\ ftypes[f].prev \in VarMap
         /\ AllCaptures(f) \in Seq(VarNames) /\ Len(AllCaptures(f)) \in Nat
         /\ \A j \in 1 .. Len(AllCaptures(f)) : ftypes[f].prev[AllCaptures(f)[j]] # None
<1>1. ftypes[f] \in FType
  BY ElementOfSeq, LenProperties DEF CodeInv, GenNow, HInv, IInv, TypeOK
<1>2. ftypes[f].args \in Seq(Arg) /\ ftypes[f].prev \in VarMap
  BY <1>1 DEF FType
<1> DEFINE c == AllCaptures(f)
           m == ftypes[f].prev
           skip == {}
<1>3. c = CapturedNames(m, skip)
  BY DEF AllCaptures
<1> HIDE DEF c, skip, m
<1>4. c \in Seq(VarNames) /\ \A j \in 1 .. Len(c) : m[c[j]] # None
  BY <1>3, CapturedNamesProperties
<1>5. Len(c) \in Nat
  BY <1>4, LenProperties
<1> QED
  BY <1>2, <1>4, <1>5, LenProperties DEF c, m

\* What fits one type has the same types and levels.
LEMMA SameTypes ==
  ASSUME CodeInv, Emitting, NEW f \in DOMAIN ftypes, NEW p, NEW q, FitsType(p, f), FitsType(q, f)
  PROVE  /\ Len(p) \in Nat /\ Len(p) = Len(q)
         /\ \A i \in 1 .. Len(p) : p[i].t = q[i].t /\ p[i].level = q[i].level
<1> DEFINE A == Len(ftypes[f].args)
           C == Len(AllCaptures(f))
<1>1. A \in Nat /\ C \in Nat
  BY TypeSizes
<1>2. Len(p) = A + C /\ Len(q) = A + C
  BY DEF FitsType
<1>3. ASSUME NEW i \in 1 .. A PROVE p[i].t = q[i].t /\ p[i].level = q[i].level
  BY DEF FitsType
<1>4. ASSUME NEW j \in 1 .. C PROVE p[A + j].t = q[A + j].t /\ p[A + j].level = q[A + j].level
  BY DEF FitsType
<1> HIDE DEF A, C
<1>5. ASSUME NEW i \in 1 .. A + C PROVE p[i].t = q[i].t /\ p[i].level = q[i].level
  <2>1. CASE i \in 1 .. A
    BY <1>3, <2>1
  <2>2. CASE i \notin 1 .. A
    <3> DEFINE j == i - A
    <3>1. j \in 1 .. C /\ A + j = i
      BY <1>1, <2>2
    <3> HIDE DEF j
    <3>2. p[A + j].t = q[A + j].t /\ p[A + j].level = q[A + j].level
      BY <1>4, <3>1
    <3> QED
      BY <3>1, <3>2
  <2> QED
    BY <2>1, <2>2
<1> QED
  BY <1>1, <1>2, <1>5

\* No formal of a header has the name of a captured variable.
LEMMA SkipsNothing ==
  ASSUME CodeInv, Emitting, WellBehaved, NEW n \in 1 .. Len(ast), ast[n].op \in {"declare", "define"}
  PROVE  CaptureList(ast[n]) = AllCaptures(ast[n].fun)
<1> DEFINE f == ast[n].fun
           h == ast[n].header
           m == ftypes[f].prev
           skip == FormalNames(h)
<1>1. f \in DOMAIN ftypes /\ h \in Headers /\ HInv /\ IInv
  BY HeaderOf DEF CodeInv, GenNow, HInv
<1>2. PICK ar : Whole(ar)
  BY SomeWhole
<1>3. m \in VarMap
  BY <1>1, TypeSizes
<1>4. ASSUME NEW x \in skip, x \in VarNames, m[x] # None
      PROVE  FALSE
  <2> DEFINE v == m[x]
  <2>1. /\ \E o \in ar[f] \ {f} : IsVariable(ast, v, x, o)
        /\ Begins(ast, f, Len(ast))
    BY <1>1, <1>2, <1>4 DEF Whole, Placed, CapturesAround
  <2>2. PICK o \in ar[f] \ {f} : IsVariable(ast, v, x, o)
    BY <2>1
  <2> HIDE DEF v
  <2>3. DeclaredAt(ast, v.node, x, o)
    BY <2>2, VariableIsDeclared
  <2>4. CASE ast[n].op = "define"
    <3>1. DeclaredAt(ast, n, x, f)
      BY <1>4, <2>4 DEF DeclaredAt, Declares, OwnerOf
    <3>2. f \in ar[f]
      BY <1>1, <1>2 DEF Whole, Placed, Around
    <3> DEFINE l == v.node
               g == f
    <3>3. DeclaredAt(ast, l, x, o) /\ DeclaredAt(ast, n, x, g) /\ g \in ar[g] /\ o \in ar[g]
          /\ g \in DOMAIN ftypes /\ o # g
      BY <1>1, <2>2, <2>3, <3>1, <3>2
    <3> HIDE DEF l, g, f
    <3>4. l = n
      BY <1>1, <1>2, <3>3, OneDeclaration DEF WellBehaved
    <3> QED
      BY <3>3, <3>4 DEF DeclaredAt
  <2>5. CASE ast[n].op = "declare"
    <3>1. PICK d \in 1 .. Len(ast) : ast[d].op = "define" /\ ast[d].fun = f
      BY <2>1 DEF Begins
    <3>2. DOMAIN ast = 1 .. Len(ast)
      BY <1>1, LenProperties DEF IInv, TypeOK
    <3>3. skip \cap Keys(m) = {}
      BY <2>5, <3>1, <3>2 DEF WellBehaved, DeclarationsAgree
    <3> QED
      BY <1>3, <1>4, <3>3 DEF Keys, VarMap
  <2> QED
    BY <2>4, <2>5
<1>5. skip \subseteq VarNames
  <2>1. h.formals \in Seq(Formal)
    BY <1>1, GrammarAssumption
  <2> DEFINE fs == h.formals
  <2>2. \A i \in DOMAIN fs : fs[i].name \in VarNames
    <3>1. fs \in Seq(Formal)
      BY <2>1
    <3> HIDE DEF fs
    <3>2. \A i \in DOMAIN fs : fs[i] \in Formal
      BY <3>1, LenProperties, ElementOfSeq
    <3> QED
      BY <3>2 DEF Formal
  <2> QED
    BY <2>2 DEF FormalNames
<1>6. \A x \in skip : m[x] = None
  BY <1>4, <1>5
<1>7. CaptureList(ast[n]) = CapturedNames(m, skip) /\ AllCaptures(f) = CapturedNames(m, {})
  BY DEF CaptureList, CapturesOf, AllCaptures
<1> HIDE DEF m, skip
<1>8. CapturedNames(m, skip) = CapturedNames(m, {})
  BY <1>6, FewerNames
<1> QED
  BY <1>7, <1>8

\* Two headers with the same formal types declare the same arguments.
LEMMA SameDeclared ==
  ASSUME NEW h \in Headers, NEW g \in Headers, Len(DeclArgs(g)) = Len(h.formals),
         \A k \in 1 .. Len(h.formals) : DeclArgs(g)[k].t = h.formals[k].t
  PROVE  DeclArgs(g) = DeclArgs(h)
<1>1. Len(g.formals) = Len(h.formals)
  BY ArgsLength
<1>2. /\ DOMAIN g.formals = 1 .. Len(h.formals) /\ DOMAIN h.formals = 1 .. Len(h.formals)
  BY <1>1, GrammarAssumption, LenProperties
<1>3. ASSUME NEW k \in 1 .. Len(h.formals) PROVE g.formals[k].t = h.formals[k].t
  BY <1>2, <1>3 DEF DeclArgs
<1> QED
  BY <1>2, <1>3 DEF DeclArgs

\* Declaration and definition have the arguments of the function's type.
LEMMA ArgsOfType ==
  ASSUME CodeInv, Emitting, WellBehaved, NEW n \in 1 .. Len(ast), ast[n].op \in {"declare", "define"}
  PROVE  HeaderArgs(ast[n]) = ftypes[ast[n].fun].args
<1>1. PICK ar : Whole(ar)
  BY SomeWhole
<1>2. \A i \in 1 .. Len(ast) : HeaderFits(ast, ftypes, ast[i], i)
  BY <1>1 DEF Whole, Placed, HeadersFit
<1>3. DOMAIN ast = 1 .. Len(ast) /\ Len(ast) \in Nat
  BY LenProperties DEF CodeInv, GenNow, HInv, IInv, TypeOK
<1>4. CASE ast[n].op = "declare"
  BY <1>2, <1>4 DEF HeaderFits, HeaderArgs
<1>5. CASE ast[n].op = "define"
  <2>1. HeaderArgs(ast[n]) = DefArgs(ast[n].header)
    BY <1>5 DEF HeaderArgs
  <2>2. CASE DeclaredEarlier(ast, ast[n].fun, n)
    <3>1. PICK j \in 1 .. Len(ast) : ast[j].op = "declare" /\ ast[j].fun = ast[n].fun
      BY <1>3, <2>2 DEF DeclaredEarlier
    <3>2. DefArgs(ast[n].header) = DeclArgs(ast[n].header)
      BY <1>3, <1>5, <3>1 DEF WellBehaved, DeclarationsAgree
    <3>3. ftypes[ast[n].fun].args = DeclArgs(ast[j].header)
      BY <1>2, <3>1 DEF HeaderFits
    <3>4. /\ Len(ftypes[ast[n].fun].args) = Len(ast[n].header.formals)
          /\ \A k \in 1 .. Len(ast[n].header.formals) :
               ftypes[ast[n].fun].args[k].t = ast[n].header.formals[k].t
      BY <1>2, <1>5 DEF HeaderFits
    <3>5. ast[j].header \in Headers /\ ast[n].header \in Headers
      BY <1>5, <3>1, HeaderOf DEF CodeInv, GenNow
    <3> DEFINE h == ast[n].header
               g == ast[j].header
    <3>6. /\ h \in Headers /\ g \in Headers /\ Len(DeclArgs(g)) = Len(h.formals)
          /\ \A k \in 1 .. Len(h.formals) : DeclArgs(g)[k].t = h.formals[k].t
      BY <3>3, <3>4, <3>5
    <3> HIDE DEF h, g
    <3>7. DeclArgs(g) = DeclArgs(h)
      BY <3>6, SameDeclared
    <3> QED
      BY <2>1, <3>2, <3>3, <3>7 DEF h, g
  <2>3. CASE ~DeclaredEarlier(ast, ast[n].fun, n)
    BY <1>2, <1>5, <2>1, <2>3 DEF HeaderFits
  <2> QED
    BY <2>2, <2>3
<1> QED
  BY <1>4, <1>5

\* So has every LLVM function that is made for them.
LEMMA NodeFitsType ==
  ASSUME CodeInv, Emitting, WellBehaved, NEW n \in 1 .. Len(ast), ast[n].op \in {"declare", "define"}
  PROVE  /\ FitsType(NodeParams(n), ast[n].fun)
         /\ \A j \in 1 .. Len(AllCaptures(ast[n].fun)) :
              NodeParams(n)[Len(ftypes[ast[n].fun].args) + j].name = AllCaptures(ast[n].fun)[j]
<1> DEFINE f == ast[n].fun
           h == ast[n].header
           m == ftypes[f].prev
           args == ftypes[f].args
           cap == AllCaptures(f)
           p == NodeParams(n)
<1>1. ParamsAre(p, h, args, n, m, cap)
  BY NodeParamsAre, SkipsNothing, ArgsOfType DEF CodeInv, GenNow, CapturesOf
<1>2. Len(args) = Len(h.formals)
  <2>1. Len(HeaderArgs(ast[n])) = Len(h.formals)
    BY HeaderOf DEF CodeInv, GenNow
  <2> QED
    BY <2>1, ArgsOfType
<1>3. FitsType(p, f) <=>
        /\ Len(p) = Len(args) + Len(cap)
        /\ \A i \in 1 .. Len(args) : p[i].t = args[i].t /\ p[i].level = Indirection(args[i].pass)
        /\ \A j \in 1 .. Len(cap) : p[Len(args) + j].t = m[cap[j]].t /\ p[Len(args) + j].level = 1
  BY DEF FitsType
<1> HIDE DEF p, args, cap, m
<1>4. Len(p) = Len(args) + Len(cap)
  BY <1>1, <1>2 DEF ParamsAre
<1>5. ASSUME NEW i \in 1 .. Len(args)
      PROVE  p[i].t = args[i].t /\ p[i].level = Indirection(args[i].pass)
  <2>1. p[i] = [name |-> h.formals[i].name, node |-> n, t |-> args[i].t,
                level |-> Indirection(args[i].pass)]
    BY <1>1, <1>2 DEF ParamsAre
  <2> QED
    BY <2>1
<1>6. ASSUME NEW j \in 1 .. Len(cap)
      PROVE  /\ p[Len(args) + j].t = m[cap[j]].t /\ p[Len(args) + j].level = 1
             /\ p[Len(args) + j].name = cap[j]
  <2>1. p[Len(args) + j] = [name |-> cap[j], node |-> m[cap[j]].node, t |-> m[cap[j]].t, level |-> 1]
    BY <1>1, <1>2 DEF ParamsAre
  <2> QED
    BY <2>1
<1>7. FitsType(p, f)
  BY <1>3, <1>4, <1>5, <1>6
<1> QED
  BY <1>6, <1>7 DEF p, args, cap

\* A function that never begins captures nothing.
LEMMA CapturesNothing ==
  ASSUME CodeInv, Emitting, NEW f \in DOMAIN ftypes, \A x \in VarNames : ftypes[f].prev[x] = None
  PROVE  Len(AllCaptures(f)) = 0
<1>1. /\ AllCaptures(f) \in Seq(VarNames) /\ Len(AllCaptures(f)) \in Nat
      /\ \A j \in 1 .. Len(AllCaptures(f)) : ftypes[f].prev[AllCaptures(f)[j]] # None
  BY TypeSizes
<1> DEFINE c == AllCaptures(f)
<1> SUFFICES ASSUME Len(c) > 0 PROVE FALSE
  BY <1>1
<1>2. 1 \in 1 .. Len(c)
  BY <1>1
<1> HIDE DEF c
<1>3. c[1] \in VarNames
  BY <1>1, <1>2, ElementOfSeq DEF c
<1> QED
  BY <1>1, <1>2, <1>3 DEF c

\* The functions of the library take values only.
LEMMA LibraryFitsType ==
  ASSUME CodeInv, Emitting, NEW i \in DOMAIN Library
  PROVE  FitsType(LibraryFun(i).params, i) /\ i \in DOMAIN ftypes
<1> DEFINE args == Library[i].args
           p == LibraryFun(i).params
<1>1. LibraryKept(ast, ftypes)
  BY DEF CodeInv, LibraryInv, Emitting
<1>2. i \in DOMAIN ftypes /\ ftypes[i].args = args
  BY <1>1 DEF LibraryKept
<1>3. ~Begins(ast, i, Len(ast))
  BY <1>1 DEF LibraryKept, Begins
<1>4. \A x \in VarNames : ftypes[i].prev[x] = None
  BY <1>2, <1>3, SomeWhole DEF Whole, Placed, CapturesAround
<1>5. Len(AllCaptures(i)) = 0
  BY <1>2, <1>4, CapturesNothing
<1>6. args \in Seq(Arg) /\ Len(args) \in Nat
  BY <1>2, TypeSizes
<1>7. DOMAIN args = 1 .. Len(args)
  BY <1>6, LenProperties
<1>8. p = [j \in 1 .. Len(args) |-> [name |-> None, node |-> 0, t |-> args[j].t, level |-> 0]]
  BY <1>7 DEF LibraryFun
<1>9. \A j \in 1 .. Len(args) : args[j].pass = "val"
  BY <1>7, LibraryAssumption
<1> HIDE DEF args, p
<1>10. Len(p) = Len(args)
  <2> DEFINE N == Len(args)
  <2>1. N \in Nat /\ p = [j \in 1 .. N |-> p[j]]
    BY <1>6, <1>8
  <2> HIDE DEF N
  <2>2. Len([j \in 1 .. N |-> p[j]]) = N
    BY <2>1
  <2> QED
    BY <2>1, <2>2 DEF N
<1>11. \A j \in 1 .. Len(args) : p[j].t = args[j].t /\ p[j].level = 0
  BY <1>8
<1>12. FitsType(p, i)
  BY <1>2, <1>5, <1>6, <1>9, <1>10, <1>11 DEF FitsType, Indirection
<1> QED
  BY <1>2, <1>12 DEF p

\* Every function of the generator has the signature of its type.
LEMMA FunctionFitsType ==
  ASSUME CodeInv, Emitting, WellBehaved, NEW p \in Nat, NEW k \in DOMAIN lfuns, FunsMade(lfuns, p)
  PROVE  FitsType(lfuns[k].params, lfuns[k].fun) /\ lfuns[k].fun \in DOMAIN ftypes
<1>1. CASE k \in DOMAIN Library /\ lfuns[k] = LibraryFun(k)
  BY <1>1, LibraryFitsType DEF LibraryFun
<1>2. CASE \E n \in 1 .. p - 1 : MadeAt(lfuns[k], n)
  <2>1. PICK n \in 1 .. Len(ast) :
          /\ ast[n].op \in {"declare", "define"}
          /\ lfuns[k].fun = ast[n].fun /\ lfuns[k].params = NodeParams(n)
    BY <1>2 DEF MadeAt
  <2> QED
    BY <2>1, NodeFitsType, HeaderOf DEF CodeInv, GenNow
<1> QED
  BY <1>1, <1>2 DEF FunsMade

-----------------------------------------------------------------------------
(* Calls and definitions of well-behaved programs.                           *)

\* The caller has the variables that the callee captures.
LEMMA CapturesAreSupplied ==
  ASSUME Fine, Node1.op = "call", NEW x \in VarNames, ftypes[Node1.fun].prev[x] # None
  PROVE  SlotFits(Block1, x, ftypes[Node1.fun].prev[x])
<1> DEFINE f == Node1.by
           w == ftypes[Node1.fun].prev[x]
           b == Block1
<1>1. CodeInv /\ Emitting /\ pc \in DOMAIN ast /\ NoShadowing /\ Compiling("call")
  BY DEF Fine, WellBehaved, Compiling
<1>2. PICK ar : Whole(ar)
  BY <1>1, SomeWhole
<1>3. /\ pc \in 1 .. Len(ast) /\ Node1 = ast[pc] /\ CallFits(ast, ftypes, ar, Node1, pc)
      /\ IInv /\ pc \in Nat
  BY <1>1, <1>2, CallNode, BeforeNode DEF CodeInv, GenNow, HInv
<1>4. f \in DOMAIN ftypes /\ Node1.fun \in DOMAIN ftypes /\ f \in ar[f]
  BY <1>2, <1>3 DEF CallFits, Whole, Placed, Around
<1>5. BlockFits(b, f, pc)
  BY CurrentFits DEF Using
<1>6. PICK o \in ar[f] : IsVariable(ast, w, x, o)
  BY <1>1, <1>2, CaptureAround
<1>7. ftypes[f].prev[x] # None \/ x \in Node1.locals
  <2>1. SuppliesCaptures(pc)
    BY <1>1, <1>3 DEF Fine, WellBehaved
  <2>2. ftypes[f].prev \in VarMap /\ ftypes[Node1.fun].prev \in VarMap
    BY <1>1, <1>4, TypeSizes
  <2>3. x \in Keys(ftypes[Node1.fun].prev)
    BY <2>2 DEF Keys, VarMap
  <2>4. x \in Keys(ftypes[f].prev) \/ x \in Node1.locals
    BY <1>3, <2>1, <2>3 DEF SuppliesCaptures
  <2> QED
    BY <2>4 DEF Keys
<1>8. CASE ftypes[f].prev[x] # None
  <2> DEFINE v == ftypes[f].prev[x]
  <2>1. PICK g \in ar[f] : IsVariable(ast, v, x, g)
    BY <1>2, <1>4, <1>8 DEF Whole, Placed, CapturesAround
  <2>2. SlotFits(b, x, v)
    BY <1>5, <1>8 DEF BlockFits
  <2> HIDE DEF v, w, b, f
  <2>3. v = w
    BY <1>1, <1>2, <1>3, <1>4, <1>6, <2>1, OneVariable
  <2> QED
    BY <2>2, <2>3 DEF w, b
<1>9. CASE x \in Node1.locals
  <2>1. PICK d \in 1 .. pc - 1 :
          ast[d].op \in Declaring /\ x \in Declares(ast[d]) /\ OwnerOf(ast[d]) = f
    BY <1>3, <1>9 DEF CallFits, DeclaredBefore
  <2>2. DeclaredAt(ast, d, x, f) /\ d < pc
    BY <1>3, <2>1 DEF DeclaredAt
  <2> DEFINE v == AsDeclared(ast[d], d, x)
  <2>3. SlotFits(b, x, v)
    BY <1>5, <2>2 DEF BlockFits
  <2> HIDE DEF w, b, f
  <2>4. IsVariable(ast, v, x, f)
    BY <1>2, <1>3, <2>2, DeclaredIsVariable
  <2> HIDE DEF v
  <2>5. v = w
    BY <1>1, <1>2, <1>3, <1>4, <1>6, <2>4, OneVariable
  <2> QED
    BY <2>3, <2>5 DEF w, b
<1> QED
  BY <1>7, <1>8, <1>9

\* The operands of a call have the types and levels of the callee's type.
LEMMA OperandsFitType ==
  ASSUME Fine, Node1.op = "call"
  PROVE  FitsType(CallOperands(Node1), Node1.fun)
<1> DEFINE ops == CallOperands(Node1)
           fun == Node1.fun
           args == ftypes[fun].args
           m == ftypes[fun].prev
           A == Len(Node1.args)
           cap == AllCaptures(fun)
<1>1. CodeInv /\ Emitting /\ pc \in DOMAIN ast /\ Compiling("call")
  BY DEF Fine, Compiling
<1>2. PICK ar : Whole(ar)
  BY <1>1, SomeWhole
<1>3. CallFits(ast, ftypes, ar, Node1, pc) /\ Node1 = ast[pc] /\ Node1.args \in Seq(Operands)
  BY <1>1, <1>2, CallNode
<1>4. /\ A \in Nat /\ cap \in Seq(VarNames) /\ Len(cap) \in Nat /\ Len(ops) = A + Len(cap)
      /\ \A i \in 1 .. A : ops[i] = ArgumentOperand(Node1.args[i], args[i])
      /\ \A j \in 1 .. Len(cap) : ops[A + j] = CaptureOperand(cap[j])
      /\ \A j \in 1 .. Len(cap) : m[cap[j]] # None
  BY <1>3, OperandsAre
<1>5. A = Len(args) /\ DOMAIN Node1.args = 1 .. A
  BY <1>3, LenProperties DEF CallFits
<1>6. ASSUME NEW i \in 1 .. A
      PROVE  ops[i].t = args[i].t /\ ops[i].level = Indirection(args[i].pass)
  <2> DEFINE o == Node1.args[i]
  <2>1. CASE o \in VarNames
    <3>1. Node1.binds[o] # None /\ Node1.binds[o].t = args[i].t
      BY <1>3, <2>1 DEF CallFits
    <3>2. SlotFits(Block1, o, Node1.binds[o])
      BY <2>1, <3>1, NamesAreUsable DEF Using
    <3>3. ops[i] = [node |-> Block1.slot[o].node, t |-> Block1.slot[o].t,
                    level |-> Indirection(args[i].pass)]
      BY <1>4, <2>1 DEF ArgumentOperand
    <3>4. Block1.slot[o].t = args[i].t
      BY <3>1, <3>2 DEF SlotFits
    <3> HIDE DEF o, ops, args
    <3> QED
      BY <3>3, <3>4
  <2>2. CASE o \notin VarNames
    <3>1. ops[i] = [node |-> 0, t |-> args[i].t, level |-> 0]
      BY <1>4, <2>2 DEF ArgumentOperand
    <3>2. args[i].pass # "ref"
      BY <1>1, <1>3, <1>5, <2>2 DEF Fine, WellBehaved, ReferencesAreVariables
    <3> HIDE DEF ops, args
    <3> QED
      BY <3>1, <3>2 DEF Indirection
  <2> QED
    BY <2>1, <2>2
<1>7. ASSUME NEW j \in 1 .. Len(cap)
      PROVE  ops[A + j].t = m[cap[j]].t /\ ops[A + j].level = 1
  <2> DEFINE x == cap[j]
  <2>1. x \in VarNames
    <3> HIDE DEF cap
    <3> QED
      BY <1>4, ElementOfSeq
  <2>2. SlotFits(Block1, x, m[x])
    BY <1>4, <2>1, CapturesAreSupplied
  <2>3. ops[A + j] = [node |-> Block1.slot[x].node, t |-> Block1.slot[x].t, level |-> 1]
    BY <1>4 DEF CaptureOperand
  <2>4. Block1.slot[x].t = m[x].t
    BY <2>2 DEF SlotFits
  <2> HIDE DEF ops, x, m, A, cap
  <2>5. ops[A + j].t = m[x].t /\ ops[A + j].level = 1
    BY <2>3, <2>4
  <2> QED
    BY <2>5 DEF x
<1>8. FitsType(ops, fun) <=>
        /\ Len(ops) = Len(args) + Len(cap)
        /\ \A i \in 1 .. Len(args) : ops[i].t = args[i].t /\ ops[i].level = Indirection(args[i].pass)
        /\ \A j \in 1 .. Len(cap) : ops[Len(args) + j].t = m[cap[j]].t /\ ops[Len(args) + j].level = 1
  BY DEF FitsType
<1> HIDE DEF ops, args, m, cap, A, fun
<1>9. FitsType(ops, fun)
  BY <1>4, <1>5, <1>6, <1>7, <1>8
<1> QED
  BY <1>9 DEF ops, fun

LEMMA CallCompiles ==
  ASSUME Fine, CompileCall
  PROVE  StaysFine
<1> DEFINE params == lfuns[GetFun(Node1.name)].params
           ops == CallOperands(Node1)
           f == Node1.fun
<1>1. /\ Compiling("call") /\ Node1.op = "call" /\ CodeInv /\ Emitting /\ pc \in DOMAIN ast
      /\ WellBehaved
  BY DEF CompileCall, Compiling, Fine
<1>2. /\ GetFun(Node1.name) \in DOMAIN lfuns /\ lfuns[GetFun(Node1.name)].fun = f
      /\ FunsMade(lfuns, pc) /\ pc \in Nat /\ lfuns \in Seq(LFun)
  BY <1>1, CalleeFound, BeforeNode DEF CodeInv, GenNow
<1>3. FitsType(params, f) /\ f \in DOMAIN ftypes
  BY <1>1, <1>2, FunctionFitsType
<1>4. FitsType(ops, f)
  BY <1>1, OperandsFitType
<1>5. DOMAIN params = 1 .. Len(params)
  <2>1. lfuns[GetFun(Node1.name)] \in LFun
    BY <1>2, LenProperties, ElementOfSeq
  <2>2. params \in Seq(Param)
    BY <2>1 DEF LFun
  <2> QED
    BY <2>2, LenProperties
<1> HIDE DEF params, ops, f
<1>6. Matches(ops, params)
  <2>1. Len(ops) = Len(params) /\ \A i \in 1 .. Len(params) : ops[i].t = params[i].t /\ ops[i].level = params[i].level
    BY <1>1, <1>3, <1>4, SameTypes
  <2> QED
    BY <1>5, <2>1 DEF Matches
<1>7. CallIsSupplied
  <2>1. Usable(Node1.binds)
    BY <1>1, NamesAreUsable DEF Using
  <2>2. ASSUME NEW x \in Keys(ftypes[Node1.fun].prev)
        PROVE  Addressable(x)
    <3>1. ftypes[Node1.fun].prev \in VarMap
      BY <1>1, <1>3, TypeSizes DEF f
    <3>2. x \in VarNames /\ ftypes[Node1.fun].prev[x] # None
      BY <3>1 DEF Keys, VarMap
    <3>3. SlotFits(Block1, x, ftypes[Node1.fun].prev[x])
      BY <1>1, <3>2, CapturesAreSupplied
    <3> QED
      BY <3>3 DEF SlotFits, Addressable
  <2> QED
    BY <2>1, <2>2 DEF CallIsSupplied
<1>8. CompileStatement /\ Advance
  BY <1>6, <1>7 DEF CompileCall, ops, params
<1> QED
  BY <1>1, <1>8, StatementFits DEF Statements

\* A block for parameters p has what p names, if the signature sg fits as well.
LEMMA NewBlockFits ==
  ASSUME CodeInv, WellBehaved, Emitting, pc \in DOMAIN ast, Node1.op = "define",
         NEW sg \in Seq(Param), FitsType(sg, Node1.fun)
  PROVE  BlockFits(NewBlock(NodeParams(pc), sg), Node1.fun, pc + 1)
<1> DEFINE f == Node1.fun
           h == Node1.header
           p == NodeParams(pc)
           b == NewBlock(p, sg)
           args == HeaderArgs(Node1)
           cap == AllCaptures(f)
           m == ftypes[f].prev
           A == Len(ftypes[f].args)
<1>1. pc \in 1 .. Len(ast) /\ Node1 = ast[pc] /\ pc \in Nat /\ HInv /\ GenInv /\ TapeNow
  BY BeforeNode DEF CodeInv, GenNow
<1>2. PICK ar : Whole(ar)
  BY SomeWhole
<1>3. f \in DOMAIN ftypes /\ f \in ar[f] /\ h \in Headers
  BY <1>1, <1>2, HeaderOf DEF Whole, Placed, Around
<1>4. p \in Seq(Param) /\ Named(p) /\ NamedOnce(p)
  BY <1>1, NodeParamsNamed
<1>5. /\ FitsType(p, f)
      /\ \A j \in 1 .. Len(cap) : p[A + j].name = cap[j]
  BY <1>1, NodeFitsType
<1>6. /\ Len(p) \in Nat /\ Len(p) = Len(sg)
      /\ \A i \in 1 .. Len(p) : p[i].t = sg[i].t /\ p[i].level = sg[i].level
  BY <1>3, <1>5, SameTypes
<1>7. /\ \A i \in 1 .. Len(sg) :
           /\ b.slot[p[i].name] # None
           /\ b.slot[p[i].name].t = sg[i].t
           /\ b.slot[p[i].name].level = sg[i].level
      /\ \A i \in 1 .. Len(p) : p[i].name \in b.ref <=> p[i].level = 1
  <2> DEFINE q == p
  <2>1. /\ q \in Seq(Param) /\ Named(q) /\ NamedOnce(q) /\ sg \in Seq(Param) /\ Len(sg) <= Len(q)
    BY <1>4, <1>6
  <2> HIDE DEF p
  <2>2. /\ \A i \in 1 .. Len(sg) :
             /\ NewBlock(q, sg).slot[q[i].name] # None
             /\ NewBlock(q, sg).slot[q[i].name].t = sg[i].t
             /\ NewBlock(q, sg).slot[q[i].name].level = sg[i].level
        /\ \A i \in 1 .. Len(q) : q[i].name \in NewBlock(q, sg).ref <=> q[i].level = 1
    BY <2>1, NewBlockSlots
  <2> QED
    BY <2>2 DEF b, q
<1>8. ASSUME NEW i \in 1 .. Len(p), NEW v, v.t = p[i].t
      PROVE  SlotFits(b, p[i].name, v)
  <2>1. p[i].level \in 0 .. 1
    <3> HIDE DEF p
    <3>1. p[i] \in Param
      BY <1>4, ElementOfSeq
    <3> QED
      BY <3>1 DEF Param
  <2> HIDE DEF p, b
  <2>2. /\ b.slot[p[i].name] # None /\ b.slot[p[i].name].t = v.t
        /\ b.slot[p[i].name].level = p[i].level /\ (p[i].name \in b.ref <=> p[i].level = 1)
    BY <1>6, <1>7, <1>8
  <2> QED
    BY <2>1, <2>2 DEF SlotFits
<1>9. ParamsAre(p, h, args, pc, m, CaptureList(Node1)) /\ Len(args) = Len(h.formals)
  BY <1>1, NodeParamsAre, HeaderOf DEF CapturesOf
<1>10. args = DefArgs(h) /\ args = ftypes[f].args
  BY <1>1, ArgsOfType DEF HeaderArgs
<1>11. Len(cap) \in Nat /\ cap \in Seq(VarNames) /\ A \in Nat /\ Len(p) = A + Len(cap)
  BY <1>3, <1>5, TypeSizes DEF FitsType
<1>12. ASSUME NEW x \in VarNames, NEW n, DeclaredAt(ast, n, x, f), n < pc + 1
       PROVE  SlotFits(b, x, AsDeclared(ast[n], n, x))
  <2>1. n = pc
    <3>1. ast[n].op \in Declaring /\ OwnerOf(ast[n]) = f /\ n \in 1 .. Len(ast)
      BY <1>12, DeclaresIsDeclaring DEF DeclaredAt
    <3>2. Begins(ast, f, n)
      BY <1>2, <1>3, <3>1 DEF Whole, Placed, DeclaresInside
    <3>3. ~Begins(ast, f, pc - 1)
      BY <1>1, NotYetBegun
    <3> HIDE DEF f
    <3>4. n # pc => n <= pc - 1
      BY <1>1, <1>12, <3>1
    <3>5. n # pc => Begins(ast, f, pc - 1)
      BY <1>1, <3>1, <3>2, <3>4 DEF Begins
    <3> QED
      BY <3>3, <3>5
  <2> DEFINE i == FormalIndex(h, x)
             v == AsDeclared(Node1, pc, x)
  <2>2. x \in FormalNames(h)
    BY <1>1, <1>12, <2>1 DEF DeclaredAt, Declares
  <2>3. i \in DOMAIN h.formals /\ h.formals[i].name = x
    BY <2>2 DEF FormalNames, FormalIndex
  <2>4. DOMAIN h.formals = 1 .. Len(h.formals)
    <3>1. h.formals \in Seq(Formal)
      BY <1>3, GrammarAssumption
    <3> QED
      BY <3>1, LenProperties
  <2>5. v.t = h.formals[i].t
    BY <2>1, <1>1 DEF AsDeclared
  <2>6. args[i].t = h.formals[i].t
    BY <1>10, <2>3 DEF DefArgs
  <2> HIDE DEF i, v
  <2>7. p[i].name = x /\ p[i].t = args[i].t
    <3>1. p[i] = [name |-> h.formals[i].name, node |-> pc, t |-> args[i].t,
                  level |-> Indirection(args[i].pass)]
      BY <1>9, <2>3, <2>4 DEF ParamsAre
    <3> HIDE DEF p, args
    <3> QED
      BY <2>3, <3>1
  <2>8. i \in 1 .. Len(p)
    <3>1. i \in 1 .. A
      BY <1>9, <1>10, <2>3, <2>4
    <3> HIDE DEF A, p, cap
    <3> QED
      BY <1>11, <3>1
  <2> HIDE DEF p, b, args
  <2>9. SlotFits(b, p[i].name, v)
    BY <1>8, <2>5, <2>6, <2>7, <2>8
  <2> QED
    BY <1>1, <2>1, <2>7, <2>9 DEF v
<1>13. ASSUME NEW x \in VarNames, m[x] # None
       PROVE  SlotFits(b, x, m[x])
  <2>1. PICK j \in 1 .. Len(cap) : cap[j] = x
    <3> DEFINE skip == {}
    <3>1. cap = CapturedNames(m, skip) /\ x \notin skip
      BY DEF AllCaptures
    <3> HIDE DEF skip, cap, m
    <3>2. \E j \in 1 .. Len(cap) : cap[j] = x
      BY <1>13, <3>1, EveryNameListed
    <3> QED
      BY <3>2
  <2> DEFINE i == A + j
             v == m[x]
  <2>2. p[i].name = x /\ p[i].t = v.t
    BY <1>5, <2>1 DEF FitsType
  <2>3. i \in 1 .. Len(p)
    <3> HIDE DEF A, p, cap
    <3> QED
      BY <1>11
  <2> HIDE DEF i, p, b, v
  <2>4. SlotFits(b, p[i].name, v)
    BY <1>8, <2>2, <2>3
  <2> QED
    BY <2>2, <2>4 DEF v
<1> QED
  BY <1>12, <1>13 DEF BlockFits

LEMMA DefinitionCompiles ==
  ASSUME Fine, CompileDefinition
  PROVE  StaysFine
<1> DEFINE next == pc + 1
           f == Node1.fun
           known == GetFunCurrentScope(Node1.name)
           params == NodeParams(pc)
           signature == IF known = None THEN params ELSE lfuns[known].params
<1>1. /\ CodeInv /\ WellBehaved /\ Emitting /\ pc \in DOMAIN ast /\ Node1.op = "define"
      /\ Compiling("define") /\ HInv /\ GenInv /\ TapeNow
  BY DEF Fine, CompileDefinition, Compiling, CodeInv, GenNow
<1>2. /\ pc \in 1 .. Len(ast) /\ pc \in Nat /\ next \in Nat /\ pc <= next /\ next - 1 = pc
      /\ Node1 = ast[pc] /\ blocks \in Seq(Block) /\ Len(blocks) \in Nat
      /\ lfuns \in Seq(LFun) /\ FunsMade(lfuns, pc)
      /\ \A h, ar : History(ast, h) /\ Whole(ar) => BlocksStand(h[pc - 1], pc, blocks, ar)
  BY <1>1, BeforeNode DEF CodeInv
<1>3. FitsType(params, f) /\ f \in DOMAIN ftypes
  BY <1>1, <1>2, NodeFitsType, HeaderOf
<1>4. ASSUME NEW k \in DOMAIN lfuns, lfuns[k].fun = f
      PROVE  FitsType(lfuns[k].params, f)
  BY <1>1, <1>2, <1>4, FunctionFitsType
<1>5. FitsType(signature, f)
  <2>1. CASE known = None
    BY <1>3, <2>1
  <2>2. CASE known # None
    BY <1>1, <1>4, <2>2, KnownFunction
  <2> QED
    BY <2>1, <2>2
<1>6. emit' = "emitting"
  <2>1. Len(params) \in Nat /\ Len(params) = Len(signature)
    <3> HIDE DEF params, signature, f
    <3> QED
      BY <1>1, <1>3, <1>5, SameTypes
  <2>2. params = Parameters(Node1.header, DefArgs(Node1.header), pc, ftypes[Node1.fun].prev)
    BY <1>1, <1>2 DEF NodeParams, HeaderArgs, CapturesOf
  <2>3. ~(Len(signature) > Len(params))
    <3> HIDE DEF params, signature
    <3> QED
      BY <2>1
  <2> HIDE DEF params
  <2> QED
    BY <1>1, <2>2, <2>3 DEF CompileDefinition, Advance, Emitting
<1>7. PICK sg : Signs(sg) /\ blocks' = Append(blocks, NewBlock(NodeParams(pc), sg))
  BY <1>1, <1>6, DefinitionStep
<1>8. pc' = next /\ at' = Len(blocks) + 1
  BY <1>1, <1>6, DefinitionStep
<1>9. sg \in Seq(Param) /\ FitsType(sg, f)
  BY <1>3, <1>4, <1>7 DEF Signs
<1> DEFINE c == NewBlock(NodeParams(pc), sg)
           cs == Append(blocks, c)
<1>10. BlockFits(c, f, next)
  BY <1>1, <1>9, NewBlockFits
<1> HIDE DEF c
<1>11. blocks' = cs /\ Len(cs) = Len(blocks) + 1
  <2>1. Len(Append(blocks, c)) = Len(blocks) + 1
    BY <1>2
  <2> QED
    BY <1>7, <2>1 DEF c
<1>12. PICK ar : Whole(ar)
  BY <1>1, SomeWhole
<1> HIDE DEF cs, params, signature
<1>13. ASSUME NEW h, History(ast, h)
       PROVE  BlocksFit(h[next - 1], next, cs)
  <2> DEFINE a == h[pc - 1]
             b == h[pc]
             node == ast[pc]
  <2>1. a \in Moment /\ Moves(node, a, b) /\ node.op = "define"
    BY <1>1, <1>2, <1>13, HistoryAt DEF HInv, IInv, TypeOK
  <2>2. BlocksStand(a, pc, blocks, ar) /\ BlocksFit(a, pc, blocks)
    BY <1>2, <1>12, <1>13 DEF Fine, WellFits
  <2>3. node.fun = f
    BY <1>2
  <2> HIDE DEF a, b, node
  <2>4. Opens(node, a, b)
    BY <2>1, DefinitionOpens
  <2>5. /\ \A k \in 1 .. Len(blocks) : FunOf(b, k) = FunOf(a, k) /\ cs[k] = blocks[k]
        /\ FunOf(b, Len(blocks) + 1) = f /\ cs[Len(blocks) + 1] = c
        /\ \A k \in 1 .. Len(cs) : k = Len(blocks) + 1 \/ k \in 1 .. Len(blocks)
    <3> DEFINE bs == blocks
    <3>1. bs \in Seq(Block) /\ Len(bs) = Len(a.walk) /\ Len(a.scopes) = Len(a.walk) + 2
          /\ cs = Append(bs, c)
      BY <1>2, <2>2 DEF BlocksStand, cs
    <3> HIDE DEF bs, f
    <3>2. /\ \A k \in 1 .. Len(bs) : FunOf(b, k) = FunOf(a, k) /\ cs[k] = bs[k]
          /\ FunOf(b, Len(bs) + 1) = node.fun /\ cs[Len(bs) + 1] = c
          /\ \A k \in 1 .. Len(cs) : k = Len(bs) + 1 \/ k \in 1 .. Len(bs)
      BY <2>4, <3>1, OpenedFunctions
    <3> QED
      BY <2>3, <3>2 DEF bs
  <2>6. ASSUME NEW k \in 1 .. Len(cs)
        PROVE  BlockFits(cs[k], FunOf(b, k), next)
    <3>1. CASE k = Len(blocks) + 1
      BY <1>10, <2>5, <3>1
    <3>2. CASE k \in 1 .. Len(blocks)
      <4> DEFINE g == FunOf(a, k)
                 d == blocks[k]
      <4>1. BlockFits(d, g, pc)
        BY <2>2, <3>2 DEF BlocksFit
      <4>2. Begins(ast, g, pc - 1)
        BY <2>2, <3>2 DEF BlocksStand, Standing
      <4>3. g # f
        BY <1>1, <1>2, <4>2, NotYetBegun
      <4> HIDE DEF g, d
      <4>4. \A l \in pc .. next - 1 : ast[l].op \in Declaring => OwnerOf(ast[l]) # g
        BY <1>1, <1>2, <4>3 DEF OwnerOf
      <4> HIDE DEF next
      <4>5. BlockFits(d, g, next)
        BY <1>2, <4>1, <4>4, FitsLater
      <4> QED
        BY <2>5, <3>2, <4>5 DEF g, d
    <3> QED
      BY <2>5, <3>1, <3>2
  <2>7. h[next - 1] = b
    BY <1>2 DEF b
  <2> QED
    BY <2>6, <2>7 DEF BlocksFit
<1> HIDE DEF next
<1> QED
  BY <1>6, <1>8, <1>11, <1>13 DEF StaysFine, WellFits

-----------------------------------------------------------------------------
(* What sem() accepts compiles.                                              *)

\* The program captures nothing and has no formals, so its function takes none.
LEMMA WriteCompiles ==
  ASSUME CodeInv, WellBehaved, Write
  PROVE  emit' = "written"
<1> DEFINE r == lfuns[Len(Library) + 1]
           f == ast[1].fun
<1>1. Emitting /\ pc = Len(ast) + 1 /\ ast # <<>>
  BY DEF Write, Emitting, CodeInv, LibraryInv
<1>2. HInv /\ Len(ast) \in Nat /\ Len(ast) >= 1 /\ lfuns \in Seq(LFun)
  <2>1. HInv /\ ast \in Seq(Node) /\ lfuns \in Seq(LFun)
    BY DEF CodeInv, GenNow, HInv, IInv, TypeOK, GenInv, Typed
  <2> QED
    BY <1>1, <2>1, LenProperties, EmptySeq
<1>3. Len(Library) + 1 \in DOMAIN lfuns /\ MadeAt(r, 1)
  BY <1>1, <1>2 DEF CodeInv, GenPlaced, Emitting, FunsMade
<1>4. PICK ar : Whole(ar)
  BY <1>1, SomeWhole
<1>5. 1 \in 1 .. Len(ast) /\ ast[1].op = "define" /\ ar[f] = {f}
  BY <1>2, <1>4 DEF Whole, Placed, ProgramFirst
<1>6. f \in DOMAIN ftypes /\ ast[1].header \in Headers
  BY <1>2, <1>5, HeaderOf
<1>7. Len(AllCaptures(f)) = 0
  <2>1. \A x \in VarNames : ftypes[f].prev[x] = None
    BY <1>4, <1>5, <1>6 DEF Whole, Placed, CapturesAround
  <2> HIDE DEF f
  <2> QED
    BY <1>1, <1>6, <2>1, CapturesNothing
<1>8. Len(ftypes[f].args) = 0
  <2>1. Len(ftypes[f].args) = Len(ast[1].header.formals)
    BY <1>4, <1>5, <1>6, FormalsOfType
  <2> QED
    BY <2>1 DEF WellBehaved
<1>9. FitsType(r.params, f)
  BY <1>1, <1>3, <1>5, NodeFitsType DEF MadeAt
<1>10. Len(r.params) = 0 /\ r.params \in Seq(Param)
  <2>1. r \in LFun
    BY <1>2, <1>3, ElementOfSeq
  <2> QED
    BY <1>7, <1>8, <1>9, <2>1 DEF FitsType, LFun
<1>11. r.params = <<>>
  BY <1>10, EmptySeq
<1> QED
  BY <1>11 DEF Write

\* Nothing is broken yet, and every block has the variables of its function.
GenFits ==
  /\ WellBehavedCompiles
  /\ Emitting /\ WellBehaved => WellFits(pc, blocks, at)

\* WellBehaved speaks of the tree and the types only.
LEMMA StaysBehaved ==
  ASSUME UNCHANGED vars
  PROVE  WellBehaved' <=> WellBehaved
<1>1. ast' = ast /\ ftypes' = ftypes
  BY DEF vars
<1>2. NoShadowing' <=> NoShadowing
  BY <1>1 DEF NoShadowing, Declared, Span, Owner
<1>3. DeclarationsAgree' <=> DeclarationsAgree
  BY <1>1 DEF DeclarationsAgree
<1>4. ReferencesAreVariables' <=> ReferencesAreVariables
  BY <1>1 DEF ReferencesAreVariables
<1> QED
  BY <1>1, <1>2, <1>3, <1>4 DEF WellBehaved, SuppliesCaptures

LEMMA StaysFitting ==
  ASSUME UNCHANGED vars, WellFits(pc', blocks', at')
  PROVE  WellFits(pc, blocks, at)'
<1>1. ast' = ast /\ ftypes' = ftypes
  BY DEF vars
<1> QED
  BY <1>1 DEF WellFits, BlocksFit, BlockFits

LEMMA InitFits ==
  ASSUME CompilerInit
  PROVE  GenFits
<1>1. outcome = "walking" /\ emit = "emitting"
  BY DEF CompilerInit, Init, GenInit
<1> QED
  BY <1>1 DEF GenFits, WellBehavedCompiles, Emitting

LEMMA GenerateFits ==
  ASSUME TRUE \notin UninitBool, CodeInv, GenFits, Generate, UNCHANGED vars
  PROVE  GenFits'
<1>1. Emitting
  BY DEF Generate, Write, CompileDeclaration, CompileDefinition, CompileVarList, CompileUse,
    CompileSkip, CompileCall, CompileReturn, CompileEnd, Compiling
<1>2. CASE ~WellBehaved
  BY <1>2, StaysBehaved DEF GenFits, WellBehavedCompiles
<1>3. CASE WellBehaved /\ Write
  <2>1. emit' = "written"
    BY <1>3, WriteCompiles
  <2> QED
    BY <2>1 DEF GenFits, WellBehavedCompiles, Emitting
<1>4. CASE WellBehaved /\ ~Write
  <2>1. pc \in DOMAIN ast
    BY <1>4 DEF Generate, CompileDeclaration, CompileDefinition, CompileVarList, CompileUse,
      CompileSkip, CompileCall, CompileReturn, CompileEnd, Compiling
  <2>2. Fine
    BY <1>1, <1>4, <2>1 DEF Fine, GenFits
  <2>3. StaysFine
    BY <1>4, <2>2, DeclarationFits, DefinitionCompiles, VarListFits, UseAndSkipFit, CallCompiles,
      ReturnFits, ClosingFits DEF Generate
  <2> QED
    BY <2>3, StaysFitting DEF StaysFine, GenFits, WellBehavedCompiles, Emitting
<1> QED
  BY <1>2, <1>3, <1>4

LEMMA PassFits ==
  ASSUME CodeInv, GenFits, [Next]_vars, UNCHANGED cgvars
  PROVE  GenFits'
<1>1. pc' = pc /\ at' = at /\ blocks' = blocks /\ emit' = emit
  BY DEF cgvars
<1>2. CASE UNCHANGED vars
  <2>1. outcome' = outcome
    BY <1>2 DEF vars
  <2> QED
    BY <1>1, <1>2, <2>1, StaysBehaved, StaysFitting DEF GenFits, WellBehavedCompiles, Emitting
<1>3. CASE ~UNCHANGED vars
  <2>1. outcome # "accepted"
    BY <1>3, FinishedStays
  <2>2. emit = "emitting" /\ GenInit
    BY <2>1 DEF CodeInv, GenNow, GenInv, GenPlaced
  <2>3. blocks = <<>>
    BY <2>2, GenInitLibrary
  <2>4. WellFits(pc, blocks, at)'
    BY <1>1, <2>3 DEF WellFits, BlocksFit
  <2> QED
    BY <1>1, <2>2, <2>4 DEF GenFits, WellBehavedCompiles
<1> QED
  BY <1>2, <1>3

\* What sem() accepts compiles to a verified module, for every well-behaved
\* program: names, signatures and operands of captured variables fit together at
\* declarations, definitions and calls (llvm/ast.cpp:763-796, 853-880, 898-907),
\* as long as no uninitialized flag is read as true, as isRef of a list of
\* variables and isMain of a function may be (semantic.cpp:279, llvm/ast.cpp:941).
THEOREM WellBehavedIsCompiled ==
  ASSUME TRUE \notin UninitBool
  PROVE  CompilerSpec => []WellBehavedCompiles
<1>1. CompilerInit => CodeInv /\ GenFits
  BY InitCode, InitFits
<1>2. CodeInv /\ GenFits /\ [CompilerNext]_allvars => (CodeInv /\ GenFits)'
  <2> SUFFICES ASSUME CodeInv, GenFits, [CompilerNext]_allvars PROVE CodeInv' /\ GenFits'
    OBVIOUS
  <2>1. [Next]_vars /\ (UNCHANGED cgvars \/ (Generate /\ UNCHANGED vars))
    BY DEF CompilerNext, allvars
  <2> QED
    BY <2>1, NextCode, GenerateFits, PassFits
<1>3. CodeInv /\ GenFits => WellBehavedCompiles
  BY DEF GenFits
<1> QED
  BY <1>1, <1>2, <1>3, PTL DEF CompilerSpec
=============================================================================
