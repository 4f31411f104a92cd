--------------------------- MODULE SemanticProofs ---------------------------
(* Proofs about Semantic, for every choice of its constants: the types, the  *)
(* shape of the symbol table, and that the captures of a function are always *)
(* visible where the function is, so that the pass never follows the         *)
(* uninitialised function pointer of the outermost scopes; and that what it  *)
(* leaves on the tape for the code generator is consistent.                  *)
EXTENDS Semantic, SequenceTheorems, TLAPS

-----------------------------------------------------------------------------
(* Captured variables.                                                       *)

\* Adding captures to one function type changes its `prev` and nothing else.
LEMMA AddCapturesProperties ==
  ASSUME NEW fts \in Seq(FType), NEW fn \in DOMAIN fts, NEW m \in VarMap
  PROVE  /\ AddCaptures(fts, fn, m) \in Seq(FType)
         /\ Len(AddCaptures(fts, fn, m)) = Len(fts)
         /\ DOMAIN AddCaptures(fts, fn, m) = DOMAIN fts
         /\ \A k \in DOMAIN fts :
              AddCaptures(fts, fn, m)[k].prev =
                IF k = fn THEN Override(fts[fn].prev, m) ELSE fts[k].prev
<1> DEFINE new == [fts[fn] EXCEPT !.prev = Override(@, m)]
<1>1. fn \in 1 .. Len(fts) /\ DOMAIN fts = 1 .. Len(fts) /\ Len(fts) \in Nat
  BY LenProperties
<1>2. fts[fn] \in FType
  BY <1>1, ElementOfSeq
<1>3. Override(fts[fn].prev, m) \in VarMap
  BY <1>2 DEF FType, VarMap, Override
<1>4. new \in FType /\ new.prev = Override(fts[fn].prev, m)
  BY <1>2, <1>3 DEF FType
<1>5. AddCaptures(fts, fn, m) = [fts EXCEPT ![fn] = new]
  BY DEF AddCaptures
<1>6. /\ [fts EXCEPT ![fn] = new] \in Seq(FType)
      /\ Len([fts EXCEPT ![fn] = new]) = Len(fts)
      /\ \A k \in 1 .. Len(fts) :
           [fts EXCEPT ![fn] = new][k] = IF k = fn THEN new ELSE fts[k]
  <2> HIDE DEF new
  <2> QED BY <1>1, <1>4, ExceptSeq
<1>7. DOMAIN AddCaptures(fts, fn, m) = 1 .. Len(fts)
  BY <1>1, <1>5
<1> QED
  BY <1>1, <1>4, <1>5, <1>6, <1>7

\* A name that resolves has one level it resolves at.
LEMMA LevelResolves ==
  ASSUME NEW n, Visible(n)
  PROVE  Level(n) \in DOMAIN scopes /\ Resolves(n, Level(n))
BY DEF Visible, Level

\* In an open definition the current scope has a function of its own.
LEMMA InsideDefinition ==
  ASSUME TypeOK, InBody
  PROVE  /\ Len(scopes) \in Nat /\ Len(scopes) > 2
         /\ DOMAIN scopes = 1 .. Len(scopes)
         /\ Top \in Scope /\ Parent \in Scope
         /\ Top.fun \in DOMAIN ftypes
         /\ \A k \in DOMAIN scopes : scopes[k] \in Scope
         /\ Len(walk) \in Nat /\ Len(walk) > 0
<1>1. Len(walk) \in Nat /\ Len(walk) > 0
  BY EmptySeq, LenProperties DEF TypeOK, InBody
<1>2. Len(scopes) = Len(walk) + 2 /\ DOMAIN scopes = 1 .. Len(scopes)
  BY LenProperties DEF TypeOK, InBody
<1>3. \A k \in DOMAIN scopes : scopes[k] \in Scope
  BY <1>2, ElementOfSeq DEF TypeOK
<1>4. Top.fun \in DOMAIN ftypes
  BY <1>1, <1>2 DEF TypeOK, Top
<1> QED
  BY <1>1, <1>2, <1>3, <1>4 DEF Top, Parent

LEMMA NotLocalToProperties ==
  ASSUME NEW s \in Scope, NEW m \in VarMap
  PROVE  /\ NotLocalTo(s, m) \in VarMap
         /\ \A x \in VarNames : NotLocalTo(s, m)[x] # None =>
              s.locals[x] = None /\ m[x] # None
BY DEF NotLocalTo, VarMap

\* Operands that are variables have the type of a variable in some scope.
LEMMA BindingsProperties ==
  ASSUME TypeOK, InBody, NEW os, \A x \in os \cap VarNames : IsVar(x)
  PROVE  /\ Bindings(os) \in VarMap
         /\ \A x \in VarNames : Bindings(os)[x] # None =>
              \E j \in DOMAIN scopes : IsLocal(x, j)
<1>1. ASSUME NEW x \in VarNames, x \in os
      PROVE  Level(x) \in DOMAIN scopes /\ IsLocal(x, Level(x)) /\ Var(x) \in VarType
  <2>1. Level(x) \in DOMAIN scopes /\ IsLocal(x, Level(x))
    BY <1>1, LevelResolves DEF IsVar
  <2>2. scopes[Level(x)] \in Scope
    BY <2>1, InsideDefinition
  <2> QED
    BY <2>1, <2>2 DEF Var, IsLocal, Scope, VarMap
<1> QED
  BY <1>1 DEF Bindings, VarMap

\* Captured operands are variables of the scopes around the current one.
LEMMA CapturedByProperties ==
  ASSUME TypeOK, InBody, NEW os, \A x \in os \cap VarNames : IsVar(x)
  PROVE  /\ CapturedBy(os) \in VarMap
         /\ \A x \in VarNames : CapturedBy(os)[x] # None =>
              /\ Top.locals[x] = None
              /\ \E j \in DOMAIN scopes : IsLocal(x, j)
BY InsideDefinition, BindingsProperties, NotLocalToProperties DEF CapturedBy

\* CapturesVisible with the function types fts.
VisibleIn(fts) ==
  \A k \in DOMAIN scopes, n \in FunNames, x \in VarNames :
    /\ scopes[k].functions[n] # None
    /\ fts[scopes[k].functions[n]].prev[x] # None
    => \E j \in 1 .. k : IsLocal(x, j)

\* The current function is registered one scope further out, and there only:
\* it may capture every variable that is not local to the current scope.
LEMMA CurrentFunctionCaptures ==
  ASSUME TypeOK, InBody, ScopesAreLinked,
         NEW fts \in Seq(FType), DOMAIN fts = DOMAIN ftypes, VisibleIn(fts),
         NEW m \in VarMap,
         \A x \in VarNames : m[x] # None =>
           /\ Top.locals[x] = None
           /\ \E j \in DOMAIN scopes : IsLocal(x, j)
  PROVE  VisibleIn(AddCaptures(fts, Top.fun, m))
<1> DEFINE new == AddCaptures(fts, Top.fun, m)
<1>1. /\ Len(scopes) \in Nat /\ Len(scopes) > 2 /\ DOMAIN scopes = 1 .. Len(scopes)
      /\ Top.fun \in DOMAIN fts /\ Top = scopes[Len(scopes)]
      /\ \A k \in DOMAIN scopes : scopes[k] \in Scope
  BY InsideDefinition DEF Top
<1>2. \A k \in DOMAIN fts :
        new[k].prev = IF k = Top.fun THEN Override(fts[Top.fun].prev, m) ELSE fts[k].prev
  BY <1>1, AddCapturesProperties
<1> HIDE DEF new
<1> SUFFICES ASSUME NEW k \in DOMAIN scopes, NEW n \in FunNames, NEW x \in VarNames,
                    scopes[k].functions[n] # None,
                    new[scopes[k].functions[n]].prev[x] # None
             PROVE  \E j \in 1 .. k : IsLocal(x, j)
  BY DEF VisibleIn, new
<1>3. scopes[k].functions[n] \in DOMAIN fts
  BY DEF TypeOK
<1>4. CASE fts[scopes[k].functions[n]].prev[x] # None
  BY <1>4 DEF VisibleIn
<1>5. CASE fts[scopes[k].functions[n]].prev[x] = None
  <2>1. scopes[k].functions[n] = Top.fun /\ m[x] # None
    <3> DEFINE fn == scopes[k].functions[n]
    <3>1. fn = Top.fun
      BY <1>2, <1>3, <1>5
    <3>2. new[fn].prev[x] = Override(fts[Top.fun].prev, m)[x]
      BY <1>2, <1>3, <3>1
    <3>3. Override(fts[Top.fun].prev, m)[x] = IF m[x] # None THEN m[x] ELSE fts[Top.fun].prev[x]
      BY DEF Override
    <3> QED
      BY <1>5, <3>1, <3>2, <3>3
  <2>2. k = Len(scopes) - 1
    <3>1. PICK p \in FunNames : scopes[Len(scopes) - 1].functions[p] = Top.fun
      BY <1>1 DEF ScopesAreLinked, FunctionsRegistered
    <3>2. Len(scopes) - 1 \in DOMAIN scopes
      BY <1>1
    <3> QED
      BY <2>1, <3>1, <3>2 DEF ScopesAreLinked, RegisteredOnce
  <2>3. PICK j \in DOMAIN scopes : IsLocal(x, j)
    BY <2>1
  <2>4. Top.locals[x] = None
    BY <2>1
  <2>5. j # Len(scopes)
    BY <1>1, <2>3, <2>4 DEF IsLocal
  <2> QED
    BY <1>1, <2>2, <2>3, <2>5
<1> QED
  BY <1>4, <1>5

\* What a call makes of the function types.
LEMMA CallCaptures ==
  ASSUME TypeOK, InBody, ScopesAreLinked, CapturesVisible,
         NEW name \in FunNames, NEW args \in ArgLists, WellTypedCall(name, args)
  PROVE  /\ Fun(name) \in DOMAIN ftypes
         /\ AfterCall(Fun(name), args) \in Seq(FType)
         /\ DOMAIN AfterCall(Fun(name), args) = DOMAIN ftypes
         /\ VisibleIn(AfterCall(Fun(name), args))
<1> DEFINE os == Elements(args)
           fn == Fun(name)
<1>1. /\ Len(scopes) \in Nat /\ Len(scopes) > 2 /\ DOMAIN scopes = 1 .. Len(scopes)
      /\ Top.fun \in DOMAIN ftypes /\ Top \in Scope /\ ftypes \in Seq(FType)
  BY InsideDefinition DEF TypeOK
<1>2. \A x \in os \cap VarNames : IsVar(x)
  BY DEF WellTypedCall, HasType, Names, Elements
<1>3. /\ CapturedBy(os) \in VarMap
      /\ \A x \in VarNames : CapturedBy(os)[x] # None =>
           Top.locals[x] = None /\ \E j \in DOMAIN scopes : IsLocal(x, j)
  <2> HIDE DEF os
  <2> QED BY <1>2, CapturedByProperties
<1> DEFINE mid == AddCaptures(ftypes, Top.fun, CapturedBy(os))
<1>4. mid \in Seq(FType) /\ DOMAIN mid = DOMAIN ftypes
  BY <1>1, <1>3, AddCapturesProperties
<1>5. VisibleIn(mid)
  <2>1. VisibleIn(ftypes)
    BY DEF VisibleIn, CapturesVisible
  <2> HIDE DEF os
  <2> QED BY <1>1, <1>3, <2>1, CurrentFunctionCaptures
<1>6. Level(name) \in DOMAIN scopes /\ scopes[Level(name)].functions[name] # None
  BY LevelResolves DEF WellTypedCall, IsFun, Resolves, IsNested
<1>7. fn \in DOMAIN ftypes
  BY <1>6 DEF TypeOK, Fun
<1> HIDE DEF mid
<1>8. mid[fn].prev \in VarMap
  <2>1. mid[fn] \in FType
    BY <1>4, <1>7, LenProperties, ElementOfSeq
  <2> QED BY <2>1 DEF FType
<1>9. /\ NotLocalTo(Top, mid[fn].prev) \in VarMap
      /\ \A x \in VarNames : NotLocalTo(Top, mid[fn].prev)[x] # None =>
           /\ Top.locals[x] = None
           /\ \E j \in DOMAIN scopes : IsLocal(x, j)
  <2>1. \A x \in VarNames : mid[fn].prev[x] # None => \E j \in DOMAIN scopes : IsLocal(x, j)
    BY <1>1, <1>5, <1>6 DEF VisibleIn, Fun
  <2> HIDE DEF fn
  <2> QED BY <1>1, <1>8, <2>1, NotLocalToProperties
<1>10. AfterCall(fn, args) = AddCaptures(mid, Top.fun, NotLocalTo(Top, mid[fn].prev))
  BY DEF AfterCall, AfterArgs, mid
<1> HIDE DEF fn
<1>11. /\ AfterCall(fn, args) \in Seq(FType)
       /\ DOMAIN AfterCall(fn, args) = DOMAIN ftypes
  BY <1>1, <1>4, <1>9, <1>10, AddCapturesProperties
<1>12. VisibleIn(AfterCall(fn, args))
  BY <1>4, <1>5, <1>9, <1>10, CurrentFunctionCaptures
<1> QED
  BY <1>7, <1>11, <1>12 DEF fn

-----------------------------------------------------------------------------
(* The inductive invariant, action by action.                                *)

IInv == TypeOK /\ ScopesAreLinked /\ CapturesVisible /\ NoUninitialisedAccess

\* A stopped compiler has empty state.
LEMMA StopStep ==
  ASSUME Stop("rejected")
  PROVE  IInv'
BY EmptySeq DEF Stop, IInv, TypeOK, Walking, ScopesAreLinked, OuterScopesEmpty,
  FunctionsRegistered, RegisteredOnce, CapturesVisible,
  NoUninitialisedAccess

\* The node a handler records keeps the tape well-typed.
LEMMA RecordStep ==
  ASSUME TypeOK, NEW node \in Node, Record(node)
  PROVE  ast' \in Seq(Node)
BY AppendProperties DEF TypeOK, Record

LEMMA StatementStep ==
  ASSUME IInv, InBody, NEW node \in Node, Record(node), Statement, UNCHANGED outcome,
         NEW fts \in Seq(FType), ftypes' = fts, DOMAIN fts = DOMAIN ftypes, VisibleIn(fts),
         scopes' = scopes \/ scopes' = MarkReturn
  PROVE  IInv'
<1>1. /\ Len(scopes) \in Nat /\ Len(scopes) > 2 /\ DOMAIN scopes = 1 .. Len(scopes)
      /\ \A k \in DOMAIN scopes : scopes[k] \in Scope
      /\ Len(walk) \in Nat /\ Len(walk) > 0 /\ walk \in Seq({"defs", "body"})
      /\ outcome = "walking" /\ Len(scopes) = Len(walk) + 2
  BY InsideDefinition DEF IInv, TypeOK, InBody, Walking
<1>2. walk' \in Seq({"defs", "body"}) /\ Len(walk') = Len(walk)
  BY <1>1, ExceptSeq DEF Statement
<1>3. /\ scopes' \in Seq(Scope) /\ Len(scopes') = Len(scopes) /\ DOMAIN scopes' = DOMAIN scopes
      /\ \A k \in DOMAIN scopes :
           /\ scopes'[k].locals = scopes[k].locals
           /\ scopes'[k].functions = scopes[k].functions
           /\ scopes'[k].fun = scopes[k].fun
  <2>1. CASE scopes' = scopes
    BY <2>1 DEF IInv, TypeOK
  <2>2. CASE scopes' = MarkReturn
    <3> DEFINE new == [scopes[Len(scopes)] EXCEPT !.hasReturn = TRUE]
    <3>1. /\ new \in Scope /\ new.locals = scopes[Len(scopes)].locals
          /\ new.functions = scopes[Len(scopes)].functions /\ new.fun = scopes[Len(scopes)].fun
      <4>1. scopes[Len(scopes)] \in Scope
        BY <1>1
      <4> QED
        BY <4>1 DEF Scope
    <3>2. scopes' = [scopes EXCEPT ![Len(scopes)] = new]
      BY <2>2 DEF MarkReturn
    <3> HIDE DEF new
    <3>3. /\ scopes' \in Seq(Scope) /\ Len(scopes') = Len(scopes)
          /\ \A k \in 1 .. Len(scopes) :
               scopes'[k] = IF k = Len(scopes) THEN new ELSE scopes[k]
      BY <1>1, <3>1, <3>2, ExceptSeq DEF IInv, TypeOK
    <3> QED
      BY <1>1, <3>1, <3>3, LenProperties
  <2> QED
    BY <2>1, <2>2
<1>4. TypeOK'
  BY <1>1, <1>2, <1>3, RecordStep DEF IInv, TypeOK, Walking
<1>5. ScopesAreLinked'
  <2>1. OuterScopesEmpty' /\ RegisteredOnce'
    BY <1>3 DEF IInv, ScopesAreLinked, OuterScopesEmpty, RegisteredOnce
  <2>2. FunctionsRegistered'
    <3> SUFFICES ASSUME NEW k \in DOMAIN scopes, k > 2
                 PROVE  \E n \in FunNames : scopes'[k - 1].functions[n] = scopes'[k].fun
      BY <1>3 DEF FunctionsRegistered
    <3>1. k - 1 \in DOMAIN scopes
      BY <1>1
    <3> QED
      BY <1>3, <3>1 DEF IInv, ScopesAreLinked, FunctionsRegistered
  <2> QED
    BY <2>1, <2>2 DEF ScopesAreLinked
<1>6. CapturesVisible'
  <2> SUFFICES ASSUME NEW k \in DOMAIN scopes, NEW n \in FunNames, NEW x \in VarNames,
                      scopes[k].functions[n] # None,
                      fts[scopes[k].functions[n]].prev[x] # None
               PROVE  \E j \in 1 .. k : x \in VarNames /\ scopes'[j].locals[x] # None
    BY <1>3 DEF CapturesVisible, IsLocal
  <2>1. PICK j \in 1 .. k : IsLocal(x, j)
    BY DEF VisibleIn
  <2>2. j \in DOMAIN scopes
    BY <1>1
  <2> QED
    BY <1>3, <2>1, <2>2 DEF IsLocal
<1>7. NoUninitialisedAccess'
  BY <1>1 DEF NoUninitialisedAccess
<1> QED
  BY <1>4, <1>5, <1>6, <1>7 DEF IInv

\* An expression statement captures the operands os.
LEMMA CaptureStep ==
  ASSUME IInv, InBody, NEW os, \A x \in os \cap VarNames : IsVar(x),
         NEW node \in Node, Record(node), Statement, UNCHANGED outcome, Capture(os),
         scopes' = scopes \/ scopes' = MarkReturn
  PROVE  IInv'
<1> DEFINE fts == AddCaptures(ftypes, Top.fun, CapturedBy(os))
<1>1. /\ CapturedBy(os) \in VarMap
      /\ \A x \in VarNames : CapturedBy(os)[x] # None =>
           Top.locals[x] = None /\ \E j \in DOMAIN scopes : IsLocal(x, j)
  BY CapturedByProperties DEF IInv
<1>2. Top.fun \in DOMAIN ftypes /\ ftypes \in Seq(FType)
  BY InsideDefinition DEF IInv, TypeOK
<1>3. fts \in Seq(FType) /\ DOMAIN fts = DOMAIN ftypes
  BY <1>1, <1>2, AddCapturesProperties
<1>4. VisibleIn(ftypes)
  BY DEF IInv, CapturesVisible, VisibleIn
<1>5. VisibleIn(fts)
  BY <1>1, <1>2, <1>4, CurrentFunctionCaptures DEF IInv
<1>6. ftypes' = fts
  BY DEF Capture
<1> HIDE DEF fts
<1> QED
  BY <1>3, <1>5, <1>6, StatementStep

LEMMA AssignStep ==
  ASSUME IInv, NEW x \in VarNames, NEW o \in Operands, Assign(x, o)
  PROVE  IInv'
<1>1. CASE ~(IsVar(x) /\ HasType(o, Var(x).t))
  BY <1>1, StopStep DEF Assign
<1>2. CASE IsVar(x) /\ HasType(o, Var(x).t)
  <2> DEFINE node == [op |-> "assign", target |-> x, operand |-> o,
                      binds |-> Bindings({x, o}), by |-> Top.fun]
  <2>1. \A v \in {x, o} \cap VarNames : IsVar(v)
    BY <1>2 DEF HasType, Names
  <2>2. Record(node) /\ Capture({x, o}) /\ Statement /\ UNCHANGED <<scopes, outcome>> /\ InBody
    BY <1>2 DEF Assign
  <2>3. node \in Node
    <3>1. Bindings({x, o}) \in VarMap
      BY <2>1, <2>2, BindingsProperties DEF IInv
    <3>2. Top.fun \in Nat
      BY <2>2, InsideDefinition, LenProperties DEF IInv, TypeOK
    <3> QED
      BY <3>1, <3>2 DEF Node
  <2> HIDE DEF node
  <2> QED
    BY <2>1, <2>2, <2>3, CaptureStep
<1> QED
  BY <1>1, <1>2

LEMMA ReturnStep ==
  ASSUME IInv, NEW o \in Operands, Return(o)
  PROVE  IInv'
<1>1. CASE ~HasType(o, Top.ret)
  BY <1>1, StopStep DEF Return
<1>2. CASE HasType(o, Top.ret)
  <2> DEFINE node == [op |-> "return", operand |-> o, binds |-> Bindings({o}), by |-> Top.fun]
  <2>1. InBody /\ Record(node) /\ Capture({o}) /\ Statement /\ UNCHANGED outcome /\ scopes' = MarkReturn
    BY <1>2 DEF Return
  <2>2. \A v \in {o} \cap VarNames : IsVar(v)
    BY <1>2 DEF HasType, Names
  <2>3. node \in Node
    <3>1. Bindings({o}) \in VarMap
      BY <2>1, <2>2, BindingsProperties DEF IInv
    <3>2. Top.fun \in Nat
      BY <2>1, InsideDefinition, LenProperties DEF IInv, TypeOK
    <3> QED
      BY <3>1, <3>2 DEF Node
  <2> HIDE DEF node
  <2> QED
    BY <2>1, <2>2, <2>3, CaptureStep
<1> QED
  BY <1>1, <1>2

LEMMA ConditionStep ==
  ASSUME IInv, NEW o \in Operands, Condition(o)
  PROVE  IInv'
<1>1. CASE ~HasType(o, "bool")
  BY <1>1, StopStep DEF Condition
<1>2. CASE HasType(o, "bool")
  <2> DEFINE node == [op |-> "condition", operand |-> o, binds |-> Bindings({o}), by |-> Top.fun]
  <2>1. InBody /\ Record(node) /\ Capture({o}) /\ Statement /\ UNCHANGED <<scopes, outcome>>
    BY <1>2 DEF Condition
  <2>2. \A v \in {o} \cap VarNames : IsVar(v)
    BY <1>2 DEF HasType, Names
  <2>3. node \in Node
    <3>1. Bindings({o}) \in VarMap
      BY <2>1, <2>2, BindingsProperties DEF IInv
    <3>2. Top.fun \in Nat
      BY <2>1, InsideDefinition, LenProperties DEF IInv, TypeOK
    <3> QED
      BY <3>1, <3>2 DEF Node
  <2> HIDE DEF node
  <2> QED
    BY <2>1, <2>2, <2>3, CaptureStep
<1> QED
  BY <1>1, <1>2

LEMMA ExitStep ==
  ASSUME IInv, Exit
  PROVE  IInv'
<1>1. CASE Top.ret # "void"
  BY <1>1, StopStep DEF Exit
<1>2. CASE Top.ret = "void"
  <2> DEFINE node == [op |-> "exit", by |-> Top.fun]
  <2>1. InBody /\ Record(node) /\ Statement /\ UNCHANGED <<scopes, ftypes, outcome>>
    BY <1>2 DEF Exit
  <2>2. node \in Node
    BY <2>1, InsideDefinition, LenProperties DEF Node, IInv, TypeOK
  <2>3. VisibleIn(ftypes) /\ ftypes \in Seq(FType)
    BY DEF IInv, TypeOK, CapturesVisible, VisibleIn
  <2> HIDE DEF node
  <2> QED
    BY <2>1, <2>2, <2>3, StatementStep
<1> QED
  BY <1>1, <1>2

LEMMA SkipStep ==
  ASSUME IInv, Skip
  PROVE  IInv'
<1> DEFINE node == [op |-> "skip"]
<1>1. InBody /\ Record(node) /\ Statement /\ UNCHANGED <<scopes, ftypes, outcome>>
  BY DEF Skip, InDefs, InBody
<1>2. node \in Node
  BY DEF Node
<1>3. VisibleIn(ftypes) /\ ftypes \in Seq(FType)
  BY DEF IInv, TypeOK, CapturesVisible, VisibleIn
<1> HIDE DEF node
<1> QED
  BY <1>1, <1>2, <1>3, StatementStep

LEMMA CallStep ==
  ASSUME IInv, NEW name \in FunNames, NEW args \in ArgLists, Call(name, args)
  PROVE  IInv'
<1>1. CASE ~WellTypedCall(name, args)
  BY <1>1, StopStep DEF Call
<1>2. CASE WellTypedCall(name, args)
  <2> DEFINE fn   == Fun(name)
             node == [op |-> "call", name |-> name, args |-> args,
                      binds |-> Bindings(Elements(args)), fun |-> Fun(name),
                      by |-> Top.fun, sealed |-> Sealed(Fun(name)),
                      locals |-> Keys(Top.locals)]
             fts  == AfterCall(Fun(name), args)
  <2>1. /\ InBody /\ Record(node) /\ Statement /\ UNCHANGED <<scopes, outcome>>
        /\ ftypes' = fts
    BY <1>2 DEF Call
  <2>2. fn \in DOMAIN ftypes /\ fts \in Seq(FType) /\ DOMAIN fts = DOMAIN ftypes /\ VisibleIn(fts)
    BY <1>2, <2>1, CallCaptures DEF IInv
  <2>3. Top.fun \in Nat /\ fn \in Nat /\ Top \in Scope
    <3>1. DOMAIN ftypes \subseteq Nat
      BY LenProperties DEF IInv, TypeOK
    <3> QED
      BY <2>1, <2>2, <3>1, InsideDefinition DEF IInv
  <2>4. Keys(Top.locals) \in SUBSET VarNames
    BY <2>3 DEF Keys, Scope, VarMap
  <2>5. Sealed(fn) \in BOOLEAN
    BY <2>2 DEF Sealed
  <2>6. args \in Seq(Operands)
    BY GrammarAssumption
  <2>7. Bindings(Elements(args)) \in VarMap
    <3>1. \A x \in Elements(args) \cap VarNames : IsVar(x)
      BY <1>2 DEF Elements, WellTypedCall, HasType, Names
    <3> QED
      BY <2>1, <3>1, BindingsProperties DEF IInv
  <2>8. node \in Node
    BY <2>3, <2>4, <2>5, <2>6, <2>7 DEF Node
  <2> HIDE DEF node, fts
  <2> QED
    BY <2>1, <2>2, <2>8, StatementStep
<1> QED
  BY <1>1, <1>2

-----------------------------------------------------------------------------
(* Definitions open a scope and declarations name a function in one.         *)

LEMMA WhileWalking ==
  ASSUME TypeOK, Walking
  PROVE  /\ Len(scopes) \in Nat /\ Len(scopes) >= 2 /\ DOMAIN scopes = 1 .. Len(scopes)
         /\ scopes \in Seq(Scope) /\ \A k \in DOMAIN scopes : scopes[k] \in Scope
         /\ Top \in Scope /\ Top = scopes[Len(scopes)]
         /\ Len(walk) \in Nat /\ Len(scopes) = Len(walk) + 2
         /\ ftypes \in Seq(FType) /\ Len(ftypes) \in Nat /\ DOMAIN ftypes = 1 .. Len(ftypes)
         /\ Len(ast) \in Nat
<1>1. Len(walk) \in Nat /\ Len(scopes) \in Nat /\ Len(ftypes) \in Nat /\ Len(ast) \in Nat
  BY LenProperties DEF TypeOK
<1>2. Len(scopes) = Len(walk) + 2 /\ DOMAIN scopes = 1 .. Len(scopes)
  BY LenProperties DEF TypeOK
<1>3. \A k \in DOMAIN scopes : scopes[k] \in Scope
  BY <1>2, ElementOfSeq DEF TypeOK
<1>4. DOMAIN ftypes = 1 .. Len(ftypes)
  BY LenProperties DEF TypeOK
<1> QED
  BY <1>1, <1>2, <1>3, <1>4 DEF TypeOK, Top

LEMMA FormalLocalsType ==
  ASSUME NEW h \in Headers, TypeOK
  PROVE  FormalLocals(h) \in VarMap
<1>1. Len(ast) + 1 \in Nat
  BY LenProperties DEF TypeOK
<1>2. h.formals \in Seq(Formal)
  BY GrammarAssumption
<1>3. ASSUME NEW x \in FormalNames(h)
      PROVE  h.formals[FormalIndex(h, x)] \in Formal
  <2>1. FormalIndex(h, x) \in DOMAIN h.formals
    BY <1>3 DEF FormalNames, FormalIndex
  <2>2. DOMAIN h.formals = 1 .. Len(h.formals)
    BY <1>2, LenProperties
  <2> QED
    BY <1>2, <2>1, <2>2, ElementOfSeq
<1> QED
  BY <1>1, <1>3 DEF FormalLocals, VarMap, VarType, Formal

LEMMA EmptyScopeProperties ==
  ASSUME NEW ret \in RetTypes, NEW f \in Nat \cup {Uninit}, NEW m \in VarMap
  PROVE  LET s == [EmptyScope(ret, f) EXCEPT !.locals = m] IN
         /\ s \in Scope /\ s.locals = m /\ s.functions = NoFuns /\ s.fun = f
BY DEF EmptyScope, Scope, NoVars, NoFuns, VarMap

\* Registering a function changes the functions of one scope.
LEMMA InsertFuncProperties ==
  ASSUME TypeOK, Walking, NEW name \in FunNames, NEW f \in Nat
  PROVE  LET new == InsertFunc(Len(scopes), name, f) IN
         /\ new \in Seq(Scope) /\ Len(new) = Len(scopes) /\ DOMAIN new = DOMAIN scopes
         /\ \A k \in DOMAIN scopes :
              /\ new[k].locals = scopes[k].locals
              /\ new[k].fun = scopes[k].fun
              /\ \A n \in FunNames :
                   new[k].functions[n] =
                     IF k = Len(scopes) /\ n = name THEN f ELSE scopes[k].functions[n]
<1> DEFINE fns == [Top.functions EXCEPT ![name] = f]
           s   == [scopes[Len(scopes)] EXCEPT !.functions = fns]
           new == InsertFunc(Len(scopes), name, f)
<1>1. /\ scopes \in Seq(Scope) /\ DOMAIN scopes = 1 .. Len(scopes)
      /\ Len(scopes) \in DOMAIN scopes /\ Top \in Scope /\ Top = scopes[Len(scopes)]
  BY WhileWalking
<1>2. /\ fns \in [FunNames -> Nat \cup {None}]
      /\ \A n \in FunNames : fns[n] = IF n = name THEN f ELSE Top.functions[n]
  BY <1>1 DEF Scope
<1> HIDE DEF fns
<1>3. s \in Scope /\ s.locals = Top.locals /\ s.fun = Top.fun /\ s.functions = fns
  BY <1>1, <1>2 DEF Scope
<1>4. new = [scopes EXCEPT ![Len(scopes)] = s]
  BY <1>1 DEF InsertFunc, fns
<1> HIDE DEF s
<1>5. /\ new \in Seq(Scope) /\ Len(new) = Len(scopes)
      /\ \A k \in 1 .. Len(scopes) : new[k] = IF k = Len(scopes) THEN s ELSE scopes[k]
  BY <1>1, <1>3, <1>4, ExceptSeq
<1>6. DOMAIN new = DOMAIN scopes
  BY <1>1, <1>5, LenProperties
<1> HIDE DEF new
<1>7. ASSUME NEW k \in DOMAIN scopes, NEW n \in FunNames
      PROVE  new[k].functions[n] =
               IF k = Len(scopes) /\ n = name THEN f ELSE scopes[k].functions[n]
  BY <1>1, <1>2, <1>3, <1>5
<1> QED
  BY <1>1, <1>3, <1>5, <1>6, <1>7 DEF new

\* Appending a scope leaves the scopes around it as they are.
LEMMA OpenScopeProperties ==
  ASSUME TypeOK, NEW old \in Seq(Scope), NEW h \in Headers, NEW f \in Nat
  PROVE  LET new == OpenScope(old, h, f) IN
         /\ new \in Seq(Scope) /\ Len(new) = Len(old) + 1
         /\ DOMAIN new = 1 .. Len(old) + 1
         /\ \A k \in 1 .. Len(old) : new[k] = old[k]
         /\ new[Len(old) + 1].functions = NoFuns
         /\ new[Len(old) + 1].fun = f
<1> DEFINE s == [EmptyScope(h.ret, f) EXCEPT !.locals = FormalLocals(h)]
<1>1. h.ret \in RetTypes /\ FormalLocals(h) \in VarMap
  BY GrammarAssumption, FormalLocalsType
<1>2. s \in Scope /\ s.functions = NoFuns /\ s.fun = f
  BY <1>1, EmptyScopeProperties
<1> HIDE DEF s
<1>3. OpenScope(old, h, f) = Append(old, s)
  BY DEF OpenScope, s
<1> QED
  BY <1>2, <1>3, AppendProperties, LenProperties

LEMMA ArgsType ==
  ASSUME NEW h \in Headers
  PROVE  DefArgs(h) \in Seq(Arg) /\ DeclArgs(h) \in Seq(Arg)
<1>1. h.formals \in Seq(Formal)
  BY GrammarAssumption
<1>2. Len(h.formals) \in Nat /\ DOMAIN h.formals = 1 .. Len(h.formals)
  BY <1>1, LenProperties
<1>3. \A i \in 1 .. Len(h.formals) : h.formals[i] \in Formal
  BY <1>1, ElementOfSeq
<1>4. /\ DefArgs(h) \in [1 .. Len(h.formals) -> Arg]
      /\ DeclArgs(h) \in [1 .. Len(h.formals) -> Arg]
  BY <1>2, <1>3 DEF DefArgs, DeclArgs, Formal, Arg, PassModes
<1> QED
  BY <1>2, <1>4, SeqDef

LEMMA NewFunctionType ==
  ASSUME NEW ret \in RetTypes, NEW args \in Seq(Arg), NEW d \in BOOLEAN
  PROVE  /\ FunctionType(ret, args, d) \in FType
         /\ FunctionType(ret, args, d).prev = NoVars
BY DEF FunctionType, FType, NoVars, VarMap

\* The invariants of a symbol table s whose functions have the types fts.
WellFormed(s, fts) ==
  /\ s \in Seq(Scope)
  /\ \A k \in DOMAIN s :
       /\ s[k].fun \in IF k <= 2 THEN {Uninit} ELSE DOMAIN fts
       /\ \A n \in FunNames : s[k].functions[n] \in DOMAIN fts \cup {None}

OuterEmptyIn(s) == \A k \in DOMAIN s : k <= 2 => s[k].locals = NoVars
RegisteredIn(s) ==
  \A k \in DOMAIN s : k > 2 => \E n \in FunNames : s[k - 1].functions[n] = s[k].fun
OnceIn(s) ==
  \A k, l \in DOMAIN s, n, m \in FunNames :
    s[k].functions[n] # None /\ s[k].functions[n] = s[l].functions[m] => k = l /\ n = m
LinkedIn(s) == OuterEmptyIn(s) /\ RegisteredIn(s) /\ OnceIn(s)

VisibleWith(s, fts) ==
  \A k \in DOMAIN s, n \in FunNames, x \in VarNames :
    s[k].functions[n] # None /\ fts[s[k].functions[n]].prev[x] # None
    => \E j \in 1 .. k : s[j].locals[x] # None

TableInv(s, fts) == WellFormed(s, fts) /\ LinkedIn(s) /\ VisibleWith(s, fts)

LEMMA TableNow ==
  ASSUME IInv
  PROVE  TableInv(scopes, ftypes)
BY DEF IInv, TypeOK, ScopesAreLinked, OuterScopesEmpty, FunctionsRegistered, RegisteredOnce,
  CapturesVisible, TableInv, WellFormed, LinkedIn, OuterEmptyIn, RegisteredIn, OnceIn,
  VisibleWith, IsLocal

\* A name the current scope does not know may be given a new function type.
LEMMA RegisterKeeps ==
  ASSUME IInv, Walking, NEW name \in FunNames, Top.functions[name] = None,
         NEW t \in FType, t.prev = NoVars
  PROVE  TableInv(InsertFunc(Len(scopes), name, Len(ftypes) + 1), Append(ftypes, t))
<1> DEFINE f   == Len(ftypes) + 1
           s   == InsertFunc(Len(scopes), name, f)
           fts == Append(ftypes, t)
<1>1. /\ Len(scopes) \in Nat /\ Len(scopes) >= 2 /\ DOMAIN scopes = 1 .. Len(scopes)
      /\ scopes \in Seq(Scope) /\ Top = scopes[Len(scopes)]
      /\ ftypes \in Seq(FType) /\ Len(ftypes) \in Nat /\ DOMAIN ftypes = 1 .. Len(ftypes)
      /\ f \in Nat /\ f \notin DOMAIN ftypes /\ f # None
  BY WhileWalking, NameAssumption DEF IInv
<1>2. /\ s \in Seq(Scope) /\ DOMAIN s = DOMAIN scopes
      /\ \A k \in DOMAIN scopes :
           /\ s[k].locals = scopes[k].locals
           /\ s[k].fun = scopes[k].fun
           /\ \A n \in FunNames :
                s[k].functions[n] =
                  IF k = Len(scopes) /\ n = name THEN f ELSE scopes[k].functions[n]
  BY <1>1, InsertFuncProperties DEF IInv
<1>3. /\ DOMAIN fts = 1 .. f /\ fts[f] = t
      /\ \A g \in DOMAIN ftypes : fts[g] = ftypes[g] /\ g \in DOMAIN fts
  BY <1>1, AppendProperties, LenProperties
<1>4. TableInv(scopes, ftypes)
  BY TableNow
<1> HIDE DEF s, fts, f
<1>5. WellFormed(s, fts)
  <2> SUFFICES ASSUME NEW k \in DOMAIN scopes
               PROVE  /\ s[k].fun \in IF k <= 2 THEN {Uninit} ELSE DOMAIN fts
                      /\ \A n \in FunNames : s[k].functions[n] \in DOMAIN fts \cup {None}
    BY <1>2 DEF WellFormed
  <2>1. s[k].fun \in IF k <= 2 THEN {Uninit} ELSE DOMAIN fts
    BY <1>2, <1>3, <1>4 DEF TableInv, WellFormed
  <2>2. ASSUME NEW n \in FunNames PROVE s[k].functions[n] \in DOMAIN fts \cup {None}
    <3>1. scopes[k].functions[n] \in DOMAIN ftypes \cup {None}
      BY <1>4 DEF TableInv, WellFormed
    <3>2. f \in DOMAIN fts
      BY <1>1, <1>3 DEF f
    <3> QED
      BY <1>2, <1>3, <3>1, <3>2
  <2> QED
    BY <2>1, <2>2
<1>6. LinkedIn(s)
  <2>1. OuterEmptyIn(s)
    BY <1>2, <1>4 DEF TableInv, LinkedIn, OuterEmptyIn
  <2>2. RegisteredIn(s)
    <3> SUFFICES ASSUME NEW k \in DOMAIN scopes, k > 2
                 PROVE  \E n \in FunNames : s[k - 1].functions[n] = s[k].fun
      BY <1>2 DEF RegisteredIn
    <3>1. PICK n \in FunNames : scopes[k - 1].functions[n] = scopes[k].fun
      BY <1>4 DEF TableInv, LinkedIn, RegisteredIn
    <3>2. k - 1 \in DOMAIN scopes /\ k - 1 # Len(scopes)
      BY <1>1
    <3> QED
      BY <1>2, <3>1, <3>2
  <2>3. OnceIn(s)
    <3> SUFFICES ASSUME NEW k \in DOMAIN scopes, NEW l \in DOMAIN scopes,
                        NEW n \in FunNames, NEW m \in FunNames,
                        s[k].functions[n] # None, s[k].functions[n] = s[l].functions[m]
                 PROVE  k = l /\ n = m
      BY <1>2 DEF OnceIn
    <3>1. /\ scopes[k].functions[n] \in DOMAIN ftypes \cup {None}
          /\ scopes[l].functions[m] \in DOMAIN ftypes \cup {None}
      BY <1>4 DEF TableInv, WellFormed
    <3> QED
      BY <1>1, <1>2, <1>4, <3>1 DEF TableInv, LinkedIn, OnceIn
  <2> QED
    BY <2>1, <2>2, <2>3 DEF LinkedIn
<1>7. VisibleWith(s, fts)
  <2> SUFFICES ASSUME NEW k \in DOMAIN scopes, NEW n \in FunNames, NEW x \in VarNames,
                      s[k].functions[n] # None, fts[s[k].functions[n]].prev[x] # None
               PROVE  \E j \in 1 .. k : s[j].locals[x] # None
    BY <1>2 DEF VisibleWith
  <2>1. s[k].functions[n] # f
    BY <1>3 DEF NoVars
  <2>2. s[k].functions[n] = scopes[k].functions[n]
    BY <1>2, <2>1
  <2>3. scopes[k].functions[n] \in DOMAIN ftypes
    BY <1>4, <2>2 DEF TableInv, WellFormed
  <2>4. PICK j \in 1 .. k : scopes[j].locals[x] # None
    BY <1>3, <1>4, <2>2, <2>3 DEF TableInv, VisibleWith
  <2>5. j \in DOMAIN scopes
    BY <1>1
  <2> QED
    BY <1>2, <2>4, <2>5
<1> QED
  BY <1>5, <1>6, <1>7 DEF TableInv, s, fts, f

\* A scope may be opened for a function registered in the current one.
LEMMA OpenKeeps ==
  ASSUME TypeOK, NEW old, NEW fts \in Seq(FType), TableInv(old, fts), Len(old) >= 2,
         NEW h \in Headers, NEW name \in FunNames, NEW f \in DOMAIN fts,
         old[Len(old)].functions[name] = f
  PROVE  TableInv(OpenScope(old, h, f), fts)
<1> DEFINE s == OpenScope(old, h, f)
           L == Len(old)
<1>1. f \in Nat /\ old \in Seq(Scope) /\ L \in Nat /\ DOMAIN old = 1 .. L
  BY LenProperties DEF TableInv, WellFormed
<1>2. /\ s \in Seq(Scope) /\ DOMAIN s = 1 .. L + 1
      /\ \A k \in 1 .. L : s[k] = old[k]
      /\ s[L + 1].functions = NoFuns /\ s[L + 1].fun = f
  BY <1>1, OpenScopeProperties
<1> HIDE DEF s, L
<1>3. \A k \in 1 .. L + 1 : k \in 1 .. L \/ k = L + 1
  BY <1>1
<1>4. L >= 2
  BY DEF L
<1>5. WellFormed(s, fts)
  BY <1>1, <1>2, <1>3, <1>4 DEF TableInv, WellFormed, NoFuns
<1>6. LinkedIn(s)
  <2>1. OuterEmptyIn(s)
    BY <1>1, <1>2, <1>3, <1>4 DEF TableInv, LinkedIn, OuterEmptyIn
  <2>2. RegisteredIn(s)
    <3> SUFFICES ASSUME NEW k \in 1 .. L + 1, k > 2
                 PROVE  \E n \in FunNames : s[k - 1].functions[n] = s[k].fun
      BY <1>2 DEF RegisteredIn
    <3>1. k - 1 \in 1 .. L
      BY <1>1
    <3>2. CASE k \in 1 .. L
      BY <1>1, <1>2, <3>1, <3>2 DEF TableInv, LinkedIn, RegisteredIn
    <3>3. CASE k = L + 1
      <4>1. k - 1 = L /\ s[k - 1] = old[L] /\ s[k].fun = f
        BY <1>1, <1>2, <3>1, <3>3
      <4> QED
        BY <4>1 DEF L
    <3> QED
      BY <1>3, <3>2, <3>3
  <2>3. OnceIn(s)
    <3> SUFFICES ASSUME NEW k \in 1 .. L + 1, NEW l \in 1 .. L + 1,
                        NEW n \in FunNames, NEW m \in FunNames,
                        s[k].functions[n] # None, s[k].functions[n] = s[l].functions[m]
                 PROVE  k = l /\ n = m
      BY <1>2 DEF OnceIn
    <3>1. k \in 1 .. L /\ l \in 1 .. L
      BY <1>2, <1>3 DEF NoFuns
    <3> QED
      BY <1>1, <1>2, <3>1 DEF TableInv, LinkedIn, OnceIn
  <2> QED
    BY <2>1, <2>2, <2>3 DEF LinkedIn
<1>7. VisibleWith(s, fts)
  <2> SUFFICES ASSUME NEW k \in DOMAIN s, NEW n \in FunNames, NEW x \in VarNames,
                      s[k].functions[n] # None, fts[s[k].functions[n]].prev[x] # None
               PROVE  \E j \in 1 .. k : s[j].locals[x] # None
    BY DEF VisibleWith
  <2>1. k \in 1 .. L
    BY <1>2, <1>3 DEF NoFuns
  <2>2. PICK j \in 1 .. k : old[j].locals[x] # None
    BY <1>1, <1>2, <2>1 DEF TableInv, VisibleWith
  <2>3. j \in 1 .. L
    BY <1>1, <2>1
  <2> QED
    BY <1>2, <2>2, <2>3
<1> QED
  BY <1>5, <1>6, <1>7 DEF TableInv, s

\* A step that leaves a sound table, and a walk as deep as it, keeps IInv.
LEMMA TableStep ==
  ASSUME IInv, Walking, UNCHANGED outcome,
         NEW s, NEW fts \in Seq(FType), TableInv(s, fts), scopes' = s, ftypes' = fts,
         walk' \in Seq({"defs", "body"}), Len(s) = Len(walk') + 2,
         NEW node \in Node, Record(node)
  PROVE  IInv'
<1>1. ast' \in Seq(Node)
  BY RecordStep DEF IInv
<1>2. s \in Seq(Scope) /\ DOMAIN s = 1 .. Len(s) /\ Len(s) \in Nat
  BY LenProperties DEF TableInv, WellFormed
<1>3. TypeOK'
  BY <1>1, <1>2 DEF IInv, TypeOK, Walking, TableInv, WellFormed
<1>4. ScopesAreLinked'
  BY DEF ScopesAreLinked, OuterScopesEmpty, FunctionsRegistered, RegisteredOnce, TableInv,
    LinkedIn, OuterEmptyIn, RegisteredIn, OnceIn
<1>5. CapturesVisible'
  BY DEF CapturesVisible, TableInv, VisibleWith, IsLocal
<1>6. NoUninitialisedAccess'
  BY DEF Walking, NoUninitialisedAccess
<1> QED
  BY <1>3, <1>4, <1>5, <1>6 DEF IInv

LEMMA DeclareStep ==
  ASSUME IInv, NEW name \in FunNames, NEW h \in Headers, Declare(name, h)
  PROVE  IInv'
<1>1. CASE Top.functions[name] # None
  BY <1>1, StopStep DEF Declare
<1>2. CASE Top.functions[name] = None
  <2> DEFINE f    == Len(ftypes) + 1
             t    == FunctionType(h.ret, DeclArgs(h), TRUE)
             s    == InsertFunc(Len(scopes), name, f)
             fts  == Append(ftypes, t)
             node == [op |-> "declare", name |-> name, header |-> h, fun |-> f]
  <2>1. /\ Walking /\ Record(node) /\ UNCHANGED <<walk, outcome>>
        /\ scopes' = s /\ ftypes' = fts
    BY <1>2 DEF Declare, InDefs
  <2>2. /\ ftypes \in Seq(FType) /\ f \in Nat /\ Len(scopes) = Len(walk) + 2
        /\ walk \in Seq({"defs", "body"})
    BY <2>1, WhileWalking DEF IInv, TypeOK
  <2>3. t \in FType /\ t.prev = NoVars
    BY ArgsType, NewFunctionType, GrammarAssumption
  <2>4. node \in Node
    BY <2>2 DEF Node
  <2> HIDE DEF node, t
  <2>5. TableInv(s, fts)
    BY <1>2, <2>1, <2>3, RegisterKeeps
  <2>6. fts \in Seq(FType) /\ Len(s) = Len(scopes)
    BY <2>1, <2>2, <2>3, AppendProperties, InsertFuncProperties DEF IInv
  <2> HIDE DEF s, fts, f
  <2> QED
    BY <2>1, <2>2, <2>4, <2>5, <2>6, TableStep
<1> QED
  BY <1>1, <1>2

LEMMA EnterWalk ==
  ASSUME IInv, Walking, NEW name, NEW h, NEW f, Enter(name, h, f)
  PROVE  walk' \in Seq({"defs", "body"}) /\ Len(walk') = Len(walk) + 1
<1>1. walk \in Seq({"defs", "body"}) /\ "defs" \in {"defs", "body"}
  BY DEF IInv, TypeOK
<1>2. walk' = Append(walk, "defs")
  BY DEF Enter
<1> QED
  BY <1>1, <1>2, AppendProperties

LEMMA DefineFreshStep ==
  ASSUME IInv, NEW name \in FunNames, NEW h \in Headers, DefineFresh(name, h)
  PROVE  IInv'
<1> DEFINE f    == Len(ftypes) + 1
           t    == FunctionType(h.ret, DefArgs(h), FALSE)
           mid  == InsertFunc(Len(scopes), name, f)
           s    == OpenScope(mid, h, f)
           fts  == Append(ftypes, t)
           node == [op |-> "define", name |-> name, header |-> h, fun |-> f]
<1>1. /\ Walking /\ Top.functions[name] = None
      /\ scopes' = s /\ ftypes' = fts /\ Enter(name, h, f)
  BY DEF DefineFresh, CanDefine
<1>2. /\ ftypes \in Seq(FType) /\ f \in Nat /\ Len(ftypes) \in Nat
      /\ Len(scopes) = Len(walk) + 2 /\ Len(walk) \in Nat
      /\ Len(scopes) \in DOMAIN scopes /\ Len(scopes) \in Nat /\ Len(scopes) >= 2
  BY <1>1, WhileWalking DEF IInv, TypeOK
<1>3. t \in FType /\ t.prev = NoVars
  BY ArgsType, NewFunctionType, GrammarAssumption
<1>4. node \in Node
  BY <1>2 DEF Node
<1>5. Record(node) /\ UNCHANGED outcome
  BY <1>1 DEF Enter
<1> HIDE DEF node, t
<1>6. TableInv(mid, fts)
  BY <1>1, <1>3, RegisterKeeps
<1>7. /\ fts \in Seq(FType) /\ f \in DOMAIN fts
      /\ mid \in Seq(Scope) /\ Len(mid) = Len(scopes) /\ mid[Len(mid)].functions[name] = f
  <2>1. fts \in Seq(FType) /\ Len(fts) = f
    BY <1>2, <1>3, AppendProperties
  <2>2. f \in DOMAIN fts
    <3> HIDE DEF fts
    <3> QED BY <1>2, <2>1, LenProperties
  <2> QED
    BY <1>1, <1>2, <2>1, <2>2, InsertFuncProperties DEF IInv
<1> HIDE DEF mid, fts, f
<1>8. TableInv(s, fts)
  BY <1>2, <1>6, <1>7, OpenKeeps DEF IInv
<1>9. Len(s) = Len(scopes) + 1
  <2>1. f \in Nat
    BY <1>2 DEF f
  <2> QED
    BY <1>7, <2>1, OpenScopeProperties DEF IInv
<1> HIDE DEF s
<1>10. walk' \in Seq({"defs", "body"}) /\ Len(s) = Len(walk') + 2
  BY <1>1, <1>2, <1>9, EnterWalk
<1> QED
  BY <1>1, <1>4, <1>5, <1>7, <1>8, <1>10, TableStep

LEMMA DefineDeclaredStep ==
  ASSUME IInv, NEW name \in FunNames, NEW h \in Headers, DefineDeclared(name, h)
  PROVE  IInv'
<1> DEFINE f    == Top.functions[name]
           t    == [ftypes[f] EXCEPT !.declared = FALSE]
           s    == OpenScope(scopes, h, f)
           fts  == Adopt(f)
           node == [op |-> "define", name |-> name, header |-> h, fun |-> f]
<1>1. Walking /\ f # None /\ scopes' = s /\ ftypes' = fts /\ Enter(name, h, f)
  BY DEF DefineDeclared, CanDefine
<1>2. /\ ftypes \in Seq(FType) /\ Len(ftypes) \in Nat /\ DOMAIN ftypes = 1 .. Len(ftypes)
      /\ Len(scopes) = Len(walk) + 2 /\ Len(walk) \in Nat
      /\ Len(scopes) \in DOMAIN scopes /\ Len(scopes) \in Nat /\ Len(scopes) >= 2
      /\ Top = scopes[Len(scopes)] /\ scopes \in Seq(Scope)
  BY <1>1, WhileWalking DEF IInv, TypeOK
<1>3. f \in DOMAIN ftypes /\ f \in Nat
  BY <1>1, <1>2 DEF IInv, TypeOK
<1>4. node \in Node
  BY <1>3 DEF Node
<1>5. Record(node) /\ UNCHANGED outcome
  BY <1>1 DEF Enter
<1> HIDE DEF node
<1>6. /\ fts \in Seq(FType) /\ DOMAIN fts = DOMAIN ftypes
      /\ \A g \in DOMAIN ftypes : fts[g].prev = ftypes[g].prev
  <2>1. ftypes[f] \in FType
    BY <1>2, <1>3, ElementOfSeq
  <2>2. t \in FType /\ t.prev = ftypes[f].prev
    BY <2>1 DEF FType
  <2>3. fts = [ftypes EXCEPT ![f] = t]
    BY DEF Adopt
  <2> HIDE DEF t, f
  <2>4. /\ fts \in Seq(FType) /\ Len(fts) = Len(ftypes)
        /\ \A g \in 1 .. Len(ftypes) : fts[g] = IF g = f THEN t ELSE ftypes[g]
    BY <1>2, <1>3, <2>2, <2>3, ExceptSeq
  <2> HIDE DEF fts
  <2> QED
    BY <1>2, <2>2, <2>4, LenProperties
<1> HIDE DEF fts
<1>7. TableInv(scopes, fts)
  <2>1. TableInv(scopes, ftypes)
    BY TableNow
  <2>2. WellFormed(scopes, fts)
    BY <1>6, <2>1 DEF TableInv, WellFormed
  <2>3. VisibleWith(scopes, fts)
    BY <1>6, <2>1 DEF TableInv, VisibleWith, WellFormed
  <2> QED
    BY <2>1, <2>2, <2>3 DEF TableInv
<1>8. TableInv(s, fts)
  <2>1. scopes[Len(scopes)].functions[name] = f
    BY <1>2
  <2> HIDE DEF f
  <2> QED BY <1>2, <1>3, <1>6, <1>7, <2>1, OpenKeeps DEF IInv
<1>9. Len(s) = Len(scopes) + 1
  <2> HIDE DEF f
  <2> QED BY <1>2, <1>3, OpenScopeProperties DEF IInv
<1> HIDE DEF s
<1>10. walk' \in Seq({"defs", "body"}) /\ Len(s) = Len(walk') + 2
  BY <1>1, <1>2, <1>9, EnterWalk
<1> QED
  BY <1>1, <1>4, <1>5, <1>6, <1>8, <1>10, TableStep

LEMMA VarDefinitionStep ==
  ASSUME IInv, NEW ids \in IdLists, NEW t \in DataTypes, NEW isRef \in UninitBool,
         VarDefinition(ids, t, isRef)
  PROVE  IInv'
<1> DEFINE declared == Elements(ids)
           type == [t |-> t, pass |-> IF isRef THEN "ref" ELSE "val", node |-> Len(ast) + 1]
           L    == Len(scopes)
           loc  == [x \in VarNames |-> IF x \in declared THEN type ELSE scopes[L].locals[x]]
           new  == [scopes[L] EXCEPT !.locals = loc]
           s    == [scopes EXCEPT ![L] = new]
           node == [op |-> "var", ids |-> ids, type |-> type, by |-> Top.fun]
<1>1. CASE ~Distinct(ids) \/ (\E x \in declared : Top.locals[x] # None)
  BY <1>1, StopStep DEF VarDefinition
<1>2. CASE ~(~Distinct(ids) \/ (\E x \in declared : Top.locals[x] # None))
  <2>1. /\ InBody /\ Walking /\ Record(node) /\ UNCHANGED <<walk, ftypes, outcome>>
        /\ scopes' = s
    BY <1>2 DEF VarDefinition, InDefs, InBody
  <2>2. /\ L \in Nat /\ L > 2 /\ DOMAIN scopes = 1 .. L /\ scopes[L] \in Scope
        /\ scopes \in Seq(Scope) /\ Len(ast) \in Nat /\ L = Len(walk) + 2
        /\ ftypes \in Seq(FType)
    BY <2>1, InsideDefinition, WhileWalking DEF IInv
  <2>3. type \in VarType
    BY <2>2 DEF VarType, PassModes
  <2>4. node \in Node
    <3>1. Top.fun \in Nat
      BY <2>1, InsideDefinition, LenProperties DEF IInv, TypeOK
    <3> QED
      BY <2>3, <3>1 DEF Node
  <2> HIDE DEF node, type
  <2>5. /\ loc \in VarMap
        /\ \A x \in VarNames : scopes[L].locals[x] # None => loc[x] # None
    BY <2>2, <2>3, NameAssumption DEF Scope, VarMap
  <2> HIDE DEF loc
  <2>6. /\ new \in Scope /\ new.locals = loc /\ new.functions = scopes[L].functions
        /\ new.fun = scopes[L].fun
    BY <2>2, <2>5 DEF Scope
  <2> HIDE DEF new
  <2>7. /\ s \in Seq(Scope) /\ Len(s) = L
        /\ \A k \in 1 .. L : s[k] = IF k = L THEN new ELSE scopes[k]
    <3> HIDE DEF L
    <3> QED BY <2>2, <2>6, ExceptSeq
  <2>8. DOMAIN s = 1 .. L
    BY <2>2
  <2> HIDE DEF s
  <2>9. \A k \in 1 .. L : /\ s[k].functions = scopes[k].functions
                          /\ s[k].fun = scopes[k].fun
                          /\ k <= 2 => s[k].locals = scopes[k].locals
                          /\ \A x \in VarNames : scopes[k].locals[x] # None => s[k].locals[x] # None
    BY <2>2, <2>5, <2>6, <2>7
  <2>10. TableInv(scopes, ftypes)
    BY TableNow
  <2>11. WellFormed(s, ftypes)
    BY <2>2, <2>7, <2>8, <2>9, <2>10 DEF TableInv, WellFormed
  <2>12. OuterEmptyIn(s) /\ OnceIn(s)
    BY <2>2, <2>8, <2>9, <2>10 DEF TableInv, LinkedIn, OuterEmptyIn, OnceIn
  <2>13. RegisteredIn(s)
    <3> SUFFICES ASSUME NEW k \in 1 .. L, k > 2
                 PROVE  \E n \in FunNames : s[k - 1].functions[n] = s[k].fun
      BY <2>8 DEF RegisteredIn
    <3>1. k - 1 \in 1 .. L
      BY <2>2
    <3> QED
      BY <2>2, <2>9, <2>10, <3>1 DEF TableInv, LinkedIn, RegisteredIn
  <2>14. VisibleWith(s, ftypes)
    <3> SUFFICES ASSUME NEW k \in 1 .. L, NEW n \in FunNames, NEW x \in VarNames,
                        s[k].functions[n] # None, ftypes[s[k].functions[n]].prev[x] # None
                 PROVE  \E j \in 1 .. k : s[j].locals[x] # None
      BY <2>8 DEF VisibleWith
    <3>1. PICK j \in 1 .. k : scopes[j].locals[x] # None
      BY <2>2, <2>9, <2>10 DEF TableInv, VisibleWith
    <3>2. j \in 1 .. L
      BY <2>2
    <3> QED
      BY <2>9, <3>1, <3>2
  <2>15. TableInv(s, ftypes)
    BY <2>11, <2>12, <2>13, <2>14 DEF TableInv, LinkedIn
  <2>16. walk' \in Seq({"defs", "body"}) /\ Len(s) = Len(walk') + 2
    BY <2>1, <2>2, <2>7 DEF IInv, TypeOK
  <2> QED
    BY <2>1, <2>2, <2>4, <2>15, <2>16, TableStep
<1> QED
  BY <1>1, <1>2

-----------------------------------------------------------------------------
(* The end of a definition.                                                  *)

\* The captures handed outwards are visible outside the scope that closes.
LEMMA TransferredProperties ==
  ASSUME IInv, InBody
  PROVE  /\ Transferred \in VarMap
         /\ \A x \in VarNames : Transferred[x] # None =>
              /\ Parent.locals[x] = None
              /\ \E j \in 1 .. Len(scopes) - 1 : IsLocal(x, j)
<1>1. /\ Len(scopes) \in Nat /\ Len(scopes) > 2 /\ DOMAIN scopes = 1 .. Len(scopes)
      /\ Top.fun \in DOMAIN ftypes /\ Parent \in Scope /\ Top = scopes[Len(scopes)]
      /\ ftypes \in Seq(FType)
  BY InsideDefinition DEF IInv, TypeOK, Top
<1>2. ftypes[Top.fun].prev \in VarMap
  <2>1. ftypes[Top.fun] \in FType
    BY <1>1, LenProperties, ElementOfSeq
  <2> QED
    BY <2>1 DEF FType
<1>3. /\ Transferred \in VarMap
      /\ \A x \in VarNames : Transferred[x] # None =>
           Parent.locals[x] = None /\ ftypes[Top.fun].prev[x] # None
  BY <1>1, <1>2, NotLocalToProperties DEF Transferred
<1>4. PICK p \in FunNames : scopes[Len(scopes) - 1].functions[p] = Top.fun
  BY <1>1 DEF IInv, ScopesAreLinked, FunctionsRegistered
<1>5. Len(scopes) - 1 \in DOMAIN scopes
  BY <1>1
<1>6. Top.fun # None
  <2>1. DOMAIN ftypes \subseteq Nat
    BY <1>1, LenProperties
  <2> QED
    BY <1>1, <2>1, NameAssumption
<1> QED
  BY <1>3, <1>4, <1>5, <1>6 DEF IInv, CapturesVisible

LEMMA LeaveInnerStep ==
  ASSUME IInv, LeaveInner
  PROVE  IInv'
<1>1. CASE ~ClosedWell
  BY <1>1, StopStep DEF LeaveInner
<1>2. CASE ClosedWell
  <2> DEFINE L    == Len(scopes) - 1
             fn   == Parent.fun
             fts  == AddCaptures(ftypes, fn, Transferred)
             s    == SubSeq(scopes, 1, L)
             node == [op |-> "end", fun |-> Top.fun]
  <2>1. /\ InBody /\ Walking /\ Record(node) /\ UNCHANGED outcome
        /\ scopes' = s /\ ftypes' = fts /\ walk' = SubSeq(walk, 1, Len(walk) - 1)
        /\ Len(walk) > 1
    BY <1>2 DEF LeaveInner, InBody
  <2>2. /\ L \in Nat /\ L > 2 /\ DOMAIN scopes = 1 .. L + 1 /\ Len(scopes) = L + 1
        /\ Len(scopes) = Len(walk) + 2 /\ Len(walk) \in Nat
        /\ scopes \in Seq(Scope) /\ ftypes \in Seq(FType)
        /\ \A k \in DOMAIN scopes : scopes[k] \in Scope
        /\ Top.fun \in DOMAIN ftypes /\ DOMAIN ftypes \subseteq Nat
    <3>1. /\ Len(scopes) \in Nat /\ DOMAIN scopes = 1 .. Len(scopes)
          /\ Len(scopes) = Len(walk) + 2 /\ Len(walk) \in Nat
          /\ scopes \in Seq(Scope) /\ ftypes \in Seq(FType)
          /\ DOMAIN ftypes = 1 .. Len(ftypes) /\ Len(ftypes) \in Nat
      BY <2>1, WhileWalking DEF IInv
    <3>2. Top.fun \in DOMAIN ftypes /\ \A k \in DOMAIN scopes : scopes[k] \in Scope
      BY <2>1, InsideDefinition DEF IInv
    <3>3. L \in Nat /\ L > 2 /\ Len(scopes) = L + 1
      BY <2>1, <3>1
    <3>4. DOMAIN ftypes \subseteq Nat
      BY <3>1
    <3> QED
      BY <3>1, <3>2, <3>3, <3>4
  <2>3. fn \in DOMAIN ftypes
    BY <2>2 DEF IInv, TypeOK, Parent
  <2>4. node \in Node
    BY <2>2 DEF Node
  <2>5. /\ s \in Seq(Scope) /\ Len(s) = L /\ DOMAIN s = 1 .. L
        /\ \A k \in 1 .. L : s[k] = scopes[k]
    <3>1. \A i \in 1 .. L : scopes[i] \in Scope
      BY <2>2
    <3>2. 1 \in Int /\ L \in Int
      BY <2>2
    <3>3. /\ s \in Seq(Scope) /\ Len(s) = L
          /\ \A i \in 1 .. L : s[i] = scopes[i]
      <4> HIDE DEF L
      <4> QED BY <2>2, <3>1, <3>2, SubSeqProperties
    <3> HIDE DEF s
    <3> QED
      BY <3>3, LenProperties
  <2>6. /\ walk' \in Seq({"defs", "body"}) /\ Len(walk') = Len(walk) - 1
    <3>1. \A i \in 1 .. Len(walk) - 1 : walk[i] \in {"defs", "body"}
      BY <2>2, LenProperties, ElementOfSeq DEF IInv, TypeOK
    <3>2. 1 \in Int /\ Len(walk) - 1 \in Int
      BY <2>2
    <3> QED
      BY <2>1, <2>2, <3>1, <3>2, SubSeqProperties
  <2>7. /\ Transferred \in VarMap
        /\ \A x \in VarNames : Transferred[x] # None =>
             Parent.locals[x] = None /\ \E j \in 1 .. L : IsLocal(x, j)
    BY <2>1, TransferredProperties
  <2>8. /\ fts \in Seq(FType) /\ DOMAIN fts = DOMAIN ftypes
        /\ \A g \in DOMAIN ftypes :
             fts[g].prev = IF g = fn THEN Override(ftypes[fn].prev, Transferred) ELSE ftypes[g].prev
    BY <2>2, <2>3, <2>7, AddCapturesProperties
  <2>9. Parent = scopes[L]
    BY DEF Parent
  <2> HIDE DEF node, s, fts, fn
  <2>10. TableInv(scopes, ftypes)
    BY TableNow
  <2>11. WellFormed(s, fts)
    BY <2>2, <2>5, <2>8, <2>10 DEF TableInv, WellFormed
  <2>12. OuterEmptyIn(s) /\ OnceIn(s)
    BY <2>2, <2>5, <2>10 DEF TableInv, LinkedIn, OuterEmptyIn, OnceIn
  <2>13. RegisteredIn(s)
    <3> SUFFICES ASSUME NEW k \in 1 .. L, k > 2
                 PROVE  \E n \in FunNames : s[k - 1].functions[n] = s[k].fun
      BY <2>5 DEF RegisteredIn
    <3>1. k - 1 \in 1 .. L /\ k \in DOMAIN scopes
      BY <2>2
    <3> QED
      BY <2>5, <2>10, <3>1 DEF TableInv, LinkedIn, RegisteredIn
  <2>14. VisibleWith(s, fts)
    <3> SUFFICES ASSUME NEW k \in 1 .. L, NEW n \in FunNames, NEW x \in VarNames,
                        scopes[k].functions[n] # None, fts[scopes[k].functions[n]].prev[x] # None
                 PROVE  \E j \in 1 .. k : scopes[j].locals[x] # None
      <4>1. \A l \in 1 .. L : \A j \in 1 .. l : j \in 1 .. L
        BY <2>2
      <4> QED
        BY <2>5, <4>1 DEF VisibleWith
    <3> DEFINE q == scopes[k].functions[n]
    <3>1. k \in DOMAIN scopes
      BY <2>2
    <3>2. q \in DOMAIN ftypes
      BY <2>10, <3>1 DEF TableInv, WellFormed
    <3>3. CASE ftypes[q].prev[x] # None
      BY <2>10, <3>1, <3>3 DEF TableInv, VisibleWith
    <3>4. CASE ftypes[q].prev[x] = None
      <4>1. q = fn
        BY <2>8, <3>2, <3>4
      <4>2. fts[q].prev[x] = Override(ftypes[fn].prev, Transferred)[x]
        BY <2>8, <3>2, <4>1
      <4>3. Override(ftypes[fn].prev, Transferred)[x]
              = IF Transferred[x] # None THEN Transferred[x] ELSE ftypes[fn].prev[x]
        BY DEF Override
      <4>4. Transferred[x] # None
        BY <3>4, <4>1, <4>2, <4>3
      <4>5. PICK j \in 1 .. L : IsLocal(x, j)
        BY <2>7, <4>4
      <4>6. j # L
        BY <2>7, <2>9, <4>4, <4>5 DEF IsLocal
      <4>7. k = L - 1
        <5>1. PICK p \in FunNames : scopes[L - 1].functions[p] = fn
          <6>1. L \in DOMAIN scopes
            BY <2>2
          <6> QED
            BY <2>2, <2>9, <2>10, <6>1 DEF TableInv, LinkedIn, RegisteredIn, fn
        <5>2. L - 1 \in DOMAIN scopes
          BY <2>2
        <5> QED
          BY <2>10, <3>1, <4>1, <5>1, <5>2 DEF TableInv, LinkedIn, OnceIn
      <4> QED
        BY <2>2, <4>5, <4>6, <4>7 DEF IsLocal
    <3> QED
      BY <3>3, <3>4
  <2>15. TableInv(s, fts)
    BY <2>11, <2>12, <2>13, <2>14 DEF TableInv, LinkedIn
  <2>16. Len(s) = Len(walk') + 2
    BY <2>2, <2>5, <2>6
  <2> QED
    BY <2>1, <2>4, <2>6, <2>8, <2>15, <2>16, TableStep
<1> QED
  BY <1>1, <1>2

\* The program's own function has nothing left to hand outwards.
LEMMA LeaveProgramStep ==
  ASSUME IInv, LeaveProgram
  PROVE  IInv'
<1>1. InBody /\ Walking /\ Len(walk) = 1
  BY DEF LeaveProgram, InBody
<1>2. Len(scopes) = 3 /\ DOMAIN scopes = 1 .. 3
  <2>1. Len(scopes) = Len(walk) + 2 /\ DOMAIN scopes = 1 .. Len(scopes)
    BY <1>1, WhileWalking DEF IInv
  <2>2. Len(scopes) = 3
    BY <1>1, <2>1
  <2> QED
    BY <2>1, <2>2
<1>3. Keys(Transferred) = {}
  <2> SUFFICES ASSUME NEW x \in VarNames, Transferred[x] # None
               PROVE  FALSE
    BY DEF Keys, Transferred, NotLocalTo
  <2>1. PICK j \in 1 .. 2 : IsLocal(x, j)
    BY <1>1, <1>2, TransferredProperties
  <2>2. scopes[j].locals = NoVars
    BY <1>2, <2>1 DEF IInv, ScopesAreLinked, OuterScopesEmpty
  <2> QED
    BY <2>1, <2>2 DEF IsLocal, NoVars
<1>4. CASE ~ClosedWell
  BY <1>4, StopStep DEF LeaveProgram
<1>5. CASE ClosedWell
  <2> DEFINE node == [op |-> "end", fun |-> Top.fun]
  <2>1. /\ outcome' = "accepted" /\ scopes' = <<>> /\ walk' = <<>>
        /\ Record(node) /\ UNCHANGED ftypes
    BY <1>3, <1>5 DEF LeaveProgram
  <2>2. Top.fun \in Nat
    BY <1>1, InsideDefinition, LenProperties DEF IInv, TypeOK
  <2>3. node \in Node
    BY <2>2 DEF Node
  <2> HIDE DEF node
  <2>4. ast' \in Seq(Node)
    BY <2>1, <2>3, RecordStep DEF IInv
  <2>5. TypeOK'
    BY <2>1, <2>4, EmptySeq DEF IInv, TypeOK, Walking
  <2> QED
    BY <2>1, <2>5 DEF IInv, ScopesAreLinked, OuterScopesEmpty, FunctionsRegistered,
      RegisteredOnce, CapturesVisible, NoUninitialisedAccess
<1> QED
  BY <1>4, <1>5

-----------------------------------------------------------------------------
(* The theorems.                                                             *)

LEMMA InitInv ==
  ASSUME Init
  PROVE  IInv
<1> DEFINE L == Len(Library)
<1>1. /\ L \in Nat /\ DOMAIN Library = 1 .. L
      /\ \A i \in 1 .. L : Library[i] \in [name : FunNames, ret : RetTypes, args : Seq(Arg)]
  BY GrammarAssumption, LenProperties, ElementOfSeq
<1>2. ASSUME NEW i \in 1 .. L
      PROVE  /\ FunctionType(Library[i].ret, Library[i].args, TRUE) \in FType
             /\ FunctionType(Library[i].ret, Library[i].args, TRUE).prev = NoVars
  BY <1>1, NewFunctionType
<1>3. /\ ftypes \in [1 .. L -> FType] /\ DOMAIN ftypes = 1 .. L
      /\ \A i \in 1 .. L : ftypes[i].prev = NoVars
  BY <1>1, <1>2 DEF Init
<1>4. ftypes \in Seq(FType)
  BY <1>1, <1>3, SeqDef
<1> DEFINE fns == [f \in FunNames |->
                     IF \E i \in DOMAIN Library : Library[i].name = f
                     THEN CHOOSE i \in DOMAIN Library : Library[i].name = f
                     ELSE None]
<1>5. /\ \A f \in FunNames : fns[f] # None => fns[f] \in 1 .. L /\ Library[fns[f]].name = f
      /\ fns \in [FunNames -> Nat \cup {None}]
  BY <1>1
<1> HIDE DEF fns
<1>6. /\ EmptyScope("void", Uninit) \in Scope
      /\ EmptyScope("void", Uninit).locals = NoVars
      /\ EmptyScope("void", Uninit).functions = NoFuns
      /\ EmptyScope("void", Uninit).fun = Uninit
  BY DEF EmptyScope, Scope, NoVars, NoFuns, VarMap, RetTypes
<1>7. /\ LibraryScope \in Scope /\ LibraryScope.locals = NoVars
      /\ LibraryScope.functions = fns /\ LibraryScope.fun = Uninit
  <2>1. LibraryScope = [EmptyScope("void", Uninit) EXCEPT !.functions = fns]
    BY DEF LibraryScope, fns
  <2> QED
    BY <1>5, <1>6, <2>1 DEF Scope
<1>8. /\ scopes \in Seq(Scope) /\ Len(scopes) = 2 /\ DOMAIN scopes = {1, 2}
      /\ scopes[1] = LibraryScope /\ scopes[2] = EmptyScope("void", Uninit)
  <2>1. scopes = <<LibraryScope, EmptyScope("void", Uninit)>>
    BY DEF Init
  <2> QED
    BY <1>6, <1>7, <2>1
<1>9. TypeOK
  <2>1. \A k \in DOMAIN scopes :
          /\ scopes[k].fun \in IF k <= 2 THEN {Uninit} ELSE DOMAIN ftypes
          /\ \A n \in FunNames : scopes[k].functions[n] \in DOMAIN ftypes \cup {None}
    BY <1>3, <1>5, <1>6, <1>7, <1>8 DEF NoFuns
  <2>2. walk = <<>> /\ ast = <<>> /\ outcome = "walking"
    BY DEF Init
  <2> QED
    BY <1>4, <1>8, <2>1, <2>2, EmptySeq DEF TypeOK, Walking
<1>10. ScopesAreLinked
  <2>1. OuterScopesEmpty /\ FunctionsRegistered
    BY <1>6, <1>7, <1>8 DEF OuterScopesEmpty, FunctionsRegistered
  <2>2. RegisteredOnce
    BY <1>5, <1>6, <1>7, <1>8 DEF RegisteredOnce, NoFuns
  <2> QED
    BY <2>1, <2>2 DEF ScopesAreLinked
<1>11. CapturesVisible
  <2> SUFFICES ASSUME NEW k \in DOMAIN scopes, NEW n \in FunNames, NEW x \in VarNames,
                      scopes[k].functions[n] # None
               PROVE  ftypes[scopes[k].functions[n]].prev[x] = None
    BY DEF CapturesVisible
  <2>1. scopes[k].functions[n] \in 1 .. L
    BY <1>3, <1>9 DEF TypeOK
  <2> QED
    BY <1>3, <2>1 DEF NoVars
<1>12. NoUninitialisedAccess
  BY DEF Init, NoUninitialisedAccess
<1> QED
  BY <1>9, <1>10, <1>11, <1>12 DEF IInv

LEMMA NextInv ==
  ASSUME IInv, [Next]_vars
  PROVE  IInv'
<1>1. CASE UNCHANGED vars
  BY <1>1 DEF vars, IInv, TypeOK, Walking, ScopesAreLinked, OuterScopesEmpty,
    FunctionsRegistered, RegisteredOnce, CapturesVisible, IsLocal, NoUninitialisedAccess
<1>2. ASSUME NEW name \in FunNames, NEW h \in Headers, RejectDefinition(name, h)
      PROVE  IInv'
  BY <1>2, StopStep DEF RejectDefinition
<1>3. CASE Finished
  BY <1>1, <1>3 DEF Finished
<1> QED
  BY <1>1, <1>2, <1>3, DefineFreshStep, DefineDeclaredStep, DeclareStep, VarDefinitionStep,
    AssignStep, CallStep, ReturnStep, ConditionStep, ExitStep, SkipStep, LeaveInnerStep,
    LeaveProgramStep DEF Next

\* The inductive invariant holds in every reachable state.
THEOREM Invariance == Spec => []IInv
<1>1. Init => IInv
  BY InitInv
<1>2. IInv /\ [Next]_vars => IInv'
  BY NextInv
<1> QED
  BY <1>1, <1>2, PTL DEF Spec

\* The symbol table, the function types and the tape are well-typed for any
\* program: every open definition has a function of its own.
THEOREM TypeCorrect == Spec => []TypeOK
<1>1. IInv => TypeOK
  BY DEF IInv
<1> QED
  BY <1>1, Invariance, PTL

\* A function's captures are variables of the scopes around the function, at
\* every nesting depth and with any mix of declarations and calls.
THEOREM CapturesStayVisible == Spec => []CapturesVisible
<1>1. IInv => CapturesVisible
  BY DEF IInv
<1> QED
  BY <1>1, Invariance, PTL

\* The symbol table and the types of its functions stay linked: a scope above the
\* library's belongs to a function registered in the scope below, no function type
\* is registered twice, and the two outer scopes hold no variable, so sem() looks
\* every name up in the scopes of the functions around it and nowhere else.
THEOREM ScopesStayLinked == Spec => []ScopesAreLinked
<1>1. IInv => ScopesAreLinked
  BY DEF IInv
<1> QED
  BY <1>1, Invariance, PTL

\* The function pointer that Scope's constructor leaves uninitialised is never
\* followed, whatever program is compiled.
THEOREM NeverUninitialised == Spec => []NoUninitialisedAccess
<1>1. IInv => NoUninitialisedAccess
  BY DEF IInv
<1> QED
  BY <1>1, Invariance, PTL

-----------------------------------------------------------------------------
(* A finished function captures nothing more.                                *)

IsOpen(f) == \E k \in DOMAIN scopes : scopes[k].fun = f

\* What a step may do to function types: grow the captures of open functions.
OnlyOpenCapture ==
  \A f \in DOMAIN ftypes :
    f \in DOMAIN ftypes' /\ ftypes'[f].prev # ftypes[f].prev => IsOpen(f)

\* Adding captures to the function of an open scope touches no other.
LEMMA AddToOpen ==
  ASSUME NEW fts, NEW fn, NEW m, NEW k \in DOMAIN scopes, scopes[k].fun = fn,
         DOMAIN fts = DOMAIN ftypes,
         \A f \in DOMAIN ftypes : fts[f].prev # ftypes[f].prev => IsOpen(f),
         ftypes' = AddCaptures(fts, fn, m)
  PROVE  OnlyOpenCapture
BY DEF AddCaptures, OnlyOpenCapture, IsOpen

\* The function of the current scope, and of the one around it, is open.
LEMMA CurrentIsOpen ==
  ASSUME IInv, InBody
  PROVE  /\ Len(scopes) \in DOMAIN scopes /\ Len(scopes) - 1 \in DOMAIN scopes
         /\ IsOpen(Top.fun) /\ IsOpen(Parent.fun)
<1>1. Len(scopes) \in DOMAIN scopes /\ Len(scopes) - 1 \in DOMAIN scopes
  BY InsideDefinition DEF IInv
<1> QED
  BY <1>1 DEF IsOpen, Top, Parent

LEMMA StopCapturesNothing ==
  ASSUME NEW why, Stop(why)
  PROVE  OnlyOpenCapture
BY EmptySeq DEF Stop, OnlyOpenCapture

LEMMA SameCapturesNothing ==
  ASSUME UNCHANGED ftypes
  PROVE  OnlyOpenCapture
BY DEF OnlyOpenCapture

\* A new function type leaves the others as they are.
LEMMA AppendCapturesNothing ==
  ASSUME IInv, NEW t, ftypes' = Append(ftypes, t)
  PROVE  OnlyOpenCapture
<1>1. \A f \in DOMAIN ftypes : Append(ftypes, t)[f] = ftypes[f]
  BY LenProperties DEF IInv, TypeOK
<1> QED
  BY <1>1 DEF OnlyOpenCapture

LEMMA CaptureIsOpen ==
  ASSUME IInv, InBody, NEW os, Capture(os)
  PROVE  OnlyOpenCapture
<1>1. ftypes' = AddCaptures(ftypes, Top.fun, CapturedBy(os))
  BY DEF Capture
<1> QED
  BY <1>1, CurrentIsOpen, AddToOpen DEF Top

LEMMA CallIsOpen ==
  ASSUME IInv, NEW name, NEW args, Call(name, args), ~Stop("rejected")
  PROVE  OnlyOpenCapture
<1> DEFINE mid == AfterArgs(args)
           m   == NotLocalTo(Top, mid[Fun(name)].prev)
<1>1. InBody /\ ftypes' = AddCaptures(mid, Top.fun, m)
  BY DEF Call, AfterCall
<1>2. /\ DOMAIN mid = DOMAIN ftypes
      /\ \A f \in DOMAIN ftypes : mid[f].prev # ftypes[f].prev => f = Top.fun
  BY DEF AfterArgs, AddCaptures
<1>3. \A f \in DOMAIN ftypes : mid[f].prev # ftypes[f].prev => IsOpen(f)
  BY <1>1, <1>2, CurrentIsOpen
<1> HIDE DEF mid, m
<1> QED
  BY <1>1, <1>2, <1>3, CurrentIsOpen, AddToOpen DEF Top

LEMMA LeaveIsOpen ==
  ASSUME IInv, LeaveInner, ~Stop("rejected")
  PROVE  OnlyOpenCapture
<1>1. InBody /\ ftypes' = AddCaptures(ftypes, Parent.fun, Transferred)
  BY DEF LeaveInner
<1> QED
  BY <1>1, CurrentIsOpen, AddToOpen DEF Parent

\* Adopting a declaration changes no captures.
LEMMA AdoptCapturesNothing ==
  ASSUME NEW f, ftypes' = Adopt(f)
  PROVE  OnlyOpenCapture
BY DEF Adopt, OnlyOpenCapture

LEMMA NextCapturesOpen ==
  ASSUME IInv, [Next]_vars
  PROVE  OnlyOpenCapture
<1>1. CASE UNCHANGED vars
  BY <1>1, SameCapturesNothing DEF vars
<1>2. ASSUME NEW name \in FunNames, NEW h \in Headers,
             \/ DefineFresh(name, h) \/ DefineDeclared(name, h)
             \/ RejectDefinition(name, h) \/ Declare(name, h)
      PROVE  OnlyOpenCapture
  BY <1>2, AppendCapturesNothing, AdoptCapturesNothing, StopCapturesNothing
     DEF DefineFresh, DefineDeclared, RejectDefinition, Declare
<1>3. ASSUME NEW ids \in IdLists, NEW t \in DataTypes, NEW isRef \in UninitBool,
             VarDefinition(ids, t, isRef)
      PROVE  OnlyOpenCapture
  BY <1>3, StopCapturesNothing, SameCapturesNothing DEF VarDefinition
<1>4. ASSUME NEW x \in VarNames, NEW o \in Operands, Assign(x, o)
      PROVE  OnlyOpenCapture
  BY <1>4, StopCapturesNothing, CaptureIsOpen DEF Assign
<1>5. ASSUME NEW name \in FunNames, NEW args \in ArgLists, Call(name, args)
      PROVE  OnlyOpenCapture
  BY <1>5, StopCapturesNothing, CallIsOpen
<1>6. ASSUME NEW o \in Operands, Return(o) \/ Condition(o)
      PROVE  OnlyOpenCapture
  BY <1>6, StopCapturesNothing, CaptureIsOpen DEF Return, Condition
<1>7. CASE Exit \/ Skip \/ LeaveProgram \/ Finished
  BY <1>7, StopCapturesNothing, SameCapturesNothing
     DEF Exit, Skip, LeaveProgram, Finished, vars
<1>8. CASE LeaveInner
  BY <1>8, StopCapturesNothing, LeaveIsOpen
<1> QED
  BY <1>1, <1>2, <1>3, <1>4, <1>5, <1>6, <1>7, <1>8 DEF Next

\* Once a definition has ended, no call and no end of another definition adds
\* to its captures: whoever reads them then reads all of them.
THEOREM CapturesStayFinal == Spec => CapturesAreFinal
<1>1. IInv /\ [Next]_vars =>
        [\A f \in DOMAIN ftypes :
           f \in DOMAIN ftypes' /\ ftypes'[f].prev # ftypes[f].prev
             => \E k \in DOMAIN scopes : scopes[k].fun = f]_vars
  BY NextCapturesOpen DEF OnlyOpenCapture, IsOpen
<1> QED
  BY <1>1, Invariance, PTL DEF Spec, CapturesAreFinal

-----------------------------------------------------------------------------
(* What the pass leaves on the tape for the code generator.                  *)
(*                                                                           *)
(* No two definitions share a function type, functions return what their     *)
(* type says, and whoever calls a finished function can supply what it       *)
(* captures.  Each of the three relates nodes recorded long ago to function  *)
(* types that have changed since.  The invariants below say what of a        *)
(* function type may still change: the flag `declared` is only ever cleared, *)
(* captures are only ever added, and neither happens to a function that is   *)
(* defined and closed.                                                       *)

(* The invariants, for a symbol table s, function types fts and a tape.      *)

\* Every definition has used up its declaration and has a type of its own.
BodiesIn(fts, tape) ==
  \A i \in DOMAIN tape : tape[i].op = "define" =>
    /\ tape[i].fun \in DOMAIN fts /\ ~fts[tape[i].fun].declared
    /\ \A j \in DOMAIN tape : tape[j].op = "define" /\ tape[j].fun = tape[i].fun => i = j

ReturnsFrom(tape, f, last) == \E j \in 1 .. last : tape[j].op = "return" /\ tape[j].by = f

\* A scope knows the result of its function, and a `return` it remembers is
\* on the tape.
ScopesIn(s, fts, tape) ==
  \A k \in DOMAIN s : k > 2 =>
    /\ s[k].fun \in DOMAIN fts /\ s[k].ret = fts[s[k].fun].ret
    /\ s[k].hasReturn => ReturnsFrom(tape, s[k].fun, Len(tape))

ReturnsIn(fts, tape) ==
  \A i \in DOMAIN tape :
    /\ tape[i].op = "exit" => tape[i].by \in DOMAIN fts /\ fts[tape[i].by].ret = "void"
    /\ tape[i].op = "end" => /\ tape[i].fun \in DOMAIN fts
                             /\ fts[tape[i].fun].ret # "void" => ReturnsFrom(tape, tape[i].fun, i)

\* Nothing adds to the captures of f: it is defined, and its scope is closed.
ClosedIn(s, fts, f) ==
  f \in DOMAIN fts /\ ~fts[f].declared /\ \A k \in DOMAIN s : s[k].fun # f

Supplied(fts, node) ==
  /\ node.by \in DOMAIN fts
  /\ Keys(fts[node.fun].prev) \subseteq Keys(fts[node.by].prev) \cup node.locals

CallsIn(s, fts, tape) ==
  \A i \in DOMAIN tape : tape[i].op = "call" /\ tape[i].sealed =>
    ClosedIn(s, fts, tape[i].fun) /\ Supplied(fts, tape[i])

TapeIn(s, fts, tape) ==
  /\ BodiesIn(fts, tape) /\ ScopesIn(s, fts, tape)
  /\ ReturnsIn(fts, tape) /\ CallsIn(s, fts, tape)

TapeInv == TapeIn(scopes, ftypes, ast)

-----------------------------------------------------------------------------
(* What one step of the pass does to the three.                              *)

\* What may become of function types.
Grows(fts, gts) ==
  \A f \in DOMAIN fts :
    /\ f \in DOMAIN gts
    /\ gts[f].ret = fts[f].ret
    /\ gts[f].declared => fts[f].declared
    /\ Keys(fts[f].prev) \subseteq Keys(gts[f].prev)

OpenIn(s, f) == \E k \in DOMAIN s : s[k].fun = f

\* Scope k of t is the one of s, but for a `return` the node may have added.
StaysScope(s, t, k, node) ==
  /\ k \in DOMAIN s /\ t[k].fun = s[k].fun /\ t[k].ret = s[k].ret
  /\ t[k].hasReturn => s[k].hasReturn \/ (node.op = "return" /\ node.by = s[k].fun)

\* Scope k of t is the one the definition at node has opened.
OpensScope(t, k, gts, node) ==
  /\ node.op = "define" /\ t[k].fun = node.fun
  /\ t[k].ret = gts[node.fun].ret /\ ~t[k].hasReturn

\* The node that is recorded fits the table and the types it was visited with.
NodeFits(s, fts, gts, node) ==
  /\ node.op = "define" =>
       /\ node.fun \in DOMAIN gts /\ ~gts[node.fun].declared
       /\ node.fun \in DOMAIN fts => fts[node.fun].declared
  /\ node.op = "exit" => node.by \in DOMAIN fts /\ fts[node.by].ret = "void"
  /\ node.op = "end" =>
       /\ node.fun \in DOMAIN fts
       /\ fts[node.fun].ret # "void" =>
            \E k \in DOMAIN s : k > 2 /\ s[k].fun = node.fun /\ s[k].hasReturn
  /\ node.op = "call" /\ node.sealed => ClosedIn(s, fts, node.fun) /\ Supplied(gts, node)

Visits(s, fts, t, gts, node) ==
  /\ Grows(fts, gts)
  /\ \A f \in DOMAIN fts : gts[f].prev # fts[f].prev => OpenIn(s, f)
  /\ \A k \in DOMAIN t : k > 2 => StaysScope(s, t, k, node) \/ OpensScope(t, k, gts, node)
  /\ \A k \in DOMAIN t : k <= 2 => t[k].fun = Uninit
  /\ NodeFits(s, fts, gts, node)

\* A step that visits a node keeps the invariants.
LEMMA VisitKeeps ==
  ASSUME NEW tape \in Seq(Node), NEW node \in Node,
         NEW fts \in Seq(FType), NEW gts \in Seq(FType), NEW s, NEW t \in Seq(Scope),
         TapeIn(s, fts, tape), Visits(s, fts, t, gts, node)
  PROVE  TapeIn(t, gts, Append(tape, node))
<1> DEFINE new == Append(tape, node)
           n   == Len(tape)
<1>1. /\ n \in Nat /\ DOMAIN tape = 1 .. n /\ DOMAIN new = 1 .. n + 1 /\ Len(new) = n + 1
      /\ new[n + 1] = node /\ \A i \in 1 .. n : new[i] = tape[i]
  BY AppendProperties, LenProperties
<1>2. Grows(fts, gts)
  BY DEF Visits
<1>3. ASSUME NEW f, NEW i \in 0 .. n, NEW j \in i .. n + 1, ReturnsFrom(tape, f, i)
      PROVE  ReturnsFrom(new, f, j)
  BY <1>1, <1>3 DEF ReturnsFrom
<1> HIDE DEF new, n
<1>4. BodiesIn(gts, new)
  <2>1. ASSUME NEW i \in 1 .. n, tape[i].op = "define"
        PROVE  /\ tape[i].fun \in DOMAIN gts /\ ~gts[tape[i].fun].declared
               /\ node.op = "define" => node.fun # tape[i].fun
    <3>1. tape[i].fun \in DOMAIN fts /\ ~fts[tape[i].fun].declared
      BY <1>1, <2>1 DEF TapeIn, BodiesIn
    <3> QED
      BY <1>2, <3>1 DEF Grows, Visits, NodeFits
  <2>2. node.op = "define" => node.fun \in DOMAIN gts /\ ~gts[node.fun].declared
    BY DEF Visits, NodeFits
  <2>3. \A i, j \in 1 .. n :
          tape[i].op = "define" /\ tape[j].op = "define" /\ tape[j].fun = tape[i].fun => i = j
    BY <1>1 DEF TapeIn, BodiesIn
  <2>4. ASSUME NEW i \in 1 .. n + 1, NEW j \in 1 .. n + 1, new[i].op = "define",
               new[j].op = "define", new[j].fun = new[i].fun
        PROVE  i = j
    BY <1>1, <2>1, <2>3, <2>4
  <2>5. ASSUME NEW i \in 1 .. n + 1, new[i].op = "define"
        PROVE  new[i].fun \in DOMAIN gts /\ ~gts[new[i].fun].declared
    BY <1>1, <2>1, <2>2, <2>5
  <2> QED
    BY <1>1, <2>4, <2>5 DEF BodiesIn
<1>5. ScopesIn(t, gts, new)
  <2> SUFFICES ASSUME NEW k \in DOMAIN t, k > 2
               PROVE  /\ t[k].fun \in DOMAIN gts /\ t[k].ret = gts[t[k].fun].ret
                      /\ t[k].hasReturn => ReturnsFrom(new, t[k].fun, n + 1)
    BY <1>1 DEF ScopesIn
  <2>1. CASE StaysScope(s, t, k, node)
    <3>1. /\ s[k].fun \in DOMAIN fts /\ s[k].ret = fts[s[k].fun].ret
          /\ s[k].hasReturn => ReturnsFrom(tape, s[k].fun, n)
      BY <2>1 DEF TapeIn, ScopesIn, StaysScope, n
    <3>2. t[k].fun \in DOMAIN gts /\ t[k].ret = gts[t[k].fun].ret
      BY <1>2, <2>1, <3>1 DEF StaysScope, Grows
    <3>3. CASE s[k].hasReturn
      <4>1. n \in 0 .. n /\ n + 1 \in n .. n + 1
        BY <1>1
      <4> QED
        BY <1>3, <2>1, <3>1, <3>2, <3>3, <4>1 DEF StaysScope
    <3>4. CASE node.op = "return" /\ node.by = s[k].fun
      <4>1. n + 1 \in 1 .. n + 1
        BY <1>1
      <4> QED
        BY <1>1, <2>1, <3>2, <3>4, <4>1 DEF StaysScope, ReturnsFrom
    <3> QED
      BY <2>1, <3>2, <3>3, <3>4 DEF StaysScope
  <2>2. CASE OpensScope(t, k, gts, node)
    BY <2>2 DEF OpensScope, Visits, NodeFits
  <2> QED
    BY <2>1, <2>2 DEF Visits
<1>6. ReturnsIn(gts, new)
  <2>1. ASSUME NEW i \in 1 .. n
        PROVE  /\ tape[i].op = "exit" => tape[i].by \in DOMAIN gts /\ gts[tape[i].by].ret = "void"
               /\ tape[i].op = "end" =>
                    /\ tape[i].fun \in DOMAIN gts
                    /\ gts[tape[i].fun].ret # "void" => ReturnsFrom(new, tape[i].fun, i)
    <3>1. /\ tape[i].op = "exit" => tape[i].by \in DOMAIN fts /\ fts[tape[i].by].ret = "void"
          /\ tape[i].op = "end" =>
               /\ tape[i].fun \in DOMAIN fts
               /\ fts[tape[i].fun].ret # "void" => ReturnsFrom(tape, tape[i].fun, i)
      BY <1>1 DEF TapeIn, ReturnsIn
    <3>2. i \in 0 .. n /\ i \in i .. n + 1
      BY <1>1
    <3> QED
      BY <1>2, <1>3, <3>1, <3>2 DEF Grows
  <2>2. node.op = "exit" => node.by \in DOMAIN gts /\ gts[node.by].ret = "void"
    BY <1>2 DEF Visits, NodeFits, Grows
  <2>3. ASSUME node.op = "end"
        PROVE  node.fun \in DOMAIN gts /\ (gts[node.fun].ret # "void" => ReturnsFrom(new, node.fun, n + 1))
    <3>1. node.fun \in DOMAIN gts /\ gts[node.fun].ret = fts[node.fun].ret
      BY <1>2, <2>3 DEF Visits, NodeFits, Grows
    <3>2. ASSUME gts[node.fun].ret # "void" PROVE ReturnsFrom(tape, node.fun, n)
      <4>1. PICK k \in DOMAIN s : k > 2 /\ s[k].fun = node.fun /\ s[k].hasReturn
        BY <2>3, <3>1, <3>2 DEF Visits, NodeFits
      <4> QED
        BY <4>1 DEF TapeIn, ScopesIn, n
    <3>3. n \in 0 .. n /\ n + 1 \in n .. n + 1
      BY <1>1
    <3> QED
      BY <1>3, <3>1, <3>2, <3>3
  <2> SUFFICES ASSUME NEW i \in 1 .. n + 1
               PROVE  /\ new[i].op = "exit" => new[i].by \in DOMAIN gts /\ gts[new[i].by].ret = "void"
                      /\ new[i].op = "end" =>
                           /\ new[i].fun \in DOMAIN gts
                           /\ gts[new[i].fun].ret # "void" => ReturnsFrom(new, new[i].fun, i)
    BY <1>1 DEF ReturnsIn
  <2>4. CASE i \in 1 .. n
    BY <1>1, <2>1, <2>4
  <2>5. CASE i = n + 1
    BY <1>1, <2>2, <2>3, <2>5
  <2> QED
    BY <1>1, <2>4, <2>5
<1>7. CallsIn(t, gts, new)
  <2>1. ASSUME NEW f, ClosedIn(s, fts, f)
        PROVE  ClosedIn(t, gts, f) /\ gts[f].prev = fts[f].prev
    <3>1. f \in DOMAIN fts /\ ~fts[f].declared /\ \A k \in DOMAIN s : s[k].fun # f
      BY <2>1 DEF ClosedIn
    <3>2. f \in DOMAIN gts /\ ~gts[f].declared
      BY <1>2, <3>1 DEF Grows
    <3>3. gts[f].prev = fts[f].prev
      BY <3>1 DEF Visits, OpenIn
    <3>4. f # Uninit
      BY <3>1, LenProperties, NameAssumption
    <3>5. ASSUME NEW k \in DOMAIN t PROVE t[k].fun # f
      <4>1. CASE k > 2 /\ StaysScope(s, t, k, node)
        BY <3>1, <4>1 DEF StaysScope
      <4>2. CASE k > 2 /\ OpensScope(t, k, gts, node)
        BY <3>1, <4>2 DEF OpensScope, Visits, NodeFits
      <4>3. CASE k <= 2
        BY <3>4, <4>3 DEF Visits
      <4>4. k <= 2 \/ k > 2
        BY LenProperties
      <4> QED
        BY <4>1, <4>2, <4>3, <4>4 DEF Visits
    <3> QED
      BY <3>2, <3>3, <3>5 DEF ClosedIn
  <2> SUFFICES ASSUME NEW i \in 1 .. n + 1, new[i].op = "call", new[i].sealed
               PROVE  ClosedIn(t, gts, new[i].fun) /\ Supplied(gts, new[i])
    BY <1>1 DEF CallsIn
  <2>2. CASE i \in 1 .. n
    <3>1. ClosedIn(s, fts, tape[i].fun) /\ Supplied(fts, tape[i])
      BY <1>1, <2>2 DEF TapeIn, CallsIn
    <3>2. ClosedIn(t, gts, tape[i].fun) /\ gts[tape[i].fun].prev = fts[tape[i].fun].prev
      BY <2>1, <3>1
    <3>3. Supplied(gts, tape[i])
      BY <1>2, <3>1, <3>2 DEF Supplied, Grows
    <3> QED
      BY <1>1, <2>2, <3>2, <3>3
  <2>3. CASE i = n + 1
    BY <1>1, <2>1, <2>3 DEF Visits, NodeFits
  <2> QED
    BY <1>1, <2>2, <2>3
<1> QED
  BY <1>4, <1>5, <1>6, <1>7 DEF TapeIn, new

-----------------------------------------------------------------------------
(* Function types only grow.                                                 *)

LEMMA GrowsToItself ==
  ASSUME NEW fts
  PROVE  Grows(fts, fts)
BY DEF Grows

\* Adding captures keeps what a function captured and everything else of it.
LEMMA AddCapturesGrows ==
  ASSUME NEW old \in Seq(FType), NEW fts \in Seq(FType), Grows(old, fts),
         NEW fn \in DOMAIN fts, NEW m \in VarMap
  PROVE  Grows(old, AddCaptures(fts, fn, m))
<1> DEFINE gts == AddCaptures(fts, fn, m)
<1>1. DOMAIN gts = DOMAIN fts
  BY DEF AddCaptures
<1>2. ASSUME NEW f \in DOMAIN fts
      PROVE  /\ gts[f].ret = fts[f].ret /\ gts[f].declared = fts[f].declared
             /\ Keys(fts[f].prev) \subseteq Keys(gts[f].prev)
  <2>1. fts[f] \in FType
    BY LenProperties, ElementOfSeq
  <2>2. gts[f].ret = fts[f].ret /\ gts[f].declared = fts[f].declared
    BY <2>1 DEF AddCaptures, FType
  <2>3. gts[f].prev = IF f = fn THEN Override(fts[f].prev, m) ELSE fts[f].prev
    BY AddCapturesProperties
  <2>4. Keys(fts[f].prev) \subseteq Keys(Override(fts[f].prev, m))
    BY <2>1 DEF Keys, Override, FType, VarMap
  <2> QED
    BY <2>2, <2>3, <2>4
<1> HIDE DEF gts
<1> QED
  BY <1>1, <1>2 DEF Grows, gts

LEMMA AppendGrows ==
  ASSUME NEW fts \in Seq(FType), NEW t
  PROVE  Grows(fts, Append(fts, t))
BY LenProperties DEF Grows

\* The declaration is used up, and nothing else changes.
LEMMA AdoptGrows ==
  ASSUME ftypes \in Seq(FType), NEW f \in DOMAIN ftypes
  PROVE  Adopt(f) \in Seq(FType) /\ Grows(ftypes, Adopt(f)) /\ ~Adopt(f)[f].declared
         /\ Adopt(f)[f].ret = ftypes[f].ret
<1>1. \A g \in DOMAIN ftypes : ftypes[g] \in FType
  BY LenProperties, ElementOfSeq
<1>2. /\ DOMAIN Adopt(f) = DOMAIN ftypes
      /\ \A g \in DOMAIN ftypes :
           Adopt(f)[g] = IF g = f THEN [ftypes[f] EXCEPT !.declared = FALSE] ELSE ftypes[g]
  BY DEF Adopt
<1>3. [ftypes[f] EXCEPT !.declared = FALSE] \in FType
  BY <1>1 DEF FType
<1>4. Adopt(f) \in Seq(FType)
  BY <1>3, ExceptSeq, LenProperties DEF Adopt
<1>5. \A g \in DOMAIN ftypes :
        /\ Adopt(f)[g].ret = ftypes[g].ret /\ Adopt(f)[g].prev = ftypes[g].prev
        /\ Adopt(f)[g].declared = IF g = f THEN FALSE ELSE ftypes[g].declared
  BY <1>1, <1>2 DEF FType
<1> QED
  BY <1>2, <1>4, <1>5 DEF Grows

-----------------------------------------------------------------------------
(* One lemma for every kind of node.                                         *)

TapeNow == IInv /\ TapeInv

\* From the next tables, function types and node to the next invariant.
LEMMA RecordKeeps ==
  ASSUME TapeNow, IInv', OnlyOpenCapture, NEW node, Record(node), Grows(ftypes, ftypes'),
         \A k \in DOMAIN scopes' :
           k > 2 => StaysScope(scopes, scopes', k, node) \/ OpensScope(scopes', k, ftypes', node),
         NodeFits(scopes, ftypes, ftypes', node)
  PROVE  TapeInv'
<1>1. /\ ast \in Seq(Node) /\ ftypes \in Seq(FType) /\ ftypes' \in Seq(FType)
      /\ scopes' \in Seq(Scope) /\ \A k \in DOMAIN scopes' : k <= 2 => scopes'[k].fun = Uninit
  BY DEF TapeNow, IInv, TypeOK
<1>2. \A f \in DOMAIN ftypes : ftypes'[f].prev # ftypes[f].prev => OpenIn(scopes, f)
  BY DEF OnlyOpenCapture, Grows, IsOpen, OpenIn
<1>3. Visits(scopes, ftypes, scopes', ftypes', node)
  BY <1>1, <1>2 DEF Visits
<1>4. node \in Node
  <2>1. ast' \in Seq(Node) /\ ast' = Append(ast, node)
    BY DEF IInv, TypeOK, Record
  <2>2. Len(ast') = Len(ast) + 1 /\ ast'[Len(ast) + 1] = node /\ Len(ast) \in Nat
    BY <1>1, <2>1, LenProperties
  <2>3. Len(ast) + 1 \in 1 .. Len(ast')
    BY <2>2
  <2> QED
    BY <2>1, <2>2, <2>3, ElementOfSeq
<1> QED
  BY <1>1, <1>3, <1>4, VisitKeeps DEF TapeNow, TapeInv, Record

\* A stopped compiler has empty state.
LEMMA StopKeeps ==
  ASSUME NEW why, Stop(why)
  PROVE  TapeInv'
BY DEF Stop, TapeInv, TapeIn, BodiesIn, ScopesIn, ReturnsIn, CallsIn

\* Statements leave the table as it is, but for the `return`.
LEMMA StatementKeeps ==
  ASSUME TapeNow, IInv', OnlyOpenCapture, InBody, NEW node, Record(node),
         \/ scopes' = scopes
         \/ scopes' = MarkReturn /\ node.op = "return" /\ node.by = Top.fun,
         Grows(ftypes, ftypes'), NodeFits(scopes, ftypes, ftypes', node)
  PROVE  TapeInv'
<1>1. \A k \in DOMAIN scopes : scopes[k] \in Scope
  BY InsideDefinition DEF TapeNow, IInv
<1>2. ASSUME NEW k \in DOMAIN scopes', k > 2 PROVE StaysScope(scopes, scopes', k, node)
  <2>1. CASE scopes' = scopes
    BY <2>1 DEF StaysScope
  <2>2. CASE scopes' = MarkReturn /\ node.op = "return" /\ node.by = Top.fun
    BY <1>1, <2>2 DEF MarkReturn, StaysScope, Scope, Top
  <2> QED
    BY <2>1, <2>2
<1> QED
  BY <1>2, RecordKeeps

\* A statement that evaluates the operands os.
LEMMA CaptureKeeps ==
  ASSUME TapeNow, IInv', OnlyOpenCapture, InBody, NEW os, \A x \in os \cap VarNames : IsVar(x),
         Capture(os), NEW node, Record(node),
         \/ scopes' = scopes
         \/ scopes' = MarkReturn /\ node.op = "return" /\ node.by = Top.fun,
         node.op \in {"assign", "return", "condition"}
  PROVE  TapeInv'
<1>1. CapturedBy(os) \in VarMap /\ Top.fun \in DOMAIN ftypes /\ ftypes \in Seq(FType)
  BY CapturedByProperties, InsideDefinition DEF TapeNow, IInv, TypeOK
<1>2. Grows(ftypes, ftypes')
  BY <1>1, GrowsToItself, AddCapturesGrows DEF Capture
<1>3. NodeFits(scopes, ftypes, ftypes', node)
  BY DEF NodeFits
<1> QED
  BY <1>2, <1>3, StatementKeeps

\* A call of a closed function takes over all that function captures.
LEMMA CallKeeps ==
  ASSUME TapeNow, IInv', OnlyOpenCapture, NEW name \in FunNames, NEW args \in ArgLists,
         Call(name, args)
  PROVE  TapeInv'
<1>1. CASE ~WellTypedCall(name, args)
  BY <1>1, StopKeeps DEF Call
<1>2. CASE WellTypedCall(name, args)
  <2> DEFINE fn   == Fun(name)
             me   == Top.fun
             mid  == AfterArgs(args)
             m    == NotLocalTo(Top, mid[fn].prev)
             node == [op |-> "call", name |-> name, args |-> args,
                      binds |-> Bindings(Elements(args)), fun |-> fn, by |-> me,
                      sealed |-> Sealed(fn), locals |-> Keys(Top.locals)]
  <2>1. /\ InBody /\ Record(node) /\ UNCHANGED scopes
        /\ ftypes' = AddCaptures(mid, me, m)
    BY <1>2 DEF Call, AfterCall
  <2>2. /\ me \in DOMAIN ftypes /\ Top \in Scope /\ fn \in DOMAIN ftypes
        /\ ftypes \in Seq(FType) /\ Len(scopes) \in DOMAIN scopes
    BY <1>2, <2>1, InsideDefinition, CallCaptures DEF TapeNow, IInv, TypeOK
  <2>3. CapturedBy(Elements(args)) \in VarMap
    <3>1. \A x \in Elements(args) \cap VarNames : IsVar(x)
      BY <1>2 DEF Elements, WellTypedCall, HasType, Names
    <3> QED
      BY <2>1, <3>1, CapturedByProperties DEF TapeNow, IInv
  <2>4. mid \in Seq(FType) /\ DOMAIN mid = DOMAIN ftypes /\ Grows(ftypes, mid)
    BY <2>2, <2>3, GrowsToItself, AddCapturesProperties, AddCapturesGrows DEF AfterArgs
  <2>5. \A f \in DOMAIN ftypes : f # me => mid[f].prev = ftypes[f].prev
    BY <2>2, <2>3, AddCapturesProperties DEF AfterArgs
  <2> HIDE DEF mid, fn, me
  <2>6. mid[fn].prev \in VarMap /\ m \in VarMap
    <3>1. mid[fn] \in FType
      BY <2>2, <2>4, LenProperties, ElementOfSeq
    <3>2. mid[fn].prev \in VarMap
      BY <3>1 DEF FType
    <3> QED
      BY <2>2, <3>2, NotLocalToProperties
  <2> HIDE DEF m
  <2>7. Grows(ftypes, ftypes')
    BY <2>1, <2>2, <2>4, <2>6, AddCapturesGrows
  <2>8. ASSUME Sealed(fn)
        PROVE  ClosedIn(scopes, ftypes, fn) /\ fn # me
    BY <2>2, <2>8 DEF Sealed, ClosedIn, me, Top
  <2>9. ASSUME Sealed(fn)
        PROVE  Keys(ftypes'[fn].prev) \subseteq Keys(ftypes'[me].prev) \cup Keys(Top.locals)
    <3>1. /\ ftypes'[fn].prev = mid[fn].prev
          /\ ftypes'[me].prev = Override(mid[me].prev, m)
      <4>1. me \in DOMAIN mid /\ fn \in DOMAIN mid /\ fn # me
        BY <2>2, <2>4, <2>8, <2>9
      <4>2. \A g \in DOMAIN mid : AddCaptures(mid, me, m)[g].prev =
              IF g = me THEN Override(mid[me].prev, m) ELSE mid[g].prev
        BY <2>4, <2>6, <4>1, AddCapturesProperties
      <4> QED
        BY <2>1, <4>1, <4>2
    <3>2. DOMAIN mid[fn].prev = VarNames /\ DOMAIN Top.locals = VarNames
      BY <2>2, <2>6 DEF VarMap, Scope
    <3> QED
      BY <3>1, <3>2 DEF Keys, Override, NotLocalTo, m
  <2>10. me \in DOMAIN ftypes'
    BY <2>2, <2>7 DEF Grows
  <2>11. NodeFits(scopes, ftypes, ftypes', node)
    BY <2>8, <2>9, <2>10 DEF NodeFits, Supplied
  <2> HIDE DEF node
  <2> QED
    BY <2>1, <2>7, <2>11, StatementKeeps
<1> QED
  BY <1>1, <1>2

LEMMA ExitKeeps ==
  ASSUME TapeNow, IInv', OnlyOpenCapture, Exit
  PROVE  TapeInv'
<1>1. CASE Top.ret # "void"
  BY <1>1, StopKeeps DEF Exit
<1>2. CASE Top.ret = "void"
  <2> DEFINE node == [op |-> "exit", by |-> Top.fun]
  <2>1. InBody /\ Record(node) /\ UNCHANGED <<scopes, ftypes>>
    BY <1>2 DEF Exit
  <2>2. Len(scopes) \in DOMAIN scopes /\ Len(scopes) > 2
    BY <2>1, InsideDefinition DEF TapeNow, IInv
  <2>3. Top.fun \in DOMAIN ftypes /\ ftypes[Top.fun].ret = "void"
    BY <1>2, <2>2 DEF TapeNow, TapeInv, TapeIn, ScopesIn, Top
  <2>4. NodeFits(scopes, ftypes, ftypes', node) /\ Grows(ftypes, ftypes')
    BY <2>1, <2>3, GrowsToItself DEF NodeFits
  <2> HIDE DEF node
  <2> QED
    BY <2>1, <2>4, StatementKeeps
<1> QED
  BY <1>1, <1>2

LEMMA OtherStatementsKeep ==
  ASSUME TapeNow, IInv', OnlyOpenCapture,
         \/ \E x \in VarNames, o \in Operands : Assign(x, o)
         \/ \E o \in Operands : Return(o) \/ Condition(o)
         \/ Skip
  PROVE  TapeInv'
<1>1. ASSUME NEW x \in VarNames, NEW o \in Operands, Assign(x, o)
      PROVE  TapeInv'
  <2> DEFINE node == [op |-> "assign", target |-> x, operand |-> o, binds |-> Bindings({x, o}),
                      by |-> Top.fun]
  <2>1. CASE ~(IsVar(x) /\ HasType(o, Var(x).t))
    BY <1>1, <2>1, StopKeeps DEF Assign
  <2>2. CASE IsVar(x) /\ HasType(o, Var(x).t)
    <3>1. InBody /\ Record(node) /\ Capture({x, o}) /\ UNCHANGED scopes /\ node.op = "assign"
      BY <1>1, <2>2 DEF Assign
    <3>2. \A v \in {x, o} \cap VarNames : IsVar(v)
      BY <2>2 DEF HasType, Names
    <3> HIDE DEF node
    <3> QED
      BY <3>1, <3>2, CaptureKeeps
  <2> QED
    BY <2>1, <2>2
<1>2. ASSUME NEW o \in Operands, Return(o)
      PROVE  TapeInv'
  <2> DEFINE node == [op |-> "return", operand |-> o, binds |-> Bindings({o}), by |-> Top.fun]
  <2>1. CASE ~HasType(o, Top.ret)
    BY <1>2, <2>1, StopKeeps DEF Return
  <2>2. CASE HasType(o, Top.ret)
    <3>1. /\ InBody /\ Record(node) /\ Capture({o}) /\ scopes' = MarkReturn
          /\ node.op = "return" /\ node.by = Top.fun
      BY <1>2, <2>2 DEF Return
    <3>2. \A v \in {o} \cap VarNames : IsVar(v)
      BY <2>2 DEF HasType, Names
    <3> HIDE DEF node
    <3> QED
      BY <3>1, <3>2, CaptureKeeps
  <2> QED
    BY <2>1, <2>2
<1>3. ASSUME NEW o \in Operands, Condition(o)
      PROVE  TapeInv'
  <2> DEFINE node == [op |-> "condition", operand |-> o, binds |-> Bindings({o}), by |-> Top.fun]
  <2>1. CASE ~HasType(o, "bool")
    BY <1>3, <2>1, StopKeeps DEF Condition
  <2>2. CASE HasType(o, "bool")
    <3>1. InBody /\ Record(node) /\ Capture({o}) /\ UNCHANGED scopes /\ node.op = "condition"
      BY <1>3, <2>2 DEF Condition
    <3>2. \A v \in {o} \cap VarNames : IsVar(v)
      BY <2>2 DEF HasType, Names
    <3> HIDE DEF node
    <3> QED
      BY <3>1, <3>2, CaptureKeeps
  <2> QED
    BY <2>1, <2>2
<1>4. CASE Skip
  <2> DEFINE node == [op |-> "skip"]
  <2>1. InBody /\ Record(node) /\ UNCHANGED <<scopes, ftypes>>
    BY <1>4 DEF Skip, InDefs, InBody
  <2>2. NodeFits(scopes, ftypes, ftypes', node) /\ Grows(ftypes, ftypes')
    BY <2>1, GrowsToItself DEF NodeFits
  <2> HIDE DEF node
  <2> QED
    BY <2>1, <2>2, StatementKeeps
<1> QED
  BY <1>1, <1>2, <1>3, <1>4

-----------------------------------------------------------------------------
(* Definitions, declarations and variables.                                  *)

\* Registering a function leaves results and returns of all scopes alone.
LEMMA InsertFuncStays ==
  ASSUME NEW name \in FunNames, NEW f, scopes \in Seq(Scope)
  PROVE  LET new == InsertFunc(Len(scopes), name, f) IN
         \A k \in DOMAIN new :
           /\ k \in DOMAIN scopes /\ new[k].fun = scopes[k].fun
           /\ new[k].ret = scopes[k].ret /\ new[k].hasReturn = scopes[k].hasReturn
<1>1. \A k \in DOMAIN scopes : scopes[k] \in Scope
  BY LenProperties, ElementOfSeq
<1> QED
  BY <1>1 DEF InsertFunc, Scope

\* The scope a definition opens expects the header's result and has no return.
LEMMA OpenScopeTop ==
  ASSUME NEW old \in Seq(Scope), NEW h \in Headers, NEW f
  PROVE  LET new == OpenScope(old, h, f) IN
         \A k \in DOMAIN new :
           \/ k \in DOMAIN old /\ new[k] = old[k]
           \/ new[k].fun = f /\ new[k].ret = h.ret /\ ~new[k].hasReturn
<1> DEFINE s == [EmptyScope(h.ret, f) EXCEPT !.locals = FormalLocals(h)]
<1>1. s.fun = f /\ s.ret = h.ret /\ ~s.hasReturn
  BY DEF EmptyScope
<1> HIDE DEF s
<1>2. OpenScope(old, h, f) = Append(old, s)
  BY DEF OpenScope, s
<1> QED
  BY <1>1, <1>2, AppendProperties, LenProperties

LEMMA DefineFreshKeeps ==
  ASSUME TapeNow, IInv', OnlyOpenCapture, NEW name \in FunNames, NEW h \in Headers,
         DefineFresh(name, h)
  PROVE  TapeInv'
<1> DEFINE f    == Len(ftypes) + 1
           t    == FunctionType(h.ret, DefArgs(h), FALSE)
           mid  == InsertFunc(Len(scopes), name, f)
           node == [op |-> "define", name |-> name, header |-> h, fun |-> f]
<1>1. /\ Walking /\ ftypes' = Append(ftypes, t) /\ scopes' = OpenScope(mid, h, f) /\ Record(node)
  BY DEF DefineFresh, CanDefine, Enter
<1>2. /\ scopes \in Seq(Scope) /\ ftypes \in Seq(FType) /\ f \in Nat /\ f \notin DOMAIN ftypes
      /\ mid \in Seq(Scope)
  BY <1>1, WhileWalking, InsertFuncProperties DEF TapeNow, IInv
<1>3. f \in DOMAIN ftypes' /\ ftypes'[f].ret = h.ret /\ ~ftypes'[f].declared
  BY <1>1, <1>2, LenProperties DEF FunctionType
<1>4. Grows(ftypes, ftypes')
  BY <1>1, <1>2, AppendGrows
<1> HIDE DEF t, f
<1>5. NodeFits(scopes, ftypes, ftypes', node)
  BY <1>2, <1>3 DEF NodeFits
<1>6. ASSUME NEW k \in DOMAIN scopes'
      PROVE  StaysScope(scopes, scopes', k, node) \/ OpensScope(scopes', k, ftypes', node)
  <2>1. CASE k \in DOMAIN mid /\ scopes'[k] = mid[k]
    BY <1>2, <2>1, InsertFuncStays DEF StaysScope
  <2>2. CASE scopes'[k].fun = f /\ scopes'[k].ret = h.ret /\ ~scopes'[k].hasReturn
    BY <1>3, <2>2 DEF OpensScope
  <2> HIDE DEF mid
  <2> QED
    BY <1>1, <1>2, <2>1, <2>2, OpenScopeTop
<1> HIDE DEF node
<1> QED
  BY <1>1, <1>4, <1>5, <1>6, RecordKeeps

LEMMA DefineDeclaredKeeps ==
  ASSUME TapeNow, IInv', OnlyOpenCapture, NEW name \in FunNames, NEW h \in Headers,
         DefineDeclared(name, h)
  PROVE  TapeInv'
<1> DEFINE f    == Top.functions[name]
           node == [op |-> "define", name |-> name, header |-> h, fun |-> f]
<1>1. /\ Walking /\ ftypes' = Adopt(f) /\ scopes' = OpenScope(scopes, h, f) /\ Record(node)
      /\ f # None /\ ftypes[f].declared /\ ftypes[f].ret = h.ret
  BY DEF DefineDeclared, CanDefine, Enter, SameSignature
<1>2. scopes \in Seq(Scope) /\ ftypes \in Seq(FType) /\ Len(scopes) \in DOMAIN scopes
  BY <1>1, WhileWalking DEF TapeNow, IInv
<1>3. f \in DOMAIN ftypes
  BY <1>1, <1>2 DEF TapeNow, IInv, TypeOK, Top
<1>4. /\ Grows(ftypes, ftypes') /\ f \in DOMAIN ftypes'
      /\ ftypes'[f].ret = h.ret /\ ~ftypes'[f].declared
  BY <1>1, <1>2, <1>3, AdoptGrows DEF Grows
<1> HIDE DEF f
<1>5. NodeFits(scopes, ftypes, ftypes', node)
  BY <1>1, <1>4 DEF NodeFits
<1>6. ASSUME NEW k \in DOMAIN scopes'
      PROVE  StaysScope(scopes, scopes', k, node) \/ OpensScope(scopes', k, ftypes', node)
  BY <1>1, <1>2, <1>4, OpenScopeTop DEF StaysScope, OpensScope
<1> HIDE DEF node
<1> QED
  BY <1>1, <1>4, <1>5, <1>6, RecordKeeps

LEMMA DeclareKeeps ==
  ASSUME TapeNow, IInv', OnlyOpenCapture, NEW name \in FunNames, NEW h \in Headers,
         Declare(name, h)
  PROVE  TapeInv'
<1>1. CASE Top.functions[name] # None
  BY <1>1, StopKeeps DEF Declare
<1>2. CASE Top.functions[name] = None
  <2> DEFINE f    == Len(ftypes) + 1
             node == [op |-> "declare", name |-> name, header |-> h, fun |-> f]
  <2>1. /\ Walking /\ Record(node) /\ scopes' = InsertFunc(Len(scopes), name, f)
        /\ ftypes' = Append(ftypes, FunctionType(h.ret, DeclArgs(h), TRUE))
    BY <1>2 DEF Declare, InDefs
  <2>2. scopes \in Seq(Scope) /\ ftypes \in Seq(FType)
    BY <2>1, WhileWalking DEF TapeNow, IInv
  <2>3. Grows(ftypes, ftypes') /\ NodeFits(scopes, ftypes, ftypes', node)
    BY <2>1, <2>2, AppendGrows DEF NodeFits
  <2>4. \A k \in DOMAIN scopes' : StaysScope(scopes, scopes', k, node)
    BY <2>1, <2>2, InsertFuncStays DEF StaysScope
  <2> HIDE DEF node
  <2> QED
    BY <2>1, <2>3, <2>4, RecordKeeps
<1> QED
  BY <1>1, <1>2

LEMMA VarDefinitionKeeps ==
  ASSUME TapeNow, IInv', OnlyOpenCapture, NEW ids, NEW t, NEW isRef, VarDefinition(ids, t, isRef)
  PROVE  TapeInv'
<1> DEFINE type == [t |-> t, pass |-> IF isRef THEN "ref" ELSE "val", node |-> Len(ast) + 1]
           node == [op |-> "var", ids |-> ids, type |-> type, by |-> Top.fun]
<1>1. CASE ~Distinct(ids) \/ (\E x \in Elements(ids) : Top.locals[x] # None)
  BY <1>1, StopKeeps DEF VarDefinition
<1>2. CASE ~(~Distinct(ids) \/ (\E x \in Elements(ids) : Top.locals[x] # None))
  <2>1. /\ InBody /\ Record(node) /\ UNCHANGED ftypes
        /\ scopes' = [scopes EXCEPT ![Len(scopes)].locals =
                        [x \in VarNames |-> IF x \in Elements(ids) THEN type ELSE @[x]]]
    BY <1>2 DEF VarDefinition, InDefs, InBody
  <2>2. \A k \in DOMAIN scopes : scopes[k] \in Scope
    BY <2>1, InsideDefinition DEF TapeNow, IInv
  <2>3. NodeFits(scopes, ftypes, ftypes', node) /\ Grows(ftypes, ftypes')
    BY <2>1, GrowsToItself DEF NodeFits
  <2>4. ASSUME NEW k \in DOMAIN scopes' PROVE StaysScope(scopes, scopes', k, node)
    BY <2>1, <2>2 DEF StaysScope, Scope
  <2> HIDE DEF node
  <2> QED
    BY <2>1, <2>3, <2>4, RecordKeeps
<1> QED
  BY <1>1, <1>2

-----------------------------------------------------------------------------
(* The end of a definition.                                                  *)

\* A function that is closed well with a result remembers a `return`.
LEMMA EndFits ==
  ASSUME TapeNow, InBody, ClosedWell, NEW gts
  PROVE  NodeFits(scopes, ftypes, gts, [op |-> "end", fun |-> Top.fun])
<1>1. Len(scopes) \in DOMAIN scopes /\ Len(scopes) > 2 /\ Top.fun \in DOMAIN ftypes
  BY InsideDefinition DEF TapeNow, IInv
<1>2. Top.ret = ftypes[Top.fun].ret
  BY <1>1 DEF TapeNow, TapeInv, TapeIn, ScopesIn, Top
<1>3. ASSUME ftypes[Top.fun].ret # "void"
      PROVE  \E k \in DOMAIN scopes : k > 2 /\ scopes[k].fun = Top.fun /\ scopes[k].hasReturn
  BY <1>1, <1>2, <1>3 DEF ClosedWell, Top
<1> QED
  BY <1>1, <1>3 DEF NodeFits

LEMMA LeaveInnerKeeps ==
  ASSUME TapeNow, IInv', OnlyOpenCapture, LeaveInner
  PROVE  TapeInv'
<1> DEFINE node == [op |-> "end", fun |-> Top.fun]
<1>1. CASE ~ClosedWell
  BY <1>1, StopKeeps DEF LeaveInner
<1>2. CASE ClosedWell
  <2>1. /\ InBody /\ Len(walk) > 1 /\ Record(node)
        /\ ftypes' = AddCaptures(ftypes, Parent.fun, Transferred)
        /\ scopes' = SubSeq(scopes, 1, Len(scopes) - 1)
    BY <1>2 DEF LeaveInner
  <2>2. /\ ftypes \in Seq(FType) /\ scopes \in Seq(Scope)
        /\ Len(scopes) \in Nat /\ Len(scopes) > 3 /\ DOMAIN scopes = 1 .. Len(scopes)
        /\ Parent \in Scope /\ Top.fun \in DOMAIN ftypes
    BY <2>1, InsideDefinition, WhileWalking DEF TapeNow, IInv, InBody
  <2>3. Parent.fun \in DOMAIN ftypes
    <3>1. Len(scopes) - 1 \in DOMAIN scopes /\ ~(Len(scopes) - 1 <= 2)
      BY <2>2
    <3> QED
      BY <3>1 DEF TapeNow, IInv, TypeOK, Parent
  <2>4. ftypes[Top.fun].prev \in VarMap
    <3>1. ftypes[Top.fun] \in FType
      BY <2>2, LenProperties, ElementOfSeq
    <3> QED
      BY <3>1 DEF FType
  <2>5. Transferred \in VarMap
    BY <2>2, <2>4, NotLocalToProperties DEF Transferred
  <2>6. Grows(ftypes, ftypes')
    BY <2>1, <2>2, <2>3, <2>5, GrowsToItself, AddCapturesGrows
  <2>7. ASSUME NEW k \in DOMAIN scopes' PROVE StaysScope(scopes, scopes', k, node)
    <3>1. k \in DOMAIN scopes /\ scopes'[k] = scopes[k]
      BY <2>1, <2>2
    <3> QED
      BY <3>1 DEF StaysScope
  <2>8. NodeFits(scopes, ftypes, ftypes', node)
    BY <1>2, <2>1, EndFits
  <2> HIDE DEF node
  <2> QED
    BY <2>1, <2>6, <2>7, <2>8, RecordKeeps
<1> QED
  BY <1>1, <1>2

LEMMA LeaveProgramKeeps ==
  ASSUME TapeNow, IInv', OnlyOpenCapture, LeaveProgram
  PROVE  TapeInv'
<1> DEFINE node == [op |-> "end", fun |-> Top.fun]
<1>1. CASE ~ClosedWell \/ Keys(Transferred) # {}
  BY <1>1, StopKeeps DEF LeaveProgram
<1>2. CASE ClosedWell /\ Keys(Transferred) = {}
  <2>1. InBody /\ Record(node) /\ scopes' = <<>> /\ UNCHANGED ftypes
    BY <1>2 DEF LeaveProgram
  <2>2. NodeFits(scopes, ftypes, ftypes', node) /\ Grows(ftypes, ftypes')
    BY <1>2, <2>1, EndFits, GrowsToItself
  <2>3. DOMAIN scopes' = {}
    BY <2>1
  <2> HIDE DEF node
  <2> QED
    BY <2>1, <2>2, <2>3, RecordKeeps
<1> QED
  BY <1>1, <1>2

-----------------------------------------------------------------------------
(* The theorems.                                                             *)

LEMMA InitTape ==
  ASSUME Init
  PROVE  TapeInv
<1>1. ast = <<>> /\ DOMAIN scopes = 1 .. 2
  BY DEF Init
<1> QED
  BY <1>1 DEF TapeInv, TapeIn, BodiesIn, ScopesIn, ReturnsIn, CallsIn

LEMMA NextTape ==
  ASSUME IInv, TapeInv, [Next]_vars
  PROVE  TapeInv'
<1>1. TapeNow /\ IInv' /\ OnlyOpenCapture
  BY NextInv, NextCapturesOpen DEF TapeNow
<1>2. CASE UNCHANGED vars \/ Finished
  BY <1>2 DEF Finished, vars, TapeInv
<1>3. ASSUME NEW name \in FunNames, NEW h \in Headers, RejectDefinition(name, h)
      PROVE  TapeInv'
  BY <1>3, StopKeeps DEF RejectDefinition
<1> QED
  BY <1>1, <1>2, <1>3, DefineFreshKeeps, DefineDeclaredKeeps, DeclareKeeps, VarDefinitionKeeps,
    OtherStatementsKeep, CallKeeps, ExitKeeps, LeaveInnerKeeps, LeaveProgramKeeps DEF Next

\* What the tape, the table and the function types have to do with one another
\* holds in every reachable state.
THEOREM TapeInvariance == Spec => []TapeInv
<1>1. Init => TapeInv
  BY InitTape
<1>2. IInv /\ TapeInv /\ [Next]_vars => TapeInv'
  BY NextTape
<1> QED
  BY <1>1, <1>2, Invariance, PTL DEF Spec

\* However declarations and definitions of a name are mixed and nested, no
\* function type is given two bodies (toggleDeclDef, semantic.cpp:410).
THEOREM OneBodyEach == Spec => []OneBodyPerFunction
<1>1. TapeInv => OneBodyPerFunction
  BY DEF TapeInv, TapeIn, BodiesIn, OneBodyPerFunction
<1> QED
  BY <1>1, TapeInvariance, PTL

\* A closed function with a result has a `return` of its own, whatever the
\* functions inside it return, and `exit` stands in procedures only.
THEOREM ReturnsMatch == Spec => []ReturnsMatchFunctions
<1>1. TapeInv => ReturnsMatchFunctions
  BY DEF TapeInv, TapeIn, ReturnsIn, ReturnsFrom, ReturnsMatchFunctions
<1> QED
  BY <1>1, TapeInvariance, PTL

\* A call of a closed function can be completed for ever after: the callee
\* captures nothing more, and the caller keeps what it took over at the call
\* (semantic.cpp:605-612).
THEOREM CallsStayClosed == Spec => []CallsAreClosed
<1>1. TapeInv => CallsAreClosed
  BY DEF TapeInv, TapeIn, CallsIn, Supplied, CallsAreClosed, SuppliesCaptures
<1> QED
  BY <1>1, TapeInvariance, PTL
=============================================================================
