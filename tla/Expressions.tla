---------------------------- MODULE Expressions ----------------------------
(* Expressions of Tony: the types the semantic pass gives them               *)
(* (src/semantic/semantic.cpp, src/symbol/type.cpp), the LLVM values the     *)
(* generator makes of them (src/llvm/ast.cpp), and what they evaluate to.    *)
(*                                                                           *)
(* The nodes of a straight-line program are visited in the order both passes *)
(* and the running program visit them: the operands before the operator.     *)
(* What is hard is that `nil` has a type equal to every other one, and that  *)
(* the LLVM types of lists are shared through a table of hash keys.          *)
EXTENDS Naturals, Sequences, FiniteSets, SequencesExt

CONSTANTS
  Vars,         \* the variables of the program
  DeclTypes,    \* the types they are declared with, as words: <<"list", "int">>
  UninitSize,   \* the array sizes an uninitialised `size` may be read as
  MaxNodes,     \* bound: nodes of the program
  MaxStack      \* bound: operands that wait for their operator

Scalars == {"int", "char", "bool"}

\* A TonyType is the word of its nested types.  "sized" is an array whose size
\* is not 0: no declared type is, an uninitialised size may be.  "function" stands
\* for the functions of one signature.
ValueLetters == Scalars \cup {"any", "list", "array", "sized"}
Letters      == ValueLetters \cup {"void", "function"}

ASSUME ExpressionsAssumption ==
  /\ DeclTypes \subseteq Seq(ValueLetters \ {"any", "sized"})
  /\ \A t \in DeclTypes : t # <<>> /\ \A i \in DOMAIN t : t[i] \in Scalars <=> i = Len(t)
  /\ UninitSize \subseteq Nat
  /\ MaxNodes \in Nat

VARIABLES
  vars,     \* the declared variables: [type, val]
  stack,    \* the expressions visited, not yet operands of another
  catalog,  \* llvm_list_types, in the order of insertion
  outcome,  \* "compiling", "rejected" (error()), "bad_ir", "bad_store" or "no_type" (yyerror())
  culprits, \* the expressions the generator fails on
  nodes,    \* how many nodes there are
  pushed    \* history: a `nil` was made an element of a list

state == <<vars, stack, catalog, outcome, culprits, nodes, pushed>>

-----------------------------------------------------------------------------
(* TonyTypes.                                                                *)

Kind(letter) == IF letter = "sized" THEN "array" ELSE letter
Current(t)   == Kind(t[1])
Nested(t)    == Tail(t)
List(t)      == <<"list">> \o t
Prefix(t, n) == SubSeq(t, 1, n)
Mentions(t, letters) == \E i \in DOMAIN t : t[i] \in letters

\* Mutation: the nested types are not looked at.
EqualOutside(a, b) == Kind(a[1]) = Kind(b[1]) \/ "any" \in {a[1], b[1]}

\* check_type_equality: equal up to a point where one of them is `any`.
EqualTypes(a, b) ==
  \E n \in 0 .. Len(a) :
    /\ n <= Len(b) /\ \A i \in 1 .. n : Kind(a[i]) = Kind(b[i])
    /\ \/ n = Len(a) /\ n = Len(b)
       \/ n < Len(a) /\ n < Len(b) /\ "any" \in {a[n + 1], b[n + 1]}

\* Mutation: nothing is taken for the constant.
NeverNil(t) == FALSE

IsNilConstant(t) == Len(t) > 1 /\ Prefix(t, 2) = <<"list", "any">>

\* Mutation: the key leaves out what the list is of.
OneKey(t) == <<"list">>

\* createHashKeyForType: "list_" for every list, then "int", "bool", "char" or "arr".
HashKey(t) ==
  LET n == CHOOSE k \in DOMAIN t : t[k] # "list" /\ \A i \in 1 .. k - 1 : t[i] = "list"
  IN Append(Prefix(t, n - 1), CASE Kind(t[n]) = "any" -> "int"
                                [] Kind(t[n]) = "array" -> "arr"
                                [] OTHER -> t[n])

\* "Cannot have that type in a list." (yyerror())
HasKey(t) == t[Len(t)] \notin {"void", "function"}

-----------------------------------------------------------------------------
(* LLVM types: words too.  <<"node", k>> is a pointer to the k-th node       *)
(* struct, "ptr" a pointer to the rest, "block" an array by value.           *)

ScalarIR(letter) ==
  CASE letter \in {"int", "any"} -> <<"i32">> [] letter = "bool" -> <<"i1">> [] letter = "char" -> <<"i8">>

\* Mutation: the table is never consulted.
LookupNothing(cat, key) == {}

Lookup(cat, key) == {k \in DOMAIN cat : cat[k].key = key}

\* getOrCreateLLVMTypeFromTonyType, inner being what it makes of the nested
\* type: a list whose key is not known is inserted after the lists in it.  A key
\* inserted meanwhile is an error.
Layer(t, cat, inner) ==
  LET key   == HashKey(t)
      known == Lookup(cat, key)
  IN CASE t[1] = "array" -> [inner EXCEPT !.ir = <<"ptr">> \o @]
       [] t[1] = "sized" -> [inner EXCEPT !.ir = <<"block">> \o @]
       [] t[1] = "list" /\ known # {} ->
            [ir |-> <<"node", CHOOSE k \in known : TRUE>>, cat |-> cat, ok |-> TRUE]
       [] t[1] = "list" /\ known = {} ->
            [ir |-> <<"node", Len(inner.cat) + 1>>,
             cat |-> Append(inner.cat, [key |-> key, elem |-> inner.ir]),
             ok |-> inner.ok /\ Lookup(inner.cat, key) = {}]
       [] OTHER -> [ir |-> ScalarIR(t[1]), cat |-> cat, ok |-> TRUE]

Translate(t, cat) ==
  LET made[i \in DOMAIN t] == Layer(SubSeq(t, i, Len(t)), cat, made[i + 1])
  IN made[1]

IsPointer(ir) == ir[1] \in {"ptr", "node"}

\* Mutation: no cast is made.
NoCast(from, to) == from = to

CanBitCast(from, to) == from = to \/ (IsPointer(from) /\ IsPointer(to))

-----------------------------------------------------------------------------
(* Values of the running program.                                            *)

Value(tag, of, elems) == [tag |-> tag, of |-> of, elems |-> elems]
ScalarValue(letter)   == Value(letter, <<>>, <<>>)
ListValue(elems)      == Value("list", <<>>, elems)
ArrayValue(t)         == Value("array", t, <<>>)

\* What a variable holds before it is assigned, and what is left of a program
\* that takes the head of an empty list: the compiler goes on regardless.
Undefined == Value("undefined", <<>>, <<>>)

Link(v, list) == IF list = Undefined THEN Undefined ELSE ListValue(<<v>> \o list.elems)
First(list)   == IF list.elems = <<>> THEN Undefined ELSE Head(list.elems)
Rest(list)    == IF list.elems = <<>> THEN Undefined ELSE ListValue(Tail(list.elems))

\* Of the types of the program: what an element of an array may hold.
Sample(t) ==
  CASE Current(t) = "list" -> ListValue(<<>>)
    [] Current(t) = "array" -> ArrayValue(Nested(t))
    [] OTHER -> ScalarValue(t[1])

\* What v holds n lists down: v itself, its elements, theirs.
Inside(v, n) ==
  LET inside[k \in 0 .. n] ==
        IF k = 0 THEN {v}
        ELSE UNION {Range(w.elems) : w \in {u \in inside[k - 1] : u.tag = "list"}}
  IN inside[n]

\* v has the type t as far as it goes on its own: t is a list, an array or a scalar.
HasKind(v, t) ==
  v = Undefined \/
    /\ v.tag = Current(t)
    /\ v.tag = "array" => EqualTypes(v.of, Nested(t))

Conforms(v, t) ==
  \A n \in DOMAIN t : \A w \in Inside(v, n - 1) : HasKind(w, SubSeq(t, n, Len(t)))

-----------------------------------------------------------------------------
(* Visiting a node.                                                          *)

Expression(op, t, ir, val) == [op |-> op, type |-> t, ir |-> ir, val |-> val]
HasValue(e) == e.type \notin {<<"void">>, <<"function">>}
Operand(n) == stack[Len(stack) - n]      \* Operand(0) is the one visited last
Below(n)   == SubSeq(stack, 1, Len(stack) - n)
MayVisit   == outcome = "compiling" /\ nodes < MaxNodes

Visit(rest, e) == stack' = Append(rest, e) /\ nodes' = nodes + 1

Push(e) ==
  /\ Len(stack) < MaxStack
  /\ Visit(stack, e)
  /\ UNCHANGED <<vars, catalog, outcome, culprits, pushed>>

\* The compiler ends here.
Stop(how, why) ==
  /\ outcome' = how /\ culprits' = why
  /\ UNCHANGED <<vars, stack, catalog, nodes, pushed>>

Reject == Stop("rejected", {})

\* VarList::compile, before the statements.
Declare(x, t) ==
  /\ MayVisit /\ x \notin DOMAIN vars /\ nodes = Cardinality(DOMAIN vars)
  /\ LET made == Translate(t, catalog) IN
     IF made.ok
     THEN /\ vars' = [y \in DOMAIN vars \cup {x} |->
                        IF y = x THEN [type |-> t, val |-> Undefined] ELSE vars[y]]
          /\ catalog' = made.cat /\ nodes' = nodes + 1
          /\ UNCHANGED <<stack, outcome, culprits, pushed>>
     ELSE Stop("no_type", {Expression("declare", t, <<>>, Undefined)})

\* IntConst, CharConst, Boolean.
Constant(letter) ==
  /\ MayVisit
  /\ Push(Expression("constant", <<letter>>, ScalarIR(letter), ScalarValue(letter)))

\* The size of a type made by sem() is never set.
MadeArray(t) == {(IF size = 0 THEN <<"array">> ELSE <<"sized">>) \o t : size \in UninitSize}

StringLiteral ==
  /\ MayVisit
  /\ \E t \in MadeArray(<<"char">>) :
       LET ir == Translate(t, catalog).ir
           e  == Expression("string", t, ir, ArrayValue(<<"char">>))
       IN IF CanBitCast(<<"ptr", "i8">>, ir) THEN Push(e) ELSE Stop("bad_ir", {e})

Nil == MayVisit /\ Push(Expression("nil", <<"list", "any">>, <<"ptr", "i32">>, ListValue(<<>>)))

Id(x) ==
  /\ MayVisit /\ x \in DOMAIN vars
  /\ Push(Expression("id", vars[x].type, Translate(vars[x].type, catalog).ir, vars[x].val))

\* The name of a function is an Id too: getVal() knows no address to load from.
FunctionName == MayVisit /\ Push(Expression("function", <<"function">>, <<"none">>, Undefined))

\* GC_malloc's i8* is left as it is.
New(t) ==
  /\ MayVisit /\ stack # <<>>
  /\ IF Operand(0).type # <<"int">> THEN Reject
     ELSE /\ \E made \in MadeArray(t) : Visit(Below(1), Expression("new", made, <<"ptr", "i8">>, ArrayValue(t)))
          /\ UNCHANGED <<vars, catalog, outcome, culprits, pushed>>

\* atom[expr]; the grammar allows a variable, a string, an element or a call.
ArrayElement ==
  /\ MayVisit /\ Len(stack) > 1 /\ Operand(1).op \in {"id", "string", "element", "call"}
  /\ IF Current(Operand(1).type) # "array" \/ Operand(0).type # <<"int">> THEN Reject
     ELSE LET t == Nested(Operand(1).type) IN
          /\ Visit(Below(2), Expression("element", t, Tail(Operand(1).ir), Sample(t)))
          /\ UNCHANGED <<vars, catalog, outcome, culprits, pushed>>

-----------------------------------------------------------------------------
(* Operators.                                                                *)

\* + - * / mod, and or, unary + -, not: operands and result of one scalar type.
Operators == {[type |-> "int", arity |-> 2], [type |-> "bool", arity |-> 2],
              [type |-> "int", arity |-> 1], [type |-> "bool", arity |-> 1]}

Operator(o) ==
  /\ MayVisit /\ Len(stack) >= o.arity
  /\ IF \E n \in 0 .. o.arity - 1 : Operand(n).type # <<o.type>> THEN Reject
     ELSE /\ Visit(Below(o.arity), Expression("operator", <<o.type>>, ScalarIR(o.type), ScalarValue(o.type)))
          /\ UNCHANGED <<vars, catalog, outcome, culprits, pushed>>

\* = <> < > <= >=: LLVM compares values of one type, and values only.
Compare ==
  /\ MayVisit /\ Len(stack) > 1
  /\ IF ~EqualTypes(Operand(1).type, Operand(0).type) THEN Reject
     ELSE IF Operand(1).ir # Operand(0).ir \/ ~HasValue(Operand(0)) THEN Stop("bad_ir", {Operand(1), Operand(0)})
     ELSE /\ Visit(Below(2), Expression("compare", <<"bool">>, <<"i1">>, ScalarValue("bool")))
          /\ UNCHANGED <<vars, catalog, outcome, culprits, pushed>>

\* left # right: the type is a list of the left operand's type.  The left operand
\* is cast to the LLVM type of its own type and stored in a struct that was found
\* by its key.
Construct ==
  /\ MayVisit /\ Len(stack) > 1
  /\ LET left  == Operand(1)
         right == Operand(0)
         t     == List(left.type)
         made  == Translate(t, catalog)
         elem  == Translate(left.type, made.cat)
     IN IF Current(right.type) # "list" \/ ~EqualTypes(left.type, Nested(right.type)) THEN Reject
        ELSE IF left.type = <<"function">> THEN Stop("bad_ir", {left})
        ELSE IF ~HasKey(t) \/ ~made.ok \/ ~elem.ok THEN Stop("no_type", {left})
        ELSE IF ~CanBitCast(left.ir, elem.ir) THEN Stop("bad_ir", {left})
        ELSE IF elem.ir # elem.cat[made.ir[2]].elem THEN Stop("bad_store", {left})
        ELSE /\ Visit(Below(2), Expression("cons", t, made.ir, Link(left.val, right.val)))
             /\ catalog' = elem.cat
             /\ pushed' = (pushed \/ Mentions(left.type, {"any"}))
             /\ UNCHANGED <<vars, outcome, culprits>>

\* head and tail of a list that is not of the type of `nil`.
Part(op) ==
  /\ MayVisit /\ stack # <<>>
  /\ LET t    == Operand(0).type
         made == Translate(t, catalog)
         v    == Operand(0).val
     IN IF Current(t) # "list" \/ IsNilConstant(t) THEN Reject
        ELSE /\ Visit(Below(1), IF op = "head"
                                THEN Expression("head", Nested(t), made.cat[made.ir[2]].elem, First(v))
                                ELSE Expression("tail", t, made.ir, Rest(v)))
             /\ catalog' = made.cat
             /\ UNCHANGED <<vars, outcome, culprits, pushed>>

IsNil ==
  /\ MayVisit /\ stack # <<>>
  /\ IF Current(Operand(0).type) # "list" THEN Reject
     ELSE /\ Visit(Below(1), Expression("nil?", <<"bool">>, <<"i1">>, ScalarValue("bool")))
          /\ UNCHANGED <<vars, catalog, outcome, culprits, pushed>>

-----------------------------------------------------------------------------
(* Where a value goes.                                                       *)

\* x := e
Assign(x) ==
  /\ MayVisit /\ Len(stack) = 1 /\ x \in DOMAIN vars
  /\ LET e == Operand(0) IN
     IF ~EqualTypes(e.type, vars[x].type) THEN Reject
     ELSE IF ~CanBitCast(e.ir, Translate(vars[x].type, catalog).ir) THEN Stop("bad_ir", {e})
     ELSE /\ vars' = [vars EXCEPT ![x].val = e.val]
          /\ stack' = <<>> /\ nodes' = nodes + 1
          /\ UNCHANGED <<catalog, outcome, culprits, pushed>>

\* f(e) with f a function of one parameter of type t that returns it: an
\* argument, and then the operand of `return`.  Only `nil` is cast.
Call(t) ==
  /\ MayVisit /\ stack # <<>>
  /\ LET e  == Operand(0)
         ir == Translate(t, catalog).ir
     IN IF ~EqualTypes(t, e.type) THEN Reject
        ELSE IF e.ir # ir /\ ~IsNilConstant(e.type) THEN Stop("bad_ir", {e})
        ELSE /\ Visit(Below(1), Expression("call", t, ir, e.val))
             /\ UNCHANGED <<vars, catalog, outcome, culprits, pushed>>

\* p() with p a function without a result.
VoidCall == MayVisit /\ Push(Expression("call", <<"void">>, <<"void">>, Undefined))

Init ==
  /\ vars = <<>> /\ stack = <<>> /\ catalog = <<>>
  /\ outcome = "compiling" /\ culprits = {} /\ nodes = 0 /\ pushed = FALSE

Next ==
  \/ \E x \in Vars, t \in DeclTypes : Declare(x, t)
  \/ \E letter \in Scalars : Constant(letter)
  \/ StringLiteral
  \/ Nil
  \/ \E x \in Vars : Id(x)
  \/ FunctionName
  \/ \E t \in DeclTypes : New(t)
  \/ ArrayElement
  \/ \E o \in Operators : Operator(o)
  \/ Compare
  \/ Construct
  \/ Part("head")
  \/ Part("tail")
  \/ IsNil
  \/ \E x \in Vars : Assign(x)
  \/ \E x \in DOMAIN vars : Call(vars[x].type)
  \/ VoidCall

Spec == Init /\ [][Next]_state

-----------------------------------------------------------------------------
(* Properties.                                                               *)

IsType(t) == t # <<>> /\ \A i \in DOMAIN t : t[i] \in Letters

\* Types of the state; every struct of the catalog has a key of its own.
ExpressionsTypeOK ==
  /\ DOMAIN vars \subseteq Vars
  /\ \A x \in DOMAIN vars : vars[x].type \in DeclTypes
  /\ \A i \in DOMAIN stack : IsType(stack[i].type) /\ stack[i].ir # <<>>
  /\ \A i, j \in DOMAIN catalog : catalog[i].key = catalog[j].key => i = j
  /\ outcome \in {"compiling", "rejected", "bad_ir", "bad_store", "no_type"}
  /\ outcome \in {"compiling", "rejected"} => culprits = {}
  /\ nodes \in 0 .. MaxNodes

\* What variables and expressions hold has their type, through and through, in
\* every program that pushes no `nil` onto a list: up to there it does no harm
\* that equality with `any` is not transitive.
ElementsConform ==
  ~pushed =>
    /\ \A x \in DOMAIN vars : Conforms(vars[x].val, vars[x].type)
    /\ \A i \in DOMAIN stack : Conforms(stack[i].val, stack[i].type)

\* `any` is only ever the element of an empty list: no expression has it for a
\* type, so nothing is read from a list as an integer because of it
\* (llvm/ast.cpp:196).
AnyStaysNested == \A i \in DOMAIN stack : stack[i].type # <<"any">>

\* Every array has the key "arr", so lists of arrays share their LLVM type and
\* what comes out of one may be that of another.
MayShare(e) == e.op = "head" /\ Current(e.type) = "array"

\* Every expression that has a value compiles to the LLVM type of its type, in
\* whatever order the types of lists entered the table, but for three: `nil`, which
\* is a pointer to nothing in particular, `new`, which yields the i8* of the
\* allocator, and an array that comes out of a list.
CompiledToItsType ==
  \A i \in DOMAIN stack :
    LET e == stack[i] IN
    HasValue(e) /\ e.op \notin {"new", "nil"} /\ ~MayShare(e)
      => Translate(e.type, catalog) = [ir |-> e.ir, cat |-> catalog, ok |-> TRUE]

\* A list type whose key stands for two lists one inside the other.
KeyTwice(t) ==
  \E i, j \in DOMAIN t :
    /\ i < j /\ t[i] = "list" /\ t[j] = "list"
    /\ HashKey(SubSeq(t, i, Len(t))) = HashKey(SubSeq(t, j, Len(t)))

\* The struct of the lists of arrays was made for another array than t.
MadeForAnother(t) ==
  \E k \in DOMAIN catalog :
    catalog[k].key = <<"list", "arr">> /\ catalog[k].elem # Translate(t, catalog).ir

\* The generator fails on an expression the semantic pass accepted only for
\* the name or the void call of a function, a `new` or the head of a list of
\* arrays that meets a value of its declared type uncast, a `nil` that is compared
\* or pushed before it is handed over, and a size that was never set; on the store
\* of a new node, only for an array in the struct of another; and on a type, only if
\* it is void or if a key of it occurs twice.
FailsOnlyOn ==
  /\ outcome = "bad_ir" =>
       \E e \in culprits :
         \/ ~HasValue(e) \/ e.op = "new" \/ MayShare(e) \/ Mentions(e.type, {"sized"})
         \/ Mentions(e.type, {"any"}) /\ (~IsNilConstant(e.type) \/ Cardinality(culprits) > 1)
  /\ outcome = "bad_store" =>
       \E e \in culprits : Current(e.type) = "array" /\ MadeForAnother(e.type)
  /\ outcome = "no_type" =>
       \E e \in culprits :
         e.type = <<"void">> \/ KeyTwice(List(e.type)) \/ KeyTwice(e.type)

-----------------------------------------------------------------------------
(* A statement of the repository that the code does not meet.                *)

\* "Expression on the left of '#' operator must be have the same type as the
\* elements of the list on the right of the operator" (semantic.cpp:182): what a
\* variable holds has the variable's type, through and through.
VariablesConform ==
  \A x \in DOMAIN vars : Conforms(vars[x].val, vars[x].type)
=============================================================================
