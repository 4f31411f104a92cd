----------------------------- MODULE Statements -----------------------------
(* What the statements of a Tony function mean: the order in which the       *)
(* function performs them.  This is the promise the generator's basic blocks *)
(* have to keep (ControlFlow); it knows nothing of blocks or branches.       *)
(*                                                                           *)
(* The function is the tape `ast` of its statements: an `if`, `elsif` or     *)
(* `for` is followed by its body, the tests that follow a false condition    *)
(* name it as their head, and "fi" or "od" closes it.  `last` is the last    *)
(* event: a statement performed, a condition found true or false, or the end *)
(* of the call.                                                              *)
EXTENDS Naturals, Sequences

VARIABLES
  ast,   \* the statements of the function, <<>> until it is known
  last   \* the last event of the call

vars == <<ast, last>>

Begin      == [ev |-> "begin", node |-> 0, taken |-> FALSE]
Leave(n)   == [ev |-> "leave", node |-> n, taken |-> FALSE]
Test(n, c) == [ev |-> "test", node |-> n, taken |-> c]
Do(ev, n)  == [ev |-> ev, node |-> n, taken |-> FALSE]

Conditions(n) == {Test(n, c) : c \in BOOLEAN}

\* Where the construct opened at n is closed.
Close(n) == CHOOSE i \in DOMAIN ast : ast[i].op \in {"fi", "od"} /\ ast[i].head = n

\* The events that may come when control arrives at the i-th node.  The branch
\* before an `elsif` or `else` is over, so control goes on behind both.
Arrive[i \in Nat] ==
  IF i \notin DOMAIN ast THEN {Leave(0)}
  ELSE CASE ast[i].op = "do"    -> {Do("do", i)}
         [] ast[i].op \in {"return", "exit"} -> {Leave(i)}
         [] ast[i].op = "if"    -> Conditions(i)
         [] ast[i].op = "for"   -> {Do("init", i)}
         [] ast[i].op = "od"    -> {Do("step", ast[i].head)}
         [] ast[i].op = "fi"    -> Arrive[i + 1]
         [] OTHER               -> Arrive[Close(ast[i].head)]

\* The condition at n is false: the next test, the `else` branch, or past it.
Otherwise(n) ==
  LET next == {i \in DOMAIN ast : ast[i].op \in {"elsif", "else"} /\ ast[i].head = n} IN
  IF next = {} THEN Arrive[Close(n) + 1]
  ELSE LET i == CHOOSE i \in next : TRUE IN
       IF ast[i].op = "elsif" THEN Conditions(i) ELSE Arrive[i + 1]

Follows(e) ==
  CASE e.ev \in {"init", "step"}   -> Conditions(e.node)
    [] e.ev = "test" /\ ~e.taken   -> Otherwise(e.node)
    [] e.ev = "leave"              -> {}
    [] OTHER                       -> Arrive[e.node + 1]

Init    == ast = <<>> /\ last = Begin
Load    == ast = <<>> /\ ast' # <<>> /\ UNCHANGED last
Execute == ast # <<>> /\ last' \in Follows(last) /\ UNCHANGED ast

Next    == Load \/ Execute

\* A call that is under way goes on until it leaves the function.
Spec == Init /\ [][Next]_vars /\ WF_vars(Execute)
=============================================================================
