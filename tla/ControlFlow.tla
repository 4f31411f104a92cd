---------------------------- MODULE ControlFlow ----------------------------
(* The basic blocks the code generator makes of one function's statements    *)
(* (src/llvm/ast.cpp, compile() of StmtBody, If, For, Return, Exit and the   *)
(* end of FunctionDefinition), and a call of the function that runs them.    *)
(*                                                                           *)
(* A block must end with one branch or return and hold none before its end.  *)
(* The generator never asks the block: StmtBody remembers whether the        *)
(* last statement it compiled was a `return`, and whether it was an `exit`,  *)
(* and every construct around it decides from those two flags which blocks   *)
(* it still has to end.                                                      *)
(*                                                                           *)
(* The model chooses the statements while they are compiled.  Values are     *)
(* left out: a condition is found true or false.                             *)
EXTENDS Naturals, Sequences, FiniteSets, SequencesExt

CONSTANTS
  MaxNodes,   \* bound: beyond it bodies end as soon as they may
  MaxDepth    \* bound: nesting of bodies

VARIABLES
  typed,    \* the function has a result
  ast,      \* the statements compiled so far, see Statements
  bodies,   \* the StmtBodies being compiled, the function's own first
  code,     \* the instructions of every block created
  list,     \* the blocks attached to the function
  insert,   \* the block the Builder inserts into, 0 when all is compiled
  ip,       \* a call: the next instruction, <<block, index>>
  last      \* a call: what it did last

vars == <<typed, ast, bodies, code, list, insert, ip, last>>
gen  == <<typed, ast, bodies, code, list, insert>>

Ops   == {"do", "return", "exit", "if", "elsif", "else", "fi", "for", "od"}
Node  == [op : Ops, head : Nat]
Instr == [op : {"do", "init", "step", "test", "br", "leave"}, node : Nat, to : Seq(Nat)]

\* A body being compiled: of the function, of the condition at `node` ("then"),
\* of its `else`, or of a loop.  "next" is an `if` whose `elsif` is compiled.
\* other: else_bb or LoopBB; after: merge_bb or AfterBB.  more: the grammar says
\* there is an `elsif` or `else`.  returned, exited: has_return, has_exit.
Body == [kind : {"function", "then", "else", "loop", "next"}, node : Nat, more : BOOLEAN,
         other : Nat, after : Nat, some : BOOLEAN, returned : BOOLEAN, exited : BOOLEAN]

Ended(body) == body.returned \/ body.exited

Terminators == {"test", "br", "leave"}
NoWhere     == <<0, 0>>

\* A call performs what the statements mean.
Source == INSTANCE Statements WITH ast <- IF insert = 0 THEN ast ELSE <<>>, last <- last

-----------------------------------------------------------------------------
(* The Builder.  The operators change [code, list, insert] step by step.     *)

Do(op, n) == [op |-> op, node |-> n, to |-> <<>>]

CondBr(n, t, f) == [op |-> "test", node |-> n, to |-> <<t, f>>]
Br(b)  == [op |-> "br", node |-> 0, to |-> <<b>>]
Ret(n) == [op |-> "leave", node |-> n, to |-> <<>>]

Fn(c, l, b) == [code |-> c, list |-> l, insert |-> b]
Builder     == Fn(code, list, insert)

\* Mutation: one block too few.
CreateFewer(f, k) == Fn(f.code \o [i \in 1 .. k - 1 |-> <<>>], f.list, f.insert)

\* k new blocks, not attached to the function.
Create(f, k) == Fn(f.code \o [i \in 1 .. k |-> <<>>], f.list, f.insert)

\* Instructions go to the end of the block the Builder stands in.
Emit(f, instrs) == Fn([f.code EXCEPT ![f.insert] = @ \o instrs], f.list, f.insert)

\* Mutation: the Builder moves, the block is never attached.
EnterDetached(f, b) == Fn(f.code, f.list, b)

\* The block joins the function and the Builder goes there.
Enter(f, b) == Fn(f.code, Append(f.list, b), b)

Build(f) == code' = f.code /\ list' = f.list /\ insert' = f.insert

\* Mutation: the branch is left out when there is no `else`.
BrNever(ended, b) == <<>>

\* A branch to b, unless a `return` or `exit` has ended the block already.
BrUnless(ended, b) == IF ended THEN <<>> ELSE <<Br(b)>>

-----------------------------------------------------------------------------
(* Compiling the statements.                                                 *)

Compiling == insert # 0
Top       == bodies[Len(bodies)]
Here      == Len(ast) + 1      \* the node being compiled
Fresh     == Len(code)         \* block numbers up to here are taken

Record(op, head) == ast' = Append(ast, [op |-> op, head |-> head])

\* Mutation: the statements behind a `return` are compiled as well.
TakesStatementsAlways == Compiling /\ Top.kind # "next"

\* StmtBody::compile() leaves out what follows a `return` or `exit`; such
\* statements are never on the tape.
TakesStatements == Compiling /\ Top.kind # "next" /\ ~Ended(Top)

Room == Len(ast) + Len(bodies) < MaxNodes

\* The bodies after one more statement of the innermost.
Grown == [bodies EXCEPT ![Len(bodies)].some = TRUE]

NewBody(kind, n, more, other, after) ==
  [kind |-> kind, node |-> n, more |-> more, other |-> other, after |-> after,
   some |-> FALSE, returned |-> FALSE, exited |-> FALSE]

\* The grammar wants a statement in every body.
MayClose == Top.kind = "next" \/ Top.some

\* skip, an assignment or a call.
CompileSimple ==
  /\ TakesStatements /\ (Room \/ ~Top.some)
  /\ Record("do", Here)
  /\ bodies' = Grown
  /\ Build(Emit(Builder, <<Do("do", Here)>>))
  /\ UNCHANGED typed

\* has_return or has_exit after a statement that is a `return` or an `exit`.
Left(op) == [Grown EXCEPT ![Len(bodies)].returned = (op = "return"),
                          ![Len(bodies)].exited = (op = "exit")]

\* `return` and `exit`.  sem() wants no `exit` in a function with a result; one
\* without may `return` a call of another without (semantic.cpp:433).
CompileLeave(op) ==
  /\ TakesStatements /\ (Room \/ ~Top.some \/ Len(bodies) = 1)
  /\ op = "exit" => ~typed
  /\ Record(op, Here)
  /\ bodies' = Left(op)
  /\ Build(Emit(Builder, <<Ret(Here)>>))
  /\ UNCHANGED typed

\* The condition ends the block it is compiled in; the then-block is attached,
\* else_bb and merge_bb are not yet.
Conditional(f, n, more) ==
  LET then == Len(f.code) + 1
      else == Len(f.code) + 2
      merge == Len(f.code) + 3
  IN Enter(Emit(Create(f, 3), <<CondBr(n, then, IF more THEN else ELSE merge)>>), then)

CompileIf(more) ==
  /\ TakesStatements /\ Room /\ Len(bodies) < MaxDepth
  /\ Record("if", Here)
  /\ bodies' = Append(Grown, NewBody("then", Here, more, Fresh + 2, Fresh + 3))
  /\ Build(Conditional(Builder, Here, more))
  /\ UNCHANGED typed

\* The condition above the next_if is done: branch past it, enter else_bb.
EnterElse == Enter(Emit(Builder, BrUnless(Ended(Top), Top.after)), Top.other)

ThenWithMore == Compiling /\ Top.kind = "then" /\ Top.more /\ Top.some

\* next_if is an If of its own, with blocks of its own.
CompileElsif(more) ==
  /\ ThenWithMore /\ Room
  /\ Record("elsif", Top.node)
  /\ bodies' = Append([bodies EXCEPT ![Len(bodies)].kind = "next"],
                      NewBody("then", Here, more, Fresh + 2, Fresh + 3))
  /\ Build(Conditional(EnterElse, Here, more))
  /\ UNCHANGED typed

CompileElse ==
  /\ ThenWithMore
  /\ Record("else", Top.node)
  /\ bodies' = [bodies EXCEPT ![Len(bodies)] = NewBody("else", @.node, FALSE, @.other, @.after)]
  /\ Build(EnterElse)
  /\ UNCHANGED typed

\* Mutation: the flags asked are those of the branch before the `elsif`.
JumpsUnlessEnded == ~Ended(Top)

\* After the last branch: an `elsif` always goes on, in its own merge block.
JumpsToMerge == Top.kind = "next" \/ ~Ended(Top)

CompileFi ==
  /\ Compiling /\ MayClose
  /\ Top.kind \in {"then", "else", "next"} /\ (Top.kind = "then" => ~Top.more)
  /\ Record("fi", Top.node)
  /\ bodies' = SubSeq(bodies, 1, Len(bodies) - 1)
  /\ Build(Enter(Emit(Builder, BrUnless(~JumpsToMerge, Top.after)), Top.after))
  /\ UNCHANGED typed

\* The initial statements and the first test are in the block before the loop.
CompileFor ==
  LET loop == Fresh + 1
      after == Fresh + 2
  IN
  /\ TakesStatements /\ Room /\ Len(bodies) < MaxDepth
  /\ Record("for", Here)
  /\ bodies' = Append(Grown, NewBody("loop", Here, FALSE, loop, after))
  /\ Build(Enter(Emit(Create(Builder, 2), <<Do("init", Here), CondBr(Here, loop, after)>>), loop))
  /\ UNCHANGED typed

\* Mutation: the loop goes on without a second test.
RepeatForever(body) ==
  IF Ended(body) THEN <<>> ELSE <<Do("step", body.node), Br(body.other)>>

\* The steps and the second test, unless the body ended with a `return`.
Repeat(body) ==
  IF Ended(body) THEN <<>>
  ELSE <<Do("step", body.node), CondBr(body.node, body.other, body.after)>>

CompileOd ==
  /\ Compiling /\ MayClose /\ Top.kind = "loop"
  /\ Record("od", Top.node)
  /\ bodies' = SubSeq(bodies, 1, Len(bodies) - 1)
  /\ Build(Enter(Emit(Builder, Repeat(Top)), Top.after))
  /\ UNCHANGED typed

HasReturn == \E i \in DOMAIN ast : ast[i].op = "return"

\* Of a function with a result only has_return is asked at its end, of one
\* without only has_exit.
EndedAsTyped == IF typed THEN Top.returned ELSE Top.exited

\* The end of the function: a dummy result, or `ret void`, unless the body
\* itself ended with one.  sem() has seen a `return` in a function with result.
CompileEnd ==
  /\ Compiling /\ MayClose /\ Top.kind = "function"
  /\ typed => HasReturn
  /\ code' = Emit(Builder, IF EndedAsTyped THEN <<>> ELSE <<Ret(0)>>).code
  /\ insert' = 0 /\ bodies' = <<>>
  /\ UNCHANGED <<typed, ast, list>>

Compile ==
  \/ CompileSimple
  \/ \E op \in {"return", "exit"} : CompileLeave(op)
  \/ \E more \in BOOLEAN : CompileIf(more) \/ CompileElsif(more)
  \/ CompileElse
  \/ CompileFi
  \/ CompileFor
  \/ CompileOd
  \/ CompileEnd

-----------------------------------------------------------------------------
(* A call of the function, as the machine runs the blocks.                   *)

\* The next instruction is an op; a block without end runs into nothing.
Fetches(op) ==
  /\ ~Compiling /\ ip # NoWhere
  /\ ip[2] \in DOMAIN code[ip[1]]
  /\ code[ip[1]][ip[2]].op = op

Instruction == code[ip[1]][ip[2]]

Perform ==
  \E op \in {"do", "init", "step"} :
    /\ Fetches(op)
    /\ last' = Source!Do(op, Instruction.node)
    /\ ip' = <<ip[1], ip[2] + 1>>

Branch ==
  /\ Fetches("br")
  /\ ip' = <<Instruction.to[1], 1>>
  /\ UNCHANGED last

Decide(c) ==
  /\ Fetches("test")
  /\ last' = Source!Test(Instruction.node, c)
  /\ ip' = <<Instruction.to[IF c THEN 1 ELSE 2], 1>>

Return ==
  /\ Fetches("leave")
  /\ last' = Source!Leave(Instruction.node)
  /\ ip' = NoWhere

Run == Perform \/ Branch \/ Return \/ \E c \in BOOLEAN : Decide(c)

\* The entry block is the first one.
Init ==
  /\ typed \in BOOLEAN
  /\ ast = <<>>
  /\ bodies = <<NewBody("function", 0, FALSE, 0, 0)>>
  /\ code = << <<>> >> /\ list = <<1>> /\ insert = 1
  /\ ip = <<1, 1>> /\ last = Source!Begin

Next ==
  \/ Compile /\ UNCHANGED <<ip, last>>
  \/ Run /\ UNCHANGED gen

\* The machine goes on with a call that is under way.
Spec == Init /\ [][Next]_vars /\ WF_vars(Run /\ UNCHANGED gen)

-----------------------------------------------------------------------------
(* Properties.                                                               *)

\* Types of the generator's state; all blocks named are blocks created.
TypeOK ==
  /\ typed \in BOOLEAN
  /\ ast \in Seq(Node) /\ bodies \in Seq(Body)
  /\ code \in Seq(Seq(Instr)) /\ list \in Seq(DOMAIN code)
  /\ insert \in DOMAIN code \cup {0}
  /\ Compiling <=> bodies # <<>>

Plain(instrs) == \A i \in DOMAIN instrs : instrs[i].op \notin Terminators

EndsOnce(instrs) ==
  /\ instrs # <<>> /\ instrs[Len(instrs)].op \in Terminators
  /\ \A i \in DOMAIN instrs : i # Len(instrs) => instrs[i].op \notin Terminators

Targets(instrs) ==
  UNION {{instrs[i].to[k] : k \in DOMAIN instrs[i].to} : i \in DOMAIN instrs}

Attached == {list[i] : i \in DOMAIN list}

\* The last block of a function without a result whose body ends with `return`.
ReturnsTwice(b) == ~typed /\ ast[Len(ast)].op = "return" /\ b = list[Len(list)]

\* What verifyFunction() asks of blocks: every block of the function ends with
\* one branch or return and has none before, in whatever bodies of its ifs and
\* loops it returns or exits (llvm/ast.cpp:643-660, 703-708).  There is one
\* exception: `return p()` at the end of a function without a result, which
\* sem() accepts (semantic.cpp:433), is followed by a second return, because
\* only has_exit is asked there (llvm/ast.cpp:915-917).
BlocksAreClosed ==
  ~Compiling => \A b \in Attached :
    IF ReturnsTwice(b) THEN Len(code[b]) > 1 /\ EndsOnce(Front(code[b])) ELSE EndsOnce(code[b])

\* No branch leads to a block that was created but never attached, and no
\* block is attached twice (else_bb and merge_bb, llvm/ast.cpp:625-664).
BranchesStayInside ==
  /\ ~Compiling => \A b \in Attached : Targets(code[b]) \subseteq Attached
  /\ \A i, j \in DOMAIN list : list[i] = list[j] => i = j

\* A call of the compiled function performs the events of its statements and
\* no others, in their order, tests and loops included (llvm/ast.cpp, compile()
\* of If, For and StmtBody): every step of the blocks is a step of Statements or
\* none.
PerformsStatements == Source!Init /\ [][Source!Next]_(Source!vars)

\* And it stops nowhere before the end of the call: the blocks implement
\* Statements, its liveness included.
Implements == Source!Spec
=============================================================================
