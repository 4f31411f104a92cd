----------------------------- MODULE DriverProofs -----------------------------
(* Proofs about the driver, for any number of invocations, any options and   *)
(* file arguments, and any of them killed: an invocation that ran on its own *)
(* hands over its own program, tells whether it compiled, and leaves the     *)
(* directory clean, whatever earlier ones left there.                        *)
EXTENDS Driver, SequenceTheorems, FiniteSetTheorems, TLAPS

-----------------------------------------------------------------------------
(* The inductive invariant.                                                  *)

ToolStages == {"tonyc", "llc", "clang"}
CatStages  == {"cat_ll", "cat_s"}
MoveStages == {"move_ll", "move_s", "move_exec"}

\* What cleanup() has left to do: looks, each followed by the removal of the
\* file looked for, and no other removal but perhaps one already decided on.
Clearing(steps) ==
  /\ \A i \in DOMAIN steps : steps[i][1] = "look" =>
       i + 1 \in DOMAIN steps /\ steps[i + 1] = <<"remove", steps[i][2]>>
  /\ \A i \in DOMAIN steps : steps[i][1] = "remove" =>
       i = 1 \/ (i - 1 \in DOMAIN steps /\ steps[i - 1] = <<"look", steps[i][2]>>)

\* What is left to do fits the stage, and the stage the options.
Shape(p) ==
  /\ stage[p] \in ToolStages => todo[p] \in {Tool, <<"truncate", "write">>, <<"write">>}
  /\ At(p, "stdin") => todo[p] \in {<<"truncate", "write">>, <<"write">>} /\ ~HasFile(p)
  /\ stage[p] \in {"start", "ended"} \cup CatStages \cup MoveStages => todo[p] = <<>>
  /\ stage[p] \in CatStages => Printing(p)
  /\ stage[p] \in MoveStages => HasFile(p)
  /\ At(p, "cleanup") => Clearing(todo[p]) /\ status[p] \in {"done", "failed"}
  /\ p \in Running => (Printing(p) <=> ~HasFile(p))

\* An invocation on its own: no other runs, and every file it relies on was
\* made from its own program.
Relies(p) ==
  /\ p \in Running => Running = {p}
  /\ At(p, "tonyc") => HasFile(p) \/ files["tmp"] = p
  /\ stage[p] \in ToolStages /\ todo[p] # Tool => read[p] = p
  /\ stage[p] \in {"llc", "clang", "cat_ll", "move_ll"} => files["ll"] = p
  /\ stage[p] \in {"clang", "cat_ll", "cat_s", "move_ll", "move_s"} => files["s"] = p
  /\ stage[p] \in MoveStages => files["exec"] = p
  /\ At(p, "tonyc") /\ todo[p] # Tool => p \notin Rejected
  /\ stage[p] \in {"llc", "clang"} \cup CatStages \cup MoveStages => p \notin Rejected
  /\ At(p, "clang") /\ todo[p] # Tool => p \notin Unlinkable
  /\ stage[p] \in CatStages \cup MoveStages => p \notin Unlinkable

\* Done or about to be: what it hands over is its own.
HandsOver(p) ==
  /\ \A i \in DOMAIN printed[p] : printed[p][i] = p
  /\ stage[p] \in {"cleanup", "ended"} /\ status[p] = "done" =>
       /\ p \notin Rejected \cup Unlinkable
       /\ ~HasFile(p) => printed[p] # <<>>
  /\ HasFile(p) /\ OwnsOutputs(p) =>
       \A ext \in Extensions :
         \/ stage[p] = "move_s" /\ ext = "imm"
         \/ stage[p] = "move_exec" /\ ext \in {"imm", "asm"}
         \/ stage[p] \in {"cleanup", "ended"} /\ status[p] = "done"
         => results[Output(p, ext)] = p
  /\ stage[p] \in {"cleanup", "ended"} /\ status[p] = "failed" => p \in Rejected \cup Unlinkable
  /\ ~Ended(p, "exception")

\* Every file that is there has still to be removed, and what is about to be
\* removed is there.
Clears(p) ==
  At(p, "cleanup") =>
    /\ \A t \in Temporaries : files[t] # NoFile =>
         \/ \E i \in DOMAIN todo[p] : todo[p][i] = <<"remove", t>>
         \/ t = "exec" /\ Printing(p)
    /\ todo[p] # <<>> /\ todo[p][1][1] = "remove" => files[todo[p][1][2]] # NoFile

Own(p) == Relies(p) /\ HandsOver(p) /\ Clears(p)

Sound(p) == Shape(p) /\ (OnItsOwn(p) => Own(p))

DriverInv == DriverTypeOK /\ \A p \in Programs : Sound(p)

-----------------------------------------------------------------------------
(* cleanup().                                                                *)

CleanupSteps == {"look", "remove"} \X Temporaries

\* The steps for a list of files.
LEMMA RemovalsShape ==
  ASSUME NEW names \in Seq(Temporaries)
  PROVE  /\ Removals(names) \in Seq(CleanupSteps)
         /\ Clearing(Removals(names))
         /\ \A k \in DOMAIN names : \E i \in DOMAIN Removals(names) :
              Removals(names)[i] = <<"remove", names[k]>>
         /\ names # <<>> => Removals(names) # <<>> /\ Removals(names)[1] = <<"look", names[1]>>
<1> DEFINE R == Removals(names)
           n == Len(names)
<1>1. n \in Nat /\ DOMAIN names = 1 .. n /\ \A k \in 1 .. n : names[k] \in Temporaries
  BY LenProperties, ElementOfSeq
<1>2. DOMAIN R = 1 .. 2 * n
  BY DEF Removals
<1>3. \A k \in 1 .. n : /\ 2 * k - 1 \in 1 .. 2 * n /\ (2 * k - 1) % 2 = 1 /\ (2 * k - 1 + 1) \div 2 = k
                        /\ 2 * k \in 1 .. 2 * n /\ (2 * k) % 2 # 1 /\ (2 * k) \div 2 = k
  BY <1>1
<1>4. \A i \in 1 .. 2 * n : \E k \in 1 .. n : i = 2 * k - 1 \/ i = 2 * k
  <2> SUFFICES ASSUME NEW i \in 1 .. 2 * n PROVE \E k \in 1 .. n : i = 2 * k - 1 \/ i = 2 * k
    OBVIOUS
  <2>1. (i + 1) \div 2 \in 1 .. n /\ (i = 2 * ((i + 1) \div 2) - 1 \/ i = 2 * ((i + 1) \div 2))
    BY <1>1
  <2> QED
    BY <2>1
<1>5. \A k \in 1 .. n : R[2 * k - 1] = <<"look", names[k]>> /\ R[2 * k] = <<"remove", names[k]>>
  BY <1>3 DEF Removals
<1> HIDE DEF R, n
<1>6. \A i \in 1 .. 2 * n : R[i] \in CleanupSteps
  <2>1. ASSUME NEW k \in 1 .. n PROVE R[2 * k - 1] \in CleanupSteps /\ R[2 * k] \in CleanupSteps
    <3>1. \A t \in Temporaries : <<"look", t>> \in CleanupSteps /\ <<"remove", t>> \in CleanupSteps
      BY DEF CleanupSteps
    <3>2. names[k] \in Temporaries
      BY <1>1
    <3>3. <<"look", names[k]>> \in CleanupSteps /\ <<"remove", names[k]>> \in CleanupSteps
      BY <3>1, <3>2
    <3> QED
      BY <1>5, <3>3
  <2> QED
    BY <1>4, <2>1
<1>7. R \in Seq(CleanupSteps)
  <2>1. R \in [1 .. 2 * n -> CleanupSteps]
    BY <1>2, <1>6 DEF R, Removals
  <2> QED
    BY <1>1, <2>1, SeqDef
<1>8. ASSUME NEW i \in 1 .. 2 * n, R[i][1] = "look"
      PROVE  i + 1 \in 1 .. 2 * n /\ R[i + 1] = <<"remove", R[i][2]>>
  <2>1. PICK k \in 1 .. n : i = 2 * k - 1 \/ i = 2 * k
    BY <1>4
  <2>2. i = 2 * k - 1 /\ R[i][2] = names[k]
    BY <1>5, <1>8, <2>1
  <2>3. i + 1 = 2 * k
    BY <2>2
  <2> QED
    BY <1>3, <1>5, <2>2, <2>3
<1>9. ASSUME NEW i \in 1 .. 2 * n, R[i][1] = "remove"
      PROVE  i - 1 \in 1 .. 2 * n /\ R[i - 1] = <<"look", R[i][2]>>
  <2>1. PICK k \in 1 .. n : i = 2 * k - 1 \/ i = 2 * k
    BY <1>4
  <2>2. i = 2 * k /\ R[i][2] = names[k]
    BY <1>5, <1>9, <2>1
  <2>3. i - 1 = 2 * k - 1
    BY <2>2
  <2> QED
    BY <1>3, <1>5, <2>2, <2>3
<1>10. Clearing(R)
  BY <1>2, <1>8, <1>9 DEF Clearing
<1>11. \A k \in DOMAIN names : \E i \in DOMAIN R : R[i] = <<"remove", names[k]>>
  BY <1>1, <1>2, <1>3, <1>5
<1>12. ASSUME names # <<>> PROVE R # <<>> /\ R[1] = <<"look", names[1]>>
  <2>1. n > 0
    BY <1>1, <1>12, EmptySeq DEF n
  <2>2. 1 \in 1 .. n /\ 2 * 1 - 1 = 1 /\ 1 \in DOMAIN R
    BY <1>1, <1>2, <2>1
  <2>3. R[2 * 1 - 1] = <<"look", names[1]>> /\ 1 \in 1 .. n
    BY <1>5, <2>2
  <2> QED
    BY <2>2, <2>3
<1> QED
  BY <1>7, <1>10, <1>11, <1>12 DEF R

\* What cleanup() starts with.
LEMMA CleanupBegins ==
  ASSUME DriverTypeOK, NEW p \in Programs, NEW deleteExec \in BOOLEAN, Cleanup(p, deleteExec)
  PROVE  \E steps \in Seq(CleanupSteps) :
           /\ GoTo(p, "cleanup", steps) /\ Clearing(steps)
           /\ steps # <<>> /\ steps[1][1] = "look"
           /\ \A t \in Temporaries : t # "exec" \/ deleteExec =>
                \E i \in DOMAIN steps : steps[i] = <<"remove", t>>
<1> DEFINE names == <<"ll", "tmp", "s">> \o IF deleteExec THEN <<"exec">> ELSE <<>>
<1>1. /\ names \in Seq(Temporaries) /\ names # <<>>
      /\ \A t \in Temporaries : t # "exec" \/ deleteExec => \E k \in DOMAIN names : names[k] = t
  <2> DEFINE first == <<"ll", "tmp", "s">>
             then  == IF deleteExec THEN <<"exec">> ELSE <<>>
  <2>1. /\ first \in Seq(Temporaries) /\ Len(first) = 3
        /\ first[1] = "ll" /\ first[2] = "tmp" /\ first[3] = "s"
    BY DEF Temporaries
  <2>2. CASE deleteExec
    <3>1. then \in Seq(Temporaries) /\ Len(then) = 1 /\ then[1] = "exec"
      BY <2>2 DEF Temporaries
    <3> HIDE DEF first, then
    <3>2. /\ names \in Seq(Temporaries) /\ Len(names) = 4
          /\ names[1] = "ll" /\ names[2] = "tmp" /\ names[3] = "s" /\ names[4] = "exec"
      BY <2>1, <3>1, ConcatProperties DEF first, then
    <3>3. DOMAIN names = 1 .. 4
      BY <3>2, LenProperties
    <3> HIDE DEF names
    <3> QED
      BY <3>2, <3>3 DEF Temporaries
  <2>3. CASE ~deleteExec
    <3>1. names = first
      BY <2>1, <2>3, ConcatEmptySeq
    <3>2. DOMAIN first = 1 .. 3
      BY <2>1, LenProperties
    <3> HIDE DEF names, first
    <3> QED
      BY <2>1, <2>3, <3>1, <3>2 DEF Temporaries
  <2> QED
    BY <2>2, <2>3
<1>2. GoTo(p, "cleanup", Removals(names))
  BY DEF Cleanup
<1> HIDE DEF names
<1>3. /\ Removals(names) \in Seq(CleanupSteps) /\ Clearing(Removals(names))
      /\ Removals(names) # <<>> /\ Removals(names)[1][1] = "look"
      /\ \A k \in DOMAIN names : \E i \in DOMAIN Removals(names) :
           Removals(names)[i] = <<"remove", names[k]>>
  BY <1>1, RemovalsShape
<1>4. ASSUME NEW t \in Temporaries, t # "exec" \/ deleteExec
      PROVE  \E i \in DOMAIN Removals(names) : Removals(names)[i] = <<"remove", t>>
  BY <1>1, <1>3, <1>4
<1> HIDE DEF Clearing
<1> QED
  BY <1>2, <1>3, <1>4

-----------------------------------------------------------------------------
(* What a step of one invocation leaves to the others.                       *)

\* The others keep their state, and their results unless they are given the
\* same stem; whoever starts while they run, they have company.
Aside(p) ==
  /\ \A q \in Programs \ {p} :
       /\ stage'[q] = stage[q] /\ todo'[q] = todo[q] /\ read'[q] = read[q]
       /\ printed'[q] = printed[q] /\ status'[q] = status[q]
  /\ \A q \in Programs, ext \in Extensions : HasFile(q) =>
       \/ results'[Output(q, ext)] = results[Output(q, ext)]
       \/ HasFile(p) /\ Stem(FileArg[q]) = Stem(FileArg[p])
  /\ together \subseteq together'
  /\ p \in Running \/ Running \subseteq together'

LEMMA OthersStaySound ==
  ASSUME DriverInv, NEW p \in Programs, Aside(p), NEW q \in Programs \ {p}
  PROVE  Sound(q)'
<1>1. /\ stage'[q] = stage[q] /\ todo'[q] = todo[q] /\ read'[q] = read[q]
      /\ printed'[q] = printed[q] /\ status'[q] = status[q]
  BY DEF Aside
<1>2. Shape(q) /\ (OnItsOwn(q) => Own(q))
  BY DEF DriverInv, Sound
<1>3. q \in Running' <=> q \in Running
  BY <1>1 DEF Running
<1>4. Shape(q)'
  <2>1. todo[q] = todo'[q] => (Clearing(todo[q]) => Clearing(todo'[q]))
    OBVIOUS
  <2> QED
    BY <1>1, <1>2, <1>3, <2>1 DEF Shape, At
<1>5. ASSUME OnItsOwn(q)' PROVE Own(q)'
  <2>1. OnItsOwn(q) /\ Own(q)
    BY <1>2, <1>5 DEF OnItsOwn, Aside
  <2>2. q \notin Running
    BY <1>5, <2>1 DEF OnItsOwn, Aside, Own, Relies
  <2>3. stage[q] \in {"start", "ended"}
    BY <2>2 DEF Running
  <2>4. Relies(q)'
    BY <1>1, <1>3, <2>2, <2>3 DEF Relies, At, ToolStages, CatStages, MoveStages
  <2>5. ASSUME HasFile(q), OwnsOutputs(q), NEW ext \in Extensions
        PROVE  results'[Output(q, ext)] = results[Output(q, ext)]
    BY <2>5 DEF Aside, OwnsOutputs
  <2>6. HandsOver(q)'
    BY <1>1, <2>1, <2>3, <2>5 DEF Own, HandsOver, Ended, At
  <2>7. Clears(q)'
    BY <1>1, <2>3 DEF Clears, At
  <2> QED
    BY <2>4, <2>6, <2>7 DEF Own
<1> QED
  BY <1>4, <1>5 DEF Sound

-----------------------------------------------------------------------------
(* Where a step leads.                                                       *)

ToolSteps == {"read", "truncate", "write"}

LEMMA ToolIsThreeSteps ==
  /\ Tool \in Seq(ToolSteps) /\ Head(Tool) = "read" /\ Tail(Tool) = <<"truncate", "write">>
  /\ <<"truncate", "write">> \in Seq(ToolSteps) /\ Len(<<"truncate", "write">>) = 2
  /\ Head(<<"truncate", "write">>) = "truncate" /\ Tail(<<"truncate", "write">>) = <<"write">>
  /\ <<"write">> \in Seq(ToolSteps) /\ Head(<<"write">>) = "write" /\ Len(<<"write">>) = 1
  /\ <<>> \in Seq(ToolSteps)
  /\ Tool # <<"truncate", "write">> /\ Tool # <<"write">> /\ Tool # <<>>
BY DEF Tool, ToolSteps

\* What is to be done in a stage.
StepsOf(s) == IF s = "cleanup" THEN Seq(CleanupSteps) ELSE Seq(ToolSteps)

Statuses == {"none", "usage", "done", "failed", "exception", "killed"}

\* The control state stays one, and the others stay where they are.
Goes(p) ==
  /\ \A q \in Programs \ {p} :
       stage'[q] = stage[q] /\ todo'[q] = todo[q] /\ status'[q] = status[q]
  /\ stage' \in [Programs -> Stages] /\ DOMAIN todo' = Programs
  /\ \A q \in Programs :
       todo'[q] \in IF At(q, "cleanup")' THEN Seq({"look", "remove"} \X Temporaries)
                    ELSE Seq({"read", "truncate", "write"})
  /\ status' \in [Programs -> Statuses]
  /\ \A q \in Programs : At(q, "ended")' => status'[q] # "none"

LEMMA GoToLeads ==
  ASSUME DriverTypeOK, NEW p \in Programs, NEW s \in Stages, NEW steps \in StepsOf(s),
         GoTo(p, s, steps), s = "ended" => status'[p] # "none",
         status' \in [Programs -> Statuses], \A q \in Programs \ {p} : status'[q] = status[q]
  PROVE  stage'[p] = s /\ todo'[p] = steps /\ Goes(p)
<1>1. /\ stage'[p] = s /\ todo'[p] = steps
      /\ \A q \in Programs \ {p} : stage'[q] = stage[q] /\ todo'[q] = todo[q]
      /\ stage' \in [Programs -> Stages] /\ DOMAIN todo' = Programs
  BY DEF DriverTypeOK, GoTo
<1>2. \A q \in Programs :
        todo'[q] \in IF At(q, "cleanup")' THEN Seq({"look", "remove"} \X Temporaries)
                     ELSE Seq({"read", "truncate", "write"})
  BY <1>1 DEF DriverTypeOK, At, StepsOf, CleanupSteps, ToolSteps
<1>3. \A q \in Programs : At(q, "ended")' => status'[q] # "none"
  BY <1>1 DEF DriverTypeOK, At
<1> QED
  BY <1>1, <1>2, <1>3 DEF Goes

\* The end of an invocation.
LEMMA EndLeads ==
  ASSUME DriverTypeOK, NEW p \in Programs, NEW how \in Statuses \ {"none"}, End(p, how)
  PROVE  stage'[p] = "ended" /\ todo'[p] = <<>> /\ status'[p] = how /\ Goes(p)
<1>1. GoTo(p, "ended", <<>>)
  BY DEF End, GoTo
<1>2. /\ status'[p] = how /\ \A q \in Programs \ {p} : status'[q] = status[q]
      /\ status' \in [Programs -> Statuses]
  BY DEF End, DriverTypeOK, Statuses
<1>3. "ended" \in Stages /\ <<>> \in StepsOf("ended")
  BY ToolIsThreeSteps DEF Stages, StepsOf
<1> QED
  BY <1>1, <1>2, <1>3, GoToLeads

\* An invocation that begins to clean up, having failed or not.
LEMMA CleanupLeads ==
  ASSUME DriverTypeOK, NEW p \in Programs, NEW deleteExec \in BOOLEAN, Cleanup(p, deleteExec),
         NEW how \in {"done", "failed"}, status' = [status EXCEPT ![p] = how]
  PROVE  /\ stage'[p] = "cleanup" /\ Clearing(todo'[p]) /\ status'[p] = how
         /\ todo'[p] # <<>> /\ todo'[p][1][1] = "look"
         /\ \A t \in Temporaries : t # "exec" \/ deleteExec =>
              \E i \in DOMAIN todo'[p] : todo'[p][i] = <<"remove", t>>
         /\ Goes(p)
<1>1. PICK steps \in Seq(CleanupSteps) :
        /\ GoTo(p, "cleanup", steps) /\ Clearing(steps)
        /\ steps # <<>> /\ steps[1][1] = "look"
        /\ \A t \in Temporaries : t # "exec" \/ deleteExec =>
             \E i \in DOMAIN steps : steps[i] = <<"remove", t>>
  BY CleanupBegins
<1>2. /\ status'[p] = how /\ \A q \in Programs \ {p} : status'[q] = status[q]
      /\ status' \in [Programs -> Statuses]
  BY DEF DriverTypeOK, Statuses
<1>3. "cleanup" \in Stages /\ steps \in StepsOf("cleanup") /\ "cleanup" # "ended"
  BY DEF Stages, StepsOf
<1>4. stage'[p] = "cleanup" /\ todo'[p] = steps /\ Goes(p)
  BY <1>1, <1>2, <1>3, GoToLeads
<1> HIDE DEF Clearing
<1> QED
  BY <1>1, <1>2, <1>4

\* An invocation that fails.
LEMMA FailLeads ==
  ASSUME DriverTypeOK, NEW p \in Programs, Fail(p)
  PROVE  /\ stage'[p] = "cleanup" /\ Clearing(todo'[p]) /\ status'[p] = "failed"
         /\ todo'[p] # <<>> /\ todo'[p][1][1] = "look"
         /\ \A t \in Temporaries : \E i \in DOMAIN todo'[p] : todo'[p][i] = <<"remove", t>>
         /\ Goes(p)
<1>1. Cleanup(p, TRUE) /\ status' = [status EXCEPT ![p] = "failed"]
  BY DEF Fail
<1> DEFINE failed == "failed"
<1>2. TRUE \in BOOLEAN /\ failed \in {"done", "failed"} /\ status' = [status EXCEPT ![p] = failed]
  BY <1>1
<1> HIDE DEF Clearing, failed
<1>3. /\ stage'[p] = "cleanup" /\ Clearing(todo'[p]) /\ status'[p] = failed
      /\ todo'[p] # <<>> /\ todo'[p][1][1] = "look"
      /\ \A t \in Temporaries : t # "exec" \/ TRUE =>
           \E i \in DOMAIN todo'[p] : todo'[p][i] = <<"remove", t>>
      /\ Goes(p)
  BY <1>1, <1>2, CleanupLeads
<1> QED
  BY <1>3 DEF failed

\* The stage after that of a tool.
LEMMA ToolLeads ==
  ASSUME DriverTypeOK, NEW p \in Programs, stage[p] \in ToolStages, Shape(p),
         GoTo(p, AfterStage(p)[1], AfterStage(p)[2]), UNCHANGED status
  PROVE  /\ \/ At(p, "tonyc") /\ stage'[p] = "llc" /\ todo'[p] = Tool
            \/ At(p, "llc") /\ stage'[p] = "clang" /\ todo'[p] = Tool
            \/ At(p, "clang") /\ stage'[p] \in {"cat_ll", "cat_s"} /\ todo'[p] = <<>> /\ Printing(p)
            \/ At(p, "clang") /\ stage'[p] = "move_ll" /\ todo'[p] = <<>> /\ HasFile(p)
         /\ Printing(p) <=> ~HasFile(p)
         /\ Goes(p)
<1>1. \/ At(p, "tonyc") /\ AfterStage(p) = <<"llc", Tool>>
      \/ At(p, "llc") /\ AfterStage(p) = <<"clang", Tool>>
      \/ At(p, "clang") /\ AfterStage(p) = <<AfterTools(p), <<>> >>
  BY DEF AfterStage, At, ToolStages
<1>2. \/ AfterTools(p) = "cat_ll" /\ Printing(p)
      \/ AfterTools(p) = "cat_s" /\ Printing(p)
      \/ AfterTools(p) = "move_ll" /\ ~Printing(p)
  BY DEF AfterTools, Printing
<1>3. Printing(p) <=> ~HasFile(p)
  BY DEF Shape, Running, ToolStages
<1>4. \E s \in {"llc", "clang", "cat_ll", "cat_s", "move_ll"}, steps \in {Tool, <<>>} :
        GoTo(p, s, steps) /\ AfterStage(p) = <<s, steps>>
  BY <1>1, <1>2
<1>5. PICK s \in {"llc", "clang", "cat_ll", "cat_s", "move_ll"}, steps \in {Tool, <<>>} :
        GoTo(p, s, steps) /\ AfterStage(p) = <<s, steps>>
  BY <1>4
<1>6. s \in Stages /\ s # "ended" /\ steps \in StepsOf(s)
  BY <1>5, ToolIsThreeSteps DEF Stages, StepsOf
<1>7. status' \in [Programs -> Statuses] /\ \A q \in Programs \ {p} : status'[q] = status[q]
  BY DEF DriverTypeOK, Statuses
<1>8. stage'[p] = s /\ todo'[p] = steps /\ Goes(p)
  BY <1>5, <1>6, <1>7, GoToLeads
<1> QED
  BY <1>1, <1>2, <1>3, <1>5, <1>8

-----------------------------------------------------------------------------
(* The steps of one invocation.                                              *)

\* Results are moved beside the own program only.
MovesOwn(p) ==
  \/ UNCHANGED results
  \/ /\ HasFile(p)
     /\ \E ext \in Extensions, c \in Content : results' = [results EXCEPT ![Output(p, ext)] = c]

\* Types and company, once the control state and what is written are known.
LEMMA StepKeepsTypes ==
  ASSUME DriverTypeOK, NEW p \in Programs, p \in Running, Goes(p), UNCHANGED together,
         files' \in [Temporaries -> Content], MovesOwn(p),
         \/ UNCHANGED read \/ \E c \in Content : read' = [read EXCEPT ![p] = c],
         \/ UNCHANGED printed \/ \E c \in Content : printed' = [printed EXCEPT ![p] = Append(@, c)]
  PROVE  DriverTypeOK' /\ Aside(p)
<1>1. read' \in [Programs -> Content] /\ \A q \in Programs \ {p} : read'[q] = read[q]
  BY DEF DriverTypeOK
<1>2. printed' \in [Programs -> Seq(Content)] /\ \A q \in Programs \ {p} : printed'[q] = printed[q]
  <2>1. \A c \in Content : Append(printed[p], c) \in Seq(Content)
    BY AppendProperties DEF DriverTypeOK
  <2> QED
    BY <2>1 DEF DriverTypeOK
<1>3. /\ results' \in [Outputs -> Content]
      /\ \A q \in Programs, ext \in Extensions : HasFile(q) =>
           \/ results'[Output(q, ext)] = results[Output(q, ext)]
           \/ HasFile(p) /\ Stem(FileArg[q]) = Stem(FileArg[p])
  <2>1. CASE UNCHANGED results
    BY <2>1 DEF DriverTypeOK
  <2>2. CASE HasFile(p) /\ \E ext \in Extensions, c \in Content :
               results' = [results EXCEPT ![Output(p, ext)] = c]
    <3>1. PICK ext \in Extensions, c \in Content : results' = [results EXCEPT ![Output(p, ext)] = c]
      BY <2>2
    <3>2. ASSUME NEW q \in Programs, NEW e \in Extensions, HasFile(q)
          PROVE  /\ Output(q, e) \in Outputs
                 /\ Output(q, e) = Output(p, ext) => Stem(FileArg[q]) = Stem(FileArg[p])
      BY <3>2 DEF Output, Outputs
    <3> HIDE DEF Output, Outputs
    <3> QED
      BY <2>2, <3>1, <3>2 DEF DriverTypeOK
  <2> QED
    BY <2>1, <2>2 DEF MovesOwn
<1>4. DriverTypeOK'
  BY <1>1, <1>2, <1>3 DEF DriverTypeOK, Goes, Statuses
<1> QED
  BY <1>1, <1>2, <1>3, <1>4 DEF Goes, Aside

\* An invocation that is alone stays alone.
LEMMA StaysAlone ==
  ASSUME NEW p \in Programs, Running = {p}, Goes(p)
  PROVE  p \in Running' => Running' = {p}
BY DEF Goes, Running

\* How an invocation on its own ends.
MayEnd(p, how) == OnItsOwn(p)' =>
  \/ how \in {"usage", "killed"}
  \/ At(p, "cleanup") /\ how = status[p] /\ how # "exception"

LEMMA EndSound ==
  ASSUME DriverInv, NEW p \in Programs, NEW how \in Statuses \ {"none"}, End(p, how),
         UNCHANGED <<files, results, read, printed>>, together \subseteq together', together' \subseteq Programs,
         p \in Running \/ Running \subseteq together',
         MayEnd(p, how)
  PROVE  DriverTypeOK' /\ Aside(p) /\ Sound(p)'
<1> USE DEF DriverInv
<1>1. stage'[p] = "ended" /\ todo'[p] = <<>> /\ status'[p] = how /\ Goes(p)
  BY EndLeads
<1>2. DriverTypeOK' /\ Aside(p)
  BY <1>1 DEF DriverTypeOK, Aside, Goes, Statuses
<1>3. Shape(p)'
  BY <1>1 DEF Shape, At, ToolStages, CatStages, MoveStages, Running
<1>4. ASSUME OnItsOwn(p)' PROVE Own(p)'
  <2>1. Own(p)
    BY <1>4 DEF OnItsOwn, Sound
  <2>2. p \notin Running'
    BY <1>1 DEF Running
  <2>3. Relies(p)'
    BY <1>1, <2>2 DEF Relies, At, ToolStages, CatStages, MoveStages
  <2>4. HandsOver(p)'
    BY <1>1, <1>4, <2>1 DEF HandsOver, Own, Ended, At, MayEnd
  <2> QED
    BY <1>1, <2>3, <2>4 DEF Own, Clears, At
<1> QED
  BY <1>2, <1>3, <1>4 DEF Sound

LEMMA WriteStdinSound ==
  ASSUME DriverInv, DriverAssumption, NEW p \in Programs, WriteStdin(p), UNCHANGED together
  PROVE  DriverTypeOK' /\ Aside(p) /\ Sound(p)'
<1> USE DEF DriverInv
<1>1. /\ At(p, "stdin") /\ ~HasFile(p) /\ Printing(p) /\ p \in Running
      /\ todo[p] \in {<<"truncate", "write">>, <<"write">>}
  BY DEF WriteStdin, Sound, Shape, Running, At
<1> DEFINE barred == Head(todo[p]) = "truncate" /\ p \in Foreign /\ files["tmp"] # NoFile
<1>11. CASE barred
  <2> DEFINE ending == "exception"
  <2>1. /\ ending \in Statuses \ {"none"} /\ together \subseteq together' /\ together' \subseteq Programs
        /\ UNCHANGED <<files, results, read, printed>> /\ End(p, ending)
    BY <1>11 DEF Statuses, WriteStdin, DriverTypeOK
  <2>2. MayEnd(p, ending)
    BY <1>11 DEF MayEnd, OnItsOwn
  <2> HIDE DEF ending
  <2> QED
    BY <1>1, <2>1, <2>2, EndSound
<1>12. SUFFICES ASSUME ~barred PROVE DriverTypeOK' /\ Aside(p) /\ Sound(p)'
  BY <1>11
<1>2. \/ /\ stage'[p] = "stdin" /\ todo'[p] = <<"write">>
         /\ files' = [files EXCEPT !["tmp"] = Partial] /\ Goes(p)
      \/ /\ stage'[p] = "tonyc" /\ todo'[p] = Tool
         /\ files' = [files EXCEPT !["tmp"] = p] /\ Goes(p)
  <2>1. \/ GoTo(p, "stdin", <<"write">>) /\ files' = [files EXCEPT !["tmp"] = Partial]
        \/ GoTo(p, "tonyc", Tool) /\ files' = [files EXCEPT !["tmp"] = p]
    <3>1. CASE todo[p] = <<"truncate", "write">>
      <4>1. Head(todo[p]) = "truncate" /\ Len(todo[p]) > 1 /\ Tail(todo[p]) = <<"write">>
        BY <3>1, ToolIsThreeSteps
      <4> QED
        BY <1>12, <4>1 DEF WriteStdin
    <3>2. CASE todo[p] = <<"write">>
      <4>1. Head(todo[p]) = "write" /\ ~(Len(todo[p]) > 1)
        BY <3>2, ToolIsThreeSteps
      <4> QED
        BY <1>12, <4>1 DEF WriteStdin
    <3> QED
      BY <1>1, <3>1, <3>2
  <2>2. {"stdin", "tonyc"} \subseteq Stages /\ <<"write">> \in StepsOf("stdin") /\ Tool \in StepsOf("tonyc")
    BY ToolIsThreeSteps DEF Stages, StepsOf
  <2>3. status' \in [Programs -> Statuses] /\ \A q \in Programs \ {p} : status'[q] = status[q]
    BY <1>12 DEF DriverTypeOK, Statuses, WriteStdin
  <2> QED
    BY <2>1, <2>2, <2>3, GoToLeads
<1>3. DriverTypeOK' /\ Aside(p)
  <2>1. files' \in [Temporaries -> Content]
    BY <1>2 DEF DriverTypeOK, Content
  <2> QED
    BY <1>1, <1>2, <2>1, StepKeepsTypes DEF MovesOwn, WriteStdin
<1>4. Shape(p)'
  BY <1>1, <1>2 DEF Shape, At, ToolStages, CatStages, MoveStages
<1>5. ASSUME OnItsOwn(p)' PROVE Own(p)'
  <2>1. Own(p) /\ Running = {p}
    BY <1>1, <1>5 DEF OnItsOwn, Sound, Own, Relies
  <2>2. p \in Running' => Running' = {p}
    BY <1>2, <2>1, StaysAlone
  <2>3. files["tmp"] \in Content /\ (stage'[p] = "tonyc" => files'["tmp"] = p)
    BY <1>2 DEF DriverTypeOK, Temporaries
  <2>4. Relies(p)'
    BY <1>2, <2>2, <2>3 DEF Relies, At, ToolStages, CatStages, MoveStages
  <2>5. HandsOver(p)'
    BY <1>2, <1>12, <2>1 DEF HandsOver, Own, Ended, At, WriteStdin
  <2> QED
    BY <1>2, <2>4, <2>5 DEF Own, Clears, At
<1> QED
  BY <1>3, <1>4, <1>5 DEF Sound

\* What a tool reads is what the stage relies on.
LEMMA ToolInput ==
  ASSUME DriverTypeOK, NEW p \in Programs, stage[p] \in ToolStages
  PROVE  /\ Input(p) \in Content
         /\ Relies(p) /\ todo[p] = Tool => Input(p) = p
<1>1. \/ At(p, "tonyc") /\ Input(p) = IF HasFile(p) THEN p ELSE files["tmp"]
      \/ At(p, "llc") /\ Input(p) = files["ll"]
      \/ At(p, "clang") /\ Input(p) = files["s"]
  BY DEF Input, At, ToolStages
<1>2. {"tmp", "ll", "s"} \subseteq Temporaries
  BY DEF Temporaries
<1> QED
  BY <1>1, <1>2 DEF DriverTypeOK, Content, Relies, At

LEMMA ReadInputSound ==
  ASSUME DriverInv, DriverAssumption, NEW p \in Programs, ReadInput(p), UNCHANGED together
  PROVE  DriverTypeOK' /\ Aside(p) /\ Sound(p)'
<1> USE DEF DriverInv
<1>1. /\ stage[p] \in ToolStages /\ p \in Running /\ Shape(p) /\ (Printing(p) <=> ~HasFile(p))
      /\ todo[p] = Tool
  BY ToolIsThreeSteps DEF ReadInput, Sound, Shape, Running, ToolStages
<1>2. Input(p) \in Content /\ (Relies(p) => Input(p) = p)
  BY <1>1, ToolInput
<1>3. CASE Refuses(stage[p], Input(p)) /\ Fail(p) /\ UNCHANGED read
  <2>1. /\ stage'[p] = "cleanup" /\ Clearing(todo'[p]) /\ status'[p] = "failed"
        /\ todo'[p] # <<>> /\ todo'[p][1][1] = "look"
        /\ \A t \in Temporaries : \E i \in DOMAIN todo'[p] : todo'[p][i] = <<"remove", t>>
        /\ Goes(p)
    BY <1>3, FailLeads
  <2>2. DriverTypeOK' /\ Aside(p)
    BY <1>1, <1>3, <2>1, StepKeepsTypes DEF MovesOwn, ReadInput, DriverTypeOK
  <2>3. Shape(p)'
    BY <1>1, <2>1 DEF Shape, At, ToolStages, CatStages, MoveStages
  <2>4. ASSUME OnItsOwn(p)' PROVE Own(p)'
    <3>1. Own(p) /\ Running = {p}
      BY <1>1, <2>4 DEF OnItsOwn, Sound, Own, Relies
    <3>2. p \in Running' => Running' = {p}
      BY <2>1, <3>1, StaysAlone
    <3>3. p \in Rejected \cup Unlinkable
      BY <1>2, <1>3, <3>1 DEF Own, Refuses, DriverAssumption
    <3>4. Relies(p)'
      BY <2>1, <3>2 DEF Relies, At, ToolStages, CatStages, MoveStages
    <3>5. HandsOver(p)'
      BY <2>1, <3>1, <3>3 DEF HandsOver, Own, Ended, At, ReadInput
    <3>6. Clears(p)'
      BY <2>1 DEF Clears, At
    <3> QED
      BY <3>4, <3>5, <3>6 DEF Own
  <2> QED
    BY <2>2, <2>3, <2>4 DEF Sound
<1>4. CASE /\ ~Refuses(stage[p], Input(p)) \/ Input(p) = Partial
           /\ read' = [read EXCEPT ![p] = Input(p)]
           /\ GoTo(p, stage[p], Tail(todo[p])) /\ UNCHANGED status
  <2>1. stage'[p] = stage[p] /\ todo'[p] = <<"truncate", "write">> /\ Goes(p)
    <3>1. /\ stage[p] \in Stages /\ stage[p] # "ended"
          /\ <<"truncate", "write">> \in StepsOf(stage[p]) /\ Tail(todo[p]) = <<"truncate", "write">>
      BY <1>1, ToolIsThreeSteps DEF Stages, StepsOf, ToolStages
    <3>2. status' \in [Programs -> Statuses] /\ \A q \in Programs \ {p} : status'[q] = status[q]
      BY <1>4 DEF DriverTypeOK, Statuses
    <3> QED
      BY <1>4, <3>1, <3>2, GoToLeads
  <2>2. DriverTypeOK' /\ Aside(p)
    BY <1>1, <1>2, <1>4, <2>1, StepKeepsTypes DEF MovesOwn, ReadInput, DriverTypeOK
  <2>3. Shape(p)'
    BY <1>1, <2>1 DEF Shape, At, ToolStages, CatStages, MoveStages
  <2>4. ASSUME OnItsOwn(p)' PROVE Own(p)'
    <3>1. Own(p) /\ Running = {p}
      BY <1>1, <2>4 DEF OnItsOwn, Sound, Own, Relies
    <3>2. p \in Running' => Running' = {p}
      BY <2>1, <3>1, StaysAlone
    <3>3. Input(p) = p /\ ~Refuses(stage[p], p) /\ read'[p] = p
      BY <1>2, <1>4, <3>1 DEF Own, DriverAssumption, DriverTypeOK
    <3>4. Relies(p)'
      BY <1>1, <2>1, <3>1, <3>2, <3>3
         DEF Relies, Refuses, Own, At, ToolStages, CatStages, MoveStages, ReadInput
    <3>5. HandsOver(p)'
      BY <1>1, <2>1, <3>1 DEF HandsOver, Own, Ended, At, ToolStages, ReadInput
    <3> QED
      BY <1>1, <2>1, <3>4, <3>5 DEF Own, Clears, At, ToolStages
  <2> QED
    BY <2>2, <2>3, <2>4 DEF Sound
<1> QED
  BY <1>3, <1>4 DEF ReadInput

\* The files the tools write.
LEMMA ToolOutput ==
  ASSUME NEW s \in ToolStages
  PROVE  /\ OutputOf(s) \in Temporaries
         /\ s = "tonyc" => OutputOf(s) = "ll"
         /\ s = "llc" => OutputOf(s) = "s"
         /\ s = "clang" => OutputOf(s) = "exec"
BY DEF OutputOf, ToolStages, Temporaries

LEMMA TruncateSound ==
  ASSUME DriverInv, DriverAssumption, NEW p \in Programs, Truncate(p), UNCHANGED together
  PROVE  DriverTypeOK' /\ Aside(p) /\ Sound(p)'
<1> USE DEF DriverInv
<1>1. /\ stage[p] \in ToolStages /\ p \in Running /\ Shape(p) /\ (Printing(p) <=> ~HasFile(p))
      /\ todo[p] = <<"truncate", "write">>
  BY ToolIsThreeSteps DEF Truncate, Sound, Shape, Running, ToolStages
<1>2. NoFile \in Content /\ Partial \in Content /\ UNCHANGED <<results, printed>>
  BY DEF Content, Truncate
<1>3. CASE /\ At(p, "tonyc") /\ GoTo(p, AfterStage(p)[1], AfterStage(p)[2]) /\ UNCHANGED status
           /\ p \in Foreign /\ read' = [read EXCEPT ![p] = NoFile] /\ UNCHANGED files
  <2>1. stage'[p] = "llc" /\ todo'[p] = Tool /\ Goes(p)
    BY <1>1, <1>3, ToolLeads DEF At
  <2>2. DriverTypeOK' /\ Aside(p)
    BY <1>1, <1>2, <1>3, <2>1, StepKeepsTypes DEF MovesOwn, DriverTypeOK
  <2>3. Shape(p)'
    BY <1>1, <2>1 DEF Shape, At, ToolStages, CatStages, MoveStages
  <2> QED
    BY <1>3, <2>2, <2>3 DEF Sound, OnItsOwn
<1>4. CASE /\ Fail(p) /\ p \in Foreign /\ read' = [read EXCEPT ![p] = NoFile] /\ UNCHANGED files
  <2>1. /\ stage'[p] = "cleanup" /\ Clearing(todo'[p]) /\ status'[p] = "failed" /\ Goes(p)
    BY <1>4, FailLeads
  <2>2. DriverTypeOK' /\ Aside(p)
    BY <1>1, <1>2, <1>4, <2>1, StepKeepsTypes DEF MovesOwn, DriverTypeOK
  <2>3. Shape(p)'
    BY <1>1, <2>1 DEF Shape, At, ToolStages, CatStages, MoveStages
  <2> QED
    BY <1>4, <2>2, <2>3 DEF Sound, OnItsOwn
<1>5. CASE /\ files' = [files EXCEPT ![OutputOf(stage[p])] = Partial]
           /\ GoTo(p, stage[p], Tail(todo[p])) /\ UNCHANGED <<read, status>>
  <2>1. stage'[p] = stage[p] /\ todo'[p] = <<"write">> /\ Goes(p)
    <3>1. /\ stage[p] \in Stages /\ stage[p] # "ended"
          /\ <<"write">> \in StepsOf(stage[p]) /\ Tail(todo[p]) = <<"write">>
      BY <1>1, ToolIsThreeSteps DEF Stages, StepsOf, ToolStages
    <3>2. status' \in [Programs -> Statuses] /\ \A q \in Programs \ {p} : status'[q] = status[q]
      BY <1>5 DEF DriverTypeOK, Statuses
    <3> QED
      BY <1>5, <3>1, <3>2, GoToLeads
  <2>2. files' \in [Temporaries -> Content]
    BY <1>1, <1>2, <1>5, ToolOutput DEF DriverTypeOK
  <2>3. DriverTypeOK' /\ Aside(p)
    BY <1>1, <1>2, <1>5, <2>1, <2>2, StepKeepsTypes DEF MovesOwn
  <2>4. Shape(p)'
    BY <1>1, <2>1 DEF Shape, At, ToolStages, CatStages, MoveStages
  <2>5. ASSUME OnItsOwn(p)' PROVE Own(p)'
    <3>1. Own(p) /\ Running = {p}
      BY <1>1, <2>5 DEF OnItsOwn, Sound, Own, Relies
    <3>2. p \in Running' => Running' = {p}
      BY <2>1, <3>1, StaysAlone
    <3>3. /\ At(p, "tonyc") => files'["tmp"] = files["tmp"]
          /\ At(p, "llc") => files'["ll"] = files["ll"]
          /\ At(p, "clang") => files'["ll"] = files["ll"] /\ files'["s"] = files["s"]
      BY <1>1, <1>5, ToolOutput DEF DriverTypeOK, Temporaries, At
    <3>4. todo[p] # Tool /\ todo'[p] # Tool
      BY <1>1, <2>1, ToolIsThreeSteps
    <3>5. Relies(p)'
      BY <1>1, <1>5, <2>1, <3>1, <3>2, <3>3, <3>4
         DEF Relies, Own, At, ToolStages, CatStages, MoveStages
    <3>6. HandsOver(p)'
      BY <1>1, <1>2, <2>1, <3>1 DEF HandsOver, Own, Ended, At, ToolStages
    <3> QED
      BY <1>1, <2>1, <3>5, <3>6 DEF Own, Clears, At, ToolStages
  <2> QED
    BY <2>3, <2>4, <2>5 DEF Sound
<1> QED
  BY <1>3, <1>4, <1>5 DEF Truncate

LEMMA WriteOutputSound ==
  ASSUME DriverInv, DriverAssumption, NEW p \in Programs, WriteOutput(p), UNCHANGED together
  PROVE  DriverTypeOK' /\ Aside(p) /\ Sound(p)'
<1> USE DEF DriverInv
<1>1. /\ stage[p] \in ToolStages /\ p \in Running /\ Shape(p)
      /\ todo[p] = <<"write">> /\ todo[p] # Tool
  BY ToolIsThreeSteps DEF WriteOutput, Sound, Shape, Running, ToolStages
<1>2. /\ NoFile \in Content /\ UNCHANGED <<results, printed, status>>
      /\ files' = [files EXCEPT ![OutputOf(stage[p])] = read[p]]
      /\ read' = [read EXCEPT ![p] = NoFile]
  BY DEF Content, WriteOutput
<1>3. /\ \/ At(p, "tonyc") /\ stage'[p] = "llc" /\ todo'[p] = Tool
         \/ At(p, "llc") /\ stage'[p] = "clang" /\ todo'[p] = Tool
         \/ At(p, "clang") /\ stage'[p] \in {"cat_ll", "cat_s"} /\ todo'[p] = <<>> /\ Printing(p)
         \/ At(p, "clang") /\ stage'[p] = "move_ll" /\ todo'[p] = <<>> /\ HasFile(p)
      /\ Printing(p) <=> ~HasFile(p)
      /\ Goes(p)
  BY <1>1, ToolLeads DEF WriteOutput
<1>4. DriverTypeOK' /\ Aside(p)
  <2>1. files' \in [Temporaries -> Content]
    BY <1>1, <1>2, ToolOutput DEF DriverTypeOK
  <2> QED
    BY <1>1, <1>2, <1>3, <2>1, StepKeepsTypes DEF MovesOwn
<1>5. Shape(p)'
  BY <1>1, <1>3 DEF Shape, At, ToolStages, CatStages, MoveStages
<1>6. ASSUME OnItsOwn(p)' PROVE Own(p)'
  <2>1. Own(p) /\ Running = {p}
    BY <1>1, <1>6 DEF OnItsOwn, Sound, Own, Relies
  <2>2. p \in Running' => Running' = {p}
    BY <1>3, <2>1, StaysAlone
  <2>3. read[p] = p /\ p \notin Rejected /\ (At(p, "clang") => p \notin Unlinkable)
    BY <1>1, <2>1 DEF Own, Relies, At, ToolStages
  <2>4. /\ At(p, "tonyc") => files'["ll"] = p
        /\ At(p, "llc") => files'["ll"] = p /\ files'["s"] = p
        /\ At(p, "clang") => files'["ll"] = p /\ files'["s"] = p /\ files'["exec"] = p
    <3>1. /\ At(p, "llc") => files["ll"] = p
          /\ At(p, "clang") => files["ll"] = p /\ files["s"] = p
      BY <2>1 DEF Own, Relies, At
    <3> QED
      BY <1>1, <1>2, <2>3, <3>1, ToolOutput DEF DriverTypeOK, Temporaries, At
  <2>5. Relies(p)'
    BY <1>3, <2>2, <2>3, <2>4 DEF Relies, At, ToolStages, CatStages, MoveStages
  <2>6. HandsOver(p)'
    BY <1>1, <1>2, <1>3, <2>1 DEF HandsOver, Own, Ended, At, ToolStages
  <2>7. Clears(p)'
    BY <1>3 DEF Clears, At
  <2> QED
    BY <2>5, <2>6, <2>7 DEF Own
<1> QED
  BY <1>4, <1>5, <1>6 DEF Sound

\* A content printed after others of the same program.
LEMMA PrintedIsOwn ==
  ASSUME NEW p \in Programs, NEW before \in Seq(Content), \A i \in DOMAIN before : before[i] = p
  PROVE  /\ Append(before, p) # <<>>
         /\ \A i \in DOMAIN Append(before, p) : Append(before, p)[i] = p
<1>1. p \in Content /\ DOMAIN before = 1 .. Len(before) /\ Len(before) \in Nat
  BY LenProperties DEF Content
<1>2. /\ Append(before, p) \in Seq(Content) /\ Len(Append(before, p)) = Len(before) + 1
      /\ DOMAIN Append(before, p) = 1 .. Len(before) + 1
      /\ \A i \in 1 .. Len(before) : Append(before, p)[i] = before[i]
      /\ Append(before, p)[Len(before) + 1] = p
  BY <1>1, AppendProperties, LenProperties
<1> QED
  BY <1>1, <1>2, EmptySeq

LEMMA CatSound ==
  ASSUME DriverInv, DriverAssumption, NEW p \in Programs, Cat(p), UNCHANGED together
  PROVE  DriverTypeOK' /\ Aside(p) /\ Sound(p)'
<1> USE DEF DriverInv
<1> DEFINE c == files[IF At(p, "cat_ll") THEN "ll" ELSE "s"]
<1>1. /\ stage[p] \in CatStages /\ p \in Running /\ Shape(p) /\ Printing(p) /\ ~HasFile(p)
      /\ UNCHANGED <<files, results, read>>
  BY DEF Cat, Sound, Shape, Running, CatStages
<1>2. c \in Content /\ (Relies(p) => c = p)
  BY <1>1 DEF DriverTypeOK, Temporaries, Relies, At, CatStages
<1>3. /\ UNCHANGED files /\ files' \in [Temporaries -> Content]
      /\ printed[p] \in Seq(Content)
  BY <1>1 DEF DriverTypeOK
<1>4. CASE c = NoFile /\ Fail(p) /\ UNCHANGED printed
  <2>1. stage'[p] = "cleanup" /\ Clearing(todo'[p]) /\ status'[p] = "failed" /\ Goes(p)
    BY <1>4, FailLeads
  <2>2. DriverTypeOK' /\ Aside(p)
    BY <1>1, <1>3, <1>4, <2>1, StepKeepsTypes DEF MovesOwn
  <2>3. Shape(p)'
    BY <1>1, <2>1 DEF Shape, At, ToolStages, CatStages, MoveStages
  <2>4. ~OnItsOwn(p)'
    BY <1>2, <1>4 DEF OnItsOwn, Sound, Own, DriverAssumption
  <2> QED
    BY <2>2, <2>3, <2>4 DEF Sound
<1>5. CASE /\ printed' = [printed EXCEPT ![p] = Append(@, c)]
           /\ At(p, "cat_ll") /\ GoTo(p, "cat_s", <<>>) /\ UNCHANGED status
  <2>1. stage'[p] = "cat_s" /\ todo'[p] = <<>> /\ Goes(p)
    <3>1. "cat_s" \in Stages /\ "cat_s" # "ended" /\ <<>> \in StepsOf("cat_s")
      BY ToolIsThreeSteps DEF Stages, StepsOf
    <3>2. status' \in [Programs -> Statuses] /\ \A q \in Programs \ {p} : status'[q] = status[q]
      BY <1>5 DEF DriverTypeOK, Statuses
    <3> QED
      BY <1>5, <3>1, <3>2, GoToLeads
  <2>2. DriverTypeOK' /\ Aside(p)
    BY <1>1, <1>2, <1>3, <1>5, <2>1, StepKeepsTypes DEF MovesOwn
  <2>3. Shape(p)'
    BY <1>1, <2>1 DEF Shape, At, ToolStages, CatStages, MoveStages
  <2>4. ASSUME OnItsOwn(p)' PROVE Own(p)'
    <3>1. Own(p) /\ Running = {p}
      BY <1>1, <2>4 DEF OnItsOwn, Sound, Own, Relies
    <3>2. p \in Running' => Running' = {p}
      BY <2>1, <3>1, StaysAlone
    <3>3. Relies(p)'
      BY <1>1, <1>5, <2>1, <3>1, <3>2 DEF Relies, Own, At, ToolStages, CatStages, MoveStages
    <3>4. printed'[p] = Append(printed[p], p)
      BY <1>2, <1>5, <3>1 DEF Own, DriverTypeOK
    <3>5. \A i \in DOMAIN printed'[p] : printed'[p][i] = p
      BY <1>3, <3>1, <3>4, PrintedIsOwn DEF Own, HandsOver
    <3>6. HandsOver(p)'
      BY <1>1, <2>1, <3>5 DEF HandsOver, Ended, At
    <3> QED
      BY <2>1, <3>3, <3>6 DEF Own, Clears, At
  <2> QED
    BY <2>2, <2>3, <2>4 DEF Sound
<1>6. CASE /\ printed' = [printed EXCEPT ![p] = Append(@, c)]
           /\ Cleanup(p, FALSE) /\ status' = [status EXCEPT ![p] = "done"]
  <2>1. /\ stage'[p] = "cleanup" /\ Clearing(todo'[p]) /\ status'[p] = "done"
        /\ todo'[p] # <<>> /\ todo'[p][1][1] = "look"
        /\ \A t \in Temporaries : t # "exec" =>
             \E i \in DOMAIN todo'[p] : todo'[p][i] = <<"remove", t>>
        /\ Goes(p)
    <3> DEFINE done == "done"
    <3>1. FALSE \in BOOLEAN /\ done \in {"done", "failed"} /\ status' = [status EXCEPT ![p] = done]
      BY <1>6
    <3> HIDE DEF Clearing, done
    <3>2. /\ stage'[p] = "cleanup" /\ Clearing(todo'[p]) /\ status'[p] = done
          /\ todo'[p] # <<>> /\ todo'[p][1][1] = "look"
          /\ \A t \in Temporaries : t # "exec" \/ FALSE =>
               \E i \in DOMAIN todo'[p] : todo'[p][i] = <<"remove", t>>
          /\ Goes(p)
      BY <1>6, <3>1, CleanupLeads
    <3> QED
      BY <3>2 DEF done
  <2>2. DriverTypeOK' /\ Aside(p)
    BY <1>1, <1>2, <1>3, <1>6, <2>1, StepKeepsTypes DEF MovesOwn
  <2>3. Shape(p)'
    BY <1>1, <2>1 DEF Shape, At, ToolStages, CatStages, MoveStages
  <2>4. ASSUME OnItsOwn(p)' PROVE Own(p)'
    <3>1. Own(p) /\ Running = {p}
      BY <1>1, <2>4 DEF OnItsOwn, Sound, Own, Relies
    <3>2. p \in Running' => Running' = {p}
      BY <2>1, <3>1, StaysAlone
    <3>3. Relies(p)'
      BY <2>1, <3>2 DEF Relies, At, ToolStages, CatStages, MoveStages
    <3>4. printed'[p] = Append(printed[p], p)
      BY <1>2, <1>6, <3>1 DEF Own, DriverTypeOK
    <3>5. printed'[p] # <<>> /\ \A i \in DOMAIN printed'[p] : printed'[p][i] = p
      BY <1>3, <3>1, <3>4, PrintedIsOwn DEF Own, HandsOver
    <3>6. p \notin Rejected \cup Unlinkable
      BY <1>1, <3>1 DEF Own, Relies
    <3>7. HandsOver(p)'
      BY <1>1, <2>1, <3>5, <3>6 DEF HandsOver, Ended, At
    <3>8. Clears(p)'
      BY <1>1, <2>1 DEF Clears, At
    <3> QED
      BY <3>3, <3>7, <3>8 DEF Own
  <2> QED
    BY <2>2, <2>3, <2>4 DEF Sound
<1> QED
  BY <1>4, <1>5, <1>6 DEF Cat

\* The results of an invocation are three files.
LEMMA OutputsDiffer ==
  ASSUME NEW p \in Programs, HasFile(p), NEW ext \in Extensions
  PROVE  \A e \in Extensions : Output(p, e) \in Outputs /\ (Output(p, e) = Output(p, ext) => e = ext)
BY DEF Output, Outputs

LEMMA MoveResultSound ==
  ASSUME DriverInv, DriverAssumption, NEW p \in Programs, NEW s, NEW temp, NEW ext,
         \/ s = "move_ll" /\ temp = "ll" /\ ext = "imm"
         \/ s = "move_s" /\ temp = "s" /\ ext = "asm"
         \/ s = "move_exec" /\ temp = "exec" /\ ext = "out",
         MoveResult(p, s, temp, ext), UNCHANGED together
  PROVE  DriverTypeOK' /\ Aside(p) /\ Sound(p)'
<1> USE DEF DriverInv
<1>1. /\ s \in MoveStages /\ stage[p] = s /\ p \in Running /\ Shape(p) /\ HasFile(p) /\ ~Printing(p)
      /\ temp \in Temporaries /\ ext \in Extensions /\ UNCHANGED <<read, printed>>
  BY DEF MoveResult, Sound, Shape, Running, MoveStages, At, Temporaries, Extensions
<1>2. files[temp] \in Content /\ NoFile \in Content /\ (Relies(p) => files[temp] = p)
  BY <1>1 DEF DriverTypeOK, Relies, MoveStages, Content
<1>3. CASE files[temp] = NoFile /\ End(p, "exception") /\ UNCHANGED <<files, results>>
  <2>1. stage'[p] = "ended" /\ todo'[p] = <<>> /\ status'[p] = "exception" /\ Goes(p)
    <3>1. "exception" \in Statuses \ {"none"}
      BY DEF Statuses
    <3> QED
      BY <1>3, <3>1, EndLeads
  <2>2. DriverTypeOK' /\ Aside(p)
    BY <1>1, <1>3, <2>1, StepKeepsTypes DEF MovesOwn, DriverTypeOK
  <2>3. Shape(p)'
    BY <2>1 DEF Shape, At, ToolStages, CatStages, MoveStages, Running
  <2>4. ~OnItsOwn(p)'
    BY <1>2, <1>3 DEF OnItsOwn, Sound, Own, DriverAssumption
  <2> QED
    BY <2>2, <2>3, <2>4 DEF Sound
<1> DEFINE moved == /\ files' = [files EXCEPT ![temp] = NoFile]
                    /\ results' = [results EXCEPT ![Output(p, ext)] = files[temp]]
<1>4. ASSUME moved
      PROVE  /\ files' \in [Temporaries -> Content]
             /\ \A e \in Extensions :
                  results'[Output(p, e)] = IF e = ext THEN files[temp] ELSE results[Output(p, e)]
  <2>1. files' \in [Temporaries -> Content]
    BY <1>2, <1>4 DEF DriverTypeOK
  <2>2. results' = [results EXCEPT ![Output(p, ext)] = files[temp]] /\ results \in [Outputs -> Content]
    BY <1>4 DEF DriverTypeOK
  <2>3. \A e \in Extensions : Output(p, e) \in Outputs /\ (Output(p, e) = Output(p, ext) => e = ext)
    BY <1>1, OutputsDiffer
  <2> HIDE DEF moved
  <2> QED
    BY <1>1, <2>1, <2>2, <2>3
<1>5. ASSUME moved, Goes(p) PROVE DriverTypeOK' /\ Aside(p)
  <2>1. \E e \in Extensions, c \in Content : results' = [results EXCEPT ![Output(p, e)] = c]
    BY <1>1, <1>2, <1>5
  <2>2. files' \in [Temporaries -> Content]
    BY <1>4, <1>5
  <2> QED
    BY <1>1, <1>5, <2>1, <2>2, StepKeepsTypes DEF MovesOwn
<1> DEFINE next == IF s = "move_ll" THEN "move_s" ELSE "move_exec"
<1>6. /\ next \in {"move_s", "move_exec"}
      /\ s # "move_exec" => \/ s = "move_ll" /\ next = "move_s"
                            \/ s = "move_s" /\ next = "move_exec"
  OBVIOUS
<1> HIDE DEF next
<1>7. ASSUME moved, s # "move_exec", GoTo(p, next, <<>>), UNCHANGED status
      PROVE  DriverTypeOK' /\ Aside(p) /\ Sound(p)'
  <2>1. stage'[p] = next /\ todo'[p] = <<>> /\ Goes(p)
    <3>1. next \in Stages /\ next # "ended" /\ <<>> \in StepsOf(next)
      BY <1>6, <1>7, ToolIsThreeSteps DEF Stages, StepsOf
    <3>2. status' \in [Programs -> Statuses] /\ \A q \in Programs \ {p} : status'[q] = status[q]
      BY <1>6, <1>7 DEF DriverTypeOK, Statuses
    <3> QED
      BY <1>6, <1>7, <3>1, <3>2, GoToLeads
  <2>2. DriverTypeOK' /\ Aside(p)
    BY <1>5, <1>6, <1>7, <2>1
  <2>3. Shape(p)'
    BY <1>1, <1>6, <1>7, <2>1 DEF Shape, At, ToolStages, CatStages, MoveStages
  <2>4. ASSUME OnItsOwn(p)' PROVE Own(p)'
    <3>1. Own(p) /\ Running = {p}
      BY <1>1, <2>4, <1>6, <1>7 DEF OnItsOwn, Sound, Own, Relies
    <3>2. p \in Running' => Running' = {p}
      BY <2>1, <3>1, StaysAlone
    <3>3. /\ next = "move_s" => files'["s"] = p
          /\ files'["exec"] = p
      BY <1>1, <1>6, <1>7, <3>1 DEF Own, Relies, MoveStages, DriverTypeOK, Temporaries
    <3>4. Relies(p)'
      BY <1>1, <1>6, <1>7, <2>1, <3>1, <3>2, <3>3 DEF Relies, Own, At, ToolStages, CatStages, MoveStages
    <3>5. /\ OwnsOutputs(p) => results'[Output(p, "imm")] = p
          /\ OwnsOutputs(p) /\ next = "move_exec" => results'[Output(p, "asm")] = p
      BY <1>1, <1>2, <1>4, <1>6, <1>7, <3>1 DEF Own, HandsOver, Extensions
    <3>6. HandsOver(p)'
      BY <1>1, <1>6, <1>7, <2>1, <3>1, <3>5 DEF HandsOver, Own, Ended, At
    <3> QED
      BY <1>6, <2>1, <3>4, <3>6 DEF Own, Clears, At
  <2> QED
    BY <2>2, <2>3, <2>4 DEF Sound
<1>8. ASSUME moved, s = "move_exec", Cleanup(p, TRUE), status' = [status EXCEPT ![p] = "done"]
      PROVE  DriverTypeOK' /\ Aside(p) /\ Sound(p)'
  <2>1. /\ stage'[p] = "cleanup" /\ Clearing(todo'[p]) /\ status'[p] = "done"
        /\ todo'[p] # <<>> /\ todo'[p][1][1] = "look"
        /\ \A t \in Temporaries : \E i \in DOMAIN todo'[p] : todo'[p][i] = <<"remove", t>>
        /\ Goes(p)
    <3> DEFINE done == "done"
    <3>1. TRUE \in BOOLEAN /\ done \in {"done", "failed"} /\ status' = [status EXCEPT ![p] = done]
      BY <1>8
    <3> HIDE DEF Clearing, done
    <3>2. /\ stage'[p] = "cleanup" /\ Clearing(todo'[p]) /\ status'[p] = done
          /\ todo'[p] # <<>> /\ todo'[p][1][1] = "look"
          /\ \A t \in Temporaries : t # "exec" \/ TRUE =>
               \E i \in DOMAIN todo'[p] : todo'[p][i] = <<"remove", t>>
          /\ Goes(p)
      BY <1>8, <3>1, CleanupLeads
    <3> QED
      BY <3>2 DEF done
  <2>2. DriverTypeOK' /\ Aside(p)
    BY <1>5, <1>8, <2>1
  <2>3. Shape(p)'
    BY <1>1, <2>1 DEF Shape, At, ToolStages, CatStages, MoveStages
  <2>4. ASSUME OnItsOwn(p)' PROVE Own(p)'
    <3>1. Own(p) /\ Running = {p}
      BY <1>1, <2>4, <1>8 DEF OnItsOwn, Sound, Own, Relies
    <3>2. p \in Running' => Running' = {p}
      BY <2>1, <3>1, StaysAlone
    <3>3. Relies(p)'
      BY <2>1, <3>2 DEF Relies, At, ToolStages, CatStages, MoveStages
    <3>4. OwnsOutputs(p) => \A e \in Extensions : results'[Output(p, e)] = p
      BY <1>1, <1>2, <1>4, <1>8, <3>1 DEF Own, HandsOver, Extensions
    <3>5. p \notin Rejected \cup Unlinkable
      BY <1>1, <3>1 DEF Own, Relies
    <3>6. HandsOver(p)'
      BY <1>1, <2>1, <3>1, <3>4, <3>5 DEF HandsOver, Own, Ended, At
    <3>7. Clears(p)'
      BY <2>1 DEF Clears, At
    <3> QED
      BY <3>3, <3>6, <3>7 DEF Own
  <2> QED
    BY <2>2, <2>3, <2>4 DEF Sound
<1>9. CASE ~(files[temp] = NoFile)
  <2>1. moved
    BY <1>9 DEF MoveResult
  <2>2. \/ s = "move_ll" /\ GoTo(p, "move_s", <<>>) /\ UNCHANGED status
        \/ s = "move_s" /\ GoTo(p, "move_exec", <<>>) /\ UNCHANGED status
        \/ s = "move_exec" /\ Cleanup(p, TRUE) /\ status' = [status EXCEPT ![p] = "done"]
    BY <1>9 DEF MoveResult
  <2> HIDE DEF moved
  <2> QED
    <3>1. CASE s # "move_exec" /\ GoTo(p, next, <<>>) /\ UNCHANGED status
      BY <1>7, <2>1, <3>1
    <3>2. CASE s = "move_exec"
      BY <1>8, <2>1, <2>2, <3>2
    <3> QED
      BY <2>2, <3>1, <3>2 DEF next
<1>10. CASE files[temp] = NoFile
  BY <1>3, <1>10 DEF MoveResult
<1> QED
  BY <1>9, <1>10

LEMMA MoveSound ==
  ASSUME DriverInv, DriverAssumption, NEW p \in Programs, Move(p), UNCHANGED together
  PROVE  DriverTypeOK' /\ Aside(p) /\ Sound(p)'
<1>1. CASE MoveResult(p, "move_ll", "ll", "imm")
  BY <1>1, MoveResultSound
<1>2. CASE MoveResult(p, "move_s", "s", "asm")
  BY <1>2, MoveResultSound
<1>3. CASE MoveResult(p, "move_exec", "exec", "out")
  BY <1>3, MoveResultSound
<1> QED
  BY <1>1, <1>2, <1>3 DEF Move

\* What is left of cleanup() after its first step.
LEMMA TailOfCleanup ==
  ASSUME NEW steps \in Seq(CleanupSteps), steps # <<>>, Clearing(steps)
  PROVE  /\ Head(steps) = steps[1] /\ 1 \in DOMAIN steps /\ steps[1] \in CleanupSteps
         /\ Tail(steps) \in Seq(CleanupSteps) /\ Clearing(Tail(steps))
         /\ \A i \in DOMAIN steps : i # 1 => i - 1 \in DOMAIN Tail(steps) /\ Tail(steps)[i - 1] = steps[i]
         /\ Tail(steps) # <<>> => 2 \in DOMAIN steps /\ Tail(steps)[1] = steps[2]
         /\ steps[1][1] = "look" => Tail(steps) # <<>> /\ Tail(steps)[1] = <<"remove", steps[1][2]>>
<1> DEFINE n == Len(steps)
           T == Tail(steps)
<1>1. n \in Nat /\ DOMAIN steps = 1 .. n /\ n > 0 /\ \A i \in 1 .. n : steps[i] \in CleanupSteps
  BY LenProperties, ElementOfSeq, EmptySeq
<1>2. /\ Head(steps) = steps[1] /\ T \in Seq(CleanupSteps) /\ Len(T) = n - 1
      /\ \A i \in 1 .. Len(T) : T[i] = steps[i + 1]
  BY HeadTailProperties
<1>3. DOMAIN T = 1 .. n - 1
  BY <1>1, <1>2, LenProperties
<1> HIDE DEF n, T
<1>4. Clearing(T)
  <2>1. ASSUME NEW i \in DOMAIN T, T[i][1] = "look"
        PROVE  i + 1 \in DOMAIN T /\ T[i + 1] = <<"remove", T[i][2]>>
    <3>1. i + 1 \in DOMAIN steps /\ T[i] = steps[i + 1]
      BY <1>1, <1>2, <1>3, <2>1
    <3>2. i + 1 + 1 \in DOMAIN steps /\ steps[i + 1 + 1] = <<"remove", T[i][2]>>
      BY <2>1, <3>1 DEF Clearing
    <3>3. i + 1 \in 1 .. n - 1 /\ T[i + 1] = steps[i + 1 + 1]
      BY <1>1, <1>2, <1>3, <3>2
    <3> QED
      BY <1>3, <3>2, <3>3
  <2>2. ASSUME NEW i \in DOMAIN T, T[i][1] = "remove", i # 1
        PROVE  i - 1 \in DOMAIN T /\ T[i - 1] = <<"look", T[i][2]>>
    <3>1. i + 1 \in DOMAIN steps /\ T[i] = steps[i + 1] /\ i \in 1 .. n - 1
      BY <1>1, <1>2, <1>3, <2>2
    <3>2. steps[(i + 1) - 1] = <<"look", T[i][2]>>
      <4>1. i + 1 # 1
        BY <3>1
      <4> QED
        BY <2>2, <3>1, <4>1 DEF Clearing
    <3>3. i - 1 \in 1 .. n - 1 /\ T[i - 1] = steps[(i - 1) + 1] /\ (i - 1) + 1 = (i + 1) - 1
      BY <1>1, <1>2, <1>3, <2>2, <3>1
    <3> QED
      BY <1>3, <3>2, <3>3
  <2> QED
    BY <2>1, <2>2 DEF Clearing
<1>5. \A i \in DOMAIN steps : i # 1 => i - 1 \in DOMAIN T /\ T[i - 1] = steps[i]
  BY <1>1, <1>2, <1>3
<1>6. ASSUME T # <<>> PROVE 2 \in DOMAIN steps /\ T[1] = steps[2]
  <2>1. Len(T) # 0
    BY <1>2, <1>6, EmptySeq
  <2> QED
    BY <1>1, <1>2, <2>1
<1>7. ASSUME steps[1][1] = "look" PROVE T # <<>> /\ T[1] = <<"remove", steps[1][2]>>
  <2>1. 1 \in DOMAIN steps
    BY <1>1
  <2>2. 1 + 1 \in DOMAIN steps /\ steps[1 + 1] = <<"remove", steps[1][2]>>
    BY <1>7, <2>1 DEF Clearing
  <2>3. 1 \in DOMAIN T /\ T[1] = steps[2]
    BY <1>1, <1>2, <1>3, <2>2
  <2>4. T # <<>>
    BY <1>1, <1>2, <1>3, <2>3, EmptySeq
  <2> QED
    BY <2>2, <2>3, <2>4
<1> QED
  BY <1>1, <1>2, <1>4, <1>5, <1>6, <1>7 DEF T

\* Control of cleanup(), whatever it removes.
LEMMA CleanupGoesOn ==
  ASSUME DriverInv, NEW p \in Programs, At(p, "cleanup"), UNCHANGED <<together, results, read, printed, status>>,
         NEW steps \in Seq(CleanupSteps), Clearing(steps), GoTo(p, "cleanup", steps),
         files' \in [Temporaries -> Content]
  PROVE  /\ stage'[p] = "cleanup" /\ todo'[p] = steps
         /\ DriverTypeOK' /\ Aside(p) /\ Shape(p)'
         /\ OnItsOwn(p)' => Relies(p)' /\ HandsOver(p)'
<1> USE DEF DriverInv
<1>1. p \in Running /\ Shape(p) /\ (Printing(p) <=> ~HasFile(p)) /\ status[p] \in {"done", "failed"}
  BY DEF Sound, Shape, Running, At
<1>2. stage'[p] = "cleanup" /\ todo'[p] = steps /\ Goes(p)
  <2>1. "cleanup" \in Stages /\ "cleanup" # "ended" /\ steps \in StepsOf("cleanup")
    BY DEF Stages, StepsOf
  <2>2. status' \in [Programs -> Statuses] /\ \A q \in Programs \ {p} : status'[q] = status[q]
    BY DEF DriverTypeOK, Statuses
  <2> QED
    BY <2>1, <2>2, GoToLeads
<1>3. DriverTypeOK' /\ Aside(p)
  BY <1>1, <1>2, StepKeepsTypes DEF MovesOwn
<1>4. Shape(p)'
  <2> HIDE DEF Clearing
  <2> QED
    BY <1>1, <1>2 DEF Shape, At, ToolStages, CatStages, MoveStages
<1>5. ASSUME OnItsOwn(p)' PROVE Relies(p)' /\ HandsOver(p)'
  <2>1. Own(p) /\ Running = {p}
    BY <1>1, <1>5 DEF OnItsOwn, Sound, Own, Relies
  <2>2. p \in Running' => Running' = {p}
    BY <1>2, <2>1, StaysAlone
  <2>3. Relies(p)'
    BY <1>2, <2>2 DEF Relies, At, ToolStages, CatStages, MoveStages
  <2>4. HandsOver(p)'
    BY <1>2, <2>1 DEF HandsOver, Own, Ended, At
  <2> QED
    BY <2>3, <2>4
<1> QED
  BY <1>2, <1>3, <1>4, <1>5

LEMMA CleanupStepSound ==
  ASSUME DriverInv, DriverAssumption, NEW p \in Programs, CleanupStep(p), UNCHANGED together
  PROVE  DriverTypeOK' /\ Aside(p) /\ Sound(p)'
<1> USE DEF DriverInv
<1>1. /\ At(p, "cleanup") /\ p \in Running /\ Shape(p) /\ Clearing(todo[p])
      /\ status[p] \in {"done", "failed"} /\ todo[p] \in Seq(CleanupSteps)
      /\ UNCHANGED <<results, read, printed>>
  BY DEF CleanupStep, Sound, Shape, Running, At, DriverTypeOK, CleanupSteps
<1>2. CASE todo[p] = <<>>
  <2>1. End(p, status[p]) /\ UNCHANGED files /\ status[p] \in Statuses \ {"none"} /\ status[p] # "exception"
    BY <1>1, <1>2 DEF CleanupStep, Statuses
  <2>2. together \subseteq together' /\ together' \subseteq Programs /\ MayEnd(p, status[p])
    BY <1>1, <2>1 DEF DriverTypeOK, MayEnd
  <2> QED
    BY <1>1, <2>1, <2>2, EndSound
<1>3. CASE todo[p] # <<>>
  <2> DEFINE name == todo[p][1][2]
             T == Tail(todo[p])
  <2>1. /\ Head(todo[p]) = todo[p][1] /\ 1 \in DOMAIN todo[p] /\ todo[p][1] \in CleanupSteps
        /\ T \in Seq(CleanupSteps) /\ Clearing(T)
        /\ \A i \in DOMAIN todo[p] : i # 1 => i - 1 \in DOMAIN T /\ T[i - 1] = todo[p][i]
        /\ T # <<>> => 2 \in DOMAIN todo[p] /\ T[1] = todo[p][2]
        /\ todo[p][1][1] = "look" => T # <<>> /\ T[1] = <<"remove", todo[p][1][2]>>
    BY <1>1, <1>3, TailOfCleanup
  <2>2. name \in Temporaries /\ todo[p][1] = <<todo[p][1][1], name>> /\ todo[p][1][1] \in {"look", "remove"}
    BY <2>1 DEF CleanupSteps
  <2>3. files \in [Temporaries -> Content] /\ NoFile \in Content
    BY DEF DriverTypeOK, Content
  <2>4. ASSUME OnItsOwn(p), NEW t \in Temporaries, files[t] # NoFile, ~(t = "exec" /\ Printing(p))
        PROVE  \E i \in DOMAIN todo[p] : todo[p][i] = <<"remove", t>>
    BY <1>1, <2>4 DEF Sound, Own, Clears
  <2> HIDE DEF Clearing, name, T
  <2>5. CASE todo[p][1][1] = "look" /\ files[name] # NoFile
    <3>1. GoTo(p, "cleanup", T) /\ UNCHANGED <<files, status>>
      BY <1>3, <2>1, <2>5 DEF CleanupStep, name, T
    <3>2. /\ stage'[p] = "cleanup" /\ todo'[p] = T
          /\ DriverTypeOK' /\ Aside(p) /\ Shape(p)'
          /\ OnItsOwn(p)' => Relies(p)' /\ HandsOver(p)'
      BY <1>1, <2>1, <2>3, <3>1, CleanupGoesOn
    <3>3. ASSUME OnItsOwn(p)' PROVE Clears(p)'
      <4>1. ASSUME NEW t \in Temporaries, files[t] # NoFile, ~(t = "exec" /\ Printing(p))
            PROVE  \E i \in DOMAIN T : T[i] = <<"remove", t>>
        <5>1. PICK i \in DOMAIN todo[p] : todo[p][i] = <<"remove", t>>
          BY <2>4, <3>3, <4>1 DEF OnItsOwn
        <5>2. i # 1
          BY <2>5, <5>1
        <5> QED
          BY <2>1, <5>1, <5>2
      <4>2. T # <<>> /\ T[1][2] = name
        BY <2>1, <2>5 DEF name
      <4> QED
        BY <2>5, <3>1, <3>2, <4>1, <4>2 DEF Clears
    <3> QED
      BY <3>2, <3>3 DEF Sound, Own
  <2>6. CASE todo[p][1][1] = "look" /\ files[name] = NoFile
    <3> DEFINE U == Tail(T)
    <3>1. GoTo(p, "cleanup", U) /\ UNCHANGED <<files, status>>
      BY <1>3, <2>1, <2>6 DEF CleanupStep, name, T
    <3>2. T # <<>> /\ T[1] = <<"remove", name>>
      BY <2>1, <2>6 DEF name
    <3>3. /\ U \in Seq(CleanupSteps) /\ Clearing(U)
          /\ \A i \in DOMAIN T : i # 1 => i - 1 \in DOMAIN U /\ U[i - 1] = T[i]
          /\ U # <<>> => 2 \in DOMAIN T /\ U[1] = T[2]
      BY <2>1, <3>2, TailOfCleanup
    <3> HIDE DEF U
    <3>4. /\ stage'[p] = "cleanup" /\ todo'[p] = U
          /\ DriverTypeOK' /\ Aside(p) /\ Shape(p)'
          /\ OnItsOwn(p)' => Relies(p)' /\ HandsOver(p)'
      BY <1>1, <2>3, <3>1, <3>3, CleanupGoesOn
    <3>5. ASSUME OnItsOwn(p)' PROVE Clears(p)'
      <4>1. ASSUME NEW t \in Temporaries, files[t] # NoFile, ~(t = "exec" /\ Printing(p))
            PROVE  \E i \in DOMAIN U : U[i] = <<"remove", t>>
        <5>1. PICK i \in DOMAIN todo[p] : todo[p][i] = <<"remove", t>>
          BY <2>4, <3>5, <4>1 DEF OnItsOwn
        <5>2. i - 1 \in DOMAIN T /\ T[i - 1] = <<"remove", t>>
          BY <2>1, <2>6, <5>1
        <5>3. i - 1 # 1
          BY <2>6, <3>2, <4>1, <5>2
        <5> QED
          BY <3>3, <5>2, <5>3
      <4>2. ASSUME U # <<>>, U[1][1] = "remove" PROVE FALSE
        <5>1. 2 \in DOMAIN T /\ T[2][1] = "remove" /\ 2 # 1
          BY <3>3, <4>2
        <5>2. T[2 - 1] = <<"look", T[2][2]>>
          BY <2>1, <5>1 DEF Clearing
        <5> QED
          BY <3>2, <5>2
      <4> QED
        BY <3>1, <3>4, <4>1, <4>2 DEF Clears
    <3> QED
      BY <3>4, <3>5 DEF Sound, Own
  <2>7. CASE todo[p][1][1] = "remove" /\ files[name] = NoFile
    <3>1. End(p, "exception") /\ UNCHANGED files
      BY <1>3, <2>1, <2>7 DEF CleanupStep, name
    <3>2. ~OnItsOwn(p)
      BY <1>1, <1>3, <2>7 DEF Sound, Own, Clears, name
    <3>3. /\ "exception" \in Statuses \ {"none"} /\ together \subseteq together'
          /\ together' \subseteq Programs /\ MayEnd(p, "exception")
      BY <3>2 DEF DriverTypeOK, Statuses, OnItsOwn, MayEnd
    <3> QED
      BY <1>1, <3>1, <3>3, EndSound
  <2>8. CASE todo[p][1][1] = "remove" /\ files[name] # NoFile
    <3>1. files' = [files EXCEPT ![name] = NoFile] /\ GoTo(p, "cleanup", T) /\ UNCHANGED status
      BY <1>3, <2>1, <2>8 DEF CleanupStep, name, T
    <3>2. files' \in [Temporaries -> Content]
      BY <2>2, <2>3, <3>1
    <3>3. /\ stage'[p] = "cleanup" /\ todo'[p] = T
          /\ DriverTypeOK' /\ Aside(p) /\ Shape(p)'
          /\ OnItsOwn(p)' => Relies(p)' /\ HandsOver(p)'
      BY <1>1, <2>1, <3>1, <3>2, CleanupGoesOn
    <3>4. ASSUME OnItsOwn(p)' PROVE Clears(p)'
      <4>1. ASSUME NEW t \in Temporaries, files'[t] # NoFile, ~(t = "exec" /\ Printing(p))
            PROVE  \E i \in DOMAIN T : T[i] = <<"remove", t>>
        <5>1. files[t] # NoFile /\ t # name
          BY <2>2, <2>3, <3>1, <4>1
        <5>2. PICK i \in DOMAIN todo[p] : todo[p][i] = <<"remove", t>>
          BY <2>4, <3>4, <4>1, <5>1 DEF OnItsOwn
        <5>3. i # 1
          BY <2>2, <5>1, <5>2
        <5> QED
          BY <2>1, <5>2, <5>3
      <4>2. ASSUME T # <<>>, T[1][1] = "remove" PROVE FALSE
        <5>1. 2 \in DOMAIN todo[p] /\ todo[p][2][1] = "remove" /\ 2 # 1
          BY <2>1, <4>2
        <5>2. todo[p][2 - 1] = <<"look", todo[p][2][2]>>
          BY <1>1, <5>1 DEF Clearing
        <5> QED
          BY <2>8, <5>2
      <4> QED
        BY <3>3, <4>1, <4>2 DEF Clears
    <3> QED
      BY <3>3, <3>4 DEF Sound, Own
  <2> QED
    BY <2>2, <2>5, <2>6, <2>7, <2>8
<1> QED
  BY <1>2, <1>3

LEMMA KillSound ==
  ASSUME DriverInv, NEW p \in Programs, Kill(p)
  PROVE  DriverTypeOK' /\ Aside(p) /\ Sound(p)'
<1> DEFINE ending == "killed"
<1>1. /\ ending \in Statuses \ {"none"} /\ MayEnd(p, ending) /\ End(p, ending)
      /\ together \subseteq together' /\ together' \subseteq Programs /\ p \in Running
      /\ UNCHANGED <<files, results, read, printed>>
  BY DEF Statuses, Kill, DriverInv, DriverTypeOK, MayEnd
<1> HIDE DEF ending
<1> QED
  BY <1>1, EndSound

LEMMA StartSound ==
  ASSUME DriverInv, DriverAssumption, NEW p \in Programs, Start(p)
  PROVE  DriverTypeOK' /\ Aside(p) /\ Sound(p)'
<1> USE DEF DriverInv
<1>1. /\ At(p, "start") /\ UNCHANGED <<files, results, read, printed>>
      /\ together \subseteq together' /\ together' \subseteq Programs
      /\ Running \subseteq together' /\ (OnItsOwn(p)' => Running = {})
  BY DEF Start, DriverTypeOK, Running, OnItsOwn
<1>2. CASE Printing(p) <=> HasFile(p)
  <2> DEFINE ending == "usage"
  <2>1. End(p, ending) /\ MayEnd(p, ending) /\ ending \in Statuses \ {"none"}
    BY <1>2 DEF Start, Statuses, MayEnd
  <2> HIDE DEF ending
  <2> QED
    BY <1>1, <2>1, EndSound
<1>3. CASE ~(Printing(p) <=> HasFile(p))
  <2>1. /\ stage'[p] \in {"tonyc", "stdin"} /\ Goes(p)
        /\ stage'[p] = "tonyc" => todo'[p] = Tool /\ HasFile(p)
        /\ stage'[p] = "stdin" => todo'[p] = <<"truncate", "write">> /\ ~HasFile(p)
    <3>1. \/ HasFile(p) /\ GoTo(p, "tonyc", Tool)
          \/ ~HasFile(p) /\ GoTo(p, "stdin", <<"truncate", "write">>)
      BY <1>3 DEF Start
    <3>2. {"stdin", "tonyc"} \subseteq Stages /\ Tool \in StepsOf("tonyc")
          /\ <<"truncate", "write">> \in StepsOf("stdin")
      BY ToolIsThreeSteps DEF Stages, StepsOf
    <3>3. status' \in [Programs -> Statuses] /\ \A q \in Programs \ {p} : status'[q] = status[q]
      BY <1>3 DEF Start, DriverTypeOK, Statuses
    <3> QED
      BY <3>1, <3>2, <3>3, GoToLeads
  <2>2. DriverTypeOK' /\ Aside(p)
    BY <1>1, <2>1 DEF DriverTypeOK, Aside, Goes, Statuses
  <2>3. Shape(p)'
    BY <1>3, <2>1 DEF Shape, At, ToolStages, CatStages, MoveStages
  <2>4. ASSUME OnItsOwn(p)' PROVE Own(p)'
    <3>1. Own(p) /\ Running = {}
      BY <1>1, <2>4 DEF OnItsOwn, Sound
    <3>2. p \in Running' => Running' = {p}
      BY <2>1, <3>1 DEF Goes, Running
    <3>3. Relies(p)'
      BY <2>1, <3>2 DEF Relies, At, ToolStages, CatStages, MoveStages
    <3>4. HandsOver(p)'
      BY <1>1, <2>1, <3>1 DEF HandsOver, Own, Ended, At
    <3> QED
      BY <2>1, <3>3, <3>4 DEF Own, Clears, At
  <2> QED
    BY <2>2, <2>3, <2>4 DEF Sound
<1> QED
  BY <1>2, <1>3

-----------------------------------------------------------------------------
(* The theorems.                                                             *)

LEMMA DriverInit ==
  ASSUME DriverAssumption, Init
  PROVE  DriverInv
<1>1. DriverTypeOK
  BY ToolIsThreeSteps DEF Init, DriverTypeOK, Content, Stages, At, ToolSteps
<1>2. ASSUME NEW p \in Programs PROVE Sound(p)
  <2>1. stage[p] = "start" /\ todo[p] = <<>> /\ printed[p] = <<>> /\ p \notin Running
    BY DEF Init, Running
  <2>2. Shape(p)
    BY <2>1 DEF Shape, At, ToolStages, CatStages, MoveStages
  <2>3. Relies(p)
    BY <2>1 DEF Relies, At, ToolStages, CatStages, MoveStages
  <2>4. DOMAIN printed[p] = {}
    BY <2>1
  <2>5. HandsOver(p)
    BY <2>1, <2>4 DEF HandsOver, Ended, At
  <2> QED
    BY <2>1, <2>2, <2>3, <2>5 DEF Sound, Own, Clears, At
<1> QED
  BY <1>1, <1>2 DEF DriverInv

LEMMA DriverStep ==
  ASSUME DriverInv, DriverAssumption, [Next]_vars
  PROVE  DriverInv'
<1>1. CASE UNCHANGED vars
  <2>1. UNCHANGED <<files, results, stage, todo, read, printed, status, together>>
    BY <1>1 DEF vars
  <2>2. DriverTypeOK'
    BY <2>1 DEF DriverInv, DriverTypeOK, At
  <2>3. ASSUME NEW p \in Programs PROVE Sound(p)'
    <3>1. Shape(p) /\ (OnItsOwn(p) => Own(p)) /\ Running' = Running
      BY <2>1 DEF DriverInv, Sound, Running
    <3>2. Shape(p)'
      BY <2>1, <3>1 DEF Shape, At, Clearing
    <3>3. Relies(p) => Relies(p)'
      BY <2>1, <3>1 DEF Relies, At
    <3>4. HandsOver(p) => HandsOver(p)'
      BY <2>1 DEF HandsOver, Ended, At
    <3>5. Clears(p) => Clears(p)'
      BY <2>1 DEF Clears, At
    <3> QED
      BY <2>1, <3>1, <3>2, <3>3, <3>4, <3>5 DEF Sound, Own, OnItsOwn
  <2> QED
    BY <2>2, <2>3 DEF DriverInv
<1>2. ASSUME NEW p \in Programs, Start(p) \/ Step(p) \/ Kill(p)
      PROVE  DriverTypeOK' /\ Aside(p) /\ Sound(p)'
  <2>1. CASE Start(p)
    BY <2>1, StartSound
  <2>2. CASE Kill(p)
    BY <2>2, KillSound
  <2>3. CASE Step(p)
    <3>1. UNCHANGED together
      BY <2>3 DEF Step
    <3> QED
      BY <2>3, <3>1, WriteStdinSound, ReadInputSound, TruncateSound, WriteOutputSound, CatSound,
         MoveSound, CleanupStepSound DEF Step
  <2> QED
    BY <1>2, <2>1, <2>2, <2>3
<1>3. CASE Next
  <2>1. PICK p \in Programs : Start(p) \/ Step(p) \/ Kill(p)
    BY <1>3 DEF Next
  <2>2. DriverTypeOK' /\ Aside(p) /\ Sound(p)'
    BY <1>2, <2>1
  <2>3. \A q \in Programs \ {p} : Sound(q)'
    BY <2>2, OthersStaySound
  <2> QED
    BY <2>2, <2>3 DEF DriverInv
<1> QED
  BY <1>1, <1>3

\* Whatever is left of every invocation fits its stage, and one on its own
\* relies only on files made from its own program, in any number of them.
THEOREM DriverInvariance == Spec => []DriverInv
<1> USE DriverAssumption
<1>1. Init => DriverInv
  BY DriverInit
<1>2. DriverInv /\ [Next]_vars => DriverInv'
  BY DriverStep
<1> QED
  BY <1>1, <1>2, PTL DEF Spec

\* Types of the state of tony.py, for any programs and options.
THEOREM DriverTypes == Spec => []DriverTypeOK
<1>1. DriverInv => DriverTypeOK
  BY DEF DriverInv
<1> QED
  BY <1>1, DriverInvariance, PTL

\* What an invocation of tony.py on its own hands over was made from its own
\* program, whatever earlier ones left in the directory.
THEOREM HandsOverOwnResults == Spec => []OwnResults
<1>1. DriverInv => OwnResults
  <2> SUFFICES ASSUME DriverInv, NEW p \in Programs, OnItsOwn(p), Ended(p, "done")
               PROVE  IF HasFile(p) THEN OwnsOutputs(p) => \A ext \in Extensions : results[Output(p, ext)] = p
                      ELSE printed[p] # <<>> /\ \A i \in DOMAIN printed[p] : printed[p][i] = p
    BY DEF OwnResults
  <2>1. HandsOver(p)
    BY DEF DriverInv, Sound, Own
  <2> QED
    BY <2>1 DEF HandsOver, Ended, At
<1> QED
  BY <1>1, DriverInvariance, PTL

\* The exit status of tony.py tells whether the program compiles and links.
THEOREM StatusTellsTheTruth == Spec => []StatusTells
<1>1. DriverInv => StatusTells
  <2> SUFFICES ASSUME DriverInv, NEW p \in Programs, OnItsOwn(p)
               PROVE  /\ Ended(p, "done") => p \notin Rejected \cup Unlinkable
                      /\ Ended(p, "failed") => p \in Rejected \cup Unlinkable
                      /\ ~Ended(p, "exception")
    BY DEF StatusTells
  <2>1. HandsOver(p)
    BY DEF DriverInv, Sound, Own
  <2> QED
    BY <2>1 DEF HandsOver, Ended, At
<1> QED
  BY <1>1, DriverInvariance, PTL

\* cleanup() of tony.py leaves nothing behind but the executable of an
\* invocation that printed.
THEOREM CleanupLeavesClean == Spec => LeavesClean
<1> DEFINE Leaves == \A p \in Programs :
             OnItsOwn(p) /\ stage[p] = "cleanup" /\ stage'[p] = "ended" /\ status'[p] # "killed" =>
               \A t \in Temporaries : files'[t] # NoFile => t = "exec" /\ Printing(p)
<1>1. DriverInv /\ [Next]_vars => Leaves
  <2> SUFFICES ASSUME DriverInv, [Next]_vars, NEW p \in Programs, OnItsOwn(p),
                      stage[p] = "cleanup", stage'[p] = "ended", status'[p] # "killed",
                      NEW t \in Temporaries, files'[t] # NoFile
               PROVE  t = "exec" /\ Printing(p)
    OBVIOUS
  <2>1. Own(p) /\ Running = {p} /\ stage'[p] # stage[p]
    BY DEF DriverInv, Sound, Own, Relies, Running
  <2>2. PICK q \in Programs : Start(q) \/ Step(q) \/ Kill(q)
    BY <2>1 DEF Next, vars
  <2>3. Aside(q)
    BY <2>2, DriverAssumption, StartSound, KillSound, WriteStdinSound, ReadInputSound, TruncateSound,
       WriteOutputSound, CatSound, MoveSound, CleanupStepSound DEF Step
  <2>4. q = p
    BY <2>1, <2>3 DEF Aside
  <2>5. ~Kill(p)
    BY DEF Kill, End, DriverInv, DriverTypeOK
  <2>6. CleanupStep(p) /\ UNCHANGED together
    BY <2>2, <2>4, <2>5 DEF Start, Step, WriteStdin, ReadInput, Truncate, WriteOutput, Cat, Move,
                            MoveResult, At
  <2>7. todo[p] = <<>>
    <3>1. ASSUME NEW steps, GoTo(p, "cleanup", steps) PROVE FALSE
      BY <3>1 DEF GoTo, DriverInv, DriverTypeOK
    <3>2. ASSUME End(p, "exception") PROVE FALSE
      <4>1. status'[p] = "exception" /\ DriverInv'
        BY <3>2, DriverStep, DriverAssumption DEF End, DriverInv, DriverTypeOK
      <4>2. OnItsOwn(p)'
        BY <2>6 DEF OnItsOwn
      <4> QED
        BY <4>1, <4>2 DEF DriverInv, Sound, Own, HandsOver, Ended, At
    <3> QED
      BY <2>6, <3>1, <3>2 DEF CleanupStep
  <2>8. UNCHANGED files
    BY <2>6, <2>7 DEF CleanupStep
  <2> QED
    BY <2>1, <2>7, <2>8 DEF Own, Clears, At
<1> QED
  BY <1>1, DriverInvariance, PTL DEF Spec, LeavesClean

-----------------------------------------------------------------------------
(* Success is whole: of all invocations, also of those that overlap.         *)

\* What p has handed over where it is, and all of it once it is done.
Whole(p) ==
  /\ status[p] = "done" => stage[p] \in {"cleanup", "ended"}
  /\ HasFile(p) => \A ext \in Extensions :
       \/ At(p, "move_s") /\ ext = "imm"
       \/ At(p, "move_exec") /\ ext \in {"imm", "asm"}
       \/ status[p] = "done"
       => results[Output(p, ext)] # NoFile
  /\ ~HasFile(p) =>
       /\ stage[p] \in {"start", "stdin", "cat_ll"} \cup ToolStages => printed[p] = <<>>
       /\ At(p, "cat_ll") => "i" \in Options[p]
       /\ At(p, "cat_s") => "f" \in Options[p] /\ Len(printed[p]) = IF "i" \in Options[p] THEN 1 ELSE 0
       /\ status[p] = "done" => Len(printed[p]) = Cardinality(Options[p] \cap {"f", "i"})

\* A file that was handed over is never taken away.
Kept == \A o \in Outputs : results[o] # NoFile => results'[o] # NoFile

LEMMA OthersStayWhole ==
  ASSUME NEW p \in Programs, Aside(p), Kept, NEW q \in Programs \ {p}, Whole(q)
  PROVE  Whole(q)'
<1>1. /\ stage'[q] = stage[q] /\ printed'[q] = printed[q] /\ status'[q] = status[q]
  BY DEF Aside
<1>2. HasFile(q) => \A ext \in Extensions : Output(q, ext) \in Outputs
  BY DEF Outputs
<1> QED
  BY <1>1, <1>2 DEF Whole, At, Kept

\* A step that hands over nothing, and does not succeed by it.
Quiet(p) ==
  /\ UNCHANGED <<results, printed>>
  /\ status'[p] = "done" => status[p] = "done" /\ stage'[p] \in {"cleanup", "ended"}
  /\ stage'[p] \notin {"move_s", "move_exec"}
  /\ stage'[p] \in {"start", "stdin", "cat_ll"} \cup ToolStages => stage[p] \in {"start", "stdin"} \cup ToolStages
  /\ At(p, "cat_ll")' => "i" \in Options[p]
  /\ At(p, "cat_s")' => "f" \in Options[p] /\ "i" \notin Options[p] /\ stage[p] \in ToolStages

LEMMA QuietStaysWhole ==
  ASSUME NEW p \in Programs, Whole(p), Quiet(p)
  PROVE  Whole(p)' /\ Kept
<1>1. Kept
  BY DEF Quiet, Kept
<1>2. stage[p] \in ToolStages => stage[p] \in {"start", "stdin", "cat_ll"} \cup ToolStages
  OBVIOUS
<1>3. printed[p] = <<>> => Len(printed[p]) = 0
  OBVIOUS
<1> QED
  BY <1>1, <1>2, <1>3 DEF Whole, Quiet, At

LEMMA ToolsAreQuiet ==
  ASSUME DriverInv, NEW p \in Programs, Whole(p), ReadInput(p) \/ Truncate(p) \/ WriteOutput(p)
  PROVE  Quiet(p)
<1>1. /\ stage[p] \in ToolStages /\ UNCHANGED <<results, printed>> /\ stage \in [Programs -> Stages]
      /\ status \in [Programs -> Statuses]
  BY DEF ReadInput, Truncate, WriteOutput, ToolStages, DriverInv, DriverTypeOK, Statuses
<1>2. status[p] # "done"
  BY <1>1 DEF Whole, ToolStages
<1>3. \/ Fail(p)
      \/ GoTo(p, stage[p], Tail(todo[p])) /\ UNCHANGED status
      \/ GoTo(p, AfterStage(p)[1], AfterStage(p)[2]) /\ UNCHANGED status
  BY DEF ReadInput, Truncate, WriteOutput
<1>4. CASE Fail(p)
  BY <1>1, <1>4 DEF Fail, Cleanup, GoTo, Quiet, At, ToolStages
<1>5. CASE GoTo(p, stage[p], Tail(todo[p])) /\ UNCHANGED status
  BY <1>1, <1>2, <1>5 DEF GoTo, Quiet, At, ToolStages
<1>6. CASE GoTo(p, AfterStage(p)[1], AfterStage(p)[2]) /\ UNCHANGED status
  <2>1. \/ AfterStage(p)[1] \in {"llc", "clang"}
        \/ AfterStage(p)[1] = AfterTools(p)
    BY <1>1 DEF AfterStage, At, ToolStages
  <2>2. \/ AfterTools(p) = "cat_ll" /\ "i" \in Options[p]
        \/ AfterTools(p) = "cat_s" /\ "i" \notin Options[p] /\ "f" \in Options[p]
        \/ AfterTools(p) = "move_ll"
    <3>1. CASE "i" \in Options[p]
      BY <3>1 DEF AfterTools
    <3>2. CASE "i" \notin Options[p] /\ "f" \in Options[p]
      BY <3>2 DEF AfterTools
    <3>3. CASE "i" \notin Options[p] /\ "f" \notin Options[p]
      BY <3>3 DEF AfterTools
    <3> QED
      BY <3>1, <3>2, <3>3
  <2>3. stage'[p] = AfterStage(p)[1]
    BY <1>1, <1>6 DEF GoTo
  <2> QED
    BY <1>1, <1>2, <1>6, <2>1, <2>2, <2>3 DEF Quiet, At, ToolStages
<1> QED
  BY <1>3, <1>4, <1>5, <1>6

\* The beginning, the end, and what is done for neither.
LEMMA OthersAreQuiet ==
  ASSUME DriverInv, NEW p \in Programs, Whole(p),
         Start(p) \/ WriteStdin(p) \/ CleanupStep(p) \/ Kill(p)
  PROVE  Quiet(p)
<1>1. /\ stage \in [Programs -> Stages] /\ status \in [Programs -> Statuses]
      /\ At(p, "cleanup") => status[p] \in {"done", "failed"}
  BY DEF DriverInv, DriverTypeOK, Statuses, Sound, Shape
<1>2. CASE Start(p)
  <2>1. /\ At(p, "start") /\ status[p] # "done" /\ UNCHANGED <<results, printed>>
    BY <1>2 DEF Start, Whole, At
  <2>2. \/ End(p, "usage")
        \/ GoTo(p, "tonyc", Tool) /\ UNCHANGED status
        \/ GoTo(p, "stdin", <<"truncate", "write">>) /\ UNCHANGED status
    BY <1>2 DEF Start
  <2> QED
    BY <1>1, <2>1, <2>2 DEF End, GoTo, Quiet, At, ToolStages
<1>3. CASE WriteStdin(p)
  <2>1. /\ At(p, "stdin") /\ status[p] # "done" /\ UNCHANGED <<results, printed>>
    BY <1>3 DEF WriteStdin, Whole, At
  <2>2. \/ End(p, "exception")
        \/ GoTo(p, "tonyc", Tool) /\ UNCHANGED status
        \/ GoTo(p, "stdin", Tail(todo[p])) /\ UNCHANGED status
    BY <1>3 DEF WriteStdin
  <2> QED
    BY <1>1, <2>1, <2>2 DEF End, GoTo, Quiet, At, ToolStages
<1>4. CASE CleanupStep(p)
  <2>1. /\ At(p, "cleanup") /\ UNCHANGED <<results, printed>>
    BY <1>4 DEF CleanupStep
  <2>2. \/ End(p, status[p]) \/ End(p, "exception")
        \/ \E steps : GoTo(p, "cleanup", steps) /\ UNCHANGED status
    BY <1>4 DEF CleanupStep
  <2>3. stage'[p] \in {"cleanup", "ended"} /\ status'[p] \in {status[p], "exception"}
    BY <1>1, <2>2 DEF End, GoTo
  <2> QED
    BY <2>1, <2>3 DEF Quiet, At, ToolStages
<1>5. CASE Kill(p)
  BY <1>1, <1>5 DEF Kill, End, Quiet, At, ToolStages
<1> QED
  BY <1>2, <1>3, <1>4, <1>5

\* What was asked for on stdout, counted.
LEMMA Asked ==
  ASSUME NEW p \in Programs
  PROVE  LET n == Cardinality(Options[p] \cap {"f", "i"}) IN
         /\ "i" \in Options[p] /\ "f" \in Options[p] => n = 2
         /\ "i" \in Options[p] /\ "f" \notin Options[p] => n = 1
         /\ "i" \notin Options[p] /\ "f" \in Options[p] => n = 1
<1> DEFINE S == Options[p] \cap {"f", "i"}
<1>1. CASE "i" \in Options[p] /\ "f" \in Options[p]
  <2>1. S = {"f"} \cup {"i"} /\ "i" \notin {"f"}
    BY <1>1
  <2>2. Cardinality({"f"} \cup {"i"}) = 1 + 1
    <3>1. IsFiniteSet({"f"}) /\ Cardinality({"f"}) = 1
      BY FS_Singleton
    <3>2. Cardinality({"f"} \cup {"i"}) = IF "i" \in {"f"} THEN Cardinality({"f"}) ELSE Cardinality({"f"}) + 1
      BY <3>1, FS_AddElement
    <3> QED
      BY <2>1, <3>1, <3>2
  <2> QED
    BY <1>1, <2>1, <2>2
<1>2. CASE "i" \in Options[p] /\ "f" \notin Options[p]
  <2>1. S = {"i"}
    BY <1>2
  <2> QED
    BY <1>2, <2>1, FS_Singleton
<1>3. CASE "i" \notin Options[p] /\ "f" \in Options[p]
  <2>1. S = {"f"}
    BY <1>3
  <2> QED
    BY <1>3, <2>1, FS_Singleton
<1> QED
  BY <1>1, <1>2, <1>3

LEMMA CatIsWhole ==
  ASSUME DriverInv, NEW p \in Programs, Whole(p), Cat(p)
  PROVE  Whole(p)' /\ Kept
<1>1. /\ stage \in [Programs -> Stages] /\ status \in [Programs -> Statuses]
      /\ printed \in [Programs -> Seq(Content)] /\ files \in [Temporaries -> Content]
      /\ stage[p] \in CatStages /\ ~HasFile(p) /\ status[p] # "done" /\ UNCHANGED results
  <2>1. Shape(p) /\ stage[p] \in CatStages
    BY DEF DriverInv, Sound, Cat, CatStages
  <2> QED
    BY <2>1 DEF DriverInv, DriverTypeOK, Statuses, Cat, CatStages, Shape, Running, Whole
<1>2. CASE Fail(p) /\ UNCHANGED printed
  BY <1>1, <1>2, QuietStaysWhole DEF Fail, Cleanup, GoTo, Quiet, At, ToolStages
<1> DEFINE c == files[IF At(p, "cat_ll") THEN "ll" ELSE "s"]
           both == At(p, "cat_ll") /\ "f" \in Options[p]
<1>3. CASE /\ printed' = [printed EXCEPT ![p] = Append(@, c)]
           /\ IF both THEN GoTo(p, "cat_s", <<>>) /\ UNCHANGED status
              ELSE Cleanup(p, FALSE) /\ status' = [status EXCEPT ![p] = "done"]
  <2>1. c \in Content
    BY <1>1 DEF Temporaries
  <2> HIDE DEF c
  <2>2. printed'[p] = Append(printed[p], c) /\ Len(printed'[p]) = Len(printed[p]) + 1
    BY <1>1, <1>3, <2>1, AppendProperties
  <2>3. At(p, "cat_ll") \/ At(p, "cat_s")
    BY <1>1 DEF CatStages, At
  <2>4. Len(printed'[p]) = IF At(p, "cat_s") /\ "i" \in Options[p] THEN 2 ELSE 1
    <3>1. CASE At(p, "cat_ll")
      <4>1. printed[p] = <<>> /\ ~At(p, "cat_s")
        BY <1>1, <3>1 DEF Whole, At
      <4> QED
        BY <2>2, <4>1
    <3>2. CASE At(p, "cat_s")
      <4>1. Len(printed[p]) = IF "i" \in Options[p] THEN 1 ELSE 0
        BY <1>1, <3>2 DEF Whole
      <4> QED
        BY <2>2, <3>2, <4>1
    <3> QED
      BY <2>3, <3>1, <3>2
  <2>5. /\ At(p, "cat_ll") => "i" \in Options[p]
        /\ At(p, "cat_s") => "f" \in Options[p]
    BY <1>1 DEF Whole
  <2>6. CASE both
    <3>1. stage'[p] = "cat_s" /\ status'[p] # "done"
      BY <1>1, <1>3, <2>6 DEF GoTo
    <3> QED
      BY <1>1, <2>4, <2>5, <2>6, <3>1 DEF Whole, At, ToolStages, Kept
  <2>7. CASE ~both
    <3>1. stage'[p] = "cleanup" /\ status'[p] = "done"
      BY <1>1, <1>3, <2>7 DEF Cleanup, GoTo
    <3>2. Len(printed'[p]) = Cardinality(Options[p] \cap {"f", "i"})
      BY <2>3, <2>4, <2>5, <2>7, Asked DEF At
    <3> QED
      BY <1>1, <3>1, <3>2 DEF Whole, At, ToolStages, Kept
  <2> QED
    BY <2>6, <2>7
<1> QED
  BY <1>2, <1>3 DEF Cat

LEMMA MoveIsWhole ==
  ASSUME DriverInv, NEW p \in Programs, Whole(p), NEW s, NEW temp, NEW ext,
         \/ s = "move_ll" /\ temp = "ll" /\ ext = "imm"
         \/ s = "move_s" /\ temp = "s" /\ ext = "asm"
         \/ s = "move_exec" /\ temp = "exec" /\ ext = "out",
         MoveResult(p, s, temp, ext)
  PROVE  Whole(p)' /\ Kept
<1>1. /\ stage \in [Programs -> Stages] /\ status \in [Programs -> Statuses]
      /\ results \in [Outputs -> Content] /\ stage[p] = s /\ HasFile(p) /\ ext \in Extensions
      /\ status[p] # "done" /\ UNCHANGED printed
  <2>1. Shape(p) /\ stage[p] = s /\ s \in MoveStages /\ UNCHANGED printed
    BY DEF DriverInv, Sound, MoveResult, At, MoveStages
  <2> QED
    BY <2>1 DEF DriverInv, DriverTypeOK, Statuses, Shape, Whole, MoveStages, Extensions
<1>2. CASE End(p, "exception") /\ UNCHANGED <<files, results>>
  BY <1>1, <1>2, QuietStaysWhole DEF End, Quiet, At, ToolStages
<1>3. CASE /\ files[temp] # NoFile
           /\ results' = [results EXCEPT ![Output(p, ext)] = files[temp]]
           /\ CASE s = "move_ll"   -> GoTo(p, "move_s", <<>>) /\ UNCHANGED status
                [] s = "move_s"    -> GoTo(p, "move_exec", <<>>) /\ UNCHANGED status
                [] s = "move_exec" -> Cleanup(p, TRUE) /\ status' = [status EXCEPT ![p] = "done"]
  <2>1. \A e \in Extensions : Output(p, e) \in Outputs /\ (Output(p, e) = Output(p, ext) => e = ext)
    BY <1>1, OutputsDiffer
  <2>2. results'[Output(p, ext)] # NoFile /\ Kept
    BY <1>1, <1>3, <2>1 DEF Kept
  <2>3. \/ s = "move_ll" /\ ext = "imm" /\ stage'[p] = "move_s" /\ status'[p] # "done"
        \/ s = "move_s" /\ ext = "asm" /\ stage'[p] = "move_exec" /\ status'[p] # "done"
        \/ s = "move_exec" /\ ext = "out" /\ stage'[p] = "cleanup" /\ status'[p] = "done"
    BY <1>1, <1>3 DEF GoTo, Cleanup
  <2>4. \A e \in Extensions : results[Output(p, e)] # NoFile => results'[Output(p, e)] # NoFile
    BY <2>1, <2>2 DEF Kept
  <2>5. /\ s = "move_s" => results[Output(p, "imm")] # NoFile
        /\ s = "move_exec" => results[Output(p, "imm")] # NoFile /\ results[Output(p, "asm")] # NoFile
    BY <1>1 DEF Whole, At, Extensions
  <2> HIDE DEF Output
  <2> QED
    BY <1>1, <2>2, <2>3, <2>4, <2>5 DEF Whole, At, Extensions
<1> QED
  BY <1>2, <1>3 DEF MoveResult

LEMMA StepsStayWhole ==
  ASSUME DriverInv, NEW p \in Programs, Whole(p), Start(p) \/ Step(p) \/ Kill(p)
  PROVE  Whole(p)' /\ Kept
<1>1. CASE Cat(p)
  BY <1>1, CatIsWhole
<1>2. CASE Move(p)
  BY <1>2, MoveIsWhole DEF Move
<1>3. CASE ReadInput(p) \/ Truncate(p) \/ WriteOutput(p)
  BY <1>3, ToolsAreQuiet, QuietStaysWhole
<1>4. CASE Start(p) \/ WriteStdin(p) \/ CleanupStep(p) \/ Kill(p)
  BY <1>4, OthersAreQuiet, QuietStaysWhole
<1> QED
  BY <1>1, <1>2, <1>3, <1>4 DEF Step

\* No invocation of tony.py reports success with a file or a listing missing,
\* whoever gets into its way.
THEOREM SuccessHandsOverAll == Spec => []SuccessIsWhole
<1> DEFINE WholeInv == \A p \in Programs : Whole(p)
<1>1. Init => WholeInv
  <2> SUFFICES ASSUME Init, NEW p \in Programs PROVE Whole(p)
    OBVIOUS
  <2>1. stage[p] = "start" /\ status[p] = "none" /\ printed[p] = <<>>
    BY DEF Init
  <2> QED
    BY <2>1 DEF Whole, At, ToolStages
<1>2. DriverInv /\ DriverAssumption /\ WholeInv /\ [Next]_vars => WholeInv'
  <2> SUFFICES ASSUME DriverInv, DriverAssumption, WholeInv, [Next]_vars, NEW q \in Programs
               PROVE  Whole(q)'
    OBVIOUS
  <2>1. CASE UNCHANGED vars
    BY <2>1 DEF vars, Whole, At
  <2>2. CASE Next
    <3>1. PICK p \in Programs : Start(p) \/ Step(p) \/ Kill(p)
      BY <2>2 DEF Next
    <3>2. Aside(p)
      BY <3>1, StartSound, KillSound, WriteStdinSound, ReadInputSound, TruncateSound,
         WriteOutputSound, CatSound, MoveSound, CleanupStepSound DEF Step
    <3>3. Whole(p)' /\ Kept
      BY <3>1, StepsStayWhole
    <3> QED
      BY <3>2, <3>3, OthersStayWhole
  <2> QED
    BY <2>1, <2>2
<1>3. WholeInv => SuccessIsWhole
  BY DEF Whole, SuccessIsWhole, Ended
<1> HIDE DEF WholeInv
<1> QED
  BY <1>1, <1>2, <1>3, DriverAssumption, DriverInvariance, PTL DEF Spec
=============================================================================
