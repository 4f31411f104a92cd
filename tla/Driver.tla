------------------------------- MODULE Driver -------------------------------
(* The driver script (src/tony.py): a pipeline tonyc, llc, clang over files  *)
(* with fixed names in the current directory, which it removes or moves      *)
(* beside the program when it is done.                                       *)
(*                                                                           *)
(* Several invocations share the directory, at the same time or one after    *)
(* another; any of them can be killed at any moment and leave its files      *)
(* behind.  The content of a file is the program it was made from.  A tool   *)
(* takes three steps: it reads its input, truncates its output, writes it.   *)
EXTENDS Naturals, Sequences, FiniteSets

CONSTANTS
  Programs,     \* the programs, one per invocation
  Options,      \* program -> the options given, a subset of {"O", "f", "i"}
  FileArg,      \* program -> the file argument as a Seq of names, "." and "/"
  Rejected,     \* programs tonyc rejects
  Unlinkable,   \* programs clang cannot link: a function is never defined
  Concurrent,   \* bound: the invocations that may run while one of the others does
  MayKill,      \* invocations that may be killed
  Foreign,      \* invocations of a user who may read but not write another's files
  NoFile        \* absent: a file that is not there, an argument not given

Stages == {"start", "stdin", "tonyc", "llc", "clang", "cat_ll", "cat_s",
           "move_ll", "move_s", "move_exec", "cleanup", "ended"}

\* The files in the current directory: _tmp_.tony, out.ll, out.s, exec.out.
Temporaries == {"tmp", "ll", "s", "exec"}
Partial     == "partial"
Content     == Programs \cup {Partial, NoFile}

ASSUME DriverAssumption ==
  /\ Options \in [Programs -> SUBSET {"O", "f", "i"}]
  /\ Rejected \subseteq Programs /\ Unlinkable \subseteq Programs
  /\ Concurrent \subseteq Programs /\ MayKill \subseteq Programs /\ Foreign \subseteq Programs
  /\ Partial \notin Programs /\ NoFile \notin Programs

VARIABLES
  files,    \* the temporary files
  results,  \* the files moved beside the programs
  stage,    \* where every invocation is
  todo,     \* within a stage: what is left of it
  read,     \* what the tool running has read
  printed,  \* the contents an invocation printed on stdout
  status,   \* how an invocation ended
  together  \* history: the invocations that ran while another did

vars == <<files, results, stage, todo, read, printed, status, together>>

-----------------------------------------------------------------------------
(* The arguments.                                                            *)

\* rsplit('.', 1)[0]: everything before the last dot, if there is one.
Stem(path) ==
  LET dots == {i \in DOMAIN path : path[i] = "."} IN
  IF dots = {} THEN path
  ELSE SubSeq(path, 1, (CHOOSE i \in dots : \A j \in dots : j <= i) - 1)

Printing(p) == Options[p] \cap {"f", "i"} # {}
HasFile(p)  == FileArg[p] # NoFile

\* imm_path, final_path and executable_path.
Extensions == {"imm", "asm", "out"}
Output(p, ext) == <<Stem(FileArg[p]), ext>>
Outputs == {Output(p, ext) : p \in {q \in Programs : HasFile(q)}, ext \in Extensions}

-----------------------------------------------------------------------------
(* One invocation.                                                           *)

Running == {p \in Programs : stage[p] \notin {"start", "ended"}}
At(p, s) == stage[p] = s

GoTo(p, s, steps) == stage' = [stage EXCEPT ![p] = s] /\ todo' = [todo EXCEPT ![p] = steps]

End(p, how) ==
  /\ stage' = [stage EXCEPT ![p] = "ended"] /\ todo' = [todo EXCEPT ![p] = <<>>]
  /\ status' = [status EXCEPT ![p] = how]

Tool == <<"read", "truncate", "write">>

\* cleanup(): for every file a look whether it is there and then the removal.
Removals(names) == [i \in 1 .. 2 * Len(names) |->
                      IF i % 2 = 1 THEN <<"look", names[(i + 1) \div 2]>>
                      ELSE <<"remove", names[i \div 2]>>]

\* Mutation: exec.out is kept also after a failure.
CleanupKeepsExec(p, deleteExec) ==
  GoTo(p, "cleanup", Removals(<<"ll", "tmp", "s">>))

Cleanup(p, deleteExec) ==
  GoTo(p, "cleanup", Removals(<<"ll", "tmp", "s">> \o IF deleteExec THEN <<"exec">> ELSE <<>>))

\* Mutation: a failure is not recorded, the script ends with nothing to say.
FailSilently(p) == Cleanup(p, TRUE) /\ UNCHANGED status

\* Mutation: the command is tried again until it succeeds.
FailRetries(p) == GoTo(p, stage[p], Tool) /\ UNCHANGED status

\* print(errors), cleanup(), exit(1).
Fail(p) ==
  /\ Cleanup(p, TRUE)
  /\ status' = [status EXCEPT ![p] = "failed"]

\* Wrong combinations of options and file end before anything is touched.
Start(p) ==
  /\ At(p, "start") /\ (Running = {} \/ Running \cup {p} \subseteq Concurrent)
  /\ IF Printing(p) <=> HasFile(p) THEN End(p, "usage")
     ELSE /\ IF HasFile(p) THEN GoTo(p, "tonyc", Tool)
             ELSE GoTo(p, "stdin", <<"truncate", "write">>)
          /\ UNCHANGED status
  /\ together' = IF Running = {} THEN together ELSE together \cup Running \cup {p}
  /\ UNCHANGED <<files, results, read, printed>>

\* _tmp_.tony is opened and written; open() raises if another's file is there
\* that this user may not write.
WriteStdin(p) ==
  /\ At(p, "stdin")
  /\ IF Head(todo[p]) = "truncate" /\ p \in Foreign /\ files["tmp"] # NoFile
     THEN End(p, "exception") /\ UNCHANGED files
     ELSE /\ files' = [files EXCEPT !["tmp"] = IF Head(todo[p]) = "truncate" THEN Partial ELSE p]
          /\ IF Len(todo[p]) > 1 THEN GoTo(p, "stdin", Tail(todo[p])) ELSE GoTo(p, "tonyc", Tool)
          /\ UNCHANGED status
  /\ UNCHANGED <<results, read, printed>>

\* What tonyc and then llc and clang read.
Input(p) ==
  CASE At(p, "tonyc") -> IF HasFile(p) THEN p ELSE files["tmp"]
    [] At(p, "llc")   -> files["ll"]
    [] At(p, "clang") -> files["s"]

OutputOf(s) == CASE s = "tonyc" -> "ll" [] s = "llc" -> "s" [] s = "clang" -> "exec"

\* What makes a tool return an error.  It may also accept half a file.
Refuses(s, c) ==
  \/ c \in {NoFile, Partial}
  \/ s = "tonyc" /\ c \in Rejected
  \/ s = "clang" /\ c \in Unlinkable

AfterTools(p) ==
  CASE "i" \in Options[p] -> "cat_ll"
    [] "f" \in Options[p] /\ "i" \notin Options[p] -> "cat_s"
    [] OTHER -> "move_ll"

AfterStage(p) ==
  CASE At(p, "tonyc") -> <<"llc", Tool>>
    [] At(p, "llc")   -> <<"clang", Tool>>
    [] At(p, "clang") -> <<AfterTools(p), <<>> >>

\* Mutations: the return code of one of the tools is not looked at.
IgnoreErrors(p, s) ==
  /\ stage[p] \in {"tonyc", "llc", "clang"} /\ Head(todo[p]) = "read"
  /\ \/ Refuses(stage[p], Input(p)) /\ At(p, s) /\ GoTo(p, AfterStage(p)[1], AfterStage(p)[2])
        /\ UNCHANGED <<read, status>>
     \/ Refuses(stage[p], Input(p)) /\ ~At(p, s) /\ Fail(p) /\ UNCHANGED read
     \/ /\ ~Refuses(stage[p], Input(p)) \/ Input(p) = Partial
        /\ read' = [read EXCEPT ![p] = Input(p)]
        /\ GoTo(p, stage[p], Tail(todo[p]))
        /\ UNCHANGED status
  /\ UNCHANGED <<files, results, printed>>
IgnoreTonyc(p) == IgnoreErrors(p, "tonyc")
IgnoreClang(p) == IgnoreErrors(p, "clang")

\* A tool that refuses its input leaves its output as it is.
ReadInput(p) ==
  /\ stage[p] \in {"tonyc", "llc", "clang"} /\ Head(todo[p]) = "read"
  /\ \/ Refuses(stage[p], Input(p)) /\ Fail(p) /\ UNCHANGED read
     \/ /\ ~Refuses(stage[p], Input(p)) \/ Input(p) = Partial
        /\ read' = [read EXCEPT ![p] = Input(p)]
        /\ GoTo(p, stage[p], Tail(todo[p]))
        /\ UNCHANGED status
  /\ UNCHANGED <<files, results, printed>>

\* tonyc does not look at the error of opening out.ll (llvm/ast.cpp:80): it
\* writes nothing and reports success.  llc and clang do.
Truncate(p) ==
  /\ stage[p] \in {"tonyc", "llc", "clang"} /\ Head(todo[p]) = "truncate"
  /\ IF p \in Foreign /\ files[OutputOf(stage[p])] # NoFile
     THEN /\ IF At(p, "tonyc") THEN GoTo(p, AfterStage(p)[1], AfterStage(p)[2]) /\ UNCHANGED status
             ELSE Fail(p)
          /\ read' = [read EXCEPT ![p] = NoFile]
          /\ UNCHANGED files
     ELSE /\ files' = [files EXCEPT ![OutputOf(stage[p])] = Partial]
          /\ GoTo(p, stage[p], Tail(todo[p]))
          /\ UNCHANGED <<read, status>>
  /\ UNCHANGED <<results, printed>>

WriteOutput(p) ==
  /\ stage[p] \in {"tonyc", "llc", "clang"} /\ Head(todo[p]) = "write"
  /\ files' = [files EXCEPT ![OutputOf(stage[p])] = read[p]]
  /\ read' = [read EXCEPT ![p] = NoFile]
  /\ GoTo(p, AfterStage(p)[1], AfterStage(p)[2])
  /\ UNCHANGED <<results, printed, status>>

\* cat out.ll, cat out.s; then everything but exec.out is removed.
Cat(p) ==
  /\ stage[p] \in {"cat_ll", "cat_s"}
  /\ LET c == files[IF At(p, "cat_ll") THEN "ll" ELSE "s"] IN
     IF c = NoFile THEN Fail(p) /\ UNCHANGED printed
     ELSE /\ printed' = [printed EXCEPT ![p] = Append(@, c)]
          /\ IF At(p, "cat_ll") /\ "f" \in Options[p]
             THEN GoTo(p, "cat_s", <<>>) /\ UNCHANGED status
             ELSE Cleanup(p, FALSE) /\ status' = [status EXCEPT ![p] = "done"]
  /\ UNCHANGED <<files, results, read>>

\* Mutation: a file that is gone is passed over.
MovesWhatIsThere(p, s, temp, ext) ==
  /\ At(p, s)
  /\ files' = [files EXCEPT ![temp] = NoFile]
  /\ results' = IF files[temp] = NoFile THEN results
                ELSE [results EXCEPT ![Output(p, ext)] = files[temp]]
  /\ CASE s = "move_ll"   -> GoTo(p, "move_s", <<>>) /\ UNCHANGED status
       [] s = "move_s"    -> GoTo(p, "move_exec", <<>>) /\ UNCHANGED status
       [] s = "move_exec" -> Cleanup(p, TRUE) /\ status' = [status EXCEPT ![p] = "done"]
  /\ UNCHANGED <<read, printed>>

\* shutil.move raises if the file is gone; nothing is cleaned up then.
MoveResult(p, s, temp, ext) ==
  /\ At(p, s)
  /\ IF files[temp] = NoFile THEN End(p, "exception") /\ UNCHANGED <<files, results>>
     ELSE /\ files' = [files EXCEPT ![temp] = NoFile]
          /\ results' = [results EXCEPT ![Output(p, ext)] = files[temp]]
          /\ CASE s = "move_ll"   -> GoTo(p, "move_s", <<>>) /\ UNCHANGED status
               [] s = "move_s"    -> GoTo(p, "move_exec", <<>>) /\ UNCHANGED status
               [] s = "move_exec" -> Cleanup(p, TRUE) /\ status' = [status EXCEPT ![p] = "done"]
  /\ UNCHANGED <<read, printed>>

Move(p) ==
  \/ MoveResult(p, "move_ll", "ll", "imm")
  \/ MoveResult(p, "move_s", "s", "asm")
  \/ MoveResult(p, "move_exec", "exec", "out")

CleanupStep(p) ==
  /\ At(p, "cleanup")
  /\ IF todo[p] = <<>> THEN End(p, status[p]) /\ UNCHANGED files
     ELSE LET name == Head(todo[p])[2] IN
       IF Head(todo[p])[1] = "look"
       THEN /\ GoTo(p, "cleanup", IF files[name] # NoFile THEN Tail(todo[p]) ELSE Tail(Tail(todo[p])))
            /\ UNCHANGED <<files, status>>
       ELSE IF files[name] = NoFile THEN End(p, "exception") /\ UNCHANGED files
       ELSE /\ files' = [files EXCEPT ![name] = NoFile]
            /\ GoTo(p, "cleanup", Tail(todo[p]))
            /\ UNCHANGED status
  /\ UNCHANGED <<results, read, printed>>

\* The user interrupts the script and the tool it is waiting for.
Kill(p) ==
  /\ p \in MayKill /\ p \in Running
  /\ End(p, "killed")
  /\ UNCHANGED <<files, results, read, printed, together>>

\* p goes on.
Step(p) ==
  /\ \/ WriteStdin(p) \/ ReadInput(p) \/ Truncate(p) \/ WriteOutput(p)
     \/ Cat(p) \/ Move(p) \/ CleanupStep(p)
  /\ UNCHANGED together

Init ==
  /\ files = [t \in Temporaries |-> NoFile]
  /\ results = [o \in Outputs |-> NoFile]
  /\ stage = [p \in Programs |-> "start"]
  /\ todo = [p \in Programs |-> <<>>]
  /\ read = [p \in Programs |-> NoFile]
  /\ printed = [p \in Programs |-> <<>>]
  /\ status = [p \in Programs |-> "none"]
  /\ together = {}

Next == \E p \in Programs : Start(p) \/ Step(p) \/ Kill(p)

\* The operating system lets every script and tool under way go on.
Spec == Init /\ [][Next]_vars /\ \A p \in Programs : WF_vars(Step(p))

-----------------------------------------------------------------------------
(* Properties.                                                               *)

\* Types of the state; an invocation has a status once it is decided.
DriverTypeOK ==
  /\ files \in [Temporaries -> Content]
  /\ results \in [Outputs -> Content]
  /\ stage \in [Programs -> Stages]
  /\ DOMAIN todo = Programs
  /\ \A p \in Programs : todo[p] \in IF At(p, "cleanup") THEN Seq({"look", "remove"} \X Temporaries)
                                      ELSE Seq({"read", "truncate", "write"})
  /\ read \in [Programs -> Content]
  /\ printed \in [Programs -> Seq(Content)]
  /\ status \in [Programs -> {"none", "usage", "done", "failed", "exception", "killed"}]
  /\ \A p \in Programs : At(p, "ended") => status[p] # "none"
  /\ together \subseteq Programs

Ended(p, how) == At(p, "ended") /\ status[p] = how

\* No other invocation ran at the same time, and every file that earlier ones
\* may have left can be written.  What an invocation is worth when one of the
\* two does not hold, no statement of the script says.
OnItsOwn(p) == p \notin together \cup Foreign

\* No other invocation is given the same file, or one that differs from it in
\* the extension only, and moves its results over those of p afterwards.
OwnsOutputs(p) ==
  \A q \in Programs \ {p} : HasFile(q) => Stem(FileArg[q]) # Stem(FileArg[p])

\* "A <tony-program>.out file is produced ... you'll also find <tony-program>.asm
\* and <tony-program>.imm" (README.md:19), and -i and -f print the code of the
\* program: what an invocation that succeeds hands over was made from its own
\* program, whatever earlier ones left in the directory, killed in the middle of
\* a write or tangled with one another.
OwnResults ==
  \A p \in Programs : OnItsOwn(p) /\ Ended(p, "done") =>
    IF HasFile(p) THEN OwnsOutputs(p) => \A ext \in Extensions : results[Output(p, ext)] = p
    ELSE printed[p] # <<>> /\ \A i \in DOMAIN printed[p] : printed[p][i] = p

\* The exit status tells whether the program could be compiled: files left by
\* an earlier invocation never turn a failure into a success, and no program
\* fails on their account.
StatusTells ==
  \A p \in Programs : OnItsOwn(p) =>
    /\ Ended(p, "done") => p \notin Rejected \cup Unlinkable
    /\ Ended(p, "failed") => p \in Rejected \cup Unlinkable
    /\ ~Ended(p, "exception")

\* Success is never reported with a part missing, also by invocations that get
\* into each other's way or find files they may not write: every file is there
\* beside the program, or everything asked for was printed.
SuccessIsWhole ==
  \A p \in Programs : Ended(p, "done") =>
    IF HasFile(p) THEN \A ext \in Extensions : results[Output(p, ext)] # NoFile
    ELSE Len(printed[p]) = Cardinality(Options[p] \cap {"f", "i"})

\* An invocation that was not killed leaves the directory clean, also of what
\* others before it left (tony.py:9): only the executable of an invocation that
\* printed may stay.
LeavesClean ==
  [][\A p \in Programs :
       OnItsOwn(p) /\ stage[p] = "cleanup" /\ stage'[p] = "ended" /\ status'[p] # "killed" =>
         \A t \in Temporaries : files'[t] # NoFile => t = "exec" /\ Printing(p)]_vars

\* Every invocation comes to an end, however many share the files.
Terminates == \A p \in Programs : stage[p] # "start" ~> stage[p] = "ended"
=============================================================================
