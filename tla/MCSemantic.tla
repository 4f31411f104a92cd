----------------------------- MODULE MCSemantic -----------------------------
(* Small instances of Semantic for TLC: programs over a few names.           *)
EXTENDS Semantic

CONSTANTS x, y, main, p, putb   \* model values for the names of a program

MCVarNames == {x, y}
MCProgramNames == {main}
MCFunNames == {main, p, putb}

\* One library function, putb(bool), which a program may shadow.
MCLibrary == <<[name |-> putb, ret |-> "void", args |-> <<[t |-> "bool", pass |-> "val"]>>]>>

Procedure(formals) == [ret |-> "void", formals |-> formals]
Function(ret) == [ret |-> ret, formals |-> <<>>]
ByRef(v, t) == [name |-> v, t |-> t, pass |-> "ref"]

-----------------------------------------------------------------------------
(* Captures with forward declarations, parameters, arguments and results.    *)

CaptureHeaders  == {Procedure(<<>>), Procedure(<<ByRef(x, "bool")>>), Function("bool")}
CaptureIdLists  == {<<x>>, <<y>>}
CaptureOperands == {x, "bool"}
CaptureArgLists == {<<>>, <<x>>}
CaptureKinds    == {"define", "declare", "var", "assign", "call", "return", "exit", "condition"}
=============================================================================
