--------------------------- MODULE MCControlFlow ---------------------------
(* ControlFlow on all functions of a few statements.                         *)
EXTENDS ControlFlow
=============================================================================
