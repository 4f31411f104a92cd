------------------------------ MODULE MCDriver ------------------------------
(* Instances of the driver.                                                  *)
EXTENDS Driver

CONSTANTS good, other, bad, open   \* programs; open calls what nobody defines

MCPrograms == {good, other, bad, open}

\* Two file arguments with a dot inside the name, two programs on stdin.
MCOptions == [p \in MCPrograms |->
                CASE p = good -> {"O"} [] p = other -> {"i", "f"}
                  [] p = bad -> {"f"}  [] p = open -> {}]
MCFileArg == [p \in MCPrograms |->
                CASE p = good -> <<"x", ".", "a", ".", "tony">>
                  [] p = open -> <<"x", ".", "b", ".", "tony">>
                  [] OTHER -> NoFile]
=============================================================================
