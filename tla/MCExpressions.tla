--------------------------- MODULE MCExpressions ---------------------------
(* Instances of Expressions.                                                 *)
EXTENDS Expressions

MCVars == {"x", "y"}
OneVar == {"x"}

\* Lists and lists of lists of different types, an array, and a list of arrays
\* of lists of arrays.
MixedTypes == {<<"list", "int">>, <<"array", "int">>, <<"list", "list", "bool">>,
               <<"list", "array", "list", "array", "int">>}
TwoDeep == {<<"list", "list", "int">>}
=============================================================================
