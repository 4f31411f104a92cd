------------------------------ MODULE MCLexer ------------------------------
(* All texts up to a length over the classes of characters that comments     *)
(* are made of, comments of both kinds and line ends, literals, or escapes;  *)
(* and all short texts over every class.                                     *)
EXTENDS Lexer

UpTo(n, alphabet) == UNION {[1 .. k -> alphabet] : k \in 0 .. n}

Comments == {"<", "*", ">", "nl"}
Lined    == {"<", "*", ">", "%", "nl"}
Literals == {"'", "quote", "backslash", "x", "0", "letter"}
Escapes  == {"quote", "backslash", "x", "A", " ", "tab"}

MCTexts ==
  UpTo(8, Comments) \cup UpTo(6, Lined) \cup UpTo(6, Literals) \cup UpTo(5, Escapes) \cup UpTo(3, Classes)
=============================================================================
