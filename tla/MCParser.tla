------------------------------ MODULE MCParser ------------------------------
(* All programs up to a length over the tokens of definitions and types,     *)
(* over those of ifs, or over those of loops, calls and arrays.              *)
EXTENDS Parser

Definitions == {"def", "decl", "end", "id", "(", ")", ":", ";", ",", "ref", "int", "list", "[", "]", "return"}
Branches    == {"def", "end", "id", "(", ")", ":", "if", "elsif", "else", "exit"}
Loops       == {"def", "end", "id", "(", ")", ":", ";", ",", ":=", "[", "]", "const", "for", "skip"}

MCVocabularies == {Definitions, Branches, Loops}
=============================================================================
