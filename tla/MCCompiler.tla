----------------------------- MODULE MCCompiler -----------------------------
(* Small instances of Compiler for TLC: procedures over two variables and    *)
(* one function name besides the program's.                                  *)
EXTENDS Compiler

CONSTANTS x, y, main, p, q, putb   \* model values for the names of a program

MCVarNames == {x, y}
MCNameOrder == <<x, y>>
OneVarName == {x}
OneNameOrder == <<x>>
MCProgramNames == {main}
MCFunNames == {main, p, q}
TwoFunNames == {main, p}
PutbFunNames == {main, p, putb}
MCLibrary == <<>>
PutbLibrary == <<[name |-> putb, ret |-> "void", args |-> <<[t |-> "bool", pass |-> "val"]>>]>>

Procedure(formals) == [ret |-> "void", formals |-> formals]
Function(ret) == [ret |-> ret, formals |-> <<>>]
ByVal(v) == [name |-> v, t |-> "bool", pass |-> "val"]
ByRef(v) == [name |-> v, t |-> "bool", pass |-> "ref"]

-----------------------------------------------------------------------------
(* Every kind of node, two types, results, wrong headers, a library function *)

WideHeaders  == {Procedure(<<>>), Procedure(<<ByVal(y)>>), Function("bool"), Function("int"),
                 Procedure(<<ByVal(y), ByVal(y)>>)}
WideIdLists  == {<<x>>, <<x, y>>, <<x, x>>}
WideOperands == {x, y, p, "bool", "int", "void"}
WideArgLists == {<<>>, <<x>>, <<"bool">>}
WideKinds    == {"define", "declare", "var", "assign", "call", "return", "exit", "condition"}

-----------------------------------------------------------------------------
(* Signatures: parameters, declarations and captured variables together.     *)

SignatureHeaders  == {Procedure(<<>>), Procedure(<<ByRef(y)>>)}
SignatureIdLists  == {<<x>>, <<y>>}
SignatureOperands == {x, "bool"}
SignatureArgLists == {<<>>, <<x>>, <<"bool">>}
SignatureKinds    == {"define", "declare", "var", "assign", "call"}

-----------------------------------------------------------------------------
(* Longer programs of procedures that nest, capture and call by name.        *)

NestingHeaders  == {Procedure(<<>>)}
NestingIdLists  == {<<x>>}
NestingOperands == {"bool"}
NestingArgLists == {<<>>}
NestingKinds    == {"define", "var", "assign", "call"}
ForwardKinds    == NestingKinds \cup {"declare"}
=============================================================================
