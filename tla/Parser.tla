------------------------------- MODULE Parser -------------------------------
(* The parser (src/parser/parser.y) and the constructors it calls            *)
(* (src/parser/parsing.cpp): how the lists of the AST come to be.            *)
(*                                                                           *)
(* The grammar is right-recursive, so a list is filled from its end, and the *)
(* production that completes it reverses it.  A behaviour derives a program  *)
(* and reduces it: the productions that are being read are a stack, each     *)
(* with the values $1, $2, ... of what it has so far, and the value of a     *)
(* production that is complete is the next one of the production below it.   *)
(* The actions then run in the order in which a shift-reduce parser runs     *)
(* them.                                                                     *)
EXTENDS Naturals, Sequences, SequencesExt

CONSTANTS
  Vocabularies,  \* sets of tokens: a program is made of those of one set
  MaxTokens      \* bound: length of a program

VARIABLES
  terminals,  \* the vocabulary of the program
  frames,     \* the productions being read, with their values so far
  tokens,     \* the program so far
  root,       \* NULL or the tree
  reductions  \* history: the number of productions completed

vars == <<terminals, frames, tokens, root, reductions>>

NULL == [node |-> "NULL"]

-----------------------------------------------------------------------------
(* The grammar.  Of the forms of Expr only constants and atoms matter here.  *)

Rule(lhs, rhs) == [lhs |-> lhs, rhs |-> rhs]

Grammar ==
  {Rule("Program", <<"Func_def">>),
   Rule("Func_def", <<"def", "Header", ":", "Func_def_dec", "Stmt_Body", "end">>),
   Rule("Func_def_dec", <<"Func_def", "Func_def_dec">>),
   Rule("Func_def_dec", <<"Func_Decl", "Func_def_dec">>),
   Rule("Func_def_dec", <<"Var_Def", "Func_def_dec">>),
   Rule("Func_def_dec", <<>>),
   Rule("Header", <<"Type", "id", "(", ")">>),
   Rule("Header", <<"Type", "id", "(", "Formal", "Par", ")">>),
   Rule("Header", <<"id", "(", ")">>),
   Rule("Header", <<"id", "(", "Formal", "Par", ")">>),
   Rule("Func_Decl", <<"decl", "Header">>),
   Rule("Par", <<";", "Formal", "Par">>),
   Rule("Par", <<>>),
   Rule("Formal", <<"ref", "Var_Def">>),
   Rule("Formal", <<"Var_Def">>),
   Rule("Var_Def", <<"Type", "id", "Var_Comma">>),
   Rule("Var_Comma", <<>>),
   Rule("Var_Comma", <<",", "id", "Var_Comma">>),
   Rule("Type", <<"int">>),
   Rule("Type", <<"Type", "[", "]">>),
   Rule("Type", <<"list", "[", "Type", "]">>),
   Rule("Stmt", <<"Simple">>),
   Rule("Stmt", <<"exit">>),
   Rule("Stmt", <<"return", "Expr">>),
   Rule("Stmt", <<"If_Clause">>),
   Rule("Stmt", <<"For_Clause">>),
   Rule("Stmt_Body", <<"Stmt", "Stmt_Full">>),
   Rule("Stmt_Full", <<"Stmt", "Stmt_Full">>),
   Rule("Stmt_Full", <<>>),
   Rule("If_Clause", <<"if", "Expr", ":", "Stmt_Body", "Elsif_Clause", "end">>),
   Rule("Elsif_Clause", <<"elsif", "Expr", ":", "Stmt_Body", "Elsif_Clause">>),
   Rule("Elsif_Clause", <<"Else_Clause">>),
   Rule("Else_Clause", <<"else", ":", "Stmt_Body">>),
   Rule("Else_Clause", <<>>),
   Rule("For_Clause", <<"for", "Simple_List", ";", "Expr", ";", "Simple_List", ":", "Stmt_Body", "end">>),
   Rule("Simple", <<"skip">>),
   Rule("Simple", <<"Atom", ":=", "Expr">>),
   Rule("Simple", <<"Call">>),
   Rule("Simple_List", <<"Simple", "Simple_Comma">>),
   Rule("Simple_Comma", <<>>),
   Rule("Simple_Comma", <<",", "Simple", "Simple_Comma">>),
   Rule("Call", <<"id", "(", ")">>),
   Rule("Call", <<"id", "(", "Expr_List", ")">>),
   Rule("Expr_List", <<"Expr", "Expr_Comma">>),
   Rule("Expr_Comma", <<>>),
   Rule("Expr_Comma", <<",", "Expr", "Expr_Comma">>),
   Rule("Atom", <<"id">>),
   Rule("Atom", <<"Atom", "[", "Expr", "]">>),
   Rule("Atom", <<"Call">>),
   Rule("Expr", <<"const">>),
   Rule("Expr", <<"Atom">>)}

Nonterminals == {rule.lhs : rule \in Grammar}
Payload      == {"id", "const"}
Terminals    ==
  Payload \cup {"def", "decl", "end", "ref", "int", "list", "skip", "exit", "return", "if", "elsif", "else", "for",
               "(", ")", "[", "]", ":", ";", ",", ":="}

\* The least number of tokens a symbol stands for.
Least(s) ==
  CASE s \in {"Func_def_dec", "Par", "Var_Comma", "Stmt_Full", "Elsif_Clause", "Else_Clause",
              "Simple_Comma", "Expr_Comma"} -> 0
    [] s \in {"Program", "Func_def"} -> 7
    [] s = "Func_Decl" -> 4
    [] s \in {"Header", "Call"} -> 3
    [] s \in {"Formal", "Var_Def"} -> 2
    [] s = "If_Clause" -> 5
    [] s = "For_Clause" -> 9
    [] OTHER -> 1
Needs(symbols) == FoldLeft(LAMBDA n, s : n + Least(s), 0, symbols)

ASSUME ParserAssumption == MaxTokens \in Nat /\ \A v \in Vocabularies : v \subseteq Terminals

-----------------------------------------------------------------------------
(* What the productions build from the values v of their right side.  A      *)
(* list object is its sequence of elements.                                  *)

\* Mutations: the header is handed on for the function; the local definitions
\* are left in the order they were filled in.
FuncDefHeader(v) == v[2]
FuncDefUnreversed(v) == [node |-> "FunctionDefinition", header |-> v[2], locals |-> v[4], body |-> v[5]]

\* merge() and reverse(): only the local definitions are in a list of its own.
FuncDef(v) == [node |-> "FunctionDefinition", header |-> v[2], locals |-> Reverse(v[4]), body |-> v[5]]
\* append(), on the list of what follows.
FuncDefDec(v) == IF v = <<>> THEN <<>> ELSE Append(v[2], v[1])

Header(v) ==
  LET typed == Len(v) \in {4, 6}
      w     == IF typed THEN Tail(v) ELSE v
  IN [node |-> "Header", type |-> IF typed THEN v[1] ELSE NULL, id |-> w[1],
      formals |-> IF Len(w) = 3 THEN <<>> ELSE Reverse(Append(w[4], w[3]))]

Par(v)      == IF v = <<>> THEN <<>> ELSE Append(v[3], v[2])
Formal(v)   == [node |-> "Formal", isRef |-> Len(v) = 2, vars |-> Last(v)]
VarDef(v)   == [node |-> "VarList", type |-> v[1], ids |-> Reverse(Append(v[3], v[2]))]
VarComma(v) == IF v = <<>> THEN <<>> ELSE Append(v[3], v[2])

Type(v) ==
  CASE Len(v) = 1 -> [node |-> "TYPE_int"]
    [] Len(v) = 3 -> [node |-> "TYPE_array", of |-> v[1]]
    [] OTHER      -> [node |-> "TYPE_list", of |-> v[3]]

Stmt(v) ==
  CASE Len(v) = 2 -> [node |-> "Return", expr |-> v[2]]
    [] Len(v) = 1 /\ v[1].node = "exit" -> [node |-> "Exit"]
    [] OTHER -> v[1]
StmtBody(v) == Reverse(Append(v[2], v[1]))
StmtFull(v) == IF v = <<>> THEN <<>> ELSE Append(v[2], v[1])

If(condition, body, next) == [node |-> "If", condition |-> condition, body |-> body, next |-> next]

IfClause(v)    == If(v[2], v[4], v[5])
ElsifClause(v) == IF Len(v) = 1 THEN v[1] ELSE If(v[2], v[4], v[5])
ElseClause(v)  == IF v = <<>> THEN NULL ELSE If(NULL, v[3], NULL)
ForClause(v)   == [node |-> "For", initializations |-> v[2], condition |-> v[4], steps |-> v[6], body |-> v[8]]

Simple(v) ==
  CASE Len(v) = 3 -> [node |-> "Assign", atom |-> v[1], expr |-> v[3]]
    [] v[1].node = "skip" -> [node |-> "Skip"]
    [] OTHER -> v[1]
SimpleList(v)  == Reverse(Append(v[2], v[1]))
SimpleComma(v) == IF v = <<>> THEN <<>> ELSE Append(v[3], v[2])

Call(v)      == [node |-> "FunctionCall", name |-> v[1], params |-> IF Len(v) = 4 THEN v[3] ELSE <<>>]
ExprList(v)  == Reverse(Append(v[2], v[1]))
ExprComma(v) == IF v = <<>> THEN <<>> ELSE Append(v[3], v[2])

Atom(v) == IF Len(v) = 4 THEN [node |-> "ArrayElement", atom |-> v[1], expr |-> v[3]] ELSE v[1]
Expr(v) == v[1]

Value(lhs, v) ==
  CASE lhs = "Func_def" -> FuncDef(v)         [] lhs = "Func_def_dec" -> FuncDefDec(v)
    [] lhs = "Header" -> Header(v)            [] lhs = "Func_Decl" -> [node |-> "FunctionDeclaration", header |-> v[2]]
    [] lhs = "Par" -> Par(v)                  [] lhs = "Formal" -> Formal(v)
    [] lhs = "Var_Def" -> VarDef(v)           [] lhs = "Var_Comma" -> VarComma(v)
    [] lhs = "Type" -> Type(v)                [] lhs = "Stmt" -> Stmt(v)
    [] lhs = "Stmt_Body" -> StmtBody(v)       [] lhs = "Stmt_Full" -> StmtFull(v)
    [] lhs = "If_Clause" -> IfClause(v)       [] lhs = "Elsif_Clause" -> ElsifClause(v)
    [] lhs = "Else_Clause" -> ElseClause(v)   [] lhs = "For_Clause" -> ForClause(v)
    [] lhs = "Simple" -> Simple(v)            [] lhs = "Simple_List" -> SimpleList(v)
    [] lhs = "Simple_Comma" -> SimpleComma(v) [] lhs = "Call" -> Call(v)
    [] lhs = "Expr_List" -> ExprList(v)       [] lhs = "Expr_Comma" -> ExprComma(v)
    [] lhs = "Atom" -> Atom(v)                [] lhs = "Expr" -> Expr(v)

-----------------------------------------------------------------------------
(* The parser.                                                               *)

Frame(rule)     == [rule |-> rule, values |-> <<>>]
Complete(frame) == Len(frame.values) = Len(frame.rule.rhs)
Expected(frame) == frame.rule.rhs[Len(frame.values) + 1]

\* The next value of the topmost production.
Hand(stack, value) == [stack EXCEPT ![Len(stack)].values = Append(@, value)]

\* The least number of tokens to come after the symbol that is expected.
Ahead == FoldLeft(LAMBDA n, f : n + Needs(SubSeq(f.rule.rhs, Len(f.values) + 2, Len(f.rule.rhs))), 0, frames)

Derive ==
  /\ ~Complete(Last(frames))
  /\ \E rule \in Grammar :
       /\ rule.lhs = Expected(Last(frames))
       /\ ToSet(rule.rhs) \subseteq terminals \cup Nonterminals
       /\ Len(tokens) + Needs(rule.rhs) + Ahead <= MaxTokens
       /\ frames' = Append(frames, Frame(rule))
  /\ UNCHANGED <<terminals, tokens, root, reductions>>

\* A token that carries text is told from others by its place in the program.
Token(s) == [node |-> s, place |-> IF s \in Payload THEN Len(tokens) + 1 ELSE 0]

Shift ==
  /\ ~Complete(Last(frames)) /\ Expected(Last(frames)) \in terminals
  /\ tokens' = Append(tokens, Token(Expected(Last(frames))))
  /\ frames' = Hand(frames, Token(Expected(Last(frames))))
  /\ UNCHANGED <<terminals, root, reductions>>

Reduce ==
  /\ Len(frames) > 1 /\ Complete(Last(frames))
  /\ frames' = Hand(Front(frames), Value(Last(frames).rule.lhs, Last(frames).values))
  /\ reductions' = reductions + 1
  /\ UNCHANGED <<terminals, tokens, root>>

\* Program: the tree is ready for sem().
Accept ==
  /\ Len(frames) = 1 /\ Complete(frames[1]) /\ root = NULL
  /\ root' = frames[1].values[1]
  /\ UNCHANGED <<terminals, frames, tokens, reductions>>

Init ==
  /\ terminals \in Vocabularies
  /\ frames = <<Frame(Rule("Program", <<"Func_def">>))>>
  /\ tokens = <<>> /\ root = NULL /\ reductions = 0

Next == Derive \/ Shift \/ Reduce \/ Accept

Spec == Init /\ [][Next]_vars

-----------------------------------------------------------------------------
(* Types of the values (%type).                                              *)

Lists == {"Func_def_dec", "Par", "Var_Comma", "Stmt_Body", "Stmt_Full", "Simple_List", "Simple_Comma",
          "Expr_List", "Expr_Comma"}

\* The nodes a symbol stands for, or the nodes in its list.
Classes(s) ==
  CASE s \in {"Program", "Func_def"} -> {"FunctionDefinition"}
    [] s = "Func_def_dec" -> {"FunctionDefinition", "FunctionDeclaration", "VarList"}
    [] s = "Func_Decl" -> {"FunctionDeclaration"}
    [] s = "Header" -> {"Header"}
    [] s \in {"Par", "Formal"} -> {"Formal"}
    [] s = "Var_Def" -> {"VarList"}
    [] s = "Var_Comma" -> {"id"}
    [] s = "Type" -> {"TYPE_int", "TYPE_array", "TYPE_list"}
    [] s \in {"Stmt", "Stmt_Body", "Stmt_Full"} ->
         {"Skip", "Assign", "FunctionCall", "Exit", "Return", "If", "For"}
    [] s = "If_Clause" -> {"If"}
    [] s \in {"Elsif_Clause", "Else_Clause"} -> {"If", "NULL"}
    [] s = "For_Clause" -> {"For"}
    [] s \in {"Simple", "Simple_List", "Simple_Comma"} -> {"Skip", "Assign", "FunctionCall"}
    [] s = "Call" -> {"FunctionCall"}
    [] s = "Atom" -> {"id", "ArrayElement", "FunctionCall"}
    [] s \in {"Expr", "Expr_List", "Expr_Comma"} -> {"const", "id", "ArrayElement", "FunctionCall"}
    [] OTHER -> {s}

Word(s) == [node |-> s, place |-> 0]

HasType(s, x) ==
  CASE s \in Lists -> x \in Seq(Range(x)) /\ \A i \in DOMAIN x : x[i].node \in Classes(s)
    [] s \in Terminals \ Payload -> x = Word(s)
    [] OTHER -> x.node \in Classes(s)

-----------------------------------------------------------------------------
(* The program a tree stands for, in the concrete syntax: a row of tokens    *)
(* and trees in which each tree is replaced by its parts.                    *)

\* Each item of a list behind a separator, or between separators.
Preceded(list, separator) == FlattenSeq([i \in DOMAIN list |-> <<Word(separator), list[i]>>])
Separated(list, separator) ==
  IF list = <<>> THEN <<>> ELSE <<Head(list)>> \o Preceded(Tail(list), separator)

\* What follows the body of an if.
Branch(next) == IF next = NULL THEN <<>> ELSE <<[node |-> "Branch", of |-> next]>>

Parts(x) ==
  CASE x.node \in Terminals -> <<x>>
    [] x.node = "TYPE_int" -> <<Word("int")>>
    [] x.node = "TYPE_array" -> <<x.of, Word("["), Word("]")>>
    [] x.node = "TYPE_list" -> <<Word("list"), Word("["), x.of, Word("]")>>
    [] x.node = "FunctionDefinition" ->
         <<Word("def"), x.header, Word(":")>> \o x.locals \o x.body \o <<Word("end")>>
    [] x.node = "FunctionDeclaration" -> <<Word("decl"), x.header>>
    [] x.node = "Header" ->
         (IF x.type = NULL THEN <<>> ELSE <<x.type>>) \o <<x.id, Word("(")>> \o Separated(x.formals, ";")
           \o <<Word(")")>>
    [] x.node = "Formal" -> (IF x.isRef THEN <<Word("ref")>> ELSE <<>>) \o <<x.vars>>
    [] x.node = "VarList" -> <<x.type>> \o Separated(x.ids, ",")
    [] x.node = "Skip" -> <<Word("skip")>>
    [] x.node = "Exit" -> <<Word("exit")>>
    [] x.node = "Return" -> <<Word("return"), x.expr>>
    [] x.node = "Assign" -> <<x.atom, Word(":="), x.expr>>
    [] x.node = "ArrayElement" -> <<x.atom, Word("["), x.expr, Word("]")>>
    [] x.node = "FunctionCall" -> <<x.name, Word("(")>> \o Separated(x.params, ",") \o <<Word(")")>>
    [] x.node = "For" ->
         <<Word("for")>> \o Separated(x.initializations, ",") \o <<Word(";"), x.condition, Word(";")>>
           \o Separated(x.steps, ",") \o <<Word(":")>> \o x.body \o <<Word("end")>>
    [] x.node = "If" -> <<Word("if"), x.condition, Word(":")>> \o x.body \o Branch(x.next) \o <<Word("end")>>
    [] x.node = "Branch" ->
         (IF x.of.condition = NULL THEN <<Word("else")>> ELSE <<Word("elsif"), x.of.condition>>)
           \o <<Word(":")>> \o x.of.body \o Branch(x.of.next)
    [] OTHER -> <<x>>

Expand(row) == FlattenSeq([i \in DOMAIN row |-> Parts(row[i])])

\* A tree of n productions is at most n deep.
Text(row, n) ==
  LET text[k \in 0 .. n] == IF k = 0 THEN row ELSE Expand(text[k - 1])
  IN  text[n]

-----------------------------------------------------------------------------
(* Properties.                                                               *)

\* A production is derived for the symbol the one below waits for, and every
\* value has the type its symbol has in the grammar: a list has the elements of
\* its list, an action never takes $i for another, and the root is a function.
ParserTypeOK ==
  /\ frames # <<>> /\ frames[1].rule.lhs = "Program"
  /\ \A i \in DOMAIN frames :
       /\ frames[i].rule \in Grammar /\ Len(frames[i].values) <= Len(frames[i].rule.rhs)
       /\ \A j \in DOMAIN frames[i].values : HasType(frames[i].rule.rhs[j], frames[i].values[j])
       /\ i > 1 => ~Complete(frames[i - 1]) /\ frames[i].rule.lhs = Expected(frames[i - 1])
  /\ \A i \in DOMAIN tokens : tokens[i].node \in terminals
  /\ root = NULL \/ HasType("Func_def", root)

\* The tree is the program: nothing that was read is lost, doubled or out of
\* order, in lists filled from their end, nested in one another to any depth, and
\* in the branches of an if.
TreeIsTheProgram == root # NULL => Text(<<root>>, reductions) = tokens
=============================================================================
