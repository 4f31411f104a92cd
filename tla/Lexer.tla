------------------------------- MODULE Lexer -------------------------------
(* The lexer (src/lexer/lexer.l) and the two places that read a literal once *)
(* more: fixSingleChar() and the constructor of StringLiteral                *)
(* (src/parser/parsing.cpp).                                                 *)
(*                                                                           *)
(* A text is a sequence of classes of characters.  The scanner takes, of all *)
(* rules that match what is left, the longest and among those the first; two *)
(* counters of lines run beside it.  Keywords are words like others here.    *)
EXTENDS Naturals, Sequences, FiniteSets, FiniteSetsExt, SequencesExt

CONSTANTS
  Texts,      \* the texts to scan, as sequences of classes
  MaxDigits   \* digits of the longest literal that fits an int

Digits      == {"0", "digit"}              \* "digit" for 1 to 9
Letters     == {"a", "A", "n", "x", "letter"}   \* a to f, A to F, n t r, x, all others
Operators   == {"<", "*", ">", "=", "+", "/"}   \* "+" also for -, "/" also for #
Separators  == {":", "("}
Blanks      == {" ", "tab"}                     \* "tab" also for \r
\* "_" also for ?; "other" and "byte" begin no rule, "byte" is not printable.
Classes     == Digits \cup Letters \cup Operators \cup Separators \cup Blanks
                 \cup {"'", "quote", "backslash", "%", "nl", "_", "other", "byte"}
Printable   == Classes \ {"nl", "tab", "byte"}

ASSUME LexerAssumption == Texts \subseteq Seq(Classes) /\ MaxDigits \in Nat

VARIABLES
  text,             \* the input
  at,               \* how much of it is scanned
  mode,             \* "INITIAL" or "COMMENT"
  comment_counter,
  linecount,        \* counted by the rules, for error()
  yylineno,         \* counted by flex, for yyerror()
  matches,          \* the rules that matched, in order: [rule, body]
  outcome           \* "scanning", "ended", "error" (exit(1)) or "abort" (an exception)

vars == <<text, at, mode, comment_counter, linecount, yylineno, matches, outcome>>

Rest == SubSeq(text, at + 1, Len(text))
Lines(s) == Cardinality({i \in DOMAIN s : s[i] = "nl"})

-----------------------------------------------------------------------------
(* The rules: how much of r, the rest of the text, each of them matches.     *)

\* The longest prefix of r made of the classes c.
Run(r, c) ==
  CHOOSE n \in 0 .. Len(r) : (\A i \in 1 .. n : r[i] \in c) /\ (n = Len(r) \/ r[n + 1] \notin c)
StartsWith(r, s) == Len(r) >= Len(s) /\ SubSeq(r, 1, Len(s)) = s

\* What follows a backslash: a letter for a control character, a quote, a
\* backslash or the code of a character.
SimpleEscapes == {"n", "0", "'", "quote", "backslash"}
Hex == Digits \cup {"a"}

CharLiteral(r) ==
  CASE Len(r) > 3 /\ r[1] = "'" /\ r[2] = "backslash" /\ r[3] \in SimpleEscapes /\ r[4] = "'" -> 4
    [] Len(r) > 5 /\ r[1] = "'" /\ r[2] = "backslash" /\ r[3] = "x" /\ {r[4], r[5]} \subseteq Hex /\ r[6] = "'" -> 6
    [] Len(r) > 2 /\ r[1] = "'" /\ r[2] \in Printable \ {"'"} /\ r[3] = "'"
         /\ ~(Len(r) > 3 /\ r[2] = "backslash" /\ r[4] = "'") -> 3
    [] OTHER -> 0

\* Mutation: the last quote on the line.
StringLiteralGreedy(r) ==
  IF r[1] # "quote" THEN 0
  ELSE Max({0} \cup {n \in 2 .. Len(r) : r[n] = "quote" /\ \A k \in 2 .. n - 1 : r[k] \in Printable})

\* The last quote that is reached over printable characters and no quote but \".
StringLiteral(r) ==
  IF r[1] # "quote" THEN 0
  ELSE Max({0} \cup {n \in 2 .. Len(r) :
         r[n] = "quote" /\ \A k \in 2 .. n - 1 : r[k] \in Printable /\ (r[k] = "quote" => k > 2 /\ r[k - 1] = "backslash")})

LineComment(r) ==
  IF r[1] # "%" THEN 0
  ELSE LET n == Run(r, Classes \ {"nl"}) IN IF n < Len(r) THEN n + 1 ELSE 0

\* In the order of the file, and how much of r each of them matches.
Rules == <<"number", "operator", "pair", "separator", "word", "char", "string", "line", "open",
           "white", "newline", "any">>
Pairs == {<<"<", "=">>, <<">", "=">>, <<"<", ">">>, <<":", "=">>}

If(condition, n) == IF condition THEN n ELSE 0
Lengths(r) ==
  <<Run(r, Digits),
    If(r[1] \in Operators, 1),
    If(Len(r) > 1 /\ SubSeq(r, 1, 2) \in Pairs, 2),
    If(r[1] \in Separators, 1),
    If(r[1] \in Letters, Run(r, Letters \cup Digits \cup {"_"})),
    CharLiteral(r),
    StringLiteral(r),
    LineComment(r),
    If(StartsWith(r, <<"<", "*">>), 2),
    Run(r, Blanks),
    If(r[1] = "nl", 1),
    If(r[1] # "nl", 1)>>

\* The longest match, the first of those, of rules that match n[1], n[2], ...
Chosen(i, n) == \A j \in DOMAIN Rules : n[j] < n[i] \/ (n[j] = n[i] /\ i <= j)

-----------------------------------------------------------------------------
(* The literals, read again.                                                 *)

\* Mutation: anything is a character.
CharAccepted(body) == "scanning"

\* fixSingleChar: a backslash on its own is no escape.
CharOutcome(body) == IF body = <<"backslash">> THEN "error" ELSE "scanning"

\* std::stoi(s, 0, 16) skips a blank or a sign and takes the digits it finds,
\* capitals too.
StoiDigits == Hex \cup {"A"}
Converts(s) ==
  s # <<>> /\ (s[1] \in StoiDigits \/ (Len(s) = 2 /\ s[1] \in {" ", "+"} /\ s[2] \in StoiDigits))

\* Mutation: an unknown escape gets converted too.
TurnConvertsAll(b, i) ==
  IF b[i] # "backslash" \/ (i < Len(b) /\ b[i + 1] \in SimpleEscapes) THEN "scanning"
  ELSE IF i = Len(b) THEN "error"
  ELSE IF Converts(SubSeq(b, i + 2, Min({i + 3, Len(b)}))) THEN "scanning"
  ELSE "abort"

\* One turn of the constructor's loop at b[i]: what comes of it, what it takes.
Turn(b, i) ==
  IF b[i] # "backslash" THEN "scanning"
  ELSE IF i = Len(b) THEN "error"
  ELSE IF b[i + 1] \in SimpleEscapes THEN "scanning"
  ELSE IF b[i + 1] # "x" THEN "error"
  ELSE IF Converts(SubSeq(b, i + 2, Min({i + 3, Len(b)}))) THEN "scanning"
  ELSE "abort"
Width(b, i) == IF b[i] # "backslash" THEN 1 ELSE IF b[i + 1] = "x" THEN 4 ELSE 2

\* The indices the loop gets to.
Visited(b) ==
  LET visited[i \in DOMAIN b] ==
        i = 1 \/ \E j \in 1 .. i - 1 : visited[j] /\ Turn(b, j) = "scanning" /\ j + Width(b, j) = i
  IN {i \in DOMAIN b : visited[i]}

StringOutcome(b) ==
  LET bad == {i \in Visited(b) : Turn(b, i) # "scanning"} IN
  IF bad = {} THEN "scanning" ELSE Turn(b, Min(bad))

-----------------------------------------------------------------------------
(* The scanner.                                                              *)

Ready == outcome = "scanning" /\ at < Len(text)

\* Mutation: a rule takes the character after its match with it.
MatchOneMore(rule, n) ==
  /\ at' = at + n + 1
  /\ yylineno' = yylineno + Lines(SubSeq(Rest, 1, n))
  /\ matches' = Append(matches, [rule |-> rule, body |-> SubSeq(Rest, 2, n - 1)])
  /\ UNCHANGED text

\* flex advances and counts lines before the rule's own code runs.
Match(rule, n) ==
  /\ at' = at + n
  /\ yylineno' = yylineno + Lines(SubSeq(Rest, 1, n))
  /\ matches' = Append(matches, [rule |-> rule, body |-> SubSeq(Rest, 2, n - 1)])
  /\ UNCHANGED text

\* A token for the parser, or an error in what it stands for.
Token ==
  /\ Ready /\ mode = "INITIAL"
  /\ \E n \in {Lengths(Rest)} : \E i \in DOMAIN Rules :
       LET body == SubSeq(Rest, 2, n[i] - 1) IN
       /\ Chosen(i, n)
       /\ Rules[i] \in {"number", "operator", "pair", "separator", "word", "char", "string", "any"}
       /\ Match(Rules[i], n[i])
       /\ outcome' = CASE Rules[i] = "number" /\ n[i] > MaxDigits -> "abort"
                       [] Rules[i] = "char" -> CharOutcome(body)
                       [] Rules[i] = "string" -> StringOutcome(body)
                       [] Rules[i] = "any" -> "error"
                       [] OTHER -> "scanning"
  /\ UNCHANGED <<mode, comment_counter, linecount>>

\* What the parser never sees.
Skip ==
  /\ Ready /\ mode = "INITIAL"
  /\ \E n \in {Lengths(Rest)} : \E i \in DOMAIN Rules :
       /\ Chosen(i, n)
       /\ Rules[i] \in {"line", "open", "white", "newline"}
       /\ Match(Rules[i], n[i])
       /\ linecount' = IF Rules[i] \in {"line", "newline"} THEN linecount + 1 ELSE linecount
       /\ mode' = IF Rules[i] = "open" THEN "COMMENT" ELSE mode
  /\ UNCHANGED <<comment_counter, outcome>>

\* Mutations: comments do not nest; lines inside are not counted.
InCommentFlat ==
  /\ Ready /\ mode = "COMMENT"
  /\ IF StartsWith(Rest, <<"*", ">">>)
     THEN Match("close", 2) /\ mode' = "INITIAL" /\ UNCHANGED <<comment_counter, linecount>>
     ELSE /\ Match(IF StartsWith(Rest, <<"<", "*">>) THEN "reopen" ELSE "comment",
                   IF StartsWith(Rest, <<"<", "*">>) THEN 2 ELSE 1)
          /\ linecount' = linecount + Lines(<<Rest[1]>>)
          /\ UNCHANGED <<mode, comment_counter>>
  /\ UNCHANGED outcome
InCommentUncounted ==
  /\ Ready /\ mode = "COMMENT"
  /\ IF StartsWith(Rest, <<"*", ">">>)
     THEN /\ Match("close", 2)
          /\ mode' = IF comment_counter = 0 THEN "INITIAL" ELSE mode
          /\ comment_counter' = IF comment_counter = 0 THEN 0 ELSE comment_counter - 1
     ELSE IF StartsWith(Rest, <<"<", "*">>)
     THEN Match("reopen", 2) /\ comment_counter' = comment_counter + 1 /\ UNCHANGED mode
     ELSE Match("comment", 1) /\ UNCHANGED <<mode, comment_counter>>
  /\ UNCHANGED <<linecount, outcome>>

InComment ==
  /\ Ready /\ mode = "COMMENT"
  /\ \/ /\ StartsWith(Rest, <<"<", "*">>)
        /\ Match("reopen", 2)
        /\ comment_counter' = comment_counter + 1
        /\ UNCHANGED <<mode, linecount>>
     \/ /\ StartsWith(Rest, <<"*", ">">>)
        /\ Match("close", 2)
        /\ IF comment_counter > 0 THEN comment_counter' = comment_counter - 1 /\ UNCHANGED mode
           ELSE mode' = "INITIAL" /\ UNCHANGED comment_counter
        /\ UNCHANGED linecount
     \/ /\ ~StartsWith(Rest, <<"<", "*">>) /\ ~StartsWith(Rest, <<"*", ">">>)
        /\ Match("comment", 1)
        /\ linecount' = IF Rest[1] = "nl" THEN linecount + 1 ELSE linecount
        /\ UNCHANGED <<mode, comment_counter>>
  /\ UNCHANGED outcome

\* Mutation: the end is not noticed inside a comment.
EndInInitial ==
  /\ outcome = "scanning" /\ at = Len(text) /\ mode = "INITIAL"
  /\ outcome' = "ended"
  /\ UNCHANGED <<text, at, mode, comment_counter, linecount, yylineno, matches>>

\* flex ends at the end of the text, also inside a comment.
End ==
  /\ outcome = "scanning" /\ at = Len(text)
  /\ outcome' = "ended"
  /\ UNCHANGED <<text, at, mode, comment_counter, linecount, yylineno, matches>>

Init ==
  /\ text \in Texts
  /\ at = 0 /\ mode = "INITIAL" /\ comment_counter = 0
  /\ linecount = 1 /\ yylineno = 1
  /\ matches = <<>> /\ outcome = "scanning"

Next == Token \/ Skip \/ InComment \/ End

\* The parser asks for tokens until the text ends.
Spec == Init /\ [][Next]_vars /\ WF_vars(Next)

-----------------------------------------------------------------------------
(* Properties.                                                               *)

Count(rules) == Cardinality({i \in DOMAIN matches : matches[i].rule \in rules})

\* Types of the state; the scanner never runs past the text.
LexerTypeOK ==
  /\ at \in 0 .. Len(text)
  /\ mode \in {"INITIAL", "COMMENT"}
  /\ {comment_counter, linecount, yylineno} \subseteq Nat
  /\ \A i \in DOMAIN matches : matches[i].rule \in ToSet(Rules) \cup {"reopen", "close", "comment"}
  /\ outcome \in {"scanning", "ended", "error", "abort"}

\* error() is given linecount by the lexer and yylineno by the parser: both are
\* the number of the line the scanner is in, across comments of both kinds.
LineCountersAgree ==
  /\ linecount = yylineno
  /\ linecount = 1 + Lines(SubSeq(text, 1, at))

\* Comments nest: outside a comment everything opened was closed, and inside
\* comment_counter is one less than what is open.
CommentsNest ==
  LET depth == Count({"open", "reopen"}) - Count({"close"}) IN
  IF mode = "INITIAL" THEN depth = 0 /\ comment_counter = 0 ELSE depth = comment_counter + 1

\* No text keeps the scanner going for ever, or stops it without an answer.
ScanEnds == <>(outcome # "scanning")

\* A character the parser is given is one character or one whole escape: the
\* pattern takes a backslash for a printable character, and only the second
\* reading (fixSingleChar) refuses it.
CharsAreWhole ==
  outcome \in {"scanning", "ended"} =>
    \A m \in ToSet(matches) : m.rule = "char" =>
      \/ Len(m.body) = 1 /\ m.body # <<"backslash">>
      \/ Len(m.body) = 2 /\ m.body[1] = "backslash" /\ m.body[2] \in SimpleEscapes
      \/ Len(m.body) = 4 /\ m.body[1] = "backslash" /\ m.body[2] = "x"

\* std::stoi is the only thing that throws: on a number that fits no int, or on
\* \x in a string without a digit after it.  Every other text ends with
\* exit(0) or with exit(1) and a message.
ThrowsOnConversions ==
  outcome = "abort" =>
    LET m == Last(matches) IN
    \/ m.rule = "number" /\ Len(m.body) + 2 > MaxDigits
    \/ /\ m.rule = "string"
       /\ \E i \in Visited(m.body) :
            /\ SubSeq(m.body, i, i + 1) = <<"backslash", "x">>
            /\ i + 2 > Len(m.body) \/ m.body[i + 2] \notin StoiDigits

\* The pattern for strings and the constructor decide by different readings
\* which quotes are escaped.  They agree on where a string ends, but where the
\* backslash before a quote was already taken by an escape: in the text
\* "a\\", "b" both strings and the comma are one token.
StringsEndAtQuotes ==
  \A m \in ToSet(matches) : m.rule = "string" =>
    \A i \in Visited(m.body) : m.body[i] = "quote" =>
      /\ i > 2 /\ m.body[i - 1] = "backslash"
      /\ \E j \in Visited(m.body) : m.body[j] = "backslash" /\ j < i - 1 /\ i - 1 < j + Width(m.body, j)
=============================================================================
