---------------------------- MODULE LexerProofs ----------------------------
(* Proofs about the lexer, for every text: the two counters of lines agree,  *)
(* comments nest, characters are whole, strings end at their quotes and only *)
(* conversions throw.                                                        *)
EXTENDS Lexer, LeastNumbers, SequenceTheorems, FiniteSetTheorems

-----------------------------------------------------------------------------
(* The rules.                                                                *)

\* A run is a prefix of such characters, and as long as it can be.
LEMMA RunIsLongest ==
  ASSUME NEW r \in Seq(Classes), NEW c
  PROVE  /\ Run(r, c) \in 0 .. Len(r)
         /\ \A i \in 1 .. Run(r, c) : r[i] \in c
         /\ Run(r, c) = Len(r) \/ r[Run(r, c) + 1] \notin c
<1> DEFINE stops == {n \in 0 .. Len(r) : n = Len(r) \/ r[n + 1] \notin c}
<1>1. Len(r) \in Nat
  BY LenProperties
<1>2. stops \subseteq Nat /\ Len(r) \in stops
  BY <1>1
<1>3. PICK n \in stops : \A k \in stops : n <= k
  <2> HIDE DEF stops
  <2> QED
    BY <1>2, LeastNumber
<1>4. n \in 0 .. Len(r) /\ (n = Len(r) \/ r[n + 1] \notin c)
  BY <1>3
<1>5. ASSUME NEW i \in 1 .. n PROVE r[i] \in c
  <2>1. i - 1 \in 0 .. Len(r) /\ i - 1 < n /\ i - 1 # Len(r) /\ (i - 1) + 1 = i
    BY <1>1, <1>4
  <2>2. i - 1 \notin stops
    <3> HIDE DEF stops
    <3>1. ASSUME i - 1 \in stops PROVE FALSE
      <4>1. n <= i - 1
        BY <1>3, <3>1
      <4> QED
        BY <1>4, <2>1, <4>1
    <3> QED
      BY <3>1
  <2> QED
    BY <2>1, <2>2
<1>6. \E m \in 0 .. Len(r) : (\A i \in 1 .. m : r[i] \in c) /\ (m = Len(r) \/ r[m + 1] \notin c)
  BY <1>4, <1>5
<1> QED
  BY <1>6, Zenon DEF Run

\* What a rule takes is a part of the text, on one line but for its last
\* character.
OnOneLine(r, n) == n \in 0 .. Len(r) /\ \A k \in 1 .. n - 1 : r[k] # "nl"

LEMMA CharTakes ==
  ASSUME NEW r \in Seq(Classes), CharLiteral(r) # 0
  PROVE  /\ OnOneLine(r, CharLiteral(r)) /\ r[CharLiteral(r)] = "'"
         /\ \/ CharLiteral(r) = 4 /\ r[2] = "backslash" /\ r[3] \in SimpleEscapes
            \/ CharLiteral(r) = 6 /\ r[2] = "backslash" /\ r[3] = "x"
            \/ CharLiteral(r) = 3
<1>1. Len(r) \in Nat
  BY LenProperties
<1>2. \/ /\ CharLiteral(r) = 4 /\ Len(r) > 3
         /\ r[1] = "'" /\ r[2] = "backslash" /\ r[3] \in SimpleEscapes /\ r[4] = "'"
      \/ /\ CharLiteral(r) = 6 /\ Len(r) > 5 /\ r[1] = "'" /\ r[2] = "backslash" /\ r[3] = "x"
         /\ {r[4], r[5]} \subseteq Hex /\ r[6] = "'"
      \/ /\ CharLiteral(r) = 3 /\ Len(r) > 2
         /\ r[1] = "'" /\ r[2] \in Printable \ {"'"} /\ r[3] = "'"
  BY DEF CharLiteral
<1>3. "nl" \notin SimpleEscapes \cup Hex \cup Printable
  BY DEF SimpleEscapes, Hex, Digits, Printable
<1>4. CASE CharLiteral(r) = 4
  <2>1. \A k \in 1 .. 3 : k = 1 \/ k = 2 \/ k = 3
    OBVIOUS
  <2> QED
    BY <1>1, <1>2, <1>3, <1>4, <2>1 DEF OnOneLine
<1>5. CASE CharLiteral(r) = 6
  <2>1. \A k \in 1 .. 5 : k = 1 \/ k = 2 \/ k = 3 \/ k = 4 \/ k = 5
    OBVIOUS
  <2> QED
    BY <1>1, <1>2, <1>3, <1>5, <2>1 DEF OnOneLine
<1>6. CASE CharLiteral(r) = 3
  <2>1. \A k \in 1 .. 2 : k = 1 \/ k = 2
    OBVIOUS
  <2> QED
    BY <1>1, <1>2, <1>3, <1>6, <2>1 DEF OnOneLine
<1> QED
  BY <1>2, <1>4, <1>5, <1>6

LEMMA StringTakes ==
  ASSUME NEW r \in Seq(Classes), r # <<>>, StringLiteral(r) # 0
  PROVE  /\ OnOneLine(r, StringLiteral(r)) /\ StringLiteral(r) >= 2 /\ r[StringLiteral(r)] = "quote"
         /\ \A k \in 2 .. StringLiteral(r) - 1 : r[k] = "quote" => k > 2 /\ r[k - 1] = "backslash"
<1> DEFINE ends == {n \in 2 .. Len(r) : r[n] = "quote" /\ \A k \in 2 .. n - 1 :
                      r[k] \in Printable /\ (r[k] = "quote" => k > 2 /\ r[k - 1] = "backslash")}
<1>1. Len(r) \in Nat
  BY LenProperties
<1>2. r[1] = "quote" /\ StringLiteral(r) = Max({0} \cup ends)
  BY DEF StringLiteral
<1>3. {0} \cup ends \subseteq 0 .. Len(r) /\ {0} \cup ends # {}
  BY <1>1
<1>4. StringLiteral(r) \in ends
  <2> HIDE DEF ends
  <2>1. Max({0} \cup ends) \in {0} \cup ends
    BY <1>1, <1>3, MaxIsGreatest
  <2> QED
    BY <1>2, <2>1
<1> DEFINE n == StringLiteral(r)
<1> HIDE DEF n
<1>5. /\ n \in 2 .. Len(r) /\ r[n] = "quote"
      /\ \A k \in 2 .. n - 1 : r[k] \in Printable /\ (r[k] = "quote" => k > 2 /\ r[k - 1] = "backslash")
  BY <1>4 DEF n
<1>6. \A k \in 1 .. n - 1 : k = 1 \/ k \in 2 .. n - 1
  BY <1>1, <1>5
<1>7. OnOneLine(r, n) /\ n >= 2
  <2>1. "nl" \notin Printable /\ "quote" # "nl"
    BY DEF Printable
  <2>2. \A k \in 1 .. n - 1 : r[k] # "nl"
    BY <1>2, <1>5, <1>6, <2>1
  <2> QED
    BY <1>1, <1>5, <2>2 DEF OnOneLine
<1> QED
  BY <1>5, <1>7 DEF n

LEMMA LineTakes ==
  ASSUME NEW r \in Seq(Classes), r # <<>>, LineComment(r) # 0
  PROVE  OnOneLine(r, LineComment(r)) /\ LineComment(r) >= 1 /\ r[LineComment(r)] = "nl"
<1> DEFINE n == Run(r, Classes \ {"nl"})
<1>1. /\ Len(r) \in Nat /\ n \in 0 .. Len(r)
      /\ \A i \in 1 .. n : r[i] \in Classes \ {"nl"}
      /\ n = Len(r) \/ r[n + 1] \notin Classes \ {"nl"}
  BY LenProperties, RunIsLongest
<1>2. n < Len(r) /\ LineComment(r) = n + 1
  BY <1>1 DEF LineComment
<1> HIDE DEF n
<1>3. r[n + 1] \in Classes
  BY <1>1, <1>2, ElementOfSeq
<1>4. r[n + 1] = "nl"
  BY <1>1, <1>2, <1>3
<1> QED
  BY <1>1, <1>2, <1>4 DEF OnOneLine

LEMMA FirstTwo ==
  ASSUME NEW r \in Seq(Classes)
  PROVE  /\ Len(r) > 1 => SubSeq(r, 1, 2)[1] = r[1] /\ SubSeq(r, 1, 2)[2] = r[2]
         /\ \A a, b : StartsWith(r, <<a, b>>) => Len(r) > 1 /\ r[1] = a /\ r[2] = b
<1>1. ASSUME Len(r) > 1 PROVE SubSeq(r, 1, 2)[1] = r[1] /\ SubSeq(r, 1, 2)[2] = r[2]
  <2>1. Len(r) \in Nat /\ \A i \in 1 .. 2 : r[i] \in Classes
    BY <1>1, LenProperties, ElementOfSeq
  <2>2. \A i \in 1 .. 2 - 1 + 1 : SubSeq(r, 1, 2)[i] = r[1 + i - 1]
    BY <2>1, SubSeqProperties
  <2> QED
    BY <2>2
<1>2. ASSUME NEW a, NEW b, StartsWith(r, <<a, b>>) PROVE Len(r) > 1 /\ r[1] = a /\ r[2] = b
  <2>1. Len(<<a, b>>) = 2 /\ <<a, b>>[1] = a /\ <<a, b>>[2] = b /\ Len(r) \in Nat
    BY LenProperties
  <2>2. Len(r) >= 2 /\ SubSeq(r, 1, 2) = <<a, b>>
    BY <1>2, <2>1 DEF StartsWith
  <2>3. Len(r) > 1
    BY <2>1, <2>2
  <2>4. SubSeq(r, 1, 2)[1] = r[1] /\ SubSeq(r, 1, 2)[2] = r[2]
    BY <1>1, <2>3
  <2>5. r[1] = <<a, b>>[1] /\ r[2] = <<a, b>>[2]
    BY <2>2, <2>4
  <2> QED
    BY <2>1, <2>3, <2>5
<1> QED
  BY <1>1, <1>2

\* The rules one by one, and what each of them takes.
LEMMA RulesTake ==
  ASSUME NEW r \in Seq(Classes), r # <<>>, NEW i \in DOMAIN Rules, Lengths(r)[i] # 0
  PROVE  LET n == Lengths(r)[i] IN
         /\ OnOneLine(r, n) /\ n >= 1
         /\ r[n] = "nl" <=> Rules[i] \in {"line", "newline"}
         /\ Rules[i] = "char" => n = CharLiteral(r)
         /\ Rules[i] = "string" => n = StringLiteral(r)
         /\ i <= 12
<1> DEFINE n == Lengths(r)[i]
<1>1. Len(r) \in Nat \ {0} /\ r[1] \in Classes
  BY LenProperties, EmptySeq, ElementOfSeq
<1>2. i \in 1 .. 12
  BY DEF Rules
<1>3. "nl" \notin Digits \cup Letters \cup Operators \cup Separators \cup Blanks
  BY DEF Digits, Letters, Operators, Separators, Blanks
<1>4. ASSUME NEW c, "nl" \notin c, Run(r, c) # 0, n = Run(r, c)
      PROVE  OnOneLine(r, n) /\ n >= 1 /\ r[n] # "nl"
  BY <1>1, <1>4, RunIsLongest DEF OnOneLine
<1>5. ASSUME n = 1 PROVE OnOneLine(r, n)
  BY <1>1, <1>5 DEF OnOneLine
<1>6. CASE i = 1
  <2>1. n = Run(r, Digits) /\ Rules[i] = "number"
    BY <1>6 DEF Lengths, Rules
  <2> QED
    BY <1>2, <1>3, <1>4, <2>1
<1>7. CASE i = 2
  <2>1. n = 1 /\ r[1] \in Operators /\ Rules[i] = "operator"
    BY <1>7 DEF Lengths, Rules, If
  <2> QED
    BY <1>2, <1>3, <1>5, <2>1
<1>8. CASE i = 3
  <2>1. n = 2 /\ Len(r) > 1 /\ SubSeq(r, 1, 2) \in Pairs /\ Rules[i] = "pair"
    BY <1>8 DEF Lengths, Rules, If
  <2>2. r[1] # "nl" /\ r[2] # "nl"
    <3>1. SubSeq(r, 1, 2)[1] = r[1] /\ SubSeq(r, 1, 2)[2] = r[2]
      BY <2>1, FirstTwo
    <3> DEFINE p == SubSeq(r, 1, 2)
    <3>2. p \in Pairs
      BY <2>1
    <3> HIDE DEF p
    <3>3. p[1] # "nl" /\ p[2] # "nl"
      BY <3>2 DEF Pairs
    <3> QED
      BY <3>1, <3>3 DEF p
  <2>3. OnOneLine(r, n)
    BY <1>1, <2>1, <2>2 DEF OnOneLine
  <2> QED
    BY <1>2, <2>1, <2>2, <2>3
<1>9. CASE i = 4
  <2>1. n = 1 /\ r[1] \in Separators /\ Rules[i] = "separator"
    BY <1>9 DEF Lengths, Rules, If
  <2> QED
    BY <1>2, <1>3, <1>5, <2>1
<1>10. CASE i = 5
  <2> DEFINE c == Letters \cup Digits \cup {"_"}
  <2>1. n = Run(r, c) /\ Rules[i] = "word"
    BY <1>10 DEF Lengths, Rules, If
  <2>2. "nl" \notin c
    BY <1>3
  <2> HIDE DEF c
  <2> QED
    BY <1>2, <1>4, <2>1, <2>2
<1>11. CASE i = 6
  <2>1. n = CharLiteral(r) /\ Rules[i] = "char"
    BY <1>11 DEF Lengths, Rules
  <2> QED
    BY <1>2, <2>1, CharTakes DEF OnOneLine
<1>12. CASE i = 7
  <2>1. n = StringLiteral(r) /\ Rules[i] = "string"
    BY <1>12 DEF Lengths, Rules
  <2> QED
    <3>1. /\ OnOneLine(r, n) /\ n >= 2 /\ r[n] = "quote"
      BY <2>1, StringTakes
    <3>2. n >= 1
      BY <1>1, <3>1 DEF OnOneLine
    <3> QED
      BY <1>2, <2>1, <3>1, <3>2
<1>13. CASE i = 8
  <2>1. n = LineComment(r) /\ Rules[i] = "line"
    BY <1>13 DEF Lengths, Rules
  <2> QED
    BY <1>2, <2>1, LineTakes
<1>14. CASE i = 9
  <2>1. n = 2 /\ StartsWith(r, <<"<", "*">>) /\ Rules[i] = "open"
    BY <1>14 DEF Lengths, Rules, If
  <2>2. Len(r) > 1 /\ r[1] = "<" /\ r[2] = "*"
    BY <2>1, FirstTwo
  <2>3. OnOneLine(r, n)
    BY <1>1, <2>1, <2>2 DEF OnOneLine
  <2> QED
    BY <1>2, <2>1, <2>2, <2>3
<1>15. CASE i = 10
  <2>1. n = Run(r, Blanks) /\ Rules[i] = "white"
    BY <1>15 DEF Lengths, Rules
  <2> QED
    BY <1>2, <1>3, <1>4, <2>1
<1>16. CASE i = 11
  <2>1. n = 1 /\ r[1] = "nl" /\ Rules[i] = "newline"
    BY <1>16 DEF Lengths, Rules, If
  <2> QED
    BY <1>2, <1>5, <2>1
<1>17. CASE i = 12
  <2>1. n = 1 /\ r[1] # "nl" /\ Rules[i] = "any"
    BY <1>17 DEF Lengths, Rules, If
  <2> QED
    BY <1>2, <1>5, <2>1
<1> QED
  BY <1>2, <1>6, <1>7, <1>8, <1>9, <1>10, <1>11, <1>12, <1>13, <1>14, <1>15, <1>16, <1>17

\* The rule chosen takes something: the last two match any one character.
LEMMA ChosenTakes ==
  ASSUME NEW r \in Seq(Classes), r # <<>>, NEW i \in DOMAIN Rules, Chosen(i, Lengths(r))
  PROVE  Lengths(r)[i] # 0
<1>1. Lengths(r)[11] = 1 \/ Lengths(r)[12] = 1
  BY DEF Lengths, If
<1>2. 11 \in DOMAIN Rules /\ 12 \in DOMAIN Rules /\ i \in 1 .. 12
  BY DEF Rules
<1> QED
  BY <1>1, <1>2 DEF Chosen

-----------------------------------------------------------------------------
(* Counting.                                                                 *)

AllRules == ToSet(Rules) \cup {"reopen", "close", "comment"}
Matched  == [rule : AllRules, body : Seq(Classes)]

LEMMA CountingMatches ==
  ASSUME NEW s \in Seq(Matched), NEW m \in Matched, NEW rules
  PROVE  LET In(q) == Cardinality({i \in DOMAIN q : q[i].rule \in rules}) IN
         /\ In(s) \in Nat
         /\ In(Append(s, m)) = In(s) + IF m.rule \in rules THEN 1 ELSE 0
<1> DEFINE old == {i \in DOMAIN s : s[i].rule \in rules}
           new == {i \in DOMAIN Append(s, m) : Append(s, m)[i].rule \in rules}
           n   == Len(s)
<1>1. n \in Nat /\ DOMAIN s = 1 .. n
  BY LenProperties
<1>2. /\ DOMAIN Append(s, m) = 1 .. n + 1 /\ Append(s, m)[n + 1] = m
      /\ \A i \in 1 .. n : Append(s, m)[i] = s[i]
  <2>1. Append(s, m) \in Seq(Matched) /\ Len(Append(s, m)) = n + 1
    BY AppendProperties
  <2> QED
    BY <2>1, AppendProperties, LenProperties
<1>3. IsFiniteSet(old) /\ Cardinality(old) \in Nat /\ n + 1 \notin old
  <2>1. IsFiniteSet(1 .. n) /\ old \in SUBSET (1 .. n)
    BY <1>1, FS_Interval
  <2>2. IsFiniteSet(old)
    BY <2>1, FS_Subset
  <2> QED
    BY <1>1, <2>1, <2>2, FS_CardinalityType
<1>4. new = IF m.rule \in rules THEN old \cup {n + 1} ELSE old
  <2>1. \A i : i \in 1 .. n + 1 <=> i \in 1 .. n \/ i = n + 1
    BY <1>1
  <2> QED
    BY <1>1, <1>2, <2>1
<1> HIDE DEF old, new, n
<1>5. Cardinality(new) = Cardinality(old) + IF m.rule \in rules THEN 1 ELSE 0
  <2>1. Cardinality(old \cup {n + 1}) = Cardinality(old) + 1
    BY <1>3, FS_AddElement
  <2> QED
    BY <1>3, <1>4, <2>1
<1> QED
  BY <1>3, <1>5 DEF old, new

\* A part of the text on one line ends at most that line.
LEMMA CountingLines ==
  ASSUME NEW t \in Seq(Classes), NEW a \in 0 .. Len(t), NEW n \in Nat, n >= 1,
         OnOneLine(SubSeq(t, a + 1, Len(t)), n)
  PROVE  LET r == SubSeq(t, a + 1, Len(t))
             d == IF r[n] = "nl" THEN 1 ELSE 0
         IN /\ a + n \in 0 .. Len(t)
            /\ Lines(SubSeq(t, 1, a)) \in Nat
            /\ Lines(SubSeq(t, 1, a + n)) = Lines(SubSeq(t, 1, a)) + d
            /\ Lines(SubSeq(r, 1, n)) = d
<1> DEFINE r == SubSeq(t, a + 1, Len(t))
           d == IF r[n] = "nl" THEN 1 ELSE 0
<1>1. Len(t) \in Nat /\ \A i \in 1 .. Len(t) : t[i] \in Classes
  BY LenProperties, ElementOfSeq
<1>2. /\ r \in Seq(Classes) /\ Len(r) = Len(t) - a /\ \A i \in 1 .. Len(t) - a : r[i] = t[a + i]
  <2>1. \A i \in a + 1 .. Len(t) : t[i] \in Classes
    BY <1>1
  <2>2. /\ r \in Seq(Classes) /\ Len(r) = IF a + 1 <= Len(t) THEN Len(t) - (a + 1) + 1 ELSE 0
        /\ \A i \in 1 .. Len(t) - (a + 1) + 1 : r[i] = t[(a + 1) + i - 1]
    BY <1>1, <2>1, SubSeqProperties
  <2> QED
    BY <1>1, <2>2
<1>3. n \in 1 .. Len(t) - a /\ \A k \in 1 .. n - 1 : r[k] # "nl"
  <2>1. OnOneLine(r, n)
    OBVIOUS
  <2> HIDE DEF r
  <2> QED
    BY <1>1, <1>2, <2>1 DEF OnOneLine
<1> HIDE DEF r
<1>4. \A k \in 0 .. Len(t) : LET p == SubSeq(t, 1, k) IN
        DOMAIN p = 1 .. k /\ \A i \in 1 .. k : p[i] = t[i]
  <2> TAKE k \in 0 .. Len(t)
  <2> DEFINE p == SubSeq(t, 1, k)
  <2>1. \A i \in 1 .. k : t[i] \in Classes
    BY <1>1
  <2>2. p \in Seq(Classes) /\ Len(p) = k /\ \A i \in 1 .. k - 1 + 1 : p[i] = t[1 + i - 1]
    BY <1>1, <2>1, SubSeqProperties
  <2> HIDE DEF p
  <2>3. DOMAIN p = 1 .. k
    BY <2>2, LenProperties
  <2> QED
    BY <2>2, <2>3 DEF p
<1> DEFINE p    == SubSeq(t, 1, a)
           q    == SubSeq(t, 1, a + n)
           here == SubSeq(r, 1, n)
           before == {i \in DOMAIN p : p[i] = "nl"}
           after  == {i \in DOMAIN q : q[i] = "nl"}
           among  == {i \in DOMAIN here : here[i] = "nl"}
<1>5. /\ DOMAIN p = 1 .. a /\ (\A i \in 1 .. a : p[i] = t[i])
      /\ DOMAIN q = 1 .. a + n /\ (\A i \in 1 .. a + n : q[i] = t[i])
  BY <1>1, <1>3, <1>4
<1>6. DOMAIN here = 1 .. n /\ \A i \in 1 .. n : here[i] = r[i]
  <2>1. \A i \in 1 .. n : r[i] \in Classes
    BY <1>1, <1>2, <1>3
  <2>2. here \in Seq(Classes) /\ Len(here) = n /\ \A i \in 1 .. n - 1 + 1 : here[i] = r[1 + i - 1]
    BY <1>3, <2>1, SubSeqProperties
  <2> HIDE DEF here
  <2>3. DOMAIN here = 1 .. n
    BY <2>2, LenProperties
  <2> QED
    BY <2>2, <2>3
<1> HIDE DEF p, q, here
<1>7. IsFiniteSet(before) /\ Cardinality(before) \in Nat /\ a + n \notin before
  <2>1. IsFiniteSet(1 .. a) /\ before \in SUBSET (1 .. a)
    BY <1>5, FS_Interval
  <2>2. IsFiniteSet(before)
    BY <2>1, FS_Subset
  <2>3. a + n \notin 1 .. a
    BY <1>1, <1>3
  <2> QED
    BY <2>1, <2>2, <2>3, FS_CardinalityType
<1>8. after = IF r[n] = "nl" THEN before \cup {a + n} ELSE before
  <2>1. \A i \in 1 .. a + n : \/ i \in 1 .. a
                              \/ i = a + n /\ t[i] = r[n]
                              \/ i \notin 1 .. a /\ i # a + n /\ t[i] # "nl"
    <3> TAKE i \in 1 .. a + n
    <3>1. CASE i \in 1 .. a
      BY <3>1
    <3>2. CASE i \notin 1 .. a
      <4>1. i - a \in 1 .. n /\ i - a \in 1 .. Len(t) - a /\ a + (i - a) = i
        BY <1>1, <1>3, <3>2
      <4>2. r[i - a] = t[i]
        BY <1>2, <4>1
      <4>3. i - a = n \/ i - a \in 1 .. n - 1
        BY <4>1
      <4> QED
        BY <1>3, <3>2, <4>1, <4>2, <4>3
    <3> QED
      BY <3>1, <3>2
  <2>2. a + n \in 1 .. a + n /\ 1 .. a \subseteq 1 .. a + n
    BY <1>1, <1>3
  <2>3. a + n \notin 1 .. a
    BY <1>1, <1>3
  <2>4. \A i : i \in after <=> i \in before \/ (i = a + n /\ r[n] = "nl")
    BY <1>5, <2>1, <2>2, <2>3
  <2> HIDE DEF before, after
  <2> QED
    BY <2>4
<1>9. among = IF r[n] = "nl" THEN {n} ELSE {}
  <2>1. \A i \in 1 .. n : i = n \/ r[i] # "nl"
    BY <1>3
  <2>2. \A i : i \in among <=> i = n /\ r[n] = "nl"
    BY <1>3, <1>6, <2>1
  <2> HIDE DEF among
  <2> QED
    BY <2>2
<1> HIDE DEF before, after, among
<1>10. Cardinality(after) = Cardinality(before) + d /\ Cardinality(among) = d
  <2>1. Cardinality(before \cup {a + n}) = Cardinality(before) + 1
    BY <1>7, FS_AddElement
  <2>2. Cardinality({n}) = 1 /\ Cardinality({}) = 0
    BY FS_EmptySet, FS_Singleton
  <2> QED
    BY <1>7, <1>8, <1>9, <2>1, <2>2
<1>11. Lines(p) = Cardinality(before) /\ Lines(q) = Cardinality(after) /\ Lines(here) = Cardinality(among)
  BY DEF Lines, before, after, among
<1>12. a + n \in 0 .. Len(t)
  BY <1>1, <1>3
<1> QED
  BY <1>7, <1>10, <1>11, <1>12 DEF p, q, here, r

-----------------------------------------------------------------------------
(* The literals, read again.                                                 *)

\* The loop gets to an index but the first by a turn at an earlier one.
LEMMA VisitedFromEarlier ==
  ASSUME NEW b \in Seq(Classes), NEW i \in Visited(b), i # 1
  PROVE  /\ i \in DOMAIN b
         /\ \E j \in 1 .. i - 1 :
              j \in Visited(b) /\ Turn(b, j) = "scanning" /\ j + Width(b, j) = i
<1> DEFINE n == Len(b)
           Reached(f, k) == k = 1 \/ \E j \in 1 .. k - 1 : f[j] /\ Turn(b, j) = "scanning" /\ j + Width(b, j) = k
           UpTo(f, k)    == f = [x \in 1 .. k |-> Reached(f, x)]
           visited[x \in DOMAIN b] ==
             x = 1 \/ \E j \in 1 .. x - 1 : visited[j] /\ Turn(b, j) = "scanning" /\ j + Width(b, j) = x
<1>1. n \in Nat /\ DOMAIN b = 1 .. n
  BY LenProperties
<1>2. \E f : UpTo(f, n)
  <2> DEFINE fails == {k \in 0 .. n : ~\E f : UpTo(f, k)}
  <2> SUFFICES ASSUME fails # {} PROVE FALSE
    <3>1. n \in 0 .. n
      BY <1>1
    <3> QED
      BY <3>1
  <2>1. fails \subseteq Nat
    BY <1>1
  <2>2. PICK k \in fails : \A x \in fails : k <= x
    <3> HIDE DEF fails
    <3> QED
      BY <2>1, LeastNumber
  <2>3. k # 0
    <3>1. UpTo([x \in 1 .. 0 |-> TRUE], 0)
      OBVIOUS
    <3> QED
      BY <3>1
  <2>4. PICK f : UpTo(f, k - 1)
    <3>1. k - 1 \in 0 .. n /\ ~(k <= k - 1)
      BY <1>1, <2>3
    <3>2. k - 1 \notin fails
      BY <2>2, <3>1
    <3> HIDE DEF UpTo
    <3> QED
      BY <3>1, <3>2
  <2> DEFINE g == [x \in 1 .. k |-> Reached(f, x)]
  <2>5. \A x \in 1 .. k - 1 : g[x] = f[x]
    <3>1. \A x \in 1 .. k - 1 : f[x] = Reached(f, x) /\ x \in 1 .. k
      BY <2>4
    <3> HIDE DEF Reached
    <3> QED
      BY <3>1
  <2>6. \A x \in 1 .. k : Reached(g, x) = Reached(f, x)
    <3>1. \A x \in 1 .. k : \A j \in 1 .. x - 1 : g[j] = f[j]
      <4>1. \A x \in 1 .. k : \A j \in 1 .. x - 1 : j \in 1 .. k - 1
        BY <1>1
      <4> HIDE DEF g
      <4> QED
        BY <2>5, <4>1
    <3> HIDE DEF g
    <3> QED
      BY <3>1
  <2>7. UpTo(g, k)
    <3> HIDE DEF Reached
    <3> QED
      BY <2>6
  <2> QED
    BY <2>2, <2>7
<1>3. visited = [x \in DOMAIN b |-> Reached(visited, x)]
  <2>1. \E f : f = [x \in DOMAIN b |-> Reached(f, x)]
    BY <1>1, <1>2
  <2> QED
    BY <2>1, Zenon DEF visited
<1>4. Visited(b) = {x \in DOMAIN b : visited[x]}
  BY DEF Visited
<1> HIDE DEF visited
<1>5. i \in DOMAIN b /\ Reached(visited, i)
  <2>1. i \in DOMAIN b /\ visited[i]
    BY <1>4
  <2>2. visited[i] = Reached(visited, i)
    <3> HIDE DEF Reached
    <3> QED
      BY <1>3, <2>1
  <2> QED
    BY <2>1, <2>2
<1>6. PICK j \in 1 .. i - 1 : visited[j] /\ Turn(b, j) = "scanning" /\ j + Width(b, j) = i
  BY <1>5
<1>7. j \in Visited(b)
  <2>1. j \in DOMAIN b
    BY <1>1, <1>5
  <2> QED
    BY <1>4, <1>6, <2>1
<1> QED
  BY <1>5, <1>6, <1>7

\* The body of a literal.
LEMMA BodyOfMatch ==
  ASSUME NEW r \in Seq(Classes), NEW n \in 1 .. Len(r)
  PROVE  LET body == SubSeq(r, 2, n - 1) IN
         /\ body \in Seq(Classes) /\ Len(body) = (IF n >= 3 THEN n - 2 ELSE 0)
         /\ DOMAIN body = 1 .. Len(body)
         /\ \A i \in 1 .. Len(body) : body[i] = r[i + 1]
<1> DEFINE body == SubSeq(r, 2, n - 1)
<1>1. Len(r) \in Nat /\ \A i \in 2 .. n - 1 : r[i] \in Classes
  BY LenProperties, ElementOfSeq
<1>2. /\ body \in Seq(Classes) /\ Len(body) = IF 2 <= n - 1 THEN (n - 1) - 2 + 1 ELSE 0
      /\ \A i \in 1 .. (n - 1) - 2 + 1 : body[i] = r[2 + i - 1]
  BY <1>1, SubSeqProperties
<1>3. DOMAIN body = 1 .. Len(body)
  BY <1>2, LenProperties
<1> HIDE DEF body
<1>4. Len(body) = (IF n >= 3 THEN n - 2 ELSE 0) /\ \A i \in 1 .. Len(body) : body[i] = r[i + 1]
  BY <1>1, <1>2
<1> QED
  BY <1>2, <1>3, <1>4 DEF body

\* fixSingleChar() leaves one character or one escape.
LEMMA CharIsWhole ==
  ASSUME NEW r \in Seq(Classes), CharLiteral(r) # 0,
         CharOutcome(SubSeq(r, 2, CharLiteral(r) - 1)) = "scanning"
  PROVE  LET body == SubSeq(r, 2, CharLiteral(r) - 1) IN
         \/ Len(body) = 1 /\ body # <<"backslash">>
         \/ Len(body) = 2 /\ body[1] = "backslash" /\ body[2] \in SimpleEscapes
         \/ Len(body) = 4 /\ body[1] = "backslash" /\ body[2] = "x"
<1> DEFINE n == CharLiteral(r)
           body == SubSeq(r, 2, n - 1)
<1>1. /\ n \in 1 .. Len(r)
      /\ \/ n = 4 /\ r[2] = "backslash" /\ r[3] \in SimpleEscapes
         \/ n = 6 /\ r[2] = "backslash" /\ r[3] = "x"
         \/ n = 3
  BY CharTakes DEF OnOneLine
<1> HIDE DEF n
<1>2. /\ Len(body) = IF n >= 3 THEN n - 2 ELSE 0
      /\ \A i \in 1 .. Len(body) : body[i] = r[i + 1]
  BY <1>1, BodyOfMatch
<1>3. body # <<"backslash">>
  BY DEF CharOutcome, n
<1> HIDE DEF body
<1>4. \/ Len(body) = 1
      \/ Len(body) = 2 /\ body[1] = "backslash" /\ body[2] \in SimpleEscapes
      \/ Len(body) = 4 /\ body[1] = "backslash" /\ body[2] = "x"
  BY <1>1, <1>2
<1> QED
  BY <1>3, <1>4 DEF body, n

\* A quote the constructor passes stands behind a backslash, and that one is
\* part of an escape already.
LEMMA QuoteIsEscaped ==
  ASSUME NEW r \in Seq(Classes), r # <<>>, StringLiteral(r) # 0,
         NEW i \in Visited(SubSeq(r, 2, StringLiteral(r) - 1)),
         SubSeq(r, 2, StringLiteral(r) - 1)[i] = "quote"
  PROVE  LET body == SubSeq(r, 2, StringLiteral(r) - 1) IN
         /\ i > 2 /\ body[i - 1] = "backslash"
         /\ \E j \in Visited(body) : body[j] = "backslash" /\ j < i - 1 /\ i - 1 < j + Width(body, j)
<1> DEFINE n == StringLiteral(r)
           body == SubSeq(r, 2, n - 1)
<1>1. /\ n \in 1 .. Len(r)
      /\ \A k \in 2 .. n - 1 : r[k] = "quote" => k > 2 /\ r[k - 1] = "backslash"
  <2>1. /\ OnOneLine(r, n) /\ n >= 2
        /\ \A k \in 2 .. n - 1 : r[k] = "quote" => k > 2 /\ r[k - 1] = "backslash"
    BY StringTakes
  <2> HIDE DEF n
  <2> QED
    BY <2>1, LenProperties DEF OnOneLine
<1> HIDE DEF n
<1>2. /\ body \in Seq(Classes) /\ Len(body) = (IF n >= 3 THEN n - 2 ELSE 0)
      /\ DOMAIN body = 1 .. Len(body)
      /\ \A k \in 1 .. Len(body) : body[k] = r[k + 1]
  BY <1>1, BodyOfMatch
<1>3. i \in Visited(body) /\ body[i] = "quote"
  BY DEF n
<1> HIDE DEF body
<1>4. PICK k \in 1 .. Len(body) : k = i
  BY <1>2, <1>3 DEF Visited
<1>5. k \in Visited(body) /\ body[k] = "quote" /\ Len(body) \in Nat
  BY <1>2, <1>3, <1>4, LenProperties
<1>6. k > 1 /\ body[k - 1] = "backslash"
  <2>1. k + 1 \in 2 .. n - 1 /\ r[k + 1] = "quote"
    BY <1>1, <1>2, <1>4, <1>5
  <2>2. k + 1 > 2 /\ r[(k + 1) - 1] = "backslash"
    BY <1>1, <2>1
  <2>3. k - 1 \in 1 .. Len(body) /\ (k - 1) + 1 = (k + 1) - 1
    BY <1>4, <1>5, <2>2
  <2>4. body[k - 1] = r[(k - 1) + 1]
    BY <1>2, <2>3
  <2>5. k > 1
    BY <2>3, <1>5
  <2>6. body[k - 1] = "backslash"
    BY <2>2, <2>3, <2>4
  <2> QED
    BY <2>5, <2>6
<1>7. PICK j \in 1 .. k - 1 : j \in Visited(body) /\ Turn(body, j) = "scanning" /\ j + Width(body, j) = k
  BY <1>2, <1>5, <1>6, VisitedFromEarlier
<1>8. body[j] = "backslash" /\ j < k - 1
  <2>1. Width(body, j) \in {1, 2, 4} /\ (Width(body, j) = 1 <=> body[j] # "backslash")
    BY DEF Width
  <2>2. j # k - 1
    <3>1. j = k - 1 => Width(body, j) = 1
      BY <1>4, <1>7, <2>1
    <3> QED
      BY <1>6, <2>1, <3>1
  <2>3. Width(body, j) # 1
    BY <1>4, <1>7, <2>1, <2>2
  <2> QED
    BY <1>4, <1>7, <2>1, <2>2, <2>3
<1>9. k > 2 /\ k - 1 < j + Width(body, j)
  BY <1>4, <1>7, <1>8
<1> QED
  BY <1>4, <1>6, <1>7, <1>8, <1>9 DEF body, n

\* The constructor throws where no digit follows \x.
LEMMA StringThrows ==
  ASSUME NEW b \in Seq(Classes), StringOutcome(b) = "abort"
  PROVE  \E i \in Visited(b) :
           /\ SubSeq(b, i, i + 1) = <<"backslash", "x">>
           /\ i + 2 > Len(b) \/ b[i + 2] \notin StoiDigits
<1> DEFINE bad == {i \in Visited(b) : Turn(b, i) # "scanning"}
<1>1. Len(b) \in Nat /\ \A k \in 1 .. Len(b) : b[k] \in Classes
  BY LenProperties, ElementOfSeq
<1>2. Visited(b) \subseteq 1 .. Len(b)
  BY LenProperties DEF Visited
<1>3. bad # {} /\ Turn(b, Min(bad)) = "abort"
  BY DEF StringOutcome
<1>4. Min(bad) \in bad
  <2>1. bad \subseteq Nat
    BY <1>1, <1>2
  <2> HIDE DEF bad
  <2> QED
    BY <1>3, <2>1, MinIsLeast
<1>5. PICK i \in 1 .. Len(b) : i \in Visited(b) /\ Turn(b, i) = "abort"
  BY <1>2, <1>3, <1>4
<1> DEFINE part == SubSeq(b, i + 2, Min({i + 3, Len(b)}))
<1>6. i # Len(b) /\ b[i] = "backslash" /\ b[i + 1] = "x" /\ ~Converts(part)
  BY <1>5 DEF Turn
<1> HIDE DEF part, bad
<1>10. i \in Nat /\ i >= 1 /\ i + 1 <= Len(b)
  BY <1>1, <1>5, <1>6
<1>7. SubSeq(b, i, i + 1) = <<"backslash", "x">>
  <2> DEFINE p == SubSeq(b, i, i + 1)
  <2>1. \A k \in i .. i + 1 : b[k] \in Classes
    BY <1>1, <1>6, <1>10
  <2>2. p \in Seq(Classes) /\ Len(p) = 2 /\ \A k \in 1 .. (i + 1) - i + 1 : p[k] = b[i + k - 1]
    BY <1>1, <1>6, <1>10, <2>1, SubSeqProperties
  <2> HIDE DEF p
  <2>3. p[1] = "backslash" /\ p[2] = "x"
    BY <1>6, <2>2
  <2>4. p = <<p[1], p[2]>>
    BY <2>2
  <2> QED
    BY <2>3, <2>4 DEF p
<1>8. ASSUME i + 2 <= Len(b), b[i + 2] \in StoiDigits PROVE FALSE
  <2> DEFINE e == Min({i + 3, Len(b)})
             s == SubSeq(b, i + 2, e)
  <2>1. e \in Nat /\ i + 2 <= e /\ e <= Len(b)
    <3>1. {i + 3, Len(b)} \subseteq Nat /\ {i + 3, Len(b)} # {}
      BY <1>1, <1>6, <1>10
    <3>2. e \in {i + 3, Len(b)} /\ \A k \in {i + 3, Len(b)} : e <= k
      BY <3>1, MinIsLeast
    <3> QED
      BY <1>1, <1>6, <1>10, <1>8, <3>2
  <2> HIDE DEF e
  <2>2. \A k \in i + 2 .. e : b[k] \in Classes
    BY <1>1, <1>6, <1>10, <2>1
  <2>3. s \in Seq(Classes) /\ Len(s) >= 1 /\ \A k \in 1 .. e - (i + 2) + 1 : s[k] = b[(i + 2) + k - 1]
    BY <1>1, <1>6, <1>10, <2>1, <2>2, SubSeqProperties
  <2>4. s # <<>> /\ s[1] = b[i + 2]
    BY <1>10, <2>1, <2>3, EmptySeq
  <2> HIDE DEF s
  <2>5. Converts(s)
    BY <1>8, <2>4 DEF Converts
  <2> QED
    BY <1>6, <2>5 DEF s, e, part
<1>9. i + 2 > Len(b) \/ b[i + 2] \notin StoiDigits
  BY <1>1, <1>6, <1>10, <1>8
<1> QED
  BY <1>5, <1>7, <1>9

-----------------------------------------------------------------------------
(* The invariant.                                                            *)

\* The text and the matches are made of what the scanner knows; the rest are
\* the properties themselves, which lean on each other: a match is judged by
\* what was scanned when it was made.
LexInv ==
  /\ text \in Seq(Classes)
  /\ matches \in Seq(Matched)
  /\ LexerTypeOK
  /\ LineCountersAgree
  /\ CommentsNest
  /\ CharsAreWhole
  /\ ThrowsOnConversions
  /\ StringsEndAtQuotes

\* What is left of the text.
LEMMA RestIsText ==
  ASSUME LexInv, Ready
  PROVE  Rest \in Seq(Classes) /\ Rest # <<>> /\ Len(Rest) = Len(text) - at /\ at \in 0 .. Len(text)
<1>1. text \in Seq(Classes) /\ Len(text) \in Nat /\ at \in 0 .. Len(text) /\ at < Len(text)
  BY LenProperties DEF LexInv, LexerTypeOK, Ready
<1>2. \A i \in at + 1 .. Len(text) : text[i] \in Classes
  BY <1>1, ElementOfSeq
<1>3. Rest \in Seq(Classes) /\ Len(Rest) = IF at + 1 <= Len(text) THEN Len(text) - (at + 1) + 1 ELSE 0
  BY <1>1, <1>2, SubSeqProperties DEF Rest
<1>4. Len(Rest) = Len(text) - at /\ Len(Rest) > 0
  BY <1>1, <1>3
<1> QED
  BY <1>1, <1>3, <1>4, EmptySeq

\* Every match moves on by what it takes, counts its lines and is noted.
LEMMA MatchTakes ==
  ASSUME LexInv, Ready, NEW rule \in AllRules, NEW n \in Nat, n >= 1, OnOneLine(Rest, n),
         Match(rule, n)
  PROVE  LET d == IF Rest[n] = "nl" THEN 1 ELSE 0
             m == [rule |-> rule, body |-> SubSeq(Rest, 2, n - 1)]
         IN /\ text' \in Seq(Classes) /\ at' \in 0 .. Len(text')
            /\ matches' = Append(matches, m) /\ matches' \in Seq(Matched)
            /\ yylineno' = yylineno + d
            /\ Lines(SubSeq(text, 1, at)) \in Nat
            /\ Lines(SubSeq(text', 1, at')) = Lines(SubSeq(text, 1, at)) + d
            /\ ToSet(matches') = ToSet(matches) \cup {m}
            /\ Last(matches') = m
<1> DEFINE d == IF Rest[n] = "nl" THEN 1 ELSE 0
           m == [rule |-> rule, body |-> SubSeq(Rest, 2, n - 1)]
<1>1. /\ Rest \in Seq(Classes) /\ Len(Rest) = Len(text) - at /\ at \in 0 .. Len(text)
      /\ text \in Seq(Classes) /\ matches \in Seq(Matched)
  BY RestIsText DEF LexInv
<1>2. /\ at + n \in 0 .. Len(text)
      /\ Lines(SubSeq(text, 1, at)) \in Nat
      /\ Lines(SubSeq(text, 1, at + n)) = Lines(SubSeq(text, 1, at)) + d
      /\ Lines(SubSeq(Rest, 1, n)) = d
  BY <1>1, CountingLines DEF Rest
<1>3. /\ text' = text /\ at' = at + n /\ yylineno' = yylineno + Lines(SubSeq(Rest, 1, n))
      /\ matches' = Append(matches, m)
  BY DEF Match
<1>4. m \in Matched
  <2>1. n \in 1 .. Len(Rest)
    BY DEF OnOneLine
  <2>2. SubSeq(Rest, 2, n - 1) \in Seq(Classes)
    BY <1>1, <2>1, BodyOfMatch
  <2> QED
    BY <2>2 DEF Matched
<1> HIDE DEF m, d
<1>5. /\ Append(matches, m) \in Seq(Matched) /\ Append(matches, m) # <<>>
      /\ Len(Append(matches, m)) = Len(matches) + 1
      /\ \A i \in 1 .. Len(matches) : Append(matches, m)[i] = matches[i]
      /\ Append(matches, m)[Len(matches) + 1] = m
  BY <1>1, <1>4, AppendProperties
<1>6. ToSet(Append(matches, m)) = ToSet(matches) \cup {m}
  <2> DEFINE q == Append(matches, m)
  <2>1. /\ Len(matches) \in Nat /\ DOMAIN matches = 1 .. Len(matches)
        /\ DOMAIN q = 1 .. Len(matches) + 1
    BY <1>1, <1>5, LenProperties
  <2> HIDE DEF q
  <2>2. \A i : i \in DOMAIN q <=> i \in DOMAIN matches \/ i = Len(matches) + 1
    BY <2>1
  <2>3. q[Len(matches) + 1] = m /\ \A i \in DOMAIN matches : q[i] = matches[i]
    BY <1>5, <2>1 DEF q
  <2>4. ToSet(q) = ToSet(matches) \cup {m}
    BY <2>2, <2>3 DEF ToSet
  <2> QED
    BY <2>4 DEF q
<1>7. Last(Append(matches, m)) = m
  BY <1>5 DEF Last
<1> QED
  BY <1>1, <1>2, <1>3, <1>5, <1>6, <1>7 DEF m, d

\* Whatever the rule, the lines stay counted when linecount counts them.
LEMMA MatchCounts ==
  ASSUME LexInv, Ready, NEW rule \in AllRules, NEW n \in Nat, n >= 1, OnOneLine(Rest, n),
         Match(rule, n), linecount' = linecount + IF Rest[n] = "nl" THEN 1 ELSE 0
  PROVE  /\ LineCountersAgree' /\ linecount' \in Nat /\ yylineno' \in Nat
         /\ \A i \in DOMAIN matches' : matches'[i].rule \in AllRules
         /\ \A rules : Count(rules) \in Nat
         /\ \A rules : Count(rules)' = Count(rules) + IF rule \in rules THEN 1 ELSE 0
<1> DEFINE d == IF Rest[n] = "nl" THEN 1 ELSE 0
           m == [rule |-> rule, body |-> SubSeq(Rest, 2, n - 1)]
<1>1. /\ matches' = Append(matches, m) /\ matches' \in Seq(Matched)
      /\ yylineno' = yylineno + d
      /\ Lines(SubSeq(text, 1, at)) \in Nat
      /\ Lines(SubSeq(text', 1, at')) = Lines(SubSeq(text, 1, at)) + d
  BY MatchTakes
<1>2. linecount' = linecount + d /\ d \in Nat
  OBVIOUS
<1>3. /\ linecount = yylineno /\ linecount = 1 + Lines(SubSeq(text, 1, at))
      /\ linecount \in Nat /\ yylineno \in Nat /\ matches \in Seq(Matched)
  BY DEF LexInv, LineCountersAgree, LexerTypeOK
<1>4. m.rule = rule /\ m \in Matched
  <2>1. n \in 1 .. Len(Rest) /\ Rest \in Seq(Classes)
    BY RestIsText DEF OnOneLine
  <2>2. SubSeq(Rest, 2, n - 1) \in Seq(Classes)
    BY <2>1, BodyOfMatch
  <2> QED
    BY <2>2 DEF Matched
<1> HIDE DEF m, d
<1>5. LineCountersAgree' /\ linecount' \in Nat /\ yylineno' \in Nat
  BY <1>1, <1>2, <1>3 DEF LineCountersAgree
<1>6. \A i \in DOMAIN matches' : matches'[i].rule \in AllRules
  <2> DEFINE q == matches'
  <2>1. q \in Seq(Matched)
    BY <1>1
  <2> HIDE DEF q
  <2>2. \A i \in DOMAIN q : q[i] \in Matched
    BY <2>1, ElementOfSeq, LenProperties
  <2>3. \A i \in DOMAIN q : q[i].rule \in AllRules
    BY <2>2 DEF Matched
  <2> QED
    BY <2>3 DEF q
<1>7. \A rules : Count(rules) \in Nat
  BY <1>3, <1>4, CountingMatches DEF Count
<1>8. \A rules : Count(rules)' = Count(rules) + IF rule \in rules THEN 1 ELSE 0
  <2> TAKE rules
  <2>1. Cardinality({i \in DOMAIN Append(matches, m) : Append(matches, m)[i].rule \in rules})
          = Cardinality({i \in DOMAIN matches : matches[i].rule \in rules})
              + IF m.rule \in rules THEN 1 ELSE 0
    BY <1>3, <1>4, CountingMatches
  <2>2. /\ Count(rules) = Cardinality({i \in DOMAIN matches : matches[i].rule \in rules})
        /\ Count(rules)' = Cardinality({i \in DOMAIN matches' : matches'[i].rule \in rules})
    BY DEF Count
  <2> QED
    BY <1>1, <1>4, <2>1, <2>2, Zenon
<1> QED
  BY <1>5, <1>6, <1>7, <1>8

LEMMA TokenStep ==
  ASSUME LexInv, Token
  PROVE  LexInv'
<1> DEFINE n == Lengths(Rest)
<1>1. PICK i \in DOMAIN Rules :
        LET body == SubSeq(Rest, 2, n[i] - 1) IN
        /\ Chosen(i, n)
        /\ Rules[i] \in {"number", "operator", "pair", "separator", "word", "char", "string", "any"}
        /\ Match(Rules[i], n[i])
        /\ outcome' = CASE Rules[i] = "number" /\ n[i] > MaxDigits -> "abort"
                        [] Rules[i] = "char" -> CharOutcome(body)
                        [] Rules[i] = "string" -> StringOutcome(body)
                        [] Rules[i] = "any" -> "error"
                        [] OTHER -> "scanning"
  BY DEF Token
<1> DEFINE k    == n[i]
           rule == Rules[i]
           body == SubSeq(Rest, 2, k - 1)
           m    == [rule |-> rule, body |-> body]
<1>2. Ready /\ mode = "INITIAL" /\ UNCHANGED <<mode, comment_counter, linecount>>
  BY DEF Token
<1>3. Rest \in Seq(Classes) /\ Rest # <<>> /\ k # 0
  BY <1>1, <1>2, RestIsText, ChosenTakes
<1>4. /\ OnOneLine(Rest, k) /\ k >= 1
      /\ Rest[k] = "nl" <=> rule \in {"line", "newline"}
      /\ rule = "char" => k = CharLiteral(Rest)
      /\ rule = "string" => k = StringLiteral(Rest)
  BY <1>3, RulesTake
<1>5. /\ Match(rule, k)
      /\ rule \in {"number", "operator", "pair", "separator", "word", "char", "string", "any"}
      /\ outcome' = CASE rule = "number" /\ k > MaxDigits -> "abort"
                      [] rule = "char" -> CharOutcome(body)
                      [] rule = "string" -> StringOutcome(body)
                      [] rule = "any" -> "error"
                      [] OTHER -> "scanning"
  BY <1>1
<1>6. rule \in AllRules
  BY <1>1 DEF AllRules, ToSet
<1> HIDE DEF n, k, rule
<1>7. k \in Nat /\ k \in 1 .. Len(Rest) /\ Rest[k] # "nl" /\ linecount' = linecount + IF Rest[k] = "nl" THEN 1 ELSE 0
  <2>1. k \in Nat /\ k \in 1 .. Len(Rest) /\ linecount \in Nat
    BY <1>3, <1>4, LenProperties DEF OnOneLine, LexInv, LexerTypeOK
  <2>2. Rest[k] # "nl"
    BY <1>4, <1>5
  <2> QED
    BY <1>2, <2>1, <2>2
<1>8. /\ text' \in Seq(Classes) /\ at' \in 0 .. Len(text') /\ matches' \in Seq(Matched)
      /\ ToSet(matches') = ToSet(matches) \cup {m} /\ Last(matches') = m
  BY <1>2, <1>4, <1>5, <1>6, <1>7, MatchTakes
<1>9. /\ LineCountersAgree' /\ linecount' \in Nat /\ yylineno' \in Nat
      /\ \A j \in DOMAIN matches' : matches'[j].rule \in AllRules
      /\ \A rules : Count(rules) \in Nat
      /\ \A rules : Count(rules)' = Count(rules) + IF rule \in rules THEN 1 ELSE 0
  BY <1>2, <1>4, <1>5, <1>6, <1>7, MatchCounts
<1>10. body \in Seq(Classes) /\ Len(body) = IF k >= 3 THEN k - 2 ELSE 0
  BY <1>3, <1>7, BodyOfMatch
<1>11. m.rule = rule /\ m.body = body
  OBVIOUS
<1> HIDE DEF body, m
<1>12. /\ CharOutcome(body) \in {"error", "scanning"}
       /\ StringOutcome(body) \in {"error", "scanning", "abort"}
  BY DEF CharOutcome, StringOutcome, Turn
<1>13. LexerTypeOK'
  <2>1. outcome' \in {"scanning", "error", "abort"}
    BY <1>5, <1>12
  <2>2. mode' \in {"INITIAL", "COMMENT"} /\ comment_counter' \in Nat
    BY <1>2 DEF LexInv, LexerTypeOK
  <2> QED
    BY <1>8, <1>9, <2>1, <2>2 DEF LexerTypeOK, AllRules
<1>14. CommentsNest'
  <2>1. Count({"open", "reopen"})' = Count({"open", "reopen"}) /\ Count({"close"})' = Count({"close"})
    BY <1>5, <1>9
  <2>2. CommentsNest
    BY DEF LexInv
  <2> QED
    BY <1>2, <2>1, <2>2 DEF CommentsNest
<1>15. CharsAreWhole'
  <2> SUFFICES ASSUME outcome' \in {"scanning", "ended"}, NEW q \in ToSet(matches'), q.rule = "char"
               PROVE  \/ Len(q.body) = 1 /\ q.body # <<"backslash">>
                      \/ Len(q.body) = 2 /\ q.body[1] = "backslash" /\ q.body[2] \in SimpleEscapes
                      \/ Len(q.body) = 4 /\ q.body[1] = "backslash" /\ q.body[2] = "x"
    BY DEF CharsAreWhole
  <2>1. CASE q \in ToSet(matches)
    BY <1>2, <2>1 DEF LexInv, CharsAreWhole, Ready
  <2>2. CASE q = m
    <3>1. rule = "char" /\ k = CharLiteral(Rest)
      BY <1>4, <1>11, <2>2
    <3>2. CharOutcome(body) = "scanning"
      BY <1>5, <1>12, <3>1
    <3>3. body = SubSeq(Rest, 2, CharLiteral(Rest) - 1) /\ CharLiteral(Rest) # 0
      BY <1>3, <3>1 DEF body
    <3>4. \/ Len(body) = 1 /\ body # <<"backslash">>
          \/ Len(body) = 2 /\ body[1] = "backslash" /\ body[2] \in SimpleEscapes
          \/ Len(body) = 4 /\ body[1] = "backslash" /\ body[2] = "x"
      BY <1>3, <3>2, <3>3, CharIsWhole
    <3> QED
      BY <1>11, <2>2, <3>4
  <2> QED
    BY <1>8, <2>1, <2>2
<1>16. StringsEndAtQuotes'
  <2> SUFFICES ASSUME NEW q \in ToSet(matches'), q.rule = "string",
                      NEW j \in Visited(q.body), q.body[j] = "quote"
               PROVE  /\ j > 2 /\ q.body[j - 1] = "backslash"
                      /\ \E o \in Visited(q.body) :
                           q.body[o] = "backslash" /\ o < j - 1 /\ j - 1 < o + Width(q.body, o)
    BY DEF StringsEndAtQuotes
  <2>1. CASE q \in ToSet(matches)
    BY <2>1 DEF LexInv, StringsEndAtQuotes
  <2>2. CASE q = m
    <3>1. rule = "string" /\ k = StringLiteral(Rest)
      BY <1>4, <1>11, <2>2
    <3>2. body = SubSeq(Rest, 2, StringLiteral(Rest) - 1) /\ StringLiteral(Rest) # 0
      BY <1>3, <3>1 DEF body
    <3>3. j \in Visited(body) /\ body[j] = "quote"
      BY <1>11, <2>2
    <3>4. /\ j > 2 /\ body[j - 1] = "backslash"
          /\ \E o \in Visited(body) : body[o] = "backslash" /\ o < j - 1 /\ j - 1 < o + Width(body, o)
      BY <1>3, <3>2, <3>3, QuoteIsEscaped
    <3> QED
      BY <1>11, <2>2, <3>4
  <2> QED
    BY <1>8, <2>1, <2>2
<1>17. ThrowsOnConversions'
  <2> SUFFICES ASSUME outcome' = "abort"
               PROVE  \/ m.rule = "number" /\ Len(m.body) + 2 > MaxDigits
                      \/ /\ m.rule = "string"
                         /\ \E j \in Visited(m.body) :
                              /\ SubSeq(m.body, j, j + 1) = <<"backslash", "x">>
                              /\ j + 2 > Len(m.body) \/ m.body[j + 2] \notin StoiDigits
    BY <1>8 DEF ThrowsOnConversions
  <2>1. \/ rule = "number" /\ k > MaxDigits
        \/ rule = "string" /\ StringOutcome(body) = "abort"
    BY <1>5, <1>12
  <2>2. CASE rule = "number" /\ k > MaxDigits
    BY <1>7, <1>10, <1>11, <2>2, LexerAssumption
  <2>3. CASE rule = "string" /\ StringOutcome(body) = "abort"
    <3>1. \E j \in Visited(body) : /\ SubSeq(body, j, j + 1) = <<"backslash", "x">>
                                   /\ j + 2 > Len(body) \/ body[j + 2] \notin StoiDigits
      BY <1>10, <2>3, StringThrows
    <3> QED
      BY <1>11, <2>3, <3>1
  <2> QED
    BY <2>1, <2>2, <2>3
<1> QED
  BY <1>8, <1>9, <1>13, <1>14, <1>15, <1>16, <1>17 DEF LexInv

\* A match that is no literal says nothing of literals.
LEMMA NoLiteralNoChange ==
  ASSUME LexInv, Ready, UNCHANGED outcome, NEW rule \in AllRules, rule \notin {"char", "string"},
         NEW n \in Nat, n >= 1, OnOneLine(Rest, n), Match(rule, n)
  PROVE  CharsAreWhole' /\ ThrowsOnConversions' /\ StringsEndAtQuotes'
<1> DEFINE m == [rule |-> rule, body |-> SubSeq(Rest, 2, n - 1)]
<1>1. ToSet(matches') = ToSet(matches) \cup {m} /\ m.rule = rule
  BY MatchTakes
<1> HIDE DEF m
<1>2. \A q \in ToSet(matches') : q.rule \in {"char", "string"} => q \in ToSet(matches)
  BY <1>1
<1>3. outcome = "scanning" /\ outcome' = "scanning"
  BY DEF Ready
<1>4. CharsAreWhole'
  BY <1>2, <1>3 DEF LexInv, CharsAreWhole
<1>5. StringsEndAtQuotes'
  BY <1>2 DEF LexInv, StringsEndAtQuotes
<1>6. ThrowsOnConversions'
  BY <1>3 DEF ThrowsOnConversions
<1> QED
  BY <1>4, <1>5, <1>6

LEMMA SkipStep ==
  ASSUME LexInv, Skip
  PROVE  LexInv'
<1> DEFINE n == Lengths(Rest)
<1>1. PICK i \in DOMAIN Rules :
        /\ Chosen(i, n)
        /\ Rules[i] \in {"line", "open", "white", "newline"}
        /\ Match(Rules[i], n[i])
        /\ linecount' = IF Rules[i] \in {"line", "newline"} THEN linecount + 1 ELSE linecount
        /\ mode' = IF Rules[i] = "open" THEN "COMMENT" ELSE mode
  BY DEF Skip
<1> DEFINE k    == n[i]
           rule == Rules[i]
<1>2. Ready /\ mode = "INITIAL" /\ UNCHANGED <<comment_counter, outcome>>
  BY DEF Skip
<1>3. Rest \in Seq(Classes) /\ Rest # <<>> /\ k # 0
  BY <1>1, <1>2, RestIsText, ChosenTakes
<1>4. /\ OnOneLine(Rest, k) /\ k >= 1
      /\ Rest[k] = "nl" <=> rule \in {"line", "newline"}
  BY <1>3, RulesTake
<1>5. /\ Match(rule, k)
      /\ rule \in {"line", "open", "white", "newline"}
      /\ linecount' = IF rule \in {"line", "newline"} THEN linecount + 1 ELSE linecount
      /\ mode' = IF rule = "open" THEN "COMMENT" ELSE mode
  BY <1>1
<1>6. rule \in AllRules
  BY <1>1 DEF AllRules, ToSet
<1> HIDE DEF n, k, rule
<1>7. k \in Nat /\ linecount' = linecount + IF Rest[k] = "nl" THEN 1 ELSE 0
  <2>1. k \in Nat /\ linecount \in Nat
    BY <1>3, <1>4, LenProperties DEF OnOneLine, LexInv, LexerTypeOK
  <2> QED
    BY <1>4, <1>5, <2>1
<1>8. text' \in Seq(Classes) /\ at' \in 0 .. Len(text') /\ matches' \in Seq(Matched)
  BY <1>2, <1>4, <1>5, <1>6, <1>7, MatchTakes
<1>9. /\ LineCountersAgree' /\ linecount' \in Nat /\ yylineno' \in Nat
      /\ \A j \in DOMAIN matches' : matches'[j].rule \in AllRules
      /\ \A rules : Count(rules) \in Nat
      /\ \A rules : Count(rules)' = Count(rules) + IF rule \in rules THEN 1 ELSE 0
  BY <1>2, <1>4, <1>5, <1>6, <1>7, MatchCounts
<1>10. CharsAreWhole' /\ ThrowsOnConversions' /\ StringsEndAtQuotes'
  BY <1>2, <1>4, <1>5, <1>6, <1>7, NoLiteralNoChange
<1>11. LexerTypeOK'
  BY <1>2, <1>5, <1>8, <1>9 DEF LexInv, LexerTypeOK, AllRules
<1>12. CommentsNest'
  <2>1. /\ Count({"open", "reopen"})' = Count({"open", "reopen"}) + IF rule = "open" THEN 1 ELSE 0
        /\ Count({"close"})' = Count({"close"})
        /\ Count({"open", "reopen"}) \in Nat /\ Count({"close"}) \in Nat
    BY <1>5, <1>9
  <2>2. Count({"open", "reopen"}) - Count({"close"}) = 0 /\ comment_counter = 0
    BY <1>2 DEF LexInv, CommentsNest
  <2> QED
    BY <1>2, <1>5, <2>1, <2>2 DEF CommentsNest
<1> QED
  BY <1>8, <1>9, <1>10, <1>11, <1>12 DEF LexInv

LEMMA InCommentStep ==
  ASSUME LexInv, InComment
  PROVE  LexInv'
<1> DEFINE opens == StartsWith(Rest, <<"<", "*">>)
           shuts == StartsWith(Rest, <<"*", ">">>)
<1>1. Ready /\ mode = "COMMENT" /\ UNCHANGED outcome
  BY DEF InComment
<1>2. /\ Rest \in Seq(Classes) /\ Len(Rest) \in Nat \ {0}
      /\ \A a, b : StartsWith(Rest, <<a, b>>) => Len(Rest) > 1 /\ Rest[1] = a /\ Rest[2] = b
  BY <1>1, RestIsText, FirstTwo, LenProperties, EmptySeq
<1>3. /\ opens => Len(Rest) > 1 /\ Rest[1] = "<" /\ Rest[2] = "*"
      /\ shuts => Len(Rest) > 1 /\ Rest[1] = "*" /\ Rest[2] = ">"
  BY <1>2
\* The three cases, as one match each.
<1>4. \E rule \in {"reopen", "close", "comment"}, n \in {1, 2} :
        /\ n <= Len(Rest) /\ (n = 2 => Rest[1] # "nl" /\ Rest[2] # "nl")
        /\ Match(rule, n)
        /\ linecount' = linecount + IF Rest[n] = "nl" THEN 1 ELSE 0
        /\ rule = "reopen" => comment_counter' = comment_counter + 1 /\ UNCHANGED mode
        /\ rule = "close" => IF comment_counter > 0 THEN comment_counter' = comment_counter - 1 /\ UNCHANGED mode
                             ELSE mode' = "INITIAL" /\ UNCHANGED comment_counter
        /\ rule = "comment" => UNCHANGED <<mode, comment_counter>>
  <2>1. linecount \in Nat
    BY DEF LexInv, LexerTypeOK
  <2>2. CASE /\ opens /\ Match("reopen", 2)
             /\ comment_counter' = comment_counter + 1 /\ UNCHANGED <<mode, linecount>>
    BY <1>2, <1>3, <2>1, <2>2
  <2>3. CASE /\ shuts /\ Match("close", 2) /\ UNCHANGED linecount
             /\ IF comment_counter > 0 THEN comment_counter' = comment_counter - 1 /\ UNCHANGED mode
                ELSE mode' = "INITIAL" /\ UNCHANGED comment_counter
    BY <1>2, <1>3, <2>1, <2>3
  <2>4. CASE /\ Match("comment", 1) /\ UNCHANGED <<mode, comment_counter>>
             /\ linecount' = IF Rest[1] = "nl" THEN linecount + 1 ELSE linecount
    BY <1>2, <2>1, <2>4
  <2> QED
    BY <2>2, <2>3, <2>4 DEF InComment
<1> HIDE DEF opens, shuts
<1>5. PICK rule \in {"reopen", "close", "comment"}, n \in {1, 2} :
        /\ n <= Len(Rest) /\ (n = 2 => Rest[1] # "nl" /\ Rest[2] # "nl")
        /\ Match(rule, n)
        /\ linecount' = linecount + IF Rest[n] = "nl" THEN 1 ELSE 0
        /\ rule = "reopen" => comment_counter' = comment_counter + 1 /\ UNCHANGED mode
        /\ rule = "close" => IF comment_counter > 0 THEN comment_counter' = comment_counter - 1 /\ UNCHANGED mode
                             ELSE mode' = "INITIAL" /\ UNCHANGED comment_counter
        /\ rule = "comment" => UNCHANGED <<mode, comment_counter>>
  BY <1>4
<1>6. rule \in AllRules /\ n \in Nat /\ n >= 1 /\ OnOneLine(Rest, n)
  <2>1. n \in Nat /\ n >= 1 /\ n <= Len(Rest)
    BY <1>5
  <2>2. \A j \in 1 .. n - 1 : n = 2 /\ j = 1
    BY <1>5
  <2>3. OnOneLine(Rest, n)
    BY <1>2, <1>5, <2>1, <2>2 DEF OnOneLine
  <2> QED
    BY <2>1, <2>3 DEF AllRules
<1>7. text' \in Seq(Classes) /\ at' \in 0 .. Len(text') /\ matches' \in Seq(Matched)
  BY <1>1, <1>5, <1>6, MatchTakes
<1>8. /\ LineCountersAgree' /\ linecount' \in Nat /\ yylineno' \in Nat
      /\ \A j \in DOMAIN matches' : matches'[j].rule \in AllRules
      /\ \A rules : Count(rules) \in Nat
      /\ \A rules : Count(rules)' = Count(rules) + IF rule \in rules THEN 1 ELSE 0
  BY <1>1, <1>5, <1>6, MatchCounts
<1>9. CharsAreWhole' /\ ThrowsOnConversions' /\ StringsEndAtQuotes'
  BY <1>1, <1>5, <1>6, NoLiteralNoChange
<1>10. /\ comment_counter \in Nat /\ comment_counter' \in Nat
       /\ mode' \in {"INITIAL", "COMMENT"} /\ outcome' \in {"scanning"}
  BY <1>1, <1>5 DEF LexInv, LexerTypeOK, Ready
<1>11. LexerTypeOK'
  BY <1>7, <1>8, <1>10 DEF LexerTypeOK, AllRules
<1>12. CommentsNest'
  <2>1. /\ Count({"open", "reopen"})' = Count({"open", "reopen"}) + IF rule = "reopen" THEN 1 ELSE 0
        /\ Count({"close"})' = Count({"close"}) + IF rule = "close" THEN 1 ELSE 0
        /\ Count({"open", "reopen"}) \in Nat /\ Count({"close"}) \in Nat
    BY <1>5, <1>8
  <2>2. Count({"open", "reopen"}) - Count({"close"}) = comment_counter + 1
    BY <1>1 DEF LexInv, CommentsNest
  <2>3. CASE rule = "reopen"
    BY <1>1, <1>5, <1>10, <2>1, <2>2, <2>3 DEF CommentsNest
  <2>4. CASE rule = "close"
    BY <1>1, <1>5, <1>10, <2>1, <2>2, <2>4 DEF CommentsNest
  <2>5. CASE rule = "comment"
    BY <1>1, <1>5, <1>10, <2>1, <2>2, <2>5 DEF CommentsNest
  <2> QED
    BY <1>5, <2>3, <2>4, <2>5
<1> QED
  BY <1>7, <1>8, <1>9, <1>11, <1>12 DEF LexInv

LEMMA EndStep ==
  ASSUME LexInv, End
  PROVE  LexInv'
<1>1. /\ outcome = "scanning" /\ outcome' = "ended"
      /\ UNCHANGED <<text, at, mode, comment_counter, linecount, yylineno, matches>>
  BY DEF End
<1>2. LexerTypeOK' /\ LineCountersAgree' /\ CommentsNest'
  BY <1>1 DEF LexInv, LexerTypeOK, LineCountersAgree, CommentsNest, Count
<1>3. CharsAreWhole' /\ ThrowsOnConversions' /\ StringsEndAtQuotes'
  BY <1>1 DEF LexInv, CharsAreWhole, ThrowsOnConversions, StringsEndAtQuotes
<1> QED
  BY <1>1, <1>2, <1>3 DEF LexInv

LEMMA LexInitial ==
  ASSUME Init
  PROVE  LexInv
<1>1. /\ text \in Seq(Classes)
      /\ at = 0 /\ mode = "INITIAL" /\ comment_counter = 0 /\ linecount = 1 /\ yylineno = 1
      /\ matches = <<>> /\ outcome = "scanning"
  BY LexerAssumption DEF Init
<1>2. matches \in Seq(Matched) /\ DOMAIN matches = {} /\ Len(text) \in Nat
  BY <1>1, EmptySeq, LenProperties
<1>3. LexerTypeOK
  BY <1>1, <1>2 DEF LexerTypeOK
<1>4. LineCountersAgree
  <2>1. SubSeq(text, 1, at) = <<>>
    BY <1>1, SubSeqEmpty
  <2>2. Lines(<<>>) = Cardinality({})
    BY DEF Lines
  <2>3. Lines(SubSeq(text, 1, at)) = 0
    BY <2>1, <2>2, FS_EmptySet, Zenon
  <2> HIDE DEF Lines
  <2>4. linecount = 1 /\ yylineno = 1
    BY <1>1
  <2> QED
    BY <2>3, <2>4 DEF LineCountersAgree
<1>5. CommentsNest
  <2>1. \A rules : Count(rules) = Cardinality({})
    BY <1>2 DEF Count
  <2> QED
    BY <1>1, <2>1, FS_EmptySet DEF CommentsNest
<1>6. ToSet(matches) = {}
  BY <1>2 DEF ToSet
<1>7. CharsAreWhole /\ ThrowsOnConversions /\ StringsEndAtQuotes
  BY <1>1, <1>6 DEF CharsAreWhole, ThrowsOnConversions, StringsEndAtQuotes
<1> QED
  BY <1>1, <1>2, <1>3, <1>4, <1>5, <1>7 DEF LexInv

-----------------------------------------------------------------------------
(* The theorems.                                                             *)

\* The invariant holds on every text: it leans on nothing but the rules, the
\* two readings of literals and that the texts are made of classes.
THEOREM LexerInvariance == Spec => []LexInv
<1>1. Init => LexInv
  BY LexInitial
<1>2. LexInv /\ [Next]_vars => LexInv'
  <2> SUFFICES ASSUME LexInv, [Next]_vars PROVE LexInv'
    OBVIOUS
  <2>1. CASE Token
    BY <2>1, TokenStep
  <2>2. CASE Skip
    BY <2>2, SkipStep
  <2>3. CASE InComment
    BY <2>3, InCommentStep
  <2>4. CASE End
    BY <2>4, EndStep
  <2>5. CASE UNCHANGED vars
    BY <2>5 DEF vars, LexInv, LexerTypeOK, LineCountersAgree, CommentsNest, Count, CharsAreWhole,
                ThrowsOnConversions, StringsEndAtQuotes
  <2> QED
    BY <2>1, <2>2, <2>3, <2>4, <2>5 DEF Next
<1> QED
  BY <1>1, <1>2, PTL DEF Spec

\* Types; the scanner never runs past the text.
THEOREM LexerTypes == Spec => []LexerTypeOK
<1>1. LexInv => LexerTypeOK
  BY DEF LexInv
<1> QED
  BY <1>1, LexerInvariance, PTL

\* error() and yyerror() name the same line, and it is the one the scanner is
\* in: the rules that count lines in linecount are those that take a newline.
THEOREM LinesAreCounted == Spec => []LineCountersAgree
<1>1. LexInv => LineCountersAgree
  BY DEF LexInv
<1> QED
  BY <1>1, LexerInvariance, PTL

\* However deep comments nest, the scanner is back at tokens exactly when all
\* of them are closed.
THEOREM CommentsAreNested == Spec => []CommentsNest
<1>1. LexInv => CommentsNest
  BY DEF LexInv
<1> QED
  BY <1>1, LexerInvariance, PTL

\* Whatever the pattern for characters takes, the parser is given one character
\* or one escape.
THEOREM CharactersAreWhole == Spec => []CharsAreWhole
<1>1. LexInv => CharsAreWhole
  BY DEF LexInv
<1> QED
  BY <1>1, LexerInvariance, PTL

\* An exception leaves the lexer from a conversion only: a number too long or
\* an \x without a digit.
THEOREM OnlyConversionsThrow == Spec => []ThrowsOnConversions
<1>1. LexInv => ThrowsOnConversions
  BY DEF LexInv
<1> QED
  BY <1>1, LexerInvariance, PTL

\* A string runs over its end only where an escape took the backslash before
\* the quote.
THEOREM StringsEnd == Spec => []StringsEndAtQuotes
<1>1. LexInv => StringsEndAtQuotes
  BY DEF LexInv
<1> QED
  BY <1>1, LexerInvariance, PTL
=============================================================================
