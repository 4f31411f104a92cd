-------------------------- MODULE ControlFlowProofs --------------------------
(* Theorems about ControlFlow, for every bound.                              *)
(*                                                                           *)
(* BlockInv says what the Builder's blocks look like at any moment: all      *)
(* attached blocks but the current one are closed, and the blocks that       *)
(* branches already lead to are attached or pending, which means promised by *)
(* a body under compilation.  One lemma per Builder operation shows what it  *)
(* does to BlockInv; BodiesInv says which blocks are promised and whether    *)
(* the current one is closed.                                                *)
EXTENDS ControlFlow, LeastNumbers, TLAPS, SequenceTheorems

\* Blocks are the attached ones, f.insert among them, open or closed, and P:
\* promised, empty and not attached.
BlockInv(f, P, open) ==
  /\ f.code \in Seq(Seq(Instr))
  /\ f.list \in Seq(DOMAIN f.code)
  /\ \A i, j \in DOMAIN f.list : f.list[i] = f.list[j] => i = j
  /\ \E i \in DOMAIN f.list : f.list[i] = f.insert
  /\ P \subseteq DOMAIN f.code
  /\ \A b \in P : f.code[b] = <<>> /\ \A i \in DOMAIN f.list : f.list[i] # b
  /\ \A i \in DOMAIN f.list : f.list[i] # f.insert => EndsOnce(f.code[f.list[i]])
  /\ IF open THEN Plain(f.code[f.insert]) ELSE EndsOnce(f.code[f.insert])
  /\ \A i \in DOMAIN f.list : \A b \in Targets(f.code[f.list[i]]) :
       b \in P \/ \E j \in DOMAIN f.list : f.list[j] = b

\* The blocks a body under compilation has promised.
Promised(body) ==
  CASE body.kind = "then" /\ body.more      -> {body.other, body.after}
    [] body.kind = "function"               -> {}
    [] OTHER                                -> {body.after}

Pending(bs) == UNION {Promised(bs[k]) : k \in DOMAIN bs}

\* The block the Builder stands in while b is the innermost body is not closed.
Open(b) == b.kind = "next" \/ ~Ended(b)

\* A body by itself: its blocks differ, a loop's first one is attached to l.
BodyInv(b, l) ==
  /\ b.kind = "then" => b.other # b.after
  /\ b.kind = "loop" => \E i \in DOMAIN l : l[i] = b.other

\* Only the function's own body has no body around it; the bodies around
\* another are not ended, and no two promise the same block.
BodiesInv(bs, l) ==
  /\ bs \in Seq(Body)
  /\ \A k \in DOMAIN bs : k = 1 <=> bs[k].kind = "function"
  /\ \A k \in DOMAIN bs : k < Len(bs) => Open(bs[k])
  /\ \A k \in DOMAIN bs : BodyInv(bs[k], l)
  /\ \A k, m \in DOMAIN bs : k # m => Promised(bs[k]) \cap Promised(bs[m]) = {}

Done ==
  /\ insert = 0 /\ bodies = <<>>
  /\ code \in Seq(Seq(Instr)) /\ list \in Seq(DOMAIN code)
  /\ \A i, j \in DOMAIN list : list[i] = list[j] => i = j
  /\ \A i \in DOMAIN list : \A b \in Targets(code[list[i]]) :
       \E j \in DOMAIN list : list[j] = b

InCompilation ==
  /\ Compiling /\ bodies # <<>>
  /\ BodiesInv(bodies, list)
  /\ BlockInv(Builder, Pending(bodies), Open(Top))

IInv == typed \in BOOLEAN /\ ast \in Seq(Node) /\ (InCompilation \/ Done)

-----------------------------------------------------------------------------
(* Instructions in a row.                                                    *)

LEMMA PlainPlain ==
  ASSUME NEW s \in Seq(Instr), NEW e \in Seq(Instr), Plain(s), Plain(e)
  PROVE  Plain(s \o e)
<1> SUFFICES ASSUME NEW i \in DOMAIN (s \o e)
             PROVE  (s \o e)[i].op \notin Terminators
  BY DEF Plain
<1>1. CASE i <= Len(s)
  BY <1>1 DEF Plain
<1>2. CASE i > Len(s)
  <2>1. (s \o e)[i] = e[i - Len(s)] /\ i - Len(s) \in DOMAIN e
    BY <1>2
  <2> QED BY <2>1 DEF Plain
<1> QED BY <1>1, <1>2

LEMMA PlainEnds ==
  ASSUME NEW s \in Seq(Instr), NEW e \in Seq(Instr), Plain(s), EndsOnce(e)
  PROVE  EndsOnce(s \o e)
<1>1. e # <<>> /\ Len(e) \in Nat /\ Len(e) > 0
  BY DEF EndsOnce
<1>2. Len(s \o e) = Len(s) + Len(e) /\ (s \o e)[Len(s \o e)] = e[Len(e)]
  BY <1>1
<1>3. ASSUME NEW i \in DOMAIN (s \o e), i # Len(s \o e)
      PROVE  (s \o e)[i].op \notin Terminators
  <2>1. CASE i <= Len(s)
    BY <2>1 DEF Plain
  <2>2. CASE i > Len(s)
    <3>1. (s \o e)[i] = e[i - Len(s)] /\ i - Len(s) \in DOMAIN e /\ i - Len(s) # Len(e)
      BY <2>2, <1>2, <1>3
    <3> QED BY <3>1 DEF EndsOnce
  <2> QED BY <2>1, <2>2
<1>4. s \o e # <<>>
  BY <1>1, <1>2
<1> QED BY <1>1, <1>2, <1>3, <1>4 DEF EndsOnce

LEMMA TargetsOfBoth ==
  ASSUME NEW s \in Seq(Instr), NEW e \in Seq(Instr), NEW b \in Targets(s \o e)
  PROVE  b \in Targets(s) \/ b \in Targets(e)
<1>1. PICK i \in DOMAIN (s \o e) : \E k \in DOMAIN (s \o e)[i].to : b = (s \o e)[i].to[k]
  BY DEF Targets
<1>2. CASE i <= Len(s)
  <2>1. i \in DOMAIN s /\ (s \o e)[i] = s[i]
    BY <1>2
  <2> QED BY <1>1, <2>1 DEF Targets
<1>3. CASE i > Len(s)
  <2>1. i - Len(s) \in DOMAIN e /\ (s \o e)[i] = e[i - Len(s)]
    BY <1>3
  <2> QED BY <1>1, <2>1 DEF Targets
<1> QED BY <1>2, <1>3

LEMMA NoInstructions == Plain(<<>>) /\ Targets(<<>>) = {} /\ <<>> \in Seq(Instr)
  BY DEF Plain, Targets

LEMMA AppendOne ==
  ASSUME NEW S, NEW s \in Seq(S), NEW e \in S
  PROVE  /\ Append(s, e) \in Seq(S)
         /\ Len(s) \in Nat /\ DOMAIN s = 1 .. Len(s)
         /\ Len(Append(s, e)) = Len(s) + 1
         /\ DOMAIN Append(s, e) = 1 .. Len(s) + 1
         /\ \A i \in 1 .. Len(s) : Append(s, e)[i] = s[i]
         /\ Append(s, e)[Len(s) + 1] = e
  OBVIOUS

-----------------------------------------------------------------------------
(* What the operations of the Builder do to BlockInv.                        *)

LEMMA CreateKeeps ==
  ASSUME NEW f, NEW P, BlockInv(f, P, TRUE),
         NEW k \in Nat, NEW Q \in SUBSET (Len(f.code) + 1 .. Len(f.code) + k)
  PROVE  /\ BlockInv(Create(f, k), P \cup Q, TRUE)
         /\ Create(f, k).list = f.list /\ Create(f, k).insert = f.insert
         /\ Len(Create(f, k).code) = Len(f.code) + k
         /\ Q \cap P = {}
<1> DEFINE g == Create(f, k)
           new == [i \in 1 .. k |-> <<>>]
<1>1. g.code = f.code \o new /\ g.list = f.list /\ g.insert = f.insert
  BY DEF Create, Fn
<1> HIDE DEF g
<1>2. f.code \in Seq(Seq(Instr)) /\ f.list \in Seq(DOMAIN f.code) /\ P \subseteq DOMAIN f.code
  BY DEF BlockInv
<1>3. new \in Seq(Seq(Instr)) /\ Len(new) = k
  BY NoInstructions
<1>4. g.code \in Seq(Seq(Instr)) /\ Len(g.code) = Len(f.code) + k
  BY <1>1, <1>2, <1>3
<1>5. \A b \in DOMAIN f.code : b \in DOMAIN g.code /\ g.code[b] = f.code[b]
  BY <1>1, <1>2, <1>3
<1>6. \A b \in Q : b \in DOMAIN g.code /\ b \notin DOMAIN f.code /\ g.code[b] = <<>>
  <2> SUFFICES ASSUME NEW b \in Q
               PROVE  b \in DOMAIN g.code /\ b \notin DOMAIN f.code /\ g.code[b] = <<>>
    OBVIOUS
  <2>1. b \in Nat /\ b > Len(f.code) /\ b - Len(f.code) \in 1 .. k
    BY <1>2
  <2>2. g.code[b] = new[b - Len(f.code)]
    BY <2>1, <1>1, <1>2, <1>3
  <2> QED BY <2>1, <2>2, <1>2, <1>4
<1>7. \A i \in DOMAIN f.list : f.list[i] \in DOMAIN f.code
  BY <1>2
<1>8. f.list \in Seq(DOMAIN g.code)
  BY <1>2, <1>5
<1>9. f.insert \in DOMAIN f.code
  BY <1>7 DEF BlockInv
<1>10. BlockInv(g, P \cup Q, TRUE)
  <2>1. \A b \in P \cup Q : g.code[b] = <<>> /\ \A i \in DOMAIN g.list : g.list[i] # b
    <3> SUFFICES ASSUME NEW b \in P \cup Q
                 PROVE  g.code[b] = <<>> /\ \A i \in DOMAIN f.list : f.list[i] # b
      BY <1>1
    <3>1. CASE b \in P
      BY <3>1, <1>2, <1>5 DEF BlockInv
    <3>2. CASE b \in Q
      BY <3>2, <1>6, <1>7
    <3> QED BY <3>1, <3>2
  <2>2. \A i \in DOMAIN g.list : g.list[i] # g.insert => EndsOnce(g.code[g.list[i]])
    BY <1>1, <1>5, <1>7 DEF BlockInv
  <2>3. Plain(g.code[g.insert])
    BY <1>1, <1>5, <1>9 DEF BlockInv
  <2>4. \A i \in DOMAIN g.list : \A b \in Targets(g.code[g.list[i]]) :
          b \in P \cup Q \/ \E j \in DOMAIN g.list : g.list[j] = b
    BY <1>1, <1>5, <1>7 DEF BlockInv
  <2>5. /\ \A i, j \in DOMAIN g.list : g.list[i] = g.list[j] => i = j
        /\ \E i \in DOMAIN g.list : g.list[i] = g.insert
        /\ P \cup Q \subseteq DOMAIN g.code
    BY <1>1, <1>2, <1>5, <1>6 DEF BlockInv
  <2>6. g.list \in Seq(DOMAIN g.code)
    BY <1>1, <1>8
  <2> QED BY <1>4, <2>1, <2>2, <2>3, <2>4, <2>5, <2>6 DEF BlockInv
<1> QED BY <1>1, <1>2, <1>4, <1>6, <1>10 DEF g

LEMMA EmitKeeps ==
  ASSUME NEW f, NEW P, BlockInv(f, P, TRUE), NEW instrs \in Seq(Instr),
         NEW open \in BOOLEAN, IF open THEN Plain(instrs) ELSE EndsOnce(instrs),
         \A b \in Targets(instrs) : b \in P \/ \E j \in DOMAIN f.list : f.list[j] = b
  PROVE  /\ BlockInv(Emit(f, instrs), P, open)
         /\ Emit(f, instrs).list = f.list /\ Len(Emit(f, instrs).code) = Len(f.code)
<1> DEFINE g == Emit(f, instrs)
<1>1. /\ g.code = [f.code EXCEPT ![f.insert] = @ \o instrs]
      /\ g.list = f.list /\ g.insert = f.insert
  BY DEF Emit, Fn
<1> HIDE DEF g
<1>2. f.code \in Seq(Seq(Instr)) /\ f.list \in Seq(DOMAIN f.code) /\ P \subseteq DOMAIN f.code
  BY DEF BlockInv
<1>3. f.insert \in DOMAIN f.code /\ f.insert \notin P
  BY <1>2 DEF BlockInv
<1>4. f.code[f.insert] \in Seq(Instr) /\ f.code[f.insert] \o instrs \in Seq(Instr)
  BY <1>2, <1>3
<1>5. g.code \in Seq(Seq(Instr)) /\ DOMAIN g.code = DOMAIN f.code /\ Len(g.code) = Len(f.code)
  BY <1>1, <1>2, <1>3, <1>4
<1>6. g.code[f.insert] = f.code[f.insert] \o instrs
  BY <1>1, <1>3
<1>7. \A b \in DOMAIN f.code : b # f.insert => g.code[b] = f.code[b]
  BY <1>1
<1>8. \A i \in DOMAIN f.list : f.list[i] \in DOMAIN f.code
  BY <1>2
<1>9. Plain(f.code[f.insert])
  BY DEF BlockInv
<1>10. IF open THEN Plain(g.code[g.insert]) ELSE EndsOnce(g.code[g.insert])
  <2>1. CASE open
    BY <2>1, <1>1, <1>4, <1>6, <1>9, PlainPlain
  <2>2. CASE ~open
    <3>1. EndsOnce(instrs)
      BY <2>2
    <3>2. EndsOnce(f.code[f.insert] \o instrs)
      BY <3>1, <1>4, <1>9, PlainEnds
    <3> QED BY <2>2, <3>2, <1>1, <1>6
  <2> QED BY <2>1, <2>2
<1>11. \A i \in DOMAIN g.list : \A b \in Targets(g.code[g.list[i]]) :
         b \in P \/ \E j \in DOMAIN g.list : g.list[j] = b
  <2> SUFFICES ASSUME NEW i \in DOMAIN f.list, NEW b \in Targets(g.code[f.list[i]])
               PROVE  b \in P \/ \E j \in DOMAIN f.list : f.list[j] = b
    BY <1>1
  <2>1. CASE f.list[i] = f.insert
    <3>1. b \in Targets(f.code[f.insert]) \/ b \in Targets(instrs)
      BY <2>1, <1>4, <1>6, TargetsOfBoth
    <3> QED BY <3>1, <2>1 DEF BlockInv
  <2>2. CASE f.list[i] # f.insert
    BY <2>2, <1>7, <1>8 DEF BlockInv
  <2> QED BY <2>1, <2>2
<1>12. \A b \in P : g.code[b] = <<>> /\ \A i \in DOMAIN g.list : g.list[i] # b
  BY <1>1, <1>2, <1>3, <1>7 DEF BlockInv
<1>13. \A i \in DOMAIN g.list : g.list[i] # g.insert => EndsOnce(g.code[g.list[i]])
  BY <1>1, <1>7, <1>8 DEF BlockInv
<1>14. /\ \A i, j \in DOMAIN g.list : g.list[i] = g.list[j] => i = j
       /\ \E i \in DOMAIN g.list : g.list[i] = g.insert
       /\ P \subseteq DOMAIN g.code
       /\ g.list \in Seq(DOMAIN g.code)
  BY <1>1, <1>2, <1>5 DEF BlockInv
<1>15. BlockInv(g, P, open)
  <2> QED BY <1>5, <1>10, <1>11, <1>12, <1>13, <1>14 DEF BlockInv
<1> QED BY <1>1, <1>5, <1>15 DEF g

LEMMA EmitPlain ==
  ASSUME NEW f, NEW P, BlockInv(f, P, TRUE), NEW instrs \in Seq(Instr), Plain(instrs),
         Targets(instrs) = {}
  PROVE  BlockInv(Emit(f, instrs), P, TRUE) /\ Emit(f, instrs).list = f.list
<1>1. IF TRUE THEN Plain(instrs) ELSE EndsOnce(instrs)
  OBVIOUS
<1>2. \A b \in Targets(instrs) : b \in P \/ \E j \in DOMAIN f.list : f.list[j] = b
  OBVIOUS
<1> QED BY <1>1, <1>2, EmitKeeps, Zenon

LEMMA EmitEnd ==
  ASSUME NEW f, NEW P, BlockInv(f, P, TRUE), NEW instrs \in Seq(Instr), EndsOnce(instrs),
         \A b \in Targets(instrs) : b \in P \/ \E j \in DOMAIN f.list : f.list[j] = b
  PROVE  BlockInv(Emit(f, instrs), P, FALSE) /\ Emit(f, instrs).list = f.list
<1>1. IF FALSE THEN Plain(instrs) ELSE EndsOnce(instrs)
  OBVIOUS
<1> QED BY <1>1, EmitKeeps, Zenon

LEMMA EmitNothing ==
  ASSUME NEW f, NEW P, NEW open \in BOOLEAN, BlockInv(f, P, open)
  PROVE  BlockInv(Emit(f, <<>>), P, open) /\ Emit(f, <<>>).list = f.list
<1> DEFINE g == Emit(f, <<>>)
<1>1. f.code \in Seq(Seq(Instr)) /\ f.insert \in DOMAIN f.code
  BY DEF BlockInv
<1>2. [f.code EXCEPT ![f.insert] = @ \o <<>>] = f.code
  BY <1>1
<1>3. g.code = f.code /\ g.list = f.list /\ g.insert = f.insert
  BY <1>2 DEF Emit, Fn
<1> HIDE DEF g
<1>4. BlockInv(g, P, open)
  BY <1>3 DEF BlockInv
<1> QED BY <1>3, <1>4 DEF g

LEMMA EnterKeeps ==
  ASSUME NEW f, NEW P, BlockInv(f, P, FALSE), NEW b \in P
  PROVE  /\ BlockInv(Enter(f, b), P \ {b}, TRUE)
         /\ Enter(f, b).list = Append(f.list, b) /\ Enter(f, b).code = f.code
<1> DEFINE g == Enter(f, b)
<1>1. g.code = f.code /\ g.list = Append(f.list, b) /\ g.insert = b
  BY DEF Enter, Fn
<1> HIDE DEF g
<1>2. /\ f.code \in Seq(Seq(Instr)) /\ f.list \in Seq(DOMAIN f.code) /\ b \in DOMAIN f.code
      /\ f.code[b] = <<>>
  BY DEF BlockInv
<1>3. /\ g.list \in Seq(DOMAIN g.code)
      /\ DOMAIN g.list = 1 .. Len(f.list) + 1 /\ DOMAIN f.list = 1 .. Len(f.list)
      /\ Len(f.list) \in Nat
      /\ \A i \in 1 .. Len(f.list) : g.list[i] = f.list[i]
      /\ g.list[Len(f.list) + 1] = b
  <2> DEFINE D == DOMAIN f.code
  <2>1. f.list \in Seq(D) /\ b \in D /\ D = DOMAIN g.code
    BY <1>1, <1>2
  <2> HIDE DEF D
  <2> DEFINE l == f.list
  <2>3. l \in Seq(D) /\ b \in D
    BY <2>1
  <2> HIDE DEF l
  <2>2. /\ Append(l, b) \in Seq(D)
        /\ Len(l) \in Nat /\ DOMAIN l = 1 .. Len(l)
        /\ DOMAIN Append(l, b) = 1 .. Len(l) + 1
        /\ \A i \in 1 .. Len(l) : Append(l, b)[i] = l[i]
        /\ Append(l, b)[Len(l) + 1] = b
    BY <2>3, AppendOne
  <2> QED BY <1>1, <2>1, <2>2 DEF l
<1>4. g.list[Len(f.list) + 1] = b /\ Len(f.list) + 1 \in DOMAIN g.list
  BY <1>3
<1>5. \A i \in DOMAIN f.list : i \in DOMAIN g.list /\ g.list[i] = f.list[i] /\ g.list[i] # b
  <2>1. \A i \in DOMAIN f.list : f.list[i] # b
    BY DEF BlockInv
  <2> QED BY <2>1, <1>3
<1>6. \A i \in DOMAIN g.list : i \in DOMAIN f.list \/ i = Len(f.list) + 1
  BY <1>3
<1>7. \A i, j \in DOMAIN g.list : g.list[i] = g.list[j] => i = j
  BY <1>4, <1>5, <1>6 DEF BlockInv
<1>8. \A c \in P \ {b} : g.code[c] = <<>> /\ \A i \in DOMAIN g.list : g.list[i] # c
  <2> SUFFICES ASSUME NEW c \in P \ {b}
               PROVE  g.code[c] = <<>> /\ \A i \in DOMAIN g.list : g.list[i] # c
    OBVIOUS
  <2>1. f.code[c] = <<>> /\ \A i \in DOMAIN f.list : f.list[i] # c
    BY DEF BlockInv
  <2> QED BY <2>1, <1>1, <1>4, <1>5, <1>6
<1>9. \A i \in DOMAIN f.list : EndsOnce(f.code[f.list[i]])
  BY DEF BlockInv
<1>10. \A i \in DOMAIN g.list : g.list[i] # g.insert => EndsOnce(g.code[g.list[i]])
  BY <1>1, <1>4, <1>5, <1>6, <1>9
<1>11. Plain(g.code[g.insert]) /\ Targets(g.code[g.insert]) = {}
  BY <1>1, <1>2, NoInstructions
<1>12. \A i \in DOMAIN g.list : \A c \in Targets(g.code[g.list[i]]) :
         c \in P \ {b} \/ \E j \in DOMAIN g.list : g.list[j] = c
  <2> SUFFICES ASSUME NEW i \in DOMAIN g.list, NEW c \in Targets(g.code[g.list[i]])
               PROVE  c \in P \ {b} \/ \E j \in DOMAIN g.list : g.list[j] = c
    OBVIOUS
  <2>1. i \in DOMAIN f.list /\ c \in Targets(f.code[f.list[i]])
    BY <1>1, <1>4, <1>5, <1>6, <1>11
  <2>2. c \in P \/ \E j \in DOMAIN f.list : f.list[j] = c
    BY <2>1 DEF BlockInv
  <2> QED BY <2>2, <1>4, <1>5
<1>13. BlockInv(g, P \ {b}, TRUE)
  <2>1. g.code \in Seq(Seq(Instr)) /\ P \ {b} \subseteq DOMAIN g.code
    BY <1>1, <1>2 DEF BlockInv
  <2>2. \E i \in DOMAIN g.list : g.list[i] = g.insert
    BY <1>1, <1>4
  <2> QED BY <2>1, <2>2, <1>3, <1>7, <1>8, <1>10, <1>11, <1>12 DEF BlockInv
<1> QED BY <1>1, <1>13 DEF g

-----------------------------------------------------------------------------
(* What the statements do to the bodies under compilation.                   *)

LEMMA ListGrows ==
  ASSUME NEW D, NEW l \in Seq(D), NEW b \in D, NEW bs, BodiesInv(bs, l)
  PROVE  BodiesInv(bs, Append(l, b))
<1>1. \A i \in DOMAIN l : i \in DOMAIN Append(l, b) /\ Append(l, b)[i] = l[i]
  BY AppendOne
<1>2. \A k \in DOMAIN bs : BodyInv(bs[k], Append(l, b))
  BY <1>1 DEF BodiesInv, BodyInv
<1> QED BY <1>2 DEF BodiesInv

\* cs is bs with the innermost body replaced by t, which promises no more.
Replaced(bs, t, cs) ==
  /\ bs # <<>> /\ t \in Body
  /\ t.kind = "function" <=> bs[Len(bs)].kind = "function"
  /\ Promised(t) \subseteq Promised(bs[Len(bs)])
  /\ cs = [bs EXCEPT ![Len(bs)] = t]

LEMMA ReplaceTop ==
  ASSUME NEW bs, NEW l, BodiesInv(bs, l), NEW t, BodyInv(t, l), NEW cs, Replaced(bs, t, cs)
  PROVE  /\ BodiesInv(cs, l) /\ cs # <<>> /\ Len(cs) = Len(bs) /\ cs[Len(cs)] = t
         /\ Pending(cs) = (Pending(bs) \ Promised(bs[Len(bs)])) \cup Promised(t)
<1> USE DEF Replaced
<1> DEFINE n == Len(bs)
<1>1. bs \in Seq(Body) /\ n \in Nat /\ DOMAIN bs = 1 .. n /\ n \in 1 .. n
  BY DEF BodiesInv
<1>2. cs \in Seq(Body) /\ Len(cs) = n /\ DOMAIN cs = 1 .. n /\ cs[n] = t
  BY <1>1
<1>3. \A k \in 1 .. n : k # n => cs[k] = bs[k]
  BY <1>1
<1> HIDE DEF n
<1>4. \A k \in DOMAIN cs : k = 1 <=> cs[k].kind = "function"
  BY <1>1, <1>2, <1>3 DEF BodiesInv, n
<1>5. ASSUME NEW k \in DOMAIN cs, k < Len(cs)
      PROVE  Open(cs[k])
  <2>1. k \in 1 .. n /\ k # n /\ cs[k] = bs[k]
    BY <1>1, <1>2, <1>3, <1>5
  <2> QED BY <2>1, <1>1, <1>2, <1>5 DEF BodiesInv, n
<1>6. \A k \in DOMAIN cs : BodyInv(cs[k], l)
  BY <1>1, <1>2, <1>3 DEF BodiesInv, n
<1>7. \A k \in 1 .. n : Promised(cs[k]) \subseteq Promised(bs[k])
  BY <1>1, <1>2, <1>3 DEF n
<1>8. \A k, m \in DOMAIN cs : k # m => Promised(cs[k]) \cap Promised(cs[m]) = {}
  BY <1>1, <1>2, <1>7 DEF BodiesInv
<1>9. Pending(cs) = (Pending(bs) \ Promised(bs[n])) \cup Promised(t)
  <2>1. ASSUME NEW x, x \in Pending(cs)
        PROVE  x \in (Pending(bs) \ Promised(bs[n])) \cup Promised(t)
    <3>1. PICK k \in 1 .. n : x \in Promised(cs[k])
      BY <2>1, <1>2 DEF Pending
    <3>2. CASE k = n
      BY <3>1, <3>2, <1>2
    <3>3. CASE k # n
      <4>1. x \in Promised(bs[k])
        BY <3>1, <3>3, <1>3
      <4>2. Promised(bs[k]) \cap Promised(bs[n]) = {}
        BY <3>3, <1>1 DEF BodiesInv
      <4> QED BY <4>1, <4>2, <1>1 DEF Pending
    <3> QED BY <3>2, <3>3
  <2>2. ASSUME NEW x, x \in Pending(bs), x \notin Promised(bs[n])
        PROVE  x \in Pending(cs)
    <3>1. PICK k \in 1 .. n : x \in Promised(bs[k])
      BY <2>2, <1>1 DEF Pending
    <3>2. k # n /\ x \in Promised(cs[k])
      BY <3>1, <2>2, <1>3
    <3> QED BY <3>2, <1>2 DEF Pending
  <2>3. ASSUME NEW x, x \in Promised(t)
        PROVE  x \in Pending(cs)
    BY <2>3, <1>1, <1>2 DEF Pending
  <2> QED BY <2>1, <2>2, <2>3
<1>10. cs # <<>>
  BY <1>1, <1>2
<1>11. BodiesInv(cs, l)
  BY <1>2, <1>4, <1>5, <1>6, <1>8 DEF BodiesInv
<1> QED BY <1>2, <1>9, <1>10, <1>11 DEF n

LEMMA PushBody ==
  ASSUME NEW bs, NEW l, BodiesInv(bs, l), bs # <<>>, Open(bs[Len(bs)]),
         NEW t \in Body, BodyInv(t, l), t.kind # "function",
         Promised(t) \cap Pending(bs) = {},
         NEW cs, cs = Append(bs, t)
  PROVE  /\ BodiesInv(cs, l) /\ cs # <<>> /\ cs[Len(cs)] = t
         /\ Pending(cs) = Pending(bs) \cup Promised(t)
<1> DEFINE n == Len(bs)
<1>1. bs \in Seq(Body) /\ n \in Nat /\ DOMAIN bs = 1 .. n /\ n \in 1 .. n
  BY DEF BodiesInv
<1>2. cs \in Seq(Body) /\ Len(cs) = n + 1 /\ DOMAIN cs = 1 .. n + 1 /\ cs[n + 1] = t
  BY <1>1
<1>3. \A k \in 1 .. n : cs[k] = bs[k]
  BY <1>1
<1>4. \A k \in DOMAIN cs : k = 1 <=> cs[k].kind = "function"
  BY <1>1, <1>2, <1>3 DEF BodiesInv
<1>5. \A k \in DOMAIN cs : k < Len(cs) => Open(cs[k])
  BY <1>1, <1>2, <1>3 DEF BodiesInv
<1>6. \A k \in DOMAIN cs : BodyInv(cs[k], l)
  BY <1>1, <1>2, <1>3 DEF BodiesInv
<1>7. \A k \in 1 .. n : Promised(bs[k]) \subseteq Pending(bs)
  BY <1>1 DEF Pending
<1>8. ASSUME NEW k \in DOMAIN cs, NEW m \in DOMAIN cs, k # m
      PROVE  Promised(cs[k]) \cap Promised(cs[m]) = {}
  <2>1. CASE k \in 1 .. n /\ m \in 1 .. n
    BY <2>1, <1>1, <1>3, <1>8 DEF BodiesInv
  <2>2. CASE k = n + 1 /\ m \in 1 .. n
    BY <2>2, <1>2, <1>3, <1>7
  <2>3. CASE m = n + 1 /\ k \in 1 .. n
    BY <2>3, <1>2, <1>3, <1>7
  <2>4. (k \in 1 .. n \/ k = n + 1) /\ (m \in 1 .. n \/ m = n + 1)
    <3> HIDE DEF n
    <3> QED BY <1>1, <1>2
  <2> QED BY <2>1, <2>2, <2>3, <2>4, <1>8
<1>9. Pending(cs) = Pending(bs) \cup Promised(t)
  <2>1. ASSUME NEW x, x \in Pending(cs)
        PROVE  x \in Pending(bs) \cup Promised(t)
    <3>1. PICK k \in 1 .. n + 1 : x \in Promised(cs[k])
      BY <2>1, <1>2 DEF Pending
    <3> QED BY <3>1, <1>1, <1>2, <1>3, <1>7
  <2>2. ASSUME NEW x, x \in Pending(bs)
        PROVE  x \in Pending(cs)
    <3>1. PICK k \in 1 .. n : x \in Promised(bs[k])
      BY <2>2, <1>1 DEF Pending
    <3>2. k \in DOMAIN cs /\ x \in Promised(cs[k])
      BY <3>1, <1>1, <1>2, <1>3
    <3> QED BY <3>2 DEF Pending
  <2>3. ASSUME NEW x, x \in Promised(t)
        PROVE  x \in Pending(cs)
    <3>1. n + 1 \in DOMAIN cs
      BY <1>1, <1>2
    <3> QED BY <3>1, <2>3, <1>2 DEF Pending
  <2> QED BY <2>1, <2>2, <2>3
<1>10. cs # <<>>
  BY <1>1, <1>2
<1>11. BodiesInv(cs, l)
  BY <1>2, <1>4, <1>5, <1>6, <1>8 DEF BodiesInv
<1> QED BY <1>2, <1>9, <1>10, <1>11

\* The body around is entered again; it was not ended.
LEMMA PopBody ==
  ASSUME NEW bs, NEW l, BodiesInv(bs, l), bs # <<>>, bs[Len(bs)].kind # "function",
         NEW cs, cs = SubSeq(bs, 1, Len(bs) - 1)
  PROVE  /\ BodiesInv(cs, l) /\ cs # <<>> /\ Open(cs[Len(cs)])
         /\ Pending(cs) = Pending(bs) \ Promised(bs[Len(bs)])
<1> DEFINE n == Len(bs)
<1>1. bs \in Seq(Body) /\ n \in Nat /\ DOMAIN bs = 1 .. n /\ n \in 1 .. n
  BY DEF BodiesInv
<1>2. n > 1
  BY <1>1 DEF BodiesInv
<1>3. /\ cs \in Seq(Body) /\ Len(cs) = n - 1 /\ DOMAIN cs = 1 .. n - 1
      /\ \A k \in 1 .. n - 1 : cs[k] = bs[k]
  BY <1>1, <1>2
<1>4. BodiesInv(cs, l)
  BY <1>1, <1>2, <1>3 DEF BodiesInv
<1>5. Open(cs[Len(cs)]) /\ cs # <<>>
  BY <1>1, <1>2, <1>3 DEF BodiesInv
<1>6. Pending(cs) = Pending(bs) \ Promised(bs[n])
  <2>1. ASSUME NEW x, x \in Pending(cs)
        PROVE  x \in Pending(bs) \ Promised(bs[n])
    <3>1. PICK k \in 1 .. n - 1 : x \in Promised(bs[k])
      BY <2>1, <1>3 DEF Pending
    <3>2. k \in 1 .. n /\ k # n
      <4> HIDE DEF n
      <4> QED BY <1>1, <1>2
    <3>3. Promised(bs[k]) \cap Promised(bs[n]) = {}
      BY <3>2, <1>1 DEF BodiesInv
    <3> QED BY <3>1, <3>2, <3>3, <1>1 DEF Pending
  <2>2. ASSUME NEW x, x \in Pending(bs) \ Promised(bs[n])
        PROVE  x \in Pending(cs)
    <3>1. PICK k \in 1 .. n : x \in Promised(bs[k])
      BY <2>2, <1>1 DEF Pending
    <3>2. k \in 1 .. n - 1
      BY <3>1, <2>2, <1>1
    <3> QED BY <3>1, <3>2, <1>3 DEF Pending
  <2> QED BY <2>1, <2>2
<1> QED BY <1>4, <1>5, <1>6 DEF n

-----------------------------------------------------------------------------
(* The instructions the statements emit.                                     *)

LEMMA DoIsPlain ==
  ASSUME NEW op \in {"do", "init", "step"}, NEW n \in Nat
  PROVE  /\ <<Do(op, n)>> \in Seq(Instr) /\ Plain(<<Do(op, n)>>)
         /\ Targets(<<Do(op, n)>>) = {}
<1> DEFINE e == Do(op, n)
<1>1. e.op \notin Terminators /\ e.to = <<>> /\ e \in Instr
  BY DEF Do, Terminators, Instr
<1> HIDE DEF e
<1>2. Plain(<<e>>)
  BY <1>1 DEF Plain
<1>3. Targets(<<e>>) = {}
  BY <1>1 DEF Targets
<1> QED BY <1>1, <1>2, <1>3 DEF e

LEMMA RetEnds ==
  ASSUME NEW n \in Nat
  PROVE  <<Ret(n)>> \in Seq(Instr) /\ EndsOnce(<<Ret(n)>>) /\ Targets(<<Ret(n)>>) = {}
<1> DEFINE e == Ret(n)
<1>1. e.op \in Terminators /\ e.to = <<>> /\ e \in Instr
  BY DEF Ret, Terminators, Instr
<1> HIDE DEF e
<1>2. EndsOnce(<<e>>)
  BY <1>1 DEF EndsOnce
<1>3. Targets(<<e>>) = {}
  BY <1>1 DEF Targets
<1> QED BY <1>1, <1>2, <1>3 DEF e

LEMMA BrEnds ==
  ASSUME NEW b \in Nat
  PROVE  <<Br(b)>> \in Seq(Instr) /\ EndsOnce(<<Br(b)>>) /\ Targets(<<Br(b)>>) = {b}
<1> DEFINE e == Br(b)
<1>1. e.op \in Terminators /\ e.to = <<b>> /\ e \in Instr
  BY DEF Br, Terminators, Instr
<1> HIDE DEF e
<1>2. EndsOnce(<<e>>)
  BY <1>1 DEF EndsOnce
<1>3. Targets(<<e>>) = {b}
  BY <1>1 DEF Targets
<1> QED BY <1>1, <1>2, <1>3 DEF e

LEMMA TestEnds ==
  ASSUME NEW n \in Nat, NEW t \in Nat, NEW f \in Nat
  PROVE  /\ <<CondBr(n, t, f)>> \in Seq(Instr) /\ EndsOnce(<<CondBr(n, t, f)>>)
         /\ Targets(<<CondBr(n, t, f)>>) = {t, f}
<1> DEFINE e == CondBr(n, t, f)
<1>1. e.op \in Terminators /\ e.to = <<t, f>> /\ e \in Instr
  BY DEF CondBr, Terminators, Instr
<1> HIDE DEF e
<1>2. EndsOnce(<<e>>)
  BY <1>1 DEF EndsOnce
<1>3. Targets(<<e>>) = {t, f}
  BY <1>1 DEF Targets
<1> QED BY <1>1, <1>2, <1>3 DEF e

LEMMA DoTestEnds ==
  ASSUME NEW op \in {"do", "init", "step"}, NEW n \in Nat, NEW t \in Nat, NEW f \in Nat
  PROVE  /\ <<Do(op, n), CondBr(n, t, f)>> \in Seq(Instr)
         /\ EndsOnce(<<Do(op, n), CondBr(n, t, f)>>)
         /\ \A b \in Targets(<<Do(op, n), CondBr(n, t, f)>>) : b = t \/ b = f
<1>1. <<Do(op, n), CondBr(n, t, f)>> = <<Do(op, n)>> \o <<CondBr(n, t, f)>>
  OBVIOUS
<1>2. <<Do(op, n)>> \in Seq(Instr) /\ <<CondBr(n, t, f)>> \in Seq(Instr)
  BY DoIsPlain, TestEnds
<1>3. EndsOnce(<<Do(op, n)>> \o <<CondBr(n, t, f)>>)
  BY <1>2, DoIsPlain, TestEnds, PlainEnds
<1>4. ASSUME NEW b \in Targets(<<Do(op, n)>> \o <<CondBr(n, t, f)>>)
      PROVE  b = t \/ b = f
  <2>1. b \in Targets(<<Do(op, n)>>) \/ b \in Targets(<<CondBr(n, t, f)>>)
    BY <1>2, TargetsOfBoth
  <2> QED BY <2>1, DoIsPlain, TestEnds
<1>5. <<Do(op, n)>> \o <<CondBr(n, t, f)>> \in Seq(Instr)
  BY <1>2
<1> QED BY <1>1, <1>3, <1>4, <1>5

-----------------------------------------------------------------------------
(* What the constructs do to the blocks.                                     *)

LEMMA Jump ==
  ASSUME NEW f, NEW P, NEW ended \in BOOLEAN, BlockInv(f, P, ~ended), NEW b \in P
  PROVE  /\ BlockInv(Emit(f, BrUnless(ended, b)), P, FALSE)
         /\ Emit(f, BrUnless(ended, b)).list = f.list
<1>1. CASE ended
  BY <1>1, EmitNothing DEF BrUnless
<1>2. CASE ~ended
  <2>1. b \in Nat
    BY DEF BlockInv
  <2>4. ~ended = TRUE
    BY <1>2
  <2>5. BlockInv(f, P, TRUE)
    BY <2>4
  <2>2. <<Br(b)>> \in Seq(Instr) /\ EndsOnce(<<Br(b)>>) /\ Targets(<<Br(b)>>) = {b}
    BY <2>1, BrEnds
  <2> QED BY <1>2, <2>5, <2>2, EmitEnd DEF BrUnless
<1> QED BY <1>1, <1>2

LEMMA ConditionalKeeps ==
  ASSUME NEW f, NEW P, BlockInv(f, P, TRUE), NEW n \in Nat, NEW more \in BOOLEAN
  PROVE  LET g == Conditional(f, n, more)
             L == Len(f.code)
             Q == IF more THEN {L + 2, L + 3} ELSE {L + 3}
         IN /\ BlockInv(g, P \cup Q, TRUE)
            /\ g.list = Append(f.list, L + 1) /\ L \in Nat
            /\ Q \cap P = {}
<1> DEFINE g == Conditional(f, n, more)
           L == Len(f.code)
           Q == IF more THEN {L + 2, L + 3} ELSE {L + 3}
           R == Q \cup {L + 1}
           f1 == Create(f, 3)
           e == <<CondBr(n, L + 1, IF more THEN L + 2 ELSE L + 3)>>
           f2 == Emit(f1, e)
<1>1. L \in Nat /\ R \in SUBSET (L + 1 .. L + 3) /\ L + 1 \notin Q
  <2>1. L \in Nat
    BY DEF BlockInv
  <2> QED BY <2>1
<1>2. BlockInv(f1, P \cup R, TRUE) /\ f1.list = f.list /\ R \cap P = {}
  <2> DEFINE k == 3
  <2>1. k \in Nat /\ R \in SUBSET (Len(f.code) + 1 .. Len(f.code) + k)
    BY <1>1
  <2>2. f1 = Create(f, k)
    OBVIOUS
  <2> HIDE DEF R, Q, f1, k
  <2>3. BlockInv(Create(f, k), P \cup R, TRUE) /\ Create(f, k).list = f.list /\ R \cap P = {}
    BY <2>1, CreateKeeps
  <2> QED BY <2>2, <2>3
<1>3. e \in Seq(Instr) /\ EndsOnce(e) /\ \A b \in Targets(e) : b \in P \cup R
  BY <1>1, TestEnds
<1> HIDE DEF e, f1, R, Q
<1>4. BlockInv(f2, P \cup R, FALSE) /\ f2.list = f.list
  BY <1>2, <1>3, EmitEnd
<1>5. g = Enter(f2, L + 1)
  BY DEF Conditional, f1, e
<1> HIDE DEF f2, g
<1>6. BlockInv(g, (P \cup R) \ {L + 1}, TRUE) /\ g.list = Append(f.list, L + 1)
  BY <1>4, <1>5, EnterKeeps DEF R
<1>7. (P \cup R) \ {L + 1} = P \cup Q
  BY <1>1, <1>2 DEF R
<1>8. Q \cap P = {}
  BY <1>2 DEF R
<1> QED BY <1>1, <1>6, <1>7, <1>8 DEF g, Q

LEMMA Built ==
  ASSUME NEW f, NEW P, NEW open \in BOOLEAN, BlockInv(f, P, open), Build(f)
  PROVE  BlockInv(Builder', P, open) /\ list' = f.list /\ Compiling'
<1>1. Builder'.code = f.code /\ Builder'.list = f.list /\ Builder'.insert = f.insert
  BY DEF Build, Builder, Fn
<1>2. BlockInv(Builder', P, open)
  BY <1>1 DEF BlockInv
<1>3. f.insert \in DOMAIN f.code /\ f.code \in Seq(Seq(Instr))
  BY DEF BlockInv
<1>4. f.insert # 0
  BY <1>3
<1> QED BY <1>1, <1>2, <1>4 DEF Build, Compiling

\* One more statement in the innermost body promises nothing new.
LEMMA GrownKeeps ==
  ASSUME BodiesInv(bodies, list), bodies # <<>>
  PROVE  /\ BodiesInv(Grown, list) /\ Grown # <<>> /\ Len(Grown) = Len(bodies)
         /\ Grown[Len(Grown)] = [Top EXCEPT !.some = TRUE]
         /\ Pending(Grown) = Pending(bodies)
<1> DEFINE n == Len(bodies)
           t == [Top EXCEPT !.some = TRUE]
<1>1. bodies \in Seq(Body) /\ n \in DOMAIN bodies /\ Top \in Body
  BY DEF BodiesInv, Top
<1>2. t \in Body /\ Promised(t) = Promised(Top) /\ t.kind = Top.kind /\ BodyInv(t, list)
  BY <1>1 DEF Body, Promised, BodiesInv, BodyInv, Top
<1>3. Grown = [bodies EXCEPT ![n] = t]
  BY <1>1 DEF Grown, Top
<1>4. Promised(Top) \subseteq Pending(bodies)
  BY <1>1 DEF Pending, Top
<1> HIDE DEF t
<1>5. /\ BodiesInv(Grown, list) /\ Grown # <<>> /\ Len(Grown) = Len(bodies)
      /\ Grown[Len(Grown)] = t
      /\ Pending(Grown) = (Pending(bodies) \ Promised(Top)) \cup Promised(t)
  <2>1. Top = bodies[n]
    BY DEF Top
  <2>2. /\ t.kind = "function" <=> bodies[Len(bodies)].kind = "function"
        /\ Promised(t) \subseteq Promised(bodies[Len(bodies)])
        /\ Grown = [bodies EXCEPT ![Len(bodies)] = t]
    BY <1>2, <1>3, <2>1
  <2>3. t \in Body /\ BodyInv(t, list)
    BY <1>2
  <2> HIDE DEF n
  <2>4. /\ BodiesInv(Grown, list) /\ Grown # <<>> /\ Len(Grown) = Len(bodies)
        /\ Grown[Len(Grown)] = t
        /\ Pending(Grown) = (Pending(bodies) \ Promised(bodies[Len(bodies)])) \cup Promised(t)
    <3>1. Replaced(bodies, t, Grown)
      BY <2>2, <2>3 DEF Replaced
    <3> QED BY <2>3, <3>1, ReplaceTop
  <2> QED BY <2>4 DEF Top
<1> QED BY <1>2, <1>4, <1>5 DEF t

LEMMA RecordKeeps ==
  ASSUME ast \in Seq(Node), NEW op \in Ops, NEW head \in Nat, Record(op, head)
  PROVE  ast' \in Seq(Node)
  BY DEF Record, Node

LEMMA TopIsBody ==
  ASSUME InCompilation
  PROVE  /\ Top \in Body /\ BodyInv(Top, list) /\ Promised(Top) \subseteq Pending(bodies)
         /\ Pending(bodies) \subseteq Nat /\ Len(code) \in Nat /\ list \in Seq(Nat)
<1>1. bodies \in Seq(Body) /\ bodies # <<>> /\ Len(bodies) \in DOMAIN bodies
  BY DEF InCompilation, BodiesInv
<1>2. Builder.code = code /\ Builder.list = list
  BY DEF Builder, Fn
<1>3. code \in Seq(Seq(Instr)) /\ list \in Seq(DOMAIN code) /\ Pending(bodies) \subseteq DOMAIN code
  BY <1>2 DEF InCompilation, BlockInv
<1>4. Pending(bodies) \subseteq Nat /\ Len(code) \in Nat /\ list \in Seq(Nat)
  BY <1>3
<1> QED BY <1>1, <1>4 DEF InCompilation, BodiesInv, Pending, Top

LEMMA SimpleKeeps ==
  ASSUME IInv, CompileSimple
  PROVE  ast' \in Seq(Node) /\ InCompilation'
<1>1. InCompilation /\ ast \in Seq(Node) /\ Here \in Nat
  BY DEF IInv, CompileSimple, TakesStatements, Compiling, Done, Here
<1>2. ast' \in Seq(Node)
  BY <1>1, RecordKeeps DEF CompileSimple, Ops
<1>3. BlockInv(Builder, Pending(bodies), TRUE)
  <2>1. Open(Top) = TRUE
    BY DEF CompileSimple, TakesStatements, Open
  <2> QED BY <1>1, <2>1 DEF InCompilation
<1> DEFINE e == <<Do("do", Here)>>
           f == Emit(Builder, e)
<1>4. BlockInv(f, Pending(bodies), TRUE) /\ f.list = list
  <2>1. e \in Seq(Instr) /\ Plain(e) /\ Targets(e) = {}
    BY <1>1, DoIsPlain
  <2>2. Builder.list = list
    BY DEF Builder, Fn
  <2> HIDE DEF e
  <2> QED BY <1>3, <2>1, <2>2, EmitPlain
<1>5. Build(f) /\ bodies' = Grown
  BY DEF CompileSimple
<1> HIDE DEF f
<1>6. BlockInv(Builder', Pending(bodies), TRUE) /\ list' = list /\ Compiling'
  BY <1>4, <1>5, Built
<1>7. /\ BodiesInv(Grown, list) /\ Grown # <<>>
      /\ Grown[Len(Grown)] = [Top EXCEPT !.some = TRUE] /\ Pending(Grown) = Pending(bodies)
  BY <1>1, GrownKeeps DEF InCompilation
<1>8. Open(Top') = TRUE
  <2>1. Top' = [Top EXCEPT !.some = TRUE] /\ Top \in Body
    BY <1>1, <1>5, <1>7, TopIsBody DEF Top
  <2> QED BY <2>1 DEF Ended, Open, CompileSimple, TakesStatements, Body
<1> QED BY <1>2, <1>5, <1>6, <1>7, <1>8 DEF InCompilation

LEMMA LeaveKeeps ==
  ASSUME IInv, NEW op \in {"return", "exit"}, CompileLeave(op)
  PROVE  ast' \in Seq(Node) /\ InCompilation'
<1>1. InCompilation /\ ast \in Seq(Node) /\ Here \in Nat
  BY DEF IInv, CompileLeave, TakesStatements, Compiling, Done, Here
<1>2. ast' \in Seq(Node)
  BY <1>1, RecordKeeps DEF CompileLeave, Ops
<1>3. BlockInv(Builder, Pending(bodies), TRUE)
  <2>1. Open(Top) = TRUE
    BY DEF CompileLeave, TakesStatements, Open
  <2> QED BY <1>1, <2>1 DEF InCompilation
<1> DEFINE f == Emit(Builder, <<Ret(Here)>>)
           n == Len(bodies)
           t == [[Top EXCEPT !.some = TRUE] EXCEPT !.returned = (op = "return"),
                                                   !.exited = (op = "exit")]
<1>4. BlockInv(f, Pending(bodies), FALSE) /\ f.list = list
  <2>1. <<Ret(Here)>> \in Seq(Instr) /\ EndsOnce(<<Ret(Here)>>) /\ Targets(<<Ret(Here)>>) = {}
    BY <1>1, RetEnds
  <2>2. Builder.list = list
    BY DEF Builder, Fn
  <2> QED BY <1>3, <2>1, <2>2, EmitEnd
<1>5. /\ Build(f)
      /\ bodies' = [Grown EXCEPT ![n].returned = (op = "return"), ![n].exited = (op = "exit")]
  BY DEF CompileLeave, Left
<1> HIDE DEF f
<1>6. BlockInv(Builder', Pending(bodies), FALSE) /\ list' = list /\ Compiling'
  BY <1>4, <1>5, Built
<1>7. /\ BodiesInv(Grown, list) /\ Grown # <<>> /\ Len(Grown) = n
      /\ Grown[n] = [Top EXCEPT !.some = TRUE] /\ Pending(Grown) = Pending(bodies)
  BY <1>1, GrownKeeps DEF InCompilation
<1>8. Top \in Body /\ BodyInv(Top, list) /\ Top.kind # "next"
  BY <1>1, TopIsBody DEF CompileLeave, TakesStatements
<1>9. /\ t \in Body /\ Ended(t) /\ t.kind = Top.kind /\ Promised(t) = Promised(Grown[n])
      /\ BodyInv(t, list) /\ Grown[n].kind = Top.kind
  BY <1>7, <1>8 DEF Body, Promised, BodyInv, Ended
<1>10. bodies' = [Grown EXCEPT ![n] = t]
  BY <1>5, <1>7 DEF BodiesInv
<1> HIDE DEF t
<1>11. /\ BodiesInv(bodies', list) /\ bodies' # <<>> /\ bodies'[Len(bodies')] = t
       /\ Pending(bodies') = (Pending(Grown) \ Promised(Grown[n])) \cup Promised(t)
  <2>1. /\ t.kind = "function" <=> Grown[Len(Grown)].kind = "function"
        /\ Promised(t) \subseteq Promised(Grown[Len(Grown)])
        /\ bodies' = [Grown EXCEPT ![Len(Grown)] = t]
    BY <1>7, <1>9, <1>10
  <2>2. t \in Body /\ BodyInv(t, list)
    BY <1>9
  <2>3. BodiesInv(Grown, list) /\ Grown # <<>> /\ Len(Grown) = n
    BY <1>7
  <2> HIDE DEF n
  <2>4. Replaced(Grown, t, bodies')
    BY <2>1, <2>2, <2>3 DEF Replaced
  <2> QED BY <2>2, <2>3, <2>4, ReplaceTop
<1>12. Promised(Grown[n]) \subseteq Pending(Grown)
  <2>1. n \in DOMAIN Grown
    BY <1>7 DEF BodiesInv
  <2> QED BY <2>1 DEF Pending
<1>13. Pending(bodies') = Pending(bodies)
  BY <1>7, <1>9, <1>11, <1>12
<1>14. Open(Top') = FALSE
  BY <1>8, <1>9, <1>11 DEF Top, Open
<1> QED BY <1>2, <1>6, <1>11, <1>13, <1>14 DEF InCompilation

\* A new body of an `if` or `elsif` with fresh blocks, as a body by itself.
LEMMA ThenBody ==
  ASSUME NEW n \in Nat, NEW more \in BOOLEAN, NEW L \in Nat, NEW l
  PROVE  LET t == NewBody("then", n, more, L + 2, L + 3) IN
         /\ t \in Body /\ BodyInv(t, l) /\ t.kind = "then" /\ ~Ended(t)
         /\ Promised(t) = IF more THEN {L + 2, L + 3} ELSE {L + 3}
  BY DEF NewBody, Body, BodyInv, Promised, Ended

\* The blocks and the bodies after a construct is opened or closed.
LEMMA Opened ==
  ASSUME NEW f, NEW P, BlockInv(f, P, TRUE), Build(f), BodiesInv(bodies', f.list),
         bodies' # <<>>, Open(bodies'[Len(bodies')]), Pending(bodies') = P
  PROVE  InCompilation'
<1>1. BlockInv(Builder', P, TRUE) /\ list' = f.list /\ Compiling'
  BY Built
<1>2. Open(Top') = TRUE
  BY DEF Top, Open
<1> QED BY <1>1, <1>2 DEF InCompilation

LEMMA IfKeeps ==
  ASSUME IInv, NEW more \in BOOLEAN, CompileIf(more)
  PROVE  ast' \in Seq(Node) /\ InCompilation'
<1> DEFINE L == Len(code)
           P == Pending(bodies)
           t == NewBody("then", Here, more, L + 2, L + 3)
           f == Conditional(Builder, Here, more)
           Q == IF more THEN {L + 2, L + 3} ELSE {L + 3}
<1>1. InCompilation /\ ast \in Seq(Node) /\ Here \in Nat
  BY DEF IInv, CompileIf, TakesStatements, Compiling, Done, Here
<1>2. ast' \in Seq(Node)
  BY <1>1, RecordKeeps DEF CompileIf, Ops
<1>3. BlockInv(Builder, P, TRUE)
  <2>1. Open(Top) = TRUE
    BY DEF CompileIf, TakesStatements, Open
  <2> QED BY <1>1, <2>1 DEF InCompilation
<1>4. Builder.code = code /\ Builder.list = list
  BY DEF Builder, Fn
<1>5. /\ BlockInv(f, P \cup Q, TRUE) /\ f.list = Append(list, L + 1)
      /\ L \in Nat /\ Q \cap P = {} /\ list \in Seq(Nat)
  BY <1>1, <1>3, <1>4, ConditionalKeeps, TopIsBody
<1>6. Build(f) /\ bodies' = Append(Grown, t)
  BY DEF CompileIf, Fresh
<1>7. /\ BodiesInv(Grown, list) /\ Grown # <<>>
      /\ Grown[Len(Grown)] = [Top EXCEPT !.some = TRUE] /\ Pending(Grown) = P
  BY <1>1, GrownKeeps DEF InCompilation
<1>8. t \in Body /\ BodyInv(t, f.list) /\ t.kind = "then" /\ ~Ended(t) /\ Promised(t) = Q
  BY <1>1, <1>5, ThenBody
<1>9. Open(Grown[Len(Grown)])
  BY <1>1, <1>7, TopIsBody DEF Ended, Open, CompileIf, TakesStatements, Body
<1> HIDE DEF t, f, Q, P
<1>10. BodiesInv(Grown, f.list)
  <2> DEFINE b == L + 1
  <2>1. b \in Nat /\ f.list = Append(list, b)
    BY <1>5
  <2> HIDE DEF b
  <2> QED BY <1>5, <1>7, <2>1, ListGrows
<1>11. /\ BodiesInv(bodies', f.list) /\ bodies' # <<>> /\ bodies'[Len(bodies')] = t
       /\ Pending(bodies') = P \cup Q
  <2>1. Promised(t) \cap Pending(Grown) = {} /\ t.kind # "function"
    BY <1>5, <1>7, <1>8
  <2>2. /\ BodiesInv(bodies', f.list) /\ bodies' # <<>> /\ bodies'[Len(bodies')] = t
        /\ Pending(bodies') = Pending(Grown) \cup Promised(t)
    <3>1. BodiesInv(Grown, f.list) /\ Grown # <<>> /\ Open(Grown[Len(Grown)])
      BY <1>7, <1>9, <1>10
    <3>2. t \in Body /\ BodyInv(t, f.list) /\ bodies' = Append(Grown, t)
      BY <1>6, <1>8
    <3> QED BY <2>1, <3>1, <3>2, PushBody
  <2> QED BY <2>2, <1>7, <1>8
<1>12. Open(bodies'[Len(bodies')])
  BY <1>8, <1>11 DEF Open
<1> QED BY <1>2, <1>5, <1>6, <1>11, <1>12, Opened

\* The branch behind a condition's body, into else_bb: the body is now of kind
\* k, which still promises merge_bb.
LEMMA EnterElseKeeps ==
  ASSUME InCompilation, ThenWithMore, NEW t \in Body,
         t.kind \in {"next", "else"}, t.after = Top.after,
         NEW cs, Replaced(bodies, t, cs)
  PROVE  /\ BlockInv(EnterElse, Pending(cs), TRUE) /\ BodiesInv(cs, EnterElse.list)
         /\ cs # <<>> /\ Len(cs) = Len(bodies) /\ cs[Len(cs)] = t
         /\ Len(EnterElse.code) = Len(code)
<1> DEFINE P == Pending(bodies)
           f == Emit(Builder, BrUnless(Ended(Top), Top.after))
<1>1. /\ Top \in Body /\ BodyInv(Top, list) /\ Promised(Top) \subseteq P
      /\ P \subseteq Nat /\ list \in Seq(Nat)
  BY TopIsBody
<1>2. /\ Top.kind = "then" /\ Promised(Top) = {Top.other, Top.after}
      /\ Top.other # Top.after /\ Ended(Top) \in BOOLEAN
  BY <1>1 DEF Ended, ThenWithMore, Promised, BodyInv, Body
<1>3. Promised(t) = {Top.after}
  BY DEF Promised
<1>4. BlockInv(Builder, P, ~Ended(Top))
  <2>1. Open(Top) = ~Ended(Top)
    BY <1>2 DEF Open
  <2> QED BY <2>1 DEF InCompilation
<1>5. BlockInv(f, P, FALSE) /\ f.list = list /\ Len(f.code) = Len(code)
  <2>1. Top.after \in P
    BY <1>1, <1>2
  <2>2. BlockInv(f, P, FALSE) /\ f.list = Builder.list
    BY <2>1, <1>2, <1>4, Jump
  <2>3. Builder.list = list
    BY DEF Builder, Fn
  <2>4. f.code = [code EXCEPT ![insert] = @ \o BrUnless(Ended(Top), Top.after)]
    BY DEF Emit, Builder, Fn
  <2>5. code \in Seq(Seq(Instr))
    BY DEF InCompilation, BlockInv, Builder, Fn
  <2>6. f.code \in Seq(Seq(Instr))
    BY <2>2 DEF BlockInv
  <2>7. DOMAIN f.code = DOMAIN code
    BY <2>4
  <2> HIDE DEF f
  <2>8. Len(f.code) = Len(code)
    BY <2>5, <2>6, <2>7
  <2> QED BY <2>2, <2>3, <2>8
<1>6. EnterElse = Enter(f, Top.other) /\ Top.other \in P
  BY <1>1, <1>2 DEF EnterElse
<1> HIDE DEF f, P
<1>7. /\ BlockInv(EnterElse, P \ {Top.other}, TRUE) /\ EnterElse.list = Append(list, Top.other)
      /\ EnterElse.code = f.code
  BY <1>5, <1>6, EnterKeeps
<1>8. BodiesInv(bodies, EnterElse.list)
  <2>1. BodiesInv(bodies, list) /\ Top.other \in Nat
    BY <1>1, <1>6 DEF InCompilation
  <2> QED BY <2>1, <1>1, <1>7, ListGrows
<1>9. /\ BodiesInv(cs, EnterElse.list) /\ cs # <<>> /\ Len(cs) = Len(bodies)
      /\ cs[Len(cs)] = t /\ Pending(cs) = (P \ Promised(Top)) \cup Promised(t)
  <2>1. BodyInv(t, EnterElse.list)
    BY DEF BodyInv
  <2> QED BY <1>8, <2>1, ReplaceTop DEF Top, P
<1>10. Pending(cs) = P \ {Top.other}
  BY <1>1, <1>2, <1>3, <1>9
<1> QED BY <1>5, <1>7, <1>9, <1>10

LEMMA ElseKeeps ==
  ASSUME IInv, CompileElse
  PROVE  ast' \in Seq(Node) /\ InCompilation'
<1> DEFINE t == NewBody("else", Top.node, FALSE, Top.other, Top.after)
<1>1. InCompilation /\ ast \in Seq(Node) /\ ThenWithMore
  BY DEF IInv, CompileElse, ThenWithMore, Compiling, Done
<1>2. Top \in Body
  BY <1>1, TopIsBody
<1>3. ast' \in Seq(Node)
  BY <1>1, <1>2, RecordKeeps DEF CompileElse, Ops, Body
<1>4. /\ t \in Body /\ t.kind = "else" /\ t.after = Top.after /\ ~Ended(t)
  BY <1>2 DEF NewBody, Body, Ended
<1>5. bodies' = [bodies EXCEPT ![Len(bodies)] = t] /\ Build(EnterElse)
  BY DEF CompileElse, Top
<1> HIDE DEF t
<1>6. /\ BlockInv(EnterElse, Pending(bodies'), TRUE) /\ BodiesInv(bodies', EnterElse.list)
      /\ bodies' # <<>> /\ bodies'[Len(bodies')] = t
  <2>1. Replaced(bodies, t, bodies')
    <3>1. bodies # <<>> /\ Top.kind = "then" /\ Promised(Top) = {Top.other, Top.after}
      BY <1>1 DEF InCompilation, ThenWithMore, Promised
    <3>2. Promised(t) = {Top.after}
      BY <1>4 DEF Promised
    <3> QED BY <1>4, <1>5, <3>1, <3>2 DEF Replaced, Top
  <2> QED BY <1>1, <1>4, <2>1, EnterElseKeeps
<1>7. Open(bodies'[Len(bodies')])
  BY <1>4, <1>6 DEF Open
<1> QED BY <1>3, <1>5, <1>6, <1>7, Opened

LEMMA ElsifKeeps ==
  ASSUME IInv, NEW more \in BOOLEAN, CompileElsif(more)
  PROVE  ast' \in Seq(Node) /\ InCompilation'
<1> DEFINE L == Len(code)
           u == [Top EXCEPT !.kind = "next"]
           cs == [bodies EXCEPT ![Len(bodies)] = u]
           t == NewBody("then", Here, more, L + 2, L + 3)
           f == Conditional(EnterElse, Here, more)
           Q == IF more THEN {L + 2, L + 3} ELSE {L + 3}
<1>1. InCompilation /\ ast \in Seq(Node) /\ ThenWithMore /\ Here \in Nat
  BY DEF IInv, CompileElsif, ThenWithMore, Compiling, Done, Here
<1>2. Top \in Body /\ L \in Nat
  BY <1>1, TopIsBody
<1>3. ast' \in Seq(Node)
  BY <1>1, <1>2, RecordKeeps DEF CompileElsif, Ops, Body
<1>4. u \in Body /\ u.kind = "next" /\ u.after = Top.after
  BY <1>2 DEF Body
<1>5. Build(f) /\ bodies' = Append(cs, t)
  <2>1. [bodies EXCEPT ![Len(bodies)].kind = "next"] = cs
    BY <1>1 DEF InCompilation, BodiesInv, Top
  <2> QED BY <2>1 DEF CompileElsif, Fresh
<1> HIDE DEF u, cs
<1>6. /\ BlockInv(EnterElse, Pending(cs), TRUE) /\ BodiesInv(cs, EnterElse.list)
      /\ cs # <<>> /\ cs[Len(cs)] = u /\ Len(EnterElse.code) = L
  <2>1. Replaced(bodies, u, cs)
    <3>1. bodies # <<>> /\ Top.kind = "then" /\ Promised(Top) = {Top.other, Top.after}
      BY <1>1 DEF InCompilation, ThenWithMore, Promised
    <3>2. Promised(u) = {Top.after}
      BY <1>4 DEF Promised
    <3> QED BY <1>4, <3>1, <3>2 DEF Replaced, Top, cs
  <2> QED BY <1>1, <1>4, <2>1, EnterElseKeeps
<1>7. /\ BlockInv(f, Pending(cs) \cup Q, TRUE) /\ f.list = Append(EnterElse.list, L + 1)
      /\ Q \cap Pending(cs) = {}
  BY <1>1, <1>6, ConditionalKeeps
<1>8. t \in Body /\ BodyInv(t, f.list) /\ t.kind = "then" /\ ~Ended(t) /\ Promised(t) = Q
  BY <1>1, <1>2, ThenBody
<1> HIDE DEF t, f, Q
<1>9. BodiesInv(cs, f.list)
  <2> DEFINE b == L + 1
  <2>1. b \in Nat /\ f.list = Append(EnterElse.list, b)
    BY <1>2, <1>7
  <2>2. EnterElse.list \in Seq(Nat)
    <3>1. EnterElse.list \in Seq(DOMAIN EnterElse.code) /\ EnterElse.code \in Seq(Seq(Instr))
      BY <1>6 DEF BlockInv
    <3> QED BY <3>1
  <2> HIDE DEF b
  <2> QED BY <1>6, <2>1, <2>2, ListGrows
<1>10. /\ BodiesInv(bodies', f.list) /\ bodies' # <<>> /\ bodies'[Len(bodies')] = t
       /\ Pending(bodies') = Pending(cs) \cup Q
  <2>1. Promised(t) \cap Pending(cs) = {} /\ t.kind # "function" /\ Open(cs[Len(cs)])
    BY <1>4, <1>6, <1>7, <1>8 DEF Open
  <2>2. /\ BodiesInv(bodies', f.list) /\ bodies' # <<>> /\ bodies'[Len(bodies')] = t
        /\ Pending(bodies') = Pending(cs) \cup Promised(t)
    <3>1. BodiesInv(cs, f.list) /\ cs # <<>> /\ Open(cs[Len(cs)])
      BY <1>6, <1>9, <2>1
    <3>2. t \in Body /\ BodyInv(t, f.list) /\ bodies' = Append(cs, t)
      BY <1>5, <1>8
    <3> QED BY <2>1, <3>1, <3>2, PushBody
  <2> QED BY <2>2, <1>8
<1>11. Open(bodies'[Len(bodies')])
  BY <1>8, <1>10 DEF Open
<1> QED BY <1>3, <1>5, <1>7, <1>10, <1>11, Opened

\* The branch or test behind a construct's last body, into the block after it,
\* which is all the body still promised.
LEMMA ClosedKeeps ==
  ASSUME InCompilation, Top.kind # "function", Promised(Top) = {Top.after},
         NEW e, BlockInv(Emit(Builder, e), Pending(bodies), FALSE),
         Emit(Builder, e).list = list,
         Build(Enter(Emit(Builder, e), Top.after)),
         bodies' = SubSeq(bodies, 1, Len(bodies) - 1)
  PROVE  InCompilation'
<1> DEFINE P == Pending(bodies)
           f == Emit(Builder, e)
           g == Enter(f, Top.after)
<1>1. Top.after \in P /\ P \subseteq Nat /\ list \in Seq(Nat)
  BY TopIsBody
<1>2. Top = bodies[Len(bodies)] /\ bodies # <<>> /\ BodiesInv(bodies, list)
  BY DEF Top, InCompilation
<1>3. Build(g) /\ BlockInv(f, P, FALSE) /\ f.list = list
  OBVIOUS
<1> HIDE DEF P, f
<1>4. BlockInv(g, P \ {Top.after}, TRUE) /\ g.list = Append(list, Top.after)
  <2> DEFINE b == Top.after
  <2>1. b \in P /\ g = Enter(f, b)
    BY <1>1
  <2> HIDE DEF b, g
  <2>2. BlockInv(f, P, FALSE)
    BY <1>3
  <2>3. BlockInv(g, P \ {b}, TRUE) /\ g.list = Append(f.list, b)
    BY <2>1, <2>2, EnterKeeps
  <2> QED BY <1>3, <2>3 DEF b
<1> HIDE DEF g
<1>5. BodiesInv(bodies, g.list)
  BY <1>1, <1>2, <1>4, ListGrows
<1>6. /\ BodiesInv(bodies', g.list) /\ bodies' # <<>> /\ Open(bodies'[Len(bodies')])
      /\ Pending(bodies') = P \ Promised(Top)
  BY <1>2, <1>5, PopBody DEF P
<1> QED BY <1>3, <1>4, <1>6, Opened

LEMMA FiKeeps ==
  ASSUME IInv, CompileFi
  PROVE  ast' \in Seq(Node) /\ InCompilation'
<1> DEFINE ended == ~JumpsToMerge
           e == BrUnless(ended, Top.after)
<1>1. InCompilation /\ ast \in Seq(Node)
  BY DEF IInv, CompileFi, Compiling, Done
<1>2. Top \in Body /\ Promised(Top) \subseteq Pending(bodies)
  BY <1>1, TopIsBody
<1>3. ast' \in Seq(Node)
  BY <1>1, <1>2, RecordKeeps DEF CompileFi, Ops, Body
<1>4. Top.kind # "function" /\ Promised(Top) = {Top.after}
  BY DEF CompileFi, Promised
<1>5. ended \in BOOLEAN /\ BlockInv(Builder, Pending(bodies), ~ended)
  <2>1. ended \in BOOLEAN /\ Open(Top) = ~ended
    BY DEF JumpsToMerge, Open
  <2> QED BY <1>1, <2>1 DEF InCompilation
<1>6. /\ Build(Enter(Emit(Builder, e), Top.after))
      /\ bodies' = SubSeq(bodies, 1, Len(bodies) - 1)
  BY DEF CompileFi
<1> HIDE DEF ended
<1>7. BlockInv(Emit(Builder, e), Pending(bodies), FALSE) /\ Emit(Builder, e).list = list
  <2>1. Top.after \in Pending(bodies)
    BY <1>2, <1>4
  <2>2. BlockInv(Emit(Builder, e), Pending(bodies), FALSE) /\ Emit(Builder, e).list = Builder.list
    BY <1>5, <2>1, Jump
  <2> QED BY <2>2 DEF Builder, Fn
<1> HIDE DEF e
<1> QED BY <1>1, <1>3, <1>4, <1>6, <1>7, ClosedKeeps

LEMMA OdKeeps ==
  ASSUME IInv, CompileOd
  PROVE  ast' \in Seq(Node) /\ InCompilation'
<1> DEFINE e == Repeat(Top)
           P == Pending(bodies)
<1>1. InCompilation /\ ast \in Seq(Node)
  BY DEF IInv, CompileOd, Compiling, Done
<1>2. /\ Top \in Body /\ Promised(Top) \subseteq P /\ P \subseteq Nat
      /\ BodyInv(Top, list) /\ list \in Seq(Nat)
  BY <1>1, TopIsBody
<1>3. ast' \in Seq(Node)
  BY <1>1, <1>2, RecordKeeps DEF CompileOd, Ops, Body
<1>4. Top.kind = "loop" /\ Promised(Top) = {Top.after} /\ Top.after \in P
  BY <1>2 DEF CompileOd, Promised
<1>5. /\ Build(Enter(Emit(Builder, e), Top.after))
      /\ bodies' = SubSeq(bodies, 1, Len(bodies) - 1)
  BY DEF CompileOd
<1>6. Builder.list = list
  BY DEF Builder, Fn
<1>7. BlockInv(Emit(Builder, e), P, FALSE) /\ Emit(Builder, e).list = list
  <2>1. CASE Ended(Top)
    <3>1. Open(Top) = FALSE /\ e = <<>>
      BY <1>4, <2>1 DEF Open, Repeat
    <3>2. BlockInv(Builder, P, FALSE)
      BY <1>1, <3>1 DEF InCompilation
    <3> QED BY <1>6, <3>1, <3>2, EmitNothing
  <2>2. CASE ~Ended(Top)
    <3>1. Open(Top) = TRUE /\ e = <<Do("step", Top.node), CondBr(Top.node, Top.other, Top.after)>>
      BY <2>2 DEF Open, Repeat
    <3>2. BlockInv(Builder, P, TRUE)
      BY <1>1, <3>1 DEF InCompilation
    <3>3. /\ e \in Seq(Instr) /\ EndsOnce(e)
          /\ \A b \in Targets(e) : b = Top.other \/ b = Top.after
      BY <1>2, <3>1, DoTestEnds DEF Body
    <3>4. \A b \in Targets(e) : b \in P \/ \E j \in DOMAIN Builder.list : Builder.list[j] = b
      BY <1>2, <1>4, <1>6, <3>3 DEF BodyInv
    <3> HIDE DEF e, P
    <3> QED BY <1>6, <3>2, <3>3, <3>4, EmitEnd
  <2> QED BY <2>1, <2>2
<1> HIDE DEF e
<1> QED BY <1>1, <1>3, <1>4, <1>5, <1>7, ClosedKeeps

LEMMA ForKeeps ==
  ASSUME IInv, CompileFor
  PROVE  ast' \in Seq(Node) /\ InCompilation'
<1> DEFINE L == Len(code)
           P == Pending(bodies)
           two == 2
           R == {L + 1, L + 2}
           t == NewBody("loop", Here, FALSE, L + 1, L + 2)
           f1 == Create(Builder, two)
           e == <<Do("init", Here), CondBr(Here, L + 1, L + 2)>>
           f2 == Emit(f1, e)
           f == Enter(f2, L + 1)
<1>1. InCompilation /\ ast \in Seq(Node) /\ Here \in Nat
  BY DEF IInv, CompileFor, TakesStatements, Compiling, Done, Here
<1>2. ast' \in Seq(Node)
  BY <1>1, RecordKeeps DEF CompileFor, Ops
<1>3. BlockInv(Builder, P, TRUE)
  <2>1. Open(Top) = TRUE
    BY DEF CompileFor, TakesStatements, Open
  <2> QED BY <1>1, <2>1 DEF InCompilation
<1>4. Builder.code = code /\ Builder.list = list /\ L \in Nat /\ list \in Seq(Nat)
  BY <1>1, TopIsBody DEF Builder, Fn
<1>5. Build(f) /\ bodies' = Append(Grown, t)
  BY DEF CompileFor, Fresh
<1>6. t \in Body /\ t.kind = "loop" /\ ~Ended(t) /\ t.other = L + 1 /\ Promised(t) = {L + 2}
  BY <1>1, <1>4 DEF NewBody, Body, Promised, Ended
<1>7. e \in Seq(Instr) /\ EndsOnce(e) /\ \A b \in Targets(e) : b \in P \cup R
  BY <1>1, <1>4, DoTestEnds
<1>8. two \in Nat /\ R \in SUBSET (Len(Builder.code) + 1 .. Len(Builder.code) + two)
  BY <1>4
<1> HIDE DEF e, t, two, R, P
<1>9. BlockInv(f1, P \cup R, TRUE) /\ f1.list = list /\ R \cap P = {}
  BY <1>3, <1>4, <1>8, CreateKeeps
<1> HIDE DEF f1
<1>10. BlockInv(f2, P \cup R, FALSE) /\ f2.list = list
  BY <1>7, <1>9, EmitEnd
<1> HIDE DEF f2
<1>11. BlockInv(f, (P \cup R) \ {L + 1}, TRUE) /\ f.list = Append(list, L + 1)
  <2> DEFINE b == L + 1
  <2>1. b \in P \cup R
    BY DEF R
  <2>2. f = Enter(f2, b)
    OBVIOUS
  <2> HIDE DEF b, f
  <2>3. BlockInv(f, (P \cup R) \ {b}, TRUE) /\ f.list = Append(f2.list, b)
    BY <1>10, <2>1, <2>2, EnterKeeps
  <2> QED BY <1>10, <2>3 DEF b
<1>12. (P \cup R) \ {L + 1} = P \cup Promised(t) /\ Promised(t) \cap P = {}
  BY <1>4, <1>6, <1>9 DEF R
<1> HIDE DEF f
<1>13. /\ BodiesInv(Grown, list) /\ Grown # <<>>
       /\ Grown[Len(Grown)] = [Top EXCEPT !.some = TRUE] /\ Pending(Grown) = P
  BY <1>1, GrownKeeps DEF InCompilation, P
<1>14. Open(Grown[Len(Grown)])
  BY <1>1, <1>13, TopIsBody DEF Ended, Open, CompileFor, TakesStatements, Body
<1>15. BodiesInv(Grown, f.list) /\ BodyInv(t, f.list)
  <2> DEFINE b == L + 1
  <2>1. b \in Nat /\ f.list = Append(list, b) /\ t.other = b
    BY <1>4, <1>6, <1>11
  <2> HIDE DEF b
  <2>2. BodiesInv(Grown, f.list)
    BY <1>4, <1>13, <2>1, ListGrows
  <2>3. f.list[Len(list) + 1] = b /\ Len(list) + 1 \in DOMAIN f.list
    BY <1>4, <2>1, AppendOne
  <2> QED BY <1>6, <2>1, <2>2, <2>3 DEF BodyInv
<1>16. /\ BodiesInv(bodies', f.list) /\ bodies' # <<>> /\ bodies'[Len(bodies')] = t
       /\ Pending(bodies') = P \cup Promised(t)
  <2>1. Promised(t) \cap Pending(Grown) = {} /\ t.kind # "function" /\ t \in Body
    BY <1>6, <1>12, <1>13
  <2>2. /\ BodiesInv(bodies', f.list) /\ bodies' # <<>> /\ bodies'[Len(bodies')] = t
        /\ Pending(bodies') = Pending(Grown) \cup Promised(t)
    <3>1. BodiesInv(Grown, f.list) /\ Grown # <<>> /\ Open(Grown[Len(Grown)])
      BY <1>13, <1>14, <1>15
    <3>2. BodyInv(t, f.list) /\ bodies' = Append(Grown, t)
      BY <1>5, <1>15
    <3> QED BY <2>1, <3>1, <3>2, PushBody
  <2> QED BY <2>2, <1>13
<1>17. Open(bodies'[Len(bodies')])
  BY <1>6, <1>16 DEF Open
<1>18. BlockInv(f, P \cup Promised(t), TRUE)
  BY <1>11, <1>12
<1> QED BY <1>2, <1>5, <1>16, <1>17, <1>18, Opened

LEMMA EndKeeps ==
  ASSUME IInv, CompileEnd
  PROVE  Done'
<1> DEFINE e == IF EndedAsTyped THEN <<>> ELSE <<Ret(0)>>
<1>1. InCompilation
  BY DEF IInv, CompileEnd, Compiling, Done
<1>2. Pending(bodies) = {}
  <2>1. Len(bodies) \in DOMAIN bodies /\ bodies[Len(bodies)].kind = "function"
    BY <1>1 DEF InCompilation, BodiesInv, CompileEnd, Top
  <2>2. Len(bodies) = 1
    BY <1>1, <2>1 DEF InCompilation, BodiesInv
  <2>3. \A k \in DOMAIN bodies : Promised(bodies[k]) = {}
    BY <1>1, <2>1, <2>2 DEF InCompilation, BodiesInv, Promised
  <2> QED BY <2>3 DEF Pending
<1>3. e \in Seq(Instr) /\ Targets(e) = {}
  BY RetEnds, NoInstructions
<1>4. code' = [code EXCEPT ![insert] = @ \o e] /\ insert' = 0 /\ bodies' = <<>> /\ list' = list
  BY DEF CompileEnd, Emit, Builder, Fn
<1> HIDE DEF e
<1>5. /\ code \in Seq(Seq(Instr)) /\ list \in Seq(DOMAIN code)
      /\ \A i, j \in DOMAIN list : list[i] = list[j] => i = j
      /\ insert \in DOMAIN code
      /\ \A i \in DOMAIN list : \A b \in Targets(code[list[i]]) : \E j \in DOMAIN list : list[j] = b
  <2>1. BlockInv(Builder, {}, Open(Top))
    BY <1>1, <1>2 DEF InCompilation
  <2> QED BY <2>1 DEF BlockInv, Builder, Fn
<1>6. code[insert] \in Seq(Instr) /\ code[insert] \o e \in Seq(Instr)
  BY <1>3, <1>5
<1>7. /\ code' \in Seq(Seq(Instr)) /\ DOMAIN code' = DOMAIN code
      /\ \A b \in DOMAIN code : code'[b] = IF b = insert THEN code[b] \o e ELSE code[b]
  BY <1>4, <1>5, <1>6
<1>8. ASSUME NEW i \in DOMAIN list, NEW b \in Targets(code'[list[i]])
      PROVE  b \in Targets(code[list[i]])
  <2>1. list[i] \in DOMAIN code
    BY <1>5
  <2>2. CASE list[i] = insert
    <3>1. b \in Targets(code[insert] \o e)
      BY <1>7, <1>8, <2>1, <2>2
    <3> QED BY <1>3, <1>6, <2>2, <3>1, TargetsOfBoth
  <2>3. CASE list[i] # insert
    BY <1>7, <1>8, <2>1, <2>3
  <2> QED BY <2>2, <2>3
<1> QED BY <1>4, <1>5, <1>7, <1>8 DEF Done

-----------------------------------------------------------------------------
(* The theorems.                                                             *)

LEMMA InitInv == Init => IInv
<1> SUFFICES ASSUME Init
             PROVE  IInv
  OBVIOUS
<1> DEFINE b == NewBody("function", 0, FALSE, 0, 0)
<1>1. bodies = <<b>> /\ b \in Body /\ b.kind = "function" /\ ~Ended(b) /\ Promised(b) = {}
  BY DEF Init, NewBody, Body, Promised, Ended
<1> HIDE DEF b
<1>2. Pending(bodies) = {} /\ Open(Top) = TRUE
  BY <1>1 DEF Pending, Open, Top
<1>3. BodiesInv(bodies, list)
  BY <1>1 DEF BodiesInv, BodyInv
<1>4. Builder.code = << <<>> >> /\ Builder.list = <<1>> /\ Builder.insert = 1
  BY DEF Init, Builder, Fn
<1>5. BlockInv(Builder, {}, TRUE)
  <2>1. Builder.code \in Seq(Seq(Instr)) /\ Builder.list \in Seq(DOMAIN Builder.code)
    BY <1>4, NoInstructions
  <2> QED BY <1>4, <2>1, NoInstructions DEF BlockInv
<1>6. BlockInv(Builder, Pending(bodies), Open(Top))
  BY <1>2, <1>5
<1>7. Compiling /\ bodies # <<>> /\ typed \in BOOLEAN /\ ast \in Seq(Node)
  BY <1>1 DEF Init, Compiling
<1> QED BY <1>3, <1>6, <1>7 DEF IInv, InCompilation

LEMMA NextInv == IInv /\ [Next]_vars => IInv'
<1> SUFFICES ASSUME IInv, [Next]_vars
             PROVE  IInv'
  OBVIOUS
<1>1. CASE UNCHANGED gen
  BY <1>1 DEF gen, IInv, InCompilation, Done, Compiling, Top, Builder, Open
<1>2. CASE Compile
  <2>1. typed' = typed
    BY <1>2 DEF Compile, CompileSimple, CompileLeave, CompileIf, CompileElsif, CompileElse,
                CompileFi, CompileFor, CompileOd, CompileEnd
  <2>2. CASE CompileSimple
    BY <2>1, <2>2, SimpleKeeps DEF IInv
  <2>3. ASSUME NEW op \in {"return", "exit"}, CompileLeave(op)
        PROVE  IInv'
    BY <2>1, <2>3, LeaveKeeps DEF IInv
  <2>4. ASSUME NEW more \in BOOLEAN, CompileIf(more)
        PROVE  IInv'
    BY <2>1, <2>4, IfKeeps DEF IInv
  <2>5. ASSUME NEW more \in BOOLEAN, CompileElsif(more)
        PROVE  IInv'
    BY <2>1, <2>5, ElsifKeeps DEF IInv
  <2>6. CASE CompileElse
    BY <2>1, <2>6, ElseKeeps DEF IInv
  <2>7. CASE CompileFi
    BY <2>1, <2>7, FiKeeps DEF IInv
  <2>8. CASE CompileFor
    BY <2>1, <2>8, ForKeeps DEF IInv
  <2>9. CASE CompileOd
    BY <2>1, <2>9, OdKeeps DEF IInv
  <2>10. CASE CompileEnd
    <3>1. ast' = ast
      BY <2>10 DEF CompileEnd
    <3> QED BY <2>1, <2>10, <3>1, EndKeeps DEF IInv
  <2> QED BY <1>2, <2>2, <2>3, <2>4, <2>5, <2>6, <2>7, <2>8, <2>9, <2>10 DEF Compile
<1> QED BY <1>1, <1>2 DEF Next, vars, gen

\* The inductive invariant holds in every run.
THEOREM Invariance == Spec => []IInv
  BY InitInv, NextInv, PTL DEF Spec

\* The generator's tables have their types, whatever the function.
THEOREM TypesHold == Spec => []TypeOK
<1>1. IInv => TypeOK
  <2>1. ASSUME IInv, InCompilation
        PROVE  TypeOK
    <3>1. Builder.code = code /\ Builder.list = list /\ Builder.insert = insert
      BY DEF Builder, Fn
    <3>2. code \in Seq(Seq(Instr)) /\ list \in Seq(DOMAIN code) /\ insert \in DOMAIN code
      BY <2>1, <3>1 DEF InCompilation, BlockInv
    <3> QED BY <2>1, <3>2 DEF TypeOK, IInv, InCompilation, BodiesInv
  <2>2. ASSUME IInv, Done
        PROVE  TypeOK
    BY <2>2 DEF TypeOK, IInv, Done, Compiling
  <2> QED BY <2>1, <2>2 DEF IInv
<1> QED BY <1>1, Invariance, PTL

-----------------------------------------------------------------------------
(* The block the Builder stands in is the last one attached, and what its    *)
(* flags say of the innermost body is what the last statement was.           *)

Leaves == {"return", "exit"}

\* The last statement is an op, and its return the last instruction.
JustLeft(op) ==
  /\ ast # <<>> /\ ast[Len(ast)].op = op
  /\ code[insert] # <<>> /\ code[insert][Len(code[insert])] = Ret(Len(ast))

GoesOn == ast = <<>> \/ ast[Len(ast)].op \notin Leaves

LastInv ==
  /\ \A i \in DOMAIN ast : ast[i].op = "exit" => ~typed
  /\ Compiling => list # <<>> /\ insert = list[Len(list)]
  /\ Compiling /\ ast = <<>> => ~Top.some
  /\ Compiling /\ Top.kind # "next" =>
       /\ Top.returned => JustLeft("return")
       /\ Top.exited => JustLeft("exit")
       /\ ~Ended(Top) => GoesOn

\* As EndsOnce, but for the return behind a `return` without a result.
ClosesWell(b) ==
  IF ReturnsTwice(b) THEN Len(code[b]) > 1 /\ EndsOnce(Front(code[b])) ELSE EndsOnce(code[b])

ClosedInv == ~Compiling => \A i \in DOMAIN list : ClosesWell(list[i])

LEMMA LastEntered ==
  ASSUME NEW f, f.list \in Seq(Nat), NEW b \in Nat
  PROVE  LET g == Enter(f, b) IN g.list # <<>> /\ g.insert = g.list[Len(g.list)]
  BY DEF Enter, Fn

LEMMA Recorded ==
  ASSUME ast \in Seq(Node), NEW op \in Ops, NEW head \in Nat, Record(op, head)
  PROVE  /\ Len(ast) \in Nat /\ Len(ast') = Len(ast) + 1 /\ ast' # <<>> /\ ast'[Len(ast')].op = op
         /\ \A i \in DOMAIN ast' : (i \in DOMAIN ast /\ ast'[i] = ast[i]) \/ i = Len(ast')
<1> DEFINE x == [op |-> op, head |-> head]
<1>1. x \in Node /\ x.op = op /\ ast' = Append(ast, x)
  BY DEF Record, Node
<1> HIDE DEF x
<1> QED BY <1>1

\* Any other statement, opening or closing, with a body that goes on.
LEMMA GoingOn ==
  ASSUME LastInv, ast \in Seq(Node), NEW op \in Ops \ Leaves, NEW head \in Nat, Record(op, head),
         typed' = typed, Compiling',
         (list # <<>> /\ insert = list[Len(list)])',
         (Top.kind = "next" \/ ~Ended(Top))'
  PROVE  LastInv'
<1>1. op \in Ops /\ op \notin Leaves
  OBVIOUS
<1>2. /\ ast' # <<>> /\ ast'[Len(ast')].op = op
      /\ \A i \in DOMAIN ast' : (i \in DOMAIN ast /\ ast'[i] = ast[i]) \/ i = Len(ast')
  BY <1>1, Recorded
<1>3. GoesOn'
  BY <1>1, <1>2 DEF GoesOn
<1>4. \A i \in DOMAIN ast' : ast'[i].op = "exit" => ~typed'
  BY <1>1, <1>2 DEF LastInv, Leaves
<1>5. ~(ast = <<>>)'
  BY <1>2
<1>6. /\ Top'.kind # "next" => ~Top'.returned /\ ~Top'.exited
      /\ (list # <<>>)' /\ (insert = list[Len(list)])'
  BY DEF Ended
<1> QED BY <1>3, <1>4, <1>5, <1>6 DEF LastInv

LEMMA SimpleLast ==
  ASSUME IInv, LastInv, CompileSimple
  PROVE  LastInv'
<1>1. InCompilation /\ ast \in Seq(Node) /\ Here \in Nat
  BY DEF IInv, CompileSimple, TakesStatements, Compiling, Done, Here
<1>2. bodies' = Grown /\ typed' = typed /\ list' = list /\ insert' = insert /\ Compiling'
  BY DEF CompileSimple, Build, Emit, Builder, Fn, TakesStatements, Compiling
<1>3. Grown # <<>> /\ Grown[Len(Grown)] = [Top EXCEPT !.some = TRUE] /\ Top \in Body
  BY <1>1, GrownKeeps, TopIsBody DEF InCompilation
<1>4. Top' = [Top EXCEPT !.some = TRUE]
  BY <1>2, <1>3 DEF Top
<1>5. ~Ended(Top)'
  BY <1>3, <1>4 DEF Ended, Body, CompileSimple, TakesStatements
<1>6. (list # <<>> /\ insert = list[Len(list)])'
  BY <1>2 DEF LastInv, CompileSimple, TakesStatements
<1>7. "do" \in Ops \ Leaves /\ Record("do", Here)
  BY DEF Ops, Leaves, CompileSimple
<1> QED BY <1>1, <1>2, <1>5, <1>6, <1>7, GoingOn

LEMMA LeaveLast ==
  ASSUME IInv, LastInv, NEW op \in Leaves, CompileLeave(op)
  PROVE  LastInv'
<1> DEFINE e == Ret(Here)
<1>1. InCompilation /\ ast \in Seq(Node) /\ Here \in Nat
  BY DEF IInv, CompileLeave, TakesStatements, Compiling, Done, Here
<1>2. bodies' = Left(op) /\ typed' = typed /\ list' = list /\ insert' = insert /\ Compiling'
  BY DEF CompileLeave, Build, Emit, Builder, Fn, TakesStatements, Compiling
<1>3. Grown \in Seq(Body) /\ Grown # <<>> /\ Len(Grown) = Len(bodies) /\ Len(bodies) \in DOMAIN Grown
  <2>1. BodiesInv(Grown, list) /\ Grown # <<>> /\ Len(Grown) = Len(bodies)
    BY <1>1, GrownKeeps DEF InCompilation
  <2> QED BY <2>1 DEF BodiesInv
<1>4. Top' = [Grown[Len(bodies)] EXCEPT !.returned = (op = "return"), !.exited = (op = "exit")]
  BY <1>2, <1>3 DEF Top, Left
<1>5. Grown[Len(bodies)] \in Body
  BY <1>3
<1>6. Top'.returned = (op = "return") /\ Top'.exited = (op = "exit")
  BY <1>4, <1>5 DEF Body
<1>7. code \in Seq(Seq(Instr)) /\ insert \in DOMAIN code
  <2>1. BlockInv(Builder, Pending(bodies), Open(Top))
    BY <1>1 DEF InCompilation
  <2> QED BY <2>1 DEF BlockInv, Builder, Fn
<1>8. code' = [code EXCEPT ![insert] = @ \o <<e>>]
  BY DEF CompileLeave, Build, Emit, Builder, Fn
<1>9. e \in Instr
  BY <1>1 DEF Ret, Instr
<1> HIDE DEF e
<1>10. code'[insert'] # <<>> /\ code'[insert'][Len(code'[insert'])] = e
  <2>1. code[insert] \in Seq(Instr) /\ code'[insert'] = code[insert] \o <<e>>
    BY <1>2, <1>7, <1>8
  <2> QED BY <1>9, <2>1
<1>11. op \in Ops /\ Record(op, Here)
  BY DEF Leaves, Ops, CompileLeave
<1>12. /\ Len(ast') = Here /\ ast' # <<>> /\ ast'[Len(ast')].op = op
       /\ \A i \in DOMAIN ast' : (i \in DOMAIN ast /\ ast'[i] = ast[i]) \/ i = Len(ast')
  BY <1>1, <1>11, Recorded DEF Here
<1>13. JustLeft(op)'
  BY <1>10, <1>12 DEF JustLeft, Ret, e
<1>14. \A i \in DOMAIN ast' : ast'[i].op = "exit" => ~typed'
  BY <1>2, <1>12 DEF LastInv, CompileLeave
<1>15. (list # <<>> /\ insert = list[Len(list)])'
  BY <1>2 DEF LastInv, CompileLeave, TakesStatements
<1>16. Ended(Top)'
  BY <1>6 DEF Ended, Leaves
<1>17. ~(ast = <<>>)'
  BY <1>12
<1>18. (Top.returned => JustLeft("return"))' /\ (Top.exited => JustLeft("exit"))'
  BY <1>6, <1>13
<1> QED BY <1>14, <1>15, <1>16, <1>17, <1>18 DEF LastInv

\* The innermost body of the others is new, or was left open for a statement.
LEMMA NewTop ==
  ASSUME NEW kind, NEW n, NEW more, NEW other, NEW after,
         bodies' # <<>>, bodies'[Len(bodies')] = NewBody(kind, n, more, other, after)
  PROVE  ~Ended(Top)'
<1>1. Top' = NewBody(kind, n, more, other, after)
  BY DEF Top
<1> QED BY <1>1 DEF NewBody, Ended

LEMMA AppendedTop ==
  ASSUME NEW bs \in Seq(Body), NEW t, bodies' = Append(bs, t)
  PROVE  bodies' # <<>> /\ bodies'[Len(bodies')] = t
  OBVIOUS

LEMMA PoppedTop ==
  ASSUME InCompilation, Top.kind # "function", bodies' = SubSeq(bodies, 1, Len(bodies) - 1)
  PROVE  (Top.kind = "next" \/ ~Ended(Top))'
<1>1. Open(bodies'[Len(bodies')])
  BY PopBody DEF InCompilation, Top
<1> QED BY <1>1 DEF Open, Top

\* The blocks of the Builder, one by one.
LEMMA Lists ==
  ASSUME InCompilation
  PROVE  /\ Builder.list = list /\ list \in Seq(Nat) /\ Len(code) \in Nat
         /\ Fresh \in Nat /\ Top \in Body /\ Top.other \in Nat /\ Top.after \in Nat /\ Top.node \in Nat
         /\ \A k : Create(Builder, k).list = list
         /\ \A f, e : Emit(f, e).list = f.list
<1>1. Top \in Body /\ list \in Seq(Nat) /\ Len(code) \in Nat
  BY TopIsBody
<1> QED BY <1>1 DEF Builder, Create, Emit, Fn, Fresh, Body

LEMMA ConditionalLast ==
  ASSUME NEW f, f.list \in Seq(Nat), Len(f.code) \in Nat, NEW n, NEW more
  PROVE  LET g == Conditional(f, n, more) IN g.list # <<>> /\ g.insert = g.list[Len(g.list)]
<1> DEFINE e == <<CondBr(n, Len(f.code) + 1, IF more THEN Len(f.code) + 2 ELSE Len(f.code) + 3)>>
           h == Emit(Create(f, 3), e)
<1>1. h.list = f.list
  BY DEF Emit, Create, Fn
<1>2. Conditional(f, n, more) = Enter(h, Len(f.code) + 1)
  BY DEF Conditional
<1> HIDE DEF h
<1> QED BY <1>1, <1>2, LastEntered

LEMMA BuiltLast ==
  ASSUME NEW g, g.list # <<>>, g.insert = g.list[Len(g.list)], Build(g)
  PROVE  (list # <<>> /\ insert = list[Len(list)])'
  BY DEF Build

LEMMA IfLast ==
  ASSUME IInv, LastInv, NEW more \in BOOLEAN, CompileIf(more)
  PROVE  LastInv'
<1>1. InCompilation /\ ast \in Seq(Node) /\ Here \in Nat
  BY DEF IInv, CompileIf, TakesStatements, Compiling, Done, Here
<1> DEFINE g == Conditional(Builder, Here, more)
<1>2. /\ Build(g) /\ typed' = typed /\ Record("if", Here)
      /\ bodies' = Append(Grown, NewBody("then", Here, more, Fresh + 2, Fresh + 3))
  BY DEF CompileIf
<1>3. g.list # <<>> /\ g.insert = g.list[Len(g.list)]
  <2>1. Builder.list \in Seq(Nat) /\ Len(Builder.code) \in Nat
    BY <1>1, Lists DEF Builder, Fn
  <2> QED BY <2>1, ConditionalLast
<1> HIDE DEF g
<1>4. (list # <<>> /\ insert = list[Len(list)])'
  BY <1>2, <1>3, BuiltLast
<1>5. Grown \in Seq(Body)
  BY <1>1, GrownKeeps DEF InCompilation, BodiesInv
<1>6. ~Ended(Top)'
  <2> DEFINE t == NewBody("then", Here, more, Fresh + 2, Fresh + 3)
  <2>1. bodies' = Append(Grown, t)
    BY <1>2
  <2> HIDE DEF t
  <2>2. bodies' # <<>> /\ bodies'[Len(bodies')] = t
    BY <1>5, <2>1, AppendedTop
  <2> QED BY <2>2, NewTop DEF t
<1>7. InCompilation'
  BY IfKeeps
<1>8. "if" \in Ops \ Leaves
  BY DEF Ops, Leaves
<1> QED BY <1>1, <1>2, <1>4, <1>6, <1>7, <1>8, GoingOn DEF InCompilation

LEMMA ForLast ==
  ASSUME IInv, LastInv, CompileFor
  PROVE  LastInv'
<1>1. InCompilation /\ ast \in Seq(Node) /\ Here \in Nat
  BY DEF IInv, CompileFor, TakesStatements, Compiling, Done, Here
<1> DEFINE t == NewBody("loop", Here, FALSE, Fresh + 1, Fresh + 2)
           h == Emit(Create(Builder, 2), <<Do("init", Here), CondBr(Here, Fresh + 1, Fresh + 2)>>)
           g == Enter(h, Fresh + 1)
<1>2. Build(g) /\ typed' = typed /\ Record("for", Here) /\ bodies' = Append(Grown, t)
  BY DEF CompileFor
<1>3. h.list = list /\ list \in Seq(Nat) /\ Fresh + 1 \in Nat
  BY <1>1, Lists
<1> HIDE DEF h
<1>4. g.list # <<>> /\ g.insert = g.list[Len(g.list)]
  BY <1>3, LastEntered
<1> HIDE DEF g, t
<1>5. (list # <<>> /\ insert = list[Len(list)])'
  BY <1>2, <1>4, BuiltLast
<1>6. Grown \in Seq(Body)
  BY <1>1, GrownKeeps DEF InCompilation, BodiesInv
<1>7. bodies' # <<>> /\ bodies'[Len(bodies')] = t
  BY <1>2, <1>6, AppendedTop
<1>8. ~Ended(Top)'
  BY <1>7, NewTop DEF t
<1>9. InCompilation'
  BY ForKeeps
<1>10. "for" \in Ops \ Leaves
  BY DEF Ops, Leaves
<1> QED BY <1>1, <1>2, <1>5, <1>8, <1>9, <1>10, GoingOn DEF InCompilation

LEMMA ElseAttached ==
  ASSUME InCompilation
  PROVE  EnterElse.list \in Seq(Nat) /\ EnterElse.list # <<>> /\ EnterElse.insert = EnterElse.list[Len(EnterElse.list)]
<1> DEFINE h == Emit(Builder, BrUnless(Ended(Top), Top.after))
<1>1. h.list = list /\ list \in Seq(Nat) /\ Top.other \in Nat
  BY Lists
<1>2. EnterElse = Enter(h, Top.other)
  BY DEF EnterElse
<1> HIDE DEF h
<1>3. EnterElse.list = Append(list, Top.other)
  BY <1>1, <1>2 DEF Enter, Fn
<1> QED BY <1>1, <1>2, <1>3, LastEntered

LEMMA ElsifLast ==
  ASSUME IInv, LastInv, NEW more \in BOOLEAN, CompileElsif(more)
  PROVE  LastInv'
<1>1. InCompilation /\ ast \in Seq(Node) /\ Here \in Nat /\ Top.node \in Nat
  BY Lists DEF IInv, CompileElsif, ThenWithMore, Compiling, Done, Here
<1> DEFINE g == Conditional(EnterElse, Here, more)
           t == NewBody("then", Here, more, Fresh + 2, Fresh + 3)
           bs == [bodies EXCEPT ![Len(bodies)].kind = "next"]
<1>2. Build(g) /\ typed' = typed /\ Record("elsif", Top.node) /\ bodies' = Append(bs, t)
  BY DEF CompileElsif
<1>3. EnterElse.list \in Seq(Nat) /\ Len(EnterElse.code) \in Nat
  <2>1. code \in Seq(Seq(Instr)) /\ insert \in DOMAIN code
    <3>1. BlockInv(Builder, Pending(bodies), Open(Top))
      BY <1>1 DEF InCompilation
    <3> QED BY <3>1 DEF BlockInv, Builder, Fn
  <2> DEFINE e == BrUnless(Ended(Top), Top.after)
  <2>2. EnterElse.code = [code EXCEPT ![insert] = @ \o e]
    BY DEF EnterElse, Enter, Emit, Builder, Fn
  <2> HIDE DEF e
  <2>3. Len(EnterElse.code) = Len(code) /\ Len(code) \in Nat
    BY <2>1, <2>2
  <2> QED BY <1>1, <2>3, ElseAttached
<1>4. g.list # <<>> /\ g.insert = g.list[Len(g.list)]
  BY <1>3, ConditionalLast
<1> HIDE DEF g, t
<1>5. (list # <<>> /\ insert = list[Len(list)])'
  BY <1>2, <1>4, BuiltLast
<1>6. bs \in Seq(Body)
  <2> DEFINE u == [Top EXCEPT !.kind = "next"]
  <2>1. bodies \in Seq(Body) /\ bodies # <<>> /\ Top \in Body
    BY <1>1, TopIsBody DEF InCompilation, BodiesInv
  <2>2. u \in Body
    BY <2>1 DEF Body
  <2>3. bs = [bodies EXCEPT ![Len(bodies)] = u]
    BY <2>1 DEF Top
  <2> HIDE DEF u, bs
  <2>4. [bodies EXCEPT ![Len(bodies)] = u] \in Seq(Body)
    BY <2>1, <2>2
  <2> QED BY <2>3, <2>4
<1> HIDE DEF bs
<1>7. bodies' # <<>> /\ bodies'[Len(bodies')] = t
  BY <1>2, <1>6, AppendedTop
<1>8. ~Ended(Top)'
  BY <1>7, NewTop DEF t
<1>9. InCompilation'
  BY ElsifKeeps
<1>10. "elsif" \in Ops \ Leaves
  BY DEF Ops, Leaves
<1> QED BY <1>1, <1>2, <1>5, <1>8, <1>9, <1>10, GoingOn DEF InCompilation

LEMMA ElseLast ==
  ASSUME IInv, LastInv, CompileElse
  PROVE  LastInv'
<1>1. InCompilation /\ ast \in Seq(Node) /\ Top.node \in Nat
  BY Lists DEF IInv, CompileElse, ThenWithMore, Compiling, Done
<1> DEFINE t == NewBody("else", Top.node, FALSE, Top.other, Top.after)
<1>2. Build(EnterElse) /\ typed' = typed /\ Record("else", Top.node)
  BY DEF CompileElse
<1>3. bodies' # <<>> /\ bodies'[Len(bodies')] = t
  <2>1. bodies \in Seq(Body) /\ bodies # <<>>
    BY <1>1 DEF InCompilation, BodiesInv
  <2>2. bodies' = [bodies EXCEPT ![Len(bodies)] = t]
    BY <2>1 DEF CompileElse, Top
  <2> HIDE DEF t
  <2> QED BY <2>1, <2>2
<1>4. (list # <<>> /\ insert = list[Len(list)])'
  BY <1>1, <1>2, ElseAttached, BuiltLast
<1>5. ~Ended(Top)'
  BY <1>3, NewTop
<1>6. InCompilation'
  BY ElseKeeps
<1>7. "else" \in Ops \ Leaves
  BY DEF Ops, Leaves
<1> QED BY <1>1, <1>2, <1>4, <1>5, <1>6, <1>7, GoingOn DEF InCompilation

LEMMA FiLast ==
  ASSUME IInv, LastInv, CompileFi
  PROVE  LastInv'
<1>1. InCompilation /\ ast \in Seq(Node) /\ Top.node \in Nat /\ Top.after \in Nat /\ list \in Seq(Nat)
  BY Lists DEF IInv, CompileFi, Compiling, Done
<1> DEFINE h == Emit(Builder, BrUnless(~JumpsToMerge, Top.after))
           g == Enter(h, Top.after)
<1>2. /\ Build(g) /\ typed' = typed /\ Record("fi", Top.node)
      /\ bodies' = SubSeq(bodies, 1, Len(bodies) - 1) /\ Top.kind # "function"
  BY DEF CompileFi
<1>3. h.list = list
  BY <1>1, Lists
<1> HIDE DEF h
<1>4. g.list # <<>> /\ g.insert = g.list[Len(g.list)]
  BY <1>1, <1>3, LastEntered
<1> HIDE DEF g
<1>5. (list # <<>> /\ insert = list[Len(list)])'
  BY <1>2, <1>4, BuiltLast
<1>6. (Top.kind = "next" \/ ~Ended(Top))'
  BY <1>1, <1>2, PoppedTop
<1>7. InCompilation'
  BY FiKeeps
<1>8. "fi" \in Ops \ Leaves
  BY DEF Ops, Leaves
<1> QED BY <1>1, <1>2, <1>5, <1>6, <1>7, <1>8, GoingOn DEF InCompilation

LEMMA OdLast ==
  ASSUME IInv, LastInv, CompileOd
  PROVE  LastInv'
<1>1. InCompilation /\ ast \in Seq(Node) /\ Top.node \in Nat /\ Top.after \in Nat /\ list \in Seq(Nat)
  BY Lists DEF IInv, CompileOd, Compiling, Done
<1> DEFINE h == Emit(Builder, Repeat(Top))
           g == Enter(h, Top.after)
<1>2. /\ Build(g) /\ typed' = typed /\ Record("od", Top.node)
      /\ bodies' = SubSeq(bodies, 1, Len(bodies) - 1) /\ Top.kind # "function"
  BY DEF CompileOd
<1>3. h.list = list
  BY <1>1, Lists
<1> HIDE DEF h
<1>4. g.list # <<>> /\ g.insert = g.list[Len(g.list)]
  BY <1>1, <1>3, LastEntered
<1> HIDE DEF g
<1>5. (list # <<>> /\ insert = list[Len(list)])'
  BY <1>2, <1>4, BuiltLast
<1>6. (Top.kind = "next" \/ ~Ended(Top))'
  BY <1>1, <1>2, PoppedTop
<1>7. InCompilation'
  BY OdKeeps
<1>8. "od" \in Ops \ Leaves
  BY DEF Ops, Leaves
<1> QED BY <1>1, <1>2, <1>5, <1>6, <1>7, <1>8, GoingOn DEF InCompilation

LEMMA WithoutLast ==
  ASSUME NEW s \in Seq(Instr), s # <<>>, NEW e \in Instr
  PROVE  Len(s \o <<e>>) > 1 /\ Front(s \o <<e>>) = s
<1> DEFINE t == s \o <<e>>
<1>1. t \in Seq(Instr) /\ Len(t) = Len(s) + 1 /\ Len(s) \in Nat /\ Len(s) > 0
      /\ \A i \in 1 .. Len(s) : t[i] = s[i]
  OBVIOUS
<1> HIDE DEF t
<1>2. SubSeq(t, 1, Len(t) - 1) = s
  BY <1>1
<1> QED BY <1>1, <1>2 DEF Front, t

\* At the end the block the Builder stands in is closed, by one return too many
\* after `return` in a function without a result.
LEMMA EndCloses ==
  ASSUME IInv, LastInv, CompileEnd
  PROVE  LastInv' /\ ClosedInv'
<1> DEFINE e == IF EndedAsTyped THEN <<>> ELSE <<Ret(0)>>
<1>1. InCompilation /\ Top.kind = "function" /\ Top \in Body /\ ast \in Seq(Node) /\ typed \in BOOLEAN
  BY TopIsBody DEF IInv, CompileEnd, Compiling, Done
<1>2. code' = [code EXCEPT ![insert] = @ \o e] /\ insert' = 0 /\ list' = list /\ ast' = ast /\ typed' = typed
  BY DEF CompileEnd, Emit, Builder, Fn
<1>3. /\ code \in Seq(Seq(Instr)) /\ list \in Seq(DOMAIN code) /\ insert \in DOMAIN code
      /\ \A i \in DOMAIN list : list[i] # insert => EndsOnce(code[list[i]])
      /\ IF Open(Top) THEN Plain(code[insert]) ELSE EndsOnce(code[insert])
  <2>1. BlockInv(Builder, Pending(bodies), Open(Top))
    BY <1>1 DEF InCompilation
  <2> QED BY <2>1 DEF BlockInv, Builder, Fn
<1>4. Open(Top) = ~Ended(Top)
  BY <1>1 DEF Open
<1>5. /\ insert = list[Len(list)]
      /\ Top.returned => JustLeft("return")
      /\ Top.exited => JustLeft("exit")
      /\ ~Ended(Top) => GoesOn
  BY <1>1 DEF LastInv, InCompilation
<1>6. typed => ~Top.exited
  <2>1. ASSUME Top.exited PROVE ~typed
    <3>1. ast # <<>> /\ ast[Len(ast)].op = "exit"
      BY <1>5, <2>1 DEF JustLeft
    <3>2. Len(ast) \in DOMAIN ast
      BY <1>1, <3>1
    <3> QED BY <3>1, <3>2 DEF LastInv
  <2> QED BY <2>1
<1>13. ast # <<>>
  BY <1>1 DEF LastInv, InCompilation, CompileEnd, MayClose
<1>9. LastInv'
  BY <1>2 DEF LastInv, Compiling
<1>10. code[insert] \in Seq(Instr)
  BY <1>3
<1>11. CASE EndedAsTyped
  <2>1. code' = code
    <3>1. code[insert] \o <<>> = code[insert]
      BY <1>10
    <3> QED BY <1>2, <1>3, <1>11, <3>1
  <2>2. Ended(Top) /\ EndsOnce(code[insert])
    BY <1>3, <1>4, <1>11 DEF EndedAsTyped, Ended
  <2>3. ~typed => ast[Len(ast)].op # "return"
    BY <1>5, <1>11 DEF EndedAsTyped, JustLeft
  <2>4. \A b : ~ReturnsTwice(b)'
    BY <1>2, <2>3 DEF ReturnsTwice
  <2>5. \A i \in DOMAIN list : EndsOnce(code[list[i]])
    BY <1>3, <2>2
  <2> QED BY <1>2, <1>9, <2>1, <2>4, <2>5 DEF ClosedInv, ClosesWell
<1>12. CASE ~EndedAsTyped
  <2> DEFINE s == code[insert] \o <<Ret(0)>>
  <2>1. <<Ret(0)>> \in Seq(Instr) /\ EndsOnce(<<Ret(0)>>)
    BY RetEnds
  <2>2. DOMAIN code' = DOMAIN code /\ \A b \in DOMAIN code : code'[b] = IF b = insert THEN s ELSE code[b]
    BY <1>2, <1>3, <1>12
  <2>3. ASSUME NEW i \in DOMAIN list, list[i] # insert
        PROVE  ClosesWell(list[i])'
    <3>1. code'[list[i]] = code[list[i]] /\ EndsOnce(code[list[i]])
      BY <1>3, <2>2, <2>3
    <3>2. ~ReturnsTwice(list[i])'
      BY <1>2, <1>5, <2>3 DEF ReturnsTwice
    <3> QED BY <1>2, <3>1, <3>2 DEF ClosesWell
  <2>5. \A b : b = insert => (ReturnsTwice(b)' <=> Ended(Top))
    <3>1. Ended(Top) => ~typed /\ Top.returned /\ ast[Len(ast)].op = "return"
      BY <1>1, <1>5, <1>6, <1>12 DEF EndedAsTyped, Ended, JustLeft
    <3>2. ~Ended(Top) /\ ~typed => ast[Len(ast)].op # "return"
      BY <1>5, <1>13 DEF GoesOn, Leaves
    <3> QED BY <1>2, <1>5, <3>1, <3>2 DEF ReturnsTwice
  <2>6. ASSUME Ended(Top)
        PROVE  Len(s) > 1 /\ EndsOnce(Front(s))
    <3>1. EndsOnce(code[insert])
      BY <1>3, <1>4, <2>6
    <3>2. Len(s) > 1 /\ Front(s) = code[insert]
      BY <1>10, <2>1, <3>1, WithoutLast DEF EndsOnce
    <3> QED BY <3>1, <3>2
  <2>7. ASSUME ~Ended(Top)
        PROVE  EndsOnce(s)
    BY <1>3, <1>4, <1>10, <2>1, <2>7, PlainEnds
  <2>8. \A b : b = insert => ClosesWell(b)'
    BY <1>3, <2>2, <2>5, <2>6, <2>7 DEF ClosesWell
  <2> QED BY <1>2, <1>9, <2>3, <2>8 DEF ClosedInv
<1> QED BY <1>11, <1>12

LEMMA InitLast == Init => LastInv /\ ClosedInv
<1> SUFFICES ASSUME Init PROVE LastInv /\ ClosedInv
  OBVIOUS
<1>1. Compiling /\ ast = <<>> /\ Top = NewBody("function", 0, FALSE, 0, 0)
  BY DEF Init, Compiling, Top
<1>2. Top.some = FALSE /\ ~Ended(Top) /\ Top.returned = FALSE /\ Top.exited = FALSE
  BY <1>1 DEF NewBody, Ended
<1>3. list # <<>> /\ insert = list[Len(list)]
  BY DEF Init
<1>4. \A i \in DOMAIN ast : FALSE
  BY <1>1
<1>5. ClosedInv
  BY <1>1 DEF ClosedInv
<1>6. ~Ended(Top) => GoesOn
  BY <1>1 DEF GoesOn
<1>7. (Top.returned => JustLeft("return")) /\ (Top.exited => JustLeft("exit"))
  BY <1>2
<1>8. Compiling /\ ast = <<>> => ~Top.some
  BY <1>2
<1> QED BY <1>3, <1>4, <1>5, <1>6, <1>7, <1>8 DEF LastInv

LEMMA NextLast == IInv /\ LastInv /\ ClosedInv /\ [Next]_vars => LastInv' /\ ClosedInv'
<1> SUFFICES ASSUME IInv, LastInv, ClosedInv, [Next]_vars
             PROVE  LastInv' /\ ClosedInv'
  OBVIOUS
<1>1. CASE UNCHANGED gen
  BY <1>1 DEF gen, LastInv, ClosedInv, ClosesWell, ReturnsTwice, Compiling, Top, Ended, JustLeft, GoesOn
<1>2. CASE Compile
  <2>1. CASE CompileEnd
    BY <2>1, EndCloses
  <2>2. ASSUME ~CompileEnd
        PROVE  LastInv' /\ Compiling'
    <3>1. CASE CompileSimple
      BY <3>1, SimpleLast, SimpleKeeps DEF InCompilation
    <3>2. ASSUME NEW op \in {"return", "exit"}, CompileLeave(op)
          PROVE  LastInv' /\ Compiling'
      BY <3>2, LeaveLast, LeaveKeeps DEF InCompilation, Leaves
    <3>3. ASSUME NEW more \in BOOLEAN, CompileIf(more)
          PROVE  LastInv' /\ Compiling'
      BY <3>3, IfLast, IfKeeps DEF InCompilation
    <3>4. ASSUME NEW more \in BOOLEAN, CompileElsif(more)
          PROVE  LastInv' /\ Compiling'
      BY <3>4, ElsifLast, ElsifKeeps DEF InCompilation
    <3>5. CASE CompileElse
      BY <3>5, ElseLast, ElseKeeps DEF InCompilation
    <3>6. CASE CompileFi
      BY <3>6, FiLast, FiKeeps DEF InCompilation
    <3>7. CASE CompileFor
      BY <3>7, ForLast, ForKeeps DEF InCompilation
    <3>8. CASE CompileOd
      BY <3>8, OdLast, OdKeeps DEF InCompilation
    <3> QED BY <1>2, <2>2, <3>1, <3>2, <3>3, <3>4, <3>5, <3>6, <3>7, <3>8 DEF Compile
  <2> QED BY <2>1, <2>2 DEF ClosedInv
<1> QED BY <1>1, <1>2 DEF Next, vars, gen

LEMMA LastInvariance == Spec => [](IInv /\ LastInv /\ ClosedInv)
  BY InitInv, NextInv, InitLast, NextLast, PTL DEF Spec

\* Every block of a compiled function ends with one branch or return and has
\* none before, for all functions of all sizes; only a function without a result
\* whose body ends with `return` gets one return too many, behind it.
THEOREM BlocksClose == Spec => []BlocksAreClosed
<1>1. ClosedInv => BlocksAreClosed
  BY DEF ClosedInv, ClosesWell, BlocksAreClosed, Attached
<1> QED BY <1>1, LastInvariance, PTL

\* Branches lead to blocks of the function, each attached once.
THEOREM BranchesStay == Spec => []BranchesStayInside
<1>1. IInv => BranchesStayInside
  <2>1. ASSUME IInv, InCompilation
        PROVE  BranchesStayInside
    <3>1. \A i, j \in DOMAIN list : list[i] = list[j] => i = j
      BY <2>1 DEF InCompilation, BlockInv, Builder, Fn
    <3> QED BY <2>1, <3>1 DEF BranchesStayInside, InCompilation
  <2>2. ASSUME IInv, Done
        PROVE  BranchesStayInside
    BY <2>2 DEF BranchesStayInside, Done, Attached
  <2> QED BY <2>1, <2>2 DEF IInv
<1> QED BY <1>1, Invariance, PTL

-----------------------------------------------------------------------------
(* The basic blocks of a function perform its statements: ControlFlow        *)
(* implements the steps of Statements, for functions of any size.            *)
(*                                                                           *)
(* Every block is made for a place in the function: the begin of a branch,   *)
(* the way a false condition takes, or what comes after a construct.  The    *)
(* proof labels every block with its place (r) and follows the generator:    *)
(* each instruction fits the place it stands at, and the Builder stands      *)
(* where the next statement belongs.  Once the tape of statements is         *)
(* complete a place means the events that may come there, and a call that    *)
(* runs the blocks goes from place to place.                                 *)

-----------------------------------------------------------------------------
(* Places.                                                                   *)

Place == [kind : {"behind", "failed", "past", "test"}, node : Nat]

Behind(n) == [kind |-> "behind", node |-> n]   \* control goes to the node after n
Failed(n) == [kind |-> "failed", node |-> n]   \* the condition at n was false
Past(n)   == [kind |-> "past", node |-> n]     \* what n opened is closed
Tested(n) == [kind |-> "test", node |-> n]     \* the condition at n comes

Closes(tape, i, n)      == i \in DOMAIN tape /\ tape[i].op \in {"fi", "od"} /\ tape[i].head = n
Alternative(tape, i, n) == i \in DOMAIN tape /\ tape[i].op \in {"elsif", "else"} /\ tape[i].head = n
Straight(tape, n)       == \A i \in DOMAIN tape : ~Alternative(tape, i, n)

\* From the place l control comes to the i-th node.
Reaches(tape, l, i) ==
  \/ l.kind = "behind" /\ i = l.node + 1
  \/ l.kind = "failed" /\ Alternative(tape, i - 1, l.node) /\ tape[i - 1].op = "else"
  \/ l.kind = "past" /\ Closes(tape, i - 1, l.node)

\* An instruction at the place l does what the tape has there, and leads to
\* blocks, of n, for the right places.
FitsTest(tape, r, n, l, in) ==
  /\ \/ l = Tested(in.node)
     \/ Reaches(tape, l, in.node) /\ tape[in.node].op = "if"
     \/ l.kind = "failed" /\ Alternative(tape, in.node, l.node) /\ tape[in.node].op = "elsif"
  /\ \E t, f \in 1 .. n : /\ in.to = <<t, f>> /\ r[t] = Behind(in.node)
                          /\ r[f] = Failed(in.node) \/ r[f] = Past(in.node)
FitsJump(tape, r, n, l, in) ==
  \E i \in DOMAIN tape : /\ Reaches(tape, l, i) /\ tape[i].op \in {"elsif", "else", "fi"}
                         /\ \E t \in 1 .. n : in.to = <<t>> /\ r[t] = Past(tape[i].head)
FitsStep(tape, l, in) ==
  \E i \in DOMAIN tape : Reaches(tape, l, i) /\ tape[i].op = "od" /\ tape[i].head = in.node
FitsNode(tape, l, in, op) == Reaches(tape, l, in.node) /\ tape[in.node].op = op

Fits(tape, r, n, l, in) ==
  /\ in.op # "br" => in.node \in DOMAIN tape
  /\ in.op = "do" => FitsNode(tape, l, in, "do")
  /\ in.op = "init" => FitsNode(tape, l, in, "for")
  /\ in.op = "leave" => \E op \in Leaves : FitsNode(tape, l, in, op)
  /\ in.op = "step" => FitsStep(tape, l, in)
  /\ in.op = "test" => FitsTest(tape, r, n, l, in)
  /\ in.op = "br" => FitsJump(tape, r, n, l, in)

\* The place behind an instruction, before the k-th one of a block, and at its end.
After(in)          == [kind |-> IF in.op \in {"do", "leave"} THEN "behind" ELSE "test", node |-> in.node]
Before(r, c, b, k) == IF k = 1 THEN r[b] ELSE After(c[b][k - 1])
Ends(r, c, b)      == Before(r, c, b, Len(c[b]) + 1)

CodeFits(tape, r, c) ==
  \A b \in DOMAIN c : \A k \in DOMAIN c[b] :
    Fits(tape, r, Len(c), Before(r, c, b, k), c[b][k])

\* A test of n leads past the construct at once.
Skips(r, c, n) ==
  \E b \in DOMAIN c : \E k \in DOMAIN c[b] :
    c[b][k].op = "test" /\ c[b][k].node = n /\ r[c[b][k].to[2]] = Past(n)

Labels == [Nat -> Place]

-----------------------------------------------------------------------------
(* What fits stays fit.                                                      *)

LEMMA TapeReaches ==
  ASSUME NEW tape \in Seq(Node), NEW x \in Node, NEW l \in Place, NEW i, Reaches(tape, l, i)
  PROVE  Reaches(Append(tape, x), l, i)
<1>1. \A j \in DOMAIN tape : j \in DOMAIN Append(tape, x) /\ Append(tape, x)[j] = tape[j]
  OBVIOUS
<1> QED
  BY <1>1 DEF Reaches, Alternative, Closes

LEMMA TapeFits ==
  ASSUME NEW tape \in Seq(Node), NEW x \in Node, NEW r, NEW n, NEW l \in Place, NEW in,
         Fits(tape, r, n, l, in)
  PROVE  Fits(Append(tape, x), r, n, l, in)
<1> DEFINE new == Append(tape, x)
<1>1. \A j \in DOMAIN tape : j \in DOMAIN new /\ new[j] = tape[j]
  OBVIOUS
<1>2. \A i : Reaches(tape, l, i) => Reaches(new, l, i)
  BY TapeReaches
<1> HIDE DEF new
<1>3. \A i, h : Alternative(tape, i, h) => Alternative(new, i, h)
  BY <1>1 DEF Alternative
<1>4. ASSUME NEW op, in.node \in DOMAIN tape, FitsNode(tape, l, in, op) PROVE FitsNode(new, l, in, op)
  BY <1>1, <1>2, <1>4 DEF FitsNode
<1>5. FitsStep(tape, l, in) => FitsStep(new, l, in)
  BY <1>1, <1>2 DEF FitsStep
<1>6. in.node \in DOMAIN tape /\ FitsTest(tape, r, n, l, in) => FitsTest(new, r, n, l, in)
  BY <1>1, <1>2, <1>3 DEF FitsTest
<1>7. FitsJump(tape, r, n, l, in) => FitsJump(new, r, n, l, in)
  BY <1>1, <1>2 DEF FitsJump
<1> QED
  BY <1>1, <1>4, <1>5, <1>6, <1>7 DEF Fits, new

\* More blocks with other labels.
LEMMA LabelsFit ==
  ASSUME NEW tape, NEW r, NEW q, NEW n \in Nat, NEW m \in Nat, n <= m,
         \A b \in 1 .. n : q[b] = r[b], NEW l, NEW in, Fits(tape, r, n, l, in)
  PROVE  Fits(tape, q, m, l, in)
<1>1. \A b \in 1 .. n : b \in 1 .. m
  OBVIOUS
<1>2. FitsTest(tape, r, n, l, in) => FitsTest(tape, q, m, l, in)
  BY <1>1 DEF FitsTest
<1>3. FitsJump(tape, r, n, l, in) => FitsJump(tape, q, m, l, in)
  BY <1>1 DEF FitsJump
<1> QED
  BY <1>2, <1>3 DEF Fits

LEMMA PlacesOfCode ==
  ASSUME NEW r \in Labels, NEW c \in Seq(Seq(Instr)), NEW b \in DOMAIN c, NEW k \in 1 .. Len(c[b]) + 1
  PROVE  Before(r, c, b, k) \in Place
<1>1. c[b] \in Seq(Instr) /\ b \in Nat /\ Len(c[b]) \in Nat
  OBVIOUS
<1>2. r[b] \in Place
  BY <1>1 DEF Labels
<1>3. k # 1 => c[b][k - 1] \in Instr
  BY <1>1
<1> QED
  BY <1>2, <1>3 DEF Before, After, Place, Instr

LEMMA TapeFitsCode ==
  ASSUME NEW tape \in Seq(Node), NEW x \in Node, NEW r \in Labels, NEW c \in Seq(Seq(Instr)),
         CodeFits(tape, r, c)
  PROVE  CodeFits(Append(tape, x), r, c)
<1> SUFFICES ASSUME NEW b \in DOMAIN c, NEW k \in DOMAIN c[b]
             PROVE  Fits(Append(tape, x), r, Len(c), Before(r, c, b, k), c[b][k])
  BY DEF CodeFits
<1>1. k \in 1 .. Len(c[b]) + 1
  OBVIOUS
<1>2. Before(r, c, b, k) \in Place
  BY <1>1, PlacesOfCode
<1>3. Fits(tape, r, Len(c), Before(r, c, b, k), c[b][k])
  BY DEF CodeFits
<1> QED
  BY <1>2, <1>3, TapeFits

\* What Emit and Create do to the code.
Extended(c, b, instrs) == [c EXCEPT ![b] = @ \o instrs]
Widened(c, m)          == c \o [i \in 1 .. m |-> <<>>]

\* New blocks are empty.
LEMMA CreateFits ==
  ASSUME NEW tape, NEW r, NEW q, NEW c \in Seq(Seq(Instr)), NEW m \in Nat,
         \A b \in DOMAIN c : q[b] = r[b], CodeFits(tape, r, c)
  PROVE  LET d == Widened(c, m) IN
         /\ CodeFits(tape, q, d)
         /\ d \in Seq(Seq(Instr)) /\ Len(d) = Len(c) + m
         /\ \A b \in DOMAIN c : d[b] = c[b] /\ Ends(q, d, b) = Ends(r, c, b)
         /\ \A b \in Len(c) + 1 .. Len(c) + m : b \in DOMAIN d /\ d[b] = <<>>
         /\ \A n : Skips(q, d, n) => Skips(r, c, n)
<1> DEFINE d == Widened(c, m)
<1>1. [i \in 1 .. m |-> <<>>] \in Seq(Seq(Instr)) /\ Len([i \in 1 .. m |-> <<>>]) = m
  BY NoInstructions
<1>2. d \in Seq(Seq(Instr)) /\ Len(d) = Len(c) + m /\ Len(c) \in Nat /\ \A b \in DOMAIN c : d[b] = c[b] /\ b \in DOMAIN d
  BY <1>1 DEF Widened
<1>3. \A b \in Len(c) + 1 .. Len(c) + m : b \in DOMAIN d /\ d[b] = <<>>
  BY <1>1 DEF Widened
<1>4. \A b \in DOMAIN d : b \in DOMAIN c \/ b \in Len(c) + 1 .. Len(c) + m
  BY <1>2
<1> HIDE DEF d
<1>5. \A b \in DOMAIN c : \A k : Before(q, d, b, k) = Before(r, c, b, k)
  BY <1>2 DEF Before
<1>6. \A b \in DOMAIN d : \A k \in DOMAIN d[b] : b \in DOMAIN c /\ k \in DOMAIN c[b]
  BY <1>2, <1>3, <1>4
<1>7. CodeFits(tape, q, d)
  <2> SUFFICES ASSUME NEW b \in DOMAIN d, NEW k \in DOMAIN d[b]
               PROVE  Fits(tape, q, Len(d), Before(q, d, b, k), d[b][k])
    BY DEF CodeFits
  <2>1. b \in DOMAIN c /\ k \in DOMAIN c[b]
    BY <1>6
  <2>2. Fits(tape, r, Len(c), Before(r, c, b, k), c[b][k])
    BY <2>1 DEF CodeFits
  <2>3. \A x \in 1 .. Len(c) : q[x] = r[x]
    OBVIOUS
  <2>4. Fits(tape, q, Len(d), Before(r, c, b, k), c[b][k])
    BY <1>2, <2>2, <2>3, LabelsFit
  <2> QED
    BY <1>2, <1>5, <2>1, <2>4
<1>8. \A b \in DOMAIN c : d[b] = c[b] /\ Ends(q, d, b) = Ends(r, c, b)
  BY <1>2, <1>5 DEF Ends
<1>9. ASSUME NEW n, Skips(q, d, n) PROVE Skips(r, c, n)
  <2>1. PICK b \in DOMAIN d : \E k \in DOMAIN d[b] :
          d[b][k].op = "test" /\ d[b][k].node = n /\ q[d[b][k].to[2]] = Past(n)
    BY <1>9 DEF Skips
  <2>2. PICK k \in DOMAIN d[b] : d[b][k].op = "test" /\ d[b][k].node = n /\ q[d[b][k].to[2]] = Past(n)
    BY <2>1
  <2>3. b \in DOMAIN c /\ k \in DOMAIN c[b] /\ d[b][k] = c[b][k]
    BY <1>2, <1>6
  <2>4. FitsTest(tape, r, Len(c), Before(r, c, b, k), c[b][k])
    BY <2>2, <2>3 DEF CodeFits, Fits
  <2>5. c[b][k].to[2] \in 1 .. Len(c)
    BY <2>4 DEF FitsTest
  <2>6. q[c[b][k].to[2]] = r[c[b][k].to[2]]
    BY <2>5
  <2> QED
    BY <2>2, <2>3, <2>6 DEF Skips
<1> QED
  BY <1>2, <1>3, <1>7, <1>8, <1>9 DEF d

\* Instructions at the end of a block fit the places they come to stand at.
Row(r, c, b, instrs, k) == IF k = 1 THEN Ends(r, c, b) ELSE After(instrs[k - 1])

LEMMA EmitFits ==
  ASSUME NEW tape, NEW r, NEW c \in Seq(Seq(Instr)), NEW b \in DOMAIN c, NEW instrs \in Seq(Instr),
         CodeFits(tape, r, c),
         \A k \in DOMAIN instrs : Fits(tape, r, Len(c), Row(r, c, b, instrs, k), instrs[k])
  PROVE  LET d == Extended(c, b, instrs) IN
         /\ CodeFits(tape, r, d)
         /\ d \in Seq(Seq(Instr)) /\ Len(d) = Len(c) /\ DOMAIN d = DOMAIN c
         /\ \A x \in DOMAIN c : x # b => d[x] = c[x] /\ Ends(r, d, x) = Ends(r, c, x)
         /\ Ends(r, d, b) = Row(r, c, b, instrs, Len(instrs) + 1)
         /\ \A n : Skips(r, d, n) =>
              \/ Skips(r, c, n)
              \/ \E k \in DOMAIN instrs :
                   instrs[k].op = "test" /\ instrs[k].node = n /\ r[instrs[k].to[2]] = Past(n)
<1> DEFINE d == Extended(c, b, instrs)
           m == Len(c[b])
<1>1. c[b] \in Seq(Instr) /\ m \in Nat /\ Len(instrs) \in Nat /\ c[b] \o instrs \in Seq(Instr)
  OBVIOUS
<1>2. /\ d \in Seq(Seq(Instr)) /\ DOMAIN d = DOMAIN c /\ d[b] = c[b] \o instrs
      /\ \A x \in DOMAIN c : x # b => d[x] = c[x]
  BY <1>1 DEF Extended
<1>3. Len(d) = Len(c)
  BY <1>2
<1> HIDE DEF d
<1>4. /\ Len(d[b]) = m + Len(instrs)
      /\ \A k \in 1 .. m : d[b][k] = c[b][k]
      /\ \A k \in 1 .. Len(instrs) : d[b][m + k] = instrs[k]
      /\ \A k \in DOMAIN d[b] : k \in 1 .. m \/ (k - m \in 1 .. Len(instrs) /\ k = m + (k - m))
  BY <1>1, <1>2
<1>5. \A k \in 1 .. m + 1 : Before(r, d, b, k) = Before(r, c, b, k)
  <2> SUFFICES ASSUME NEW k \in 1 .. m + 1, k # 1
               PROVE  d[b][k - 1] = c[b][k - 1]
    BY DEF Before
  <2>1. k - 1 \in 1 .. m
    BY <1>1
  <2> QED
    BY <1>4, <2>1
<1>6. \A k \in 1 .. Len(instrs) + 1 : Before(r, d, b, m + k) = Row(r, c, b, instrs, k)
  <2> SUFFICES ASSUME NEW k \in 1 .. Len(instrs) + 1
               PROVE  Before(r, d, b, m + k) = Row(r, c, b, instrs, k)
    OBVIOUS
  <2>1. CASE k = 1
    BY <1>1, <1>5, <2>1 DEF Row, Ends
  <2>2. CASE k # 1
    <3>1. k - 1 \in 1 .. Len(instrs) /\ m + k # 1 /\ (m + k) - 1 = m + (k - 1)
      BY <1>1, <2>2
    <3>2. d[b][(m + k) - 1] = instrs[k - 1]
      BY <1>4, <3>1
    <3> QED
      BY <2>2, <3>1, <3>2 DEF Row, Before
  <2> QED
    BY <2>1, <2>2
<1>7. \A x \in DOMAIN c : x # b => Ends(r, d, x) = Ends(r, c, x) /\ \A k : Before(r, d, x, k) = Before(r, c, x, k)
  BY <1>2 DEF Ends, Before
<1>8. Ends(r, d, b) = Row(r, c, b, instrs, Len(instrs) + 1)
  <2>1. Len(d[b]) + 1 = m + (Len(instrs) + 1) /\ Len(instrs) + 1 \in 1 .. Len(instrs) + 1
    BY <1>1, <1>4
  <2> QED
    BY <1>6, <2>1 DEF Ends
<1>9. CodeFits(tape, r, d)
  <2> SUFFICES ASSUME NEW x \in DOMAIN d, NEW k \in DOMAIN d[x]
               PROVE  Fits(tape, r, Len(d), Before(r, d, x, k), d[x][k])
    BY DEF CodeFits
  <2>1. CASE x # b
    <3>1. x \in DOMAIN c /\ d[x] = c[x] /\ Before(r, d, x, k) = Before(r, c, x, k)
      BY <1>2, <1>7, <2>1
    <3> QED
      BY <1>3, <3>1 DEF CodeFits
  <2>2. CASE x = b /\ k \in 1 .. m
    <3>1. d[b][k] = c[b][k] /\ Before(r, d, b, k) = Before(r, c, b, k) /\ k \in DOMAIN c[b]
      BY <1>1, <1>4, <1>5, <2>2
    <3> QED
      BY <1>3, <2>2, <3>1 DEF CodeFits
  <2>3. CASE x = b /\ k - m \in 1 .. Len(instrs) /\ k = m + (k - m)
    <3> DEFINE j == k - m
    <3>1. j \in 1 .. Len(instrs) /\ j \in DOMAIN instrs /\ j \in 1 .. Len(instrs) + 1 /\ k = m + j
      BY <1>1, <2>3
    <3> HIDE DEF j
    <3>2. d[b][k] = instrs[j] /\ Before(r, d, b, k) = Row(r, c, b, instrs, j)
      BY <1>4, <1>6, <3>1
    <3> QED
      BY <1>3, <2>3, <3>1, <3>2
  <2> QED
    BY <1>4, <2>1, <2>2, <2>3
<1>10. ASSUME NEW n, Skips(r, d, n)
       PROVE  \/ Skips(r, c, n)
              \/ \E k \in DOMAIN instrs :
                   instrs[k].op = "test" /\ instrs[k].node = n /\ r[instrs[k].to[2]] = Past(n)
  <2>1. PICK x \in DOMAIN d : \E k \in DOMAIN d[x] :
          d[x][k].op = "test" /\ d[x][k].node = n /\ r[d[x][k].to[2]] = Past(n)
    BY <1>10 DEF Skips
  <2>2. PICK k \in DOMAIN d[x] : d[x][k].op = "test" /\ d[x][k].node = n /\ r[d[x][k].to[2]] = Past(n)
    BY <2>1
  <2>3. CASE x # b
    BY <1>2, <2>2, <2>3 DEF Skips
  <2>4. CASE x = b /\ k \in 1 .. m
    <3>1. d[b][k] = c[b][k] /\ k \in DOMAIN c[b]
      BY <1>1, <1>4, <2>4
    <3> QED
      BY <2>2, <2>4, <3>1 DEF Skips
  <2>5. CASE x = b /\ k - m \in 1 .. Len(instrs) /\ k = m + (k - m)
    <3> DEFINE j == k - m
    <3>1. j \in 1 .. Len(instrs) /\ j \in DOMAIN instrs /\ k = m + j
      BY <1>1, <2>5
    <3> HIDE DEF j
    <3>2. d[b][k] = instrs[j]
      BY <1>4, <3>1
    <3> QED
      BY <2>2, <2>5, <3>1, <3>2
  <2> QED
    BY <1>4, <2>3, <2>4, <2>5
<1> QED
  BY <1>2, <1>3, <1>7, <1>8, <1>9, <1>10 DEF d

-----------------------------------------------------------------------------
(* The tape of a function and the bodies that are open.                      *)

Finished(tape, i, n) == \E j \in DOMAIN tape : j > i /\ tape[j].op = "fi" /\ tape[j].head = n

\* Alternatives and ends name a node before them, a construct has one of each
\* at most, and what is open has no end yet.
TapeInv(tape, bs) ==
  /\ \A i \in DOMAIN tape : tape[i].op \in {"elsif", "else", "fi", "od"} => tape[i].head \in 1 .. i - 1
  /\ \A i, j, n : Closes(tape, i, n) /\ Closes(tape, j, n) => i = j
  /\ \A i, j, n : Alternative(tape, i, n) /\ Alternative(tape, j, n) => i = j
  /\ \A i, n : Alternative(tape, i, n) =>
       Finished(tape, i, n) \/ \E k \in DOMAIN bs : bs[k].node = n /\ bs[k].kind \in {"else", "next"}
  /\ \A k \in DOMAIN bs : bs[k].kind # "function" =>
       /\ bs[k].node \in 1 .. Len(tape)
       /\ \A i : ~Closes(tape, i, bs[k].node)
       /\ bs[k].kind \in {"then", "loop"} => Straight(tape, bs[k].node)
  /\ \A k, m \in DOMAIN bs : bs[k].node = bs[m].node => k = m

LEMMA Marks ==
  ASSUME NEW tape \in Seq(Node), NEW x \in Node
  PROVE  LET new == Append(tape, x) IN
         /\ new \in Seq(Node) /\ Len(tape) \in Nat /\ Len(new) = Len(tape) + 1 /\ DOMAIN tape = 1 .. Len(tape)
         /\ \A i : i \in DOMAIN new <=> i \in DOMAIN tape \/ i = Len(tape) + 1
         /\ \A i \in DOMAIN tape : new[i] = tape[i] /\ i < Len(tape) + 1
         /\ new[Len(tape) + 1] = x
         /\ \A i, n : Closes(new, i, n) <=>
              Closes(tape, i, n) \/ (i = Len(tape) + 1 /\ x.op \in {"fi", "od"} /\ x.head = n)
         /\ \A i, n : Alternative(new, i, n) <=>
              Alternative(tape, i, n) \/ (i = Len(tape) + 1 /\ x.op \in {"elsif", "else"} /\ x.head = n)
         /\ \A i, n : Finished(tape, i, n) => Finished(new, i, n)
<1> DEFINE new == Append(tape, x)
<1>1. /\ new \in Seq(Node) /\ Len(tape) \in Nat /\ Len(new) = Len(tape) + 1 /\ DOMAIN tape = 1 .. Len(tape)
      /\ DOMAIN new = 1 .. Len(tape) + 1
      /\ \A i \in 1 .. Len(tape) : new[i] = tape[i]
      /\ new[Len(tape) + 1] = x
  BY AppendOne
<1> HIDE DEF new
<1>2. \A i : i \in DOMAIN new <=> i \in DOMAIN tape \/ i = Len(tape) + 1
  BY <1>1
<1>3. \A i \in DOMAIN tape : new[i] = tape[i] /\ i < Len(tape) + 1
  BY <1>1
<1>4. Len(tape) + 1 \notin DOMAIN tape
  BY <1>1
<1>5. \A i, n : Closes(new, i, n) <=>
        Closes(tape, i, n) \/ (i = Len(tape) + 1 /\ x.op \in {"fi", "od"} /\ x.head = n)
  BY <1>1, <1>2, <1>3, <1>4 DEF Closes
<1>6. \A i, n : Alternative(new, i, n) <=>
        Alternative(tape, i, n) \/ (i = Len(tape) + 1 /\ x.op \in {"elsif", "else"} /\ x.head = n)
  BY <1>1, <1>2, <1>3, <1>4 DEF Alternative
<1>7. \A i, n : Finished(tape, i, n) => Finished(new, i, n)
  BY <1>2, <1>3 DEF Finished
<1> QED
  BY <1>1, <1>2, <1>3, <1>5, <1>6, <1>7 DEF new

\* Only kinds and nodes of the bodies matter.
LEMMA TapeShape ==
  ASSUME NEW tape, NEW bs, NEW cs, TapeInv(tape, bs), DOMAIN cs = DOMAIN bs,
         \A k \in DOMAIN bs : cs[k].kind = bs[k].kind /\ cs[k].node = bs[k].node
  PROVE  TapeInv(tape, cs)
<1>1. \A i, n : Alternative(tape, i, n) =>
        Finished(tape, i, n) \/ \E k \in DOMAIN cs : cs[k].node = n /\ cs[k].kind \in {"else", "next"}
  <2> SUFFICES ASSUME NEW i, NEW n, Alternative(tape, i, n), ~Finished(tape, i, n)
               PROVE  \E k \in DOMAIN cs : cs[k].node = n /\ cs[k].kind \in {"else", "next"}
    OBVIOUS
  <2>1. PICK k \in DOMAIN bs : bs[k].node = n /\ bs[k].kind \in {"else", "next"}
    BY DEF TapeInv
  <2> QED
    BY <2>1
<1>2. \A k, m \in DOMAIN cs : cs[k].node = cs[m].node => k = m
  BY DEF TapeInv
<1>3. ASSUME NEW k \in DOMAIN cs, cs[k].kind # "function"
      PROVE  /\ cs[k].node \in 1 .. Len(tape)
             /\ \A i : ~Closes(tape, i, cs[k].node)
             /\ cs[k].kind \in {"then", "loop"} => Straight(tape, cs[k].node)
  <2>1. k \in DOMAIN bs /\ cs[k].node = bs[k].node /\ cs[k].kind = bs[k].kind
    OBVIOUS
  <2> QED
    BY <1>3, <2>1 DEF TapeInv
<1>4. /\ \A i \in DOMAIN tape : tape[i].op \in {"elsif", "else", "fi", "od"} => tape[i].head \in 1 .. i - 1
      /\ \A i, j, n : Closes(tape, i, n) /\ Closes(tape, j, n) => i = j
      /\ \A i, j, n : Alternative(tape, i, n) /\ Alternative(tape, j, n) => i = j
  BY DEF TapeInv
<1> QED
  BY <1>1, <1>2, <1>3, <1>4 DEF TapeInv

\* A node that is neither alternative nor end.
LEMMA TapePlain ==
  ASSUME NEW tape \in Seq(Node), NEW x \in Node, x.op \notin {"elsif", "else", "fi", "od"}, NEW bs,
         TapeInv(tape, bs)
  PROVE  TapeInv(Append(tape, x), bs)
<1> DEFINE new == Append(tape, x)
           N == Len(tape) + 1
<1>1. /\ Len(tape) \in Nat /\ Len(new) = N
      /\ \A i : i \in DOMAIN new <=> i \in DOMAIN tape \/ i = N
      /\ \A i \in DOMAIN tape : new[i] = tape[i]
      /\ new[N] = x
      /\ \A i, n : Closes(new, i, n) <=> Closes(tape, i, n)
      /\ \A i, n : Alternative(new, i, n) <=> Alternative(tape, i, n)
      /\ \A i, n : Finished(tape, i, n) => Finished(new, i, n)
  BY Marks
<1> HIDE DEF new
<1>2. \A i \in DOMAIN new : new[i].op \in {"elsif", "else", "fi", "od"} => new[i].head \in 1 .. i - 1
  BY <1>1 DEF TapeInv
<1>3. \A n : Straight(tape, n) => Straight(new, n)
  BY <1>1 DEF Straight, Alternative
<1>4. \A n : n \in 1 .. Len(tape) => n \in 1 .. Len(new)
  BY <1>1
<1> QED
  BY <1>1, <1>2, <1>3, <1>4 DEF TapeInv, new

\* A body for a node that was just recorded.
LEMMA TapePush ==
  ASSUME NEW tape \in Seq(Node), NEW bs \in Seq(Body), NEW b \in Body, TapeInv(tape, bs),
         b.kind \in {"then", "loop"}, b.node \in 1 .. Len(tape),
         \A i : ~Closes(tape, i, b.node) /\ ~Alternative(tape, i, b.node),
         \A k \in DOMAIN bs : bs[k].node # b.node
  PROVE  TapeInv(tape, Append(bs, b))
<1> DEFINE cs == Append(bs, b)
<1>1. /\ \A k : k \in DOMAIN cs <=> k \in DOMAIN bs \/ k = Len(bs) + 1
      /\ \A k \in DOMAIN bs : cs[k] = bs[k]
      /\ cs[Len(bs) + 1] = b
  BY AppendOne
<1> HIDE DEF cs
<1>2. Straight(tape, b.node)
  BY DEF Straight
<1>3. \A k, m \in DOMAIN cs : cs[k].node = cs[m].node => k = m
  BY <1>1 DEF TapeInv
<1>4. \A k \in DOMAIN cs : cs[k].kind # "function" =>
        /\ cs[k].node \in 1 .. Len(tape)
        /\ \A i : ~Closes(tape, i, cs[k].node)
        /\ cs[k].kind \in {"then", "loop"} => Straight(tape, cs[k].node)
  BY <1>1, <1>2 DEF TapeInv
<1>5. \A i, n : Alternative(tape, i, n) =>
        Finished(tape, i, n) \/ \E k \in DOMAIN cs : cs[k].node = n /\ cs[k].kind \in {"else", "next"}
  BY <1>1 DEF TapeInv
<1> QED
  BY <1>3, <1>4, <1>5 DEF TapeInv, cs

\* The alternative of the innermost construct.
LEMMA TapeAlternative ==
  ASSUME NEW tape \in Seq(Node), NEW x \in Node, NEW bs \in Seq(Body), bs # <<>>, NEW t \in Body,
         TapeInv(tape, bs), bs[Len(bs)].kind = "then",
         x.op \in {"elsif", "else"}, x.head = bs[Len(bs)].node,
         t.kind \in {"else", "next"}, t.node = bs[Len(bs)].node
  PROVE  TapeInv(Append(tape, x), [bs EXCEPT ![Len(bs)] = t])
<1> DEFINE new == Append(tape, x)
           N == Len(tape) + 1
           L == Len(bs)
           cs == [bs EXCEPT ![L] = t]
<1>1. /\ Len(tape) \in Nat /\ Len(new) = N /\ DOMAIN tape = 1 .. Len(tape)
      /\ \A i : i \in DOMAIN new <=> i \in DOMAIN tape \/ i = N
      /\ \A i \in DOMAIN tape : new[i] = tape[i]
      /\ new[N] = x
      /\ \A i, n : Closes(new, i, n) <=> Closes(tape, i, n)
      /\ \A i, n : Alternative(new, i, n) <=> Alternative(tape, i, n) \/ (i = N /\ x.head = n)
      /\ \A i, n : Finished(tape, i, n) => Finished(new, i, n)
  BY Marks
<1>2. L \in DOMAIN bs /\ cs[L] = t /\ DOMAIN cs = DOMAIN bs /\ \A k \in DOMAIN bs : k # L => cs[k] = bs[k]
  OBVIOUS
<1> HIDE DEF new, N, cs, L
<1>3. bs[L].kind = "then" /\ x.head = bs[L].node /\ t.node = bs[L].node
  BY DEF L
<1>4. bs[L].node \in 1 .. Len(tape) /\ Straight(tape, x.head) /\ \A i : ~Closes(tape, i, x.head)
  BY <1>2, <1>3 DEF TapeInv
<1>5. \A i \in DOMAIN new : new[i].op \in {"elsif", "else", "fi", "od"} => new[i].head \in 1 .. i - 1
  <2>1. x.head \in 1 .. N - 1
    BY <1>1, <1>3, <1>4 DEF N
  <2> QED
    BY <1>1, <2>1 DEF TapeInv
<1>6. \A i, n : Alternative(tape, i, n) => n # x.head
  BY <1>4 DEF Straight, Alternative
<1>7. \A i, j, n : Alternative(new, i, n) /\ Alternative(new, j, n) => i = j
  BY <1>1, <1>6 DEF TapeInv
<1>8. \A i, n : Alternative(new, i, n) =>
        Finished(new, i, n) \/ \E k \in DOMAIN cs : cs[k].node = n /\ cs[k].kind \in {"else", "next"}
  <2> SUFFICES ASSUME NEW i, NEW n, Alternative(new, i, n)
               PROVE  Finished(new, i, n) \/ \E k \in DOMAIN cs : cs[k].node = n /\ cs[k].kind \in {"else", "next"}
    OBVIOUS
  <2>1. CASE Alternative(tape, i, n)
    <3>1. Finished(tape, i, n) \/ \E k \in DOMAIN bs : bs[k].node = n /\ bs[k].kind \in {"else", "next"}
      BY <2>1 DEF TapeInv
    <3> QED
      BY <1>1, <1>2, <1>3, <3>1
  <2>2. CASE i = N /\ x.head = n
    BY <1>2, <1>3, <2>2
  <2> QED
    BY <1>1, <2>1, <2>2
<1>9. \A k, m \in DOMAIN cs : cs[k].node = cs[m].node => k = m
  BY <1>2, <1>3 DEF TapeInv
<1>10. ASSUME NEW k \in DOMAIN cs, cs[k].kind # "function"
       PROVE  /\ cs[k].node \in 1 .. Len(new)
              /\ \A i : ~Closes(new, i, cs[k].node)
              /\ cs[k].kind \in {"then", "loop"} => Straight(new, cs[k].node)
  <2>1. bs[k].kind # "function" /\ cs[k].node = bs[k].node
    BY <1>2, <1>3, <1>10
  <2>2. bs[k].node \in 1 .. Len(tape) /\ \A i : ~Closes(tape, i, bs[k].node)
    BY <1>2, <2>1 DEF TapeInv
  <2>3. cs[k].node \in 1 .. Len(new)
    BY <1>1, <2>1, <2>2 DEF N
  <2>4. ASSUME cs[k].kind \in {"then", "loop"} PROVE Straight(new, cs[k].node)
    <3>1. k # L /\ bs[k].kind \in {"then", "loop"}
      BY <1>2, <2>4
    <3>2. Straight(tape, bs[k].node) /\ bs[k].node # x.head
      BY <1>2, <1>3, <3>1 DEF TapeInv
    <3> QED
      BY <1>1, <2>1, <3>2 DEF Straight, Alternative
  <2> QED
    BY <1>1, <2>1, <2>2, <2>3, <2>4
<1> QED
  BY <1>1, <1>5, <1>7, <1>8, <1>9, <1>10 DEF TapeInv, new, cs, L

\* The end of the innermost construct.
LEMMA TapeClose ==
  ASSUME NEW tape \in Seq(Node), NEW x \in Node, NEW bs \in Seq(Body), Len(bs) > 1,
         TapeInv(tape, bs), bs[Len(bs)].kind # "function", x.head = bs[Len(bs)].node,
         x.op = IF bs[Len(bs)].kind = "loop" THEN "od" ELSE "fi"
  PROVE  TapeInv(Append(tape, x), SubSeq(bs, 1, Len(bs) - 1))
<1> DEFINE new == Append(tape, x)
           N == Len(tape) + 1
           L == Len(bs)
           cs == SubSeq(bs, 1, L - 1)
<1>1. /\ Len(tape) \in Nat /\ Len(new) = N /\ DOMAIN tape = 1 .. Len(tape)
      /\ \A i : i \in DOMAIN new <=> i \in DOMAIN tape \/ i = N
      /\ \A i \in DOMAIN tape : new[i] = tape[i] /\ i < N
      /\ new[N] = x /\ x.op \in {"fi", "od"}
      /\ \A i, n : Closes(new, i, n) <=> Closes(tape, i, n) \/ (i = N /\ x.head = n)
      /\ \A i, n : Alternative(new, i, n) <=> Alternative(tape, i, n)
      /\ \A i, n : Finished(tape, i, n) => Finished(new, i, n)
  BY Marks
<1>2. L \in DOMAIN bs /\ \A k : k \in DOMAIN bs <=> k \in DOMAIN cs \/ k = L
  OBVIOUS
<1>3. \A k \in DOMAIN cs : cs[k] = bs[k] /\ k # L
  OBVIOUS
<1> HIDE DEF new, N, cs, L
<1>4. bs[L].kind # "function" /\ x.head = bs[L].node /\ x.op = IF bs[L].kind = "loop" THEN "od" ELSE "fi"
  BY DEF L
<1>5. /\ bs[L].node \in 1 .. Len(tape) /\ \A i : ~Closes(tape, i, x.head)
      /\ bs[L].kind = "loop" => Straight(tape, x.head)
  BY <1>2, <1>4 DEF TapeInv
<1>6. \A i \in DOMAIN new : new[i].op \in {"elsif", "else", "fi", "od"} => new[i].head \in 1 .. i - 1
  <2>1. x.head \in 1 .. N - 1
    BY <1>1, <1>4, <1>5 DEF N
  <2> QED
    BY <1>1, <2>1 DEF TapeInv
<1>7. \A i, j, n : Closes(new, i, n) /\ Closes(new, j, n) => i = j
  BY <1>1, <1>5 DEF TapeInv
<1>8. \A i, n : Alternative(new, i, n) =>
        Finished(new, i, n) \/ \E k \in DOMAIN cs : cs[k].node = n /\ cs[k].kind \in {"else", "next"}
  <2> SUFFICES ASSUME NEW i, NEW n, Alternative(new, i, n)
               PROVE  Finished(new, i, n) \/ \E k \in DOMAIN cs : cs[k].node = n /\ cs[k].kind \in {"else", "next"}
    OBVIOUS
  <2>1. Alternative(tape, i, n)
    BY <1>1
  <2>2. Finished(tape, i, n) \/ \E k \in DOMAIN bs : bs[k].node = n /\ bs[k].kind \in {"else", "next"}
    BY <2>1 DEF TapeInv
  <2>3. CASE bs[L].node = n
    <3>1. ~Straight(tape, x.head) /\ i \in DOMAIN tape
      BY <1>4, <2>1, <2>3 DEF Straight, Alternative
    <3>2. x.op = "fi"
      BY <1>4, <1>5, <3>1
    <3>3. N \in DOMAIN new /\ N > i /\ new[N].op = "fi" /\ new[N].head = n
      BY <1>1, <1>4, <2>3, <3>1, <3>2 DEF N
    <3> QED
      BY <3>3 DEF Finished
  <2>4. CASE bs[L].node # n
    BY <1>1, <1>2, <1>3, <2>2, <2>4
  <2> QED
    BY <2>3, <2>4
<1>9. \A k, m \in DOMAIN cs : cs[k].node = cs[m].node => k = m
  BY <1>2, <1>3 DEF TapeInv
<1>10. ASSUME NEW k \in DOMAIN cs, cs[k].kind # "function"
       PROVE  /\ cs[k].node \in 1 .. Len(new)
              /\ \A i : ~Closes(new, i, cs[k].node)
              /\ cs[k].kind \in {"then", "loop"} => Straight(new, cs[k].node)
  <2>1. cs[k] = bs[k] /\ k \in DOMAIN bs /\ k # L
    BY <1>2, <1>3
  <2>2. bs[k].node \in 1 .. Len(tape) /\ bs[k].node # x.head
    BY <1>2, <1>4, <1>10, <2>1 DEF TapeInv
  <2>3. cs[k].node \in 1 .. Len(new)
    BY <1>1, <2>1, <2>2 DEF N
  <2>4. \A i : ~Closes(new, i, cs[k].node)
    <3>1. \A i : ~Closes(tape, i, bs[k].node)
      BY <1>10, <2>1 DEF TapeInv
    <3> QED
      BY <1>1, <2>1, <2>2, <3>1
  <2>5. ASSUME cs[k].kind \in {"then", "loop"} PROVE Straight(new, cs[k].node)
    <3>1. Straight(tape, bs[k].node)
      BY <1>10, <2>1, <2>5 DEF TapeInv
    <3> QED
      BY <1>1, <2>1, <3>1 DEF Straight, Alternative
  <2> QED
    BY <2>3, <2>4, <2>5
<1> QED
  BY <1>1, <1>6, <1>7, <1>8, <1>9, <1>10 DEF TapeInv, new, cs, L

-----------------------------------------------------------------------------
(* The tape, the labels and the blocks together.                             *)

\* Tests that lead past a construct are of constructs without an alternative.
Fitted(tape, r, c) ==
  /\ tape \in Seq(Node) /\ r \in Labels /\ c \in Seq(Seq(Instr))
  /\ r[1] = Behind(0)
  /\ CodeFits(tape, r, c)
  /\ \A n : Skips(r, c, n) => Straight(tape, n)

\* The blocks of a body are labelled with what they are for.
Role(body, r, c) ==
  /\ body.kind = "function" => body.node = 0
  /\ body.kind # "function" => body.after \in DOMAIN c /\ r[body.after] = Past(body.node)
  /\ body.kind = "then" /\ body.more =>
       body.other \in DOMAIN c /\ r[body.other] = Failed(body.node) /\ ~Skips(r, c, body.node)
  /\ body.kind = "loop" => body.other \in DOMAIN c /\ r[body.other] = Behind(body.node)

\* The next statement belongs at the end of the block b.
At(tape, r, c, b) == Reaches(tape, Ends(r, c, b), Len(tape) + 1)

LEMMA RoleKept ==
  ASSUME NEW body, NEW r, NEW c, NEW q, NEW d, Role(body, r, c),
         \A b \in DOMAIN c : b \in DOMAIN d /\ q[b] = r[b],
         Skips(q, d, body.node) => Skips(r, c, body.node)
  PROVE  Role(body, q, d)
  BY DEF Role

LEMMA TestsAreOnTape ==
  ASSUME NEW tape, NEW r, NEW c, CodeFits(tape, r, c), NEW n, Skips(r, c, n)
  PROVE  n \in DOMAIN tape
<1>1. PICK b \in DOMAIN c : \E k \in DOMAIN c[b] : c[b][k].op = "test" /\ c[b][k].node = n
  BY DEF Skips
<1>2. PICK k \in DOMAIN c[b] : c[b][k].op = "test" /\ c[b][k].node = n
  BY <1>1
<1>3. Fits(tape, r, Len(c), Before(r, c, b, k), c[b][k])
  BY DEF CodeFits
<1> QED
  BY <1>2, <1>3 DEF Fits

LEMMA RecordFits ==
  ASSUME NEW tape, NEW r, NEW c, Fitted(tape, r, c), NEW x \in Node,
         x.op \in {"elsif", "else"} => ~Skips(r, c, x.head)
  PROVE  /\ Fitted(Append(tape, x), r, c)
         /\ Len(Append(tape, x)) = Len(tape) + 1 /\ Len(tape) \in Nat
         /\ Append(tape, x)[Len(tape) + 1] = x
         /\ Len(tape) + 1 \in DOMAIN Append(tape, x)
         /\ \A b \in DOMAIN c : At(tape, r, c, b) => Reaches(Append(tape, x), Ends(r, c, b), Len(tape) + 1)
<1> DEFINE new == Append(tape, x)
<1>1. tape \in Seq(Node) /\ r \in Labels /\ c \in Seq(Seq(Instr)) /\ CodeFits(tape, r, c)
  BY DEF Fitted
<1>2. CodeFits(new, r, c)
  BY <1>1, TapeFitsCode
<1>3. /\ new \in Seq(Node) /\ Len(tape) \in Nat /\ Len(new) = Len(tape) + 1
      /\ Len(tape) + 1 \in DOMAIN new /\ new[Len(tape) + 1] = x
      /\ \A i, n : Alternative(new, i, n) <=>
           Alternative(tape, i, n) \/ (i = Len(tape) + 1 /\ x.op \in {"elsif", "else"} /\ x.head = n)
  BY <1>1, Marks
<1>4. ASSUME NEW b \in DOMAIN c, At(tape, r, c, b) PROVE Reaches(new, Ends(r, c, b), Len(tape) + 1)
  <2>1. Ends(r, c, b) \in Place
    <3>1. Len(c[b]) + 1 \in 1 .. Len(c[b]) + 1
      BY <1>1
    <3> QED
      BY <1>1, <3>1, PlacesOfCode DEF Ends
  <2> QED
    BY <1>1, <1>4, <2>1, TapeReaches DEF At
<1> HIDE DEF new
<1>5. ASSUME NEW n, Skips(r, c, n) PROVE Straight(new, n)
  <2>1. Straight(tape, n)
    BY <1>5 DEF Fitted
  <2>2. \A i : ~Alternative(tape, i, n)
    BY <2>1 DEF Straight, Alternative
  <2> QED
    BY <1>3, <1>5, <2>2 DEF Straight
<1>6. r[1] = Behind(0)
  BY DEF Fitted
<1>7. Fitted(new, r, c)
  BY <1>1, <1>2, <1>3, <1>5, <1>6 DEF Fitted
<1> QED
  BY <1>3, <1>4, <1>7 DEF new

\* Instructions that fit, at the end of the block b.
LEMMA EmitFitted ==
  ASSUME NEW tape, NEW r, NEW c, Fitted(tape, r, c), NEW b \in DOMAIN c, NEW instrs \in Seq(Instr),
         \A k \in DOMAIN instrs : Fits(tape, r, Len(c), Row(r, c, b, instrs, k), instrs[k]),
         \A k \in DOMAIN instrs :
           instrs[k].op = "test" /\ r[instrs[k].to[2]] = Past(instrs[k].node) => Straight(tape, instrs[k].node)
  PROVE  LET d == Extended(c, b, instrs) IN
         /\ Fitted(tape, r, d)
         /\ Len(d) = Len(c) /\ DOMAIN d = DOMAIN c
         /\ \A x \in DOMAIN c : x # b => d[x] = c[x] /\ Ends(r, d, x) = Ends(r, c, x)
         /\ Ends(r, d, b) = Row(r, c, b, instrs, Len(instrs) + 1)
         /\ \A n : Skips(r, d, n) =>
              \/ Skips(r, c, n)
              \/ \E k \in DOMAIN instrs :
                   instrs[k].op = "test" /\ instrs[k].node = n /\ r[instrs[k].to[2]] = Past(n)
<1> DEFINE d == Extended(c, b, instrs)
<1>1. tape \in Seq(Node) /\ r \in Labels /\ c \in Seq(Seq(Instr)) /\ CodeFits(tape, r, c)
  BY DEF Fitted
<1>2. /\ CodeFits(tape, r, d)
      /\ d \in Seq(Seq(Instr)) /\ Len(d) = Len(c) /\ DOMAIN d = DOMAIN c
      /\ \A x \in DOMAIN c : x # b => d[x] = c[x] /\ Ends(r, d, x) = Ends(r, c, x)
      /\ Ends(r, d, b) = Row(r, c, b, instrs, Len(instrs) + 1)
      /\ \A n : Skips(r, d, n) =>
           \/ Skips(r, c, n)
           \/ \E k \in DOMAIN instrs :
                instrs[k].op = "test" /\ instrs[k].node = n /\ r[instrs[k].to[2]] = Past(n)
  BY <1>1, EmitFits
<1> HIDE DEF d
<1>3. ASSUME NEW n, Skips(r, d, n) PROVE Straight(tape, n)
  <2>1. CASE Skips(r, c, n)
    BY <2>1 DEF Fitted
  <2>2. CASE ~Skips(r, c, n)
    <3>1. PICK k \in DOMAIN instrs :
            instrs[k].op = "test" /\ instrs[k].node = n /\ r[instrs[k].to[2]] = Past(n)
      BY <1>2, <1>3, <2>2
    <3> QED
      BY <3>1
  <2> QED
    BY <2>1, <2>2
<1>4. Fitted(tape, r, d)
  <2>1. r[1] = Behind(0)
    BY DEF Fitted
  <2> QED
    BY <1>1, <1>2, <1>3, <2>1 DEF Fitted
<1> QED
  BY <1>2, <1>4 DEF d

\* One instruction.
LEMMA EmitOne ==
  ASSUME NEW tape, NEW r, NEW c, Fitted(tape, r, c), NEW b \in DOMAIN c, NEW in \in Instr,
         Fits(tape, r, Len(c), Ends(r, c, b), in),
         in.op = "test" /\ r[in.to[2]] = Past(in.node) => Straight(tape, in.node)
  PROVE  LET d == Extended(c, b, <<in>>) IN
         /\ Fitted(tape, r, d)
         /\ Len(d) = Len(c) /\ DOMAIN d = DOMAIN c
         /\ \A x \in DOMAIN c : x # b => d[x] = c[x] /\ Ends(r, d, x) = Ends(r, c, x)
         /\ Ends(r, d, b) = After(in)
         /\ \A n : Skips(r, d, n) =>
              Skips(r, c, n) \/ (in.op = "test" /\ in.node = n /\ r[in.to[2]] = Past(n))
<1> DEFINE s == <<in>>
           d == Extended(c, b, s)
<1>1. s \in Seq(Instr) /\ DOMAIN s = {1} /\ s[1] = in /\ Len(s) = 1
  OBVIOUS
<1> HIDE DEF s
<1>2. Row(r, c, b, s, 1) = Ends(r, c, b) /\ Row(r, c, b, s, Len(s) + 1) = After(in)
  BY <1>1 DEF Row
<1>3. /\ \A k \in DOMAIN s : Fits(tape, r, Len(c), Row(r, c, b, s, k), s[k])
      /\ \A k \in DOMAIN s : s[k].op = "test" /\ r[s[k].to[2]] = Past(s[k].node) => Straight(tape, s[k].node)
  BY <1>1, <1>2
<1>4. /\ Fitted(tape, r, d)
      /\ Len(d) = Len(c) /\ DOMAIN d = DOMAIN c
      /\ \A x \in DOMAIN c : x # b => d[x] = c[x] /\ Ends(r, d, x) = Ends(r, c, x)
      /\ Ends(r, d, b) = Row(r, c, b, s, Len(s) + 1)
      /\ \A n : Skips(r, d, n) =>
           Skips(r, c, n) \/ \E k \in DOMAIN s : s[k].op = "test" /\ s[k].node = n /\ r[s[k].to[2]] = Past(n)
  <2>1. s \in Seq(Instr)
    BY <1>1
  <2> QED
    BY <1>3, <2>1, EmitFitted
<1>5. d = Extended(c, b, <<in>>)
  BY DEF s
<1> HIDE DEF d
<1>6. \A n : Skips(r, d, n) => Skips(r, c, n) \/ (in.op = "test" /\ in.node = n /\ r[in.to[2]] = Past(n))
  BY <1>1, <1>4
<1> QED
  BY <1>2, <1>4, <1>5, <1>6

\* d has the test of n in the block b of c.
Testing(tape, r, c, b, d, n) ==
  /\ Fitted(tape, r, d)
  /\ Len(d) = Len(c) /\ DOMAIN d = DOMAIN c
  /\ \A x \in DOMAIN c : x # b => d[x] = c[x] /\ Ends(r, d, x) = Ends(r, c, x)
  /\ \A m : Skips(r, d, m) => Skips(r, c, m) \/ m = n

\* A statement of a loop and the test behind it.
LEMMA EmitTest ==
  ASSUME NEW tape, NEW r, NEW c, Fitted(tape, r, c), NEW b \in DOMAIN c,
         NEW op \in {"init", "step"}, NEW n \in DOMAIN tape, NEW t \in DOMAIN c, NEW f \in DOMAIN c,
         Fits(tape, r, Len(c), Ends(r, c, b), Do(op, n)),
         r[t] = Behind(n), r[f] = Past(n), Straight(tape, n)
  PROVE  Testing(tape, r, c, b, Extended(c, b, <<Do(op, n), CondBr(n, t, f)>>), n)
<1> DEFINE i1 == Do(op, n)
           i2 == CondBr(n, t, f)
           s == <<i1, i2>>
           d == Extended(c, b, s)
<1>1. tape \in Seq(Node) /\ c \in Seq(Seq(Instr)) /\ DOMAIN c = 1 .. Len(c)
  BY DEF Fitted
<1>2. n \in Nat /\ t \in 1 .. Len(c) /\ f \in 1 .. Len(c) /\ t \in Nat /\ f \in Nat
  BY <1>1
<1>3. i1 \in Instr /\ i1.op = op /\ i1.node = n /\ i2 \in Instr /\ i2.op = "test" /\ i2.node = n /\ i2.to = <<t, f>>
  BY <1>2 DEF Do, CondBr, Instr
<1>4. After(i1) = Tested(n)
  BY <1>3 DEF After, Tested
<1>5. Fits(tape, r, Len(c), Tested(n), i2)
  <2>1. FitsTest(tape, r, Len(c), Tested(n), i2)
    BY <1>2, <1>3 DEF FitsTest
  <2> QED
    BY <1>3, <2>1 DEF Fits
<1>6. Fits(tape, r, Len(c), Ends(r, c, b), i1)
  OBVIOUS
<1>7. d = Extended(c, b, <<Do(op, n), CondBr(n, t, f)>>)
  OBVIOUS
<1> HIDE DEF i1, i2
<1>8. s \in Seq(Instr) /\ DOMAIN s = {1, 2} /\ s[1] = i1 /\ s[2] = i2 /\ Len(s) = 2
  BY <1>3
<1> HIDE DEF s
<1>9. Row(r, c, b, s, 1) = Ends(r, c, b) /\ Row(r, c, b, s, 2) = Tested(n)
  BY <1>4, <1>8 DEF Row
<1>10. \A k \in DOMAIN s : Fits(tape, r, Len(c), Row(r, c, b, s, k), s[k])
  BY <1>5, <1>6, <1>8, <1>9
<1>11. \A k \in DOMAIN s : s[k].op = "test" /\ r[s[k].to[2]] = Past(s[k].node) => Straight(tape, s[k].node)
  BY <1>3, <1>8
<1>12. /\ Fitted(tape, r, d)
       /\ Len(d) = Len(c) /\ DOMAIN d = DOMAIN c
       /\ \A x \in DOMAIN c : x # b => d[x] = c[x] /\ Ends(r, d, x) = Ends(r, c, x)
       /\ \A m : Skips(r, d, m) =>
            Skips(r, c, m) \/ \E k \in DOMAIN s : s[k].op = "test" /\ s[k].node = m /\ r[s[k].to[2]] = Past(m)
  BY <1>8, <1>10, <1>11, EmitFitted
<1> HIDE DEF d
<1>13. \A m : Skips(r, d, m) => Skips(r, c, m) \/ m = n
  BY <1>3, <1>8, <1>12
<1> QED
  BY <1>7, <1>12, <1>13 DEF Testing

\* d has m more blocks than c.
Wider(tape, r, c, q, d, m) ==
  /\ Fitted(tape, q, d) /\ Len(d) = Len(c) + m /\ Len(c) \in Nat
  /\ \A b \in DOMAIN c : b \in DOMAIN d /\ d[b] = c[b] /\ Ends(q, d, b) = Ends(r, c, b)
  /\ \A b \in Len(c) + 1 .. Len(c) + m : b \in DOMAIN d /\ d[b] = <<>>
  /\ \A n : Skips(q, d, n) => Skips(r, c, n)

\* New, empty blocks with labels of their own.
LEMMA CreateFitted ==
  ASSUME NEW tape, NEW r, NEW q \in Labels, NEW c, Fitted(tape, r, c), NEW m \in Nat,
         1 \in DOMAIN c, \A b \in DOMAIN c : q[b] = r[b]
  PROVE  Wider(tape, r, c, q, Widened(c, m), m)
<1> DEFINE d == Widened(c, m)
<1>1. c \in Seq(Seq(Instr)) /\ tape \in Seq(Node) /\ CodeFits(tape, r, c) /\ r[1] = Behind(0)
  BY DEF Fitted
<1>2. /\ CodeFits(tape, q, d)
      /\ d \in Seq(Seq(Instr)) /\ Len(d) = Len(c) + m
      /\ \A b \in DOMAIN c : d[b] = c[b] /\ Ends(q, d, b) = Ends(r, c, b)
      /\ \A b \in Len(c) + 1 .. Len(c) + m : b \in DOMAIN d /\ d[b] = <<>>
      /\ \A n : Skips(q, d, n) => Skips(r, c, n)
  BY <1>1, CreateFits
<1> HIDE DEF d
<1>3. Len(c) \in Nat /\ \A b \in DOMAIN c : b \in DOMAIN d
  BY <1>1, <1>2
<1>4. \A n : Skips(q, d, n) => Straight(tape, n)
  BY <1>2 DEF Fitted
<1>5. q[1] = Behind(0)
  BY <1>1
<1>6. Fitted(tape, q, d)
  BY <1>1, <1>2, <1>4, <1>5 DEF Fitted
<1> QED
  BY <1>2, <1>3, <1>6 DEF d, Wider

\* An empty block ends where it begins.
LEMMA EmptyEnds ==
  ASSUME NEW r, NEW c, NEW b, c[b] = <<>>
  PROVE  Ends(r, c, b) = r[b]
<1>1. Len(c[b]) + 1 = 1
  OBVIOUS
<1> QED
  BY <1>1 DEF Ends, Before

-----------------------------------------------------------------------------
(* What the constructs emit fits.                                            *)

\* The labels of the blocks of a condition at n, and of a loop at n.
MarkIf(r, L, n)  == [b \in Nat |-> IF b = L + 1 THEN Behind(n) ELSE IF b = L + 2 THEN Failed(n)
                                   ELSE IF b = L + 3 THEN Past(n) ELSE r[b]]
MarkFor(r, L, n) == [b \in Nat |-> IF b = L + 1 THEN Behind(n) ELSE IF b = L + 2 THEN Past(n) ELSE r[b]]

LEMMA Marked ==
  ASSUME NEW r \in Labels, NEW L \in Nat, NEW n \in Nat
  PROVE  /\ MarkIf(r, L, n) \in Labels /\ MarkIf(r, L, n)[L + 1] = Behind(n)
         /\ MarkIf(r, L, n)[L + 2] = Failed(n) /\ MarkIf(r, L, n)[L + 3] = Past(n)
         /\ \A b \in 1 .. L : MarkIf(r, L, n)[b] = r[b]
         /\ MarkFor(r, L, n) \in Labels /\ MarkFor(r, L, n)[L + 1] = Behind(n)
         /\ MarkFor(r, L, n)[L + 2] = Past(n)
         /\ \A b \in 1 .. L : MarkFor(r, L, n)[b] = r[b]
<1>1. \A b \in Nat : r[b] \in Place
  BY DEF Labels
<1>2. Behind(n) \in Place /\ Failed(n) \in Place /\ Past(n) \in Place
  BY DEF Behind, Failed, Past, Place
<1>3. \A b \in Nat :
        MarkIf(r, L, n)[b] = IF b = L + 1 THEN Behind(n) ELSE IF b = L + 2 THEN Failed(n)
                             ELSE IF b = L + 3 THEN Past(n) ELSE r[b]
  BY DEF MarkIf
<1>4. \A b \in Nat :
        MarkFor(r, L, n)[b] = IF b = L + 1 THEN Behind(n) ELSE IF b = L + 2 THEN Past(n) ELSE r[b]
  BY DEF MarkFor
<1>5. MarkIf(r, L, n) \in Labels
  BY <1>1, <1>2 DEF Labels, MarkIf
<1>6. MarkFor(r, L, n) \in Labels
  BY <1>1, <1>2 DEF Labels, MarkFor
<1> QED
  BY <1>3, <1>4, <1>5, <1>6

\* The test of an `if` or `elsif`, the last node, and its three blocks.
LEMMA ConditionFits ==
  ASSUME NEW tape, NEW r, NEW c, Fitted(tape, r, c), 1 \in DOMAIN c, NEW b \in DOMAIN c,
         NEW n \in DOMAIN tape, n = Len(tape), NEW more \in BOOLEAN, Straight(tape, n),
         \/ Reaches(tape, Ends(r, c, b), n) /\ tape[n].op = "if"
         \/ /\ Ends(r, c, b).kind = "failed" /\ Alternative(tape, n, Ends(r, c, b).node)
            /\ tape[n].op = "elsif"
  PROVE  LET L == Len(c)
             q == MarkIf(r, L, n)
             d == Extended(Widened(c, 3), b, <<CondBr(n, L + 1, IF more THEN L + 2 ELSE L + 3)>>)
         IN /\ Fitted(tape, q, d)
            /\ \A x \in DOMAIN c : x \in DOMAIN d /\ q[x] = r[x]
            /\ L + 1 \in DOMAIN d /\ L + 2 \in DOMAIN d /\ L + 3 \in DOMAIN d
            /\ q[L + 2] = Failed(n) /\ q[L + 3] = Past(n)
            /\ \A m : Skips(q, d, m) => Skips(r, c, m) \/ (~more /\ m = n)
            /\ At(tape, q, d, L + 1)
<1> DEFINE L == Len(c)
           three == 3
           q == MarkIf(r, L, n)
           w == Widened(c, three)
           f == IF more THEN L + 2 ELSE L + 3
           in == CondBr(n, L + 1, f)
           d == Extended(w, b, <<in>>)
<1>1. /\ tape \in Seq(Node) /\ r \in Labels /\ c \in Seq(Seq(Instr)) /\ L \in Nat /\ DOMAIN c = 1 .. L
      /\ n \in Nat
  BY DEF Fitted
<1>2. /\ q \in Labels /\ q[L + 1] = Behind(n) /\ q[L + 2] = Failed(n) /\ q[L + 3] = Past(n)
      /\ \A x \in DOMAIN c : q[x] = r[x]
  <2> HIDE DEF L
  <2>1. \A x \in DOMAIN c : x \in 1 .. L
    BY <1>1
  <2>2. L \in Nat /\ n \in Nat /\ r \in Labels
    BY <1>1
  <2> QED
    BY <2>1, <2>2, Marked
<1>3. f \in Nat /\ f \in L + 1 .. L + 3 /\ in \in Instr /\ in.op = "test" /\ in.node = n /\ in.to = <<L + 1, f>>
  BY <1>1 DEF CondBr, Instr
<1>4. three \in Nat
  OBVIOUS
<1>5. q[f] = (IF more THEN Failed(n) ELSE Past(n)) /\ Failed(n) # Past(n)
  BY <1>2 DEF Failed, Past
<1>6. L + 1 \in L + 1 .. L + three /\ L + 2 \in L + 1 .. L + three /\ L + 3 \in L + 1 .. L + three
  BY <1>1
<1> HIDE DEF q, f, in, L, w, three, d
<1>7. /\ Fitted(tape, q, w) /\ Len(w) = L + three
      /\ \A x \in DOMAIN c : x \in DOMAIN w /\ w[x] = c[x] /\ Ends(q, w, x) = Ends(r, c, x)
      /\ \A x \in L + 1 .. L + three : x \in DOMAIN w /\ w[x] = <<>>
      /\ \A m : Skips(q, w, m) => Skips(r, c, m)
  <2>1. w = Widened(c, three) /\ L = Len(c)
    BY DEF w, L
  <2>2. \A x \in DOMAIN c : q[x] = r[x]
    BY <1>2
  <2>3. q \in Labels /\ three \in Nat
    BY <1>2, <1>4
  <2>4. Wider(tape, r, c, q, w, three)
    BY <2>1, <2>2, <2>3, CreateFitted
  <2> QED
    BY <2>1, <2>4 DEF Wider
<1>8. L + 1 # b
  BY <1>1
<1>9. FitsTest(tape, q, Len(w), Ends(q, w, b), in)
  <2>1. Ends(q, w, b) = Ends(r, c, b)
    BY <1>7
  <2>2. L + 1 \in 1 .. Len(w) /\ f \in 1 .. Len(w)
    BY <1>1, <1>3, <1>7 DEF three
  <2>3. q[f] = Failed(in.node) \/ q[f] = Past(in.node)
    BY <1>3, <1>5
  <2>4. q[L + 1] = Behind(in.node)
    BY <1>2, <1>3
  <2> QED
    BY <1>3, <2>1, <2>2, <2>3, <2>4 DEF FitsTest
<1>10. Fits(tape, q, Len(w), Ends(q, w, b), in)
  BY <1>3, <1>9 DEF Fits
<1>11. b \in DOMAIN w
  BY <1>7
<1>12. /\ Fitted(tape, q, d)
       /\ DOMAIN d = DOMAIN w
       /\ \A x \in DOMAIN w : x # b => d[x] = w[x] /\ Ends(q, d, x) = Ends(q, w, x)
       /\ \A m : Skips(q, d, m) => Skips(q, w, m) \/ (in.op = "test" /\ in.node = m /\ q[in.to[2]] = Past(m))
  <2>1. in.op = "test" /\ q[in.to[2]] = Past(in.node) => Straight(tape, in.node)
    BY <1>3
  <2>2. d = Extended(w, b, <<in>>)
    BY DEF d
  <2> QED
    BY <1>3, <1>7, <1>10, <1>11, <2>1, <2>2, EmitOne
<1>13. d = Extended(Widened(c, 3), b, <<CondBr(n, L + 1, IF more THEN L + 2 ELSE L + 3)>>)
  BY DEF d, w, three, in, f
<1>14. \A m : Skips(q, d, m) => Skips(r, c, m) \/ (~more /\ m = n)
  <2> SUFFICES ASSUME NEW m, Skips(q, d, m), ~Skips(r, c, m)
               PROVE  ~more /\ m = n
    OBVIOUS
  <2>1. in.node = m /\ q[in.to[2]] = Past(m)
    BY <1>7, <1>12
  <2>2. m = n /\ q[f] = Past(n)
    BY <1>3, <2>1
  <2> QED
    BY <1>5, <2>2
<1>15. At(tape, q, d, L + 1)
  <2>1. d[L + 1] = <<>>
    BY <1>6, <1>7, <1>8, <1>12
  <2>2. Ends(q, d, L + 1) = Behind(n)
    BY <1>2, <2>1, EmptyEnds
  <2> QED
    BY <2>2 DEF At, Reaches, Behind
<1>16. L + 1 \in DOMAIN d /\ L + 2 \in DOMAIN d /\ L + 3 \in DOMAIN d /\ \A x \in DOMAIN c : x \in DOMAIN d /\ q[x] = r[x]
  BY <1>2, <1>6, <1>7, <1>12
<1>17. q = MarkIf(r, L, n)
  BY DEF q
<1> QED
  BY <1>2, <1>12, <1>13, <1>14, <1>15, <1>16, <1>17 DEF L

\* d has the two blocks of the loop at n, and its first test.
Looping(tape, r, c, q, d, n) ==
  /\ Fitted(tape, q, d)
  /\ \A x \in DOMAIN c : x \in DOMAIN d /\ q[x] = r[x]
  /\ Len(c) + 1 \in DOMAIN d /\ Len(c) + 2 \in DOMAIN d
  /\ q[Len(c) + 1] = Behind(n) /\ q[Len(c) + 2] = Past(n)
  /\ \A m : Skips(q, d, m) => Skips(r, c, m) \/ m = n
  /\ At(tape, q, d, Len(c) + 1)

\* The first statements and the first test of a loop, the last node.
LEMMA LoopFits ==
  ASSUME NEW tape, NEW r, NEW c, Fitted(tape, r, c), 1 \in DOMAIN c, NEW b \in DOMAIN c,
         NEW n \in DOMAIN tape, n = Len(tape), Straight(tape, n),
         Reaches(tape, Ends(r, c, b), n), tape[n].op = "for"
  PROVE  Looping(tape, r, c, MarkFor(r, Len(c), n),
                 Extended(Widened(c, 2), b, <<Do("init", n), CondBr(n, Len(c) + 1, Len(c) + 2)>>), n)
<1> DEFINE L == Len(c)
           two == 2
           op == "init"
           q == MarkFor(r, L, n)
           w == Widened(c, two)
           t == L + 1
           f == L + 2
           in == Do(op, n)
           d == Extended(w, b, <<Do(op, n), CondBr(n, t, f)>>)
<1>1. /\ tape \in Seq(Node) /\ r \in Labels /\ c \in Seq(Seq(Instr)) /\ L \in Nat /\ DOMAIN c = 1 .. L
      /\ n \in Nat
  BY DEF Fitted
<1>2. /\ q \in Labels /\ q[t] = Behind(n) /\ q[f] = Past(n)
      /\ \A x \in DOMAIN c : q[x] = r[x]
  <2> HIDE DEF L
  <2>1. \A x \in DOMAIN c : x \in 1 .. L
    BY <1>1
  <2>2. L \in Nat /\ n \in Nat /\ r \in Labels
    BY <1>1
  <2> QED
    BY <2>1, <2>2, Marked
<1>3. two \in Nat /\ op \in {"init", "step"} /\ op = "init" /\ t # b
  BY <1>1
<1>4. t \in L + 1 .. L + two /\ f \in L + 1 .. L + two
  BY <1>1
<1>5. in.op = op /\ in.node = n
  BY DEF Do
<1>7. d = Extended(Widened(c, 2), b, <<Do("init", n), CondBr(n, L + 1, L + 2)>>)
  OBVIOUS
<1>8. t = L + 1 /\ f = L + 2 /\ q = MarkFor(r, L, n) /\ in = Do(op, n)
  OBVIOUS
<1> HIDE DEF q, in, L, w, op, t, f, two, d
<1>6. /\ Fitted(tape, q, w)
      /\ \A x \in DOMAIN c : x \in DOMAIN w /\ w[x] = c[x] /\ Ends(q, w, x) = Ends(r, c, x)
      /\ \A x \in L + 1 .. L + two : x \in DOMAIN w /\ w[x] = <<>>
      /\ \A m : Skips(q, w, m) => Skips(r, c, m)
  <2>1. w = Widened(c, two) /\ L = Len(c)
    BY DEF w, L
  <2>2. \A x \in DOMAIN c : q[x] = r[x]
    BY <1>2
  <2>3. q \in Labels /\ two \in Nat
    BY <1>2, <1>3
  <2>4. Wider(tape, r, c, q, w, two)
    BY <2>1, <2>2, <2>3, CreateFitted
  <2> QED
    BY <2>1, <2>4 DEF Wider
<1>9. t \in DOMAIN w /\ f \in DOMAIN w /\ w[t] = <<>> /\ b \in DOMAIN w /\ Ends(q, w, b) = Ends(r, c, b)
  BY <1>4, <1>6
<1>10. Fits(tape, q, Len(w), Ends(q, w, b), Do(op, n))
  <2>1. FitsNode(tape, Ends(q, w, b), in, "for")
    BY <1>5, <1>9 DEF FitsNode
  <2> QED
    BY <1>3, <1>5, <1>8, <2>1 DEF Fits
<1>11. /\ Fitted(tape, q, d)
       /\ DOMAIN d = DOMAIN w
       /\ \A x \in DOMAIN w : x # b => d[x] = w[x]
       /\ \A m : Skips(q, d, m) => Skips(q, w, m) \/ m = n
  <2>1. d = Extended(w, b, <<Do(op, n), CondBr(n, t, f)>>)
    BY DEF d
  <2>2. q[t] = Behind(n) /\ q[f] = Past(n) /\ op \in {"init", "step"}
    BY <1>2, <1>3
  <2>3. Fitted(tape, q, w) /\ t \in DOMAIN w /\ f \in DOMAIN w /\ b \in DOMAIN w
    BY <1>6, <1>9
  <2>4. Testing(tape, q, w, b, Extended(w, b, <<Do(op, n), CondBr(n, t, f)>>), n)
    BY <1>10, <2>2, <2>3, EmitTest
  <2> QED
    BY <2>1, <2>4 DEF Testing
<1>12. At(tape, q, d, t)
  <2>1. d[t] = <<>>
    BY <1>3, <1>9, <1>11
  <2>2. Ends(q, d, t) = Behind(n)
    BY <1>2, <2>1, EmptyEnds
  <2> QED
    BY <2>2 DEF At, Reaches, Behind
<1>13. \A m : Skips(q, d, m) => Skips(r, c, m) \/ m = n
  BY <1>6, <1>11
<1>14. /\ t \in DOMAIN d /\ f \in DOMAIN d
       /\ \A x \in DOMAIN c : x \in DOMAIN d /\ q[x] = r[x]
  BY <1>2, <1>6, <1>9, <1>11
<1> QED
  BY <1>2, <1>7, <1>8, <1>11, <1>12, <1>13, <1>14 DEF L, Looping

\* d is c with a branch, or nothing, in its block b.
Jumping(tape, r, c, b, d) ==
  /\ Fitted(tape, r, d)
  /\ Len(d) = Len(c) /\ DOMAIN d = DOMAIN c
  /\ \A x \in DOMAIN c : x # b => d[x] = c[x]
  /\ \A m : Skips(r, d, m) => Skips(r, c, m)

\* The branch behind the body of a condition, to the block past it.
LEMMA JumpFits ==
  ASSUME NEW tape, NEW r, NEW c, Fitted(tape, r, c), NEW b \in DOMAIN c,
         NEW n \in DOMAIN tape, tape[n].op \in {"elsif", "else", "fi"},
         NEW ended \in BOOLEAN, ~ended => Reaches(tape, Ends(r, c, b), n),
         NEW t \in DOMAIN c, r[t] = Past(tape[n].head)
  PROVE  Jumping(tape, r, c, b, Extended(c, b, BrUnless(ended, t)))
<1> DEFINE d == Extended(c, b, BrUnless(ended, t))
<1>1. c \in Seq(Seq(Instr)) /\ tape \in Seq(Node) /\ DOMAIN c = 1 .. Len(c) /\ t \in Nat
  BY DEF Fitted
<1>2. CASE ended
  <2>1. c[b] \in Seq(Instr)
    BY <1>1
  <2>2. c[b] \o <<>> = c[b]
    BY <2>1
  <2>3. d = c
    BY <1>1, <1>2, <2>2 DEF Extended, BrUnless
  <2> QED
    BY <2>3 DEF Jumping
<1>3. CASE ~ended
  <2> DEFINE in == Br(t)
  <2>1. in \in Instr /\ in.op = "br" /\ in.to = <<t>>
    BY <1>1 DEF Br, Instr
  <2>2. d = Extended(c, b, <<in>>)
    BY <1>3 DEF BrUnless
  <2> HIDE DEF in, d
  <2>3. FitsJump(tape, r, Len(c), Ends(r, c, b), in)
    <3>1. t \in 1 .. Len(c)
      BY <1>1
    <3> QED
      BY <1>3, <2>1, <3>1 DEF FitsJump
  <2>4. Fits(tape, r, Len(c), Ends(r, c, b), in)
    BY <2>1, <2>3 DEF Fits
  <2>5. /\ Fitted(tape, r, d)
        /\ Len(d) = Len(c) /\ DOMAIN d = DOMAIN c
        /\ \A x \in DOMAIN c : x # b => d[x] = c[x] /\ Ends(r, d, x) = Ends(r, c, x)
        /\ \A m : Skips(r, d, m) => Skips(r, c, m) \/ (in.op = "test" /\ in.node = m /\ r[in.to[2]] = Past(m))
    BY <2>1, <2>2, <2>4, EmitOne
  <2> QED
    BY <2>1, <2>5 DEF d, Jumping
<1> QED
  BY <1>2, <1>3

-----------------------------------------------------------------------------
(* Every step of the generator keeps the labels.                             *)

\* While the function is compiled: the Builder stands where the next statement
\* belongs, and the bodies know their blocks.
Labelled(r) ==
  /\ Fitted(ast, r, code)
  /\ TapeInv(ast, bodies)
  /\ \A k \in DOMAIN bodies : Role(bodies[k], r, code)
  /\ Open(Top) => At(ast, r, code, insert)

\* The first block is attached first.
Entered == 1 \in DOMAIN list /\ list[1] = 1

SameShape(bs, cs) ==
  /\ DOMAIN cs = DOMAIN bs
  /\ \A k \in DOMAIN bs : /\ cs[k].kind = bs[k].kind /\ cs[k].node = bs[k].node
                          /\ cs[k].more = bs[k].more /\ cs[k].other = bs[k].other
                          /\ cs[k].after = bs[k].after

LEMMA Within ==
  ASSUME InCompilation, Entered, ast \in Seq(Node)
  PROVE  /\ bodies \in Seq(Body) /\ bodies # <<>> /\ Len(bodies) \in DOMAIN bodies
         /\ Top = bodies[Len(bodies)] /\ Top \in Body
         /\ code \in Seq(Seq(Instr)) /\ insert \in DOMAIN code /\ 1 \in DOMAIN code
         /\ \A b \in Promised(Top) : b \in DOMAIN code /\ b # insert /\ code[b] = <<>>
         /\ Here \in Nat /\ Len(ast) \in Nat /\ Len(bodies) \in Nat
         /\ \A k \in DOMAIN bodies : k = 1 <=> bodies[k].kind = "function"
<1>1. Builder.code = code /\ Builder.list = list /\ Builder.insert = insert
  BY DEF Builder, Fn
<1>2. /\ code \in Seq(Seq(Instr)) /\ list \in Seq(DOMAIN code)
      /\ \E i \in DOMAIN list : list[i] = insert
      /\ \A b \in Pending(bodies) : code[b] = <<>> /\ \A i \in DOMAIN list : list[i] # b
      /\ Pending(bodies) \subseteq DOMAIN code
  BY <1>1 DEF InCompilation, BlockInv
<1>3. bodies \in Seq(Body) /\ bodies # <<>> /\ \A k \in DOMAIN bodies : k = 1 <=> bodies[k].kind = "function"
  BY DEF InCompilation, BodiesInv
<1>4. Len(bodies) \in DOMAIN bodies /\ Top = bodies[Len(bodies)] /\ Top \in Body /\ Len(bodies) \in Nat
  BY <1>3 DEF Top
<1>5. Promised(Top) \subseteq Pending(bodies)
  BY <1>4 DEF Pending
<1>6. insert \in DOMAIN code /\ 1 \in DOMAIN code
  BY <1>2 DEF Entered
<1>7. Here \in Nat /\ Len(ast) \in Nat
  BY DEF Here
<1> QED
  BY <1>2, <1>3, <1>4, <1>5, <1>6, <1>7

LEMMA ShapesKeep ==
  ASSUME NEW tape, NEW bs, NEW cs, SameShape(bs, cs), NEW r, NEW c
  PROVE  /\ TapeInv(tape, bs) => TapeInv(tape, cs)
         /\ (\A k \in DOMAIN bs : Role(bs[k], r, c)) => (\A k \in DOMAIN cs : Role(cs[k], r, c))
<1>1. TapeInv(tape, bs) => TapeInv(tape, cs)
  BY TapeShape DEF SameShape
<1>2. ASSUME \A k \in DOMAIN bs : Role(bs[k], r, c), NEW k \in DOMAIN cs PROVE Role(cs[k], r, c)
  <2>1. k \in DOMAIN bs /\ Role(bs[k], r, c)
    BY <1>2 DEF SameShape
  <2> QED
    BY <2>1 DEF Role, SameShape
<1> QED
  BY <1>1, <1>2

LEMMA GrownShape ==
  ASSUME bodies \in Seq(Body), bodies # <<>>
  PROVE  /\ SameShape(bodies, Grown) /\ Grown \in Seq(Body) /\ Len(Grown) = Len(bodies)
         /\ \A op \in Leaves : SameShape(bodies, Left(op)) /\ Ended(Left(op)[Len(bodies)])
         /\ Ended(Grown[Len(bodies)]) <=> Ended(bodies[Len(bodies)])
<1> DEFINE n == Len(bodies)
           g == [bodies EXCEPT ![n].some = TRUE]
<1>1. n \in DOMAIN bodies /\ \A k \in DOMAIN bodies : bodies[k] \in Body
  OBVIOUS
<1>2. /\ DOMAIN g = DOMAIN bodies /\ g[n] = [bodies[n] EXCEPT !.some = TRUE]
      /\ \A k \in DOMAIN bodies : k # n => g[k] = bodies[k]
  BY <1>1
<1>4. g[n] \in Body
  BY <1>1, <1>2 DEF Body
<1>3. g \in Seq(Body)
  <2> DEFINE t == g[n]
  <2>1. g = [bodies EXCEPT ![n] = t] /\ t \in Body
    BY <1>1, <1>2, <1>4
  <2> HIDE DEF t, g
  <2>2. [bodies EXCEPT ![n] = t] \in Seq(Body)
    BY <2>1
  <2> QED
    BY <2>1, <2>2
<1>5. /\ g[n].kind = bodies[n].kind /\ g[n].node = bodies[n].node /\ g[n].more = bodies[n].more
      /\ g[n].other = bodies[n].other /\ g[n].after = bodies[n].after
      /\ g[n].returned = bodies[n].returned /\ g[n].exited = bodies[n].exited
  BY <1>1, <1>2 DEF Body
<1>6. Grown = g
  BY DEF Grown
<1>7. Len(g) = Len(bodies)
  BY <1>2, <1>3
<1> HIDE DEF g
<1>8. ASSUME NEW op \in Leaves
      PROVE  SameShape(bodies, Left(op)) /\ Ended(Left(op)[n])
  <2> DEFINE h == [g EXCEPT ![n].returned = (op = "return"), ![n].exited = (op = "exit")]
  <2>1. /\ DOMAIN h = DOMAIN bodies
        /\ h[n] = [g[n] EXCEPT !.returned = (op = "return"), !.exited = (op = "exit")]
        /\ \A k \in DOMAIN bodies : k # n => h[k] = g[k]
    BY <1>1, <1>2
  <2>2. Left(op) = h
    BY <1>6 DEF Left
  <2> HIDE DEF h
  <2>3. /\ h[n].kind = g[n].kind /\ h[n].node = g[n].node /\ h[n].more = g[n].more
        /\ h[n].other = g[n].other /\ h[n].after = g[n].after
        /\ h[n].returned = (op = "return") /\ h[n].exited = (op = "exit")
    BY <1>4, <2>1 DEF Body
  <2>4. SameShape(bodies, h)
    <3> HIDE DEF n
    <3> QED BY <1>2, <1>5, <2>1, <2>3 DEF SameShape
  <2>5. Ended(h[n])
    BY <2>3 DEF Ended, Leaves
  <2> QED BY <2>2, <2>4, <2>5
<1> HIDE DEF n
<1>9. SameShape(bodies, g)
  BY <1>2, <1>5 DEF SameShape
<1>10. Ended(g[n]) <=> Ended(bodies[n])
  BY <1>5 DEF Ended
<1> QED
  BY <1>3, <1>6, <1>7, <1>8, <1>9, <1>10 DEF n

LEMMA RecordLabelled ==
  ASSUME InCompilation, Entered, NEW r, Labelled(r), NEW x \in Node, ast' = Append(ast, x),
         x.op \in {"elsif", "else"} => ~Skips(r, code, x.head)
  PROVE  /\ Fitted(ast', r, code) /\ ast' \in Seq(Node)
         /\ Len(ast') = Here /\ ast'[Here] = x /\ Here \in DOMAIN ast'
         /\ Open(Top) => Reaches(ast', Ends(r, code, insert), Here)
         /\ \A k \in DOMAIN bodies : bodies[k].node \in Nat /\ bodies[k].node < Here
<1>1. ast \in Seq(Node) /\ Fitted(ast, r, code)
  BY DEF Labelled, Fitted
<1>2. insert \in DOMAIN code /\ Here \in Nat /\ Len(ast) \in Nat
  BY <1>1, Within
<1>3. /\ Fitted(Append(ast, x), r, code)
      /\ Len(Append(ast, x)) = Len(ast) + 1
      /\ Append(ast, x)[Len(ast) + 1] = x
      /\ Len(ast) + 1 \in DOMAIN Append(ast, x)
      /\ \A b \in DOMAIN code : At(ast, r, code, b) => Reaches(Append(ast, x), Ends(r, code, b), Len(ast) + 1)
  BY <1>1, RecordFits
<1>4. Open(Top) => At(ast, r, code, insert)
  BY DEF Labelled
<1>5. ASSUME NEW k \in DOMAIN bodies PROVE bodies[k].node \in Nat /\ bodies[k].node < Here
  <2>1. bodies[k].kind = "function" => bodies[k].node = 0
    BY DEF Labelled, Role
  <2>2. bodies[k].kind # "function" => bodies[k].node \in 1 .. Len(ast)
    BY DEF Labelled, TapeInv
  <2> QED
    BY <1>2, <2>1, <2>2 DEF Here
<1> QED
  BY <1>2, <1>3, <1>4, <1>5 DEF Here, Fitted

LEMMA SimpleLabels ==
  ASSUME IInv, Entered, NEW r, Labelled(r), CompileSimple
  PROVE  (\E q : Labelled(q))'
<1> DEFINE x == [op |-> "do", head |-> Here]
           in == Do("do", Here)
           d == Extended(code, insert, <<in>>)
<1>1. InCompilation /\ ast \in Seq(Node)
  BY DEF IInv, CompileSimple, TakesStatements, Compiling, Done
<1>2. /\ bodies \in Seq(Body) /\ bodies # <<>> /\ Top \in Body /\ Here \in Nat
      /\ insert \in DOMAIN code /\ Open(Top)
  BY <1>1, Within DEF CompileSimple, TakesStatements, Open
<1>3. x \in Node /\ x.op = "do" /\ ast' = Append(ast, x)
  BY <1>2 DEF Node, Ops, CompileSimple, Record
<1>4. in \in Instr /\ in.op = "do" /\ in.node = Here
  BY <1>2 DEF Do, Instr
<1>5. code' = d /\ insert' = insert /\ bodies' = Grown
  BY DEF CompileSimple, Build, Emit, Builder, Fn, Extended
<1> HIDE DEF x, in
<1>6. /\ Fitted(ast', r, code) /\ Len(ast') = Here /\ ast'[Here] = x /\ Here \in DOMAIN ast'
      /\ Reaches(ast', Ends(r, code, insert), Here)
  BY <1>1, <1>2, <1>3, RecordLabelled
<1>7. Fits(ast', r, Len(code), Ends(r, code, insert), in)
  <2>1. FitsNode(ast', Ends(r, code, insert), in, "do")
    BY <1>3, <1>4, <1>6 DEF FitsNode
  <2> QED
    BY <1>4, <1>6, <2>1 DEF Fits
<1>8. /\ Fitted(ast', r, d) /\ DOMAIN d = DOMAIN code
      /\ Ends(r, d, insert) = After(in)
      /\ \A n : Skips(r, d, n) => Skips(r, code, n)
  <2>1. in.op # "test"
    BY <1>4
  <2> QED
    BY <1>2, <1>4, <1>6, <1>7, <2>1, EmitOne
<1> HIDE DEF d
<1>9. At(ast', r, d, insert)
  BY <1>4, <1>6, <1>8 DEF At, After, Reaches
<1>10. TapeInv(ast', Grown)
  <2>1. TapeInv(Append(ast, x), bodies)
    BY <1>1, <1>3, TapePlain DEF Labelled
  <2> QED
    BY <1>2, <1>3, <2>1, GrownShape, ShapesKeep
<1>11. \A k \in DOMAIN Grown : Role(Grown[k], r, d)
  <2>1. \A k \in DOMAIN bodies : Role(bodies[k], r, d)
    BY <1>8, RoleKept DEF Labelled
  <2> QED
    BY <1>2, <2>1, GrownShape, ShapesKeep
<1>12. Labelled(r)'
  BY <1>5, <1>8, <1>9, <1>10, <1>11 DEF Labelled
<1> QED
  BY <1>12

LEMMA LeaveLabels ==
  ASSUME IInv, Entered, NEW r, Labelled(r), NEW op \in Leaves, CompileLeave(op)
  PROVE  (\E q : Labelled(q))'
<1> DEFINE x == [op |-> op, head |-> Here]
           in == Ret(Here)
           d == Extended(code, insert, <<in>>)
           n == Len(bodies)
           cs == Left(op)
<1>1. InCompilation /\ ast \in Seq(Node)
  BY DEF IInv, CompileLeave, TakesStatements, Compiling, Done
<1>2. /\ bodies \in Seq(Body) /\ bodies # <<>> /\ Top \in Body /\ Here \in Nat
      /\ insert \in DOMAIN code /\ Open(Top) /\ Top.kind # "next" /\ Top = bodies[n]
  BY <1>1, Within DEF CompileLeave, TakesStatements, Open
<1>3. /\ x \in Node /\ x.op = op /\ ast' = Append(ast, x)
      /\ x.op \notin {"elsif", "else", "fi", "od"}
  BY <1>2 DEF Node, Ops, Leaves, CompileLeave, Record
<1>4. in \in Instr /\ in.op = "leave" /\ in.node = Here
  BY <1>2 DEF Ret, Instr
<1>5. code' = d /\ insert' = insert /\ bodies' = cs
  BY DEF CompileLeave, Build, Emit, Builder, Fn, Extended
<1> HIDE DEF x, in
<1>6. /\ Fitted(ast', r, code) /\ Len(ast') = Here /\ ast'[Here] = x /\ Here \in DOMAIN ast'
      /\ Reaches(ast', Ends(r, code, insert), Here)
  BY <1>1, <1>2, <1>3, RecordLabelled
<1>7. Fits(ast', r, Len(code), Ends(r, code, insert), in)
  <2>1. FitsNode(ast', Ends(r, code, insert), in, op)
    BY <1>3, <1>4, <1>6 DEF FitsNode
  <2> QED
    BY <1>4, <1>6, <2>1 DEF Fits
<1>8. /\ Fitted(ast', r, d) /\ DOMAIN d = DOMAIN code
      /\ \A m : Skips(r, d, m) => Skips(r, code, m)
  <2>1. in.op # "test"
    BY <1>4
  <2> QED
    BY <1>2, <1>4, <1>6, <1>7, <2>1, EmitOne
<1> HIDE DEF d
<1>9. SameShape(bodies, cs) /\ Ended(cs[n]) /\ Len(cs) = n
  <2>1. Len(cs) = Len(Grown)
    <3>1. Grown \in Seq(Body)
      BY <1>2, GrownShape
    <3> QED BY <3>1 DEF Left
  <2> QED
    BY <1>2, <2>1, GrownShape
<1> HIDE DEF cs
<1>10. TapeInv(ast', cs)
  <2>1. TapeInv(Append(ast, x), bodies)
    BY <1>1, <1>3, TapePlain DEF Labelled
  <2> QED
    BY <1>3, <1>9, <2>1, ShapesKeep
<1>11. \A k \in DOMAIN cs : Role(cs[k], r, d)
  <2>1. \A k \in DOMAIN bodies : Role(bodies[k], r, d)
    BY <1>8, RoleKept DEF Labelled
  <2> QED
    BY <1>9, <2>1, ShapesKeep
<1>12. ~Open(cs[Len(cs)])
  <2>1. n \in DOMAIN bodies /\ cs[n].kind # "next"
    BY <1>1, <1>2, <1>9, Within DEF SameShape
  <2> QED
    BY <1>9, <2>1 DEF Open
<1>13. Labelled(r)'
  BY <1>5, <1>8, <1>10, <1>11, <1>12 DEF Labelled, Top
<1> QED
  BY <1>13

\* The invariant in a new body or behind a construct.
Opens(tape, r, c, bs, b) ==
  /\ Fitted(tape, r, c) /\ TapeInv(tape, bs)
  /\ \A k \in DOMAIN bs : Role(bs[k], r, c)
  /\ At(tape, r, c, b)

\* Nothing names the last node yet.
LEMMA NothingNamesIt ==
  ASSUME NEW tape \in Seq(Node), NEW bs, TapeInv(tape, bs), NEW x \in Node,
         x.op \in {"elsif", "else", "fi", "od"} => x.head # Len(tape) + 1
  PROVE  \A i : ~Alternative(Append(tape, x), i, Len(tape) + 1) /\ ~Closes(Append(tape, x), i, Len(tape) + 1)
<1> DEFINE N == Len(tape) + 1
<1>1. /\ Len(tape) \in Nat /\ DOMAIN tape = 1 .. Len(tape)
      /\ \A i, n : Closes(Append(tape, x), i, n) <=>
           Closes(tape, i, n) \/ (i = N /\ x.op \in {"fi", "od"} /\ x.head = n)
      /\ \A i, n : Alternative(Append(tape, x), i, n) <=>
           Alternative(tape, i, n) \/ (i = N /\ x.op \in {"elsif", "else"} /\ x.head = n)
  BY Marks
<1>2. ASSUME NEW i, Alternative(tape, i, N) \/ Closes(tape, i, N) PROVE FALSE
  <2>1. i \in 1 .. Len(tape) /\ i \in DOMAIN tape /\ tape[i].op \in {"elsif", "else", "fi", "od"} /\ tape[i].head = N
    BY <1>1, <1>2 DEF Alternative, Closes
  <2>2. N \in 1 .. i - 1
    BY <2>1 DEF TapeInv
  <2> QED
    BY <1>1, <2>1, <2>2
<1> QED
  BY <1>1, <1>2

LEMMA ConditionOpens ==
  ASSUME NEW tape, NEW r, NEW c, Fitted(tape, r, c), 1 \in DOMAIN c, NEW b \in DOMAIN c,
         NEW n \in DOMAIN tape, n = Len(tape), NEW more \in BOOLEAN,
         \A i : ~Alternative(tape, i, n) /\ ~Closes(tape, i, n), ~Skips(r, c, n),
         \/ Reaches(tape, Ends(r, c, b), n) /\ tape[n].op = "if"
         \/ /\ Ends(r, c, b).kind = "failed" /\ Alternative(tape, n, Ends(r, c, b).node)
            /\ tape[n].op = "elsif",
         NEW cs \in Seq(Body), TapeInv(tape, cs), \A k \in DOMAIN cs : Role(cs[k], r, c) /\ cs[k].node # n
  PROVE  Opens(tape, MarkIf(r, Len(c), n),
               Extended(Widened(c, 3), b,
                        <<CondBr(n, Len(c) + 1, IF more THEN Len(c) + 2 ELSE Len(c) + 3)>>),
               Append(cs, NewBody("then", n, more, Len(c) + 2, Len(c) + 3)), Len(c) + 1)
<1> DEFINE L == Len(c)
           q == MarkIf(r, L, n)
           d == Extended(Widened(c, 3), b, <<CondBr(n, L + 1, IF more THEN L + 2 ELSE L + 3)>>)
           t == NewBody("then", n, more, L + 2, L + 3)
           bs == Append(cs, t)
<1>1. tape \in Seq(Node) /\ n \in Nat /\ n \in 1 .. Len(tape) /\ L \in Nat
  BY DEF Fitted
<1>2. Straight(tape, n)
  BY DEF Straight
<1>3. /\ Fitted(tape, q, d)
      /\ \A x \in DOMAIN c : x \in DOMAIN d /\ q[x] = r[x]
      /\ L + 1 \in DOMAIN d /\ L + 2 \in DOMAIN d /\ L + 3 \in DOMAIN d
      /\ q[L + 2] = Failed(n) /\ q[L + 3] = Past(n)
      /\ \A m : Skips(q, d, m) => Skips(r, c, m) \/ (~more /\ m = n)
      /\ At(tape, q, d, L + 1)
  BY <1>2, ConditionFits
<1>4. /\ t \in Body /\ t.kind = "then" /\ t.node = n /\ t.more = more /\ t.other = L + 2 /\ t.after = L + 3
  BY <1>1 DEF NewBody, Body, Ended
<1> HIDE DEF q, d, t
<1>5. TapeInv(tape, bs)
  <2>1. t.kind \in {"then", "loop"} /\ t.node \in 1 .. Len(tape)
    BY <1>1, <1>4
  <2>2. \A i : ~Closes(tape, i, t.node) /\ ~Alternative(tape, i, t.node)
    BY <1>4
  <2>3. \A k \in DOMAIN cs : cs[k].node # t.node
    BY <1>4
  <2> QED
    BY <1>1, <1>4, <2>1, <2>2, <2>3, TapePush
<1>6. Role(t, q, d)
  BY <1>3, <1>4 DEF Role
<1>7. ASSUME NEW k \in DOMAIN cs PROVE Role(cs[k], q, d)
  BY <1>3, RoleKept
<1>8. \A k \in DOMAIN bs : Role(bs[k], q, d)
  <2>1. /\ \A k : k \in DOMAIN bs <=> k \in DOMAIN cs \/ k = Len(cs) + 1
        /\ \A k \in DOMAIN cs : bs[k] = cs[k]
        /\ bs[Len(cs) + 1] = t
    BY <1>4, AppendOne
  <2> HIDE DEF bs
  <2> QED
    BY <1>6, <1>7, <2>1
<1> QED
  BY <1>3, <1>5, <1>8 DEF Opens, q, d, t

LEMMA LoopOpens ==
  ASSUME NEW tape, NEW r, NEW c, Fitted(tape, r, c), 1 \in DOMAIN c, NEW b \in DOMAIN c,
         NEW n \in DOMAIN tape, n = Len(tape),
         \A i : ~Alternative(tape, i, n) /\ ~Closes(tape, i, n),
         Reaches(tape, Ends(r, c, b), n), tape[n].op = "for",
         NEW cs \in Seq(Body), TapeInv(tape, cs), \A k \in DOMAIN cs : Role(cs[k], r, c) /\ cs[k].node # n
  PROVE  Opens(tape, MarkFor(r, Len(c), n),
               Extended(Widened(c, 2), b, <<Do("init", n), CondBr(n, Len(c) + 1, Len(c) + 2)>>),
               Append(cs, NewBody("loop", n, FALSE, Len(c) + 1, Len(c) + 2)), Len(c) + 1)
<1> DEFINE L == Len(c)
           q == MarkFor(r, L, n)
           d == Extended(Widened(c, 2), b, <<Do("init", n), CondBr(n, L + 1, L + 2)>>)
           t == NewBody("loop", n, FALSE, L + 1, L + 2)
           bs == Append(cs, t)
<1>1. tape \in Seq(Node) /\ n \in Nat /\ n \in 1 .. Len(tape) /\ L \in Nat
  BY DEF Fitted
<1>2. Straight(tape, n)
  BY DEF Straight
<1>3. /\ Fitted(tape, q, d)
      /\ \A x \in DOMAIN c : x \in DOMAIN d /\ q[x] = r[x]
      /\ L + 1 \in DOMAIN d /\ L + 2 \in DOMAIN d
      /\ q[L + 1] = Behind(n) /\ q[L + 2] = Past(n)
      /\ \A m : Skips(q, d, m) => Skips(r, c, m) \/ m = n
      /\ At(tape, q, d, L + 1)
  <2>1. Looping(tape, r, c, q, d, n)
    BY <1>2, LoopFits
  <2> QED
    BY <2>1 DEF Looping
<1>4. /\ t \in Body /\ t.kind = "loop" /\ t.node = n /\ t.other = L + 1 /\ t.after = L + 2
  BY <1>1 DEF NewBody, Body, Ended
<1> HIDE DEF q, d, t
<1>5. TapeInv(tape, bs)
  <2>1. t.kind \in {"then", "loop"} /\ t.node \in 1 .. Len(tape)
    BY <1>1, <1>4
  <2>2. \A i : ~Closes(tape, i, t.node) /\ ~Alternative(tape, i, t.node)
    BY <1>4
  <2>3. \A k \in DOMAIN cs : cs[k].node # t.node
    BY <1>4
  <2> QED
    BY <1>1, <1>4, <2>1, <2>2, <2>3, TapePush
<1>6. Role(t, q, d)
  BY <1>3, <1>4 DEF Role
<1>7. ASSUME NEW k \in DOMAIN cs PROVE Role(cs[k], q, d)
  BY <1>3, RoleKept
<1>8. \A k \in DOMAIN bs : Role(bs[k], q, d)
  <2>1. /\ \A k : k \in DOMAIN bs <=> k \in DOMAIN cs \/ k = Len(cs) + 1
        /\ \A k \in DOMAIN cs : bs[k] = cs[k]
        /\ bs[Len(cs) + 1] = t
    BY <1>4, AppendOne
  <2> HIDE DEF bs
  <2> QED
    BY <1>6, <1>7, <2>1
<1> QED
  BY <1>3, <1>5, <1>8 DEF Opens, q, d, t

LEMMA OpensLabels ==
  ASSUME NEW q, Opens(ast', q, code', bodies', insert')
  PROVE  (\E p : Labelled(p))'
<1>1. Labelled(q)'
  BY DEF Opens, Labelled
<1> QED
  BY <1>1

\* A condition or loop in the innermost body: the bodies with one more statement.
LEMMA NodeOpens ==
  ASSUME InCompilation, Entered, NEW r, Labelled(r), NEW x \in Node, ast' = Append(ast, x),
         x.op \notin {"elsif", "else", "fi", "od"}
  PROVE  /\ Grown \in Seq(Body) /\ TapeInv(ast', Grown)
         /\ \A k \in DOMAIN Grown : Role(Grown[k], r, code) /\ Grown[k].node # Here
         /\ \A i : ~Alternative(ast', i, Here) /\ ~Closes(ast', i, Here)
         /\ ~Skips(r, code, Here)
<1>1. ast \in Seq(Node) /\ TapeInv(ast, bodies) /\ Fitted(ast, r, code) /\ CodeFits(ast, r, code)
  BY DEF Labelled, Fitted
<1>2. bodies \in Seq(Body) /\ bodies # <<>> /\ Here \in Nat /\ Here = Len(ast) + 1 /\ Len(ast) \in Nat
  BY <1>1, Within DEF Here
<1>3. SameShape(bodies, Grown) /\ Grown \in Seq(Body)
  BY <1>2, GrownShape
<1>4. TapeInv(ast', Grown)
  <2>1. TapeInv(ast', bodies)
    BY <1>1, TapePlain
  <2> QED
    BY <1>3, <2>1, ShapesKeep
<1>5. \A k \in DOMAIN Grown : Role(Grown[k], r, code)
  BY <1>3, ShapesKeep DEF Labelled
<1>6. \A k \in DOMAIN Grown : Grown[k].node # Here
  <2>1. \A k \in DOMAIN bodies : bodies[k].node \in Nat /\ bodies[k].node < Here
    BY RecordLabelled
  <2>2. \A k \in DOMAIN bodies : bodies[k].node # Here
    BY <1>2, <2>1
  <2> QED
    BY <1>3, <2>2 DEF SameShape
<1>7. \A i : ~Alternative(ast', i, Here) /\ ~Closes(ast', i, Here)
  BY <1>1, <1>2, NothingNamesIt
<1>8. ~Skips(r, code, Here)
  <2>1. Here \notin DOMAIN ast
    BY <1>1, <1>2
  <2> QED
    BY <1>1, <2>1, TestsAreOnTape
<1> QED
  BY <1>3, <1>4, <1>5, <1>6, <1>7, <1>8

LEMMA IfLabels ==
  ASSUME IInv, Entered, NEW r, Labelled(r), NEW more \in BOOLEAN, CompileIf(more)
  PROVE  (\E q : Labelled(q))'
<1> DEFINE x == [op |-> "if", head |-> Here]
           q == MarkIf(r, Len(code), Here)
           d == Extended(Widened(code, 3), insert,
                         <<CondBr(Here, Len(code) + 1, IF more THEN Len(code) + 2 ELSE Len(code) + 3)>>)
           bs == Append(Grown, NewBody("then", Here, more, Len(code) + 2, Len(code) + 3))
<1>1. InCompilation /\ ast \in Seq(Node)
  BY DEF IInv, CompileIf, TakesStatements, Compiling, Done
<1>2. Here \in Nat /\ insert \in DOMAIN code /\ 1 \in DOMAIN code /\ Open(Top)
  BY <1>1, Within DEF CompileIf, TakesStatements, Open
<1>3. x \in Node /\ x.op = "if" /\ ast' = Append(ast, x)
  BY <1>2 DEF Node, Ops, CompileIf, Record
<1>4. code' = d /\ bodies' = bs /\ insert' = Len(code) + 1
  BY DEF CompileIf, Build, Conditional, Enter, Emit, Create, Builder, Fn, Fresh, Extended, Widened
<1> HIDE DEF x
<1>5. /\ Fitted(ast', r, code) /\ Len(ast') = Here /\ ast'[Here] = x /\ Here \in DOMAIN ast'
      /\ Reaches(ast', Ends(r, code, insert), Here)
  BY <1>1, <1>2, <1>3, RecordLabelled
<1>6. /\ Grown \in Seq(Body) /\ TapeInv(ast', Grown)
      /\ \A k \in DOMAIN Grown : Role(Grown[k], r, code) /\ Grown[k].node # Here
      /\ \A i : ~Alternative(ast', i, Here) /\ ~Closes(ast', i, Here)
      /\ ~Skips(r, code, Here)
  BY <1>1, <1>3, NodeOpens
<1>7. Opens(ast', q, d, bs, Len(code) + 1)
  BY <1>2, <1>3, <1>5, <1>6, ConditionOpens
<1> QED
  BY <1>4, <1>7, OpensLabels

LEMMA ForLabels ==
  ASSUME IInv, Entered, NEW r, Labelled(r), CompileFor
  PROVE  (\E q : Labelled(q))'
<1> DEFINE x == [op |-> "for", head |-> Here]
           q == MarkFor(r, Len(code), Here)
           d == Extended(Widened(code, 2), insert,
                         <<Do("init", Here), CondBr(Here, Len(code) + 1, Len(code) + 2)>>)
           bs == Append(Grown, NewBody("loop", Here, FALSE, Len(code) + 1, Len(code) + 2))
<1>1. InCompilation /\ ast \in Seq(Node)
  BY DEF IInv, CompileFor, TakesStatements, Compiling, Done
<1>2. Here \in Nat /\ insert \in DOMAIN code /\ 1 \in DOMAIN code /\ Open(Top)
  BY <1>1, Within DEF CompileFor, TakesStatements, Open
<1>3. x \in Node /\ x.op = "for" /\ ast' = Append(ast, x)
  BY <1>2 DEF Node, Ops, CompileFor, Record
<1>4. code' = d /\ bodies' = bs /\ insert' = Len(code) + 1
  BY DEF CompileFor, Build, Enter, Emit, Create, Builder, Fn, Fresh, Extended, Widened
<1> HIDE DEF x
<1>5. /\ Fitted(ast', r, code) /\ Len(ast') = Here /\ ast'[Here] = x /\ Here \in DOMAIN ast'
      /\ Reaches(ast', Ends(r, code, insert), Here)
  BY <1>1, <1>2, <1>3, RecordLabelled
<1>6. /\ Grown \in Seq(Body) /\ TapeInv(ast', Grown)
      /\ \A k \in DOMAIN Grown : Role(Grown[k], r, code) /\ Grown[k].node # Here
      /\ \A i : ~Alternative(ast', i, Here) /\ ~Closes(ast', i, Here)
      /\ ~Skips(r, code, Here)
  BY <1>1, <1>3, NodeOpens
<1>7. Opens(ast', q, d, bs, Len(code) + 1)
  BY <1>2, <1>3, <1>5, <1>6, LoopOpens
<1> QED
  BY <1>4, <1>7, OpensLabels

\* Behind the body of a condition with an `elsif` or `else`: the branch past the
\* construct, and the block for the false condition.
LEMMA ElseEntered ==
  ASSUME InCompilation, Entered, NEW r, Labelled(r), ThenWithMore, NEW x \in Node, ast' = Append(ast, x),
         x.op \in {"elsif", "else"}, x.head = Top.node
  PROVE  LET c == Extended(code, insert, BrUnless(Ended(Top), Top.after)) IN
         /\ Fitted(ast', r, c) /\ Len(c) = Len(code) /\ DOMAIN c = DOMAIN code
         /\ Top.other \in DOMAIN code /\ Ends(r, c, Top.other) = Failed(Top.node)
         /\ \A m : Skips(r, c, m) => Skips(r, code, m)
         /\ Here \in DOMAIN ast' /\ Len(ast') = Here /\ ast'[Here] = x
         /\ Alternative(ast', Here, Top.node)
<1> DEFINE e == Ended(Top)
           t == Top.after
           o == Top.other
           c == Extended(code, insert, BrUnless(e, t))
<1>1. ast \in Seq(Node)
  BY DEF Labelled, Fitted
<1>2. /\ bodies \in Seq(Body) /\ Len(bodies) \in DOMAIN bodies /\ Top = bodies[Len(bodies)] /\ Top \in Body
      /\ insert \in DOMAIN code
      /\ \A b \in Promised(Top) : b \in DOMAIN code /\ b # insert /\ code[b] = <<>>
  BY <1>1, Within
<1>3. Top.kind = "then" /\ Top.more
  BY DEF ThenWithMore
<1>4. Role(Top, r, code)
  BY <1>2 DEF Labelled
<1>5. /\ t \in DOMAIN code /\ r[t] = Past(Top.node) /\ o \in DOMAIN code /\ r[o] = Failed(Top.node)
      /\ ~Skips(r, code, Top.node) /\ o # insert /\ code[o] = <<>>
  BY <1>2, <1>3, <1>4 DEF Role, Promised
<1>6. /\ Fitted(ast', r, code) /\ Len(ast') = Here /\ ast'[Here] = x /\ Here \in DOMAIN ast'
      /\ Open(Top) => Reaches(ast', Ends(r, code, insert), Here)
  BY <1>5, RecordLabelled
<1>7. e \in BOOLEAN /\ (~e => Open(Top))
  BY <1>2 DEF Ended, Body, Open
<1>8. c = Extended(code, insert, BrUnless(Ended(Top), Top.after)) /\ o = Top.other
  OBVIOUS
<1> HIDE DEF e, t, o
<1>9. /\ Fitted(ast', r, c)
      /\ Len(c) = Len(code) /\ DOMAIN c = DOMAIN code
      /\ \A b \in DOMAIN code : b # insert => c[b] = code[b]
      /\ \A m : Skips(r, c, m) => Skips(r, code, m)
  <2>1. ~e => Reaches(ast', Ends(r, code, insert), Here)
    BY <1>6, <1>7
  <2>2. ast'[Here].op \in {"elsif", "else", "fi"} /\ r[t] = Past(ast'[Here].head)
    BY <1>5, <1>6
  <2>3. Jumping(ast', r, code, insert, c)
    BY <1>2, <1>5, <1>6, <1>7, <2>1, <2>2, JumpFits
  <2> QED
    BY <2>3 DEF Jumping
<1> HIDE DEF c
<1>10. Ends(r, c, o) = Failed(Top.node)
  <2>1. c[o] = <<>>
    BY <1>5, <1>9
  <2> QED
    BY <1>5, <2>1, EmptyEnds
<1>11. Alternative(ast', Here, Top.node)
  BY <1>6 DEF Alternative
<1> QED
  BY <1>5, <1>6, <1>8, <1>9, <1>10, <1>11

\* The innermost body of a condition replaced by the one for its alternative.
LEMMA AlternativeRoles ==
  ASSUME InCompilation, Entered, NEW r, Labelled(r), NEW x \in Node, x.op \in {"elsif", "else"},
         x.head = Top.node, Top.kind = "then", NEW t \in Body, t.kind \in {"else", "next"},
         t.node = Top.node, t.after = Top.after, NEW c, DOMAIN c = DOMAIN code,
         \A m : Skips(r, c, m) => Skips(r, code, m)
  PROVE  LET cs == [bodies EXCEPT ![Len(bodies)] = t] IN
         /\ cs \in Seq(Body) /\ TapeInv(Append(ast, x), cs)
         /\ \A k \in DOMAIN cs : Role(cs[k], r, c) /\ cs[k].node # Here
<1> DEFINE L == Len(bodies)
           cs == [bodies EXCEPT ![L] = t]
<1>1. ast \in Seq(Node) /\ TapeInv(ast, bodies)
  BY DEF Labelled, Fitted
<1>2. bodies \in Seq(Body) /\ bodies # <<>> /\ L \in DOMAIN bodies /\ Top = bodies[L] /\ Here \in Nat
  BY <1>1, Within
<1>3. TapeInv(Append(ast, x), cs)
  BY <1>1, <1>2, TapeAlternative
<1>4. cs \in Seq(Body) /\ DOMAIN cs = DOMAIN bodies /\ cs[L] = t /\ \A k \in DOMAIN bodies : k # L => cs[k] = bodies[k]
  BY <1>2
<1> HIDE DEF cs, L
<1>5. \A k \in DOMAIN bodies : bodies[k].node # Here
  <2>1. ASSUME NEW k \in DOMAIN bodies PROVE bodies[k].node # Here
    <3>1. bodies[k].kind = "function" => bodies[k].node = 0
      BY DEF Labelled, Role
    <3>2. bodies[k].kind # "function" => bodies[k].node \in 1 .. Len(ast)
      BY <1>1 DEF TapeInv
    <3>3. Here = Len(ast) + 1 /\ Len(ast) \in Nat
      BY <1>1 DEF Here
    <3> QED
      BY <3>1, <3>2, <3>3
  <2> QED
    BY <2>1
<1>6. ASSUME NEW k \in DOMAIN cs PROVE Role(cs[k], r, c) /\ cs[k].node # Here
  <2>1. Role(bodies[k], r, code) /\ bodies[k].node # Here
    BY <1>4, <1>5 DEF Labelled
  <2>2. CASE k # L
    <3>1. Role(bodies[k], r, c)
      BY <2>1, RoleKept
    <3> QED
      BY <1>4, <2>1, <2>2, <3>1
  <2>3. CASE k = L
    <3>1. Top.after \in DOMAIN code /\ r[Top.after] = Past(Top.node)
      BY <1>2, <2>1, <2>3 DEF Role
    <3>2. Role(t, r, c)
      BY <3>1 DEF Role
    <3> QED
      BY <1>2, <1>4, <2>1, <2>3, <3>2
  <2> QED
    BY <2>2, <2>3
<1> QED
  BY <1>3, <1>4, <1>6 DEF cs, L

LEMMA ElseLabels ==
  ASSUME IInv, Entered, NEW r, Labelled(r), CompileElse
  PROVE  (\E q : Labelled(q))'
<1> DEFINE x == [op |-> "else", head |-> Top.node]
           c == Extended(code, insert, BrUnless(Ended(Top), Top.after))
           t == NewBody("else", Top.node, FALSE, Top.other, Top.after)
           cs == [bodies EXCEPT ![Len(bodies)] = t]
<1>1. InCompilation /\ ast \in Seq(Node)
  BY DEF IInv, CompileElse, ThenWithMore, Compiling, Done
<1>2. Top \in Body /\ Top = bodies[Len(bodies)] /\ Here \in Nat
  BY <1>1, Within
<1>3. x \in Node /\ x.op = "else" /\ x.head = Top.node /\ ast' = Append(ast, x)
  BY <1>2 DEF Node, Ops, CompileElse, Record, Body
<1>4. code' = c /\ insert' = Top.other
  BY DEF CompileElse, Build, EnterElse, Enter, Emit, Builder, Fn, Extended
<1>5. bodies' = cs
  BY <1>2 DEF CompileElse
<1>6. t \in Body /\ t.kind = "else" /\ t.node = Top.node /\ t.after = Top.after
  BY <1>2 DEF NewBody, Body, Ended
<1>7. ThenWithMore /\ Top.kind = "then"
  BY DEF CompileElse, ThenWithMore
<1> HIDE DEF x, t
<1>8. /\ Fitted(ast', r, c) /\ DOMAIN c = DOMAIN code
      /\ Ends(r, c, Top.other) = Failed(Top.node)
      /\ \A m : Skips(r, c, m) => Skips(r, code, m)
      /\ Len(ast') = Here /\ ast'[Here] = x
      /\ Alternative(ast', Here, Top.node)
  BY <1>1, <1>3, <1>7, ElseEntered
<1> HIDE DEF c
<1>9. TapeInv(ast', cs) /\ \A k \in DOMAIN cs : Role(cs[k], r, c)
  BY <1>1, <1>3, <1>6, <1>7, <1>8, AlternativeRoles
<1>10. At(ast', r, c, Top.other)
  <2>1. (Len(ast') + 1) - 1 = Here
    BY <1>2, <1>8
  <2> QED
    BY <1>3, <1>8, <2>1 DEF At, Reaches, Failed
<1>11. Opens(ast', r, code', bodies', insert')
  BY <1>4, <1>5, <1>8, <1>9, <1>10 DEF Opens
<1> QED
  BY <1>11, OpensLabels

LEMMA ElsifLabels ==
  ASSUME IInv, Entered, NEW r, Labelled(r), NEW more \in BOOLEAN, CompileElsif(more)
  PROVE  (\E q : Labelled(q))'
<1> DEFINE x == [op |-> "elsif", head |-> Top.node]
           c == Extended(code, insert, BrUnless(Ended(Top), Top.after))
           t == [Top EXCEPT !.kind = "next"]
           cs == [bodies EXCEPT ![Len(bodies)] = t]
           q == MarkIf(r, Len(c), Here)
           d == Extended(Widened(c, 3), Top.other,
                         <<CondBr(Here, Len(c) + 1, IF more THEN Len(c) + 2 ELSE Len(c) + 3)>>)
           bs == Append(cs, NewBody("then", Here, more, Len(c) + 2, Len(c) + 3))
<1>1. InCompilation /\ ast \in Seq(Node)
  BY DEF IInv, CompileElsif, ThenWithMore, Compiling, Done
<1>2. /\ Top \in Body /\ Top = bodies[Len(bodies)] /\ Here \in Nat /\ Here = Len(ast) + 1
      /\ bodies \in Seq(Body) /\ Len(bodies) \in DOMAIN bodies /\ 1 \in DOMAIN code
  BY <1>1, Within DEF Here
<1>3. x \in Node /\ x.op = "elsif" /\ x.head = Top.node /\ ast' = Append(ast, x)
  BY <1>2 DEF Node, Ops, CompileElsif, Record, Body
<1>4. ThenWithMore /\ Top.kind = "then"
  BY DEF CompileElsif, ThenWithMore
<1> HIDE DEF x
<1>5. /\ Fitted(ast', r, c) /\ Len(c) = Len(code) /\ DOMAIN c = DOMAIN code
      /\ Top.other \in DOMAIN code /\ Ends(r, c, Top.other) = Failed(Top.node)
      /\ \A m : Skips(r, c, m) => Skips(r, code, m)
      /\ Here \in DOMAIN ast' /\ Len(ast') = Here /\ ast'[Here] = x
      /\ Alternative(ast', Here, Top.node)
  BY <1>1, <1>3, <1>4, ElseEntered
<1>6. bodies' = bs
  <2>1. cs = [bodies EXCEPT ![Len(bodies)].kind = "next"]
    BY <1>2
  <2> QED
    BY <1>5, <2>1 DEF CompileElsif, Fresh
<1>7. code' = d /\ insert' = Len(c) + 1
  BY DEF CompileElsif, Build, EnterElse, Conditional, Enter, Emit, Create, Builder, Fn, Extended, Widened
<1>8. t \in Body /\ t.kind = "next" /\ t.node = Top.node /\ t.after = Top.after
  BY <1>2 DEF Body
<1> HIDE DEF t, c
<1>9. cs \in Seq(Body) /\ TapeInv(ast', cs) /\ \A k \in DOMAIN cs : Role(cs[k], r, c) /\ cs[k].node # Here
  BY <1>1, <1>3, <1>4, <1>5, <1>8, AlternativeRoles
<1>10. \A i : ~Alternative(ast', i, Here) /\ ~Closes(ast', i, Here)
  <2>1. TapeInv(ast, bodies) /\ x.head # Len(ast) + 1
    <3>1. Top.node \in 1 .. Len(ast) /\ Len(ast) \in Nat
      BY <1>1, <1>2, <1>4 DEF Labelled, TapeInv
    <3> QED
      BY <1>3, <3>1 DEF Labelled
  <2> QED
    BY <1>1, <1>2, <1>3, <2>1, NothingNamesIt
<1>11. ~Skips(r, c, Here)
  <2>1. CodeFits(ast, r, code) /\ Here \notin DOMAIN ast
    BY <1>1, <1>2 DEF Labelled, Fitted
  <2>2. ~Skips(r, code, Here)
    BY <2>1, TestsAreOnTape
  <2> QED
    BY <1>5, <2>2
<1>12. /\ Ends(r, c, Top.other).kind = "failed" /\ Alternative(ast', Here, Ends(r, c, Top.other).node)
       /\ ast'[Here].op = "elsif"
  BY <1>3, <1>5 DEF Failed
<1> HIDE DEF cs
<1>13. Opens(ast', q, d, bs, Len(c) + 1)
  BY <1>2, <1>5, <1>9, <1>10, <1>11, <1>12, ConditionOpens
<1> QED
  BY <1>6, <1>7, <1>13, OpensLabels

\* The innermost construct is closed and the Builder enters the block past it.
LEMMA PopOpens ==
  ASSUME InCompilation, Entered, NEW r, Labelled(r), NEW x \in Node, ast' = Append(ast, x),
         Top.kind # "function", x.head = Top.node, x.op = IF Top.kind = "loop" THEN "od" ELSE "fi",
         Promised(Top) = {Top.after},
         NEW c, Fitted(ast', r, c), DOMAIN c = DOMAIN code,
         \A b \in DOMAIN code : b # insert => c[b] = code[b],
         \A m : Skips(r, c, m) => Skips(r, code, m) \/ m = Top.node,
         code' = c, bodies' = SubSeq(bodies, 1, Len(bodies) - 1), insert' = Top.after
  PROVE  (\E q : Labelled(q))'
<1> DEFINE L == Len(bodies)
           cs == SubSeq(bodies, 1, L - 1)
<1>1. ast \in Seq(Node) /\ TapeInv(ast, bodies)
  BY DEF Labelled, Fitted
<1>2. /\ bodies \in Seq(Body) /\ L \in DOMAIN bodies /\ Top = bodies[L] /\ L \in Nat /\ bodies # <<>>
      /\ \A b \in Promised(Top) : b \in DOMAIN code /\ b # insert /\ code[b] = <<>>
      /\ \A k \in DOMAIN bodies : k = 1 <=> bodies[k].kind = "function"
  BY <1>1, Within
<1>3. L > 1
  <2>1. L # 1
    BY <1>2
  <2> QED
    BY <1>2, <2>1
<1>4. \A k \in DOMAIN cs : cs[k] = bodies[k] /\ k \in DOMAIN bodies /\ k # L
  BY <1>2, <1>3
<1>5. TapeInv(ast', cs)
  BY <1>1, <1>2, <1>3, TapeClose
<1>6. bodies' = cs
  OBVIOUS
<1> HIDE DEF cs, L
<1>7. ASSUME NEW k \in DOMAIN cs PROVE Role(cs[k], r, c)
  <2>1. Role(bodies[k], r, code) /\ k \in DOMAIN bodies /\ cs[k] = bodies[k]
    BY <1>4, <1>7 DEF Labelled
  <2>2. bodies[k].node # Top.node
    BY <1>1, <1>2, <1>4, <1>7 DEF TapeInv
  <2>3. Role(bodies[k], r, c)
    BY <2>1, <2>2, RoleKept
  <2> QED
    BY <2>1, <2>3
<1>8. Top.after \in DOMAIN code /\ Top.after # insert /\ code[Top.after] = <<>>
  BY <1>2
<1>9. r[Top.after] = Past(Top.node)
  <2>1. Role(Top, r, code)
    BY <1>2 DEF Labelled
  <2> QED
    BY <2>1 DEF Role
<1>10. Ends(r, c, Top.after) = Past(Top.node)
  <2>1. c[Top.after] = <<>>
    BY <1>8
  <2> QED
    BY <1>9, <2>1, EmptyEnds
<1>11. At(ast', r, c, Top.after)
  <2>1. Len(ast') = Here /\ ast'[Here] = x /\ Here \in DOMAIN ast' /\ Here \in Nat
    <3>1. x.op \notin {"elsif", "else"}
      OBVIOUS
    <3> QED
      BY <1>1, <3>1, RecordLabelled, Within
  <2>2. (Len(ast') + 1) - 1 = Here
    BY <2>1
  <2>3. Closes(ast', Here, Top.node)
    BY <2>1 DEF Closes
  <2> QED
    BY <1>10, <2>2, <2>3 DEF At, Reaches, Past
<1>12. Opens(ast', r, code', bodies', insert')
  BY <1>5, <1>6, <1>7, <1>11 DEF Opens
<1> QED
  BY <1>12, OpensLabels

LEMMA FiLabels ==
  ASSUME IInv, Entered, NEW r, Labelled(r), CompileFi
  PROVE  (\E q : Labelled(q))'
<1> DEFINE x == [op |-> "fi", head |-> Top.node]
           e == ~JumpsToMerge
           t == Top.after
           c == Extended(code, insert, BrUnless(e, t))
<1>1. InCompilation /\ ast \in Seq(Node)
  BY DEF IInv, CompileFi, Compiling, Done
<1>2. /\ Top \in Body /\ insert \in DOMAIN code
      /\ \A b \in Promised(Top) : b \in DOMAIN code /\ b # insert /\ code[b] = <<>>
      /\ Len(bodies) \in DOMAIN bodies /\ Top = bodies[Len(bodies)]
  BY <1>1, Within
<1>3. x \in Node /\ x.op = "fi" /\ x.head = Top.node /\ ast' = Append(ast, x)
  BY <1>2 DEF Node, Ops, CompileFi, Record, Body
<1>4. Top.kind # "function" /\ Top.kind # "loop" /\ Promised(Top) = {Top.after}
  BY DEF CompileFi, Promised
<1>5. /\ code' = c /\ insert' = Top.after
      /\ bodies' = SubSeq(bodies, 1, Len(bodies) - 1)
  BY DEF CompileFi, Build, Enter, Emit, Builder, Fn, Extended
<1>6. e \in BOOLEAN /\ (~e => Open(Top))
  BY DEF JumpsToMerge, Open
<1> HIDE DEF x, e
<1>7. /\ Fitted(ast', r, code) /\ Len(ast') = Here /\ ast'[Here] = x /\ Here \in DOMAIN ast'
      /\ Open(Top) => Reaches(ast', Ends(r, code, insert), Here)
  BY <1>1, <1>3, RecordLabelled
<1>8. t \in DOMAIN code /\ r[t] = Past(Top.node)
  <2>1. Role(Top, r, code)
    BY <1>2 DEF Labelled
  <2> QED
    BY <1>4, <2>1 DEF Role
<1>9. Jumping(ast', r, code, insert, c)
  <2>1. ~e => Reaches(ast', Ends(r, code, insert), Here)
    BY <1>6, <1>7
  <2>2. ast'[Here].op \in {"elsif", "else", "fi"} /\ r[t] = Past(ast'[Here].head)
    BY <1>3, <1>7, <1>8
  <2> HIDE DEF t
  <2> QED
    BY <1>2, <1>6, <1>7, <1>8, <2>1, <2>2, JumpFits
<1> HIDE DEF c
<1>10. /\ Fitted(ast', r, c) /\ DOMAIN c = DOMAIN code
       /\ \A b \in DOMAIN code : b # insert => c[b] = code[b]
       /\ \A m : Skips(r, c, m) => Skips(r, code, m) \/ m = Top.node
  BY <1>9 DEF Jumping
<1>11. x.op = IF Top.kind = "loop" THEN "od" ELSE "fi"
  BY <1>3, <1>4
<1> QED
  BY <1>1, <1>3, <1>4, <1>5, <1>10, <1>11, PopOpens

LEMMA OdLabels ==
  ASSUME IInv, Entered, NEW r, Labelled(r), CompileOd
  PROVE  (\E q : Labelled(q))'
<1> DEFINE x == [op |-> "od", head |-> Top.node]
           op == "step"
           n == Top.node
           t == Top.other
           f == Top.after
           c == Extended(code, insert, Repeat(Top))
<1>1. InCompilation /\ ast \in Seq(Node)
  BY DEF IInv, CompileOd, Compiling, Done
<1>2. /\ Top \in Body /\ insert \in DOMAIN code /\ code \in Seq(Seq(Instr))
      /\ \A b \in Promised(Top) : b \in DOMAIN code /\ b # insert /\ code[b] = <<>>
      /\ Len(bodies) \in DOMAIN bodies /\ Top = bodies[Len(bodies)] /\ Len(ast) \in Nat
  BY <1>1, Within
<1>3. x \in Node /\ x.op = "od" /\ x.head = n /\ ast' = Append(ast, x)
  BY <1>2 DEF Node, Ops, CompileOd, Record, Body
<1>4. Top.kind = "loop" /\ Promised(Top) = {Top.after}
  BY DEF CompileOd, Promised
<1>5. /\ code' = c /\ insert' = Top.after
      /\ bodies' = SubSeq(bodies, 1, Len(bodies) - 1)
  BY DEF CompileOd, Build, Enter, Emit, Builder, Fn, Extended
<1> HIDE DEF x
<1>6. /\ Fitted(ast', r, code) /\ Len(ast') = Here /\ ast'[Here] = x /\ Here \in DOMAIN ast'
      /\ ast' \in Seq(Node)
      /\ Open(Top) => Reaches(ast', Ends(r, code, insert), Here)
  BY <1>1, <1>3, RecordLabelled
<1>7. t \in DOMAIN code /\ r[t] = Behind(n) /\ f \in DOMAIN code /\ r[f] = Past(n)
  <2>1. Role(Top, r, code)
    BY <1>2 DEF Labelled
  <2> QED
    BY <1>4, <2>1 DEF Role
<1>8. n \in 1 .. Len(ast) /\ Straight(ast, n)
  BY <1>2, <1>4 DEF Labelled, TapeInv
<1>9. n \in DOMAIN ast' /\ Straight(ast', n)
  <2>1. /\ DOMAIN ast = 1 .. Len(ast)
        /\ \A i : i \in DOMAIN ast' <=> i \in DOMAIN ast \/ i = Len(ast) + 1
        /\ \A i, m : Alternative(ast', i, m) <=>
             Alternative(ast, i, m) \/ (i = Len(ast) + 1 /\ x.op \in {"elsif", "else"} /\ x.head = m)
    BY <1>1, <1>3, Marks
  <2> QED
    BY <1>3, <1>8, <2>1 DEF Straight, Alternative
<1>10. /\ Fitted(ast', r, c) /\ DOMAIN c = DOMAIN code
       /\ \A b \in DOMAIN code : b # insert => c[b] = code[b]
       /\ \A m : Skips(r, c, m) => Skips(r, code, m) \/ m = n
  <2>1. CASE Ended(Top)
    <3>1. code[insert] \o <<>> = code[insert]
      <4>1. code[insert] \in Seq(Instr)
        BY <1>2
      <4> QED
        BY <4>1
    <3>2. c = code
      BY <1>2, <2>1, <3>1 DEF Extended, Repeat
    <3> QED
      BY <1>6, <3>2
  <2>2. CASE ~Ended(Top)
    <3> DEFINE in == Do(op, n)
    <3>1. c = Extended(code, insert, <<Do(op, n), CondBr(n, t, f)>>)
      BY <2>2 DEF Repeat
    <3>2. in.op = "step" /\ in.node = n /\ op \in {"init", "step"}
      BY DEF Do
    <3>3. Open(Top)
      BY <2>2 DEF Open
    <3> HIDE DEF op, t, f, c, n, in
    <3>4. FitsStep(ast', Ends(r, code, insert), in)
      BY <1>3, <1>6, <3>2, <3>3 DEF FitsStep
    <3>5. Fits(ast', r, Len(code), Ends(r, code, insert), in)
      BY <1>9, <3>2, <3>4 DEF Fits
    <3>6. Testing(ast', r, code, insert, c, n)
      BY <1>2, <1>6, <1>7, <1>9, <3>1, <3>2, <3>5, EmitTest DEF in
    <3> QED
      BY <3>6 DEF Testing
  <2> QED
    BY <2>1, <2>2
<1> HIDE DEF c
<1>11. x.op = IF Top.kind = "loop" THEN "od" ELSE "fi"
  BY <1>3, <1>4
<1> QED
  BY <1>1, <1>3, <1>4, <1>5, <1>10, <1>11, PopOpens

-----------------------------------------------------------------------------
(* What a place means once the tape is complete.                             *)

\* Statements on a tape.
Of(tape) == INSTANCE Statements WITH ast <- tape

\* The events that may come at a place.
Meaning(tape, l) ==
  CASE l.kind = "behind" -> Of(tape)!Arrive[l.node + 1]
    [] l.kind = "failed" -> Of(tape)!Otherwise(l.node)
    [] l.kind = "past"   -> Of(tape)!Arrive[Of(tape)!Close(l.node) + 1]
    [] OTHER             -> Of(tape)!Conditions(l.node)

LEMMA CloseIsThere ==
  ASSUME NEW tape, TapeInv(tape, <<>>), NEW n, NEW j, Closes(tape, j, n)
  PROVE  Of(tape)!Close(n) = j
<1>1. \A i : Closes(tape, i, n) => i = j
  BY DEF TapeInv
<1>2. \E i \in DOMAIN tape : tape[i].op \in {"fi", "od"} /\ tape[i].head = n
  BY DEF Closes
<1>3. Of(tape)!Close(n) \in DOMAIN tape /\ tape[Of(tape)!Close(n)].op \in {"fi", "od"} /\ tape[Of(tape)!Close(n)].head = n
  BY <1>2, Zenon DEF Of!Close
<1> QED
  BY <1>1, <1>3 DEF Closes

LEMMA AlternativesClose ==
  ASSUME NEW tape, TapeInv(tape, <<>>), NEW i, NEW n, Alternative(tape, i, n)
  PROVE  LET j == Of(tape)!Close(n) IN j \in DOMAIN tape /\ j > i /\ tape[j].op = "fi" /\ tape[j].head = n
<1>1. Finished(tape, i, n)
  BY DEF TapeInv
<1>2. PICK j \in DOMAIN tape : j > i /\ tape[j].op = "fi" /\ tape[j].head = n
  BY <1>1 DEF Finished
<1>3. Closes(tape, j, n)
  BY <1>2 DEF Closes
<1>4. Of(tape)!Close(n) = j
  BY <1>3, CloseIsThere
<1> QED
  BY <1>2, <1>4

-----------------------------------------------------------------------------
(* Arrive is defined by recursion; its equation holds on every finished tape *)
(* because an arrival refers to later nodes only.                            *)

Arrival(tape, f, i) ==
  IF i \notin DOMAIN tape THEN {Of(tape)!Leave(0)}
  ELSE CASE tape[i].op = "do"    -> {Of(tape)!Do("do", i)}
         [] tape[i].op \in {"return", "exit"} -> {Of(tape)!Leave(i)}
         [] tape[i].op = "if"    -> Of(tape)!Conditions(i)
         [] tape[i].op = "for"   -> {Of(tape)!Do("init", i)}
         [] tape[i].op = "od"    -> {Of(tape)!Do("step", tape[i].head)}
         [] tape[i].op = "fi"    -> f[i + 1]
         [] OTHER                -> f[Of(tape)!Close(tape[i].head)]

LEMMA ArrivalFromLater ==
  ASSUME NEW tape \in Seq(Node), TapeInv(tape, <<>>), NEW i \in Nat, NEW f, NEW g,
         \A j \in Nat : j > i => f[j] = g[j]
  PROVE  Arrival(tape, f, i) = Arrival(tape, g, i)
<1>1. CASE i \notin DOMAIN tape
  BY <1>1 DEF Arrival
<1>2. CASE i \in DOMAIN tape /\ tape[i].op = "fi"
  <2>1. i + 1 \in Nat /\ i + 1 > i
    OBVIOUS
  <2> QED
    BY <1>2, <2>1 DEF Arrival
<1>3. CASE i \in DOMAIN tape /\ tape[i].op \in {"elsif", "else"}
  <2> DEFINE j == Of(tape)!Close(tape[i].head)
  <2>1. Alternative(tape, i, tape[i].head)
    BY <1>3 DEF Alternative
  <2>2. j \in DOMAIN tape /\ j > i
    BY <2>1, AlternativesClose
  <2>3. j \in Nat
    BY <2>2
  <2>4. f[j] = g[j]
    BY <2>2, <2>3
  <2> QED
    BY <1>3, <2>4 DEF Arrival
<1>4. CASE i \in DOMAIN tape /\ tape[i].op \in {"do", "return", "exit", "if", "for", "od"}
  BY <1>4 DEF Arrival
<1>5. i \in DOMAIN tape => tape[i].op \in Ops
  <2>1. i \in DOMAIN tape => tape[i] \in Node
    OBVIOUS
  <2> QED
    BY <2>1 DEF Node
<1> QED
  BY <1>1, <1>2, <1>3, <1>4, <1>5 DEF Ops

\* f has the arrivals at the last k nodes and behind them.
Arrives(tape, f, k) ==
  f = [i \in Nat |-> f[i]] /\ \A i \in Nat : i + k > Len(tape) => f[i] = Arrival(tape, f, i)

LEMMA ArrivalsAgree ==
  ASSUME NEW tape \in Seq(Node), TapeInv(tape, <<>>), NEW k \in 0 .. Len(tape), NEW f, Arrives(tape, f, k)
  PROVE  \E g : Arrives(tape, g, k + 1)
<1> DEFINE m == Len(tape) - k
           v == Arrival(tape, f, m)
           g == [i \in Nat |-> IF i = m THEN v ELSE f[i]]
<1>1. m \in Nat /\ Len(tape) \in Nat /\ k \in Nat
  OBVIOUS
<1>2. \A i \in Nat : (i + k > Len(tape) <=> i > m) /\ (i + (k + 1) > Len(tape) <=> i >= m)
  BY <1>1
<1>3. \A i \in Nat : i > m => f[i] = Arrival(tape, f, i)
  BY <1>2 DEF Arrives
<1> HIDE DEF m
<1>4. g[m] = v /\ \A i \in Nat : i # m => g[i] = f[i]
  BY <1>1
<1>5. g = [i \in Nat |-> g[i]]
  OBVIOUS
<1> HIDE DEF g
<1>6. ASSUME NEW i \in Nat, i >= m PROVE g[i] = Arrival(tape, g, i)
  <2>1. \A j \in Nat : j > i => j # m
    BY <1>1, <1>6
  <2>2. \A j \in Nat : j > i => g[j] = f[j]
    BY <1>4, <2>1
  <2>3. Arrival(tape, g, i) = Arrival(tape, f, i)
    BY <2>2, ArrivalFromLater
  <2>4. CASE i = m
    BY <1>4, <2>3, <2>4
  <2>5. CASE i # m
    <3>1. i > m
      BY <1>1, <1>6, <2>5
    <3> QED
      BY <1>3, <1>4, <2>3, <2>5, <3>1
  <2> QED
    BY <2>4, <2>5
<1>7. Arrives(tape, g, k + 1)
  BY <1>2, <1>5, <1>6 DEF Arrives
<1> QED
  BY <1>7

LEMMA ArriveEquation ==
  ASSUME NEW tape \in Seq(Node), TapeInv(tape, <<>>)
  PROVE  \A i \in Nat : Of(tape)!Arrive[i] = Arrival(tape, Of(tape)!Arrive, i)
<1> DEFINE n == Len(tape) + 1
           fails == {k \in 0 .. n : ~\E f : Arrives(tape, f, k)}
<1>1. Len(tape) \in Nat /\ n \in Nat /\ DOMAIN tape = 1 .. Len(tape)
  OBVIOUS
<1>2. 0 \notin fails
  <2> DEFINE f == [i \in Nat |-> {Of(tape)!Leave(0)}]
  <2>1. \A i \in Nat : i + 0 > Len(tape) => i \notin DOMAIN tape
    BY <1>1
  <2>2. f = [i \in Nat |-> f[i]] /\ \A i \in Nat : f[i] = {Of(tape)!Leave(0)}
    OBVIOUS
  <2> HIDE DEF f
  <2>3. Arrives(tape, f, 0)
    BY <2>1, <2>2 DEF Arrives, Arrival
  <2> QED
    BY <2>3
<1>3. fails = {}
  <2> SUFFICES ASSUME fails # {} PROVE FALSE
    OBVIOUS
  <2>1. fails \subseteq Nat
    BY <1>1
  <2>2. PICK k \in fails : \A x \in fails : k <= x
    <3> HIDE DEF fails
    <3> QED
      BY <2>1, LeastNumber
  <2>3. k \in 0 .. n /\ k # 0
    BY <1>2
  <2>4. k - 1 \in 0 .. Len(tape) /\ k - 1 \in 0 .. n /\ ~(k <= k - 1) /\ (k - 1) + 1 = k
    BY <1>1, <2>3
  <2>5. k - 1 \notin fails
    BY <2>2, <2>4
  <2>6. PICK f : Arrives(tape, f, k - 1)
    BY <2>4, <2>5
  <2>7. \E g : Arrives(tape, g, (k - 1) + 1)
    BY <2>4, <2>6, ArrivalsAgree
  <2>8. \E g : Arrives(tape, g, k)
    BY <2>4, <2>7
  <2> QED
    BY <2>8
<1>4. PICK f : Arrives(tape, f, n)
  <2>1. n \in 0 .. n
    BY <1>1
  <2> QED
    BY <1>3, <2>1
<1>5. \A i \in Nat : f[i] = Arrival(tape, f, i)
  <2>1. \A i \in Nat : i + n > Len(tape)
    BY <1>1
  <2> QED
    BY <1>4, <2>1 DEF Arrives
<1>6. f = [i \in Nat |-> Arrival(tape, f, i)]
  BY <1>4, <1>5 DEF Arrives
<1> DEFINE A == Of(tape)!Arrive
<1>7. A = [i \in Nat |-> Arrival(tape, A, i)]
  <2>1. \E h : h = [i \in Nat |-> Arrival(tape, h, i)]
    BY <1>6
  <2> QED
    BY <2>1, Zenon DEF Of!Arrive, Arrival
<1> HIDE DEF A
<1>8. \A i \in Nat : A[i] = Arrival(tape, A, i)
  BY <1>7
<1> QED
  BY <1>8 DEF A

\* What may come at the nodes and behind the last one.
LEMMA ArriveAt ==
  ASSUME NEW tape \in Seq(Node), TapeInv(tape, <<>>), NEW i \in Nat
  PROVE  LET A == Of(tape)!Arrive IN
         /\ i \notin DOMAIN tape => A[i] = {Of(tape)!Leave(0)}
         /\ i \in DOMAIN tape =>
              /\ tape[i].op = "do" => A[i] = {Of(tape)!Do("do", i)}
              /\ tape[i].op \in Leaves => A[i] = {Of(tape)!Leave(i)}
              /\ tape[i].op = "if" => A[i] = Of(tape)!Conditions(i)
              /\ tape[i].op = "for" => A[i] = {Of(tape)!Do("init", i)}
              /\ tape[i].op = "od" => A[i] = {Of(tape)!Do("step", tape[i].head)}
              /\ tape[i].op = "fi" => A[i] = A[i + 1]
              /\ tape[i].op \in {"elsif", "else"} => A[i] = A[Of(tape)!Close(tape[i].head)]
<1> DEFINE A == Of(tape)!Arrive
<1>1. A[i] = Arrival(tape, A, i)
  BY ArriveEquation
<1> HIDE DEF A
<1>2. CASE i \notin DOMAIN tape
  BY <1>1, <1>2 DEF Arrival, A
<1>3. CASE i \in DOMAIN tape
  <2>1. tape[i].op \in Leaves => A[i] = {Of(tape)!Leave(i)}
    BY <1>1, <1>3 DEF Arrival, Leaves
  <2> QED BY <1>1, <1>3, <2>1 DEF Arrival, A
<1> QED
  BY <1>2, <1>3

\* Where control comes to the i-th node, the events of that node may come.
LEMMA ReachesMeans ==
  ASSUME NEW tape \in Seq(Node), TapeInv(tape, <<>>), NEW l \in Place, NEW i \in Nat, Reaches(tape, l, i)
  PROVE  Meaning(tape, l) = Of(tape)!Arrive[i]
<1>1. CASE l.kind = "behind" /\ i = l.node + 1
  BY <1>1 DEF Meaning
<1>2. CASE l.kind = "failed" /\ Alternative(tape, i - 1, l.node) /\ tape[i - 1].op = "else"
  <2> DEFINE next == {j \in DOMAIN tape : tape[j].op \in {"elsif", "else"} /\ tape[j].head = l.node}
             c == CHOOSE j \in next : TRUE
  <2>1. i - 1 \in next
    BY <1>2 DEF Alternative
  <2>2. c \in next
    BY <2>1
  <2>3. c = i - 1
    <3>1. Alternative(tape, c, l.node)
      BY <2>2 DEF Alternative
    <3> QED
      BY <1>2, <3>1 DEF TapeInv
  <2>4. next # {}
    BY <2>1
  <2>5. Of(tape)!Otherwise(l.node) = IF next = {} THEN Of(tape)!Arrive[Of(tape)!Close(l.node) + 1]
                                     ELSE IF tape[c].op = "elsif" THEN Of(tape)!Conditions(c)
                                          ELSE Of(tape)!Arrive[c + 1]
    BY DEF Of!Otherwise
  <2> HIDE DEF next, c
  <2>6. Of(tape)!Otherwise(l.node) = Of(tape)!Arrive[(i - 1) + 1]
    BY <1>2, <2>3, <2>4, <2>5
  <2>7. (i - 1) + 1 = i
    OBVIOUS
  <2> QED
    BY <1>2, <2>6, <2>7 DEF Meaning
<1>3. CASE l.kind = "past" /\ Closes(tape, i - 1, l.node)
  <2>1. Of(tape)!Close(l.node) = i - 1
    BY <1>3, CloseIsThere
  <2>2. (i - 1) + 1 = i
    OBVIOUS
  <2> QED
    BY <1>3, <2>1, <2>2 DEF Meaning
<1> QED
  BY <1>1, <1>2, <1>3 DEF Reaches

\* The condition at n is false and an `elsif` follows, or nothing.
LEMMA ElsifMeans ==
  ASSUME NEW tape, TapeInv(tape, <<>>), NEW n, NEW i, Alternative(tape, i, n), tape[i].op = "elsif"
  PROVE  Of(tape)!Otherwise(n) = Of(tape)!Conditions(i)
<1> DEFINE next == {j \in DOMAIN tape : tape[j].op \in {"elsif", "else"} /\ tape[j].head = n}
           c == CHOOSE j \in next : TRUE
<1>1. i \in next
  BY DEF Alternative
<1>2. c \in next
  BY <1>1
<1>3. c = i
  <2>1. Alternative(tape, c, n)
    BY <1>2 DEF Alternative
  <2> QED
    BY <2>1 DEF TapeInv
<1>4. next # {}
  BY <1>1
<1>5. Of(tape)!Otherwise(n) = IF next = {} THEN Of(tape)!Arrive[Of(tape)!Close(n) + 1]
                              ELSE IF tape[c].op = "elsif" THEN Of(tape)!Conditions(c)
                                   ELSE Of(tape)!Arrive[c + 1]
  BY DEF Of!Otherwise
<1> HIDE DEF next, c
<1> QED
  BY <1>3, <1>4, <1>5

LEMMA StraightMeans ==
  ASSUME NEW tape, NEW n, Straight(tape, n)
  PROVE  Of(tape)!Otherwise(n) = Of(tape)!Arrive[Of(tape)!Close(n) + 1]
<1> DEFINE next == {j \in DOMAIN tape : tape[j].op \in {"elsif", "else"} /\ tape[j].head = n}
<1>1. next = {}
  BY DEF Straight, Alternative
<1> QED
  BY <1>1 DEF Of!Otherwise

\* A branch out of the body of a condition leads where control was to go.
LEMMA JumpMeans ==
  ASSUME NEW tape \in Seq(Node), TapeInv(tape, <<>>), NEW i \in DOMAIN tape, tape[i].op \in {"elsif", "else", "fi"}
  PROVE  Of(tape)!Arrive[i] = Meaning(tape, Past(tape[i].head))
<1> DEFINE n == tape[i].head
           A == Of(tape)!Arrive
           j == Of(tape)!Close(n)
<1>1. i \in Nat
  OBVIOUS
<1>2. Meaning(tape, Past(n)) = A[j + 1]
  BY DEF Meaning, Past
<1>3. CASE tape[i].op = "fi"
  <2>1. Closes(tape, i, n)
    BY <1>3 DEF Closes
  <2>2. j = i
    BY <2>1, CloseIsThere
  <2>3. A[i] = A[i + 1]
    BY <1>1, <1>3, ArriveAt
  <2> QED
    BY <1>2, <2>2, <2>3
<1>4. CASE tape[i].op \in {"elsif", "else"}
  <2>1. Alternative(tape, i, n)
    BY <1>4 DEF Alternative
  <2>2. j \in DOMAIN tape /\ tape[j].op = "fi"
    BY <2>1, AlternativesClose
  <2>3. A[i] = A[j]
    BY <1>1, <1>4, ArriveAt
  <2>4. j \in Nat
    BY <2>2
  <2> HIDE DEF j, A
  <2>5. A[j] = A[j + 1]
    BY <2>2, <2>4, ArriveAt DEF A
  <2> QED
    BY <1>2, <2>3, <2>5 DEF j, A
<1> QED
  BY <1>3, <1>4

-----------------------------------------------------------------------------
(* The compiled function and a call of it.                                   *)

\* Every instruction fits; a function that does not end with a `return` or
\* `exit` has a return behind its last node.
CallFits(tape, r, c) ==
  \A b \in DOMAIN c : \A k \in DOMAIN c[b] :
    \/ Fits(tape, r, Len(c), Before(r, c, b, k), c[b][k])
    \/ c[b][k] = Ret(0) /\ Reaches(tape, Before(r, c, b, k), Len(tape) + 1)

Ready(r) ==
  /\ ~Compiling
  /\ ast \in Seq(Node) /\ ast # <<>> /\ TapeInv(ast, <<>>)
  /\ r \in Labels /\ r[1] = Behind(0)
  /\ code \in Seq(Seq(Instr)) /\ 1 \in DOMAIN code
  /\ CallFits(ast, r, code)
  /\ \A n : Skips(r, code, n) => Straight(ast, n)

LEMMA RetFits ==
  ASSUME NEW tape, NEW r, NEW c, Fitted(tape, r, c), NEW b \in DOMAIN c, At(tape, r, c, b)
  PROVE  LET d == Extended(c, b, <<Ret(0)>>) IN
         /\ CallFits(tape, r, d) /\ d \in Seq(Seq(Instr)) /\ DOMAIN d = DOMAIN c
         /\ \A n : Skips(r, d, n) => Skips(r, c, n)
<1> DEFINE in == Ret(0)
           d == Extended(c, b, <<in>>)
           m == Len(c[b])
<1>1. c \in Seq(Seq(Instr)) /\ CodeFits(tape, r, c) /\ c[b] \in Seq(Instr) /\ m \in Nat
  BY DEF Fitted
<1>2. in \in Instr /\ in.op = "leave"
  BY DEF Ret, Instr
<1>3. d = Extended(c, b, <<Ret(0)>>) /\ in = Ret(0)
  OBVIOUS
<1> HIDE DEF in
<1>4. /\ c[b] \o <<in>> \in Seq(Instr) /\ Len(c[b] \o <<in>>) = m + 1
      /\ \A k \in 1 .. m : (c[b] \o <<in>>)[k] = c[b][k]
      /\ (c[b] \o <<in>>)[m + 1] = in
  BY <1>1, <1>2
<1>5. /\ d \in Seq(Seq(Instr)) /\ DOMAIN d = DOMAIN c /\ d[b] = c[b] \o <<in>>
      /\ \A x \in DOMAIN c : x # b => d[x] = c[x]
  BY <1>1, <1>4 DEF Extended
<1>6. Len(d) = Len(c)
  BY <1>1, <1>5
<1> HIDE DEF d
<1>7. \A k \in DOMAIN d[b] : k \in 1 .. m \/ k = m + 1
  BY <1>1, <1>4, <1>5
<1>8. \A k \in 1 .. m + 1 : Before(r, d, b, k) = Before(r, c, b, k)
  <2> SUFFICES ASSUME NEW k \in 1 .. m + 1, k # 1 PROVE d[b][k - 1] = c[b][k - 1]
    BY DEF Before
  <2>1. k - 1 \in 1 .. m
    BY <1>1
  <2> QED
    BY <1>4, <1>5, <2>1
<1>9. m + 1 \in 1 .. m + 1 /\ \A k \in 1 .. m : k \in 1 .. m + 1 /\ k \in DOMAIN c[b]
  BY <1>1
<1>10. CallFits(tape, r, d)
  <2> SUFFICES ASSUME NEW x \in DOMAIN d, NEW k \in DOMAIN d[x]
               PROVE  \/ Fits(tape, r, Len(d), Before(r, d, x, k), d[x][k])
                      \/ d[x][k] = Ret(0) /\ Reaches(tape, Before(r, d, x, k), Len(tape) + 1)
    BY DEF CallFits
  <2>1. CASE x # b
    <3>1. d[x] = c[x] /\ Before(r, d, x, k) = Before(r, c, x, k) /\ x \in DOMAIN c
      BY <1>5, <2>1 DEF Before
    <3> QED
      BY <1>1, <1>6, <3>1 DEF CodeFits
  <2>2. CASE x = b /\ k \in 1 .. m
    <3>1. d[b][k] = c[b][k] /\ Before(r, d, b, k) = Before(r, c, b, k) /\ k \in DOMAIN c[b]
      BY <1>4, <1>5, <1>8, <1>9, <2>2
    <3> QED
      BY <1>1, <1>6, <2>2, <3>1 DEF CodeFits
  <2>3. CASE x = b /\ k = m + 1
    <3>1. d[b][k] = in /\ Before(r, d, b, k) = Ends(r, c, b)
      BY <1>4, <1>5, <1>8, <1>9, <2>3 DEF Ends
    <3> QED
      BY <1>3, <2>3, <3>1 DEF At
  <2> QED
    BY <1>7, <2>1, <2>2, <2>3
<1>11. ASSUME NEW n, Skips(r, d, n) PROVE Skips(r, c, n)
  <2>1. PICK x \in DOMAIN d : \E k \in DOMAIN d[x] :
          d[x][k].op = "test" /\ d[x][k].node = n /\ r[d[x][k].to[2]] = Past(n)
    BY <1>11 DEF Skips
  <2>2. PICK k \in DOMAIN d[x] : d[x][k].op = "test" /\ d[x][k].node = n /\ r[d[x][k].to[2]] = Past(n)
    BY <2>1
  <2>3. x \in DOMAIN c /\ k \in DOMAIN c[x] /\ d[x][k] = c[x][k]
    <3>1. CASE x # b
      BY <1>5, <3>1
    <3>2. CASE x = b
      <4>1. k # m + 1
        BY <1>2, <1>4, <1>5, <2>2, <3>2
      <4> QED
        BY <1>4, <1>5, <1>7, <1>9, <3>2, <4>1
    <3> QED
      BY <3>1, <3>2
  <2> QED
    BY <2>2, <2>3 DEF Skips
<1> QED
  BY <1>3, <1>5, <1>10, <1>11

\* A statement has been compiled in every body that says so.
Stated == \A k \in DOMAIN bodies : bodies[k].some => ast # <<>>

LEMMA EndLabels ==
  ASSUME IInv, LastInv, Entered, Stated, NEW r, Labelled(r), CompileEnd
  PROVE  Ready(r)'
<1> DEFINE d == Extended(code, insert, <<Ret(0)>>)
<1>1. InCompilation /\ ast \in Seq(Node)
  BY DEF IInv, CompileEnd, Compiling, Done
<1>2. /\ bodies \in Seq(Body) /\ Len(bodies) \in DOMAIN bodies /\ Top = bodies[Len(bodies)]
      /\ insert \in DOMAIN code /\ 1 \in DOMAIN code /\ code \in Seq(Seq(Instr))
      /\ \A k \in DOMAIN bodies : k = 1 <=> bodies[k].kind = "function"
  BY <1>1, Within
<1>3. Top.kind = "function" /\ Top.some
  BY DEF CompileEnd, MayClose
<1>4. \A k \in DOMAIN bodies : bodies[k].kind = "function"
  <2>1. Len(bodies) = 1
    BY <1>2, <1>3
  <2>2. DOMAIN bodies = 1 .. Len(bodies)
    BY <1>2
  <2>3. \A k \in DOMAIN bodies : k = 1
    BY <2>1, <2>2
  <2> QED
    BY <1>2, <2>3
<1>5. TapeInv(ast, <<>>)
  <2>1. TapeInv(ast, bodies)
    BY DEF Labelled
  <2>2. \A i, n : Alternative(ast, i, n) => Finished(ast, i, n)
    BY <1>4, <2>1 DEF TapeInv
  <2> QED
    BY <2>1, <2>2 DEF TapeInv
<1>6. ast # <<>>
  BY <1>2, <1>3 DEF Stated
<1>7. Fitted(ast, r, code) /\ At(ast, r, code, insert)
  <2>1. ~Ended(Top) => At(ast, r, code, insert)
    BY DEF Labelled, Open
  <2>2. ASSUME Ended(Top) PROVE At(ast, r, code, insert)
    <3> DEFINE m == Len(code[insert])
    <3>1. /\ code[insert] # <<>> /\ code[insert][m] = Ret(Len(ast))
      BY <1>1, <1>3, <2>2 DEF LastInv, JustLeft, Ended, InCompilation
    <3>2. m \in Nat /\ m > 0
      BY <1>2, <3>1
    <3> HIDE DEF m
    <3>3. Before(r, code, insert, m + 1) = After(Ret(Len(ast)))
      <4>1. m + 1 # 1 /\ (m + 1) - 1 = m
        BY <3>2
      <4> QED BY <3>1, <4>1 DEF Before
    <3>4. Ends(r, code, insert) = Behind(Len(ast))
      BY <3>3 DEF Ends, After, Ret, Behind, m
    <3> QED BY <3>4 DEF At, Reaches, Behind
  <2>3. Fitted(ast, r, code)
    BY DEF Labelled
  <2> QED BY <2>1, <2>2, <2>3
<1>8. r \in Labels /\ r[1] = Behind(0) /\ CodeFits(ast, r, code) /\ \A n : Skips(r, code, n) => Straight(ast, n)
  BY <1>7 DEF Fitted
<1>9. insert' = 0 /\ ast' = ast /\ code' = IF EndedAsTyped THEN Extended(code, insert, <<>>) ELSE d
  BY DEF CompileEnd, Emit, Builder, Fn, Extended
<1> HIDE DEF d
<1>10. /\ code' \in Seq(Seq(Instr)) /\ DOMAIN code' = DOMAIN code
       /\ CallFits(ast, r, code')
       /\ \A n : Skips(r, code', n) => Skips(r, code, n)
  <2>1. CASE EndedAsTyped
    <3>1. code[insert] \o <<>> = code[insert]
      <4>1. code[insert] \in Seq(Instr)
        BY <1>2
      <4> QED
        BY <4>1
    <3>2. code' = code
      BY <1>2, <1>9, <2>1, <3>1 DEF Extended
    <3>3. CallFits(ast, r, code)
      BY <1>8 DEF CallFits, CodeFits
    <3> QED
      BY <1>2, <3>2, <3>3
  <2>2. CASE ~EndedAsTyped
    <3>1. /\ CallFits(ast, r, d) /\ d \in Seq(Seq(Instr)) /\ DOMAIN d = DOMAIN code
          /\ \A n : Skips(r, d, n) => Skips(r, code, n)
      BY <1>2, <1>7, <2>2, RetFits DEF d
    <3> QED
      BY <1>9, <2>2, <3>1
  <2> QED
    BY <2>1, <2>2
<1> QED
  BY <1>1, <1>2, <1>5, <1>6, <1>8, <1>9, <1>10 DEF Ready, Compiling

-----------------------------------------------------------------------------
(* What an instruction does may come at its place, and the next place is     *)
(* where control goes then.                                                  *)

LEMMA DoMeans ==
  ASSUME NEW tape \in Seq(Node), TapeInv(tape, <<>>), NEW r, NEW n, NEW l \in Place, NEW in,
         Fits(tape, r, n, l, in), in.op \in {"do", "init", "step"}
  PROVE  LET e == Of(tape)!Do(in.op, in.node) IN
         e \in Meaning(tape, l) /\ Meaning(tape, After(in)) = Of(tape)!Follows(e)
<1> DEFINE e == Of(tape)!Do(in.op, in.node)
<1>1. Meaning(tape, After(in)) = Of(tape)!Follows(e)
  BY DEF Meaning, After, Of!Follows, Of!Do
<1>2. ASSUME in.op \in {"do", "init"} PROVE e \in Meaning(tape, l)
  <2>1. in.node \in DOMAIN tape /\ Reaches(tape, l, in.node) /\ tape[in.node].op = IF in.op = "do" THEN "do" ELSE "for"
    BY <1>2 DEF Fits, FitsNode
  <2>2. in.node \in Nat
    BY <2>1
  <2>3. Meaning(tape, l) = Of(tape)!Arrive[in.node]
    BY <2>1, <2>2, ReachesMeans
  <2>4. Of(tape)!Arrive[in.node] = {e}
    BY <1>2, <2>1, <2>2, ArriveAt
  <2> QED
    BY <2>3, <2>4
<1>3. ASSUME in.op = "step" PROVE e \in Meaning(tape, l)
  <2>1. PICK i \in DOMAIN tape : Reaches(tape, l, i) /\ tape[i].op = "od" /\ tape[i].head = in.node
    BY <1>3 DEF Fits, FitsStep
  <2>2. i \in Nat
    BY <2>1
  <2>3. Meaning(tape, l) = Of(tape)!Arrive[i]
    BY <2>1, <2>2, ReachesMeans
  <2>4. Of(tape)!Arrive[i] = {e}
    BY <1>3, <2>1, <2>2, ArriveAt
  <2> QED
    BY <2>3, <2>4
<1>4. e \in Meaning(tape, l)
  BY <1>2, <1>3
<1> HIDE DEF e
<1> QED
  BY <1>1, <1>4 DEF e

LEMMA LeaveMeans ==
  ASSUME NEW tape \in Seq(Node), TapeInv(tape, <<>>), NEW l \in Place, NEW i \in Nat, Reaches(tape, l, i)
  PROVE  /\ i \in DOMAIN tape /\ tape[i].op \in Leaves => Of(tape)!Leave(i) \in Meaning(tape, l)
         /\ i = Len(tape) + 1 => Of(tape)!Leave(0) \in Meaning(tape, l)
<1>1. Meaning(tape, l) = Of(tape)!Arrive[i]
  BY ReachesMeans
<1>2. i = Len(tape) + 1 => i \notin DOMAIN tape
  OBVIOUS
<1> QED
  BY <1>1, <1>2, ArriveAt

\* The condition at in.node comes at the place l; both ways lead to where
\* control goes, also if the condition is false and nothing follows it.
LEMMA TestMeans ==
  ASSUME NEW tape \in Seq(Node), TapeInv(tape, <<>>), NEW r, NEW n, NEW l \in Place, NEW in,
         Fits(tape, r, n, l, in), in.op = "test",
         r[in.to[2]] = Past(in.node) => Straight(tape, in.node), NEW c \in BOOLEAN
  PROVE  LET e == Of(tape)!Test(in.node, c)
             t == in.to[IF c THEN 1 ELSE 2]
         IN e \in Meaning(tape, l) /\ t \in 1 .. n /\ Meaning(tape, r[t]) = Of(tape)!Follows(e)
<1> DEFINE m == in.node
           e == Of(tape)!Test(m, c)
<1>1. m \in DOMAIN tape /\ FitsTest(tape, r, n, l, in)
  BY DEF Fits
<1>2. m \in Nat
  BY <1>1
<1>3. e \in Of(tape)!Conditions(m)
  BY DEF Of!Conditions
<1>4. Meaning(tape, l) = Of(tape)!Conditions(m)
  <2>1. CASE l = Tested(m)
    BY <2>1 DEF Tested, Meaning
  <2>2. CASE Reaches(tape, l, m) /\ tape[m].op = "if"
    <3>1. Meaning(tape, l) = Of(tape)!Arrive[m]
      BY <1>2, <2>2, ReachesMeans
    <3> QED
      BY <1>1, <1>2, <2>2, <3>1, ArriveAt
  <2>3. CASE l.kind = "failed" /\ Alternative(tape, m, l.node) /\ tape[m].op = "elsif"
    <3>1. Of(tape)!Otherwise(l.node) = Of(tape)!Conditions(m)
      BY <2>3, ElsifMeans
    <3> QED
      BY <2>3, <3>1 DEF Meaning
  <2> QED
    BY <1>1, <2>1, <2>2, <2>3 DEF FitsTest
<1>5. PICK t, f \in 1 .. n : in.to = <<t, f>> /\ r[t] = Behind(m) /\ (r[f] = Failed(m) \/ r[f] = Past(m))
  BY <1>1 DEF FitsTest
<1>6. in.to[1] = t /\ in.to[2] = f
  BY <1>5
<1>7. Of(tape)!Follows(e) = IF c THEN Of(tape)!Arrive[m + 1] ELSE Of(tape)!Otherwise(m)
  BY DEF Of!Follows, Of!Test
<1>8. Meaning(tape, Behind(m)) = Of(tape)!Arrive[m + 1]
  BY DEF Meaning, Behind
<1>9. Meaning(tape, Failed(m)) = Of(tape)!Otherwise(m)
  BY DEF Meaning, Failed
<1>10. Straight(tape, m) => Meaning(tape, Past(m)) = Of(tape)!Otherwise(m)
  <2>1. Meaning(tape, Past(m)) = Of(tape)!Arrive[Of(tape)!Close(m) + 1]
    BY DEF Meaning, Past
  <2> QED
    BY <2>1, StraightMeans
<1>11. Meaning(tape, r[f]) = Of(tape)!Otherwise(m)
  BY <1>5, <1>6, <1>9, <1>10
<1>12. e \in Meaning(tape, l)
  BY <1>3, <1>4
<1> HIDE DEF e
<1> QED
  BY <1>5, <1>6, <1>7, <1>8, <1>11, <1>12 DEF e

LEMMA BranchMeans ==
  ASSUME NEW tape \in Seq(Node), TapeInv(tape, <<>>), NEW r, NEW n, NEW l \in Place, NEW in,
         Fits(tape, r, n, l, in), in.op = "br"
  PROVE  in.to[1] \in 1 .. n /\ Meaning(tape, r[in.to[1]]) = Meaning(tape, l)
<1>1. FitsJump(tape, r, n, l, in)
  BY DEF Fits
<1>2. PICK i \in DOMAIN tape : /\ Reaches(tape, l, i) /\ tape[i].op \in {"elsif", "else", "fi"}
                               /\ \E t \in 1 .. n : in.to = <<t>> /\ r[t] = Past(tape[i].head)
  BY <1>1 DEF FitsJump
<1>3. PICK t \in 1 .. n : in.to = <<t>> /\ r[t] = Past(tape[i].head)
  BY <1>2
<1>4. i \in Nat /\ in.to[1] = t
  BY <1>2, <1>3
<1>5. Meaning(tape, l) = Of(tape)!Arrive[i]
  BY <1>2, <1>4, ReachesMeans
<1>6. Of(tape)!Arrive[i] = Meaning(tape, Past(tape[i].head))
  BY <1>2, JumpMeans
<1> QED
  BY <1>3, <1>4, <1>5, <1>6

-----------------------------------------------------------------------------
(* A call runs from place to place.                                          *)

\* The next instruction stands where what the call did last leads to.
CallAt(r) ==
  ip # NoWhere => /\ ip[1] \in DOMAIN code /\ ip[2] \in 1 .. Len(code[ip[1]]) + 1
                  /\ Meaning(ast, Before(r, code, ip[1], ip[2])) = Of(ast)!Follows(last)

\* The call is at the begin of the block b.
LEMMA CallEnters ==
  ASSUME NEW r, Ready(r), NEW b \in 1 .. Len(code), ip' = <<b, 1>>, UNCHANGED gen,
         Meaning(ast, r[b]) = Of(ast)!Follows(last')
  PROVE  CallAt(r)'
<1>1. ip'[1] = b /\ ip'[2] = 1
  OBVIOUS
<1>2. code \in Seq(Seq(Instr)) /\ b \in DOMAIN code
  BY DEF Ready
<1>3. code[b] \in Seq(Instr)
  BY <1>2
<1>4. 1 \in 1 .. Len(code[b]) + 1
  BY <1>3
<1>5. Before(r, code, b, 1) = r[b]
  BY DEF Before
<1>6. ast' = ast /\ code' = code
  BY DEF gen
<1>7. ip'[1] \in DOMAIN code /\ ip'[2] \in 1 .. Len(code[ip'[1]]) + 1
      /\ Meaning(ast, Before(r, code, ip'[1], ip'[2])) = Of(ast)!Follows(last')
  BY <1>1, <1>2, <1>4, <1>5
<1> QED
  BY <1>6, <1>7 DEF CallAt

\* The instruction that is fetched, and its place.
Place0(r) == Before(r, code, ip[1], ip[2])

LEMMA Fetched ==
  ASSUME NEW r, Ready(r), CallAt(r), NEW op, Fetches(op)
  PROVE  /\ ip[1] \in DOMAIN code /\ ip[2] \in DOMAIN code[ip[1]] /\ Instruction.op = op
         /\ Place0(r) \in Place /\ Meaning(ast, Place0(r)) = Of(ast)!Follows(last)
         /\ \/ Fits(ast, r, Len(code), Place0(r), Instruction)
            \/ Instruction = Ret(0) /\ Reaches(ast, Place0(r), Len(ast) + 1)
<1>1. ip[1] \in DOMAIN code /\ ip[2] \in DOMAIN code[ip[1]] /\ Instruction.op = op
  BY DEF Fetches, CallAt, Instruction
<1>2. Meaning(ast, Place0(r)) = Of(ast)!Follows(last)
  BY DEF Fetches, CallAt, Place0
<1>3. Place0(r) \in Place
  <2>1. ip[2] \in 1 .. Len(code[ip[1]]) + 1
    BY DEF Fetches, CallAt
  <2> QED
    BY <1>1, <2>1, PlacesOfCode DEF Ready, Place0
<1>4. \/ Fits(ast, r, Len(code), Place0(r), Instruction)
      \/ Instruction = Ret(0) /\ Reaches(ast, Place0(r), Len(ast) + 1)
  BY <1>1 DEF Ready, CallFits, Place0, Instruction
<1> QED
  BY <1>1, <1>2, <1>3, <1>4

\* An event may come next, as far as the statements go.
Performs == last' \in Of(ast)!Follows(last)

LEMMA PerformMeans ==
  ASSUME NEW r, Ready(r), CallAt(r), Perform, UNCHANGED gen
  PROVE  CallAt(r)' /\ Performs
<1> DEFINE b == ip[1]
           k == ip[2]
           in == Instruction
<1>1. PICK op \in {"do", "init", "step"} : Fetches(op) /\ last' = Source!Do(op, in.node) /\ ip' = <<b, k + 1>>
  BY DEF Perform
<1>2. /\ b \in DOMAIN code /\ k \in DOMAIN code[b] /\ in.op = op
      /\ Place0(r) \in Place /\ Meaning(ast, Place0(r)) = Of(ast)!Follows(last)
      /\ \/ Fits(ast, r, Len(code), Place0(r), in)
         \/ in = Ret(0) /\ Reaches(ast, Place0(r), Len(ast) + 1)
  BY <1>1, Fetched
<1>3. Fits(ast, r, Len(code), Place0(r), in)
  BY <1>1, <1>2 DEF Ret
<1>4. ast \in Seq(Node) /\ TapeInv(ast, <<>>) /\ code \in Seq(Seq(Instr))
  BY DEF Ready
<1>5. in.op \in {"do", "init", "step"} /\ last' = Of(ast)!Do(in.op, in.node)
  BY <1>1, <1>2 DEF Source!Do, Of!Do
<1>6. last' \in Meaning(ast, Place0(r)) /\ Meaning(ast, After(in)) = Of(ast)!Follows(last')
  <2> HIDE DEF in
  <2> QED
    BY <1>2, <1>3, <1>4, <1>5, DoMeans
<1>7. in = code[b][k]
  BY DEF Instruction
<1> HIDE DEF b, k, in
<1>8. k \in Nat /\ k + 1 \in 1 .. Len(code[b]) + 1 /\ (k + 1) - 1 = k /\ k + 1 # 1
  <2>1. code[b] \in Seq(Instr)
    BY <1>2, <1>4
  <2> QED
    BY <1>2, <2>1
<1>9. Before(r, code, b, k + 1) = After(in)
  BY <1>7, <1>8 DEF Before
<1>10. ip'[1] = b /\ ip'[2] = k + 1
  BY <1>1
<1>11. ip'[1] \in DOMAIN code /\ ip'[2] \in 1 .. Len(code[ip'[1]]) + 1
       /\ Meaning(ast, Before(r, code, ip'[1], ip'[2])) = Of(ast)!Follows(last')
  BY <1>2, <1>6, <1>8, <1>9, <1>10
<1>12. ast' = ast /\ code' = code
  BY DEF gen
<1>13. CallAt(r)'
  BY <1>11, <1>12 DEF CallAt
<1> QED
  BY <1>2, <1>6, <1>13 DEF Performs

LEMMA DecideMeans ==
  ASSUME NEW r, Ready(r), CallAt(r), NEW c \in BOOLEAN, Decide(c), UNCHANGED gen
  PROVE  CallAt(r)' /\ Performs
<1> DEFINE in == Instruction
           t == in.to[IF c THEN 1 ELSE 2]
<1>1. Fetches("test") /\ last' = Source!Test(in.node, c) /\ ip' = <<t, 1>>
  BY DEF Decide
<1>2. /\ ip[1] \in DOMAIN code /\ ip[2] \in DOMAIN code[ip[1]] /\ in.op = "test"
      /\ Place0(r) \in Place /\ Meaning(ast, Place0(r)) = Of(ast)!Follows(last)
      /\ \/ Fits(ast, r, Len(code), Place0(r), in)
         \/ in = Ret(0) /\ Reaches(ast, Place0(r), Len(ast) + 1)
  BY <1>1, Fetched
<1>3. Fits(ast, r, Len(code), Place0(r), in)
  BY <1>2 DEF Ret
<1>4. ast \in Seq(Node) /\ TapeInv(ast, <<>>)
  BY DEF Ready
<1>5. r[in.to[2]] = Past(in.node) => Straight(ast, in.node)
  <2>1. \A n : Skips(r, code, n) => Straight(ast, n)
    BY DEF Ready
  <2>2. r[in.to[2]] = Past(in.node) => Skips(r, code, in.node)
    BY <1>2 DEF Skips, Instruction
  <2> QED
    BY <2>1, <2>2
<1>6. last' = Of(ast)!Test(in.node, c)
  BY <1>1 DEF Source!Test, Of!Test
<1>7. last' \in Meaning(ast, Place0(r)) /\ t \in 1 .. Len(code) /\ Meaning(ast, r[t]) = Of(ast)!Follows(last')
  <2> HIDE DEF in
  <2> QED
    BY <1>2, <1>3, <1>4, <1>5, <1>6, TestMeans
<1> HIDE DEF t
<1>8. CallAt(r)'
  BY <1>1, <1>7, CallEnters
<1> QED
  BY <1>2, <1>7, <1>8 DEF Performs

LEMMA ReturnMeans ==
  ASSUME NEW r, Ready(r), CallAt(r), Return
  PROVE  CallAt(r)' /\ Performs
<1> DEFINE in == Instruction
<1>1. Fetches("leave") /\ last' = Source!Leave(in.node) /\ ip' = NoWhere
  BY DEF Return
<1>2. /\ in.op = "leave"
      /\ Place0(r) \in Place /\ Meaning(ast, Place0(r)) = Of(ast)!Follows(last)
      /\ \/ Fits(ast, r, Len(code), Place0(r), in)
         \/ in = Ret(0) /\ Reaches(ast, Place0(r), Len(ast) + 1)
  BY <1>1, Fetched
<1>3. ast \in Seq(Node) /\ TapeInv(ast, <<>>)
  BY DEF Ready
<1>4. last' = Of(ast)!Leave(in.node)
  BY <1>1 DEF Source!Leave, Of!Leave
<1>5. CASE Fits(ast, r, Len(code), Place0(r), in)
  <2>1. in.node \in DOMAIN ast /\ Reaches(ast, Place0(r), in.node) /\ ast[in.node].op \in Leaves
    BY <1>2, <1>5 DEF Fits, FitsNode
  <2>2. in.node \in Nat
    BY <1>3, <2>1
  <2>3. Of(ast)!Leave(in.node) \in Meaning(ast, Place0(r))
    <3> HIDE DEF in
    <3> QED
      BY <1>2, <1>3, <2>1, <2>2, LeaveMeans
  <2> QED
    BY <1>1, <1>2, <1>4, <2>3 DEF CallAt, Performs
<1>6. CASE in = Ret(0) /\ Reaches(ast, Place0(r), Len(ast) + 1)
  <2>1. in.node = 0 /\ Len(ast) + 1 \in Nat
    BY <1>3, <1>6 DEF Ret
  <2>2. Of(ast)!Leave(0) \in Meaning(ast, Place0(r))
    BY <1>2, <1>3, <1>6, <2>1, LeaveMeans
  <2> QED
    BY <1>1, <1>2, <1>4, <2>1, <2>2 DEF CallAt, Performs
<1> QED
  BY <1>2, <1>5, <1>6

LEMMA BranchKeeps ==
  ASSUME NEW r, Ready(r), CallAt(r), Branch, UNCHANGED gen
  PROVE  CallAt(r)'
<1> DEFINE in == Instruction
           t == in.to[1]
<1>1. Fetches("br") /\ last' = last /\ ip' = <<t, 1>>
  BY DEF Branch
<1>2. /\ in.op = "br"
      /\ Place0(r) \in Place /\ Meaning(ast, Place0(r)) = Of(ast)!Follows(last)
      /\ \/ Fits(ast, r, Len(code), Place0(r), in)
         \/ in = Ret(0) /\ Reaches(ast, Place0(r), Len(ast) + 1)
  BY <1>1, Fetched
<1>3. Fits(ast, r, Len(code), Place0(r), in)
  BY <1>2 DEF Ret
<1>4. ast \in Seq(Node) /\ TapeInv(ast, <<>>)
  BY DEF Ready
<1>5. t \in 1 .. Len(code) /\ Meaning(ast, r[t]) = Meaning(ast, Place0(r))
  <2> HIDE DEF in
  <2> QED
    BY <1>2, <1>3, <1>4, BranchMeans
<1> HIDE DEF t
<1>6. Meaning(ast, r[t]) = Of(ast)!Follows(last')
  BY <1>1, <1>2, <1>5
<1> QED
  BY <1>1, <1>5, <1>6, CallEnters

-----------------------------------------------------------------------------
(* The invariant.                                                            *)

\* While the function is compiled its blocks are labelled and the call waits;
\* then the call is at a place.
LabelInv ==
  \/ /\ Compiling /\ Entered /\ Stated
     /\ ip = <<1, 1>> /\ last = Source!Begin
     /\ \E r : Labelled(r)
  \/ \E r : Ready(r) /\ CallAt(r)

LEMMA InitLabels ==
  ASSUME Init
  PROVE  LabelInv
<1> DEFINE r == [b \in Nat |-> Behind(0)]
           body == NewBody("function", 0, FALSE, 0, 0)
<1>1. ast = <<>> /\ code = << <<>> >> /\ bodies = <<body>> /\ insert = 1
  BY DEF Init
<1>2. body.kind = "function" /\ body.node = 0 /\ ~body.some
  BY DEF NewBody
<1> HIDE DEF body
<1>3. \A k \in DOMAIN bodies : k = 1 /\ bodies[k] = body
  BY <1>1
<1>4. DOMAIN code = {1} /\ code[1] = <<>> /\ DOMAIN code[1] = {} /\ Len(code[1]) = 0 /\ DOMAIN ast = {} /\ Len(ast) = 0
  BY <1>1
<1>5. r \in Labels /\ r[1] = Behind(0)
  BY DEF Labels, Place, Behind
<1> HIDE DEF r
<1>6. CodeFits(ast, r, code) /\ \A n : ~Skips(r, code, n)
  BY <1>4 DEF CodeFits, Skips
<1>7. ast \in Seq(Node) /\ code \in Seq(Seq(Instr))
  BY <1>1
<1>8. Fitted(ast, r, code)
  BY <1>5, <1>6, <1>7 DEF Fitted
<1>9. \A k \in DOMAIN bodies : Role(bodies[k], r, code)
  BY <1>2, <1>3 DEF Role
<1>10. At(ast, r, code, insert)
  <2>1. Ends(r, code, insert) = Behind(0)
    BY <1>1, <1>4, <1>5 DEF Ends, Before
  <2>2. Reaches(ast, Behind(0), Len(ast) + 1)
    BY <1>4 DEF Reaches, Behind
  <2> QED
    BY <2>1, <2>2 DEF At
<1>11. TapeInv(ast, bodies)
  BY <1>2, <1>3, <1>4 DEF TapeInv, Closes, Alternative
<1>12. Labelled(r)
  BY <1>8, <1>9, <1>10, <1>11 DEF Labelled
<1>13. Stated
  BY <1>2, <1>3 DEF Stated
<1>14. list = <<1>> /\ ip = <<1, 1>> /\ last = Source!Begin
  BY DEF Init
<1>15. Entered
  BY <1>14 DEF Entered
<1>16. Compiling
  BY <1>1 DEF Compiling
<1> QED
  BY <1>12, <1>13, <1>14, <1>15, <1>16 DEF LabelInv

\* A statement is on the tape, and blocks are attached behind the others.
Grows ==
  /\ \E x : ast' = Append(ast, x)
  /\ \/ list' = list
     \/ \E b : list' = Append(list, b)
     \/ \E b, d : list' = Append(Append(list, b), d)

LEMMA GrowsKeeps ==
  ASSUME Grows, Entered, ast \in Seq(Node), list \in Seq(Nat)
  PROVE  (Entered /\ Stated)'
<1>1. ast' # <<>>
  BY DEF Grows
<1>2. Stated'
  BY <1>1 DEF Stated
<1>3. ASSUME NEW S, NEW l \in Seq(S), NEW b \in S, 1 \in DOMAIN l, l[1] = 1
      PROVE  LET m == Append(l, b) IN m \in Seq(S) /\ 1 \in DOMAIN m /\ m[1] = 1
  BY <1>3
<1>4. ASSUME NEW b, NEW d, list' = Append(Append(list, b), d)
      PROVE  1 \in DOMAIN list' /\ list'[1] = 1
  <2> DEFINE S == Nat \cup {b, d}
             m == Append(list, b)
  <2>1. list \in Seq(S) /\ b \in S /\ d \in S
    OBVIOUS
  <2> HIDE DEF S
  <2>2. m \in Seq(S) /\ 1 \in DOMAIN m /\ m[1] = 1
    BY <1>3, <2>1 DEF Entered
  <2> HIDE DEF m
  <2>3. 1 \in DOMAIN Append(m, d) /\ Append(m, d)[1] = 1
    BY <1>3, <2>1, <2>2
  <2> QED
    BY <1>4, <2>3 DEF m
<1>5. ASSUME NEW b, list' = Append(list, b)
      PROVE  1 \in DOMAIN list' /\ list'[1] = 1
  <2> DEFINE S == Nat \cup {b}
  <2>1. list \in Seq(S) /\ b \in S
    OBVIOUS
  <2> HIDE DEF S
  <2> QED
    BY <1>3, <1>5, <2>1 DEF Entered
<1>6. 1 \in DOMAIN list' /\ list'[1] = 1
  BY <1>4, <1>5 DEF Grows, Entered
<1> QED
  BY <1>2, <1>6 DEF Entered

LEMMA CompileGrows ==
  ASSUME Compile
  PROVE  Grows \/ CompileEnd
<1>1. CASE CompileSimple
  BY <1>1 DEF CompileSimple, Record, Build, Emit, Builder, Fn, Grows
<1>2. ASSUME NEW op \in Leaves, CompileLeave(op) PROVE Grows
  BY <1>2 DEF CompileLeave, Record, Build, Emit, Builder, Fn, Grows
<1>3. ASSUME NEW more \in BOOLEAN, CompileIf(more) PROVE Grows
  BY <1>3 DEF CompileIf, Record, Build, Conditional, Enter, Emit, Create, Builder, Fn, Grows
<1>4. ASSUME NEW more \in BOOLEAN, CompileElsif(more) PROVE Grows
  BY <1>4 DEF CompileElsif, Record, Build, Conditional, EnterElse, Enter, Emit, Create, Builder, Fn, Grows
<1>5. CASE CompileElse
  BY <1>5 DEF CompileElse, Record, Build, EnterElse, Enter, Emit, Builder, Fn, Grows
<1>6. CASE CompileFi
  BY <1>6 DEF CompileFi, Record, Build, Enter, Emit, Builder, Fn, Grows
<1>7. CASE CompileFor
  BY <1>7 DEF CompileFor, Record, Build, Enter, Emit, Create, Builder, Fn, Grows
<1>8. CASE CompileOd
  BY <1>8 DEF CompileOd, Record, Build, Enter, Emit, Builder, Fn, Grows
<1> QED
  BY <1>1, <1>2, <1>3, <1>4, <1>5, <1>6, <1>7, <1>8 DEF Compile, Leaves

LEMMA CompileLabels ==
  ASSUME IInv, LastInv, LabelInv, Compile, UNCHANGED <<ip, last>>
  PROVE  LabelInv'
<1>1. Compiling
  BY DEF Compile, CompileSimple, CompileLeave, CompileIf, CompileElsif, CompileElse, CompileFi,
         CompileFor, CompileOd, CompileEnd, TakesStatements, ThenWithMore
<1>2. Entered /\ Stated /\ ip = <<1, 1>> /\ last = Source!Begin /\ \E r : Labelled(r)
  BY <1>1 DEF LabelInv, Ready
<1>3. PICK r : Labelled(r)
  BY <1>2
<1>4. CASE CompileEnd
  <2>1. Ready(r)'
    BY <1>2, <1>3, <1>4, EndLabels
  <2>2. ip' = <<1, 1>> /\ last' = Source!Begin'
    BY <1>2 DEF Source!Begin
  <2>3. CallAt(r)'
    <3>1. ip'[1] = 1 /\ ip'[2] = 1
      BY <2>2
    <3>2. code'[1] \in Seq(Instr) /\ 1 \in DOMAIN code'
      BY <2>1 DEF Ready
    <3>3. 1 \in 1 .. Len(code'[1]) + 1
      BY <3>2
    <3>4. Before(r, code', 1, 1) = Behind(0)
      BY <2>1 DEF Before, Ready
    <3>5. Meaning(ast, Behind(0)) = Of(ast)!Arrive[0 + 1]
      BY DEF Meaning, Behind
    <3>6. Of(ast)!Follows(last') = Of(ast)!Arrive[0 + 1]
      BY <2>2 DEF Of!Follows, Source!Begin
    <3>7. ast' = ast
      BY <1>4 DEF CompileEnd
    <3> QED
      BY <3>1, <3>2, <3>3, <3>4, <3>5, <3>6, <3>7 DEF CallAt
  <2> QED
    BY <2>1, <2>3 DEF LabelInv
<1>5. CASE Compile /\ ~CompileEnd
  <2>1. (\E q : Labelled(q))' /\ Compiling'
    <3>1. CASE CompileSimple
      BY <1>2, <1>3, <3>1, SimpleLabels, SimpleKeeps DEF InCompilation
    <3>2. ASSUME NEW op \in {"return", "exit"}, CompileLeave(op) PROVE (\E q : Labelled(q))' /\ Compiling'
      BY <1>2, <1>3, <3>2, LeaveLabels, LeaveKeeps DEF InCompilation, Leaves
    <3>3. ASSUME NEW more \in BOOLEAN, CompileIf(more) PROVE (\E q : Labelled(q))' /\ Compiling'
      BY <1>2, <1>3, <3>3, IfLabels, IfKeeps DEF InCompilation
    <3>4. ASSUME NEW more \in BOOLEAN, CompileElsif(more) PROVE (\E q : Labelled(q))' /\ Compiling'
      BY <1>2, <1>3, <3>4, ElsifLabels, ElsifKeeps DEF InCompilation
    <3>5. CASE CompileElse
      BY <1>2, <1>3, <3>5, ElseLabels, ElseKeeps DEF InCompilation
    <3>6. CASE CompileFi
      BY <1>2, <1>3, <3>6, FiLabels, FiKeeps DEF InCompilation
    <3>7. CASE CompileFor
      BY <1>2, <1>3, <3>7, ForLabels, ForKeeps DEF InCompilation
    <3>8. CASE CompileOd
      BY <1>2, <1>3, <3>8, OdLabels, OdKeeps DEF InCompilation
    <3> QED
      BY <1>5, <3>1, <3>2, <3>3, <3>4, <3>5, <3>6, <3>7, <3>8 DEF Compile
  <2>2. ast \in Seq(Node) /\ list \in Seq(Nat)
    <3>1. ast \in Seq(Node) /\ InCompilation
      BY <1>1 DEF IInv, Done, Compiling
    <3>2. code \in Seq(Seq(Instr)) /\ list \in Seq(DOMAIN code)
      BY <3>1 DEF InCompilation, BlockInv, Builder, Fn
    <3> QED
      BY <3>1, <3>2
  <2>3. (Entered /\ Stated)'
    BY <1>2, <1>5, <2>2, CompileGrows, GrowsKeeps
  <2>4. ip' = <<1, 1>> /\ last' = Source!Begin'
    BY <1>2 DEF Source!Begin
  <2> QED
    BY <2>1, <2>3, <2>4 DEF LabelInv
<1> QED
  BY <1>4, <1>5

LEMMA RunLabels ==
  ASSUME LabelInv, Run, UNCHANGED gen
  PROVE  LabelInv' /\ (Performs \/ UNCHANGED last)
<1>1. ~Compiling
  BY DEF Run, Perform, Branch, Return, Decide, Fetches
<1>2. PICK r : Ready(r) /\ CallAt(r)
  BY <1>1 DEF LabelInv
<1>3. Ready(r)'
  BY <1>2 DEF gen, Ready, Compiling
<1>4. CallAt(r)' /\ (Performs \/ UNCHANGED last)
  <2>1. CASE Perform
    BY <1>2, <2>1, PerformMeans
  <2>2. CASE Branch
    <3>1. last' = last
      BY <2>2 DEF Branch
    <3> QED
      BY <1>2, <2>2, <3>1, BranchKeeps
  <2>3. CASE Return
    BY <1>2, <2>3, ReturnMeans
  <2>4. ASSUME NEW c \in BOOLEAN, Decide(c) PROVE CallAt(r)' /\ Performs
    BY <1>2, <2>4, DecideMeans
  <2> QED
    BY <2>1, <2>2, <2>3, <2>4 DEF Run
<1> QED
  BY <1>3, <1>4 DEF LabelInv

-----------------------------------------------------------------------------
(* The theorems.                                                             *)

\* The labelling is there in every state of every function's compilation and call.
THEOREM LabelInvariance == Spec => []LabelInv
<1>1. Init => LabelInv
  BY InitLabels
<1>2. IInv /\ LastInv /\ LabelInv /\ [Next]_vars => LabelInv'
  <2> SUFFICES ASSUME IInv, LastInv, LabelInv, [Next]_vars PROVE LabelInv'
    OBVIOUS
  <2>1. CASE Compile /\ UNCHANGED <<ip, last>>
    BY <2>1, CompileLabels
  <2>2. CASE Run /\ UNCHANGED gen
    BY <2>2, RunLabels
  <2>3. CASE UNCHANGED vars
    BY <2>3 DEF vars, LabelInv, Compiling, Entered, Stated, Source!Begin, Labelled, Top, Ready, CallAt
  <2> QED
    BY <2>1, <2>2, <2>3 DEF Next
<1> QED
  BY <1>1, <1>2, LastInvariance, PTL DEF Spec

\* What Statements sees of the function's tape.
Tape == IF insert = 0 THEN ast ELSE <<>>

LEMMA SameFollows ==
  ASSUME NEW e
  PROVE  Source!Follows(e) = Of(Tape)!Follows(e)
  BY Zenon DEF Source!Follows, Of!Follows, Source!Otherwise, Of!Otherwise, Source!Arrive, Of!Arrive,
               Source!Close, Of!Close, Source!Conditions, Of!Conditions, Source!Test, Of!Test,
               Source!Leave, Of!Leave, Source!Do, Of!Do, Tape

\* The blocks of every function perform its statements, whatever its size and
\* nesting: the steps of ControlFlow implement those of Statements.
THEOREM BlocksPerform == Spec => PerformsStatements
<1>1. Init => Source!Init
  BY DEF Init, Source!Init
<1>2. IInv /\ LastInv /\ LabelInv /\ [Next]_vars => [Source!Next]_(Source!vars)
  <2> SUFFICES ASSUME IInv, LastInv, LabelInv, [Next]_vars PROVE [Source!Next]_(Source!vars)
    OBVIOUS
  <2>1. CASE Compile /\ UNCHANGED <<ip, last>>
    <3>1. Compiling
      BY <2>1 DEF Compile, CompileSimple, CompileLeave, CompileIf, CompileElsif, CompileElse, CompileFi,
                  CompileFor, CompileOd, CompileEnd, TakesStatements, ThenWithMore
    <3>2. Tape = <<>>
      BY <3>1 DEF Compiling, Tape
    <3>3. LabelInv'
      BY <2>1, CompileLabels
    <3>4. CASE Compiling'
      BY <2>1, <3>2, <3>4 DEF Compiling, Tape, Source!vars
    <3>5. CASE ~Compiling'
      <4>1. ast' # <<>>
        BY <3>3, <3>5 DEF LabelInv, Ready
      <4>2. Tape' # <<>>
        BY <3>5, <4>1 DEF Compiling, Tape
      <4> QED
        BY <2>1, <3>2, <4>2 DEF Source!Next, Source!Load, Tape
    <3> QED
      BY <3>4, <3>5
  <2>2. CASE Run /\ UNCHANGED gen
    <3>1. ~Compiling
      BY <2>2 DEF Run, Perform, Branch, Return, Decide, Fetches
    <3>2. Tape = ast /\ Tape' = Tape /\ ast # <<>>
      BY <2>2, <3>1 DEF gen, LabelInv, Ready, Compiling, Tape
    <3>3. Performs \/ UNCHANGED last
      BY <2>2, RunLabels
    <3>4. Source!Follows(last) = Of(ast)!Follows(last)
      BY <3>2, SameFollows
    <3>5. CASE Performs
      BY <3>2, <3>4, <3>5 DEF Performs, Source!Next, Source!Execute, Tape
    <3>6. CASE UNCHANGED last
      BY <3>2, <3>6 DEF Source!vars, Tape
    <3> QED
      BY <3>3, <3>5, <3>6
  <2>3. CASE UNCHANGED vars
    BY <2>3 DEF vars, Source!vars
  <2> QED
    BY <2>1, <2>2, <2>3 DEF Next
<1> QED
  BY <1>1, <1>2, LastInvariance, LabelInvariance, PTL DEF Spec, PerformsStatements
=============================================================================
