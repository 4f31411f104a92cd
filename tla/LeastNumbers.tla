---------------------------- MODULE LeastNumbers ----------------------------
(* Induction without an operator parameter: a set of natural numbers that    *)
(* has a member has a least one.  A statement about every number is proved   *)
(* from the least counterexample, and CHOOSE, Min and Max of a set of        *)
(* numbers find what they are to find.                                       *)
EXTENDS Integers, FiniteSetsExt, WellFoundedInduction, TLAPS

LEMMA LeastNumber ==
  ASSUME NEW T, T \subseteq Nat, T # {}
  PROVE  \E m \in T : \A k \in T : m <= k
<1> DEFINE R == OpToRel(<, Nat)
<1>1. IsWellFoundedOn(R, Nat)
  BY NatLessThanWellFounded
<1>2. \A m, k \in Nat : k < m => <<k, m>> \in R
  BY DEF OpToRel
<1> HIDE DEF R
<1>3. PICK m \in T : \A k \in T : ~(<<k, m>> \in R)
  BY <1>1, WFMin
<1>4. ASSUME NEW k \in T PROVE m <= k
  <2>1. ~(<<k, m>> \in R) /\ k \in Nat /\ m \in Nat
    BY <1>3
  <2>2. ~(k < m)
    BY <1>2, <2>1
  <2> QED
    BY <2>1, <2>2
<1> QED
  BY <1>4

LEMMA MinIsLeast ==
  ASSUME NEW T, T \subseteq Nat, T # {}
  PROVE  Min(T) \in T /\ \A k \in T : Min(T) <= k
BY LeastNumber DEF Min

LEMMA MaxIsGreatest ==
  ASSUME NEW b \in Nat, NEW T, T \subseteq 0 .. b, T # {}
  PROVE  Max(T) \in T /\ \A k \in T : k <= Max(T)
<1> DEFINE U == {u \in 0 .. b : b - u \in T}
<1>1. \A t \in T : b - t \in U
  <2> SUFFICES ASSUME NEW t \in T PROVE b - t \in U
    OBVIOUS
  <2>1. t \in 0 .. b /\ b - t \in 0 .. b /\ b - (b - t) = t
    OBVIOUS
  <2> QED
    BY <2>1
<1>2. U \subseteq Nat /\ U # {}
  <2>1. PICK t : t \in T
    OBVIOUS
  <2>2. b - t \in U
    BY <1>1, <2>1
  <2> QED
    BY <2>2
<1>3. PICK u \in U : \A k \in U : u <= k
  <2> HIDE DEF U
  <2> QED
    BY <1>2, LeastNumber
<1>4. \A t \in T : t <= b - u
  <2> SUFFICES ASSUME NEW t \in T PROVE t <= b - u
    OBVIOUS
  <2>1. t \in 0 .. b /\ u \in 0 .. b /\ u <= b - t
    BY <1>1, <1>3
  <2> QED
    BY <2>1
<1>5. \E m \in T : \A k \in T : m >= k
  <2>1. b - u \in T /\ b - u \in Nat
    BY <1>3
  <2>2. \A k \in T : b - u >= k
    BY <1>4, <2>1
  <2> QED
    BY <2>1, <2>2
<1>6. Max(T) \in T /\ \A k \in T : Max(T) >= k
  BY <1>5, Zenon DEF Max
<1> QED
  BY <1>6
=============================================================================
