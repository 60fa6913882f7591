---------------------------- MODULE LeastNumbers ----------------------------
(***************************************************************************)
(* Every set of numbers has a least one, and a bounded one a greatest: what *)
(* proofs about a CHOOSE of an index, and inductions over a length, need.   *)
(***************************************************************************)
EXTENDS Naturals, WellFoundedInduction, TLAPS

LEMMA LeastNumber ==
    ASSUME NEW S, S \subseteq Nat, S # {}
    PROVE  \E m \in S : \A k \in S : m <= k
<1>1. PICK R : R = OpToRel(<, Nat)
  OBVIOUS
<1>2. PICK m \in S : \A k \in S : ~(<<k, m>> \in R)
  BY <1>1, NatLessThanWellFounded, WFMin
<1>3. \A k \in Nat : k < m => <<k, m>> \in R
  BY <1>1 DEF OpToRel
<1>4. \A k \in S : m \in Nat /\ k \in Nat /\ ~(k < m)
  BY <1>2, <1>3
<1>5. \A k \in S : m <= k
  BY <1>4
<1> QED
  BY <1>5

LEMMA GreatestIndex ==
    ASSUME NEW n \in Nat, NEW S, S \subseteq 1 .. n, S # {}
    PROVE  \E m \in S : \A k \in S : k <= m
<1>1. PICK T : T = {b \in Nat : \A k \in S : k <= b}
  OBVIOUS
<1>2. n \in T /\ T \subseteq Nat
  BY <1>1
<1>3. PICK b \in T : \A c \in T : b <= c
  BY <1>2, LeastNumber
<1>4. ASSUME b \notin S PROVE FALSE
  <2>1. b \in Nat /\ \A k \in S : k \in Nat /\ k > 0 /\ k < b
    BY <1>1, <1>4
  <2>2. PICK k \in S : k \in Nat /\ k > 0 /\ k < b
    BY <2>1
  <2>3. PICK c \in Nat : b = c + 1
    BY <2>1, <2>2
  <2>4. \A i \in S : i <= c
    BY <2>1, <2>3
  <2> QED
    BY <1>1, <1>3, <2>3, <2>4
<1>5. \A k \in S : k <= b
  BY <1>1
<1> QED
  BY <1>4, <1>5
=============================================================================
