------------------------------ MODULE Counting ------------------------------
(***************************************************************************)
(* Induction for proofs: a statement about numbers, as the set of numbers  *)
(* that it is true of.                                                     *)
(***************************************************************************)
EXTENDS Integers, WellFoundedInduction, TLAPS

(* What holds of 0, and of n + 1 whenever it holds of n, holds up to K.    *)
LEMMA CountTo ==
    ASSUME NEW K \in Nat, NEW I, 0 \in I,
           \A n \in 0..(K - 1) : n \in I => n + 1 \in I
    PROVE  0..K \subseteq I
<1> SUFFICES ASSUME (0..K) \ I # {}
             PROVE  FALSE
    OBVIOUS
<1> DEFINE Less == {ss \in Nat \X Nat : ss[1] < ss[2]}
<1>1. IsWellFoundedOn(Less, Nat)
    BY NatLessThanWellFounded DEF OpToRel
<1>2. \A j, n \in Nat : j < n => <<j, n>> \in Less
    OBVIOUS
<1> HIDE DEF Less
<1>3. \E x \in (0..K) \ I : \A y \in (0..K) \ I : ~(<<y, x>> \in Less)
  <2>1. (0..K) \ I \subseteq Nat
    OBVIOUS
  <2> QED
    BY <1>1, <2>1, WFMin
<1>4. PICK x \in (0..K) \ I : \A y \in (0..K) \ I : ~(<<y, x>> \in Less)
    BY <1>3
<1>5. x \in 1..K
    OBVIOUS
<1>6. x - 1 \in Nat /\ x - 1 \in 0..(K - 1) /\ x - 1 < x
    BY <1>5
<1>7. x - 1 \in I
  <2>1. <<x - 1, x>> \in Less
    BY <1>2, <1>5, <1>6
  <2>2. x - 1 \in 0..K
    BY <1>5
  <2> QED
    BY <1>4, <2>1, <2>2
<1>8. (x - 1) + 1 \in I
    BY <1>6, <1>7
<1> QED
    BY <1>5, <1>8

(* A set of numbers has a least one.                                       *)
LEMMA Least ==
    ASSUME NEW S \in SUBSET Nat, S # {}
    PROVE  \E x \in S : \A y \in S : x <= y
<1> DEFINE Less == {ss \in Nat \X Nat : ss[1] < ss[2]}
<1>1. IsWellFoundedOn(Less, Nat)
    BY NatLessThanWellFounded DEF OpToRel
<1>2. \A j, n \in Nat : j < n => <<j, n>> \in Less
    OBVIOUS
<1> HIDE DEF Less
<1>3. PICK x \in S : \A y \in S : ~(<<y, x>> \in Less)
    BY <1>1, WFMin
<1>4. ASSUME NEW y \in S
      PROVE  x <= y
  <2>1. ~(y < x) /\ x \in Nat /\ y \in Nat
    BY <1>2, <1>3
  <2> QED
    BY <2>1
<1> QED
    BY <1>4

(* And, if none is greater than K, a greatest one.                         *)
LEMMA Greatest ==
    ASSUME NEW K \in Nat, NEW S \in SUBSET (0..K), S # {}
    PROVE  \E x \in S : \A y \in S : y <= x
<1> DEFINE T == {K - x : x \in S}
<1>1. T \in SUBSET Nat /\ T # {}
  <2>1. \A x \in S : K - x \in Nat
    OBVIOUS
  <2> QED
    BY <2>1
<1> HIDE DEF T
<1>2. PICK z \in T : \A y \in T : z <= y
    BY <1>1, Least
<1>3. PICK x \in S : z = K - x
    BY DEF T
<1>4. ASSUME NEW y \in S
      PROVE  y <= x
  <2>1. K - y \in T
    BY DEF T
  <2>2. z <= K - y /\ x \in Int /\ y \in Int
    BY <1>2, <2>1
  <2> QED
    BY <2>2, <1>3
<1> QED
    BY <1>4
=============================================================================
