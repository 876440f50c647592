----------------------------- MODULE OrderLemmas ----------------------------
(***************************************************************************)
(* Least and greatest elements, by the well-foundedness of < on Nat.  They *)
(* take the place of induction where a proof needs that a CHOOSE of an     *)
(* extreme element finds one.                                              *)
(***************************************************************************)
EXTENDS Naturals, WellFoundedInduction, TLAPS

\* A non-empty set of naturals has a least element.
LEMMA LeastNatural ==
    ASSUME NEW T \in SUBSET Nat, T # {}
    PROVE  \E x \in T : \A y \in T : x <= y
<1> DEFINE R == {p \in Nat \X Nat : p[1] < p[2]}
<1>1. IsWellFoundedOn(R, Nat)
  BY NatLessThanWellFounded DEF OpToRel
<1> HIDE DEF R
<1>2. PICK x \in T : \A y \in T : ~(<<y, x>> \in R)
  BY <1>1, WFMin
<1> USE DEF R
<1>3. \A y \in T : x <= y
  <2> TAKE y \in T
  <2>1. x \in Nat /\ y \in Nat
    OBVIOUS
  <2>2. <<y, x>> \in Nat \X Nat
    BY <2>1
  <2>3. ~(y < x)
    BY <1>2, <2>2, <2>1
  <2> QED
    BY <2>1, <2>3
<1>4. QED
  BY <1>3

\* A bounded weight has a greatest value on every non-empty set.
LEMMA Heaviest ==
    ASSUME NEW N \in Nat, NEW S, S # {}, NEW f, \A s \in S : f[s] \in 1..N
    PROVE  \E s \in S : \A t \in S : f[t] <= f[s]
<1> DEFINE T == {N - f[s] : s \in S}
<1>1. T \in SUBSET Nat /\ T # {}
  OBVIOUS
<1>2. PICK x \in T : \A y \in T : x <= y
  BY <1>1, LeastNatural
<1>3. PICK s \in S : x = N - f[s]
  BY <1>2
<1>4. \A t \in S : N - f[s] <= N - f[t]
  BY <1>2, <1>3
<1>5. QED
  BY <1>4

\* A bounded non-empty set of naturals has a greatest element.
LEMMA GreatestNatural ==
    ASSUME NEW N \in Nat, NEW S \in SUBSET (1..N), S # {}
    PROVE  \E s \in S : \A t \in S : t <= s
<1> DEFINE f == [s \in S |-> s]
<1>1. \E s \in S : \A t \in S : f[t] <= f[s]
  BY Heaviest
<1>2. QED
  BY <1>1
=============================================================================
