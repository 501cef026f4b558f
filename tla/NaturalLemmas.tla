----------------------------- MODULE NaturalLemmas -----------------------------
(***************************************************************************)
(* Facts about natural numbers the proofs share: least and greatest        *)
(* elements, and induction, stated of sets.                                *)
(***************************************************************************)
EXTENDS Integers, WellFoundedInduction, TLAPS

(* A non-empty set of naturals has a least element. *)
LEMMA LeastElement ==
    ASSUME NEW T \in SUBSET Nat, T # {}
    PROVE  \E x \in T : \A y \in T : x <= y
<1>1. \E x \in T : \A y \in T : ~ (<<y, x>> \in OpToRel(<, Nat))
    BY WFMin, NatLessThanWellFounded, Zenon
<1>2. PICK x \in T : \A y \in T : ~ (<<y, x>> \in OpToRel(<, Nat))
    BY <1>1
<1>3. \A y \in T : ~ (y < x)
    BY <1>2 DEF OpToRel
<1> QED BY <1>3

(* A bounded one has a greatest. *)
LEMMA GreatestElement ==
    ASSUME NEW n \in Nat, NEW T \in SUBSET (1 .. n), T # {}
    PROVE  \E x \in T : \A y \in T : y <= x
<1> DEFINE U == {u \in Nat : n - u \in T}
<1>1. PICK t \in T : TRUE
    OBVIOUS
<1>2. n - t \in U
    BY <1>1
<1>3. PICK u \in U : \A v \in U : u <= v
    BY <1>2, LeastElement
<1>4. \A y \in T : n - y \in U
    OBVIOUS
<1>5. \A y \in T : u <= n - y
    BY <1>3, <1>4
<1>6. n - u \in T /\ u \in Nat
    BY <1>3
<1> QED BY <1>5, <1>6

(* What holds of 0 and of the successor of each number it holds of. *)
LEMMA Induction ==
    ASSUME NEW T \in SUBSET Nat, 0 \in T, \A n \in T : n + 1 \in T
    PROVE  T = Nat
<1> DEFINE Left == Nat \ T
<1>1. SUFFICES ASSUME Left # {} PROVE FALSE
    OBVIOUS
<1>2. PICK x \in Left : \A y \in Left : x <= y
    BY <1>1, LeastElement
<1>3. x - 1 \in Nat /\ x - 1 \notin Left
    BY <1>2
<1> QED BY <1>2, <1>3
=============================================================================
