------------------------------- MODULE Counting -------------------------------
(***************************************************************************)
(* Facts about the size of the sets of requests that the invariants count:  *)
(* one step moves one request, so such a set gains or loses one member.     *)
(***************************************************************************)
EXTENDS Integers, FiniteSets, FiniteSetTheorems, TLAPS

(* One for a member, nothing for the others. *)
One(p, S) == IF p \in S THEN 1 ELSE 0

(* A part of a finite set has a size, no larger than the whole. *)
LEMMA PartSize ==
    ASSUME NEW U, IsFiniteSet(U), NEW S \in SUBSET U
    PROVE  /\ IsFiniteSet(S)
           /\ Cardinality(S) \in Nat
           /\ Cardinality(U) \in Nat
           /\ Cardinality(S) <= Cardinality(U)
BY FS_Subset, FS_CardinalityType

(* A member that is left out leaves room for itself. *)
LEMMA PartWithout ==
    ASSUME NEW U, IsFiniteSet(U), NEW p \in U, NEW S \in SUBSET (U \ {p})
    PROVE  /\ Cardinality(S) \in Nat
           /\ Cardinality(S) + 1 <= Cardinality(U)
<1>1. IsFiniteSet(U \ {p}) /\ Cardinality(U \ {p}) = Cardinality(U) - 1
  BY FS_RemoveElement
<1>2. Cardinality(U) \in Nat /\ Cardinality(S) \in Nat /\ Cardinality(S) <= Cardinality(U \ {p})
  BY <1>1, PartSize, FS_CardinalityType
<1>3. QED BY <1>1, <1>2

(* Two sets that agree but for one element differ in size by that one. *)
LEMMA OneApart ==
    ASSUME NEW S, NEW T, NEW p, IsFiniteSet(S), S \ {p} = T \ {p}
    PROVE  /\ IsFiniteSet(T)
           /\ Cardinality(S) \in Nat
           /\ Cardinality(T) \in Nat
           /\ Cardinality(T) - One(p, T) = Cardinality(S) - One(p, S)
<1>1. IsFiniteSet(S \ {p})
  BY FS_RemoveElement
<1>2. IsFiniteSet(T)
  <2>1. IsFiniteSet((T \ {p}) \cup {p})
    BY <1>1, FS_AddElement
  <2>2. T \in SUBSET ((T \ {p}) \cup {p})
    OBVIOUS
  <2>3. QED BY <2>1, <2>2, FS_Subset
<1>3. /\ Cardinality(S) \in Nat /\ Cardinality(T) \in Nat
      /\ Cardinality(S \ {p}) = Cardinality(S) - One(p, S)
      /\ Cardinality(T \ {p}) = Cardinality(T) - One(p, T)
  BY <1>2, FS_CardinalityType, FS_RemoveElement DEF One
<1>4. QED BY <1>2, <1>3

(* A nonempty set of naturals has a least member. *)
LEMMA LeastMember ==
    ASSUME NEW S \in SUBSET Nat, S # {}
    PROVE  \E n \in S : \A m \in S : n <= m
<1> DEFINE Below == {0..n : n \in S}
<1>1. /\ Below # {}
      /\ Below \subseteq FiniteSubsetsOf(Nat)
  <2>1. ASSUME NEW n \in S
        PROVE  IsFiniteSet(0..n) /\ 0..n \in SUBSET Nat
    <3>1. 0 \in Int /\ n \in Int
      OBVIOUS
    <3>2. QED BY <3>1, FS_Interval
  <2>2. QED BY <2>1 DEF FiniteSubsetsOf
<1>2. PICK A \in Below : \A B \in Below : <<B, A>> \notin StrictSubsetOrdering(Nat)
  <2> HIDE DEF Below
  <2>1. IsWellFoundedOn(StrictSubsetOrdering(Nat), FiniteSubsetsOf(Nat))
    BY FS_StrictSubsetOrderingWellFounded
  <2>2. QED BY <1>1, <2>1, WFMin
<1>3. PICK n \in S : A = 0..n
  OBVIOUS
<1>4. ASSUME NEW m \in S, ~ (n <= m)
      PROVE  FALSE
  <2>1. m \in Nat /\ n \in Nat /\ m < n
    BY <1>4
  <2>2. 0..m \in Below /\ 0..m \subseteq 0..n /\ 0..m # 0..n
    BY <2>1
  <2>3. <<0..m, 0..n>> \in StrictSubsetOrdering(Nat)
    BY <2>2 DEF StrictSubsetOrdering
  <2>4. QED BY <1>2, <1>3, <2>2, <2>3
<1>5. QED BY <1>4

(* A set of naturals between 1 and n has n members at most. *)
LEMMA SizeUpTo ==
    ASSUME NEW n \in Nat, NEW S \in SUBSET (1..n)
    PROVE  /\ IsFiniteSet(S)
           /\ Cardinality(S) \in 0..n
<1>1. IsFiniteSet(1..n) /\ Cardinality(1..n) = n
  <2>1. 1 \in Int /\ n \in Int
    OBVIOUS
  <2>2. IsFiniteSet(1..n) /\ Cardinality(1..n) = IF 1 > n THEN 0 ELSE n - 1 + 1
    BY <2>1, FS_Interval
  <2>3. QED BY <2>2
<1>2. IsFiniteSet(S) /\ Cardinality(S) \in Nat /\ Cardinality(S) <= Cardinality(1..n)
  <2> DEFINE U == 1..n
  <2>1. IsFiniteSet(U) /\ S \in SUBSET U
    BY <1>1
  <2> HIDE DEF U
  <2>2. IsFiniteSet(S) /\ Cardinality(S) \in Nat /\ Cardinality(S) <= Cardinality(U)
    BY <2>1, PartSize
  <2>3. QED BY <2>2 DEF U
<1>3. QED BY <1>1, <1>2

(* A set that gains a new member grows by one. *)
LEMMA SizeWith ==
    ASSUME NEW S, IsFiniteSet(S), NEW p, p \notin S
    PROVE  /\ IsFiniteSet(S \cup {p})
           /\ Cardinality(S) \in Nat
           /\ Cardinality(S \cup {p}) = Cardinality(S) + 1
BY FS_AddElement, FS_CardinalityType

(* A set that loses a member shrinks by one. *)
LEMMA SizeLess ==
    ASSUME NEW S, IsFiniteSet(S), NEW p \in S
    PROVE  /\ IsFiniteSet(S \ {p})
           /\ Cardinality(S) \in Nat
           /\ Cardinality(S \ {p}) = Cardinality(S) - 1
BY FS_RemoveElement, FS_CardinalityType

(* A set that an element joins grows by one at most. *)
LEMMA SizeJoined ==
    ASSUME NEW S, IsFiniteSet(S), NEW p
    PROVE  /\ IsFiniteSet(S \cup {p})
           /\ Cardinality(S) \in Nat /\ Cardinality(S \cup {p}) \in Nat
           /\ Cardinality(S) <= Cardinality(S \cup {p})
           /\ Cardinality(S \cup {p}) <= Cardinality(S) + 1
<1>1. CASE p \in S
  <2>1. S \cup {p} = S
    BY <1>1
  <2>2. Cardinality(S) \in Nat /\ Cardinality(S) <= Cardinality(S) + 1
    BY FS_CardinalityType
  <2>3. QED BY <2>1, <2>2
<1>2. CASE p \notin S
  BY <1>2, SizeWith
<1>3. QED BY <1>1, <1>2
===============================================================================
