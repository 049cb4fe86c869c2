--------------------------- MODULE EvictionLemmas ---------------------------
(***************************************************************************)
(* What a loop leaves that removes the least entry of a table until at     *)
(* most cap are left, for any finite table and any strict total order on   *)
(* its entries: at most cap entries, exactly cap if it removed one, and    *)
(* every entry that went is below every one that stayed.  The certificate  *)
(* cache and the overlay's session table both evict this way, and the      *)
(* ranking of profiles takes the entry at one place of such an order.      *)
(***************************************************************************)
EXTENDS Integers, FiniteSets, FiniteSetTheorems, WellFoundedInduction, TLAPS

\* R, a set of pairs, is a strict total order on G.
StrictOrder(R, G) ==
  /\ \A x \in G : <<x, x>> \notin R
  /\ \A x, y \in G : x # y => <<x, y>> \in R \/ <<y, x>> \in R
  /\ \A x, y, z \in G : <<x, y>> \in R /\ <<y, z>> \in R => <<x, z>> \in R

Above(R, G, x) == {y \in G : <<x, y>> \in R}

\* The cap greatest elements of G
Greatest(R, G, cap) == {x \in G : Cardinality(Above(R, G, x)) < cap}

\* Every set of natural numbers but the empty one has a least element.
LEMMA LeastNatural ==
  ASSUME NEW T, T \subseteq Nat, T # {}
  PROVE  \E m \in T : \A n \in T : m <= n
<1>1. PICK m \in T : \A n \in T : ~ (<<n, m>> \in OpToRel(<, Nat))
  BY WFMin, NatLessThanWellFounded, Zenon
<1>2. \A n \in T : ~ (n < m)
  BY <1>1 DEF OpToRel
<1> QED
  BY <1>2

\* The greater of two elements has the fewer elements above it.
LEMMA AboveShrinks ==
  ASSUME NEW R, NEW G, IsFiniteSet(G), StrictOrder(R, G),
         NEW x \in G, NEW y \in G, <<x, y>> \in R
  PROVE  /\ Cardinality(Above(R, G, x)) \in Nat
         /\ Cardinality(Above(R, G, y)) \in Nat
         /\ Cardinality(Above(R, G, y)) < Cardinality(Above(R, G, x))
<1>1. /\ IsFiniteSet(Above(R, G, x)) /\ Cardinality(Above(R, G, x)) \in Nat
      /\ IsFiniteSet(Above(R, G, y)) /\ Cardinality(Above(R, G, y)) \in Nat
  <2>1. Above(R, G, x) \subseteq G /\ Above(R, G, y) \subseteq G
    BY DEF Above
  <2> QED
    BY <2>1, FS_Subset, FS_CardinalityType
<1>2. Above(R, G, y) \cup {y} \subseteq Above(R, G, x)
  BY DEF Above, StrictOrder
<1>3. y \notin Above(R, G, y)
  BY DEF Above, StrictOrder
<1>4. Cardinality(Above(R, G, y) \cup {y}) = Cardinality(Above(R, G, y)) + 1
  BY <1>1, <1>3, FS_AddElement
<1>5. Cardinality(Above(R, G, y) \cup {y}) <= Cardinality(Above(R, G, x))
  BY <1>1, <1>2, FS_Subset
<1> QED
  BY <1>1, <1>4, <1>5

\* At most cap entries are left.
LEMMA GreatestAtMost ==
  ASSUME NEW R, NEW G, IsFiniteSet(G), StrictOrder(R, G), NEW cap \in Nat
  PROVE  IsFiniteSet(Greatest(R, G, cap)) /\ Cardinality(Greatest(R, G, cap)) <= cap
<1> DEFINE T == Greatest(R, G, cap)
           count(x) == Cardinality(Above(R, G, x))
<1>1. T \subseteq G /\ IsFiniteSet(T) /\ Cardinality(T) \in Nat
  <2>1. T \subseteq G
    BY DEF Greatest
  <2> QED
    BY <2>1, FS_Subset, FS_CardinalityType
<1>2. \A x \in G : IsFiniteSet(Above(R, G, x)) /\ count(x) \in Nat
  <2>1. \A x \in G : Above(R, G, x) \subseteq G
    BY DEF Above
  <2> QED
    BY <2>1, FS_Subset, FS_CardinalityType
<1>3. CASE T = {}
  BY <1>1, <1>3, FS_EmptySet
<1>4. CASE T # {}
  <2> DEFINE D == {cap - count(x) : x \in T}
  <2>1. D \subseteq Nat /\ D # {}
    BY <1>1, <1>2, <1>4 DEF Greatest
  <2>2. PICK x \in T : \A y \in T : cap - count(x) <= cap - count(y)
    <3>1. PICK m \in D : \A n \in D : m <= n
      BY <2>1, LeastNatural
    <3> QED
      BY <3>1
  <2>3. \A y \in T : count(y) <= count(x)
    BY <1>1, <1>2, <2>2
  <2>4. T \ {x} \subseteq Above(R, G, x)
    <3> SUFFICES ASSUME NEW y \in T, y # x PROVE <<x, y>> \in R
      BY <1>1 DEF Above
    <3>1. CASE <<y, x>> \in R
      <4>1. count(x) < count(y)
        BY <1>1, <3>1, AboveShrinks
      <4> QED
        BY <1>1, <1>2, <2>3, <4>1
    <3> QED
      BY <1>1, <3>1 DEF StrictOrder
  <2>5. Cardinality(T \ {x}) <= count(x)
    BY <1>1, <1>2, <2>4, FS_Subset
  <2>6. Cardinality(T \ {x}) = Cardinality(T) - 1
    BY <1>1, FS_RemoveElement
  <2>7. count(x) < cap
    BY DEF Greatest
  <2> QED
    BY <1>1, <1>2, <2>5, <2>6, <2>7
<1> QED
  BY <1>3, <1>4

\* If an entry went, the greatest of those that went has exactly the cap that
\* are left above it.
LEMMA GreatestGone ==
  ASSUME NEW R, NEW G, IsFiniteSet(G), StrictOrder(R, G), NEW cap \in Nat,
         G \ Greatest(R, G, cap) # {}
  PROVE  /\ Cardinality(Greatest(R, G, cap)) = cap
         /\ \E z \in G : Cardinality(Above(R, G, z)) = cap
<1> DEFINE T == Greatest(R, G, cap)
           count(x) == Cardinality(Above(R, G, x))
<1>1. T \subseteq G /\ IsFiniteSet(T) /\ Cardinality(T) \in Nat
  <2>1. T \subseteq G
    BY DEF Greatest
  <2> QED
    BY <2>1, FS_Subset, FS_CardinalityType
<1>2. \A x \in G : IsFiniteSet(Above(R, G, x)) /\ count(x) \in Nat
  <2>1. \A x \in G : Above(R, G, x) \subseteq G
    BY DEF Above
  <2> QED
    BY <2>1, FS_Subset, FS_CardinalityType
<1>3. \A x \in G \ T : count(x) >= cap
  BY <1>2 DEF Greatest
<1>4. PICK z \in G \ T : \A y \in G \ T : count(z) <= count(y)
  <2> DEFINE D == {count(x) : x \in G \ T}
  <2>1. D \subseteq Nat /\ D # {}
    BY <1>2
  <2>2. PICK m \in D : \A n \in D : m <= n
    BY <2>1, LeastNatural
  <2> QED
    BY <2>2
<1>5. Above(R, G, z) \subseteq T
  <2> SUFFICES ASSUME NEW y \in Above(R, G, z), y \notin T PROVE FALSE
    OBVIOUS
  <2>1. y \in G \ T /\ <<z, y>> \in R
    BY DEF Above
  <2>2. count(y) < count(z)
    BY <2>1, AboveShrinks
  <2> QED
    BY <1>2, <1>4, <2>1, <2>2
<1>6. count(z) <= Cardinality(T) /\ Cardinality(T) <= cap
  BY <1>1, <1>5, FS_Subset, GreatestAtMost
<1>7. count(z) = cap /\ Cardinality(T) = cap
  BY <1>1, <1>2, <1>3, <1>6
<1> QED
  BY <1>7

\* If an entry went, there are cap left, all above it.
LEMMA GreatestAreFull ==
  ASSUME NEW R, NEW G, IsFiniteSet(G), StrictOrder(R, G), NEW cap \in Nat,
         NEW gone \in G \ Greatest(R, G, cap)
  PROVE  /\ Cardinality(Greatest(R, G, cap)) = cap
         /\ \A x \in Greatest(R, G, cap) : <<gone, x>> \in R
<1>1. Cardinality(Greatest(R, G, cap)) = cap
  BY GreatestGone
<1>2. ASSUME NEW x \in Greatest(R, G, cap) PROVE <<gone, x>> \in R
  <2> DEFINE count(y) == Cardinality(Above(R, G, y))
  <2>1. x \in G /\ x # gone /\ count(x) < cap /\ ~ (count(gone) < cap)
    BY DEF Greatest
  <2>2. CASE <<x, gone>> \in R
    <3>1. count(x) \in Nat /\ count(gone) \in Nat /\ count(gone) < count(x)
      BY <2>1, <2>2, AboveShrinks
    <3> QED
      BY <2>1, <3>1
  <2> QED
    BY <2>1, <2>2 DEF StrictOrder
<1> QED
  BY <1>1, <1>2

\* In a strict total order every place is taken: for each n below the number
\* of elements, one has exactly n above it.
LEMMA PlaceTaken ==
  ASSUME NEW R, NEW G, IsFiniteSet(G), StrictOrder(R, G), NEW n \in Nat, n < Cardinality(G)
  PROVE  \E z \in G : Cardinality(Above(R, G, z)) = n
<1>1. Cardinality(Greatest(R, G, n)) <= n
  BY GreatestAtMost
<1>2. Greatest(R, G, n) \subseteq G
  BY DEF Greatest
<1>3. Greatest(R, G, n) # G
  BY <1>1, FS_CardinalityType
<1> QED
  BY <1>2, <1>3, GreatestGone
=============================================================================
