--------------------------- MODULE NodeListsProofs ---------------------------
(***************************************************************************)
(* What the operators of NodeLists return, for every list and every set:   *)
(* filtering keeps exactly the chosen elements and their order, and a      *)
(* selection is an ordered list of live nodes.  The argument rests on Nth: *)
(* a finite set of n integers has an i-th smallest member for every i in   *)
(* 1..n, found by minimising over the sizes of its initial segments.       *)
(***************************************************************************)
EXTENDS NodeLists, FiniteSetTheorems, WellFoundedInduction, TLAPS

\* The members of S up to k, and how many they are.
UpTo(S, k) == {j \in S : j <= k}
Rank(S, k) == Cardinality(UpTo(S, k))

\* A non-empty set of natural numbers has a least member.
LEMMA LeastNat ==
    ASSUME NEW T \in SUBSET Nat, T # {}
    PROVE  \E m \in T : \A n \in T : m <= n
<1>1. PICK m \in T : \A n \in T : ~(<<n, m>> \in OpToRel(<, Nat))
  BY WFMin, NatLessThanWellFounded
<1>2. ASSUME NEW n \in T PROVE m <= n
  <2>1. n \in Nat /\ m \in Nat
    OBVIOUS
  <2>2. ~(n < m)
    BY <1>1, <2>1 DEF OpToRel
  <2> QED
    BY <2>1, <2>2
<1> QED
  BY <1>2

\* A member's rank counts it, so ranks are positive and grow with the member.
LEMMA RankType ==
    ASSUME NEW S \in SUBSET Int, IsFiniteSet(S), NEW k \in S
    PROVE  /\ IsFiniteSet(UpTo(S, k))
           /\ Rank(S, k) \in 1..Cardinality(S)
<1>1. /\ UpTo(S, k) \subseteq S
      /\ k \in UpTo(S, k)
  BY DEF UpTo
<1>2. /\ IsFiniteSet(UpTo(S, k))
      /\ Cardinality(UpTo(S, k)) <= Cardinality(S)
  BY <1>1, FS_Subset
<1>3. Cardinality(UpTo(S, k)) # 0
  BY <1>1, <1>2, FS_EmptySet
<1>4. Cardinality(S) \in Nat /\ Cardinality(UpTo(S, k)) \in Nat
  BY <1>2, FS_CardinalityType
<1> QED
  BY <1>2, <1>3, <1>4 DEF Rank

LEMMA RankGrows ==
    ASSUME NEW S \in SUBSET Int, IsFiniteSet(S), NEW j \in S, NEW k \in S, j < k
    PROVE  Rank(S, j) < Rank(S, k)
<1>1. /\ UpTo(S, j) \subseteq UpTo(S, k)
      /\ k \in UpTo(S, k)
      /\ k \notin UpTo(S, j)
  <2>1. j \in Int /\ k \in Int /\ ~(k <= j) /\ k <= k
    OBVIOUS
  <2>2. ASSUME NEW x \in UpTo(S, j) PROVE x \in UpTo(S, k)
    <3>1. x \in S /\ x \in Int /\ x <= j
      BY <2>2 DEF UpTo
    <3>2. x <= k
      BY <2>1, <3>1
    <3> QED
      BY <3>1, <3>2 DEF UpTo
  <2> QED
    BY <2>1, <2>2 DEF UpTo
<1>2. IsFiniteSet(UpTo(S, j)) /\ IsFiniteSet(UpTo(S, k))
  BY RankType
<1>3. Cardinality(UpTo(S, j)) <= Cardinality(UpTo(S, k))
  BY <1>1, <1>2, FS_Subset
<1>4. Cardinality(UpTo(S, j)) # Cardinality(UpTo(S, k))
  BY <1>1, <1>2, FS_Subset
<1>5. Rank(S, j) \in Int /\ Rank(S, k) \in Int
  BY RankType
<1> QED
  BY <1>3, <1>4, <1>5 DEF Rank

\* A non-empty part of S has a least and a greatest member.
LEMMA Extremes ==
    ASSUME NEW S \in SUBSET Int, IsFiniteSet(S), NEW T \in SUBSET S, T # {}
    PROVE  /\ \E m \in T : \A k \in T : m <= k
           /\ \E m \in T : \A k \in T : k <= m
<1>1. \A k \in T : Rank(S, k) \in 1..Cardinality(S)
  BY RankType
<1>2. Cardinality(S) \in Nat
  BY FS_CardinalityType
<1>3. \E m \in T : \A k \in T : m <= k
  <2> DEFINE Ranks == {Rank(S, k) : k \in T}
  <2>1. Ranks \in SUBSET Nat /\ Ranks # {}
    <3>1. \A r \in Ranks : r \in Nat
      BY <1>1, <1>2
    <3>2. \E k \in T : Rank(S, k) \in Ranks
      OBVIOUS
    <3> QED
      BY <3>1, <3>2
  <2>2. PICK r \in Ranks : \A n \in Ranks : r <= n
    BY <2>1, LeastNat
  <2>3. PICK m \in T : r = Rank(S, m)
    BY <2>2
  <2>4. ASSUME NEW k \in T, k < m PROVE FALSE
    <3> k \in S /\ m \in S
      OBVIOUS
    <3>1. Rank(S, k) < Rank(S, m)
      BY <2>4, RankGrows
    <3>2. r <= Rank(S, k)
      BY <2>2
    <3> QED
      BY <3>1, <3>2, <2>3, <1>1, <1>2
  <2> QED
    BY <2>4
<1>4. \E m \in T : \A k \in T : k <= m
  <2> DEFINE Left == {Cardinality(S) - Rank(S, k) : k \in T}
  <2>1. Left \in SUBSET Nat /\ Left # {}
    <3>1. \A r \in Left : r \in Nat
      BY <1>1, <1>2
    <3>2. \E k \in T : Cardinality(S) - Rank(S, k) \in Left
      OBVIOUS
    <3> QED
      BY <3>1, <3>2
  <2>2. PICK r \in Left : \A n \in Left : r <= n
    BY <2>1, LeastNat
  <2>3. PICK m \in T : r = Cardinality(S) - Rank(S, m)
    BY <2>2
  <2>4. ASSUME NEW k \in T, m < k PROVE FALSE
    <3> k \in S /\ m \in S
      OBVIOUS
    <3>1. Rank(S, m) < Rank(S, k)
      BY <2>4, RankGrows
    <3>2. r <= Cardinality(S) - Rank(S, k)
      BY <2>2
    <3> QED
      BY <3>1, <3>2, <2>3, <1>1, <1>2
  <2> QED
    BY <2>4
<1> QED
  BY <1>3, <1>4

\* Ranks run through 1..Cardinality(S): the member of rank i is the least one
\* of rank at least i.
LEMMA RankOnto ==
    ASSUME NEW S \in SUBSET Int, IsFiniteSet(S), NEW i \in 1..Cardinality(S)
    PROVE  \E k \in S : Rank(S, k) = i
<1> DEFINE T == {k \in S : Rank(S, k) >= i}
<1>0. \A x \in S : x \in Int
  OBVIOUS
<1>1. Cardinality(S) \in Nat /\ S # {}
  BY FS_CardinalityType, FS_EmptySet
<1>2. T # {}
  <2>1. PICK m \in S : \A k \in S : k <= m
    BY <1>1, Extremes
  <2>2. UpTo(S, m) = S
    BY <2>1 DEF UpTo
  <2> QED
    BY <2>2, <1>1 DEF Rank
<1>3. PICK k \in T : \A j \in T : k <= j
  BY <1>2, Extremes
<1> DEFINE Below == {j \in S : j < k}
<1>4. IsFiniteSet(Below) /\ Cardinality(Below) \in Nat
  <2>1. Below \subseteq S
    OBVIOUS
  <2> QED
    BY <2>1, FS_Subset, FS_CardinalityType
<1>5. Cardinality(Below) < i
  <2>1. CASE Below = {}
    BY <2>1, FS_EmptySet
  <2>2. CASE Below # {}
    <3>1. PICK m \in Below : \A j \in Below : j <= m
      BY <2>2, Extremes
    <3>2. Below = UpTo(S, m)
      <4>1. ASSUME NEW j \in S PROVE j \in Below <=> j <= m
        <5>1. j \in Int /\ m \in Int /\ k \in Int /\ m < k
          BY <1>0
        <5>2. CASE j \in Below
          BY <5>2, <3>1
        <5>3. CASE j \notin Below
          <6>1. ~(j < k)
            BY <5>3
          <6> QED
            BY <5>1, <5>3, <6>1
        <5> QED
          BY <5>2, <5>3
      <4>2. Below \subseteq S
        OBVIOUS
      <4> QED
        BY <4>1, <4>2 DEF UpTo
    <3>3. m \notin T
      BY <3>1, <1>3
    <3>4. Rank(S, m) \in Int
      BY RankType
    <3> QED
      BY <3>2, <3>3, <3>4 DEF Rank
  <2> QED
    BY <2>1, <2>2
<1>6. UpTo(S, k) = Below \cup {k}
  <2>1. ASSUME NEW j \in S PROVE j <= k <=> j \in Below \cup {k}
    <3>1. j \in Int /\ k \in Int
      BY <1>0
    <3>2. j <= k <=> (j < k \/ j = k)
      BY <3>1
    <3>3. j < k <=> j \in Below
      OBVIOUS
    <3> QED
      BY <3>2, <3>3
  <2>2. Below \cup {k} \subseteq S
    OBVIOUS
  <2> QED
    BY <2>1, <2>2 DEF UpTo
<1>7. Rank(S, k) = Cardinality(Below) + 1
  BY <1>4, <1>6, FS_AddElement DEF Rank
<1>8. Rank(S, k) >= i
  OBVIOUS
<1> QED
  BY <1>4, <1>5, <1>7, <1>8
-----------------------------------------------------------------------------
(* Nth *)

\* Nth(S, i) is the member of rank i.
LEMMA NthRank ==
    ASSUME NEW S \in SUBSET Int, IsFiniteSet(S), NEW i \in 1..Cardinality(S)
    PROVE  Nth(S, i) \in S /\ Rank(S, Nth(S, i)) = i
<1>1. \E k \in S : Cardinality({j \in S : j <= k}) = i
  BY RankOnto DEF Rank, UpTo
<1> QED
  BY <1>1 DEF Nth, Rank, UpTo

\* The enumeration is increasing ...
LEMMA NthIncreasing ==
    ASSUME NEW S \in SUBSET Int, IsFiniteSet(S),
           NEW i \in 1..Cardinality(S), NEW j \in 1..Cardinality(S), i < j
    PROVE  Nth(S, i) < Nth(S, j)
<1>1. /\ Nth(S, i) \in S /\ Rank(S, Nth(S, i)) = i
      /\ Nth(S, j) \in S /\ Rank(S, Nth(S, j)) = j
  BY NthRank
<1>2. CASE Nth(S, j) < Nth(S, i)
  <2>1. j < i
    BY <1>1, <1>2, RankGrows
  <2> QED
    BY <2>1
<1>3. CASE Nth(S, j) = Nth(S, i)
  BY <1>1, <1>3
<1>4. Nth(S, i) \in Int /\ Nth(S, j) \in Int
  BY <1>1
<1> QED
  BY <1>2, <1>3, <1>4

\* ... and leaves no member out.
LEMMA NthOnto ==
    ASSUME NEW S \in SUBSET Int, IsFiniteSet(S), NEW k \in S
    PROVE  \E i \in 1..Cardinality(S) : Nth(S, i) = k
<1> DEFINE i == Rank(S, k)
<1>1. i \in 1..Cardinality(S)
  BY RankType
<1>2. Nth(S, i) \in S /\ Rank(S, Nth(S, i)) = i
  BY <1>1, NthRank
<1> HIDE DEF i
<1>3. k \in Int /\ Nth(S, i) \in Int /\ Rank(S, k) = i /\ i \in Int
  <2>1. Rank(S, k) = i
    BY DEF i
  <2>2. i \in Int
    BY <1>1
  <2>3. \A x \in S : x \in Int
    OBVIOUS
  <2> QED
    BY <1>2, <2>1, <2>2, <2>3
<1>4. ~(k < Nth(S, i))
  BY <1>2, <1>3, RankGrows
<1>5. ~(Nth(S, i) < k)
  BY <1>2, <1>3, RankGrows
<1> QED
  BY <1>1, <1>3, <1>4, <1>5

-----------------------------------------------------------------------------
(* Filtered lists *)

LEMMA PositionsFinite ==
    ASSUME NEW T, NEW s \in Seq(T), NEW I \in SUBSET DOMAIN s
    PROVE  /\ I \in SUBSET Int
           /\ IsFiniteSet(I)
           /\ Cardinality(I) \in Nat
<1>1. DOMAIN s = 1..Len(s) /\ Len(s) \in Nat
  OBVIOUS
<1>2. IsFiniteSet(1..Len(s))
  BY <1>1, FS_Interval
<1> QED
  BY <1>1, <1>2, FS_Subset, FS_CardinalityType

\* Filtering a list gives a list of exactly the chosen elements.
LEMMA KeptIsList ==
    ASSUME NEW T, NEW s \in Seq(T), NEW I \in SUBSET DOMAIN s
    PROVE  /\ Kept(s, I) \in Seq(T)
           /\ Len(Kept(s, I)) = Cardinality(I)
           /\ DOMAIN Kept(s, I) = 1..Cardinality(I)
           /\ Elements(Kept(s, I)) = {s[i] : i \in I}
<1>1. I \in SUBSET Int /\ IsFiniteSet(I) /\ Cardinality(I) \in Nat
  BY PositionsFinite
<1>2. \A i \in 1..Cardinality(I) : Nth(I, i) \in I
  BY <1>1, NthRank
<1>3. \A i \in I : s[i] \in T
  OBVIOUS
<1>4. Kept(s, I) = [i \in 1..Cardinality(I) |-> s[Nth(I, i)]]
  BY DEF Kept
<1>5. Kept(s, I) \in [1..Cardinality(I) -> T]
  BY <1>2, <1>3, <1>4
<1>6. Kept(s, I) \in Seq(T) /\ Len(Kept(s, I)) = Cardinality(I)
  BY <1>1, <1>5
<1>7. ASSUME NEW i \in I PROVE \E k \in DOMAIN Kept(s, I) : Kept(s, I)[k] = s[i]
  <2>1. PICK k \in 1..Cardinality(I) : Nth(I, k) = i
    BY <1>1, NthOnto
  <2> QED
    BY <2>1, <1>4
<1>8. \A k \in DOMAIN Kept(s, I) : \E i \in I : Kept(s, I)[k] = s[i]
  BY <1>2, <1>4
<1>9. Elements(Kept(s, I)) = {s[i] : i \in I}
  BY <1>7, <1>8 DEF Elements
<1> QED
  BY <1>4, <1>6, <1>9

\* Filtering keeps a failover list ordered.
LEMMA KeptOrdered ==
    ASSUME NEW s \in Seq(Node), Ordered(s), NEW I \in SUBSET DOMAIN s
    PROVE  Ordered(Kept(s, I))
<1>1. I \in SUBSET Int /\ IsFiniteSet(I) /\ Cardinality(I) \in Nat
  BY PositionsFinite
<1>2. DOMAIN Kept(s, I) = 1..Cardinality(I)
  BY DEF Kept
<1>3. SUFFICES ASSUME NEW i \in 1..Cardinality(I), NEW j \in 1..Cardinality(I), i < j
               PROVE  Kept(s, I)[i].prio < Kept(s, I)[j].prio
  BY <1>2 DEF Ordered
<1>4. Nth(I, i) \in I /\ Nth(I, j) \in I /\ Nth(I, i) < Nth(I, j)
  BY <1>1, <1>3, NthRank, NthIncreasing
<1>5. Kept(s, I)[i] = s[Nth(I, i)] /\ Kept(s, I)[j] = s[Nth(I, j)]
  BY DEF Kept
<1> QED
  BY <1>4, <1>5 DEF Ordered

\* The in-place filters of the registry, which write the nodes they keep to the
\* front of the list's own array, lose and repeat none of them and keep their
\* order: the result goes through the chosen positions from left to right, and
\* a failover list stays one.
THEOREM FilterKeepsOrder ==
    ASSUME NEW T, NEW s \in Seq(T), NEW I \in SUBSET DOMAIN s
    PROVE  /\ \E at \in [1..Cardinality(I) -> I] :
                 /\ Kept(s, I) = [k \in 1..Cardinality(I) |-> s[at[k]]]
                 /\ \A i \in I : \E k \in 1..Cardinality(I) : at[k] = i
                 /\ \A j, k \in 1..Cardinality(I) : j < k => at[j] < at[k]
           /\ T = Node /\ Ordered(s) => Ordered(Kept(s, I))
<1>1. I \in SUBSET Int /\ IsFiniteSet(I) /\ Cardinality(I) \in Nat
  BY PositionsFinite
<1> DEFINE at == [k \in 1..Cardinality(I) |-> Nth(I, k)]
<1>2. at \in [1..Cardinality(I) -> I]
  BY <1>1, NthRank
<1>3. Kept(s, I) = [k \in 1..Cardinality(I) |-> s[at[k]]]
  BY DEF Kept
<1>4. \A i \in I : \E k \in 1..Cardinality(I) : at[k] = i
  BY <1>1, NthOnto
<1>5. \A j, k \in 1..Cardinality(I) : j < k => at[j] < at[k]
  BY <1>1, NthIncreasing
<1>6. T = Node /\ Ordered(s) => Ordered(Kept(s, I))
  BY KeptOrdered
<1> HIDE DEF at
<1> QED  BY <1>2, <1>3, <1>4, <1>5, <1>6

LEMMA WithoutIsList ==
    ASSUME NEW s \in Seq(Node), NEW url
    PROVE  /\ Without(s, url) \in Seq(Node)
           /\ Elements(Without(s, url)) = {n \in Elements(s) : n.url # url}
           /\ Ordered(s) => Ordered(Without(s, url))
<1> DEFINE I == {i \in DOMAIN s : s[i].url # url}
<1>1. Without(s, url) = Kept(s, I)
  BY DEF Without
<1>2. Kept(s, I) \in Seq(Node) /\ Elements(Kept(s, I)) = {s[i] : i \in I}
  BY KeptIsList
<1>3. {s[i] : i \in I} = {n \in Elements(s) : n.url # url}
  BY DEF Elements
<1>4. Ordered(s) => Ordered(Kept(s, I))
  BY KeptOrdered
<1> QED
  BY <1>1, <1>2, <1>3, <1>4

-----------------------------------------------------------------------------
(* Answers of a health check *)

\* A selection is an ordered list of the live nodes.
THEOREM SelectionIsOrdered ==
    ASSUME NEW S \in SUBSET Node, NEW s \in Selections(S)
    PROVE  /\ s \in Seq(Node)
           /\ Elements(s) \subseteq S
           /\ Ordered(s)
<1> DEFINE P == PriosOf(S)
<1>1. P \in SUBSET Int /\ IsFiniteSet(P) /\ Cardinality(P) \in Nat
  <2>1. P \subseteq Prios
    BY DEF PriosOf, Node
  <2> QED
    BY <2>1, NodesAssumption, FS_Subset, FS_CardinalityType
<1>2. PICK f \in [P -> S] : /\ \A p \in P : f[p].prio = p
                           /\ s = [i \in 1..Cardinality(P) |-> f[Nth(P, i)]]
  BY DEF Selections
<1> HIDE DEF P
<1>3. \A i \in 1..Cardinality(P) : Nth(P, i) \in P
  BY <1>1, NthRank
<1>4. s \in [1..Cardinality(P) -> S]
  BY <1>2, <1>3
<1>5. s \in Seq(Node) /\ Elements(s) \subseteq S
  BY <1>1, <1>4 DEF Elements
<1>6. ASSUME NEW i \in DOMAIN s, NEW j \in DOMAIN s, i < j
      PROVE  s[i].prio < s[j].prio
  <2>1. i \in 1..Cardinality(P) /\ j \in 1..Cardinality(P)
    BY <1>4
  <2>2. s[i].prio = Nth(P, i) /\ s[j].prio = Nth(P, j)
    BY <2>1, <1>2, <1>3
  <2> QED
    BY <1>6, <2>1, <2>2, <1>1, NthIncreasing
<1> QED
  BY <1>5, <1>6 DEF Ordered

\* What a health check answers is an ordered list of nodes it was given, none
\* of them one that is never alive, and it marks only URLs it was given.
THEOREM OutcomeIsSound ==
    ASSUME NEW nodes \in Seq(Node), NEW o \in Outcomes(nodes)
    PROVE  /\ o.best \in Seq(Node)
           /\ Elements(o.best) \subseteq {n \in Elements(nodes) : n.url \notin NeverAlive}
           /\ Ordered(o.best)
           /\ o.fatal \subseteq Urls
<1>1. PICK alive \in SUBSET {i \in DOMAIN nodes : nodes[i].url \notin NeverAlive} :
         o \in [best  : Selections({nodes[i] : i \in alive}),
               fatal : SUBSET {nodes[i].url : i \in DOMAIN nodes \ alive}]
  BY DEF Outcomes
<1> DEFINE S == {nodes[i] : i \in alive}
<1>2. S \in SUBSET Node /\ S \subseteq {n \in Elements(nodes) : n.url \notin NeverAlive}
  BY DEF Elements
<1>3. o.best \in Selections(S)
  BY <1>1
<1>4. /\ o.best \in Seq(Node)
      /\ Elements(o.best) \subseteq S
      /\ Ordered(o.best)
  BY <1>2, <1>3, SelectionIsOrdered
<1>5. o.fatal \subseteq Urls
  <2>1. ASSUME NEW i \in DOMAIN nodes PROVE nodes[i].url \in Urls
    <3>1. nodes[i] \in Node
      OBVIOUS
    <3> QED
      BY <3>1 DEF Node
  <2> QED
    BY <1>1, <2>1
<1> QED
  BY <1>2, <1>4, <1>5

=============================================================================
