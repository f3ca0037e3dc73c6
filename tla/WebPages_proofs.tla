---------------------------- MODULE WebPages_proofs ----------------------------
(* Proofs about WebPages, and about the sequences of QueryEvidence that its      *)
(* evidence is cut from.                                                         *)
EXTENDS WebPages, FiniteSetTheorems, SequenceTheorems, TLAPS

--------------------------------------------------------------------------------
(* Numbers and finite sets.                                                     *)

\* One of the members of a set is least by a measure.
LEMMA LeastElement ==
    ASSUME NEW S, S # {}, NEW f \in [S -> Nat]
    PROVE  \E a \in S : \A b \in S : f[a] <= f[b]
<1> DEFINE T == {f[x] : x \in S}
<1>1. T \subseteq Nat /\ T # {}
  OBVIOUS
<1>2. \E n \in T : \A m \in T : ~ (<<m, n>> \in OpToRel(<, Nat))
  BY <1>1, NatLessThanWellFounded, WFMin
<1>3. PICK n \in T : \A m \in T : ~ (m < n)
  <2>1. PICK n \in T : \A m \in T : ~ (<<m, n>> \in OpToRel(<, Nat))
    BY <1>2
  <2>2. ASSUME NEW m \in T, m < n PROVE FALSE
    <3>1. <<m, n>> \in OpToRel(<, Nat)
      BY <1>1, <2>2 DEF OpToRel
    <3> QED
      BY <2>1, <3>1
  <2> QED
    BY <2>2
<1>4. PICK a \in S : f[a] = n
  OBVIOUS
<1>5. ASSUME NEW b \in S PROVE f[a] <= f[b]
  BY <1>3, <1>4
<1> QED
  BY <1>5

\* A set of numbers with a bound has a greatest one, which is Max of it.
LEMMA MaxOfBounded ==
    ASSUME NEW n \in Nat, NEW S \in SUBSET (0 .. n), S # {}
    PROVE  /\ Max(S) \in S
           /\ \A y \in S : Max(S) >= y
<1> DEFINE f == [x \in S |-> n - x]
<1>1. f \in [S -> Nat]
  OBVIOUS
<1>2. PICK a \in S : \A b \in S : f[a] <= f[b]
  <2> HIDE DEF f
  <2> QED
    BY <1>1, LeastElement
<1>3. \A b \in S : a >= b
  BY <1>2
<1> QED
  BY <1>3 DEF Max

--------------------------------------------------------------------------------
(* A finite set in order. below[x] is the set of those that precede x.          *)

LinearOn(S, below) ==
    /\ below \in [S -> SUBSET S]
    /\ \A x \in S : x \notin below[x]
    /\ \A x, y \in S : x = y \/ x \in below[y] \/ y \in below[x]
    /\ \A x, y, z \in S : x \in below[y] /\ y \in below[z] => x \in below[z]

\* The sequence has every member of S once, each after those that precede it.
InOrder(seq, S, below) ==
    /\ seq \in [1 .. Cardinality(S) -> S]
    /\ \A x \in S : \E i \in 1 .. Cardinality(S) : seq[i] = x
    /\ \A i, j \in 1 .. Cardinality(S) : i < j <=> seq[i] \in below[seq[j]]

\* Who precedes is preceded by fewer.
LEMMA FewerBelow ==
    ASSUME NEW S, IsFiniteSet(S), NEW below, LinearOn(S, below)
    PROVE  /\ \A x \in S : Cardinality(below[x]) \in 0 .. (Cardinality(S) - 1)
           /\ \A x, y \in S : x \in below[y] <=> Cardinality(below[x]) < Cardinality(below[y])
<1> USE DEF LinearOn
<1>1. Cardinality(S) \in Nat
  BY FS_CardinalityType
<1>2. \A x \in S : below[x] \in SUBSET S /\ below[x] # S
  OBVIOUS
<1>3. ASSUME NEW x \in S
      PROVE  /\ IsFiniteSet(below[x]) /\ Cardinality(below[x]) \in Nat
             /\ Cardinality(below[x]) < Cardinality(S)
  <2>1. below[x] \in SUBSET S /\ below[x] # S
    BY <1>2
  <2>2. IsFiniteSet(below[x]) /\ Cardinality(below[x]) <= Cardinality(S)
        /\ Cardinality(S) # Cardinality(below[x])
    BY <2>1, FS_Subset
  <2>3. Cardinality(below[x]) \in Nat
    BY <2>2, FS_CardinalityType
  <2> QED
    BY <1>1, <2>2, <2>3
<1>4. ASSUME NEW x \in S, NEW y \in S, x \in below[y]
      PROVE  Cardinality(below[x]) < Cardinality(below[y])
  <2>1. below[x] \in SUBSET below[y] /\ below[x] # below[y]
    BY <1>2, <1>4
  <2>2. Cardinality(below[x]) <= Cardinality(below[y]) /\ Cardinality(below[y]) # Cardinality(below[x])
    BY <1>3, <2>1, FS_Subset
  <2> QED
    BY <1>3, <2>2
<1>5. ASSUME NEW x \in S, NEW y \in S, Cardinality(below[x]) < Cardinality(below[y])
      PROVE  x \in below[y]
  <2>1. CASE x = y
    BY <1>3, <1>5, <2>1
  <2>2. CASE y \in below[x]
    BY <1>3, <1>4, <1>5, <2>2
  <2> QED
    BY <2>1, <2>2
<1> QED
  BY <1>1, <1>3, <1>4, <1>5

\* Every place is somebody's.
LEMMA EveryPlaceIsTaken ==
    ASSUME NEW S, IsFiniteSet(S), NEW below, LinearOn(S, below), NEW i \in 1 .. Cardinality(S)
    PROVE  \E x \in S : Cardinality(below[x]) = i - 1
<1> DEFINE n == Cardinality(S)
           rank == [x \in S |-> Cardinality(below[x])]
           T == {rank[x] : x \in S}
<1>1. n \in Nat
  BY FS_CardinalityType
<1>2. \A x \in S : rank[x] \in 0 .. (n - 1)
  BY FewerBelow
<1>3. \A x, y \in S : rank[x] = rank[y] => x = y
  <2>1. \A x, y \in S : x \in below[y] <=> rank[x] < rank[y]
    BY FewerBelow
  <2>2. \A x, y \in S : x = y \/ x \in below[y] \/ y \in below[x]
    BY DEF LinearOn
  <2>3. \A x \in S : rank[x] \in Nat
    BY <1>1, <1>2
  <2> HIDE DEF rank
  <2> QED
    BY <2>1, <2>2, <2>3
<1>4. rank \in [S -> T]
  OBVIOUS
<1> HIDE DEF rank
<1>5. rank \in Surjection(S, T) /\ rank \in Injection(S, T)
  <2>1. \A t \in T : \E x \in S : rank[x] = t
    BY DEF T
  <2> QED
    BY <1>3, <1>4, <2>1 DEF Surjection, Injection, IsInjective
<1>7. Cardinality(T) = n
  <2> HIDE DEF T
  <2> QED
    BY <1>5, FS_Surjection
<1>8. T \in SUBSET (0 .. (n - 1))
  BY <1>2 DEF T
<1>9. IsFiniteSet(0 .. (n - 1)) /\ Cardinality(0 .. (n - 1)) = n
  <2>1. 0 \in Int /\ n - 1 \in Int
    BY <1>1
  <2> HIDE DEF n
  <2>2. IsFiniteSet(0 .. (n - 1)) /\ Cardinality(0 .. (n - 1)) = IF 0 > n - 1 THEN 0 ELSE n - 1 - 0 + 1
    BY <2>1, FS_Interval
  <2> QED
    BY <1>1, <2>2
<1>10. T = 0 .. (n - 1)
  <2> HIDE DEF T, n
  <2> QED
    BY <1>7, <1>8, <1>9, FS_Subset
<1>11. i - 1 \in T
  <2>1. i - 1 \in 0 .. (n - 1)
    BY <1>1
  <2> HIDE DEF T
  <2> QED
    BY <1>10, <2>1
<1> QED
  BY <1>11 DEF rank

\* A sequence that has, at each place, somebody with that many below is in order.
LEMMA RankedIsInOrder ==
    ASSUME NEW S, IsFiniteSet(S), NEW below, LinearOn(S, below),
           NEW seq \in [1 .. Cardinality(S) -> S],
           \A i \in 1 .. Cardinality(S) : Cardinality(below[seq[i]]) = i - 1
    PROVE  InOrder(seq, S, below)
<1> DEFINE n == Cardinality(S)
           rank == [x \in S |-> Cardinality(below[x])]
<1>1. n \in Nat
  BY FS_CardinalityType
<1>2. \A x \in S : rank[x] \in 0 .. (n - 1)
  BY FewerBelow
<1>3. \A x, y \in S : x \in below[y] <=> rank[x] < rank[y]
  BY FewerBelow
<1>4. \A i \in 1 .. n : rank[seq[i]] = i - 1
  OBVIOUS
<1>5. \A x, y \in S : x = y \/ x \in below[y] \/ y \in below[x]
  BY DEF LinearOn
<1> HIDE DEF rank, n
<1>6. seq \in [1 .. n -> S]
  BY DEF n
<1>7. ASSUME NEW x \in S PROVE \E i \in 1 .. n : seq[i] = x
  <2>1. rank[x] + 1 \in 1 .. n
    BY <1>1, <1>2
  <2>2. PICK i \in 1 .. n : i = rank[x] + 1
    BY <2>1
  <2>3. seq[i] \in S /\ rank[seq[i]] = rank[x]
    <3>1. rank[x] \in Int
      BY <1>1, <1>2
    <3>2. seq[i] \in S
      BY <1>6
    <3>3. rank[seq[i]] = i - 1
      BY <1>4
    <3> QED
      BY <2>2, <3>1, <3>2, <3>3
  <2>4. seq[i] = x
    BY <1>1, <1>2, <1>3, <1>5, <2>3
  <2> QED
    BY <2>4
<1>8. ASSUME NEW i \in 1 .. n, NEW j \in 1 .. n
      PROVE  i < j <=> seq[i] \in below[seq[j]]
  <2>1. seq[i] \in S /\ seq[j] \in S
    BY <1>6
  <2>2. rank[seq[i]] = i - 1 /\ rank[seq[j]] = j - 1
    BY <1>4
  <2>3. i \in Int /\ j \in Int
    OBVIOUS
  <2> QED
    BY <1>3, <2>1, <2>2, <2>3
<1> QED
  BY <1>6, <1>7, <1>8 DEF InOrder, n

\* What Sorted cuts from its places, if each place is filled as it says.
LEMMA PlacesAreInOrder ==
    ASSUME NEW S, IsFiniteSet(S), NEW below, LinearOn(S, below), NEW place,
           \A i \in 1 .. Cardinality(S) : place[i] \in S /\ Cardinality(below[place[i]]) = i - 1
    PROVE  InOrder(SubSeq(place, 1, Cardinality(S)), S, below)
<1> DEFINE n == Cardinality(S)
           seq == SubSeq(place, 1, n)
<1>1. n \in Nat
  BY FS_CardinalityType
<1>2. \A i \in 1 .. n : place[i] \in S /\ Cardinality(below[place[i]]) = i - 1
  OBVIOUS
<1> HIDE DEF n
<1>3. /\ seq \in Seq(S) /\ Len(seq) = IF 1 <= n THEN n - 1 + 1 ELSE 0
      /\ \A i \in 1 .. n - 1 + 1 : seq[i] = place[1 + i - 1]
  BY <1>1, <1>2, SubSeqProperties
<1> HIDE DEF seq
<1>4. Len(seq) = n
  BY <1>1, <1>3
<1>5. seq \in [1 .. n -> S]
  BY <1>3, <1>4, LenProperties
<1>6. ASSUME NEW i \in 1 .. n PROVE seq[i] = place[i]
  <2>1. i \in 1 .. n - 1 + 1 /\ 1 + i - 1 = i
    BY <1>1
  <2> QED
    BY <1>3, <2>1
<1>7. InOrder(seq, S, below)
  BY <1>2, <1>5, <1>6, RankedIsInOrder DEF n
<1> QED
  BY <1>7 DEF seq, n

\* Of all members of a pool, those that an answer has before n.
NodesBelow(pool, answer) == [n \in pool |-> {m \in pool : CompareNodes(m, n, answer)}]

LEMMA NodesAreSorted ==
    ASSUME NEW pool, IsFiniteSet(pool), NEW answer, LinearOn(pool, NodesBelow(pool, answer))
    PROVE  InOrder(NodesInOrder(pool, answer), pool, NodesBelow(pool, answer))
<1> DEFINE below == NodesBelow(pool, answer)
           n == Cardinality(pool)
           place == [i \in 1 .. n |->
                        CHOOSE x \in pool : Cardinality({y \in pool : CompareNodes(y, x, answer)}) = i - 1]
<1>1. \A x \in pool : below[x] = {y \in pool : CompareNodes(y, x, answer)}
  BY DEF NodesBelow
<1>2. NodesInOrder(pool, answer) = SubSeq(place, 1, n)
  BY DEF NodesInOrder, Sorted
<1>3. ASSUME NEW i \in 1 .. n
      PROVE  place[i] \in pool /\ Cardinality(below[place[i]]) = i - 1
  <2>1. \E x \in pool : Cardinality(below[x]) = i - 1
    BY EveryPlaceIsTaken
  <2>2. \E x \in pool : Cardinality({y \in pool : CompareNodes(y, x, answer)}) = i - 1
    BY <1>1, <2>1
  <2>3. place[i] \in pool /\ Cardinality({y \in pool : CompareNodes(y, place[i], answer)}) = i - 1
    BY <2>2
  <2> QED
    BY <1>1, <2>3
<1> HIDE DEF place
<1> QED
  BY <1>2, <1>3, PlacesAreInOrder

\* The order of nodes is by two numbers, the last of which tells any two apart.
LEMMA NodesAreOrdered ==
    ASSUME NEW pool, NEW answer,
           \A n \in pool : n.display \in Nat,
           \A m, n \in pool : m.display = n.display => m = n
    PROVE  LinearOn(pool, NodesBelow(pool, answer))
<1> DEFINE place == [n \in pool |-> Place(n, answer)]
           below == NodesBelow(pool, answer)
<1>1. \A n \in pool : Place(n, answer) \in Nat
  BY DEF Place, LabelPriority
<1>2. place \in [pool -> Nat]
  BY <1>1
<1>3. \A m, n \in pool :
         m \in below[n] <=> place[m] < place[n] \/ (place[m] = place[n] /\ m.display < n.display)
  BY DEF NodesBelow, CompareNodes
<1>4. below \in [pool -> SUBSET pool]
  BY DEF NodesBelow
<1> HIDE DEF place, below
<1>5. \A x \in pool : x \notin below[x]
  BY <1>2, <1>3
<1>6. \A x, y \in pool : x = y \/ x \in below[y] \/ y \in below[x]
  BY <1>2, <1>3
<1>7. \A x, y, z \in pool : x \in below[y] /\ y \in below[z] => x \in below[z]
  BY <1>2, <1>3
<1> QED
  BY <1>4, <1>5, <1>6, <1>7 DEF LinearOn, below

\* Of all relationships, those that an answer has before r.
RelationshipsBelow(rels, answer) == [r \in rels |-> {s \in rels : CompareRelationships(s, r, answer)}]

LEMMA RelationshipsAreSorted ==
    ASSUME NEW rels, IsFiniteSet(rels), NEW answer, LinearOn(rels, RelationshipsBelow(rels, answer))
    PROVE  InOrder(RelationshipsInOrder(rels, answer), rels, RelationshipsBelow(rels, answer))
<1> DEFINE below == RelationshipsBelow(rels, answer)
           n == Cardinality(rels)
           place == [i \in 1 .. n |->
                        CHOOSE x \in rels : Cardinality({y \in rels : CompareRelationships(y, x, answer)}) = i - 1]
<1>1. \A x \in rels : below[x] = {y \in rels : CompareRelationships(y, x, answer)}
  BY DEF RelationshipsBelow
<1>2. RelationshipsInOrder(rels, answer) = SubSeq(place, 1, n)
  BY DEF RelationshipsInOrder, Sorted
<1>3. ASSUME NEW i \in 1 .. n
      PROVE  place[i] \in rels /\ Cardinality(below[place[i]]) = i - 1
  <2>1. \E x \in rels : Cardinality(below[x]) = i - 1
    BY EveryPlaceIsTaken
  <2>2. \E x \in rels : Cardinality({y \in rels : CompareRelationships(y, x, answer)}) = i - 1
    BY <1>1, <2>1
  <2>3. place[i] \in rels /\ Cardinality({y \in rels : CompareRelationships(y, place[i], answer)}) = i - 1
    BY <2>2
  <2> QED
    BY <1>1, <2>3
<1> HIDE DEF place
<1> QED
  BY <1>2, <1>3, PlacesAreInOrder

LEMMA RelationshipsAreOrdered ==
    ASSUME NEW rels, NEW answer,
           \A r \in rels : r.id \in Nat,
           \A r, s \in rels : r.id = s.id => r = s
    PROVE  LinearOn(rels, RelationshipsBelow(rels, answer))
<1> DEFINE ends == [r \in rels |->
                       Cardinality({i \in {1, 2} : <<r.startId, r.endId>>[i] \in Ids(answer.nodes)})]
           id == [r \in rels |-> r.id]
           below == RelationshipsBelow(rels, answer)
<1>1. ASSUME NEW r \in rels PROVE ends[r] \in Nat
  <2> DEFINE E == {i \in {1, 2} : <<r.startId, r.endId>>[i] \in Ids(answer.nodes)}
  <2>1. IsFiniteSet({1} \cup {2})
    BY FS_Singleton, FS_AddElement
  <2>2. E \in SUBSET ({1} \cup {2})
    OBVIOUS
  <2> HIDE DEF E
  <2>3. IsFiniteSet(E)
    BY <2>1, <2>2, FS_Subset
  <2>4. Cardinality(E) \in Nat
    BY <2>3, FS_CardinalityType
  <2> QED
    BY <2>4 DEF E
<1>2. \A r \in rels : id[r] \in Nat
  OBVIOUS
<1>3. \A r, s \in rels : id[r] = id[s] => r = s
  OBVIOUS
<1>4. \A r, s \in rels : r \in below[s] <=> ends[r] > ends[s] \/ (ends[r] = ends[s] /\ id[r] < id[s])
  BY DEF RelationshipsBelow, CompareRelationships
<1>5. below \in [rels -> SUBSET rels]
  BY DEF RelationshipsBelow
<1> HIDE DEF ends, id, below
<1>6. \A x \in rels : x \notin below[x]
  BY <1>1, <1>2, <1>4
<1>7. \A x, y \in rels : x = y \/ x \in below[y] \/ y \in below[x]
  BY <1>1, <1>2, <1>3, <1>4
<1>8. \A x, y, z \in rels : x \in below[y] /\ y \in below[z] => x \in below[z]
  BY <1>1, <1>2, <1>4
<1> QED
  BY <1>5, <1>6, <1>7, <1>8 DEF LinearOn, below

\* The places of a sequence, in their own order.
PlacesBelow(places) == [i \in places |-> {j \in places : j < i}]

LEMMA PlacesAscend ==
    ASSUME NEW n \in Nat, NEW places \in SUBSET (1 .. n)
    PROVE  /\ IsFiniteSet(places)
           /\ InOrder(Ascending(places), places, PlacesBelow(places))
<1> DEFINE below == PlacesBelow(places)
           k == Cardinality(places)
           place == [i \in 1 .. k |-> CHOOSE x \in places : Cardinality({y \in places : y < x}) = i - 1]
<1>1. IsFiniteSet(places)
  <2>1. IsFiniteSet(1 .. n)
    BY FS_Interval
  <2> QED
    BY <2>1, FS_Subset
<1>2. LinearOn(places, below)
  BY DEF LinearOn, PlacesBelow
<1>3. \A x \in places : below[x] = {y \in places : y < x}
  BY DEF PlacesBelow
<1>4. Ascending(places) = SubSeq(place, 1, k)
  BY DEF Ascending, Sorted
<1>5. ASSUME NEW i \in 1 .. k
      PROVE  place[i] \in places /\ Cardinality(below[place[i]]) = i - 1
  <2>1. \E x \in places : Cardinality(below[x]) = i - 1
    BY <1>1, <1>2, EveryPlaceIsTaken
  <2>2. \E x \in places : Cardinality({y \in places : y < x}) = i - 1
    BY <1>3, <2>1
  <2>3. place[i] \in places /\ Cardinality({y \in places : y < place[i]}) = i - 1
    BY <2>2
  <2> QED
    BY <1>3, <2>3
<1> HIDE DEF place
<1> QED
  BY <1>1, <1>2, <1>4, <1>5, PlacesAreInOrder

--------------------------------------------------------------------------------
(* What a sequence of items uses, and what is taken of it within a budget.      *)

\* f adds up the sizes of the first n items.
AddsUp(f, items, n) ==
    /\ f \in [0 .. n -> Nat]
    /\ f[0] = 0
    /\ \A k \in 1 .. n : f[k] = f[k - 1] + items[k].size

LEMMA SumsExist ==
    ASSUME NEW N \in Nat, NEW items, \A k \in 1 .. N : items[k].size \in Nat
    PROVE  \E f : AddsUp(f, items, N)
<1> DEFINE Bad == {n \in 0 .. N : ~ \E f : AddsUp(f, items, n)}
           self == [n \in Bad |-> n]
<1>1. ASSUME Bad # {} PROVE FALSE
  <2>1. self \in [Bad -> Nat]
    OBVIOUS
  <2>2. PICK n \in Bad : \A m \in Bad : self[n] <= self[m]
    <3> HIDE DEF Bad, self
    <3> QED
      BY <1>1, <2>1, LeastElement
  <2>3. n \in 0 .. N /\ \A m \in Bad : n <= m
    BY <2>2
  <2>4. CASE n = 0
    <3>1. AddsUp([k \in 0 .. 0 |-> 0], items, 0)
      BY DEF AddsUp
    <3> QED
      BY <2>4, <3>1
  <2>5. CASE n # 0
    <3>1. n - 1 \in 0 .. N /\ n - 1 \notin Bad
      BY <2>3, <2>5
    <3>2. PICK f : AddsUp(f, items, n - 1)
      BY <3>1
    <3> DEFINE g == [k \in 0 .. n |-> IF k = n THEN f[n - 1] + items[n].size ELSE f[k]]
    <3>3. n \in 1 .. N /\ items[n].size \in Nat
      BY <2>3, <2>5
    <3>4. f \in [0 .. (n - 1) -> Nat] /\ f[0] = 0
          /\ \A k \in 1 .. (n - 1) : f[k] = f[k - 1] + items[k].size
      BY <3>2 DEF AddsUp
    <3>5. g \in [0 .. n -> Nat]
      BY <3>3, <3>4
    <3>6. g[0] = 0
      BY <3>3, <3>4
    <3>7. ASSUME NEW k \in 1 .. n PROVE g[k] = g[k - 1] + items[k].size
      BY <3>3, <3>4
    <3> HIDE DEF g
    <3>8. AddsUp(g, items, n)
      BY <3>5, <3>6, <3>7 DEF AddsUp
    <3> QED
      BY <3>8
  <2> QED
    BY <2>4, <2>5
<1>2. N \in 0 .. N /\ N \notin Bad
  BY <1>1
<1> QED
  BY <1>2

\* Used adds up sizes.
LEMMA UsedAddsUp ==
    ASSUME NEW N \in Nat, NEW items, Len(items) = N, \A k \in 1 .. N : items[k].size \in Nat
    PROVE  AddsUp(Used(items), items, N)
<1>1. PICK f : AddsUp(f, items, N)
  BY SumsExist
<1>2. f = [k \in 0 .. N |-> IF k = 0 THEN 0 ELSE f[k - 1] + items[k].size]
  BY <1>1 DEF AddsUp
<1>3. Used(items) = [k \in 0 .. N |-> IF k = 0 THEN 0 ELSE Used(items)[k - 1] + items[k].size]
  BY <1>2 DEF Used
<1> DEFINE used == Used(items)
           Bad == {k \in 0 .. N : used[k] # f[k]}
           self == [k \in Bad |-> k]
<1>4. DOMAIN used = 0 .. N
      /\ \A k \in 0 .. N : used[k] = IF k = 0 THEN 0 ELSE used[k - 1] + items[k].size
  BY <1>3
<1> HIDE DEF used
<1>5. ASSUME Bad # {} PROVE FALSE
  <2>1. self \in [Bad -> Nat]
    OBVIOUS
  <2>2. PICK n \in Bad : \A m \in Bad : self[n] <= self[m]
    <3> HIDE DEF Bad, self
    <3> QED
      BY <1>5, <2>1, LeastElement
  <2>3. n \in 0 .. N /\ \A m \in Bad : n <= m
    BY <2>2
  <2>4. n # 0
    BY <1>1, <1>4, <2>3 DEF AddsUp
  <2>5. n - 1 \in 0 .. N /\ n - 1 \notin Bad
    BY <2>3, <2>4
  <2>6. used[n] = used[n - 1] + items[n].size
    BY <1>4, <2>3, <2>4
  <2>7. f[n] = f[n - 1] + items[n].size
    BY <1>2, <2>3, <2>4
  <2> QED
    BY <2>5, <2>6, <2>7
<1>6. used = [k \in 0 .. N |-> used[k]] /\ \A k \in 0 .. N : used[k] = f[k]
  BY <1>3, <1>5 DEF used
<1>7. used = f
  BY <1>2, <1>6
<1> QED
  BY <1>1, <1>7 DEF used

\* The more items, the more is used.
LEMMA SumsGrow ==
    ASSUME NEW N \in Nat, NEW items, \A k \in 1 .. N : items[k].size \in Nat,
           NEW f, AddsUp(f, items, N), NEW i \in 0 .. N, NEW j \in i .. N
    PROVE  f[i] <= f[j]
<1> DEFINE Bad == {k \in i .. N : ~ (f[i] <= f[k])}
           self == [k \in Bad |-> k]
<1>1. /\ \A k \in 0 .. N : f[k] \in Nat
      /\ \A k \in 1 .. N : f[k] = f[k - 1] + items[k].size
  BY DEF AddsUp
<1>2. ASSUME Bad # {} PROVE FALSE
  <2>1. self \in [Bad -> Nat]
    OBVIOUS
  <2>2. PICK n \in Bad : \A m \in Bad : self[n] <= self[m]
    <3> HIDE DEF Bad, self
    <3> QED
      BY <1>2, <2>1, LeastElement
  <2>3. n \in i .. N /\ ~ (f[i] <= f[n]) /\ \A m \in Bad : n <= m
    BY <2>2
  <2>4. n # i
    BY <1>1, <2>3
  <2>5. n - 1 \in i .. N /\ n - 1 \notin Bad
    BY <2>3, <2>4
  <2>6. f[i] <= f[n - 1]
    BY <2>5
  <2>7. f[n] = f[n - 1] + items[n].size /\ items[n].size \in Nat
        /\ f[n - 1] \in Nat /\ f[i] \in Nat /\ f[n] \in Nat
    BY <1>1, <2>3, <2>4
  <2> QED
    BY <2>3, <2>6, <2>7
<1> QED
  BY <1>2

Increasing(g, M, N) ==
    /\ g \in [1 .. M -> 1 .. N]
    /\ \A i, j \in 1 .. M : i < j => g[i] < g[j]

\* The items of a sequence, and some others between them, come no sooner, and use no less.
LEMMA SumsCompare ==
    ASSUME NEW M \in Nat, NEW s, \A k \in 1 .. M : s[k].size \in Nat,
           NEW N \in Nat, NEW t, \A k \in 1 .. N : t[k].size \in Nat,
           NEW f, AddsUp(f, s, M), NEW h, AddsUp(h, t, N),
           NEW g, Increasing(g, M, N), \A k \in 1 .. M : s[k] = t[g[k]]
    PROVE  \A i \in 1 .. M : i <= g[i] /\ f[i] <= h[g[i]]
<1> DEFINE Bad == {k \in 1 .. M : ~ (k <= g[k] /\ f[k] <= h[g[k]])}
           self == [k \in Bad |-> k]
<1>1. /\ f[0] = 0
      /\ \A k \in 0 .. M : f[k] \in Nat
      /\ \A k \in 1 .. M : f[k] = f[k - 1] + s[k].size
      /\ \A k \in 0 .. N : h[k] \in Nat
      /\ \A k \in 1 .. N : h[k] = h[k - 1] + t[k].size
  BY DEF AddsUp
<1>2. ASSUME Bad # {} PROVE FALSE
  <2>1. self \in [Bad -> Nat]
    OBVIOUS
  <2>2. PICK n \in Bad : \A m \in Bad : self[n] <= self[m]
    <3> HIDE DEF Bad, self
    <3> QED
      BY <1>2, <2>1, LeastElement
  <2>3. n \in 1 .. M /\ ~ (n <= g[n] /\ f[n] <= h[g[n]]) /\ \A m \in Bad : n <= m
    BY <2>2
  <2>4. g[n] \in 1 .. N /\ n \in 1 .. M
    BY <2>3 DEF Increasing
  <2>5. /\ f[n] = f[n - 1] + s[n].size /\ h[g[n]] = h[g[n] - 1] + s[n].size
        /\ s[n].size \in Nat
    BY <1>1, <2>4
  <2>6. f[n - 1] \in Nat /\ h[g[n] - 1] \in Nat
    BY <1>1, <2>4
  <2>7. CASE n = 1
    <3>1. f[n - 1] = 0
      BY <1>1, <2>7
    <3>2. n <= g[n]
      BY <2>4, <2>7
    <3> QED
      BY <2>3, <2>5, <2>6, <3>1, <3>2
  <2>8. CASE n # 1
    <3>1. n - 1 \in 1 .. M /\ n - 1 \notin Bad
      BY <2>3, <2>8
    <3>2. n - 1 <= g[n - 1] /\ f[n - 1] <= h[g[n - 1]]
      BY <3>1
    <3>3. g[n - 1] < g[n] /\ g[n - 1] \in 1 .. N
      BY <2>4, <3>1 DEF Increasing
    <3>4. g[n - 1] \in 0 .. N /\ g[n] - 1 \in g[n - 1] .. N
      BY <2>4, <3>3
    <3>5. h[g[n - 1]] <= h[g[n] - 1]
      BY <3>4, SumsGrow
    <3>6. h[g[n - 1]] \in Nat
      BY <1>1, <3>4
    <3>7. n <= g[n]
      BY <2>4, <3>2, <3>3
    <3>8. f[n] <= h[g[n]]
      BY <2>5, <2>6, <3>2, <3>5, <3>6
    <3> QED
      BY <2>3, <3>7, <3>8
  <2> QED
    BY <2>7, <2>8
<1> QED
  BY <1>2

\* k items fit, if they are not too many and, unless it is a single one, not too long.
Fits(items, k, budget, ceiling) ==
    /\ k \in 0 .. Len(items) /\ k <= ceiling
    /\ k > 1 => Used(items)[k] <= budget

\* k is the most that fits, and taken is the first k items.
Longest(k, taken, items, S, budget, ceiling) ==
    /\ Fits(items, k, budget, ceiling)
    /\ \A j \in 0 .. Len(items) : Fits(items, j, budget, ceiling) => j <= k
    /\ taken = SubSeq(items, 1, k)
    /\ taken \in Seq(S) /\ Len(taken) = k
    /\ \A i \in 1 .. k : taken[i] = items[i]
    /\ ToSet(taken) = {items[i] : i \in 1 .. k}

\* What is taken is the longest part from the front that fits.
LEMMA TakesTheLongest ==
    ASSUME NEW S, NEW items \in Seq(S), NEW budget, NEW ceiling \in Nat
    PROVE  \E k \in 0 .. Len(items) :
              Longest(k, TakeWithinBudget(items, budget, ceiling), items, S, budget, ceiling)
<1> DEFINE n == Len(items)
           fits == {k \in 0 .. n : k <= ceiling /\ (k > 1 => Used(items)[k] <= budget)}
           k == Max(fits)
           taken == SubSeq(items, 1, k)
<1>1. n \in Nat
  BY LenProperties
<1>2. fits \in SUBSET (0 .. n) /\ 0 \in fits
  BY <1>1
<1>3. k \in fits /\ \A j \in fits : k >= j
  <2> HIDE DEF fits, n
  <2> QED
    BY <1>1, <1>2, MaxOfBounded
<1>4. TakeWithinBudget(items, budget, ceiling) = taken
  BY DEF TakeWithinBudget
<1>5. Fits(items, k, budget, ceiling)
  <2> HIDE DEF k
  <2> QED
    BY <1>3 DEF Fits
<1>6. ASSUME NEW j \in 0 .. n, Fits(items, j, budget, ceiling) PROVE j <= k
  <2>1. j \in fits
    BY <1>6 DEF Fits
  <2> HIDE DEF k, fits
  <2> QED
    BY <1>1, <1>2, <1>3, <2>1
<1>7. k \in 0 .. n
  <2> HIDE DEF k
  <2> QED
    BY <1>3
<1> HIDE DEF k, fits
<1>8. \A i \in 1 .. k : items[i] \in S
  BY <1>1, <1>7, LenProperties
<1>9. /\ taken \in Seq(S) /\ Len(taken) = IF 1 <= k THEN k - 1 + 1 ELSE 0
      /\ \A i \in 1 .. k - 1 + 1 : taken[i] = items[1 + i - 1]
  <2>1. k \in Int /\ 1 \in Int
    BY <1>1, <1>7
  <2> QED
    BY <1>8, <2>1, SubSeqProperties
<1> HIDE DEF taken, n
<1>10. Len(taken) = k
  BY <1>1, <1>7, <1>9
<1>11. \A i \in 1 .. k : taken[i] = items[i]
  <2>1. ASSUME NEW i \in 1 .. k PROVE i \in 1 .. k - 1 + 1 /\ 1 + i - 1 = i
    BY <1>1, <1>7
  <2> QED
    BY <1>9, <2>1
<1>12. DOMAIN taken = 1 .. k
  BY <1>9, <1>10, LenProperties
<1>13. ToSet(taken) = {items[i] : i \in 1 .. k}
  BY <1>11, <1>12 DEF ToSet
<1>14. taken = SubSeq(items, 1, k)
  BY DEF taken
<1>15. \A j \in 0 .. Len(items) : Fits(items, j, budget, ceiling) => j <= k
  BY <1>6 DEF n
<1>16. Longest(k, taken, items, S, budget, ceiling)
  BY <1>5, <1>9, <1>10, <1>11, <1>13, <1>14, <1>15 DEF Longest
<1> QED
  BY <1>4, <1>7, <1>16 DEF n

--------------------------------------------------------------------------------
(* What a pool of nodes is cut to.                                              *)

Distinct(pool) ==
    /\ IsFiniteSet(pool)
    /\ \A n \in pool : n.display \in Nat /\ n.size \in Nat
    /\ \A m, n \in pool : m.display = n.display => m = n

NodesTaken(pool, answer) == TakeWithinBudget(NodesInOrder(pool, answer), EvidenceBudget, EvidenceCeiling)

Cut(pool, answer) == ToSet(NodesTaken(pool, answer))

\* The sequence that a pool is cut from.
PoolSorted(seq, pool, answer) ==
    /\ Cardinality(pool) \in Nat
    /\ seq \in Seq(pool) /\ Len(seq) = Cardinality(pool)
    /\ \A i \in 1 .. Cardinality(pool) : seq[i] \in pool /\ seq[i].size \in Nat
    /\ \A x \in pool : \E i \in 1 .. Cardinality(pool) : seq[i] = x
    /\ \A i, j \in 1 .. Cardinality(pool) : i < j <=> CompareNodes(seq[i], seq[j], answer)

LEMMA PoolIsSorted ==
    ASSUME NEW pool, Distinct(pool), NEW answer
    PROVE  PoolSorted(NodesInOrder(pool, answer), pool, answer)
<1> DEFINE seq == NodesInOrder(pool, answer)
           n == Cardinality(pool)
<1>1. n \in Nat
  BY FS_CardinalityType DEF Distinct
<1>2. LinearOn(pool, NodesBelow(pool, answer))
  BY NodesAreOrdered DEF Distinct
<1>3. InOrder(seq, pool, NodesBelow(pool, answer))
  BY <1>2, NodesAreSorted DEF Distinct
<1> HIDE DEF seq, n
<1>4. seq \in [1 .. n -> pool] /\ \A x \in pool : \E i \in 1 .. n : seq[i] = x
  BY <1>3 DEF InOrder, n
<1>5. seq \in Seq(pool)
  BY <1>1, <1>4
<1>6. Len(seq) = n
  <2>1. DOMAIN seq = 1 .. Len(seq) /\ Len(seq) \in Nat
    BY <1>5, LenProperties
  <2> QED
    BY <1>1, <1>4, <2>1
<1>7. ASSUME NEW i \in 1 .. n PROVE seq[i] \in pool /\ seq[i].size \in Nat
  BY <1>4 DEF Distinct
<1>8. ASSUME NEW i \in 1 .. n, NEW j \in 1 .. n
      PROVE  i < j <=> CompareNodes(seq[i], seq[j], answer)
  <2>1. i < j <=> seq[i] \in NodesBelow(pool, answer)[seq[j]]
    BY <1>3 DEF InOrder, n
  <2> QED
    BY <1>7, <2>1 DEF NodesBelow
<1>9. PoolSorted(seq, pool, answer)
  BY <1>1, <1>4, <1>5, <1>6, <1>7, <1>8 DEF PoolSorted, n
<1> QED
  BY <1>9 DEF seq

\* What is cut off comes after all that is kept, and of some nodes, some are kept.
LEMMA CutsTheLeast ==
    ASSUME NEW pool, Distinct(pool), NEW answer
    PROVE  /\ Cut(pool, answer) \subseteq pool
           /\ \A n \in Cut(pool, answer), m \in pool \ Cut(pool, answer) : CompareNodes(n, m, answer)
           /\ pool # {} => Cut(pool, answer) # {}
           /\ NodesTaken(pool, answer) \in Seq(pool)
<1> DEFINE seq == NodesInOrder(pool, answer)
           c == Cardinality(pool)
<1>1. /\ c \in Nat /\ seq \in Seq(pool) /\ Len(seq) = c
      /\ \A i \in 1 .. c : seq[i] \in pool /\ seq[i].size \in Nat
      /\ \A x \in pool : \E i \in 1 .. c : seq[i] = x
      /\ \A i, j \in 1 .. c : i < j <=> CompareNodes(seq[i], seq[j], answer)
  <2>1. PoolSorted(seq, pool, answer)
    BY PoolIsSorted
  <2> HIDE DEF seq
  <2> QED
    BY <2>1 DEF PoolSorted
<1> HIDE DEF seq, c
<1>2. EvidenceCeiling \in Nat \ {0}
  BY EvidenceAssumption
<1>3. PICK k \in 0 .. c :
         Longest(k, TakeWithinBudget(seq, EvidenceBudget, EvidenceCeiling), seq, pool, EvidenceBudget, EvidenceCeiling)
  BY <1>1, <1>2, TakesTheLongest
<1>4. Cut(pool, answer) = {seq[i] : i \in 1 .. k}
  BY <1>3 DEF Cut, NodesTaken, seq, Longest
<1>5. Cut(pool, answer) \subseteq pool
  BY <1>1, <1>3, <1>4
<1>6. ASSUME NEW n \in Cut(pool, answer), NEW m \in pool \ Cut(pool, answer)
      PROVE  CompareNodes(n, m, answer)
  <2>1. PICK i \in 1 .. k : n = seq[i]
    BY <1>4
  <2>2. PICK j \in 1 .. c : m = seq[j]
    BY <1>1
  <2>3. ~ (j \in 1 .. k)
    BY <1>4, <2>2
  <2>4. i < j /\ i \in 1 .. c
    BY <1>1, <1>3, <2>1, <2>2, <2>3
  <2> QED
    BY <1>1, <2>1, <2>2, <2>4
<1>7. ASSUME pool # {} PROVE Cut(pool, answer) # {}
  <2>1. c # 0
    BY <1>1, <1>7
  <2>2. Fits(seq, 1, EvidenceBudget, EvidenceCeiling)
    BY <1>1, <1>2, <2>1 DEF Fits
  <2>3. 1 \in 1 .. k
    BY <1>1, <1>3, <2>1, <2>2 DEF Longest
  <2> QED
    BY <1>4, <2>3
<1>8. NodesTaken(pool, answer) \in Seq(pool)
  BY <1>3 DEF NodesTaken, seq, Longest
<1> QED
  BY <1>5, <1>6, <1>7, <1>8

\* What is kept of a larger pool is kept of a smaller one.
LEMMA CutOfMore ==
    ASSUME NEW more, Distinct(more), NEW pool \in SUBSET more, NEW answer
    PROVE  Cut(more, answer) \cap pool \subseteq Cut(pool, answer)
<1> DEFINE s == NodesInOrder(pool, answer)
           t == NodesInOrder(more, answer)
           M == Cardinality(pool)
           N == Cardinality(more)
           g == [i \in 1 .. M |-> CHOOSE j \in 1 .. N : t[j] = s[i]]
<1>1. Distinct(pool)
  BY FS_Subset DEF Distinct
<1>2. /\ M \in Nat /\ s \in Seq(pool) /\ Len(s) = M
      /\ \A i \in 1 .. M : s[i] \in pool /\ s[i].size \in Nat
      /\ \A x \in pool : \E i \in 1 .. M : s[i] = x
      /\ \A i, j \in 1 .. M : i < j <=> CompareNodes(s[i], s[j], answer)
  <2>1. PoolSorted(s, pool, answer)
    BY <1>1, PoolIsSorted
  <2> HIDE DEF s, t, g
  <2> QED
    BY <2>1 DEF PoolSorted
<1>3. /\ N \in Nat /\ t \in Seq(more) /\ Len(t) = N
      /\ \A i \in 1 .. N : t[i] \in more /\ t[i].size \in Nat
      /\ \A x \in more : \E i \in 1 .. N : t[i] = x
      /\ \A i, j \in 1 .. N : i < j <=> CompareNodes(t[i], t[j], answer)
  <2>1. PoolSorted(t, more, answer)
    BY PoolIsSorted
  <2> HIDE DEF s, t, g
  <2> QED
    BY <2>1 DEF PoolSorted
<1> HIDE DEF s, t, M, N
<1>4. \A i \in 1 .. M : g[i] \in 1 .. N /\ t[g[i]] = s[i]
  BY <1>2, <1>3
<1>5. g \in [1 .. M -> 1 .. N]
  BY <1>4
<1> HIDE DEF g
<1>6. Increasing(g, M, N)
  <2>1. ASSUME NEW i \in 1 .. M, NEW j \in 1 .. M, i < j PROVE g[i] < g[j]
    <3>1. CompareNodes(s[i], s[j], answer)
      BY <1>2, <2>1
    <3>2. CompareNodes(t[g[i]], t[g[j]], answer) /\ g[i] \in 1 .. N /\ g[j] \in 1 .. N
      BY <1>4, <3>1
    <3> QED
      BY <1>3, <3>2
  <2> QED
    BY <1>5, <2>1 DEF Increasing
<1>7. AddsUp(Used(s), s, M)
  BY <1>2, UsedAddsUp
<1>8. AddsUp(Used(t), t, N)
  BY <1>3, UsedAddsUp
<1>9. \A i \in 1 .. M : i <= g[i] /\ Used(s)[i] <= Used(t)[g[i]]
  <2>1. \A i \in 1 .. M : s[i].size \in Nat
    BY <1>2
  <2>2. \A i \in 1 .. N : t[i].size \in Nat
    BY <1>3
  <2>3. \A i \in 1 .. M : s[i] = t[g[i]]
    BY <1>4
  <2>4. M \in Nat /\ N \in Nat
    BY <1>2, <1>3
  <2> QED
    BY <1>6, <1>7, <1>8, <2>1, <2>2, <2>3, <2>4, SumsCompare
<1>10. EvidenceCeiling \in Nat /\ EvidenceBudget \in Nat
  BY EvidenceAssumption
<1>11. PICK k \in 0 .. M :
          Longest(k, TakeWithinBudget(s, EvidenceBudget, EvidenceCeiling), s, pool, EvidenceBudget, EvidenceCeiling)
  BY <1>2, <1>10, TakesTheLongest
<1>12. PICK l \in 0 .. N :
          Longest(l, TakeWithinBudget(t, EvidenceBudget, EvidenceCeiling), t, more, EvidenceBudget, EvidenceCeiling)
  BY <1>3, <1>10, TakesTheLongest
<1>13. ASSUME NEW n \in Cut(more, answer), n \in pool PROVE n \in Cut(pool, answer)
  <2>1. PICK j \in 1 .. l : n = t[j]
    BY <1>12, <1>13 DEF Cut, NodesTaken, t, Longest
  <2>2. PICK i \in 1 .. M : n = s[i]
    BY <1>2, <1>13
  <2>3. j = g[i]
    <3>1. g[i] \in 1 .. N /\ j \in 1 .. N /\ t[g[i]] = t[j]
      BY <1>3, <1>4, <1>12, <2>1, <2>2
    <3>2. ~ (g[i] < j) /\ ~ (j < g[i])
      BY <1>3, <3>1
    <3> QED
      BY <3>1, <3>2
  <2>4. i <= j /\ Used(s)[i] <= Used(t)[j]
    BY <1>9, <2>3
  <2>5. /\ Used(s)[i] \in Nat /\ Used(t)[j] \in Nat /\ Used(t)[l] \in Nat
    <3>1. i \in 0 .. M /\ j \in 0 .. N /\ l \in 0 .. N
      BY <1>2, <1>3, <1>12
    <3>2. Used(s) \in [0 .. M -> Nat] /\ Used(t) \in [0 .. N -> Nat]
      BY <1>7, <1>8 DEF AddsUp
    <3> QED
      BY <3>1, <3>2
  <2>6. Used(t)[j] <= Used(t)[l]
    <3>1. j \in 0 .. N /\ l \in j .. N
      BY <1>3, <1>12
    <3> QED
      BY <1>3, <1>8, <3>1, SumsGrow
  <2>7. Fits(s, i, EvidenceBudget, EvidenceCeiling)
    <3>1. l <= EvidenceCeiling /\ (l > 1 => Used(t)[l] <= EvidenceBudget)
      BY <1>12 DEF Fits, Longest
    <3>2. i <= EvidenceCeiling
      BY <1>10, <2>4, <3>1
    <3>3. i > 1 => Used(s)[i] <= EvidenceBudget
      BY <1>10, <2>4, <2>5, <2>6, <3>1
    <3> QED
      BY <1>2, <3>2, <3>3 DEF Fits
  <2>8. i \in 1 .. k
    BY <1>2, <1>11, <2>7 DEF Longest
  <2> QED
    BY <1>11, <2>2, <2>8 DEF Cut, NodesTaken, s, Longest
<1> QED
  BY <1>13

--------------------------------------------------------------------------------
(* Hits, and the anchors that are chosen of them.                               *)

\* A finite set of numbers has a greatest one, which is Max of it.
LEMMA MaxOfFinite ==
    ASSUME NEW S \in SUBSET Nat, IsFiniteSet(S), S # {}
    PROVE  Max(S) \in S /\ \A y \in S : Max(S) >= y
<1> DEFINE below == [x \in S |-> {y \in S : y < x}]
           n == Cardinality(S)
<1>1. LinearOn(S, below)
  BY DEF LinearOn
<1>2. n \in Nat /\ n # 0
  <2>1. n \in Nat
    BY FS_CardinalityType
  <2>2. n # 0
    BY FS_EmptySet
  <2> QED
    BY <2>1, <2>2
<1>3. n \in 1 .. Cardinality(S)
  BY <1>2
<1>4. PICK x \in S : Cardinality(below[x]) = n - 1
  <2> HIDE DEF below
  <2>1. \A i \in 1 .. Cardinality(S) : \E x \in S : Cardinality(below[x]) = i - 1
    BY <1>1, EveryPlaceIsTaken
  <2> QED
    BY <1>3, <2>1
<1>5. ASSUME NEW y \in S PROVE x >= y
  <2>1. SUFFICES ASSUME x < y PROVE FALSE
    OBVIOUS
  <2>2. x \in below[y]
    BY <2>1
  <2> HIDE DEF below
  <2>3. \A u, v \in S : u \in below[v] <=> Cardinality(below[u]) < Cardinality(below[v])
    BY <1>1, FewerBelow
  <2>4. \A u \in S : Cardinality(below[u]) \in 0 .. (Cardinality(S) - 1)
    BY <1>1, FewerBelow
  <2> QED
    BY <1>2, <1>4, <2>2, <2>3, <2>4
<1> QED
  BY <1>5 DEF Max

LEMMA MinOfSome ==
    ASSUME NEW S \in SUBSET Nat, S # {}
    PROVE  Min(S) \in S /\ \A y \in S : Min(S) <= y
<1> DEFINE self == [x \in S |-> x]
<1>1. self \in [S -> Nat]
  OBVIOUS
<1>2. PICK a \in S : \A b \in S : self[a] <= self[b]
  <2> HIDE DEF self
  <2> QED
    BY <1>1, LeastElement
<1>3. \A b \in S : a <= b
  BY <1>2
<1> QED
  BY <1>3 DEF Min

\* The image of a finite set is finite.
LEMMA FiniteImage ==
    ASSUME NEW S, IsFiniteSet(S), NEW f, DOMAIN f = S
    PROVE  IsFiniteSet({f[x] : x \in S})
<1> DEFINE T == {f[x] : x \in S}
           g == [x \in S |-> f[x]]
<1>1. g \in Surjection(S, T)
  <2>1. g \in [S -> T]
    OBVIOUS
  <2>2. \A t \in T : \E x \in S : g[x] = t
    OBVIOUS
  <2> QED
    BY <2>1, <2>2 DEF Surjection
<1> HIDE DEF T, g
<1>2. IsFiniteSet(T)
  BY <1>1, FS_Surjection
<1> QED
  BY <1>2 DEF T

\* f adds up w over those subsets of S that it is defined on, as MapThenSumSet does.
AddsOver(f, w, sets) ==
    /\ f \in [sets -> Nat]
    /\ \A s \in sets : f[s] = IF s = {} THEN 0
                              ELSE w[CHOOSE x \in s : TRUE] + f[s \ {CHOOSE x \in s : TRUE}]

LEMMA SetSumsExist ==
    ASSUME NEW S, IsFiniteSet(S), NEW w \in [S -> Nat]
    PROVE  \E f : AddsOver(f, w, SUBSET S)
<1> DEFINE upTo(n) == {s \in SUBSET S : Cardinality(s) <= n}
           Bad == {n \in Nat : ~ \E f : AddsOver(f, w, upTo(n))}
           self == [n \in Bad |-> n]
<1>1. \A s \in SUBSET S : IsFiniteSet(s) /\ Cardinality(s) \in Nat /\ Cardinality(s) <= Cardinality(S)
  BY FS_Subset, FS_CardinalityType
<1>2. ASSUME NEW s \in SUBSET S, s # {}
      PROVE  LET x == CHOOSE x \in s : TRUE
             IN  x \in S /\ s \ {x} \in SUBSET S /\ Cardinality(s \ {x}) = Cardinality(s) - 1
  <2> DEFINE x == CHOOSE x \in s : TRUE
  <2>1. x \in s
    BY <1>2
  <2> HIDE DEF x
  <2>2. Cardinality(s \ {x}) = Cardinality(s) - 1
    BY <1>1, <2>1, FS_RemoveElement
  <2>3. x \in S /\ s \ {x} \in SUBSET S /\ Cardinality(s \ {x}) = Cardinality(s) - 1
    BY <2>1, <2>2
  <2> QED
    BY <2>3 DEF x
<1>3. ASSUME Bad # {} PROVE FALSE
  <2>1. self \in [Bad -> Nat]
    OBVIOUS
  <2>2. PICK n \in Bad : \A m \in Bad : self[n] <= self[m]
    <3> HIDE DEF Bad, self
    <3> QED
      BY <1>3, <2>1, LeastElement
  <2>3. n \in Nat /\ \A m \in Bad : n <= m
    BY <2>2
  <2>4. CASE n = 0
    <3> DEFINE f == [s \in upTo(0) |-> 0]
    <3>1. \A s \in upTo(0) : s = {}
      BY <1>1, FS_EmptySet
    <3>2. AddsOver(f, w, upTo(0))
      BY <3>1 DEF AddsOver
    <3> HIDE DEF f
    <3> QED
      BY <2>4, <3>2
  <2>5. CASE n # 0
    <3>1. n - 1 \in Nat /\ n - 1 \notin Bad
      <4> HIDE DEF Bad
      <4> QED
        BY <2>3, <2>5
    <3>2. PICK f : AddsOver(f, w, upTo(n - 1))
      BY <3>1
    <3> DEFINE pick(s) == CHOOSE x \in s : TRUE
               value(s) == IF s = {} THEN 0 ELSE w[pick(s)] + f[s \ {pick(s)}]
               g == [s \in upTo(n) |-> value(s)]
    <3>3. f \in [upTo(n - 1) -> Nat] /\ \A s \in upTo(n - 1) : f[s] = value(s)
      BY <3>2 DEF AddsOver
    <3>4. ASSUME NEW s \in upTo(n), s # {}
          PROVE  /\ pick(s) \in S /\ s \ {pick(s)} \in upTo(n - 1) /\ s \ {pick(s)} \in upTo(n)
      <4>1. pick(s) \in S /\ s \ {pick(s)} \in SUBSET S /\ Cardinality(s \ {pick(s)}) = Cardinality(s) - 1
        BY <1>2, <3>4
      <4>2. Cardinality(s) \in Nat /\ Cardinality(s) <= n
        BY <1>1
      <4> HIDE DEF pick
      <4> QED
        BY <2>3, <4>1, <4>2
    <3>5. ASSUME NEW s \in upTo(n - 1) PROVE g[s] = f[s]
      <4>1. s \in upTo(n)
        BY <1>1, <2>3
      <4> QED
        BY <3>3, <4>1
    <3>6. ASSUME NEW s \in upTo(n) PROVE value(s) \in Nat
      <4>1. CASE s = {}
        BY <4>1
      <4>2. CASE s # {}
        <5>1. pick(s) \in S /\ s \ {pick(s)} \in upTo(n - 1)
          BY <3>4, <4>2
        <5>2. w[pick(s)] \in Nat
          BY <5>1
        <5>3. f[s \ {pick(s)}] \in Nat
          BY <3>3, <5>1
        <5>4. value(s) = w[pick(s)] + f[s \ {pick(s)}]
          BY <4>2
        <5> HIDE DEF pick, value
        <5> QED
          BY <5>2, <5>3, <5>4
      <4> QED
        BY <4>1, <4>2
    <3>7. g \in [upTo(n) -> Nat]
      BY <3>6
    <3>8. ASSUME NEW s \in upTo(n)
          PROVE  g[s] = IF s = {} THEN 0 ELSE w[pick(s)] + g[s \ {pick(s)}]
      <4>1. CASE s = {}
        BY <4>1
      <4>2. CASE s # {}
        <5>1. s \ {pick(s)} \in upTo(n - 1)
          BY <3>4, <4>2
        <5>2. g[s \ {pick(s)}] = f[s \ {pick(s)}]
          BY <3>5, <5>1
        <5>3. g[s] = value(s)
          OBVIOUS
        <5> QED
          BY <4>2, <5>2, <5>3
      <4> QED
        BY <4>1, <4>2
    <3>9. AddsOver(g, w, upTo(n))
      <4> HIDE DEF g
      <4> QED
        BY <3>7, <3>8 DEF AddsOver
    <3> HIDE DEF g
    <3> QED
      BY <2>3, <3>9
  <2> QED
    BY <2>4, <2>5
<1>4. Cardinality(S) \in Nat
  BY FS_CardinalityType
<1>5. \E f : AddsOver(f, w, upTo(Cardinality(S)))
  BY <1>3, <1>4
<1>6. upTo(Cardinality(S)) = SUBSET S
  BY <1>1
<1> QED
  BY <1>5, <1>6

\* The sum over a finite set of what MapThenSumSet maps its members to is a number.
LEMMA RankIsNatural ==
    ASSUME NEW S, IsFiniteSet(S), \A p \in S : ReciprocalRank(p[2]) \in Nat
    PROVE  RankOf(S) \in Nat
<1> DEFINE w == [p \in S |-> ReciprocalRank(p[2])]
           pick(s) == CHOOSE x \in s : TRUE
           Sum == CHOOSE iter : iter = [s \in SUBSET S |->
                      IF s = {} THEN 0 ELSE ReciprocalRank(pick(s)[2]) + iter[s \ {pick(s)}]]
           Bad == {s \in SUBSET S : Sum[s] \notin Nat}
           size == [s \in Bad |-> Cardinality(s)]
<1>1. RankOf(S) = Sum[S]
  BY DEF RankOf, MapThenSumSet, MapThenFoldSet
<1>2. w \in [S -> Nat]
  OBVIOUS
<1>3. PICK f : AddsOver(f, w, SUBSET S)
  <2> HIDE DEF w
  <2> QED
    BY <1>2, SetSumsExist
<1>4. f = [s \in SUBSET S |-> IF s = {} THEN 0 ELSE ReciprocalRank(pick(s)[2]) + f[s \ {pick(s)}]]
  <2>1. ASSUME NEW s \in SUBSET S, s # {} PROVE pick(s) \in S
    BY <2>1
  <2>2. ASSUME NEW s \in SUBSET S
        PROVE  f[s] = IF s = {} THEN 0 ELSE ReciprocalRank(pick(s)[2]) + f[s \ {pick(s)}]
    <3>1. CASE s = {}
      BY <1>3, <3>1 DEF AddsOver
    <3>2. CASE s # {}
      <4>1. pick(s) \in S
        BY <2>1, <3>2
      <4>2. w[pick(s)] = ReciprocalRank(pick(s)[2])
        BY <4>1
      <4>3. f[s] = w[pick(s)] + f[s \ {pick(s)}]
        BY <1>3, <3>2 DEF AddsOver
      <4> QED
        BY <3>2, <4>2, <4>3
    <3> QED
      BY <3>1, <3>2
  <2>3. f \in [SUBSET S -> Nat]
    BY <1>3 DEF AddsOver
  <2> QED
    BY <2>2, <2>3
<1>5. Sum = [s \in SUBSET S |-> IF s = {} THEN 0 ELSE ReciprocalRank(pick(s)[2]) + Sum[s \ {pick(s)}]]
  BY <1>4
<1> HIDE DEF Sum
<1>6. ASSUME NEW s \in SUBSET S, s # {}
      PROVE  /\ pick(s) \in S /\ s \ {pick(s)} \in SUBSET S
             /\ Cardinality(s) \in Nat /\ Cardinality(s \ {pick(s)}) \in Nat
             /\ Cardinality(s \ {pick(s)}) < Cardinality(s)
  <2>1. IsFiniteSet(s)
    BY FS_Subset
  <2>2. pick(s) \in s
    BY <1>6
  <2> HIDE DEF pick
  <2>3. Cardinality(s \ {pick(s)}) = Cardinality(s) - 1 /\ IsFiniteSet(s \ {pick(s)})
    BY <2>1, <2>2, FS_RemoveElement
  <2>4. Cardinality(s) \in Nat /\ Cardinality(s \ {pick(s)}) \in Nat
    BY <2>1, <2>3, FS_CardinalityType
  <2> QED
    BY <2>2, <2>3, <2>4
<1>7. ASSUME Bad # {} PROVE FALSE
  <2>1. size \in [Bad -> Nat]
    <3>1. \A s \in SUBSET S : Cardinality(s) \in Nat
      BY FS_Subset, FS_CardinalityType
    <3> QED
      BY <3>1
  <2>2. PICK s \in Bad : \A t \in Bad : size[s] <= size[t]
    <3> HIDE DEF Bad, size
    <3> QED
      BY <1>7, <2>1, LeastElement
  <2>3. s \in SUBSET S /\ Sum[s] \notin Nat
    OBVIOUS
  <2>4. s # {}
    BY <1>5, <2>3
  <2>5. s \ {pick(s)} \notin Bad
    <3>1. Cardinality(s \ {pick(s)}) < Cardinality(s)
      BY <1>6, <2>3, <2>4
    <3>2. Cardinality(s \ {pick(s)}) \in Nat /\ Cardinality(s) \in Nat
      BY <1>6, <2>3, <2>4
    <3>3. \A t \in Bad : Cardinality(s) <= Cardinality(t)
      BY <2>2
    <3> HIDE DEF Bad, pick
    <3> QED
      BY <3>1, <3>2, <3>3
  <2>6. pick(s) \in S /\ s \ {pick(s)} \in SUBSET S
    BY <1>6, <2>3, <2>4
  <2>7. Sum[s \ {pick(s)}] \in Nat
    BY <2>5, <2>6
  <2>8. ReciprocalRank(pick(s)[2]) \in Nat
    BY <2>6
  <2>9. Sum[s] = ReciprocalRank(pick(s)[2]) + Sum[s \ {pick(s)}]
    BY <1>5, <2>3, <2>4
  <2> HIDE DEF pick
  <2> QED
    BY <2>3, <2>7, <2>8, <2>9
<1> QED
  BY <1>1, <1>7

ItemsAt(items, places) == {items[i] : i \in places}

\* The items at some places of a sequence are a sequence.
LEMMA PickedFacts ==
    ASSUME NEW n \in Nat, NEW places \in SUBSET (1 .. n), NEW S, NEW items, \A i \in places : items[i] \in S
    PROVE  /\ IsFiniteSet(places) /\ Cardinality(places) \in 0 .. n
           /\ Picked(items, places) \in Seq(S)
           /\ Len(Picked(items, places)) = Cardinality(places)
           /\ ToSet(Picked(items, places)) = ItemsAt(items, places)
<1> DEFINE order == Ascending(places)
           k == Cardinality(places)
           picked == Picked(items, places)
<1>1. IsFiniteSet(places) /\ InOrder(order, places, PlacesBelow(places))
  BY PlacesAscend
<1>2. k \in 0 .. n
  <2>1. \A a, b \in Int : IsFiniteSet(a .. b) /\ Cardinality(a .. b) = IF a > b THEN 0 ELSE b - a + 1
    BY FS_Interval
  <2>2. IsFiniteSet(1 .. n) /\ Cardinality(1 .. n) = n
    BY <2>1
  <2>3. Cardinality(places) <= Cardinality(1 .. n)
    BY <2>2, FS_Subset
  <2>4. Cardinality(places) \in Nat
    BY <1>1, FS_CardinalityType
  <2> QED
    BY <2>2, <2>3, <2>4
<1>3. order \in [1 .. k -> places] /\ \A x \in places : \E i \in 1 .. k : order[i] = x
  BY <1>1 DEF InOrder
<1> HIDE DEF order, k
<1>4. picked = [i \in 1 .. k |-> items[order[i]]]
  BY <1>3 DEF Picked, order
<1> HIDE DEF picked
<1>5. picked \in [1 .. k -> S]
  BY <1>3, <1>4
<1>6. picked \in Seq(S)
  BY <1>2, <1>5
<1>7. Len(picked) = k
  <2>1. DOMAIN picked = 1 .. Len(picked) /\ Len(picked) \in Nat
    BY <1>6, LenProperties
  <2> QED
    BY <1>2, <1>5, <2>1
<1>8. ToSet(picked) = ItemsAt(items, places)
  <2>1. ToSet(picked) = {picked[i] : i \in 1 .. k}
    BY <1>5 DEF ToSet
  <2>2. ToSet(picked) = {items[i] : i \in places}
    BY <1>3, <1>4, <2>1
  <2> QED
    BY <2>2 DEF ItemsAt
<1> QED
  BY <1>1, <1>2, <1>6, <1>7, <1>8 DEF k, picked

Hit == [node : Nodes, score : Nat]

ResultSets(rs) ==
    /\ rs \in Seq(Seq(Hit))
    /\ \A i \in DOMAIN rs : Len(rs[i]) <= MaxHits

AllPlaces(rs) == {p \in (DOMAIN rs) \X (1 .. MaxHits) : p[2] \in DOMAIN rs[p[1]]}

\* There are finitely many places, and every candidate was found at some.
LEMMA PlacesFacts ==
    ASSUME NEW rs, ResultSets(rs)
    PROVE  /\ IsFiniteSet(AllPlaces(rs))
           /\ \A p \in AllPlaces(rs) : /\ p[1] \in Nat /\ p[2] \in 1 .. MaxHits
                                       /\ rs[p[1]][p[2]].node \in Nodes /\ rs[p[1]][p[2]].score \in Nat
                                       /\ p = <<p[1], p[2]>>
           /\ Candidates(rs) = {rs[p[1]][p[2]].node : p \in AllPlaces(rs)}
           /\ \A n \in Candidates(rs) :
                 PlacesOf(n, rs) = {p \in AllPlaces(rs) : rs[p[1]][p[2]].node = n}
<1>1. MaxHits \in Nat
  BY EvidenceAssumption
<1>2. DOMAIN rs = 1 .. Len(rs) /\ Len(rs) \in Nat /\ \A i \in DOMAIN rs : rs[i] \in Seq(Hit)
  BY LenProperties DEF ResultSets
<1>3. ASSUME NEW i \in DOMAIN rs
      PROVE  /\ DOMAIN rs[i] \subseteq 1 .. MaxHits
             /\ \A j \in DOMAIN rs[i] : rs[i][j] \in Hit
  <2>1. rs[i] \in Seq(Hit) /\ Len(rs[i]) <= MaxHits
    BY <1>2 DEF ResultSets
  <2>2. DOMAIN rs[i] = 1 .. Len(rs[i]) /\ Len(rs[i]) \in Nat /\ rs[i] \in [1 .. Len(rs[i]) -> Hit]
    BY <2>1, LenProperties
  <2> QED
    BY <1>1, <2>1, <2>2
<1>4. IsFiniteSet(AllPlaces(rs))
  <2>1. \A a, b \in Int : IsFiniteSet(a .. b)
    BY FS_Interval
  <2>2. IsFiniteSet(DOMAIN rs) /\ IsFiniteSet(1 .. MaxHits)
    BY <1>1, <1>2, <2>1
  <2>3. IsFiniteSet((DOMAIN rs) \X (1 .. MaxHits))
    BY <2>2, FS_Product
  <2>4. AllPlaces(rs) \in SUBSET ((DOMAIN rs) \X (1 .. MaxHits))
    BY DEF AllPlaces
  <2> QED
    BY <2>3, <2>4, FS_Subset
<1>5. ASSUME NEW p \in AllPlaces(rs)
      PROVE  /\ p[1] \in DOMAIN rs /\ p[2] \in DOMAIN rs[p[1]] /\ p[1] \in Nat /\ p[2] \in 1 .. MaxHits
             /\ rs[p[1]][p[2]] \in Hit
             /\ p = <<p[1], p[2]>>
  <2>1. p[1] \in DOMAIN rs /\ p[2] \in 1 .. MaxHits /\ p[2] \in DOMAIN rs[p[1]] /\ p = <<p[1], p[2]>>
    BY DEF AllPlaces
  <2> QED
    BY <1>2, <1>3, <2>1
<1>6. Candidates(rs) = {rs[p[1]][p[2]].node : p \in AllPlaces(rs)}
  <2>1. ASSUME NEW n \in Candidates(rs)
        PROVE  \E p \in AllPlaces(rs) : n = rs[p[1]][p[2]].node
    <3>1. PICK i \in DOMAIN rs : n \in {h.node : h \in ToSet(rs[i])}
      BY DEF Candidates
    <3>2. PICK j \in DOMAIN rs[i] : n = rs[i][j].node
      BY <3>1 DEF ToSet
    <3>3. <<i, j>> \in AllPlaces(rs)
      BY <1>3 DEF AllPlaces
    <3> QED
      BY <3>2, <3>3
  <2>2. ASSUME NEW p \in AllPlaces(rs)
        PROVE  rs[p[1]][p[2]].node \in Candidates(rs)
    BY <1>5 DEF Candidates, ToSet
  <2> QED
    BY <2>1, <2>2
<1>7. ASSUME NEW n \in Candidates(rs)
      PROVE  PlacesOf(n, rs) = {p \in AllPlaces(rs) : rs[p[1]][p[2]].node = n}
  BY DEF PlacesOf, AllPlaces
<1> QED
  BY <1>4, <1>5, <1>6, <1>7 DEF Hit

\* No two places have the same number.
LEMMA NumbersDiffer ==
    ASSUME NEW a \in Nat, NEW b \in 1 .. MaxHits, NEW c \in Nat, NEW d \in 1 .. MaxHits,
           a * (MaxHits + 1) + b = c * (MaxHits + 1) + d
    PROVE  a = c /\ b = d
<1> DEFINE m == MaxHits + 1
<1>1. m \in Nat /\ b < m /\ d < m /\ b >= 1 /\ d >= 1
  BY EvidenceAssumption
<1> HIDE DEF m
<1>2. ASSUME NEW x \in Nat, NEW y \in Nat, x < y PROVE x * m + m <= y * m
  <2>1. PICK e \in Nat : y = x + 1 + e
    <3>1. y - x - 1 \in Nat /\ y = x + 1 + (y - x - 1)
      BY <1>2
    <3> QED
      BY <3>1
  <2>2. y * m = x * m + m + e * m
    BY <1>1, <2>1
  <2>3. e * m \in Nat /\ x * m \in Nat
    BY <1>1
  <2> QED
    BY <1>1, <2>2, <2>3
<1>3. a * m + b = c * m + d
  BY DEF m
<1>4. a * m \in Nat /\ c * m \in Nat
  BY <1>1
<1>5. ~ (a < c)
  BY <1>1, <1>2, <1>3, <1>4
<1>6. ~ (c < a)
  BY <1>1, <1>2, <1>3, <1>4
<1>7. a = c
  BY <1>5, <1>6
<1> QED
  BY <1>3, <1>4, <1>7

Ratings(rs) == {Rating(n, rs) : n \in Candidates(rs)}

\* Ratings are by numbers, the last of which tells candidates apart.
LEMMA RatingsDiffer ==
    ASSUME NEW rs, ResultSets(rs)
    PROVE  /\ IsFiniteSet(Candidates(rs)) /\ Candidates(rs) \subseteq Nodes
           /\ \A n \in Candidates(rs) :
                 /\ Rating(n, rs).node = n
                 /\ Rating(n, rs).rank \in Nat
                 /\ Rating(n, rs).best \in Nat
                 /\ Rating(n, rs).first \in Nat
           /\ \A m, n \in Candidates(rs) : Rating(m, rs).first = Rating(n, rs).first => m = n
<1> DEFINE P == AllPlaces(rs)
           number == [p \in P |-> p[1] * (MaxHits + 1) + p[2]]
           at(n) == {p \in P : rs[p[1]][p[2]].node = n}
<1>1. /\ IsFiniteSet(P)
      /\ \A p \in P : /\ p[1] \in Nat /\ p[2] \in 1 .. MaxHits
                      /\ rs[p[1]][p[2]].node \in Nodes /\ rs[p[1]][p[2]].score \in Nat
                      /\ p = <<p[1], p[2]>>
      /\ Candidates(rs) = {rs[p[1]][p[2]].node : p \in P}
      /\ \A n \in Candidates(rs) : PlacesOf(n, rs) = at(n)
  BY PlacesFacts
<1>2. MaxHits \in Nat \ {0}
  BY EvidenceAssumption
<1>3. \A p \in P : number[p] \in Nat
  BY <1>1, <1>2
<1>4. \A p, q \in P : number[p] = number[q] => p = q
  <2>1. ASSUME NEW p \in P, NEW q \in P, number[p] = number[q] PROVE p = q
    <3>1. p[1] * (MaxHits + 1) + p[2] = q[1] * (MaxHits + 1) + q[2]
      BY <2>1
    <3>2. p[1] \in Nat /\ q[1] \in Nat /\ p[2] \in 1 .. MaxHits /\ q[2] \in 1 .. MaxHits
      BY <1>1
    <3> HIDE DEF P
    <3>3. p[1] = q[1] /\ p[2] = q[2]
      BY <3>1, <3>2, NumbersDiffer
    <3> QED
      BY <1>1, <3>3
  <2> QED
    BY <2>1
<1> HIDE DEF P
<1>5. IsFiniteSet(Candidates(rs)) /\ Candidates(rs) \subseteq Nodes
  <2> DEFINE node == [p \in P |-> rs[p[1]][p[2]].node]
  <2>1. DOMAIN node = P
    OBVIOUS
  <2>2. Candidates(rs) = {node[p] : p \in P}
    BY <1>1
  <2> HIDE DEF node
  <2>3. IsFiniteSet({node[p] : p \in P})
    BY <1>1, <2>1, FiniteImage
  <2> QED
    BY <1>1, <2>2, <2>3
<1>6. ASSUME NEW n \in Candidates(rs)
      PROVE  /\ at(n) # {} /\ at(n) \in SUBSET P /\ IsFiniteSet(at(n))
             /\ Rating(n, rs) = [node |-> n, rank |-> RankOf(at(n)), best |-> BestOf(at(n), rs),
                                 first |-> FirstOf(at(n))]
  <2>1. at(n) # {} /\ at(n) \in SUBSET P
    BY <1>1
  <2>2. IsFiniteSet(at(n))
    <3> HIDE DEF at
    <3> QED
      BY <1>1, <2>1, FS_Subset
  <2> QED
    BY <1>1, <2>1, <2>2 DEF Rating
<1>7. ASSUME NEW n \in Candidates(rs) PROVE RankOf(at(n)) \in Nat
  <2>1. \A p \in at(n) : ReciprocalRank(p[2]) \in Nat
    <3>1. ASSUME NEW p \in at(n) PROVE ReciprocalRank(p[2]) \in Nat
      <4>1. 60 + p[2] \in Nat \ {0}
        BY <1>1, <1>2
      <4> QED
        BY <4>1 DEF ReciprocalRank
    <3> QED
      BY <3>1
  <2> HIDE DEF at
  <2> QED
    BY <1>6, <2>1, RankIsNatural
<1>8. ASSUME NEW n \in Candidates(rs) PROVE BestOf(at(n), rs) \in Nat
  <2> DEFINE score == [p \in at(n) |-> rs[p[1]][p[2]].score]
             scores == {score[p] : p \in at(n)}
  <2>1. DOMAIN score = at(n)
    OBVIOUS
  <2>2. scores \in SUBSET Nat /\ scores # {}
    <3>1. \A p \in at(n) : score[p] \in Nat
      BY <1>1
    <3>2. at(n) # {}
      BY <1>6
    <3> HIDE DEF at, score
    <3> QED
      BY <3>1, <3>2
  <2>3. scores = {rs[p[1]][p[2]].score : p \in at(n)}
    OBVIOUS
  <2> HIDE DEF score
  <2>4. IsFiniteSet(scores)
    <3> HIDE DEF at
    <3> QED
      BY <1>6, <2>1, FiniteImage
  <2> HIDE DEF scores
  <2>5. Max(scores) \in scores
    BY <2>2, <2>4, MaxOfFinite
  <2> QED
    BY <2>2, <2>3, <2>5 DEF BestOf
<1>9. ASSUME NEW n \in Candidates(rs)
      PROVE  \E p \in at(n) : FirstOf(at(n)) = number[p]
  <2> DEFINE numbers == {p[1] * (MaxHits + 1) + p[2] : p \in at(n)}
  <2>1. numbers = {number[p] : p \in at(n)}
    BY <1>6
  <2>2. numbers \in SUBSET Nat /\ numbers # {}
    <3>1. at(n) # {} /\ at(n) \in SUBSET P
      BY <1>6
    <3> HIDE DEF at, number, numbers
    <3> QED
      BY <1>3, <2>1, <3>1
  <2> HIDE DEF numbers, number
  <2>3. Min(numbers) \in numbers
    BY <2>2, MinOfSome
  <2>4. FirstOf(at(n)) = Min(numbers)
    BY DEF FirstOf, numbers
  <2> QED
    BY <2>1, <2>3, <2>4
<1>10. ASSUME NEW n \in Candidates(rs)
       PROVE  /\ Rating(n, rs).node = n
              /\ Rating(n, rs).rank \in Nat
              /\ Rating(n, rs).best \in Nat
              /\ Rating(n, rs).first \in Nat
  <2>1. FirstOf(at(n)) \in Nat
    <3> HIDE DEF number
    <3> QED
      BY <1>3, <1>6, <1>9
  <2> HIDE DEF at
  <2> QED
    BY <1>6, <1>7, <1>8, <2>1
<1>11. ASSUME NEW m \in Candidates(rs), NEW n \in Candidates(rs), Rating(m, rs).first = Rating(n, rs).first
       PROVE  m = n
  <2> HIDE DEF number
  <2>1. PICK p \in at(m) : FirstOf(at(m)) = number[p]
    BY <1>9
  <2>2. PICK q \in at(n) : FirstOf(at(n)) = number[q]
    BY <1>9
  <2>3. number[p] = number[q]
    <3>1. Rating(m, rs).first = FirstOf(at(m)) /\ Rating(n, rs).first = FirstOf(at(n))
      <4> HIDE DEF at
      <4> QED
        BY <1>6
    <3> HIDE DEF at
    <3> QED
      BY <1>11, <2>1, <2>2, <3>1
  <2>4. p = q
    BY <1>4, <2>3
  <2> QED
    BY <2>4
<1> QED
  BY <1>5, <1>10, <1>11

RatingsBelow(R) == [r \in R |-> {s \in R : Precedes(s, r)}]

\* Every candidate is ranked.
LEMMA CandidatesAreRanked ==
    ASSUME NEW rs, ResultSets(rs)
    PROVE  /\ RankedCandidates(rs) \in Seq(Candidates(rs))
           /\ ToSet(RankedCandidates(rs)) = Candidates(rs)
           /\ \A i, j \in DOMAIN RankedCandidates(rs) :
                 RankedCandidates(rs)[i] = RankedCandidates(rs)[j] => i = j
<1> DEFINE C == Candidates(rs)
           R == Ratings(rs)
           below == RatingsBelow(R)
           n == Cardinality(R)
           place == [i \in 1 .. n |-> CHOOSE x \in R : Cardinality({y \in R : Precedes(y, x)}) = i - 1]
           seq == SubSeq(place, 1, n)
           ranked == RankedCandidates(rs)
<1>1. /\ IsFiniteSet(C)
      /\ \A c \in C : /\ Rating(c, rs).node = c
                      /\ Rating(c, rs).rank \in Nat
                      /\ Rating(c, rs).best \in Nat
                      /\ Rating(c, rs).first \in Nat
      /\ \A c, d \in C : Rating(c, rs).first = Rating(d, rs).first => c = d
  BY RatingsDiffer
<1>2. IsFiniteSet(R)
  <2> DEFINE f == [c \in C |-> Rating(c, rs)]
  <2>1. DOMAIN f = C /\ R = {f[c] : c \in C}
    BY DEF Ratings
  <2> HIDE DEF f, C
  <2> QED
    BY <1>1, <2>1, FiniteImage
<1>3. /\ \A r \in R : r.node \in C /\ r.rank \in Nat /\ r.best \in Nat /\ r.first \in Nat
      /\ \A r, s \in R : r.first = s.first => r = s
      /\ \A r, s \in R : r.node = s.node => r = s
      /\ C = {r.node : r \in R}
  BY <1>1 DEF Ratings
<1>4. LinearOn(R, below)
  <2>1. \A r, s \in R : r \in below[s] <=> Precedes(r, s)
    BY DEF RatingsBelow
  <2>2. below \in [R -> SUBSET R]
    BY DEF RatingsBelow
  <2> HIDE DEF below, R, C
  <2>3. \A x \in R : x \notin below[x]
    BY <1>3, <2>1 DEF Precedes
  <2>4. \A x, y \in R : x = y \/ x \in below[y] \/ y \in below[x]
    BY <1>3, <2>1 DEF Precedes
  <2>5. ASSUME NEW x \in R, NEW y \in R, NEW z \in R, x \in below[y], y \in below[z]
        PROVE  x \in below[z]
    <3>1. Precedes(x, y) /\ Precedes(y, z)
      BY <2>1, <2>5
    <3>2. Precedes(x, z)
      BY <1>3, <3>1 DEF Precedes
    <3> QED
      BY <2>1, <3>2
  <2> QED
    BY <2>2, <2>3, <2>4, <2>5 DEF LinearOn
<1>5. ASSUME NEW i \in 1 .. n
      PROVE  place[i] \in R /\ Cardinality(below[place[i]]) = i - 1
  <2> HIDE DEF R
  <2>1. \A x \in R : below[x] = {y \in R : Precedes(y, x)}
    BY DEF RatingsBelow
  <2>2. \E x \in R : Cardinality(below[x]) = i - 1
    <3> HIDE DEF below
    <3> QED
      BY <1>2, <1>4, EveryPlaceIsTaken
  <2>3. \E x \in R : Cardinality({y \in R : Precedes(y, x)}) = i - 1
    BY <2>1, <2>2
  <2>4. place[i] \in R /\ Cardinality({y \in R : Precedes(y, place[i])}) = i - 1
    BY <2>3
  <2> QED
    BY <2>1, <2>4
<1>6. InOrder(seq, R, below)
  <2> HIDE DEF R, below, place
  <2> QED
    BY <1>2, <1>4, <1>5, PlacesAreInOrder
<1>7. ranked = [i \in DOMAIN seq |-> seq[i].node]
  BY DEF RankedCandidates, Sorted, Ratings
<1> HIDE DEF seq, R, below, ranked, place, C
<1>8. n \in Nat
  BY <1>2, FS_CardinalityType
<1>9. /\ seq \in [1 .. n -> R]
      /\ \A x \in R : \E i \in 1 .. n : seq[i] = x
      /\ \A i, j \in 1 .. n : i < j => seq[i] \in below[seq[j]]
  BY <1>6 DEF InOrder
<1> HIDE DEF n
<1>10. ranked \in [1 .. n -> C]
  BY <1>3, <1>7, <1>9
<1>11. ranked \in Seq(C)
  BY <1>8, <1>10
<1>12. ToSet(ranked) = C
  BY <1>3, <1>7, <1>9, <1>10 DEF ToSet
<1>13. ASSUME NEW i \in DOMAIN ranked, NEW j \in DOMAIN ranked, ranked[i] = ranked[j] PROVE i = j
  <2>1. i \in 1 .. n /\ j \in 1 .. n /\ seq[i] \in R /\ seq[j] \in R
    BY <1>9, <1>10
  <2>2. seq[i] = seq[j]
    BY <1>3, <1>7, <1>9, <1>13, <2>1
  <2>3. seq[i] \notin below[seq[j]] /\ seq[j] \notin below[seq[i]]
    BY <1>4, <2>1, <2>2 DEF LinearOn
  <2>4. ~ (i < j) /\ ~ (j < i)
    BY <1>9, <2>1, <2>3
  <2> QED
    BY <1>8, <2>1, <2>4
<1> QED
  BY <1>11, <1>12, <1>13 DEF C, ranked

\* Anchors are candidates.
LEMMA AnchorsAreCandidates ==
    ASSUME NEW rs, ResultSets(rs)
    PROVE  RankAnchorCandidates(rs) \in Seq(Candidates(rs))
<1> DEFINE sorted == RankedCandidates(rs)
<1>1. sorted \in Seq(Candidates(rs))
  BY CandidatesAreRanked
<1> HIDE DEF sorted
<1>2. DOMAIN sorted = 1 .. Len(sorted) /\ Len(sorted) \in Nat /\ \A i \in DOMAIN sorted : sorted[i] \in Candidates(rs)
  BY <1>1, LenProperties
<1>3. \E places \in SUBSET (DOMAIN sorted) : RankAnchorCandidates(rs) = Picked(sorted, places)
  BY DEF RankAnchorCandidates, sorted
<1>4. PICK places \in SUBSET (DOMAIN sorted) : RankAnchorCandidates(rs) = Picked(sorted, places)
  BY <1>3
<1>5. Picked(sorted, places) \in Seq(Candidates(rs))
  <2>1. places \in SUBSET (1 .. Len(sorted)) /\ \A i \in places : sorted[i] \in Candidates(rs)
    BY <1>2
  <2> QED
    BY <1>2, <2>1, PickedFacts
<1> QED
  BY <1>4, <1>5

--------------------------------------------------------------------------------
(* The invariant of a question: what the query holds is of the graphs, its       *)
(* evidence is what was read, refined, and as long as the graph stays as it is,  *)
(* what the reads were for is there.                                            *)

Hits == {hits \in Seq(Hit) : Len(hits) <= MaxHits}

\* Hits without comments.
PlainHit == {h \in Hit : h.node.label # "Comment"}
PlainHits == {hits \in Seq(PlainHit) : Len(hits) <= MaxHits}

SearchRecord == [status : {"pending", "fulfilled", "rejected"}, hits : Hits]

OfGraphs(evidence) ==
    /\ IsFiniteSet(evidence.nodes) /\ evidence.nodes \subseteq Nodes
    /\ IsFiniteSet(evidence.relationships) /\ evidence.relationships \subseteq Relationships

ServiceOK ==
    /\ stored \in Graphs /\ changes \in 0 .. MaxChanges
    /\ stage \in {"idle", "terms", "search", "count", "generate", "execute", "regenerate", "reexecute",
                  "support", "supportExecute", "comments", "relationships", "synthesize",
                  "fallback", "fallbackComments", "fallbackRelationships", "done", "rejected"}
    /\ searches \in Seq(SearchRecord)
    /\ cypher \in Cyphers \cup {NoCypher}
    /\ anchors \in Seq(Nodes)
    /\ OfGraphs(final) /\ OfGraphs(supporting)

\* What the evidence of a question is chosen from.
Pool(answer, support, candidates) ==
    LET base == MergeEvidence(answer, support)
    IN  base.nodes \cup
        {a \in ToSet(candidates) :
            \E r \in base.relationships :
               \/ r.startId = a.id /\ r.endId \in Ids(base.nodes)
               \/ r.endId = a.id /\ r.startId \in Ids(base.nodes)}

Kept == Cut(Pool(final, supporting, anchors), final)

AnswerOK ==
    /\ response.via \in {"none", "evidence", "failure", "fallback"}
    /\ stage \notin {"synthesize", "done"} => response = NoResponse
    /\ stage = "synthesize" => response.via = "evidence"
    /\ response.via = "none" => response = NoResponse
    /\ response.via \in {"failure", "fallback"} => response.evidence = RefineQueryEvidence(None, None, anchors)
    /\ response.via = "evidence" => response.evidence = RefineQueryEvidence(final, supporting, anchors)
    /\ payload # NoEvidence =>
          stage = "done" /\ response.via = "evidence" /\ payload = BuildAnswerEvidencePayload(response.evidence)

\* Since the comments were read, those of the kept tasks of the answer are there.
CommentsRead ==
    changes = 0 /\ (stage \in {"relationships", "fallbackRelationships"} \/ response.via = "evidence") =>
        TaskComments(Kept \cap final.nodes).nodes \subseteq supporting.nodes

\* Since the relationships were read, those with an end that had been read are there.
RelationshipsRead ==
    /\ changes = 0 => final.relationships \cup supporting.relationships \subseteq stored.relationships
    /\ changes = 0 /\ response.via = "evidence" =>
          \A r \in stored.relationships :
             /\ {r.startId, r.endId} \subseteq Ids(Kept)
             /\ {r.startId, r.endId} \cap Ids(final.nodes \cup supporting.nodes) # {}
             => r \in final.relationships \cup supporting.relationships

QueryInv == ServiceOK /\ AnswerOK /\ CommentsRead /\ RelationshipsRead

\* Evidence that is merged is still of the graphs.
LEMMA MergedIsOfGraphs ==
    ASSUME NEW a, OfGraphs(a), NEW b, OfGraphs(b)
    PROVE  OfGraphs(MergeEvidence(a, b))
<1>1. IsFiniteSet(a.nodes \cup b.nodes) /\ IsFiniteSet(a.relationships \cup b.relationships)
  BY FS_Union DEF OfGraphs
<1> QED
  BY <1>1 DEF OfGraphs, MergeEvidence

\* What is stored is of the graphs, and so is what is read of it.
LEMMA StoredIsOfGraphs ==
    ASSUME stored \in Graphs, NEW e, e.nodes \subseteq stored.nodes, e.relationships \subseteq stored.relationships
    PROVE  OfGraphs(e)
<1>1. IsFiniteSet(stored.nodes) /\ IsFiniteSet(stored.relationships)
  BY QueryAssumption
<1>2. IsFiniteSet(e.nodes) /\ IsFiniteSet(e.relationships)
  BY <1>1, FS_Subset
<1> QED
  BY <1>2 DEF OfGraphs, Nodes, Relationships

LEMMA NoneIsOfGraphs == OfGraphs(None)
<1>1. IsFiniteSet({})
  BY FS_EmptySet
<1> QED
  BY <1>1 DEF OfGraphs, None

\* Nodes of the graphs are told apart by what is displayed.
LEMMA PoolIsDistinct ==
    ASSUME NEW a, OfGraphs(a), NEW s, OfGraphs(s), NEW chosen \in Seq(Nodes)
    PROVE  /\ Distinct(Pool(a, s, chosen))
           /\ Pool(a, s, chosen) \subseteq Nodes
           /\ a.nodes \cup s.nodes \subseteq Pool(a, s, chosen)
           /\ Pool(a, s, chosen) \subseteq a.nodes \cup s.nodes \cup ToSet(chosen)
<1> DEFINE base == MergeEvidence(a, s)
           tied == {c \in ToSet(chosen) : \E r \in base.relationships :
                       \/ r.startId = c.id /\ r.endId \in Ids(base.nodes)
                       \/ r.endId = c.id /\ r.startId \in Ids(base.nodes)}
           pool == Pool(a, s, chosen)
<1>1. pool = a.nodes \cup s.nodes \cup tied
  BY DEF Pool, MergeEvidence
<1>2. ToSet(chosen) \subseteq Nodes /\ IsFiniteSet(ToSet(chosen))
  <2>1. DOMAIN chosen = 1 .. Len(chosen) /\ Len(chosen) \in Nat /\ \A i \in DOMAIN chosen : chosen[i] \in Nodes
    BY LenProperties
  <2>2. IsFiniteSet(1 .. Len(chosen))
    BY <2>1, FS_Interval
  <2>3. IsFiniteSet({chosen[i] : i \in DOMAIN chosen})
    BY <2>1, <2>2, FiniteImage
  <2> QED
    BY <2>1, <2>3 DEF ToSet
<1>3. IsFiniteSet(pool)
  <2>1. tied \in SUBSET ToSet(chosen)
    OBVIOUS
  <2> HIDE DEF tied
  <2>2. IsFiniteSet(tied)
    BY <1>2, <2>1, FS_Subset
  <2>3. IsFiniteSet(a.nodes \cup s.nodes)
    BY FS_Union DEF OfGraphs
  <2>4. IsFiniteSet(a.nodes \cup s.nodes \cup tied)
    BY <2>2, <2>3, FS_Union
  <2> QED
    BY <1>1, <2>4
<1>4. pool \subseteq Nodes
  BY <1>1, <1>2 DEF OfGraphs
<1>5. Distinct(pool)
  BY <1>3, <1>4, QueryAssumption DEF Distinct
<1> QED
  BY <1>1, <1>4, <1>5

\* Evidence is what the pool is cut to, and all relationships there between it.
LEMMA RefinedFacts ==
    ASSUME NEW a, OfGraphs(a), NEW s, OfGraphs(s), NEW chosen \in Seq(Nodes)
    PROVE  LET refined == RefineQueryEvidence(a, s, chosen)
               cut == Cut(Pool(a, s, chosen), a)
           IN  /\ refined.nodes = NodesTaken(Pool(a, s, chosen), a)
               /\ refined.nodes \in Seq(Nodes)
               /\ ToSet(refined.nodes) = cut
               /\ refined.relationships \in Seq(a.relationships \cup s.relationships)
               /\ ToSet(refined.relationships) =
                     {r \in a.relationships \cup s.relationships : {r.startId, r.endId} \subseteq Ids(cut)}
               /\ (refined.nodes = <<>> <=> cut = {})
<1> DEFINE refined == RefineQueryEvidence(a, s, chosen)
           pool == Pool(a, s, chosen)
           cut == Cut(pool, a)
           rels == a.relationships \cup s.relationships
           among == {r \in rels : {r.startId, r.endId} \subseteq Ids(cut)}
<1>1. Distinct(pool) /\ pool \subseteq Nodes
  BY PoolIsDistinct
<1>2. refined.nodes = NodesTaken(pool, a)
  BY DEF RefineQueryEvidence, Pool, NodesTaken
<1>3. refined.relationships = RelationshipsInOrder(among, a)
  BY DEF RefineQueryEvidence, Pool, NodesTaken, Cut, MergeEvidence
<1>4. refined.nodes \in Seq(Nodes) /\ ToSet(refined.nodes) = cut
  <2>1. NodesTaken(pool, a) \in Seq(pool)
    <3> HIDE DEF pool
    <3> QED
      BY <1>1, CutsTheLeast
  <2> HIDE DEF pool, refined
  <2>2. NodesTaken(pool, a) \in Seq(Nodes)
    BY <1>1, <2>1
  <2> QED
    BY <1>2, <2>2 DEF Cut
<1>5. IsFiniteSet(among) /\ among \subseteq Relationships
  <2>1. IsFiniteSet(rels) /\ rels \subseteq Relationships
    BY FS_Union DEF OfGraphs
  <2>2. among \in SUBSET rels
    OBVIOUS
  <2> HIDE DEF among, rels
  <2> QED
    BY <2>1, <2>2, FS_Subset
<1>6. InOrder(RelationshipsInOrder(among, a), among, RelationshipsBelow(among, a))
  <2> HIDE DEF among
  <2>1. (\A r \in among : r.id \in Nat) /\ (\A r, t \in among : r.id = t.id => r = t)
    BY <1>5, QueryAssumption
  <2>2. LinearOn(among, RelationshipsBelow(among, a))
    BY <2>1, RelationshipsAreOrdered
  <2> QED
    BY <1>5, <2>2, RelationshipsAreSorted
<1>7. Cardinality(among) \in Nat
  <2> HIDE DEF among
  <2> QED
    BY <1>5, FS_CardinalityType
<1>8. refined.relationships \in Seq(among) /\ ToSet(refined.relationships) = among
  <2> HIDE DEF among, refined
  <2>1. /\ refined.relationships \in [1 .. Cardinality(among) -> among]
        /\ \A x \in among : \E i \in 1 .. Cardinality(among) : refined.relationships[i] = x
    BY <1>3, <1>6 DEF InOrder
  <2> QED
    BY <1>7, <2>1 DEF ToSet
<1>9. refined.nodes = <<>> <=> cut = {}
  <2> HIDE DEF refined, cut
  <2>1. DOMAIN refined.nodes = 1 .. Len(refined.nodes) /\ Len(refined.nodes) \in Nat
    BY <1>4, LenProperties
  <2>2. cut = {refined.nodes[i] : i \in 1 .. Len(refined.nodes)}
    BY <1>4, <2>1 DEF ToSet
  <2>3. cut = {} <=> Len(refined.nodes) = 0
    <3> DEFINE k == Len(refined.nodes)
    <3>1. k \in Nat /\ cut = {refined.nodes[i] : i \in 1 .. k}
      BY <2>1, <2>2
    <3> HIDE DEF k
    <3>2. k = 0 => cut = {}
      BY <3>1
    <3>3. k # 0 => refined.nodes[1] \in cut
      BY <3>1
    <3>4. cut = {} <=> k = 0
      BY <3>2, <3>3
    <3> QED
      BY <3>4 DEF k
  <2>4. refined.nodes = <<>> <=> Len(refined.nodes) = 0
    BY <1>4
  <2> QED
    BY <2>3, <2>4
<1>10. refined.relationships \in Seq(rels)
  BY <1>8
<1> QED
  BY <1>2, <1>4, <1>8, <1>9, <1>10

--------------------------------------------------------------------------------
(* Searches.                                                                    *)

LEMMA HitListFacts ==
    ASSUME NEW hits \in Hits
    PROVE  /\ hits \in Seq(Hit) /\ DOMAIN hits = 1 .. Len(hits) /\ Len(hits) \in Nat /\ Len(hits) <= MaxHits
           /\ \A i \in DOMAIN hits : hits[i] \in Hit
  BY LenProperties DEF Hits

\* Some of the hits are hits.
LEMMA SomeHitsAreHits ==
    ASSUME NEW hits \in Hits, NEW places \in SUBSET (DOMAIN hits), NEW items, \A i \in places : items[i] \in PlainHit
    PROVE  Picked(items, places) \in PlainHits
<1>1. DOMAIN hits = 1 .. Len(hits) /\ Len(hits) \in Nat /\ Len(hits) <= MaxHits
  BY HitListFacts
<1>2. /\ Cardinality(places) \in 0 .. Len(hits)
      /\ Picked(items, places) \in Seq(PlainHit)
      /\ Len(Picked(items, places)) = Cardinality(places)
  BY <1>1, PickedFacts
<1>3. MaxHits \in Nat
  BY EvidenceAssumption
<1> QED
  BY <1>1, <1>2, <1>3 DEF PlainHits

LEMMA PlainHitsAreHits ==
    PlainHits \subseteq Hits
<1>1. PlainHit \subseteq Hit
  BY DEF PlainHit
<1>2. Seq(PlainHit) \subseteq Seq(Hit)
  BY <1>1
<1> QED
  BY <1>2 DEF PlainHits, Hits

\* Promoting the hits on comments leaves hits, and none on a comment.
LEMMA PromotedAreHits ==
    ASSUME NEW hits \in Hits, NEW parents,
           \A id \in DOMAIN parents : parents[id] \in Nodes /\ parents[id].label = "Task"
    PROVE  PromoteCommentAnchors(hits, parents) \in PlainHits
<1> DEFINE owned == {i \in DOMAIN hits : IsComment(hits[i]) => hits[i].node.id \in DOMAIN parents}
           node(i) == IF IsComment(hits[i]) THEN parents[hits[i].node.id] ELSE hits[i].node
           same(i) == {j \in owned : node(j) = node(i)}
           scores(i) == {hits[j].score : j \in same(i)}
           promoted == [i \in owned |-> [node |-> node(i), score |-> Max(scores(i))]]
           firsts == {i \in owned : \A j \in same(i) : i <= j}
<1>1. PromoteCommentAnchors(hits, parents) = Picked(promoted, firsts)
  BY DEF PromoteCommentAnchors
<1>2. DOMAIN hits = 1 .. Len(hits) /\ Len(hits) \in Nat /\ \A i \in DOMAIN hits : hits[i] \in Hit
  BY HitListFacts
<1>3. ASSUME NEW i \in owned PROVE node(i) \in Nodes /\ node(i).label # "Comment"
  BY <1>2 DEF Hit, IsComment
<1>4. ASSUME NEW i \in owned PROVE Max(scores(i)) \in Nat
  <2> DEFINE score == [j \in same(i) |-> hits[j].score]
  <2>1. DOMAIN score = same(i) /\ scores(i) = {score[j] : j \in same(i)}
    OBVIOUS
  <2>2. same(i) \in SUBSET (1 .. Len(hits)) /\ same(i) # {}
    BY <1>2
  <2>3. \A j \in same(i) : hits[j].score \in Nat
    BY <1>2 DEF Hit
  <2>4. scores(i) \in SUBSET Nat /\ scores(i) # {}
    BY <2>2, <2>3
  <2>5. IsFiniteSet(1 .. Len(hits))
    BY <1>2, FS_Interval
  <2> HIDE DEF same, score
  <2>6. IsFiniteSet(same(i))
    BY <2>2, <2>5, FS_Subset
  <2>7. IsFiniteSet({score[j] : j \in same(i)})
    BY <2>1, <2>6, FiniteImage
  <2>8. IsFiniteSet(scores(i))
    BY <2>1, <2>7
  <2> HIDE DEF scores
  <2>9. Max(scores(i)) \in scores(i)
    BY <2>4, <2>8, MaxOfFinite
  <2> QED
    BY <2>4, <2>9
<1>5. \A i \in firsts : promoted[i] \in PlainHit
  <2>1. ASSUME NEW i \in owned PROVE promoted[i] \in PlainHit
    <3>1. node(i) \in Nodes /\ Max(scores(i)) \in Nat /\ node(i).label # "Comment"
      BY <1>3, <1>4
    <3>2. promoted[i] = [node |-> node(i), score |-> Max(scores(i))]
      OBVIOUS
    <3> HIDE DEF node, scores, promoted
    <3> QED
      BY <3>1, <3>2 DEF Hit, PlainHit
  <2> HIDE DEF promoted, same
  <2> QED
    BY <2>1
<1>6. firsts \in SUBSET (DOMAIN hits)
  OBVIOUS
<1> HIDE DEF promoted, firsts
<1>7. Picked(promoted, firsts) \in PlainHits
  BY <1>5, <1>6, SomeHitsAreHits
<1> QED
  BY <1>1, <1>7

LEMMA ParentsAreTasks ==
    ASSUME stored \in Graphs, NEW ids
    PROVE  \A id \in DOMAIN CommentParentTasks(ids) :
              CommentParentTasks(ids)[id] \in Nodes /\ CommentParentTasks(ids)[id].label = "Task"
<1> DEFINE owner(id, t) == \E r \in stored.relationships : r.type = "HAS_COMMENT" /\ r.startId = t.id /\ r.endId = id
           tasks == Labelled(stored.nodes, "Task")
           owned == {id \in ids : \E t \in tasks : owner(id, t)}
           parents == CommentParentTasks(ids)
<1>1. parents = [id \in owned |-> CHOOSE t \in tasks : owner(id, t)]
  BY DEF CommentParentTasks
<1>2. ASSUME NEW id \in owned PROVE parents[id] \in tasks
  <2>1. \E t \in tasks : owner(id, t)
    OBVIOUS
  <2>2. parents[id] = CHOOSE t \in tasks : owner(id, t)
    BY <1>1
  <2> HIDE DEF owner, parents, tasks
  <2> QED
    BY <2>1, <2>2
<1>3. DOMAIN parents = owned
  BY <1>1
<1> HIDE DEF parents, owned
<1> QED
  BY <1>2, <1>3 DEF Nodes, Labelled, parents

LEMMA SearchFacts ==
    ASSUME searches \in Seq(SearchRecord)
    PROVE  /\ DOMAIN searches = 1 .. Len(searches) /\ Len(searches) \in Nat
           /\ \A i \in DOMAIN searches : searches[i] \in SearchRecord
  BY LenProperties

\* The terms that are searched for are as many as there are different ones.
LEMMA TermsAreSearched ==
    ASSUME NEW terms \in TermLists \cup {<<>>}
    PROVE  [i \in DOMAIN UniqueTerms(Append(terms, Question)) |-> Search("pending", <<>>)] \in Seq(SearchRecord)
<1> DEFINE all == Append(terms, Question)
           T == ToSet(terms) \cup {Question}
           places == {i \in DOMAIN all : \A j \in 1 .. (i - 1) : all[j] # all[i]}
<1>1. terms \in Seq(ToSet(terms))
  <2>1. CASE terms \in TermLists
    BY <2>1, QueryAssumption
  <2>2. CASE terms = <<>>
    BY <2>2
  <2> QED
    BY <2>1, <2>2
<1>2. all \in Seq(T)
  <2>1. terms \in Seq(T)
    BY <1>1
  <2> HIDE DEF T
  <2>2. Question \in T
    BY DEF T
  <2> QED
    BY <2>1, <2>2
<1> HIDE DEF all, T
<1>3. DOMAIN all = 1 .. Len(all) /\ Len(all) \in Nat /\ \A i \in DOMAIN all : all[i] \in T
  BY <1>2, LenProperties
<1>4. UniqueTerms(all) = Picked(all, places)
  BY DEF UniqueTerms
<1>5. places \in SUBSET (1 .. Len(all)) /\ \A i \in places : all[i] \in T
  BY <1>3
<1> HIDE DEF places
<1>6. Picked(all, places) \in Seq(T)
  BY <1>3, <1>5, PickedFacts
<1>7. DOMAIN UniqueTerms(all) = 1 .. Len(UniqueTerms(all)) /\ Len(UniqueTerms(all)) \in Nat
  BY <1>4, <1>6, LenProperties
<1>8. Search("pending", <<>>) \in SearchRecord
  BY EvidenceAssumption DEF Search, SearchRecord, Hits
<1>9. [i \in DOMAIN UniqueTerms(all) |-> Search("pending", <<>>)] \in Seq(SearchRecord)
  BY <1>7, <1>8
<1> QED
  BY <1>9 DEF all

\* The hits that anchors are ranked by.
LEMMA FoundAreResultSets ==
    ASSUME ServiceOK, PromoteCommentHits
    PROVE  /\ ResultSets(found') /\ anchors' = RankAnchorCandidates(found')
           /\ Labelled(Candidates(found'), "Comment") = {}
<1> DEFINE places == {i \in DOMAIN searches : searches[i].status = "fulfilled"}
           settled == Picked(searches, places)
           fulfilled == [i \in DOMAIN settled |-> settled[i].hits]
           parents == CommentParentTasks(Ids({n \in Candidates(fulfilled) : n.label = "Comment"}))
<1>1. stored \in Graphs /\ searches \in Seq(SearchRecord)
  BY DEF ServiceOK
<1>2. /\ DOMAIN searches = 1 .. Len(searches) /\ Len(searches) \in Nat
      /\ \A i \in DOMAIN searches : searches[i] \in SearchRecord
  BY <1>1, SearchFacts
<1>3. settled \in Seq(SearchRecord)
  <2>1. places \in SUBSET (1 .. Len(searches)) /\ \A i \in places : searches[i] \in SearchRecord
    BY <1>2
  <2> HIDE DEF places
  <2> QED
    BY <1>2, <2>1, PickedFacts
<1> HIDE DEF settled
<1>4. DOMAIN settled = 1 .. Len(settled) /\ Len(settled) \in Nat /\ \A i \in DOMAIN settled : settled[i] \in SearchRecord
  BY <1>3, LenProperties
<1>5. DOMAIN fulfilled = 1 .. Len(settled) /\ \A i \in DOMAIN fulfilled : fulfilled[i] \in Hits
  BY <1>4 DEF SearchRecord
<1>6. found' \in {[i \in DOMAIN fulfilled |-> PromoteCommentAnchors(fulfilled[i], parents)],
                  DropCommentHits(fulfilled)}
      /\ anchors' = RankAnchorCandidates(found')
  BY DEF PromoteCommentHits, settled
<1> HIDE DEF fulfilled
<1>7. \A id \in DOMAIN parents : parents[id] \in Nodes /\ parents[id].label = "Task"
  BY <1>1, ParentsAreTasks
<1> HIDE DEF parents
<1>8. ASSUME NEW i \in DOMAIN fulfilled
      PROVE  /\ PromoteCommentAnchors(fulfilled[i], parents) \in PlainHits
             /\ DropCommentHits(fulfilled)[i] \in PlainHits
  <2>1. fulfilled[i] \in Hits
    BY <1>5
  <2>2. PromoteCommentAnchors(fulfilled[i], parents) \in PlainHits
    BY <1>7, <2>1, PromotedAreHits
  <2> DEFINE kept == {k \in DOMAIN fulfilled[i] : ~IsComment(fulfilled[i][k])}
  <2>3. DropCommentHits(fulfilled)[i] = Picked(fulfilled[i], kept)
    BY DEF DropCommentHits
  <2>4. kept \in SUBSET (DOMAIN fulfilled[i]) /\ \A k \in kept : fulfilled[i][k] \in PlainHit
    BY <2>1, HitListFacts DEF PlainHit, IsComment
  <2> HIDE DEF kept
  <2>5. Picked(fulfilled[i], kept) \in PlainHits
    BY <2>1, <2>4, SomeHitsAreHits
  <2> QED
    BY <2>2, <2>3, <2>5
<1>9. found' \in [1 .. Len(settled) -> PlainHits]
  <2>1. DropCommentHits(fulfilled) = [i \in DOMAIN fulfilled |-> DropCommentHits(fulfilled)[i]]
    BY DEF DropCommentHits
  <2> QED
    BY <1>5, <1>6, <1>8, <2>1
<1>10. found' \in Seq(Hits) /\ found' \in [1 .. Len(settled) -> Hits]
  BY <1>4, <1>9, PlainHitsAreHits
<1>11. found' \in Seq(Seq(Hit)) /\ \A i \in DOMAIN found' : Len(found'[i]) <= MaxHits
  BY <1>4, <1>10 DEF Hits
<1>12. ASSUME NEW n \in Candidates(found') PROVE n.label # "Comment"
  <2>1. PICK i \in DOMAIN found' : \E h \in ToSet(found'[i]) : n = h.node
    BY DEF Candidates
  <2>2. PICK k \in DOMAIN found'[i] : n = found'[i][k].node
    BY <2>1 DEF ToSet
  <2>3. found'[i] \in Seq(PlainHit)
    BY <1>9 DEF PlainHits
  <2>4. found'[i][k] \in PlainHit
    BY <2>3, LenProperties
  <2> QED
    BY <2>2, <2>4 DEF PlainHit
<1> QED
  BY <1>6, <1>11, <1>12 DEF ResultSets, Labelled

--------------------------------------------------------------------------------
(* The steps of a question.                                                     *)

LEMMA NoHitsAreHits == <<>> \in Hits
  BY EvidenceAssumption DEF Hits

LEMMA ListedHitsAreHits ==
    ASSUME NEW hits \in HitLists
    PROVE  hits \in Hits
  BY QueryAssumption DEF Hits, Hit

LEMMA RowsAreOfGraphs ==
    ASSUME ServiceOK, NEW rows \in Rows
    PROVE  OfGraphs(rows)
<1>1. stored \in Graphs /\ rows.nodes \subseteq stored.nodes /\ rows.relationships \subseteq stored.relationships
  BY DEF ServiceOK, Rows, Stored
<1> QED
  BY <1>1, StoredIsOfGraphs

\* What fits of what is still there of the anchors, comments and relationships.
LEMMA ReadIsOfGraphs ==
    ASSUME ServiceOK, NEW nodes, NEW ids, NEW others
    PROVE  /\ OfGraphs([None EXCEPT !.nodes = nodes \cap stored.nodes])
           /\ OfGraphs(MergeEvidence(supporting, TaskComments(nodes)))
           /\ OfGraphs(MergeEvidence(supporting, [None EXCEPT !.relationships = RelationshipsBetween(ids, others)]))
<1>1. stored \in Graphs /\ OfGraphs(supporting)
  BY DEF ServiceOK
<1>2. OfGraphs([None EXCEPT !.nodes = nodes \cap stored.nodes])
  <2> DEFINE e == [None EXCEPT !.nodes = nodes \cap stored.nodes]
  <2>1. e.nodes \subseteq stored.nodes /\ e.relationships \subseteq stored.relationships
    BY DEF None
  <2> HIDE DEF e
  <2> QED
    BY <1>1, <2>1, StoredIsOfGraphs DEF e
<1>3. OfGraphs(TaskComments(nodes))
  <2>1. TaskComments(nodes).nodes \subseteq stored.nodes /\ TaskComments(nodes).relationships \subseteq stored.relationships
    BY DEF TaskComments
  <2> QED
    BY <1>1, <2>1, StoredIsOfGraphs
<1>4. OfGraphs([None EXCEPT !.relationships = RelationshipsBetween(ids, others)])
  <2> DEFINE e == [None EXCEPT !.relationships = RelationshipsBetween(ids, others)]
  <2>1. e.nodes \subseteq stored.nodes /\ e.relationships \subseteq stored.relationships
    BY DEF None, RelationshipsBetween
  <2> HIDE DEF e
  <2> QED
    BY <1>1, <2>1, StoredIsOfGraphs DEF e
<1> QED
  BY <1>1, <1>2, <1>3, <1>4, MergedIsOfGraphs

\* The searches: the terms are searched for, and the hits promoted.
LEMMA SearchesStayOK ==
    ASSUME ServiceOK, ExtractAnchorTerms \/ (\E i \in DOMAIN searches : FulltextSearch(i)) \/ PromoteCommentHits
    PROVE  ServiceOK'
<1>1. stored \in Graphs /\ searches \in Seq(SearchRecord)
  BY DEF ServiceOK
<1>2. CASE ExtractAnchorTerms
  <2>1. PICK terms \in TermLists \cup {<<>>} :
           searches' = [i \in DOMAIN UniqueTerms(Append(terms, Question)) |-> Search("pending", <<>>)]
    BY <1>2 DEF ExtractAnchorTerms
  <2>2. searches' \in Seq(SearchRecord)
    BY <2>1, TermsAreSearched
  <2> QED
    BY <1>2, <2>2 DEF ExtractAnchorTerms, ServiceOK
<1>3. CASE \E i \in DOMAIN searches : FulltextSearch(i)
  <2>1. PICK i \in DOMAIN searches : FulltextSearch(i)
    BY <1>3
  <2>2. \E r \in SearchRecord : searches' = [searches EXCEPT ![i] = r]
    <3>1. CASE \E hits \in HitLists : searches' = [searches EXCEPT ![i] = Search("fulfilled", hits)]
      <4>1. PICK hits \in HitLists : searches' = [searches EXCEPT ![i] = Search("fulfilled", hits)]
        BY <3>1
      <4>2. Search("fulfilled", hits) \in SearchRecord
        BY ListedHitsAreHits DEF Search, SearchRecord
      <4> QED
        BY <4>1, <4>2
    <3>2. CASE searches' = [searches EXCEPT ![i] = Search("rejected", <<>>)]
      <4>1. Search("rejected", <<>>) \in SearchRecord
        BY NoHitsAreHits DEF Search, SearchRecord
      <4> QED
        BY <3>2, <4>1
    <3> QED
      BY <2>1, <3>1, <3>2 DEF FulltextSearch
  <2>3. PICK r \in SearchRecord : searches' = [searches EXCEPT ![i] = r]
    BY <2>2
  <2>4. searches' \in Seq(SearchRecord)
    BY <1>1, <2>3
  <2> QED
    BY <2>1, <2>4 DEF FulltextSearch, ServiceOK
<1>4. CASE PromoteCommentHits
  <2>1. ResultSets(found') /\ anchors' = RankAnchorCandidates(found')
    BY <1>4, FoundAreResultSets
  <2>2. anchors' \in Seq(Candidates(found')) /\ Candidates(found') \subseteq Nodes
    BY <2>1, AnchorsAreCandidates, RatingsDiffer
  <2>3. anchors' \in Seq(Nodes)
    BY <2>2
  <2>4. /\ searches' = <<>> /\ stage' = "count"
        /\ UNCHANGED <<stored, changes, cypher, final, supporting>>
    BY <1>4 DEF PromoteCommentHits
  <2> QED
    BY <2>3, <2>4 DEF ServiceOK, OfGraphs
<1> QED
  BY <1>2, <1>3, <1>4

LEMMA ServiceStaysOK ==
    ASSUME ServiceOK, ServiceStep
    PROVE  ServiceOK'
<1> USE DEF ServiceOK
<1>1. CASE CountTaskDecisions
  BY <1>1 DEF CountTaskDecisions, OfGraphs
<1>2. CASE GenerateCypher
  BY <1>2 DEF GenerateCypher, OfGraphs
<1>3. ASSUME TakeRows, UNCHANGED <<stored, changes, searches, found, anchors, supporting, payload>>
      PROVE  ServiceOK'
  <2>1. OfGraphs(final')
    BY <1>3, RowsAreOfGraphs DEF TakeRows
  <2> QED
    BY <1>3, <2>1 DEF TakeRows, OfGraphs
<1>4. CASE ExecuteGeneratedCypher
  <2>1. CASE TakeRows
    BY <1>3, <1>4, <2>1 DEF ExecuteGeneratedCypher
  <2>2. CASE ~TakeRows
    BY <1>4, <2>2 DEF ExecuteGeneratedCypher, OfGraphs
  <2> QED
    BY <2>1, <2>2
<1>5. CASE RegenerateCypher
  BY <1>5 DEF RegenerateCypher, Respond, OfGraphs
<1>6. CASE ReexecuteCypher
  <2>1. CASE TakeRows
    BY <1>3, <1>6, <2>1 DEF ReexecuteCypher
  <2>2. CASE ~TakeRows
    BY <1>6, <2>2 DEF ReexecuteCypher, Respond, OfGraphs
  <2> QED
    BY <2>1, <2>2
<1>7. CASE GenerateEvidenceCypher
  BY <1>7 DEF GenerateEvidenceCypher, OfGraphs
<1>8. CASE ExecuteEvidenceCypher
  <2>1. OfGraphs(supporting')
    BY <1>8, RowsAreOfGraphs, NoneIsOfGraphs DEF ExecuteEvidenceCypher
  <2> QED
    BY <1>8, <2>1 DEF ExecuteEvidenceCypher, OfGraphs
<1>9. CASE ExecuteAnchorFallback
  <2>1. OfGraphs(final')
    <3>1. OfGraphs([None EXCEPT !.nodes = ToSet(anchors) \cap stored.nodes])
      BY ReadIsOfGraphs
    <3> QED
      BY <1>9, <3>1 DEF ExecuteAnchorFallback
  <2> QED
    BY <1>9, <2>1 DEF ExecuteAnchorFallback, Respond, OfGraphs
<1>10. CASE FetchTaskComments
  <2> DEFINE refined == RefineQueryEvidence(final, supporting, anchors)
             nodes == ToSet(refined.nodes)
  <2>1. OfGraphs(MergeEvidence(supporting, TaskComments(nodes)))
    BY ReadIsOfGraphs
  <2>2. supporting' = supporting \/ supporting' = MergeEvidence(supporting, TaskComments(nodes))
    BY <1>10 DEF FetchTaskComments
  <2>3. /\ stage' \in {"synthesize", "done", "relationships", "fallbackRelationships", "rejected"}
        /\ UNCHANGED <<stored, changes, searches, anchors, cypher, final>>
    BY <1>10 DEF FetchTaskComments
  <2> HIDE DEF nodes
  <2>4. OfGraphs(supporting')
    BY <2>1, <2>2 DEF OfGraphs
  <2> QED
    BY <2>3, <2>4 DEF OfGraphs
<1>11. CASE ReadRelationships
  <2> DEFINE ids == Ids(ToSet(RefineQueryEvidence(final, supporting, anchors).nodes))
             others == Ids(ToSet(anchors))
             enriched == MergeEvidence(supporting, [None EXCEPT !.relationships = RelationshipsBetween(ids, others)])
  <2>1. OfGraphs(enriched)
    BY ReadIsOfGraphs
  <2>2. supporting' = supporting \/ supporting' = enriched
    BY <1>11 DEF ReadRelationships
  <2>3. /\ stage' \in {"synthesize", "done", "rejected"}
        /\ UNCHANGED <<stored, changes, searches, anchors, cypher, final>>
    BY <1>11 DEF ReadRelationships
  <2> HIDE DEF enriched
  <2>4. OfGraphs(supporting')
    BY <2>1, <2>2 DEF OfGraphs
  <2> QED
    BY <2>3, <2>4 DEF OfGraphs
<1>12. CASE SynthesizeAnswer
  BY <1>12 DEF SynthesizeAnswer, OfGraphs
<1> HIDE DEF ServiceOK
<1>13. CASE ExtractAnchorTerms \/ (\E i \in DOMAIN searches : FulltextSearch(i)) \/ PromoteCommentHits
  BY <1>13, SearchesStayOK
<1> QED
  BY <1>1, <1>2, <1>4, <1>5, <1>6, <1>7, <1>8, <1>9, <1>10, <1>11, <1>12, <1>13 DEF ServiceStep

\* What the answer is follows from what was read when it was given.
LEMMA AnswerStaysOK ==
    ASSUME AnswerOK, ServiceStep
    PROVE  AnswerOK'
<1> USE DEF AnswerOK
<1>1. ASSUME stage \notin {"synthesize", "done"}, UNCHANGED <<response, payload>>, stage' \notin {"synthesize", "done"}
      PROVE  AnswerOK'
  BY <1>1 DEF NoResponse
<1>2. ASSUME stage \notin {"synthesize", "done"}, stage' \in {"done", "synthesize"}, UNCHANGED payload,
             response'.via = "evidence",
             response'.evidence = RefineQueryEvidence(final', supporting', anchors')
      PROVE  AnswerOK'
  BY <1>2 DEF NoResponse
<1>3. ASSUME NEW via \in {"failure", "fallback"}, stage \notin {"synthesize", "done"}, UNCHANGED <<payload, anchors>>,
             Respond(via, RefineQueryEvidence(None, None, anchors))
      PROVE  AnswerOK'
  BY <1>3 DEF NoResponse, Respond
<1>4. CASE ExtractAnchorTerms
  BY <1>1, <1>4 DEF ExtractAnchorTerms
<1>5. CASE \E i \in DOMAIN searches : FulltextSearch(i)
  BY <1>1, <1>5 DEF FulltextSearch
<1>6. CASE PromoteCommentHits
  BY <1>1, <1>6 DEF PromoteCommentHits
<1>7. CASE CountTaskDecisions
  BY <1>1, <1>7 DEF CountTaskDecisions
<1>8. CASE GenerateCypher
  BY <1>1, <1>8 DEF GenerateCypher
<1>9. CASE ExecuteGeneratedCypher
  BY <1>1, <1>9 DEF ExecuteGeneratedCypher, TakeRows
<1>10. CASE RegenerateCypher
  BY <1>1, <1>3, <1>10 DEF RegenerateCypher
<1>11. CASE ReexecuteCypher
  <2>1. CASE TakeRows
    BY <1>1, <1>11, <2>1 DEF ReexecuteCypher, TakeRows
  <2>2. CASE ~TakeRows
    BY <1>3, <1>11, <2>2 DEF ReexecuteCypher
  <2> QED
    BY <2>1, <2>2
<1>12. CASE GenerateEvidenceCypher
  BY <1>1, <1>12 DEF GenerateEvidenceCypher
<1>13. CASE ExecuteEvidenceCypher
  BY <1>1, <1>13 DEF ExecuteEvidenceCypher
<1>14. CASE ExecuteAnchorFallback
  BY <1>1, <1>3, <1>14 DEF ExecuteAnchorFallback
<1>15. CASE FetchTaskComments
  <2>1. CASE RefineQueryEvidence(final, supporting, anchors).nodes = <<>>
    <3>1. UNCHANGED <<final, supporting, anchors, payload>>
      BY <1>15, <2>1 DEF FetchTaskComments
    <3>2. /\ response'.via = "evidence"
          /\ response'.evidence = RefineQueryEvidence(final, supporting, anchors)
          /\ stage \notin {"synthesize", "done"} /\ stage' \in {"done", "synthesize"}
      BY <1>15, <2>1 DEF FetchTaskComments
    <3> QED
      BY <1>2, <3>1, <3>2
  <2>2. CASE RefineQueryEvidence(final, supporting, anchors).nodes # <<>>
    BY <1>1, <1>15, <2>2 DEF FetchTaskComments
  <2> QED
    BY <2>1, <2>2
<1>16. CASE ReadRelationships
  <2>1. CASE stage' = "rejected"
    BY <1>1, <1>16, <2>1 DEF ReadRelationships
  <2>2. CASE stage' # "rejected"
    <3>1. UNCHANGED <<final, anchors, payload>>
      BY <1>16 DEF ReadRelationships
    <3>2. /\ response'.via = "evidence"
          /\ response'.evidence = RefineQueryEvidence(final, supporting', anchors)
          /\ stage \notin {"synthesize", "done"} /\ stage' \in {"done", "synthesize"}
      BY <1>16, <2>2 DEF ReadRelationships
    <3> QED
      BY <1>2, <3>1, <3>2
  <2> QED
    BY <2>1, <2>2
<1>17. CASE SynthesizeAnswer
  BY <1>17 DEF SynthesizeAnswer
<1> QED
  BY <1>4, <1>5, <1>6, <1>7, <1>8, <1>9, <1>10, <1>11, <1>12, <1>13, <1>14, <1>15, <1>16, <1>17
     DEF ServiceStep

\* More that was read only adds to what the evidence is chosen from, and what had been
\* read is in the evidence only if it was before.
LEMMA KeptOfMore ==
    ASSUME NEW a, OfGraphs(a), NEW s, OfGraphs(s), NEW t, OfGraphs(t), NEW chosen \in Seq(Nodes),
           s.nodes \subseteq t.nodes, s.relationships \subseteq t.relationships
    PROVE  Cut(Pool(a, t, chosen), a) \cap (a.nodes \cup s.nodes) \subseteq Cut(Pool(a, s, chosen), a)
<1> DEFINE more == Pool(a, t, chosen)
           pool == Pool(a, s, chosen)
<1>1. Distinct(more) /\ a.nodes \cup s.nodes \subseteq pool
  BY PoolIsDistinct
<1>2. pool \in SUBSET more
  BY DEF Pool, MergeEvidence, Ids
<1> HIDE DEF more, pool
<1>3. Cut(more, a) \cap pool \subseteq Cut(pool, a)
  BY <1>1, <1>2, CutOfMore
<1> QED
  BY <1>1, <1>3 DEF more, pool

\* The comments of some of the nodes are among the comments of all.
LEMMA CommentsOfSome ==
    ASSUME NEW nodes, NEW some \in SUBSET nodes
    PROVE  TaskComments(some).nodes \subseteq TaskComments(nodes).nodes
<1> DEFINE owns(S, r) == r.type = "HAS_COMMENT" /\ r.startId \in Ids(Labelled(S, "Task"))
           earlier(r, s) == r.startId = s.startId /\ r.id < s.id
           before(S, r) == {s \in stored.relationships : owns(S, s) /\ earlier(s, r)}
           taken(S) == {r \in stored.relationships : owns(S, r) /\ Cardinality(before(S, r)) < TaskCommentFetchLimit}
<1>1. \A r : owns(some, r) => owns(nodes, r)
  BY DEF Ids, Labelled
<1>2. ASSUME NEW r \in stored.relationships, owns(some, r)
      PROVE  before(some, r) = before(nodes, r)
  BY <1>1, <1>2
<1>3. taken(some) \subseteq taken(nodes)
  <2> HIDE DEF owns, before
  <2> QED
    BY <1>1, <1>2
<1>4. /\ TaskComments(some).nodes = {n \in stored.nodes : \E r \in taken(some) : Touching(r, n.id)}
      /\ TaskComments(nodes).nodes = {n \in stored.nodes : \E r \in taken(nodes) : Touching(r, n.id)}
  BY DEF TaskComments
<1> HIDE DEF taken
<1> QED
  BY <1>3, <1>4

LEMMA NoTasksNoComments == TaskComments({}).nodes = {}
  BY DEF TaskComments, Labelled, Ids

\* The same tasks have the same comments until the graph changes.
LEMMA CommentsStayRead ==
    ASSUME ServiceOK, AnswerOK, CommentsRead, ServiceStep
    PROVE  CommentsRead'
<1>1. /\ stored' = stored /\ changes' = changes
      /\ OfGraphs(final) /\ OfGraphs(supporting) /\ anchors \in Seq(Nodes)
  <2>1. UNCHANGED <<stored, changes>>
    BY DEF ServiceStep, ExtractAnchorTerms, FulltextSearch, PromoteCommentHits, CountTaskDecisions, GenerateCypher,
           ExecuteGeneratedCypher, RegenerateCypher, ReexecuteCypher, GenerateEvidenceCypher,
           ExecuteEvidenceCypher, ExecuteAnchorFallback, FetchTaskComments, ReadRelationships, SynthesizeAnswer
  <2> QED
    BY <2>1 DEF ServiceOK
<1>2. ServiceOK' /\ AnswerOK'
  BY ServiceStaysOK, AnswerStaysOK
<1> DEFINE Reading == stage \in {"relationships", "fallbackRelationships"} \/ response.via = "evidence"
<1>4. ASSUME NEW s, OfGraphs(s), final' = final, anchors' = anchors, supporting' = s,
             supporting.nodes \subseteq s.nodes, supporting.relationships \subseteq s.relationships,
             TaskComments(Kept \cap final.nodes).nodes \subseteq s.nodes
      PROVE  CommentsRead'
  <2>1. Kept' \cap final.nodes \subseteq Kept \cap final.nodes
    <3>1. Cut(Pool(final, s, anchors), final) \cap (final.nodes \cup supporting.nodes)
             \subseteq Cut(Pool(final, supporting, anchors), final)
      BY <1>1, <1>4, KeptOfMore
    <3>2. Kept' = Cut(Pool(final, s, anchors), final)
      BY <1>4 DEF Kept
    <3> QED
      BY <3>1, <3>2 DEF Kept
  <2>2. TaskComments(Kept' \cap final.nodes).nodes \subseteq TaskComments(Kept \cap final.nodes).nodes
    BY <2>1, CommentsOfSome
  <2>3. (TaskComments(Kept \cap final.nodes).nodes)' = TaskComments(Kept' \cap final.nodes).nodes
    BY <1>1, <1>4 DEF TaskComments
  <2> QED
    BY <1>4, <2>2, <2>3 DEF CommentsRead
<1>5. ASSUME ~Reading' PROVE CommentsRead'
  BY <1>5 DEF CommentsRead
<1>6. ASSUME stage \notin {"synthesize", "done"}, UNCHANGED response,
             stage' \notin {"relationships", "fallbackRelationships"}
      PROVE  CommentsRead'
  <2>1. response.via = "none"
    BY <1>6 DEF AnswerOK, NoResponse
  <2> QED
    BY <1>5, <1>6, <2>1
<1>7. ASSUME NEW via \in {"failure", "fallback"}, NEW evidence, Respond(via, evidence) PROVE CommentsRead'
  BY <1>5, <1>7 DEF Respond
<1> HIDE DEF Reading
<1>8. CASE ExtractAnchorTerms
  BY <1>6, <1>8 DEF ExtractAnchorTerms
<1>9. CASE \E i \in DOMAIN searches : FulltextSearch(i)
  BY <1>6, <1>9 DEF FulltextSearch
<1>10. CASE PromoteCommentHits
  BY <1>6, <1>10 DEF PromoteCommentHits
<1>11. CASE CountTaskDecisions
  BY <1>6, <1>11 DEF CountTaskDecisions
<1>12. CASE GenerateCypher
  BY <1>6, <1>12 DEF GenerateCypher
<1>13. CASE ExecuteGeneratedCypher
  BY <1>6, <1>13 DEF ExecuteGeneratedCypher, TakeRows
<1>14. CASE RegenerateCypher
  BY <1>6, <1>7, <1>14 DEF RegenerateCypher
<1>15. CASE ReexecuteCypher
  <2>1. CASE TakeRows
    BY <1>6, <1>15, <2>1 DEF ReexecuteCypher, TakeRows
  <2>2. CASE ~TakeRows
    BY <1>7, <1>15, <2>2 DEF ReexecuteCypher
  <2> QED
    BY <2>1, <2>2
<1>16. CASE GenerateEvidenceCypher
  BY <1>6, <1>16 DEF GenerateEvidenceCypher
<1>17. CASE ExecuteEvidenceCypher
  BY <1>6, <1>17 DEF ExecuteEvidenceCypher
<1>18. CASE ExecuteAnchorFallback
  BY <1>6, <1>7, <1>18 DEF ExecuteAnchorFallback
<1>19. CASE FetchTaskComments
  <2> DEFINE refined == RefineQueryEvidence(final, supporting, anchors)
  <2>1. refined.nodes = <<>> <=> Kept = {}
    BY <1>1, RefinedFacts DEF Kept
  <2>2. ToSet(refined.nodes) = Kept
    BY <1>1, RefinedFacts DEF Kept
  <2>3. CASE refined.nodes = <<>>
    <3>1. UNCHANGED <<final, anchors, supporting>>
      BY <1>19, <2>3 DEF FetchTaskComments
    <3>2. TaskComments(Kept \cap final.nodes).nodes \subseteq supporting.nodes
      <4>1. Kept \cap final.nodes = {}
        BY <2>1, <2>3
      <4> QED
        BY <4>1, NoTasksNoComments
    <3> QED
      BY <1>1, <1>4, <3>1, <3>2
  <2>4. CASE refined.nodes # <<>> /\ stage' = "rejected"
    BY <1>6, <1>19, <2>4 DEF FetchTaskComments
  <2>5. CASE refined.nodes # <<>> /\ stage' # "rejected"
    <3> DEFINE s == MergeEvidence(supporting, TaskComments(ToSet(refined.nodes)))
    <3>1. UNCHANGED <<final, anchors>> /\ supporting' = s
      BY <1>19, <2>5 DEF FetchTaskComments
    <3>2. OfGraphs(s)
      BY ReadIsOfGraphs
    <3>3. /\ supporting.nodes \subseteq s.nodes /\ supporting.relationships \subseteq s.relationships
          /\ TaskComments(Kept).nodes \subseteq s.nodes
      BY <2>2 DEF MergeEvidence
    <3>4. TaskComments(Kept \cap final.nodes).nodes \subseteq TaskComments(Kept).nodes
      BY CommentsOfSome
    <3> HIDE DEF s
    <3> QED
      BY <1>4, <3>1, <3>2, <3>3, <3>4
  <2> QED
    BY <2>3, <2>4, <2>5
<1>20. CASE ReadRelationships
  <2>1. CASE stage' = "rejected"
    BY <1>6, <1>20, <2>1 DEF ReadRelationships
  <2>2. CASE stage' # "rejected" /\ changes = 0
    <3> DEFINE between == RelationshipsBetween(Ids(ToSet(RefineQueryEvidence(final, supporting, anchors).nodes)),
                                               Ids(ToSet(anchors)))
               s == MergeEvidence(supporting, [None EXCEPT !.relationships = between])
    <3>1. UNCHANGED <<final, anchors>> /\ supporting' = s /\ stage \in {"relationships", "fallbackRelationships"}
      BY <1>20, <2>2 DEF ReadRelationships
    <3>2. OfGraphs(s)
      BY ReadIsOfGraphs
    <3>3. supporting.nodes \subseteq s.nodes /\ supporting.relationships \subseteq s.relationships
      BY DEF MergeEvidence
    <3>4. TaskComments(Kept \cap final.nodes).nodes \subseteq supporting.nodes
      BY <2>2, <3>1 DEF CommentsRead
    <3> HIDE DEF s
    <3> QED
      BY <1>4, <3>1, <3>2, <3>3, <3>4
  <2>3. CASE changes # 0
    BY <1>1, <2>3 DEF CommentsRead
  <2> QED
    BY <2>1, <2>2, <2>3
<1>21. CASE SynthesizeAnswer
  <2>1. UNCHANGED <<stored, changes, final, anchors, supporting, response>> /\ stage = "synthesize" /\ stage' = "done"
    BY <1>21 DEF SynthesizeAnswer
  <2>2. Kept' = Kept
    BY <2>1 DEF Kept
  <2>3. (TaskComments(Kept \cap final.nodes).nodes)' = TaskComments(Kept \cap final.nodes).nodes
    BY <2>1, <2>2 DEF TaskComments
  <2> QED
    BY <2>1, <2>3 DEF CommentsRead
<1> QED
  BY <1>8, <1>9, <1>10, <1>11, <1>12, <1>13, <1>14, <1>15, <1>16, <1>17, <1>18, <1>19, <1>20, <1>21
     DEF ServiceStep

\* Relationships that were read are those stored until the graph changes.
LEMMA RelationshipsStayRead ==
    ASSUME ServiceOK, AnswerOK, RelationshipsRead, ServiceStep
    PROVE  RelationshipsRead'
<1> DEFINE OfStored(e) == changes = 0 => e.relationships \subseteq stored.relationships
           Induced == changes = 0 /\ response.via = "evidence" =>
                        \A r \in stored.relationships :
                           /\ {r.startId, r.endId} \subseteq Ids(Kept)
                           /\ {r.startId, r.endId} \cap Ids(final.nodes \cup supporting.nodes) # {}
                           => r \in final.relationships \cup supporting.relationships
<1>1. /\ UNCHANGED <<stored, changes>> /\ stored \in Graphs
      /\ OfGraphs(final) /\ OfGraphs(supporting) /\ anchors \in Seq(Nodes)
  <2>1. UNCHANGED <<stored, changes>>
    BY DEF ServiceStep, ExtractAnchorTerms, FulltextSearch, PromoteCommentHits, CountTaskDecisions, GenerateCypher,
           ExecuteGeneratedCypher, RegenerateCypher, ReexecuteCypher, GenerateEvidenceCypher,
           ExecuteEvidenceCypher, ExecuteAnchorFallback, FetchTaskComments, ReadRelationships, SynthesizeAnswer
  <2> QED
    BY <2>1 DEF ServiceOK
<1>2. OfStored(final) /\ OfStored(supporting) /\ Induced
  BY DEF RelationshipsRead
<1>3. ASSUME OfStored(final)', OfStored(supporting)', Induced' PROVE RelationshipsRead'
  BY <1>3 DEF RelationshipsRead
<1>4. ASSUME stage \notin {"synthesize", "done"}, UNCHANGED <<final, supporting>>,
             UNCHANGED response \/ (\E via \in {"failure", "fallback"} : \E evidence : Respond(via, evidence))
      PROVE  RelationshipsRead'
  <2>1. response'.via # "evidence"
    BY <1>4 DEF AnswerOK, NoResponse, Respond
  <2> QED
    BY <1>1, <1>2, <1>4, <2>1 DEF RelationshipsRead
<1>5. ASSUME stage \notin {"synthesize", "done"}, UNCHANGED response, OfStored(final)', OfStored(supporting)'
      PROVE  RelationshipsRead'
  <2>1. response'.via # "evidence"
    BY <1>5 DEF AnswerOK, NoResponse
  <2> QED
    BY <1>5, <2>1 DEF RelationshipsRead
<1>6. \A rows \in Rows : rows.relationships \subseteq stored.relationships
  BY DEF Rows, Stored
<1>7. ASSUME TakeRows, UNCHANGED supporting, stage \notin {"synthesize", "done"} PROVE RelationshipsRead'
  <2>1. OfStored(final)' /\ OfStored(supporting)' /\ UNCHANGED response
    BY <1>1, <1>2, <1>6, <1>7 DEF TakeRows
  <2> QED
    BY <1>5, <1>7, <2>1
<1>8. CASE ExtractAnchorTerms
  BY <1>4, <1>8 DEF ExtractAnchorTerms
<1>9. CASE \E i \in DOMAIN searches : FulltextSearch(i)
  BY <1>4, <1>9 DEF FulltextSearch
<1>10. CASE PromoteCommentHits
  BY <1>4, <1>10 DEF PromoteCommentHits
<1>11. CASE CountTaskDecisions
  BY <1>4, <1>11 DEF CountTaskDecisions
<1>12. CASE GenerateCypher
  BY <1>4, <1>12 DEF GenerateCypher
<1>13. CASE ExecuteGeneratedCypher
  <2>1. CASE TakeRows
    BY <1>7, <1>13, <2>1 DEF ExecuteGeneratedCypher
  <2>2. CASE ~TakeRows
    BY <1>4, <1>13, <2>2 DEF ExecuteGeneratedCypher
  <2> QED
    BY <2>1, <2>2
<1>14. CASE RegenerateCypher
  BY <1>4, <1>14 DEF RegenerateCypher
<1>15. CASE ReexecuteCypher
  <2>1. CASE TakeRows
    BY <1>7, <1>15, <2>1 DEF ReexecuteCypher
  <2>2. CASE ~TakeRows
    BY <1>4, <1>15, <2>2 DEF ReexecuteCypher
  <2> QED
    BY <2>1, <2>2
<1>16. CASE GenerateEvidenceCypher
  BY <1>4, <1>16 DEF GenerateEvidenceCypher
<1>17. CASE ExecuteEvidenceCypher
  <2>1. UNCHANGED <<final, response>> /\ stage \notin {"synthesize", "done"} /\ supporting' \in Rows \cup {None}
    BY <1>17 DEF ExecuteEvidenceCypher
  <2>2. supporting'.relationships \subseteq stored.relationships
    BY <1>6, <2>1 DEF None
  <2> QED
    BY <1>1, <1>2, <1>5, <2>1, <2>2
<1>18. CASE ExecuteAnchorFallback
  <2>1. CASE final' = final
    BY <1>4, <1>18, <2>1 DEF ExecuteAnchorFallback
  <2>2. CASE final' # final
    <3>1. /\ final' = [None EXCEPT !.nodes = ToSet(anchors) \cap stored.nodes]
          /\ UNCHANGED <<response, supporting>> /\ stage \notin {"synthesize", "done"}
      BY <1>18, <2>2 DEF ExecuteAnchorFallback
    <3>2. final'.relationships = {}
      BY <3>1 DEF None
    <3> QED
      BY <1>1, <1>2, <1>5, <3>1, <3>2
  <2> QED
    BY <2>1, <2>2
<1>19. CASE FetchTaskComments
  <2> DEFINE refined == RefineQueryEvidence(final, supporting, anchors)
             comments == TaskComments(ToSet(refined.nodes))
  <2>1. CASE refined.nodes = <<>>
    <3>1. UNCHANGED <<final, anchors, supporting>>
      BY <1>19, <2>1 DEF FetchTaskComments
    <3>2. Kept = {}
      BY <1>1, <2>1, RefinedFacts DEF Kept
    <3>3. Kept' = {}
      BY <3>1, <3>2 DEF Kept
    <3>4. Induced'
      BY <3>3 DEF Ids
    <3> QED
      BY <1>1, <1>2, <1>3, <3>1, <3>4
  <2>2. CASE refined.nodes # <<>>
    <3>1. UNCHANGED <<final, response>> /\ stage \notin {"synthesize", "done"}
      BY <1>19, <2>2 DEF FetchTaskComments
    <3>2. supporting' = supporting \/ supporting' = MergeEvidence(supporting, comments)
      BY <1>19, <2>2 DEF FetchTaskComments
    <3>3. comments.relationships \subseteq stored.relationships
      BY DEF TaskComments
    <3> HIDE DEF comments
    <3>4. OfStored(supporting)'
      BY <1>1, <1>2, <3>2, <3>3 DEF MergeEvidence
    <3> QED
      BY <1>1, <1>2, <1>5, <3>1, <3>4
  <2> QED
    BY <2>1, <2>2
<1>20. CASE ReadRelationships
  <2> DEFINE between == RelationshipsBetween(Ids(ToSet(RefineQueryEvidence(final, supporting, anchors).nodes)),
                                             Ids(ToSet(anchors)))
             s == MergeEvidence(supporting, [None EXCEPT !.relationships = between])
  <2>1. CASE stage' = "rejected"
    BY <1>4, <1>20, <2>1 DEF ReadRelationships
  <2>2. CASE stage' # "rejected"
    <3>1. UNCHANGED <<final, anchors>> /\ supporting' = s
      BY <1>20, <2>2 DEF ReadRelationships
    <3>2. OfGraphs(s)
      BY ReadIsOfGraphs
    <3>3. s.nodes = supporting.nodes /\ s.relationships = supporting.relationships \cup between
      BY DEF MergeEvidence, None
    <3>4. between \subseteq stored.relationships
      BY DEF RelationshipsBetween
    <3>5. ToSet(RefineQueryEvidence(final, supporting, anchors).nodes) = Kept
      BY <1>1, RefinedFacts DEF Kept
    <3>6. \A r \in stored.relationships :
             \/ {r.startId, r.endId} \subseteq Ids(Kept)
             \/ r.startId \in Ids(Kept) /\ r.endId \in Ids(ToSet(anchors))
             \/ r.startId \in Ids(ToSet(anchors)) /\ r.endId \in Ids(Kept)
             => r \in between
      BY <3>5 DEF RelationshipsBetween
    <3> HIDE DEF s, between
    <3> DEFINE read == final.nodes \cup supporting.nodes
               kept == Cut(Pool(final, s, anchors), final)
    <3>7. Kept' = kept
      BY <3>1 DEF Kept
    <3>8. kept \cap read \subseteq Kept
      BY <1>1, <3>2, <3>3, KeptOfMore DEF Kept
    <3>9. kept \subseteq read \cup ToSet(anchors) /\ kept \subseteq Nodes /\ read \subseteq Nodes
      <4>1. /\ Distinct(Pool(final, s, anchors)) /\ Pool(final, s, anchors) \subseteq Nodes
            /\ Pool(final, s, anchors) \subseteq final.nodes \cup s.nodes \cup ToSet(anchors)
        BY <1>1, <3>2, PoolIsDistinct
      <4>2. kept \subseteq Pool(final, s, anchors)
        BY <4>1, CutsTheLeast
      <4> QED
        BY <1>1, <3>3, <4>1, <4>2 DEF OfGraphs
    <3> HIDE DEF kept, read
    <3>10. \A id \in Ids(kept) : id \in Ids(read) => id \in Ids(Kept)
      <4>1. ASSUME NEW id \in Ids(kept), id \in Ids(read) PROVE id \in Ids(Kept)
        <5>1. PICK m \in kept : id = m.id
          BY DEF Ids
        <5>2. PICK n \in read : id = n.id
          BY <4>1 DEF Ids
        <5>3. m = n
          BY <3>9, <5>1, <5>2, QueryAssumption
        <5>4. m \in Kept
          BY <3>8, <5>2, <5>3
        <5> QED
          BY <5>1, <5>4 DEF Ids
      <4> QED
        BY <4>1
    <3>11. \A id \in Ids(kept) : id \in Ids(read) \/ id \in Ids(ToSet(anchors))
      BY <3>9 DEF Ids
    <3>12. ASSUME NEW r \in stored.relationships, {r.startId, r.endId} \subseteq Ids(kept),
                  {r.startId, r.endId} \cap Ids(read) # {}
           PROVE  r \in between
      <4>1. r.startId \in Ids(kept) /\ r.endId \in Ids(kept)
        BY <3>12
      <4>2. CASE r.startId \in Ids(read)
        <5>1. r.startId \in Ids(Kept)
          BY <3>10, <4>1, <4>2
        <5>2. r.endId \in Ids(Kept) \/ r.endId \in Ids(ToSet(anchors))
          BY <3>10, <3>11, <4>1
        <5> QED
          BY <3>6, <5>1, <5>2
      <4>3. CASE r.endId \in Ids(read)
        <5>1. r.endId \in Ids(Kept)
          BY <3>10, <4>1, <4>3
        <5>2. r.startId \in Ids(Kept) \/ r.startId \in Ids(ToSet(anchors))
          BY <3>10, <3>11, <4>1
        <5> QED
          BY <3>6, <5>1, <5>2
      <4> QED
        BY <3>12, <4>2, <4>3
    <3>13. final'.nodes \cup supporting'.nodes = read
      BY <3>1, <3>3 DEF read
    <3>14. Induced'
      BY <1>1, <3>1, <3>3, <3>7, <3>12, <3>13
    <3>15. OfStored(final)' /\ OfStored(supporting)'
      BY <1>1, <1>2, <3>1, <3>3, <3>4
    <3> QED
      BY <1>3, <3>14, <3>15
  <2> QED
    BY <2>1, <2>2
<1>21. CASE SynthesizeAnswer
  <2>1. UNCHANGED <<final, anchors, supporting, response>>
    BY <1>21 DEF SynthesizeAnswer
  <2>2. Kept' = Kept
    BY <2>1 DEF Kept
  <2> QED
    BY <1>1, <1>2, <1>3, <2>1, <2>2
<1> QED
  BY <1>8, <1>9, <1>10, <1>11, <1>12, <1>13, <1>14, <1>15, <1>16, <1>17, <1>18, <1>19, <1>20, <1>21
     DEF ServiceStep

\* What a step of the pages does to the question.
LEMMA StepsOfTheQuestion ==
    ASSUME [Next]_vars
    PROVE  \/ ServiceStep \/ GraphChanges \/ Query
           \/ Forget /\ UNCHANGED <<stored, changes>>
           \/ UNCHANGED serviceVars
<1>1. CASE Service \/ GraphStep
  BY <1>1 DEF Service, GraphStep
<1>2. CASE UserStep
  BY <1>2 DEF UserStep, SubmitQuestion, ExpandNode, SubmitSearch, SelectSearchResult, UndoExpansion,
              OpenSchemaMap, SelectType, TurnPage, LoadSamples
<1>3. CASE QuestionSettles \/ QuestionBreaks
  BY <1>3 DEF QuestionSettles, QuestionAnswered, QuestionFails, QuestionBreaks
<1>4. CASE ExpansionSettles
  BY <1>4 DEF ExpansionSettles, ExpansionArrives, ExpansionFails
<1>5. CASE SearchSettles
  BY <1>5 DEF SearchSettles, SearchArrives, SearchFails
<1>6. CASE SampleRequestSettles
  BY <1>6 DEF SampleRequestSettles, SamplesCounted, SamplesArrive, SamplesFail, SamplesSettle
<1>7. CASE Rest \/ UNCHANGED vars
  BY <1>7 DEF Rest, vars
<1> QED
  BY <1>1, <1>2, <1>3, <1>4, <1>5, <1>6, <1>7 DEF Next

LEMMA QueryInvHolds ==
    Spec => []QueryInv
<1>1. Init => QueryInv
  <2> SUFFICES ASSUME Init PROVE QueryInv
    OBVIOUS
  <2>1. InitService
    BY DEF Init
  <2>2. ServiceOK
    BY <2>1, NoneIsOfGraphs, QueryAssumption DEF InitService, ServiceOK, OfGraphs
  <2>3. AnswerOK
    BY <2>1 DEF InitService, AnswerOK, NoResponse
  <2>4. CommentsRead
    BY <2>1 DEF InitService, CommentsRead, NoResponse
  <2>5. RelationshipsRead
    BY <2>1 DEF InitService, RelationshipsRead, NoResponse, None
  <2> QED
    BY <2>2, <2>3, <2>4, <2>5 DEF QueryInv
<1>2. QueryInv /\ [Next]_vars => QueryInv'
  <2> SUFFICES ASSUME QueryInv, [Next]_vars PROVE QueryInv'
    OBVIOUS
  <2>1. ServiceOK /\ AnswerOK /\ CommentsRead /\ RelationshipsRead
    BY DEF QueryInv
  <2>2. CASE ServiceStep
    BY <2>1, <2>2, ServiceStaysOK, AnswerStaysOK, CommentsStayRead, RelationshipsStayRead DEF QueryInv
  <2>3. CASE GraphChanges
    <3>1. ServiceOK'
      BY <2>1, <2>3, QueryAssumption DEF GraphChanges, queryVars, ServiceOK, OfGraphs
    <3>2. AnswerOK'
      BY <2>1, <2>3 DEF GraphChanges, queryVars, AnswerOK
    <3>3. changes' # 0
      BY <2>1, <2>3, QueryAssumption DEF GraphChanges, ServiceOK
    <3>4. CommentsRead' /\ RelationshipsRead'
      BY <3>3 DEF CommentsRead, RelationshipsRead
    <3> QED
      BY <3>1, <3>2, <3>4 DEF QueryInv
  <2>4. CASE Query
    <3>1. ServiceOK'
      BY <2>1, <2>4 DEF Query, ServiceOK, OfGraphs
    <3>2. AnswerOK' /\ response.via = "none"
      BY <2>1, <2>4 DEF Query, AnswerOK, NoResponse
    <3>3. CommentsRead'
      BY <2>4, <3>2 DEF Query, CommentsRead
    <3>4. RelationshipsRead'
      BY <2>1, <2>4, <3>2 DEF Query, RelationshipsRead
    <3> QED
      BY <3>1, <3>2, <3>3, <3>4 DEF QueryInv
  <2>5. CASE Forget /\ UNCHANGED <<stored, changes>>
    <3>1. ServiceOK'
      BY <2>1, <2>5, NoneIsOfGraphs DEF Forget, ServiceOK, OfGraphs
    <3>2. AnswerOK' /\ response'.via = "none"
      BY <2>5 DEF Forget, AnswerOK, NoResponse
    <3>3. CommentsRead'
      BY <2>5, <3>2 DEF Forget, CommentsRead
    <3>4. RelationshipsRead'
      BY <2>5, <3>2 DEF Forget, RelationshipsRead, None
    <3> QED
      BY <3>1, <3>2, <3>3, <3>4 DEF QueryInv
  <2>6. CASE UNCHANGED serviceVars
    <3>1. ServiceOK' /\ AnswerOK'
      BY <2>1, <2>6 DEF serviceVars, queryVars, ServiceOK, OfGraphs, AnswerOK
    <3>2. Kept' = Kept
      BY <2>6 DEF serviceVars, queryVars, Kept
    <3>3. (TaskComments(Kept \cap final.nodes).nodes)' = TaskComments(Kept \cap final.nodes).nodes
      BY <2>6, <3>2 DEF serviceVars, queryVars, TaskComments
    <3>4. CommentsRead'
      BY <2>1, <2>6, <3>3 DEF serviceVars, queryVars, CommentsRead
    <3>5. RelationshipsRead'
      BY <2>1, <2>6, <3>2 DEF serviceVars, queryVars, RelationshipsRead
    <3> QED
      BY <3>1, <3>4, <3>5 DEF QueryInv
  <2> QED
    BY <2>2, <2>3, <2>4, <2>5, <2>6, StepsOfTheQuestion
<1> QED
  BY <1>1, <1>2, PTL DEF Spec

\* The evidence that was answered with.
LEMMA AnswerFacts ==
    ASSUME QueryInv, response.via = "evidence"
    PROVE  /\ ToSet(response.evidence.nodes) = Kept
           /\ ToSet(response.evidence.relationships) =
                 {r \in final.relationships \cup supporting.relationships : {r.startId, r.endId} \subseteq Ids(Kept)}
           /\ final.nodes \cup supporting.nodes \subseteq Pool(final, supporting, anchors)
           /\ Distinct(Pool(final, supporting, anchors))
<1>1. /\ OfGraphs(final) /\ OfGraphs(supporting) /\ anchors \in Seq(Nodes)
      /\ response.evidence = RefineQueryEvidence(final, supporting, anchors)
  BY DEF QueryInv, ServiceOK, AnswerOK
<1>2. /\ ToSet(response.evidence.nodes) = Kept
      /\ ToSet(response.evidence.relationships) =
            {r \in final.relationships \cup supporting.relationships : {r.startId, r.endId} \subseteq Ids(Kept)}
  <2> DEFINE refined == RefineQueryEvidence(final, supporting, anchors)
             among == {r \in final.relationships \cup supporting.relationships :
                          {r.startId, r.endId} \subseteq Ids(Kept)}
  <2>1. ToSet(refined.nodes) = Kept
    BY <1>1, RefinedFacts DEF Kept
  <2>2. ToSet(refined.relationships) = among
    BY <1>1, RefinedFacts DEF Kept
  <2> HIDE DEF refined, among
  <2>3. response.evidence = refined
    BY <1>1 DEF refined
  <2> QED
    BY <2>1, <2>2, <2>3 DEF among
<1>3. /\ final.nodes \cup supporting.nodes \subseteq Pool(final, supporting, anchors)
      /\ Distinct(Pool(final, supporting, anchors))
  BY <1>1, PoolIsDistinct
<1> QED
  BY <1>2, <1>3

\* Whatever was left out of an answer's evidence comes after all that is in it
\* (takeWithinBudget, refineQueryEvidence).
LEMMA CutsAreFair ==
    Spec => []LeastImportantLeftOut
<1>1. QueryInv => LeastImportantLeftOut
  <2> SUFFICES ASSUME QueryInv, response.via = "evidence"
               PROVE  LET kept == ToSet(response.evidence.nodes)
                          read == final.nodes \cup supporting.nodes
                      IN  /\ \A n \in kept, m \in read \ kept : CompareNodes(n, m, final)
                          /\ read # {} => kept # {}
    BY DEF LeastImportantLeftOut
  <2> DEFINE pool == Pool(final, supporting, anchors)
  <2>1. /\ ToSet(response.evidence.nodes) = Kept /\ Distinct(pool)
        /\ final.nodes \cup supporting.nodes \subseteq pool
    BY AnswerFacts
  <2>2. /\ \A n \in Kept, m \in pool \ Kept : CompareNodes(n, m, final)
        /\ pool # {} => Kept # {}
    <3> HIDE DEF pool
    <3>1. /\ \A n \in Cut(pool, final), m \in pool \ Cut(pool, final) : CompareNodes(n, m, final)
          /\ pool # {} => Cut(pool, final) # {}
      BY <2>1, CutsTheLeast
    <3> QED
      BY <3>1 DEF Kept, pool
  <2> HIDE DEF pool
  <2> QED
    BY <2>1, <2>2
<1> QED
  BY <1>1, QueryInvHolds, PTL

\* Comments, relationships and anchors are read one after the other, and each read starts
\* from the evidence as it is then. As long as the graph stays as it is, what the reads
\* were for is in the evidence that is answered with: the comments of its tasks, and the
\* relationships between its nodes (fetchTaskComments, readRelationships).
THEOREM EvidenceComesTogether ==
    Spec => []EvidenceIsConnected
<1>1. QueryInv => CommentsComeWithTasks
  <2> SUFFICES ASSUME QueryInv, response.via = "evidence", changes = 0
               PROVE  LET kept == ToSet(response.evidence.nodes)
                          comments == TaskComments(kept \cap final.nodes).nodes
                      IN  \A c \in Labelled(comments, "Comment") \ kept :
                             \A n \in kept : CompareNodes(n, c, final)
    BY DEF CommentsComeWithTasks
  <2> DEFINE pool == Pool(final, supporting, anchors)
  <2>1. /\ ToSet(response.evidence.nodes) = Kept /\ Distinct(pool)
        /\ final.nodes \cup supporting.nodes \subseteq pool
    BY AnswerFacts
  <2>2. TaskComments(Kept \cap final.nodes).nodes \subseteq pool
    BY <2>1 DEF QueryInv, CommentsRead
  <2>3. \A n \in Kept, m \in pool \ Kept : CompareNodes(n, m, final)
    <3> HIDE DEF pool
    <3>1. \A n \in Cut(pool, final), m \in pool \ Cut(pool, final) : CompareNodes(n, m, final)
      BY <2>1, CutsTheLeast
    <3> QED
      BY <3>1 DEF Kept, pool
  <2> HIDE DEF pool
  <2> QED
    BY <2>1, <2>2, <2>3 DEF Labelled
<1>2. QueryInv => EvidenceIsInduced
  <2> SUFFICES ASSUME QueryInv, response.via = "evidence", changes = 0
               PROVE  LET kept == Ids(ToSet(response.evidence.nodes))
                          read == Ids(final.nodes \cup supporting.nodes)
                          induced == {r \in stored.relationships : {r.startId, r.endId} \subseteq kept}
                      IN  /\ ToSet(response.evidence.relationships) \subseteq induced
                          /\ {r \in induced : {r.startId, r.endId} \cap read # {}}
                                \subseteq ToSet(response.evidence.relationships)
    BY DEF EvidenceIsInduced
  <2>1. /\ ToSet(response.evidence.nodes) = Kept
        /\ ToSet(response.evidence.relationships) =
              {r \in final.relationships \cup supporting.relationships : {r.startId, r.endId} \subseteq Ids(Kept)}
    BY AnswerFacts
  <2>2. final.relationships \cup supporting.relationships \subseteq stored.relationships
    BY DEF QueryInv, RelationshipsRead
  <2>3. \A r \in stored.relationships :
           /\ {r.startId, r.endId} \subseteq Ids(Kept)
           /\ {r.startId, r.endId} \cap Ids(final.nodes \cup supporting.nodes) # {}
           => r \in final.relationships \cup supporting.relationships
    BY DEF QueryInv, RelationshipsRead
  <2> QED
    BY <2>1, <2>2, <2>3
<1>3. QueryInv => EvidenceIsConnected
  BY <1>1, <1>2 DEF EvidenceIsConnected
<1> QED
  BY <1>3, QueryInvHolds, PTL

--------------------------------------------------------------------------------
(* The evidence in the prompt.                                                  *)

Starts(taken, items) ==
    /\ Len(items) \in Nat /\ Len(taken) \in 0 .. Len(items)
    /\ \A i \in 1 .. Len(items) : items[i].size \in Nat
    /\ \A i \in 1 .. Len(taken) : taken[i] = items[i]

\* The first items use the same, whatever follows.
LEMMA SumsAgree ==
    ASSUME NEW items, NEW taken, Starts(taken, items)
    PROVE  LengthOf(taken) = Used(items)[Len(taken)] /\ LengthOf(taken) \in Nat
<1> DEFINE n == Len(items)
           k == Len(taken)
           f == Used(items)
           h == Used(taken)
           Bad == {i \in 0 .. k : f[i] # h[i]}
           self == [i \in Bad |-> i]
<1>1. n \in Nat /\ k \in 0 .. n /\ \A i \in 1 .. k : taken[i] = items[i]
  BY DEF Starts
<1>2. \A i \in 1 .. n : items[i].size \in Nat
  BY DEF Starts
<1>3. \A i \in 1 .. k : taken[i].size \in Nat
  BY <1>1, <1>2
<1> HIDE DEF n, k
<1>4. k \in Nat
  BY <1>1
<1>5. AddsUp(f, items, n)
  BY <1>1, <1>2, UsedAddsUp DEF n
<1>6. AddsUp(h, taken, k)
  BY <1>3, <1>4, UsedAddsUp DEF k
<1> HIDE DEF f, h
<1>7. /\ f \in [0 .. n -> Nat] /\ f[0] = 0
      /\ \A i \in 1 .. n : f[i] = f[i - 1] + items[i].size
  BY <1>5 DEF AddsUp
<1>8. /\ h \in [0 .. k -> Nat] /\ h[0] = 0
      /\ \A i \in 1 .. k : h[i] = h[i - 1] + taken[i].size
  BY <1>6 DEF AddsUp
<1>9. ASSUME Bad # {} PROVE FALSE
  <2>1. self \in [Bad -> Nat]
    BY <1>4
  <2>2. PICK i \in Bad : \A m \in Bad : self[i] <= self[m]
    <3> HIDE DEF Bad, self
    <3> QED
      BY <1>9, <2>1, LeastElement
  <2>3. i \in 0 .. k /\ f[i] # h[i] /\ \A m \in Bad : i <= m
    BY <2>2
  <2>4. i # 0
    BY <1>7, <1>8, <2>3
  <2>5. i - 1 \in 0 .. k /\ i - 1 \notin Bad /\ i \in 1 .. k /\ i \in 1 .. n
    BY <1>1, <1>4, <2>3, <2>4
  <2>6. f[i - 1] = h[i - 1]
    BY <2>5
  <2> QED
    BY <1>1, <1>7, <1>8, <2>3, <2>5, <2>6
<1>10. f[k] = h[k] /\ h[k] \in Nat
  <2>1. k \in 0 .. k
    BY <1>4
  <2> QED
    BY <1>8, <1>9, <2>1
<1> QED
  BY <1>10 DEF LengthOf, f, h, k

\* The length of what is taken: within budget unless it is a single item, and with the
\* next item it would not be.
LEMMA TakenIsWithinBudget ==
    ASSUME NEW S, \A x \in S : x.size \in Nat, NEW items \in Seq(S), NEW budget \in Int
    PROVE  LET taken == TakeWithinBudget(items, budget, Len(items))
           IN  /\ taken \in Seq(S) /\ Len(taken) \in 0 .. Len(items) /\ LengthOf(taken) \in Nat
               /\ Len(taken) = 0 => LengthOf(taken) = 0
               /\ Len(taken) > 0 => LengthOf(taken) >= taken[Len(taken)].size
               /\ Len(taken) > 1 => LengthOf(taken) <= budget
               /\ Len(taken) < Len(items) => LengthOf(taken) + items[Len(taken) + 1].size > budget
<1> DEFINE n == Len(items)
           taken == TakeWithinBudget(items, budget, n)
<1>1. n \in Nat /\ DOMAIN items = 1 .. n /\ \A i \in 1 .. n : items[i] \in S /\ items[i].size \in Nat
  BY LenProperties
<1>2. PICK k \in 0 .. n : Longest(k, taken, items, S, budget, n)
  BY <1>1, TakesTheLongest
<1> HIDE DEF n, taken
<1>3. /\ k \in Nat /\ k \in 0 .. n
      /\ taken \in Seq(S) /\ Len(taken) = k
      /\ \A i \in 1 .. k : taken[i] = items[i] /\ taken[i].size \in Nat
  BY <1>1, <1>2 DEF Longest
<1>4. AddsUp(Used(items), items, n)
  BY <1>1, UsedAddsUp DEF n
<1>6. LengthOf(taken) = Used(items)[k] /\ Used(items)[k] \in Nat
  <2>1. Starts(taken, items)
    BY <1>1, <1>3 DEF Starts, n
  <2> QED
    BY <1>3, <2>1, SumsAgree
<1>7. k = 0 => LengthOf(taken) = 0
  BY <1>4, <1>6 DEF AddsUp
<1>8. k > 1 => LengthOf(taken) <= budget
  BY <1>2, <1>6 DEF Longest, Fits
<1>10. ASSUME k > 0 PROVE LengthOf(taken) >= taken[k].size
  <2>1. k \in 1 .. n /\ k \in 1 .. k /\ k - 1 \in 0 .. n
    BY <1>1, <1>3, <1>10
  <2>2. Used(items)[k] = Used(items)[k - 1] + items[k].size /\ Used(items)[k - 1] \in Nat
    BY <1>4, <2>1 DEF AddsUp
  <2>3. taken[k] = items[k] /\ items[k].size \in Nat
    BY <1>1, <1>3, <2>1
  <2> QED
    BY <1>6, <2>2, <2>3
<1>9. ASSUME k < n PROVE LengthOf(taken) + items[k + 1].size > budget
  <2>1. k + 1 \in 0 .. n /\ k + 1 \in 1 .. n /\ ~ (k + 1 <= k)
    BY <1>1, <1>3, <1>9
  <2>2. ~ Fits(items, k + 1, budget, n)
    BY <1>2, <2>1 DEF Longest, n
  <2>3. ~ (Used(items)[k + 1] <= budget)
    BY <1>1, <2>1, <2>2 DEF Fits, n
  <2>4. Used(items)[k + 1] = Used(items)[(k + 1) - 1] + items[k + 1].size
    BY <1>4, <2>1 DEF AddsUp
  <2>5. (k + 1) - 1 = k
    BY <1>3
  <2> QED
    BY <1>1, <1>6, <2>1, <2>3, <2>4, <2>5
<1> QED
  BY <1>3, <1>6, <1>7, <1>8, <1>9, <1>10 DEF n, taken

\* An array is longer than its items together.
LEMMA SerializedFacts ==
    ASSUME NEW S, \A x \in S : x.size \in Nat, NEW items \in Seq(S)
    PROVE  LengthOf(items) \in Nat /\ Serialized(items) \in Nat /\ Serialized(items) > LengthOf(items)
<1> DEFINE m == Len(items)
<1>1. m \in Nat /\ \A k \in 1 .. m : items[k] \in S
  BY LenProperties
<1>2. LengthOf(items) \in Nat
  <2> HIDE DEF m
  <2>1. Len(items) = m /\ \A k \in 1 .. m : items[k].size \in Nat
    BY <1>1 DEF m
  <2>2. AddsUp(Used(items), items, m)
    BY <1>1, <2>1, UsedAddsUp
  <2> QED
    BY <1>1, <2>1, <2>2 DEF LengthOf, AddsUp
<1>3. Max({1, m}) \in Nat
  <2>1. {1, m} \in SUBSET (0 .. (m + 1)) /\ m + 1 \in Nat /\ {1, m} # {}
    BY <1>1
  <2>2. Max({1, m}) \in {1, m}
    BY <2>1, MaxOfBounded
  <2> QED
    BY <2>1, <2>2
<1> QED
  BY <1>2, <1>3 DEF Serialized

\* The prompt is given what fits of an evidence.
LEMMA PayloadFacts ==
    ASSUME NEW e, e.nodes \in Seq(Nodes), e.relationships \in Seq(Relationships)
    PROVE  LET built == BuildAnswerEvidencePayload(e)
               nodes == built.nodes
               rels == built.relationships
           IN  /\ LengthOf(nodes) <= PromptBudget \/ Len(nodes) = 1
               /\ Len(rels) > 1 => Serialized(nodes) + LengthOf(rels) <= PromptBudget
               /\ \A i \in DOMAIN rels : {rels[i].startId, rels[i].endId} \subseteq Ids(ToSet(nodes))
               /\ Len(nodes) < Len(e.nodes) =>
                     LengthOf(nodes) + e.nodes[Len(nodes) + 1].size > PromptBudget - PromptReserve
<1> DEFINE reserve == Min({Serialized(e.relationships), PromptReserve})
           nodes == TakeWithinBudget(e.nodes, PromptBudget - reserve, Len(e.nodes))
           places == {i \in DOMAIN e.relationships :
                        {e.relationships[i].startId, e.relationships[i].endId} \subseteq Ids(ToSet(nodes))}
           reachable == Reachable(e.relationships, nodes)
           left == IF Serialized(nodes) < PromptBudget THEN PromptBudget - Serialized(nodes) ELSE 0
           rels == TakeWithinBudget(reachable, left, Len(reachable))
<1>1. PromptBudget \in Nat /\ PromptReserve \in Nat /\ PromptReserve <= PromptBudget
  BY EvidenceAssumption
<1>2. (\A n \in Nodes : n.size \in Nat) /\ (\A r \in Relationships : r.size \in Nat /\ r.size > 0)
  BY QueryAssumption
<1>3. reserve \in Nat /\ reserve <= PromptReserve
  <2>3. Serialized(e.relationships) \in Nat
    BY <1>2, SerializedFacts
  <2>4. {Serialized(e.relationships), PromptReserve} \in SUBSET Nat
    BY <1>1, <2>3
  <2>5. /\ reserve \in {Serialized(e.relationships), PromptReserve}
        /\ \A y \in {Serialized(e.relationships), PromptReserve} : reserve <= y
    BY <2>4, MinOfSome
  <2> HIDE DEF reserve
  <2> QED
    BY <1>1, <2>3, <2>5
<1> HIDE DEF reserve
<1>4. PromptBudget - reserve \in Int
  BY <1>1, <1>3
<1>5. /\ Len(nodes) \in 0 .. Len(e.nodes) /\ LengthOf(nodes) \in Nat
      /\ Len(nodes) = 0 => LengthOf(nodes) = 0
      /\ Len(nodes) > 1 => LengthOf(nodes) <= PromptBudget - reserve
      /\ Len(nodes) < Len(e.nodes) => LengthOf(nodes) + e.nodes[Len(nodes) + 1].size > PromptBudget - reserve
  BY <1>2, <1>4, TakenIsWithinBudget
<1>6. Len(e.nodes) \in Nat /\ \A i \in 1 .. Len(e.nodes) : e.nodes[i].size \in Nat
  BY <1>2, LenProperties
<1>15. nodes \in Seq(Nodes) /\ Serialized(nodes) \in Nat
  <2>1. nodes \in Seq(Nodes)
    BY <1>2, <1>4, TakenIsWithinBudget
  <2> HIDE DEF nodes
  <2> QED
    BY <1>2, <2>1, SerializedFacts
<1> HIDE DEF nodes
<1> DEFINE whole == {r \in Relationships : {r.startId, r.endId} \subseteq Ids(ToSet(nodes))}
<1>7. reachable \in Seq(whole)
  <2> DEFINE items == e.relationships
             n == Len(items)
  <2>1. /\ DOMAIN items = 1 .. n /\ n \in Nat
        /\ \A i \in DOMAIN items : items[i] \in Relationships
    BY LenProperties
  <2>2. places \in SUBSET (1 .. n)
    BY <2>1
  <2>3. \A i \in places : items[i] \in whole
    BY <2>1
  <2>4. reachable = Picked(items, places)
    BY DEF Reachable
  <2> HIDE DEF places, reachable, n, items, whole
  <2>5. Picked(items, places) \in Seq(whole)
    BY <2>1, <2>2, <2>3, PickedFacts
  <2> QED
    BY <2>4, <2>5
<1>8. left \in Int
  BY <1>1, <1>15
<1> HIDE DEF reachable
<1>9. /\ rels \in Seq(whole) /\ Len(rels) \in 0 .. Len(reachable) /\ LengthOf(rels) \in Nat
      /\ Len(rels) > 0 => LengthOf(rels) >= rels[Len(rels)].size
      /\ Len(rels) > 1 => LengthOf(rels) <= left
  <2>1. \A r \in whole : r.size \in Nat
    BY <1>2
  <2> HIDE DEF left, whole
  <2> QED
    BY <1>7, <1>8, <2>1, TakenIsWithinBudget
<1> HIDE DEF rels
<1>10. Len(rels) \in Nat /\ Len(nodes) \in Nat
  BY <1>5, <1>6, <1>7, <1>9, LenProperties
<1>11. LengthOf(nodes) <= PromptBudget \/ Len(nodes) = 1
  <2> DEFINE u == LengthOf(nodes)
             m == Len(nodes)
  <2>1. u \in Nat /\ m \in Nat /\ (m = 0 => u = 0) /\ (m > 1 => u <= PromptBudget - reserve)
    BY <1>5, <1>10
  <2> HIDE DEF u, m
  <2>2. u <= PromptBudget \/ m = 1
    BY <1>1, <1>3, <2>1
  <2> QED
    BY <2>2 DEF u, m
<1>16. ASSUME Len(rels) > 1 PROVE Serialized(nodes) + LengthOf(rels) <= PromptBudget
  <2>1. LengthOf(rels) <= left
    BY <1>9, <1>16
  <2>2. LengthOf(rels) > 0
    <3>1. rels[Len(rels)] \in Relationships
      <4>1. whole \subseteq Relationships
        OBVIOUS
      <4> HIDE DEF whole
      <4> QED
        BY <1>9, <1>10, <1>16, <4>1, LenProperties
    <3>2. rels[Len(rels)].size \in Nat /\ rels[Len(rels)].size > 0
      BY <1>2, <3>1
    <3> QED
      BY <1>9, <1>10, <1>16, <3>2
  <2> QED
    BY <1>1, <1>9, <1>15, <2>1, <2>2
<1>12. ASSUME NEW i \in DOMAIN rels PROVE {rels[i].startId, rels[i].endId} \subseteq Ids(ToSet(nodes))
  <2>1. rels[i] \in whole
    <3> HIDE DEF whole
    <3> QED
      BY <1>9, LenProperties
  <2> QED
    BY <2>1
<1>13. ASSUME Len(nodes) < Len(e.nodes)
       PROVE  LengthOf(nodes) + e.nodes[Len(nodes) + 1].size > PromptBudget - PromptReserve
  <2>1. LengthOf(nodes) + e.nodes[Len(nodes) + 1].size > PromptBudget - reserve
    BY <1>5, <1>13
  <2>2. e.nodes[Len(nodes) + 1].size \in Nat
    BY <1>6, <1>10, <1>13
  <2> QED
    BY <1>1, <1>3, <1>5, <2>1, <2>2
<1>14. BuildAnswerEvidencePayload(e) = [nodes |-> nodes, relationships |-> rels]
  BY DEF BuildAnswerEvidencePayload, reserve, nodes, reachable, rels
<1> QED
  BY <1>11, <1>12, <1>13, <1>14, <1>16

LEMMA PromptIsBuilt ==
    Spec => []PromptIsBalanced
<1>1. QueryInv => PromptIsBalanced
  <2> SUFFICES ASSUME QueryInv, payload # NoEvidence PROVE PromptIsBalanced
    BY DEF PromptIsBalanced
  <2>1. /\ OfGraphs(final) /\ OfGraphs(supporting) /\ anchors \in Seq(Nodes)
        /\ response.evidence = RefineQueryEvidence(final, supporting, anchors)
        /\ payload = BuildAnswerEvidencePayload(response.evidence)
    BY DEF QueryInv, ServiceOK, AnswerOK
  <2> DEFINE refined == RefineQueryEvidence(final, supporting, anchors)
  <2>2. refined.nodes \in Seq(Nodes) /\ refined.relationships \in Seq(final.relationships \cup supporting.relationships)
    BY <2>1, RefinedFacts
  <2> HIDE DEF refined
  <2>3. refined.relationships \in Seq(Relationships)
    <3> DEFINE rels == final.relationships \cup supporting.relationships
    <3>1. rels \subseteq Relationships /\ refined.relationships \in Seq(rels)
      BY <2>1, <2>2 DEF OfGraphs
    <3> HIDE DEF rels
    <3> QED
      BY <3>1
  <2>4. response.evidence.nodes \in Seq(Nodes) /\ response.evidence.relationships \in Seq(Relationships)
    BY <2>1, <2>2, <2>3 DEF refined
  <2> DEFINE e == response.evidence
             built == BuildAnswerEvidencePayload(e)
  <2>5. /\ LengthOf(built.nodes) <= PromptBudget \/ Len(built.nodes) = 1
        /\ Len(built.relationships) > 1 => Serialized(built.nodes) + LengthOf(built.relationships) <= PromptBudget
        /\ \A i \in DOMAIN built.relationships :
              {built.relationships[i].startId, built.relationships[i].endId} \subseteq Ids(ToSet(built.nodes))
        /\ Len(built.nodes) < Len(e.nodes) =>
              LengthOf(built.nodes) + e.nodes[Len(built.nodes) + 1].size > PromptBudget - PromptReserve
    BY <2>4, PayloadFacts
  <2>6. payload = built
    BY <2>1
  <2> HIDE DEF built, e
  <2> QED
    BY <2>5, <2>6 DEF PromptIsBalanced, e
<1> QED
  BY <1>1, QueryInvHolds, PTL

--------------------------------------------------------------------------------
(* What anchors are chosen of the candidates.                                   *)

Step(before, n, room) ==
    IF Cardinality(before) < AnchorCandidateLimit /\ CountLabel(before, n.label) < room[n.label]
    THEN before \cup {n} ELSE before

\* f is what has been chosen after each of the first n candidates.
Chooses(f, sorted, chosen, room, C, n) ==
    /\ f \in [0 .. n -> SUBSET C]
    /\ f[0] = chosen
    /\ \A i \in 1 .. n : f[i] = Step(f[i - 1], sorted[i], room)

LEMMA ChoicesExist ==
    ASSUME NEW C, NEW N \in Nat, NEW sorted, \A i \in 1 .. N : sorted[i] \in C,
           NEW chosen \in SUBSET C, NEW room
    PROVE  \E f : Chooses(f, sorted, chosen, room, C, N)
<1> DEFINE Bad == {n \in 0 .. N : ~ \E f : Chooses(f, sorted, chosen, room, C, n)}
           self == [n \in Bad |-> n]
<1>1. ASSUME Bad # {} PROVE FALSE
  <2>1. self \in [Bad -> Nat]
    OBVIOUS
  <2>2. PICK n \in Bad : \A m \in Bad : self[n] <= self[m]
    <3> HIDE DEF Bad, self
    <3> QED
      BY <1>1, <2>1, LeastElement
  <2>3. n \in 0 .. N /\ \A m \in Bad : n <= m
    BY <2>2
  <2>4. CASE n = 0
    <3>1. Chooses([k \in 0 .. 0 |-> chosen], sorted, chosen, room, C, 0)
      BY DEF Chooses
    <3> QED
      BY <2>4, <3>1
  <2>5. CASE n # 0
    <3>1. n - 1 \in 0 .. N /\ n - 1 \notin Bad
      BY <2>3, <2>5
    <3>2. PICK f : Chooses(f, sorted, chosen, room, C, n - 1)
      BY <3>1
    <3> DEFINE g == [k \in 0 .. n |-> IF k = n THEN Step(f[n - 1], sorted[n], room) ELSE f[k]]
    <3>3. n \in 1 .. N /\ sorted[n] \in C
      BY <2>3, <2>5
    <3>4. /\ f \in [0 .. (n - 1) -> SUBSET C] /\ f[0] = chosen
          /\ \A k \in 1 .. (n - 1) : f[k] = Step(f[k - 1], sorted[k], room)
      BY <3>2 DEF Chooses
    <3>5. Step(f[n - 1], sorted[n], room) \in SUBSET C
      <4>1. f[n - 1] \in SUBSET C
        BY <3>3, <3>4
      <4> QED
        BY <3>3, <4>1 DEF Step
    <3>6. g \in [0 .. n -> SUBSET C]
      BY <3>3, <3>4, <3>5
    <3>7. g[0] = chosen
      BY <3>3, <3>4
    <3>8. ASSUME NEW k \in 1 .. n PROVE g[k] = Step(g[k - 1], sorted[k], room)
      BY <3>3, <3>4
    <3> HIDE DEF g
    <3>9. Chooses(g, sorted, chosen, room, C, n)
      BY <3>6, <3>7, <3>8 DEF Chooses
    <3> QED
      BY <3>9
  <2> QED
    BY <2>4, <2>5
<1>2. N \in 0 .. N /\ N \notin Bad
  BY <1>1
<1> QED
  BY <1>2

\* A step of a choice adds to what is chosen, but not beyond the limit, nor to a label
\* beyond its room; and what it passes over has no room, or there are enough.
LEMMA StepFacts ==
    ASSUME NEW before, IsFiniteSet(before), Cardinality(before) <= AnchorCandidateLimit, NEW n, NEW room
    PROVE  LET after == Step(before, n, room)
           IN  /\ IsFiniteSet(after) /\ before \subseteq after /\ after \subseteq before \cup {n}
               /\ Cardinality(before) \in Nat /\ Cardinality(after) \in Nat
               /\ Cardinality(before) <= Cardinality(after) /\ Cardinality(after) <= AnchorCandidateLimit
               /\ \A l : /\ CountLabel(before, l) \in Nat /\ CountLabel(after, l) \in Nat
                         /\ CountLabel(before, l) <= CountLabel(after, l)
                         /\ CountLabel(after, l) = CountLabel(before, l) \/ (l = n.label /\ n \in after
                               /\ CountLabel(before, l) < room[l] /\ CountLabel(after, l) <= CountLabel(before, l) + 1)
               /\ n \in after \/ Cardinality(after) >= AnchorCandidateLimit
                    \/ ~(CountLabel(after, n.label) < room[n.label])
<1> DEFINE after == Step(before, n, room)
           of(S, l) == {m \in S : m.label = l}
<1>1. AnchorCandidateLimit \in Nat
  BY EvidenceAssumption
<1>2. before \subseteq after /\ after \subseteq before \cup {n}
  BY DEF Step
<1>3. IsFiniteSet(before \cup {n}) /\ IsFiniteSet(after)
  <2>1. IsFiniteSet({n})
    BY FS_Singleton
  <2>2. IsFiniteSet(before \cup {n})
    BY <2>1, FS_Union
  <2> HIDE DEF after
  <2> QED
    BY <1>2, <2>2, FS_Subset
<1> HIDE DEF after
<1>4. Cardinality(before) \in Nat /\ Cardinality(after) \in Nat /\ Cardinality(before) <= Cardinality(after)
  BY <1>2, <1>3, FS_Subset, FS_CardinalityType
<1>5. ASSUME NEW S, IsFiniteSet(S), NEW m PROVE Cardinality(S \cup {m}) <= Cardinality(S) + 1
  <2>1. Cardinality(S) \in Nat
    BY <1>5, FS_CardinalityType
  <2>2. Cardinality(S \cup {m}) = IF m \in S THEN Cardinality(S) ELSE Cardinality(S) + 1
    BY <1>5, FS_AddElement
  <2> QED
    BY <2>1, <2>2
<1>6. Cardinality(after) <= AnchorCandidateLimit
  <2>1. CASE after = before
    BY <2>1
  <2>2. CASE after # before
    <3>1. Cardinality(before) < AnchorCandidateLimit /\ after = before \cup {n}
      BY <2>2 DEF after, Step
    <3>2. Cardinality(after) <= Cardinality(before) + 1
      BY <1>5, <3>1
    <3> QED
      BY <1>1, <1>4, <3>1, <3>2
  <2> QED
    BY <2>1, <2>2
<1>7. ASSUME NEW l
      PROVE  /\ CountLabel(before, l) \in Nat /\ CountLabel(after, l) \in Nat
             /\ CountLabel(before, l) <= CountLabel(after, l)
             /\ CountLabel(after, l) = CountLabel(before, l) \/ (l = n.label /\ n \in after
                   /\ CountLabel(before, l) < room[l] /\ CountLabel(after, l) <= CountLabel(before, l) + 1)
  <2>1. of(before, l) \subseteq of(after, l) /\ of(before, l) \subseteq before /\ of(after, l) \subseteq after
    BY <1>2
  <2>2. CountLabel(before, l) = Cardinality(of(before, l)) /\ CountLabel(after, l) = Cardinality(of(after, l))
    BY DEF CountLabel
  <2>3. after = before \/ (after = before \cup {n} /\ CountLabel(before, n.label) < room[n.label])
    BY DEF after, Step
  <2>4. CASE l = n.label /\ after = before \cup {n} /\ CountLabel(before, n.label) < room[n.label]
    <3>1. of(after, l) = of(before, l) \cup {n} /\ n \in after
      BY <2>4
    <3> HIDE DEF of
    <3>2. IsFiniteSet(of(before, l)) /\ IsFiniteSet(of(after, l))
      BY <1>3, <2>1, FS_Subset
    <3>3. Cardinality(of(after, l)) <= Cardinality(of(before, l)) + 1
      BY <1>5, <3>1, <3>2
    <3>4. Cardinality(of(before, l)) \in Nat /\ Cardinality(of(after, l)) \in Nat
          /\ Cardinality(of(before, l)) <= Cardinality(of(after, l))
      BY <2>1, <3>2, FS_Subset, FS_CardinalityType
    <3> QED
      BY <2>2, <2>4, <3>1, <3>3, <3>4
  <2>5. CASE ~(l = n.label /\ after = before \cup {n} /\ CountLabel(before, n.label) < room[n.label])
    <3>1. of(after, l) = of(before, l)
      BY <2>3, <2>5
    <3> HIDE DEF of
    <3>2. IsFiniteSet(of(before, l))
      BY <2>1, FS_Subset
    <3>3. Cardinality(of(before, l)) \in Nat
      BY <3>2, FS_CardinalityType
    <3> QED
      BY <2>2, <3>1, <3>3
  <2> QED
    BY <2>4, <2>5
<1>8. n \in after \/ Cardinality(after) >= AnchorCandidateLimit \/ ~(CountLabel(after, n.label) < room[n.label])
  <2>1. CASE after = before \cup {n}
    BY <2>1
  <2>2. CASE after # before \cup {n}
    <3>1. after = before /\ (~(Cardinality(before) < AnchorCandidateLimit)
                               \/ ~(CountLabel(before, n.label) < room[n.label]))
      BY <2>2 DEF after, Step
    <3> QED
      BY <1>1, <1>4, <3>1
  <2> QED
    BY <2>1, <2>2
<1> QED
  BY <1>2, <1>3, <1>4, <1>6, <1>7, <1>8 DEF after

\* S has been chosen, after those that were before, of the first i candidates.
Chosen(S, i, sorted, chosen, room) ==
    /\ chosen \subseteq S /\ IsFiniteSet(S) /\ Cardinality(S) <= AnchorCandidateLimit
    /\ \A l : \/ CountLabel(S, l) = CountLabel(chosen, l)
              \/ (\E j \in 1 .. Len(sorted) : l = sorted[j].label) /\ CountLabel(S, l) <= room[l]
    /\ \/ Cardinality(S) >= AnchorCandidateLimit
       \/ \A j \in 1 .. i : sorted[j] \in S \/ ~(CountLabel(S, sorted[j].label) < room[sorted[j].label])

LEMMA StepsChoose ==
    ASSUME NEW sorted, Len(sorted) \in Nat, NEW chosen, NEW room,
           \A j \in 1 .. Len(sorted) : room[sorted[j].label] \in Nat,
           NEW i \in 1 .. Len(sorted), NEW before, Chosen(before, i - 1, sorted, chosen, room)
    PROVE  Chosen(Step(before, sorted[i], room), i, sorted, chosen, room)
<1> DEFINE n == sorted[i]
           after == Step(before, n, room)
<1>1. AnchorCandidateLimit \in Nat
  BY EvidenceAssumption
<1>2. /\ chosen \subseteq before /\ IsFiniteSet(before) /\ Cardinality(before) <= AnchorCandidateLimit
      /\ \A l : \/ CountLabel(before, l) = CountLabel(chosen, l)
                \/ (\E j \in 1 .. Len(sorted) : l = sorted[j].label) /\ CountLabel(before, l) <= room[l]
      /\ \/ Cardinality(before) >= AnchorCandidateLimit
         \/ \A j \in 1 .. (i - 1) : sorted[j] \in before \/ ~(CountLabel(before, sorted[j].label) < room[sorted[j].label])
  BY DEF Chosen
<1>3. /\ IsFiniteSet(after) /\ before \subseteq after
      /\ Cardinality(before) \in Nat /\ Cardinality(after) \in Nat
      /\ Cardinality(before) <= Cardinality(after) /\ Cardinality(after) <= AnchorCandidateLimit
      /\ \A l : /\ CountLabel(before, l) \in Nat /\ CountLabel(after, l) \in Nat
                /\ CountLabel(before, l) <= CountLabel(after, l)
                /\ CountLabel(after, l) = CountLabel(before, l) \/ (l = n.label /\ n \in after
                      /\ CountLabel(before, l) < room[l] /\ CountLabel(after, l) <= CountLabel(before, l) + 1)
      /\ n \in after \/ Cardinality(after) >= AnchorCandidateLimit \/ ~(CountLabel(after, n.label) < room[n.label])
  BY <1>2, StepFacts
<1> HIDE DEF after
<1>4. ASSUME NEW l, CountLabel(after, l) # CountLabel(chosen, l)
      PROVE  (\E j \in 1 .. Len(sorted) : l = sorted[j].label) /\ CountLabel(after, l) <= room[l]
  <2>1. CASE CountLabel(after, l) = CountLabel(before, l)
    BY <1>2, <1>4, <2>1
  <2>2. CASE CountLabel(after, l) # CountLabel(before, l)
    <3>1. /\ l = sorted[i].label /\ CountLabel(before, l) < room[l]
          /\ CountLabel(after, l) <= CountLabel(before, l) + 1
          /\ CountLabel(before, l) \in Nat /\ CountLabel(after, l) \in Nat
      BY <1>3, <2>2
    <3>2. room[l] \in Nat
      BY <3>1
    <3> QED
      BY <3>1, <3>2
  <2> QED
    BY <2>1, <2>2
<1>5. ASSUME ~(Cardinality(after) >= AnchorCandidateLimit), NEW j \in 1 .. i, sorted[j] \notin after
      PROVE  ~(CountLabel(after, sorted[j].label) < room[sorted[j].label])
  <2>1. CASE j = i
    BY <1>3, <1>5, <2>1
  <2>2. CASE j # i
    <3> DEFINE l == sorted[j].label
    <3>1. j \in 1 .. (i - 1) /\ j \in 1 .. Len(sorted) /\ sorted[j] \notin before
      BY <1>3, <1>5, <2>2
    <3>2. ~(Cardinality(before) >= AnchorCandidateLimit)
      BY <1>1, <1>3, <1>5
    <3>3. ~(CountLabel(before, l) < room[l])
      BY <1>2, <3>1, <3>2
    <3>4. CountLabel(before, l) \in Nat /\ CountLabel(after, l) \in Nat
          /\ CountLabel(before, l) <= CountLabel(after, l) /\ room[l] \in Nat
      BY <1>3, <3>1
    <3> QED
      BY <3>3, <3>4
  <2> QED
    BY <2>1, <2>2
<1>6. chosen \subseteq after
  BY <1>2, <1>3
<1>7. Chosen(after, i, sorted, chosen, room)
  BY <1>3, <1>4, <1>5, <1>6 DEF Chosen
<1> QED
  BY <1>7 DEF after

\* What is selected of candidates besides those that were chosen before.
LEMMA SelectedFacts ==
    ASSUME NEW C, IsFiniteSet(C), NEW sorted \in Seq(C), NEW chosen \in SUBSET C,
           Cardinality(chosen) <= AnchorCandidateLimit,
           NEW room, \A j \in DOMAIN sorted : room[sorted[j].label] \in Nat
    PROVE  /\ Selected(sorted, chosen, room) \in SUBSET C
           /\ Chosen(Selected(sorted, chosen, room), Len(sorted), sorted, chosen, room)
<1> DEFINE n == Len(sorted)
           after == CHOOSE f : f = [i \in 0 .. n |->
                        IF i = 0 THEN chosen ELSE Step(f[i - 1], sorted[i], room)]
<1>1. n \in Nat /\ DOMAIN sorted = 1 .. n /\ \A i \in 1 .. n : sorted[i] \in C
  BY LenProperties
<1>2. Selected(sorted, chosen, room) = after[n]
  BY DEF Selected, Step
<1>3. PICK f : Chooses(f, sorted, chosen, room, C, n)
  <2> HIDE DEF n
  <2> QED
    BY <1>1, ChoicesExist
<1>4. /\ f \in [0 .. n -> SUBSET C] /\ f[0] = chosen
      /\ \A i \in 1 .. n : f[i] = Step(f[i - 1], sorted[i], room)
  BY <1>3 DEF Chooses
<1>5. f = [i \in 0 .. n |-> IF i = 0 THEN chosen ELSE Step(f[i - 1], sorted[i], room)]
  BY <1>1, <1>4
<1>6. after = [i \in 0 .. n |-> IF i = 0 THEN chosen ELSE Step(after[i - 1], sorted[i], room)]
  BY <1>5
<1> HIDE DEF after
<1> DEFINE OK(i) == after[i] \in SUBSET C /\ Chosen(after[i], i, sorted, chosen, room)
           Bad == {i \in 0 .. n : ~OK(i)}
           self == [i \in Bad |-> i]
<1>7. ASSUME Bad # {} PROVE FALSE
  <2>1. self \in [Bad -> Nat]
    BY <1>1
  <2>2. PICK i \in Bad : \A m \in Bad : self[i] <= self[m]
    <3> HIDE DEF Bad, self
    <3> QED
      BY <1>7, <2>1, LeastElement
  <2>3. i \in 0 .. n /\ ~OK(i) /\ \A m \in Bad : i <= m
    BY <2>2
  <2>4. CASE i = 0
    <3>1. after[0] = chosen /\ IsFiniteSet(chosen)
      BY <1>1, <1>6, FS_Subset
    <3>2. 1 .. 0 = {}
      OBVIOUS
    <3>3. Chosen(after[0], 0, sorted, chosen, room)
      BY <3>1, <3>2 DEF Chosen
    <3> QED
      BY <2>3, <2>4, <3>1, <3>3
  <2>5. CASE i # 0
    <3>1. i \in 1 .. n /\ i - 1 \in 0 .. n /\ i - 1 \notin Bad
      BY <1>1, <2>3, <2>5
    <3>2. OK(i - 1)
      BY <3>1
    <3>3. after[i] = Step(after[i - 1], sorted[i], room)
      BY <1>6, <2>3, <2>5
    <3>4. after[i] \in SUBSET C
      BY <1>1, <3>1, <3>2, <3>3 DEF Step
    <3>5. Chosen(Step(after[i - 1], sorted[i], room), i, sorted, chosen, room)
      <4>1. \A j \in 1 .. Len(sorted) : room[sorted[j].label] \in Nat
        BY <1>1
      <4>2. Chosen(after[i - 1], i - 1, sorted, chosen, room)
        BY <3>2
      <4>3. Len(sorted) \in Nat /\ i \in 1 .. Len(sorted)
        BY <1>1, <3>1
      <4> HIDE DEF n, OK, Bad
      <4> QED
        BY <4>1, <4>2, <4>3, StepsChoose
    <3> QED
      BY <2>3, <3>3, <3>4, <3>5
  <2> QED
    BY <2>4, <2>5
<1>8. n \in 0 .. n /\ n \notin Bad
  BY <1>1, <1>7
<1>9. OK(n)
  BY <1>8
<1> QED
  BY <1>2, <1>9

\* Labels have what they are sure of, and more than their maximum only when nothing else
\* is left; and no place stays free that a candidate could have.
LEMMA AnchorsOfCandidates ==
    ASSUME NEW rs, ResultSets(rs)
    PROVE  LET chosen == ToSet(RankAnchorCandidates(rs))
               pool == Candidates(rs)
           IN  /\ chosen \subseteq pool
               /\ Cardinality(chosen) = Min({Cardinality(pool), AnchorCandidateLimit})
               /\ \A l \in DOMAIN AnchorLabelQuotas :
                     CountLabel(chosen, l) >=
                        Min({CountLabel(pool, l), AnchorLabelQuotas[l].min, AnchorCandidateLimit})
               /\ InQuota(chosen) # chosen =>
                     \A n \in pool \ chosen :
                         /\ n.label \in DOMAIN AnchorLabelQuotas
                         /\ CountLabel(chosen, n.label) >= AnchorLabelQuotas[n.label].max
<1> DEFINE pool == Candidates(rs)
           sorted == RankedCandidates(rs)
           labels == {sorted[i].label : i \in DOMAIN sorted}
           least == [l \in labels |-> Least(l)]
           most == [l \in labels |-> Most(l)]
           all == [l \in labels |-> AnchorCandidateLimit]
           sure == Selected(sorted, {}, least)
           fair == Selected(sorted, sure, most)
           chosen == Selected(sorted, fair, all)
           ranked == ToSet(RankAnchorCandidates(rs))
           N == Len(sorted)
<1>1. /\ IsFiniteSet(pool) /\ pool \subseteq Nodes
      /\ sorted \in Seq(pool) /\ ToSet(sorted) = pool
  BY RatingsDiffer, CandidatesAreRanked
<1>2. ChosenAnchors(sorted) = chosen
  BY DEF ChosenAnchors
<1>3. RankAnchorCandidates(rs) = Picked(sorted, {i \in DOMAIN sorted : sorted[i] \in chosen})
  BY <1>2 DEF RankAnchorCandidates
<1> HIDE DEF pool, sorted
<1>4. N \in Nat /\ DOMAIN sorted = 1 .. N /\ \A i \in 1 .. N : sorted[i] \in pool
  BY <1>1, LenProperties
<1>5. \A n \in pool : \E i \in 1 .. N : n = sorted[i]
  BY <1>1, <1>4 DEF ToSet
<1>6. AnchorCandidateLimit \in Nat /\ \A l : Least(l) \in Nat /\ Most(l) \in Nat /\ Least(l) <= Most(l)
  BY EvidenceAssumption DEF Least, Most
<1>7. \A j \in DOMAIN sorted : /\ least[sorted[j].label] = Least(sorted[j].label)
                               /\ most[sorted[j].label] = Most(sorted[j].label)
                               /\ all[sorted[j].label] = AnchorCandidateLimit
  OBVIOUS
<1> HIDE DEF least, most, all
<1>8. sure \in SUBSET pool /\ Chosen(sure, N, sorted, {}, least)
  <2>1. {} \in SUBSET pool /\ Cardinality({}) <= AnchorCandidateLimit
    BY <1>6, FS_EmptySet
  <2>2. \A j \in DOMAIN sorted : least[sorted[j].label] \in Nat
    BY <1>6, <1>7
  <2> QED
    BY <1>1, <2>1, <2>2, SelectedFacts
<1> HIDE DEF sure
<1>9. fair \in SUBSET pool /\ Chosen(fair, N, sorted, sure, most)
  <2>1. \A j \in DOMAIN sorted : most[sorted[j].label] \in Nat
    BY <1>6, <1>7
  <2>2. sure \in SUBSET pool /\ Cardinality(sure) <= AnchorCandidateLimit
    BY <1>8 DEF Chosen
  <2> QED
    BY <1>1, <2>1, <2>2, SelectedFacts
<1> HIDE DEF fair
<1>10. chosen \in SUBSET pool /\ Chosen(chosen, N, sorted, fair, all)
  <2>1. \A j \in DOMAIN sorted : all[sorted[j].label] \in Nat
    BY <1>6, <1>7
  <2>2. fair \in SUBSET pool /\ Cardinality(fair) <= AnchorCandidateLimit
    BY <1>9 DEF Chosen
  <2> QED
    BY <1>1, <2>1, <2>2, SelectedFacts
<1> HIDE DEF chosen, N
<1>11. sure \subseteq fair /\ fair \subseteq chosen /\ IsFiniteSet(sure) /\ IsFiniteSet(fair) /\ IsFiniteSet(chosen)
  BY <1>8, <1>9, <1>10 DEF Chosen
<1>12. ASSUME NEW S, IsFiniteSet(S), NEW T \in SUBSET S
       PROVE  /\ Cardinality(S) \in Nat /\ Cardinality(T) \in Nat /\ Cardinality(T) <= Cardinality(S)
              /\ Cardinality(T) = Cardinality(S) => T = S
  BY <1>12, FS_Subset, FS_CardinalityType
<1>13. ASSUME NEW S, IsFiniteSet(S), NEW T \in SUBSET S, NEW l
       PROVE  /\ CountLabel(S, l) \in Nat /\ CountLabel(T, l) \in Nat
              /\ CountLabel(T, l) <= CountLabel(S, l) /\ CountLabel(S, l) <= Cardinality(S)
  <2> DEFINE of(X) == {m \in X : m.label = l}
  <2>1. of(T) \in SUBSET of(S) /\ of(S) \in SUBSET S
    OBVIOUS
  <2>2. CountLabel(S, l) = Cardinality(of(S)) /\ CountLabel(T, l) = Cardinality(of(T))
    BY DEF CountLabel
  <2> HIDE DEF of
  <2>3. IsFiniteSet(of(S))
    BY <1>13, <2>1, FS_Subset
  <2>4. Cardinality(of(T)) <= Cardinality(of(S)) /\ Cardinality(of(T)) \in Nat /\ Cardinality(of(S)) \in Nat
    BY <1>12, <2>1, <2>3
  <2>5. Cardinality(of(S)) <= Cardinality(S)
    BY <1>12, <1>13, <2>1
  <2> QED
    BY <2>2, <2>4, <2>5
<1>14. \A l : CountLabel({}, l) = 0
  BY FS_EmptySet DEF CountLabel
<1>15. \A l : CountLabel(sure, l) <= Least(l)
  <2>1. ASSUME NEW l PROVE CountLabel(sure, l) <= Least(l)
    <3>1. CASE CountLabel(sure, l) = CountLabel({}, l)
      BY <1>6, <1>14, <3>1
    <3>2. CASE CountLabel(sure, l) # CountLabel({}, l)
      <4>1. PICK j \in 1 .. N : l = sorted[j].label /\ CountLabel(sure, l) <= least[l]
        BY <1>8, <3>2 DEF Chosen, N
      <4> QED
        BY <1>4, <1>7, <4>1
    <3> QED
      BY <3>1, <3>2
  <2> QED
    BY <2>1
<1>16. ASSUME NEW n \in pool, n \notin sure
       PROVE  CountLabel(sure, n.label) >= Least(n.label)
  <2>1. PICK j \in 1 .. N : n = sorted[j]
    BY <1>5
  <2>2. CountLabel(sure, n.label) \in Nat /\ Cardinality(sure) \in Nat
    BY <1>11, <1>12, <1>13
  <2>3. CASE ~(Cardinality(sure) >= AnchorCandidateLimit)
    <3>1. ~(CountLabel(sure, n.label) < least[n.label])
      BY <1>8, <1>16, <2>1, <2>3 DEF Chosen
    <3>2. least[n.label] = Least(n.label)
      BY <1>4, <1>7, <2>1
    <3> QED
      BY <1>6, <2>2, <3>1, <3>2
  <2>4. CASE Cardinality(sure) >= AnchorCandidateLimit
    <3>1. SUFFICES ASSUME CountLabel(sure, n.label) < Least(n.label) PROVE FALSE
      BY <1>6, <2>2
    <3> DEFINE more == sure \cup {n}
    <3>2. IsFiniteSet(more) /\ Cardinality(more) = Cardinality(sure) + 1
      BY <1>11, <1>16, FS_AddElement
    <3>3. \A m \in more : CountLabel(more, m.label) <= Least(m.label)
      <4>1. ASSUME NEW l PROVE CountLabel(more, l) <= Least(l)
        <5> DEFINE of(X) == {m \in X : m.label = l}
        <5>1. CountLabel(more, l) = Cardinality(of(more)) /\ CountLabel(sure, l) = Cardinality(of(sure))
          BY DEF CountLabel
        <5>2. CASE l # n.label
          <6>1. of(more) = of(sure)
            BY <5>2
          <6> QED
            BY <1>15, <5>1, <6>1
        <5>3. CASE l = n.label
          <6>1. of(more) = of(sure) \cup {n} /\ n \notin of(sure) /\ of(sure) \in SUBSET sure
            BY <1>16, <5>3
          <6> HIDE DEF of, more
          <6>2. IsFiniteSet(of(sure))
            BY <1>11, <6>1, FS_Subset
          <6>3. Cardinality(of(more)) = Cardinality(of(sure)) + 1
            BY <6>1, <6>2, FS_AddElement
          <6> QED
            BY <1>6, <2>2, <3>1, <5>1, <5>3, <6>3
        <5> QED
          BY <5>2, <5>3
      <4> HIDE DEF more
      <4> QED
        BY <4>1
    <3>4. more \in SUBSET Nodes
      BY <1>1, <1>8
    <3> HIDE DEF more
    <3>5. Cardinality(more) <= AnchorCandidateLimit
      BY <3>2, <3>3, <3>4, QueryAssumption
    <3> QED
      BY <1>6, <2>2, <2>4, <3>2, <3>5
  <2> QED
    BY <2>3, <2>4
<1>17. ASSUME NEW l
       PROVE  CountLabel(fair, l) <= Most(l)
  <2>1. CASE CountLabel(fair, l) = CountLabel(sure, l)
    <3>1. CountLabel(sure, l) \in Nat /\ CountLabel(sure, l) <= Least(l)
      BY <1>11, <1>13, <1>15
    <3> QED
      BY <1>6, <2>1, <3>1
  <2>2. CASE CountLabel(fair, l) # CountLabel(sure, l)
    <3>1. PICK j \in 1 .. N : l = sorted[j].label /\ CountLabel(fair, l) <= most[l]
      BY <1>9, <2>2 DEF Chosen, N
    <3> QED
      BY <1>4, <1>7, <3>1
  <2> QED
    BY <2>1, <2>2
<1>18. /\ Cardinality(fair) \in Nat /\ Cardinality(chosen) \in Nat /\ Cardinality(pool) \in Nat
       /\ Cardinality(fair) <= Cardinality(chosen) /\ Cardinality(chosen) <= Cardinality(pool)
       /\ Cardinality(chosen) <= AnchorCandidateLimit
       /\ Cardinality(fair) = Cardinality(chosen) => fair = chosen
       /\ Cardinality(chosen) = Cardinality(pool) => chosen = pool
  BY <1>1, <1>10, <1>11, <1>12 DEF Chosen
<1>19. Cardinality(chosen) < AnchorCandidateLimit => chosen = pool
  <2>1. ASSUME Cardinality(chosen) < AnchorCandidateLimit, NEW n \in pool PROVE n \in chosen
    <3>1. PICK j \in 1 .. N : n = sorted[j]
      BY <1>5
    <3>2. n \in chosen \/ ~(CountLabel(chosen, n.label) < all[n.label])
      BY <1>6, <1>10, <1>18, <2>1, <3>1 DEF Chosen
    <3>3. all[n.label] = AnchorCandidateLimit
      BY <1>4, <1>7, <3>1
    <3>4. CountLabel(chosen, n.label) \in Nat /\ CountLabel(chosen, n.label) <= Cardinality(chosen)
      BY <1>11, <1>13
    <3> QED
      BY <1>6, <1>18, <2>1, <3>2, <3>3, <3>4
  <2> QED
    BY <1>10, <2>1
<1>20. Cardinality(chosen) = Min({Cardinality(pool), AnchorCandidateLimit})
  <2>1. {Cardinality(pool), AnchorCandidateLimit} \in SUBSET Nat
    BY <1>6, <1>18
  <2> DEFINE m == Min({Cardinality(pool), AnchorCandidateLimit})
  <2>2. m \in {Cardinality(pool), AnchorCandidateLimit} /\ m <= Cardinality(pool) /\ m <= AnchorCandidateLimit
    BY <2>1, MinOfSome
  <2> HIDE DEF m
  <2>3. Cardinality(chosen) = m
    BY <1>6, <1>18, <1>19, <2>2
  <2> QED
    BY <2>3 DEF m
<1>21. ASSUME NEW l \in DOMAIN AnchorLabelQuotas
       PROVE  CountLabel(chosen, l) >= Min({CountLabel(pool, l), AnchorLabelQuotas[l].min, AnchorCandidateLimit})
  <2>1. Least(l) = AnchorLabelQuotas[l].min
    BY DEF Least
  <2>2. /\ CountLabel(pool, l) \in Nat /\ CountLabel(sure, l) \in Nat /\ CountLabel(chosen, l) \in Nat
        /\ CountLabel(sure, l) <= CountLabel(chosen, l)
    BY <1>1, <1>10, <1>11, <1>13
  <2> DEFINE some == {CountLabel(pool, l), AnchorLabelQuotas[l].min, AnchorCandidateLimit}
  <2>3. some \in SUBSET Nat
    BY <1>6, <2>1, <2>2
  <2>4. Min(some) \in some /\ Min(some) <= CountLabel(pool, l) /\ Min(some) <= Least(l)
    BY <2>1, <2>3, MinOfSome
  <2>5. Min(some) \in Nat
    BY <2>3, <2>4
  <2>6. CASE \E n \in pool : n.label = l /\ n \notin sure
    BY <1>6, <1>16, <2>2, <2>4, <2>5, <2>6
  <2>7. CASE ~ \E n \in pool : n.label = l /\ n \notin sure
    <3>1. {n \in pool : n.label = l} = {n \in sure : n.label = l}
      BY <1>8, <2>7
    <3>2. CountLabel(sure, l) = CountLabel(pool, l)
      BY <3>1 DEF CountLabel
    <3> QED
      BY <2>2, <2>4, <2>5, <3>2
  <2> QED
    BY <2>6, <2>7
<1>22. ASSUME InQuota(chosen) # chosen, NEW n \in pool \ chosen
       PROVE  /\ n.label \in DOMAIN AnchorLabelQuotas
              /\ CountLabel(chosen, n.label) >= AnchorLabelQuotas[n.label].max
  <2>1. chosen # fair
    <3>1. InQuota(fair) = fair
      BY <1>17 DEF InQuota, Most
    <3> QED
      BY <1>22, <3>1
  <2>2. Cardinality(fair) < AnchorCandidateLimit
    BY <1>6, <1>18, <2>1
  <2>3. PICK j \in 1 .. N : n = sorted[j]
    BY <1>5
  <2>4. ~(CountLabel(fair, n.label) < most[n.label])
    BY <1>6, <1>9, <1>11, <1>18, <2>2, <2>3 DEF Chosen
  <2>5. /\ CountLabel(fair, n.label) \in Nat /\ CountLabel(fair, n.label) <= Cardinality(fair)
        /\ CountLabel(chosen, n.label) \in Nat /\ CountLabel(fair, n.label) <= CountLabel(chosen, n.label)
    BY <1>11, <1>13
  <2>6. CountLabel(fair, n.label) >= Most(n.label) /\ Most(n.label) \in Nat
    BY <1>4, <1>6, <1>7, <2>3, <2>4, <2>5
  <2>7. n.label \in DOMAIN AnchorLabelQuotas
    <3>1. SUFFICES ASSUME n.label \notin DOMAIN AnchorLabelQuotas PROVE FALSE
      OBVIOUS
    <3>2. Most(n.label) = AnchorCandidateLimit
      BY <3>1 DEF Most
    <3> QED
      BY <1>6, <1>18, <2>2, <2>5, <2>6, <3>2
  <2>8. Most(n.label) = AnchorLabelQuotas[n.label].max
    BY <2>7 DEF Most
  <2> QED
    BY <2>5, <2>6, <2>7, <2>8
<1>23. ranked = chosen
  <2> DEFINE places == {i \in DOMAIN sorted : sorted[i] \in chosen}
  <2>1. places \in SUBSET (1 .. N) /\ \A i \in places : sorted[i] \in chosen
    BY <1>4
  <2>2. ItemsAt(sorted, places) = chosen
    BY <1>4, <1>5, <1>10 DEF ItemsAt
  <2>3. ranked = ToSet(Picked(sorted, places))
    BY <1>3
  <2> HIDE DEF places, ranked
  <2>4. ToSet(Picked(sorted, places)) = ItemsAt(sorted, places)
    BY <1>4, <2>1, PickedFacts
  <2> QED
    BY <2>2, <2>3, <2>4
<1> HIDE DEF ranked
<1> QED
  BY <1>10, <1>20, <1>21, <1>22, <1>23 DEF ranked, pool

\* As long as the hits are kept, the anchors are what they rank to, and none is a comment.
AnchorsOK ==
    stage = "count" =>
        /\ ResultSets(found) /\ anchors = RankAnchorCandidates(found)
        /\ Labelled(Candidates(found), "Comment") = {}

LEMMA AnchorsStayOK ==
    ASSUME ServiceOK, AnchorsOK, [Next]_vars
    PROVE  AnchorsOK'
<1>1. CASE PromoteCommentHits
  BY <1>1, FoundAreResultSets DEF AnchorsOK
<1>2. ASSUME stage' # "count" PROVE AnchorsOK'
  BY <1>2 DEF AnchorsOK
<1>3. ASSUME UNCHANGED <<stage, found, anchors>> PROVE AnchorsOK'
  BY <1>3 DEF AnchorsOK
<1>4. CASE ServiceStep /\ ~PromoteCommentHits
  <2>1. stage' # "count"
    BY <1>4 DEF ServiceStep, ExtractAnchorTerms, FulltextSearch, CountTaskDecisions, GenerateCypher,
                ExecuteGeneratedCypher, TakeRows, RegenerateCypher, Respond, ReexecuteCypher,
                GenerateEvidenceCypher, ExecuteEvidenceCypher, ExecuteAnchorFallback, FetchTaskComments,
                ReadRelationships, SynthesizeAnswer
  <2> QED
    BY <1>2, <2>1
<1>5. CASE GraphChanges \/ UNCHANGED serviceVars
  BY <1>3, <1>5 DEF GraphChanges, serviceVars, queryVars
<1>6. CASE Query \/ Forget
  BY <1>2, <1>6 DEF Query, Forget
<1> QED
  BY <1>1, <1>4, <1>5, <1>6, StepsOfTheQuestion

\* The mixture of labels among a question's anchors, whatever its searches found
\* (rankAnchorCandidates).
LEMMA AnchorsAreRight ==
    Spec => []AnchorsAreMixed
<1>1. Init => AnchorsOK
  BY DEF Init, InitService, AnchorsOK
<1>2. QueryInv /\ AnchorsOK /\ [Next]_vars => AnchorsOK'
  BY AnchorsStayOK DEF QueryInv
<1>3. AnchorsOK => AnchorsAreMixed
  <2> SUFFICES ASSUME AnchorsOK, stage = "count" PROVE AnchorsAreMixed
    BY DEF AnchorsAreMixed
  <2> DEFINE chosen == ToSet(anchors)
             pool == Candidates(found)
  <2>1. /\ ResultSets(found) /\ anchors = RankAnchorCandidates(found)
        /\ Labelled(pool, "Comment") = {}
    BY DEF AnchorsOK
  <2>2. /\ chosen \subseteq pool
        /\ Cardinality(chosen) = Min({Cardinality(pool), AnchorCandidateLimit})
        /\ \A l \in DOMAIN AnchorLabelQuotas :
              CountLabel(chosen, l) >= Min({CountLabel(pool, l), AnchorLabelQuotas[l].min, AnchorCandidateLimit})
        /\ InQuota(chosen) # chosen =>
              \A n \in pool \ chosen :
                  /\ n.label \in DOMAIN AnchorLabelQuotas
                  /\ CountLabel(chosen, n.label) >= AnchorLabelQuotas[n.label].max
    BY <2>1, AnchorsOfCandidates
  <2> HIDE DEF chosen, pool
  <2>3. Labelled(chosen, "Comment") = {}
    BY <2>1, <2>2 DEF Labelled
  <2> QED
    BY <2>2, <2>3 DEF AnchorsAreMixed, chosen, pool
<1> QED
  BY <1>1, <1>2, <1>3, QueryInvHolds, PTL DEF Spec

\* Wherever a limit of the API leaves something out, of a question's anchors, of its
\* evidence or of the prompt, what is left out matters least: no label loses what it is
\* sure of, nothing is left out before what comes after it, and no relationship takes the
\* place of a node (rankAnchorCandidates, refineQueryEvidence, buildAnswerEvidencePayload).
THEOREM LimitsAreFair ==
    Spec => []LimitsCutTheLeast
<1>1. AnchorsAreMixed /\ LeastImportantLeftOut /\ PromptIsBalanced => LimitsCutTheLeast
  BY DEF LimitsCutTheLeast
<1> QED
  BY <1>1, AnchorsAreRight, CutsAreFair, PromptIsBuilt, PTL

--------------------------------------------------------------------------------
(* The pages. Their invariant: what is on the canvas, and in every view to go    *)
(* back to, is a graph with the node that is selected there; an expansion still  *)
(* has its place in the history; and the last request for samples is the one the *)
(* page waits for.                                                               *)

Views == {v \in [nodes : SUBSET Nodes, relationships : SUBSET Relationships] :
             \A r \in v.relationships : {r.startId, r.endId} \subseteq Ids(v.nodes)}

Bookmarks == {b \in [view : Views, selected : Ids(Nodes)] : b.selected \in Ids(b.view.nodes)}

CanvasOK ==
    /\ page \in Pages
    /\ expansions \in 0 .. MaxExpansions[page]
    /\ view \in Views /\ expanding.before \in Views
    /\ result.nodes \subseteq view.nodes /\ result.relationships \subseteq view.relationships
    /\ page = "explorer" => result = None
    /\ history \in Seq(Bookmarks) /\ Len(history) <= expansions
    /\ history # <<>> => page = "explorer"
    /\ page = "explorer" => selected \in Ids(view.nodes) \cup {Nobody}
    /\ page = "explorer" /\ expanding # NoExpansion =>
          Len(history) < expansions /\ expanding.id \in Ids(expanding.before.nodes)

QuestionOK ==
    /\ questions \in 0 .. MaxQuestions
    /\ loading \in BOOLEAN /\ searching \in BOOLEAN
    /\ loading <=> stage # "idle"
    /\ loading => page = "query"
    /\ listed \subseteq Nodes
    /\ (listed # {} \/ searching) => page = "explorer"

SamplesOK ==
    /\ latest \in 0 .. MaxRequests /\ sampleLoading \in BOOLEAN
    /\ latest > 0 => selection \in Labels
    /\ samples.offset \in Nat
    /\ ~sampleLoading => \A n \in samples.nodes : n.label = selection
    /\ requests \subseteq [number : 1 .. latest, label : Labels, offset : Nat, counted : BOOLEAN, total : Nat]
    /\ \A p, q \in requests : p.number = q.number => p = q
    /\ \A q \in requests : q.number = latest => q.label = selection /\ sampleLoading

\* Nodes of a graph are told apart by what is displayed, so that samples have an order.
DisplayedBelow(nodes) == [n \in nodes |-> {m \in nodes : m.display < n.display}]

LEMMA SamplesAreSorted ==
    ASSUME NEW nodes \in SUBSET Nodes, IsFiniteSet(nodes)
    PROVE  InOrder(ByDisplay(nodes), nodes, DisplayedBelow(nodes))
<1> DEFINE below == DisplayedBelow(nodes)
           n == Cardinality(nodes)
           place == [i \in 1 .. n |-> CHOOSE x \in nodes : Cardinality({y \in nodes : y.display < x.display}) = i - 1]
<1>1. /\ \A x \in nodes : x.display \in Nat
      /\ \A x, y \in nodes : x.display = y.display => x = y
  BY QueryAssumption
<1>2. LinearOn(nodes, below)
  BY <1>1 DEF LinearOn, DisplayedBelow
<1>3. \A x \in nodes : below[x] = {y \in nodes : y.display < x.display}
  BY DEF DisplayedBelow
<1>4. ByDisplay(nodes) = SubSeq(place, 1, n)
  BY DEF ByDisplay, Sorted
<1>5. ASSUME NEW i \in 1 .. n
      PROVE  place[i] \in nodes /\ Cardinality(below[place[i]]) = i - 1
  <2>1. \E x \in nodes : Cardinality(below[x]) = i - 1
    BY <1>2, EveryPlaceIsTaken
  <2>2. \E x \in nodes : Cardinality({y \in nodes : y.display < x.display}) = i - 1
    BY <1>3, <2>1
  <2>3. place[i] \in nodes /\ Cardinality({y \in nodes : y.display < place[i].display}) = i - 1
    BY <2>2
  <2> QED
    BY <1>3, <2>3
<1> HIDE DEF place
<1> QED
  BY <1>2, <1>4, <1>5, PlacesAreInOrder

LEMMA StoredIsCounted ==
    ASSUME stored \in Graphs, NEW label
    PROVE  Cardinality(Labelled(stored.nodes, label)) \in Nat
<1> DEFINE S == Labelled(stored.nodes, label)
<1>1. S \in SUBSET stored.nodes /\ IsFiniteSet(stored.nodes)
  BY QueryAssumption DEF Labelled
<1> HIDE DEF S
<1>2. IsFiniteSet(S)
  BY <1>1, FS_Subset
<1> QED
  BY <1>2, FS_CardinalityType DEF S

\* A page of samples is of the label that was asked for.
LEMMA SamplesFacts ==
    ASSUME stored \in Graphs, NEW label, NEW offset \in Nat
    PROVE  \A n \in SamplesOf(label, offset) : n.label = label
<1> DEFINE S == Labelled(stored.nodes, label)
           all == ByDisplay(S)
           end == Min({offset + PageSize, Len(all)})
           part == SubSeq(all, offset + 1, end)
<1>1. S \in SUBSET Nodes /\ IsFiniteSet(S)
  <2>1. S \in SUBSET stored.nodes /\ IsFiniteSet(stored.nodes) /\ stored.nodes \subseteq Nodes
    BY QueryAssumption DEF Labelled, Nodes
  <2> HIDE DEF S
  <2> QED
    BY <2>1, FS_Subset
<1>2. \A n \in S : n.label = label
  BY DEF Labelled
<1> HIDE DEF S
<1>3. all \in [1 .. Cardinality(S) -> S] /\ Cardinality(S) \in Nat
  BY <1>1, SamplesAreSorted, FS_CardinalityType DEF InOrder
<1> HIDE DEF all
<1>4. Len(all) = Cardinality(S) /\ all \in Seq(S)
  BY <1>3
<1>5. end \in Nat /\ end <= Len(all)
  <2>1. {offset + PageSize, Len(all)} \in SUBSET Nat
    BY <1>3, <1>4, PagesAssumption
  <2>2. end \in {offset + PageSize, Len(all)} /\ \A y \in {offset + PageSize, Len(all)} : end <= y
    BY <2>1, MinOfSome
  <2> HIDE DEF end
  <2> QED
    BY <2>1, <2>2
<1> HIDE DEF end
<1>6. part \in Seq(S)
  <2>1. \A i \in (offset + 1) .. end : all[i] \in S
    BY <1>3, <1>4, <1>5
  <2>2. offset + 1 \in Int /\ end \in Int
    BY <1>5
  <2> QED
    BY <2>1, <2>2, SubSeqProperties
<1>7. SamplesOf(label, offset) = ToSet(part)
  BY DEF SamplesOf, all, S, part, end
<1> HIDE DEF part
<1>8. \A n \in ToSet(part) : n \in S
  BY <1>6, LenProperties DEF ToSet
<1> QED
  BY <1>2, <1>7, <1>8

LEMMA NoneIsView == None \in Views
  BY DEF None, Views

\* Views that are merged are a graph.
LEMMA MergedIsView ==
    ASSUME NEW v \in Views, NEW w \in Views
    PROVE  MergeEvidence(v, w) \in Views
<1> DEFINE merged == MergeEvidence(v, w)
<1>1. merged \in [nodes : SUBSET Nodes, relationships : SUBSET Relationships]
  BY DEF MergeEvidence, Views
<1>2. ASSUME NEW r \in merged.relationships PROVE {r.startId, r.endId} \subseteq Ids(merged.nodes)
  <2>1. {r.startId, r.endId} \subseteq Ids(v.nodes) \/ {r.startId, r.endId} \subseteq Ids(w.nodes)
    BY <1>2 DEF MergeEvidence, Views
  <2>2. Ids(v.nodes) \subseteq Ids(merged.nodes) /\ Ids(w.nodes) \subseteq Ids(merged.nodes)
    BY DEF Ids, MergeEvidence
  <2> QED
    BY <2>1, <2>2
<1> HIDE DEF merged
<1> QED
  BY <1>1, <1>2 DEF Views, merged

\* What is around a node is a graph.
LEMMA NeighborsAreView ==
    ASSUME stored \in Graphs, NEW id
    PROVE  Neighbors(id) \in Views
<1> DEFINE near == Neighbors(id)
<1>1. /\ stored.nodes \subseteq Nodes /\ stored.relationships \subseteq Relationships
      /\ \A r \in stored.relationships : {r.startId, r.endId} \subseteq Ids(stored.nodes)
  BY QueryAssumption DEF Nodes, Relationships
<1>2. near \in [nodes : SUBSET Nodes, relationships : SUBSET Relationships]
  BY <1>1 DEF Neighbors
<1>3. ASSUME NEW r \in near.relationships, NEW end \in {r.startId, r.endId} PROVE end \in Ids(near.nodes)
  <2>1. r \in stored.relationships /\ Touching(r, id)
    BY <1>3 DEF Neighbors
  <2>2. PICK n \in stored.nodes : n.id = end
    BY <1>1, <1>3, <2>1 DEF Ids
  <2>3. Touching(r, n.id)
    BY <1>3, <2>2 DEF Touching
  <2>4. n \in near.nodes
    BY <2>1, <2>3 DEF Neighbors
  <2> QED
    BY <2>2, <2>4 DEF Ids
<1> HIDE DEF near
<1>4. \A r \in near.relationships : {r.startId, r.endId} \subseteq Ids(near.nodes)
  BY <1>3
<1> QED
  BY <1>2, <1>4 DEF Views, near

LEMMA RefinedIsView ==
    ASSUME NEW a, OfGraphs(a), NEW s, OfGraphs(s), NEW chosen \in Seq(Nodes)
    PROVE  AsSets(RefineQueryEvidence(a, s, chosen)) \in Views
<1> DEFINE refined == RefineQueryEvidence(a, s, chosen)
           cut == Cut(Pool(a, s, chosen), a)
           rels == a.relationships \cup s.relationships
           among == {r \in rels : {r.startId, r.endId} \subseteq Ids(cut)}
<1>1. refined.nodes \in Seq(Nodes) /\ ToSet(refined.nodes) = cut
  BY RefinedFacts
<1>2. ToSet(refined.relationships) = among
  BY RefinedFacts
<1>3. rels \subseteq Relationships
  BY DEF OfGraphs
<1> HIDE DEF refined, cut, rels
<1>4. cut \subseteq Nodes
  <2>1. \A n \in ToSet(refined.nodes) : n \in Nodes
    BY <1>1, LenProperties DEF ToSet
  <2> QED
    BY <1>1, <2>1
<1>5. AsSets(refined) = [nodes |-> cut, relationships |-> among]
  BY <1>1, <1>2 DEF AsSets
<1>6. AsSets(refined) \in Views
  BY <1>3, <1>4, <1>5 DEF Views
<1> QED
  BY <1>6 DEF refined

\* The evidence of every answer is a graph.
LEMMA AnswerIsView ==
    ASSUME QueryInv
    PROVE  AsSets(response.evidence) \in Views
<1>1. OfGraphs(final) /\ OfGraphs(supporting) /\ anchors \in Seq(Nodes) /\ OfGraphs(None)
  BY NoneIsOfGraphs DEF QueryInv, ServiceOK
<1>2. \/ response = NoResponse
      \/ response.evidence = RefineQueryEvidence(None, None, anchors)
      \/ response.evidence = RefineQueryEvidence(final, supporting, anchors)
  BY DEF QueryInv, AnswerOK
<1>3. CASE response = NoResponse
  <2>1. AsSets(response.evidence) = None
    <3>1. response.evidence.nodes = <<>> /\ response.evidence.relationships = <<>>
      BY <1>3 DEF NoResponse, NoEvidence
    <3>2. ToSet(<<>>) = {}
      BY DEF ToSet
    <3> QED
      BY <3>1, <3>2 DEF AsSets, None
  <2> QED
    BY <2>1, NoneIsView
<1>4. CASE response.evidence = RefineQueryEvidence(None, None, anchors)
  BY <1>1, <1>4, RefinedIsView
<1>5. CASE response.evidence = RefineQueryEvidence(final, supporting, anchors)
  BY <1>1, <1>5, RefinedIsView
<1> QED
  BY <1>2, <1>3, <1>4, <1>5

--------------------------------------------------------------------------------
(* The steps of the pages.                                                      *)

CanvasUnchanged == UNCHANGED <<page, canvasVars, result, selected, history>>

LEMMA CanvasStays ==
    ASSUME CanvasOK, CanvasUnchanged
    PROVE  CanvasOK'
  BY DEF CanvasOK, CanvasUnchanged, canvasVars

\* A view that is gone back to is left out of the history.
LEMMA HistoryFacts ==
    ASSUME history \in Seq(Bookmarks)
    PROVE  /\ \A b \in Bookmarks : Append(history, b) \in Seq(Bookmarks) /\ Len(Append(history, b)) = Len(history) + 1
           /\ history # <<>> => /\ Last(history) \in Bookmarks /\ Front(history) \in Seq(Bookmarks)
                                /\ Len(Front(history)) = Len(history) - 1
<1>1. Len(history) \in Nat /\ DOMAIN history = 1 .. Len(history) /\ \A i \in 1 .. Len(history) : history[i] \in Bookmarks
  BY LenProperties
<1>2. ASSUME NEW b \in Bookmarks
      PROVE  Append(history, b) \in Seq(Bookmarks) /\ Len(Append(history, b)) = Len(history) + 1
  BY <1>2, AppendProperties
<1>3. ASSUME history # <<>>
      PROVE  /\ Last(history) \in Bookmarks /\ Front(history) \in Seq(Bookmarks)
             /\ Len(Front(history)) = Len(history) - 1
  <2>1. Len(history) \in 1 .. Len(history)
    BY <1>1, <1>3
  <2>2. /\ SubSeq(history, 1, Len(history) - 1) \in Seq(Bookmarks)
        /\ Len(SubSeq(history, 1, Len(history) - 1)) = IF 1 <= Len(history) - 1 THEN Len(history) - 1 - 1 + 1 ELSE 0
    <3>1. Len(history) - 1 \in Int /\ \A i \in 1 .. Len(history) - 1 : history[i] \in Bookmarks
      BY <1>1
    <3> QED
      BY <3>1, SubSeqProperties
  <2> QED
    BY <1>1, <2>1, <2>2 DEF Last, Front
<1> QED
  BY <1>2, <1>3

\* A click keeps the view it was made in.
LEMMA ClickKeepsCanvas ==
    ASSUME CanvasOK, NEW id \in Ids(VisibleNodes), ExpandNode(id)
    PROVE  CanvasOK'
<1> USE DEF CanvasOK
<1>1. id \in Ids(view.nodes)
  BY DEF ExpandNode, VisibleNodes, Ids
<1>2. MaxExpansions[page] \in Nat
  BY PagesAssumption
<1>3. expansions' \in 0 .. MaxExpansions[page] /\ expansions' = expansions + 1 /\ Len(history) \in Nat
  BY <1>2, LenProperties DEF ExpandNode
<1>4. UNCHANGED <<page, view, result, history>>
  BY DEF ExpandNode, queryPageVars
<1>5. expanding'.before \in Views
  <2>1. expanding' \in {[id |-> id, before |-> view], [NoExpansion EXCEPT !.id = id]}
    BY DEF ExpandNode
  <2> QED
    BY <2>1, NoneIsView DEF NoExpansion
<1>6. ASSUME page = "explorer"
      PROVE  selected' \in Ids(view.nodes) /\ expanding'.id \in Ids(expanding'.before.nodes)
  BY <1>1, <1>6 DEF ExpandNode
<1> QED
  BY <1>3, <1>4, <1>5, <1>6

\* Whatever becomes of an expansion, the canvas stays a graph with what is selected.
LEMMA ExpansionKeepsCanvas ==
    ASSUME CanvasOK, ServiceOK, ExpansionSettles
    PROVE  CanvasOK'
<1> USE DEF CanvasOK
<1>1. NoExpansion.before = None
  BY DEF NoExpansion
<1>2. CASE ExpansionFails
  BY <1>1, <1>2, NoneIsView DEF ExpansionFails, queryPageVars, explorerVars
<1>3. CASE ExpansionArrives
  <2> DEFINE near == Neighbors(expanding.id)
  <2>1. near \in Views
    BY NeighborsAreView DEF ServiceOK
  <2>2. view' = MergeEvidence(view, near)
    BY <1>3 DEF ExpansionArrives
  <2> HIDE DEF near
  <2>3. view' \in Views
    BY <2>1, <2>2, MergedIsView
  <2>4. view.nodes \subseteq view'.nodes /\ view.relationships \subseteq view'.relationships
    BY <2>2 DEF MergeEvidence
  <2>5. Ids(view.nodes) \subseteq Ids(view'.nodes)
    BY <2>4 DEF Ids
  <2>6. expanding # NoExpansion /\ expanding' = NoExpansion /\ UNCHANGED <<page, expansions, result, selected>>
    BY <1>3 DEF ExpansionArrives, queryPageVars
  <2>7. /\ history' \in Seq(Bookmarks) /\ Len(history') <= expansions
        /\ history' # <<>> => page = "explorer"
    <3>1. CASE page # "explorer"
      BY <1>3, <3>1 DEF ExpansionArrives
    <3>2. CASE page = "explorer"
      <4> DEFINE mark == [view |-> expanding.before, selected |-> expanding.id]
      <4>1. expanding.id \in Ids(expanding.before.nodes) /\ Len(history) < expansions /\ expanding.before \in Views
        BY <2>6, <3>2
      <4>2. expanding.id \in Ids(Nodes)
        BY <4>1 DEF Ids, Views
      <4>3. mark \in Bookmarks
        BY <4>1, <4>2 DEF Bookmarks
      <4>4. history' = Append(history, mark)
        BY <1>3, <3>2 DEF ExpansionArrives
      <4> HIDE DEF mark
      <4>5. history' \in Seq(Bookmarks) /\ Len(history') = Len(history) + 1
        BY <4>3, <4>4, HistoryFacts
      <4>6. expansions \in Nat /\ Len(history) \in Nat
        <5>1. MaxExpansions[page] \in Nat
          BY PagesAssumption
        <5> QED
          BY <5>1, LenProperties
      <4> QED
        BY <3>2, <4>1, <4>5, <4>6
    <3> QED
      BY <3>1, <3>2
  <2> QED
    BY <1>1, <2>3, <2>4, <2>5, <2>6, <2>7, NoneIsView
<1> QED
  BY <1>2, <1>3 DEF ExpansionSettles

\* An answer comes to the question page alone.
LEMMA AnswerKeepsCanvas ==
    ASSUME CanvasOK, QuestionOK, QueryInv, QuestionSettles \/ QuestionBreaks
    PROVE  CanvasOK'
<1>1. CASE QuestionFails \/ QuestionBreaks
  BY <1>1, CanvasStays DEF QuestionFails, QuestionBreaks, CanvasUnchanged, canvasVars, explorerVars
<1>2. CASE QuestionAnswered
  <2>1. page = "query"
    BY <1>2 DEF QuestionAnswered, QuestionOK
  <2>2. AsSets(response.evidence) \in Views
    BY AnswerIsView
  <2>3. /\ view' = AsSets(response.evidence) /\ result' = view'
        /\ UNCHANGED <<page, expanding, expansions, selected, history>>
    BY <1>2 DEF QuestionAnswered, explorerVars
  <2> QED
    BY <2>1, <2>2, <2>3 DEF CanvasOK
<1> QED
  BY <1>1, <1>2 DEF QuestionSettles

\* A search result is shown alone, and there is nothing to go back to.
LEMMA SelectingKeepsCanvas ==
    ASSUME CanvasOK, QuestionOK, NEW n \in listed, SelectSearchResult(n)
    PROVE  CanvasOK'
<1> USE DEF CanvasOK
<1>1. page = "explorer" /\ n \in Nodes /\ result = None
  BY DEF SelectSearchResult, QuestionOK
<1>2. view' = [None EXCEPT !.nodes = {n}] /\ view'.nodes = {n} /\ view' \in Views
  BY <1>1 DEF SelectSearchResult, None, Views
<1>3. selected' \in Ids(view'.nodes)
  BY <1>2 DEF SelectSearchResult, Ids
<1>4. history' = <<>> /\ UNCHANGED <<page, expanding, expansions, result>>
  BY DEF SelectSearchResult, queryPageVars
<1>5. expansions \in Nat /\ Len(history) \in Nat /\ Len(<<>>) = 0 /\ <<>> \in Seq(Bookmarks)
  <2>1. MaxExpansions[page] \in Nat
    BY PagesAssumption
  <2> QED
    BY <2>1, LenProperties
<1>6. \A m, k \in Nat : m <= k => 0 <= k
  OBVIOUS
<1>7. Len(history') <= expansions /\ (expanding # NoExpansion => Len(history') < expansions)
  BY <1>1, <1>4, <1>5
<1> QED
  BY <1>1, <1>2, <1>3, <1>4, <1>5, <1>7 DEF None

\* What is gone back to was a graph with what was selected.
LEMMA UndoingKeepsCanvas ==
    ASSUME CanvasOK, UndoExpansion
    PROVE  CanvasOK'
<1> USE DEF CanvasOK
<1>1. history # <<>> /\ page = "explorer" /\ result = None
  BY DEF UndoExpansion
<1>2. Last(history) \in Bookmarks /\ Front(history) \in Seq(Bookmarks) /\ Len(Front(history)) = Len(history) - 1
  BY <1>1, HistoryFacts
<1>3. /\ view' = Last(history).view /\ selected' = Last(history).selected /\ history' = Front(history)
      /\ UNCHANGED <<page, expanding, expansions, result>>
  BY DEF UndoExpansion, queryPageVars
<1>4. view' \in Views /\ selected' \in Ids(view'.nodes)
  BY <1>2, <1>3 DEF Bookmarks
<1>5. Len(history') <= expansions /\ (expanding # NoExpansion => Len(history') < expansions)
  <2>1. MaxExpansions[page] \in Nat
    BY PagesAssumption
  <2>2. expansions \in Nat /\ Len(history) \in Nat
    BY <2>1, LenProperties
  <2> QED
    BY <1>1, <1>2, <1>3, <2>2
<1> QED
  BY <1>1, <1>2, <1>3, <1>4, <1>5 DEF None

LEMMA CanvasStaysOK ==
    ASSUME CanvasOK, QuestionOK, QueryInv, [Next]_vars
    PROVE  CanvasOK'
<1>1. CASE Rest \/ Service \/ GraphStep \/ SearchSettles \/ SampleRequestSettles \/ UNCHANGED vars
  <2>1. CanvasUnchanged
    BY <1>1 DEF CanvasUnchanged, canvasVars, Rest, vars, pageVars, queryPageVars, explorerVars, Service, GraphStep,
                SearchSettles, SearchArrives, SearchFails, SampleRequestSettles, SamplesCounted, SamplesArrive,
                SamplesFail, SamplesSettle
  <2> QED
    BY <2>1, CanvasStays
<1>2. CASE SubmitQuestion \/ SubmitSearch \/ OpenSchemaMap \/ (\E label \in Labels : SelectType(label)) \/ TurnPage
  <2>1. CanvasUnchanged
    BY <1>2 DEF CanvasUnchanged, canvasVars, queryPageVars, explorerVars, SubmitQuestion, SubmitSearch,
                OpenSchemaMap, SelectType, TurnPage, LoadSamples
  <2> QED
    BY <2>1, CanvasStays
<1>3. CASE \E id \in Ids(VisibleNodes) : ExpandNode(id)
  BY <1>3, ClickKeepsCanvas
<1>4. CASE \E n \in listed : SelectSearchResult(n)
  BY <1>4, SelectingKeepsCanvas
<1>5. CASE UndoExpansion
  BY <1>5, UndoingKeepsCanvas
<1>6. CASE QuestionSettles \/ QuestionBreaks
  BY <1>6, AnswerKeepsCanvas
<1>7. CASE ExpansionSettles
  BY <1>7, ExpansionKeepsCanvas DEF QueryInv
<1> QED
  BY <1>1, <1>2, <1>3, <1>4, <1>5, <1>6, <1>7 DEF Next, UserStep

\* A question is awaited as long as its query is under way.
LEMMA QuestionStaysOK ==
    ASSUME QuestionOK, ServiceOK, [Next]_vars
    PROVE  QuestionOK'
<1> USE DEF QuestionOK
<1>1. ASSUME UNCHANGED <<page, questions, loading, searching, listed>>, stage' = stage PROVE QuestionOK'
  BY <1>1
<1>2. CASE Rest \/ GraphStep \/ UNCHANGED vars
  BY <1>1, <1>2 DEF Rest, GraphStep, GraphChanges, vars, serviceVars, queryVars, pageVars, queryPageVars, explorerVars
<1>3. CASE Service
  <2>1. stage # "idle" /\ stage' # "idle"
    BY <1>3 DEF Service, ServiceStep, ExtractAnchorTerms, FulltextSearch, PromoteCommentHits, CountTaskDecisions,
                GenerateCypher, ExecuteGeneratedCypher, TakeRows, RegenerateCypher, Respond, ReexecuteCypher,
                GenerateEvidenceCypher, ExecuteEvidenceCypher, ExecuteAnchorFallback, FetchTaskComments,
                ReadRelationships, SynthesizeAnswer
  <2> QED
    BY <1>3, <2>1 DEF Service, pageVars, queryPageVars, explorerVars
<1>4. CASE SubmitQuestion
  BY <1>4, PagesAssumption DEF SubmitQuestion, Query, explorerVars
<1>5. CASE SubmitSearch
  BY <1>5, PagesAssumption DEF SubmitSearch, serviceVars, queryVars
<1>6. CASE QuestionSettles \/ QuestionBreaks
  <2>1. loading' = FALSE /\ stage' = "idle"
    BY <1>6 DEF QuestionSettles, QuestionAnswered, QuestionFails, QuestionBreaks, Forget
  <2>2. UNCHANGED <<page, questions, searching, listed>>
    BY <1>6 DEF QuestionSettles, QuestionAnswered, QuestionFails, QuestionBreaks, explorerVars
  <2> QED
    BY <2>1, <2>2
<1>7. CASE SearchSettles
  <2>1. stored.nodes \subseteq Nodes
    BY DEF ServiceOK, Nodes
  <2>2. /\ UNCHANGED <<page, questions, loading, stage>>
        /\ searching /\ searching' = FALSE
    BY <1>7 DEF SearchSettles, SearchArrives, SearchFails, serviceVars, queryVars, queryPageVars
  <2>3. listed' \subseteq Nodes
    BY <1>7, <2>1 DEF SearchSettles, SearchArrives, SearchFails
  <2> QED
    BY <2>2, <2>3
<1>8. CASE \/ (\E id \in Ids(VisibleNodes) : ExpandNode(id)) \/ (\E n \in listed : SelectSearchResult(n))
           \/ UndoExpansion \/ ExpansionSettles
  BY <1>1, <1>8 DEF ExpandNode, SelectSearchResult, UndoExpansion, ExpansionSettles, ExpansionArrives, ExpansionFails,
                    serviceVars, queryVars, queryPageVars, explorerVars
<1>9. CASE OpenSchemaMap \/ (\E label \in Labels : SelectType(label)) \/ TurnPage \/ SampleRequestSettles
  BY <1>1, <1>9 DEF OpenSchemaMap, SelectType, TurnPage, LoadSamples, SampleRequestSettles, SamplesCounted,
                    SamplesArrive, SamplesFail, SamplesSettle, serviceVars, queryVars, queryPageVars, explorerVars
<1> QED
  BY <1>2, <1>3, <1>4, <1>5, <1>6, <1>7, <1>8, <1>9 DEF Next, UserStep

\* The page waits for the last request, and has the samples of what it asked for.
LEMMA SamplesStayOK ==
    ASSUME SamplesOK, ServiceOK, [Next]_vars
    PROVE  SamplesOK'
<1> USE DEF SamplesOK
<1>1. ASSUME UNCHANGED schemaVars PROVE SamplesOK'
  BY <1>1 DEF schemaVars
<1>2. ASSUME NEW label \in Labels, NEW offset \in Nat, LoadSamples(label, offset) PROVE SamplesOK'
  <2> DEFINE asked == [number |-> latest + 1, label |-> label, offset |-> offset, counted |-> FALSE, total |-> 0]
  <2>1. /\ latest' = latest + 1 /\ latest' \in 0 .. MaxRequests /\ selection' = label /\ sampleLoading' = TRUE
        /\ samples' = samples
    BY <1>2, PagesAssumption DEF LoadSamples
  <2>2. requests' = requests \cup {asked}
    BY <1>2 DEF LoadSamples
  <2>4. latest \in Nat
    BY PagesAssumption
  <2>3. /\ asked.number = latest + 1 /\ asked.label = label
        /\ asked \in [number : 1 .. (latest + 1), label : Labels, offset : Nat, counted : BOOLEAN, total : Nat]
    BY <2>4
  <2> HIDE DEF asked
  <2>5. requests' \subseteq [number : 1 .. latest', label : Labels, offset : Nat, counted : BOOLEAN, total : Nat]
    BY <2>1, <2>2, <2>3, <2>4
  <2>6. \A p, q \in requests' : p.number = q.number => p = q
    BY <2>2, <2>3, <2>4
  <2>7. \A q \in requests' : q.number = latest' => q.label = selection'
    BY <2>1, <2>2, <2>3, <2>4
  <2> QED
    BY <2>1, <2>4, <2>5, <2>6, <2>7
<1>3. ASSUME NEW request \in requests, NEW answer, SamplesSettle(request, answer),
             answer.offset \in Nat, \A n \in answer.nodes : n.label = request.label
      PROVE  SamplesOK'
  <2>1. requests' = requests \ {request} /\ UNCHANGED <<selection, latest>>
    BY <1>3 DEF SamplesSettle
  <2>2. CASE request.number = latest
    <3>1. samples' = answer /\ sampleLoading' = FALSE /\ request.label = selection
      BY <1>3, <2>2 DEF SamplesSettle
    <3>2. \A q \in requests' : q.number # latest
      BY <2>1, <2>2
    <3> QED
      BY <1>3, <2>1, <3>1, <3>2
  <2>3. CASE request.number # latest
    BY <1>3, <2>1, <2>3 DEF SamplesSettle
  <2> QED
    BY <2>2, <2>3
<1>4. CASE OpenSchemaMap \/ \E label \in Labels : SelectType(label)
  BY <1>2, <1>4 DEF OpenSchemaMap, SelectType
<1>5. CASE TurnPage
  <2>1. \E offset \in Nat : LoadSamples(selection, offset)
    BY <1>5, PagesAssumption DEF TurnPage
  <2>2. selection \in Labels
    BY <1>5, PagesAssumption DEF TurnPage
  <2> QED
    BY <1>2, <2>1, <2>2
<1>6. CASE SampleRequestSettles
  <2>1. PICK request \in requests : SamplesCounted(request) \/ SamplesArrive(request) \/ SamplesFail(request)
    BY <1>6 DEF SampleRequestSettles
  <2>2. request.offset \in Nat
    BY <2>1
  <2>3. CASE SamplesArrive(request)
    <3> DEFINE answer == [nodes |-> SamplesOf(request.label, request.offset),
                         total |-> request.total, offset |-> request.offset]
    <3>1. answer.offset \in Nat /\ \A n \in answer.nodes : n.label = request.label
      BY <2>2, SamplesFacts DEF ServiceOK
    <3>2. SamplesSettle(request, answer)
      BY <2>3 DEF SamplesArrive
    <3> HIDE DEF answer
    <3> QED
      BY <1>3, <3>1, <3>2
  <2>4. CASE SamplesFail(request)
    <3> DEFINE answer == [EmptySamples EXCEPT !.offset = request.offset]
    <3>1. answer.offset \in Nat /\ answer.nodes = {}
      BY <2>2 DEF EmptySamples
    <3>2. SamplesSettle(request, answer)
      BY <2>4 DEF SamplesFail
    <3> HIDE DEF answer
    <3> QED
      BY <1>3, <3>1, <3>2
  <2>5. CASE SamplesCounted(request)
    <3> DEFINE count == Cardinality(Labelled(stored.nodes, request.label))
               counted == [request EXCEPT !.counted = TRUE, !.total = count]
    <3>1. requests' = (requests \ {request}) \cup {counted} /\ UNCHANGED <<selection, samples, latest, sampleLoading>>
      BY <2>5 DEF SamplesCounted
    <3>2. count \in Nat
      BY StoredIsCounted DEF ServiceOK
    <3> HIDE DEF count
    <3>3. /\ counted \in [number : 1 .. latest, label : Labels, offset : Nat, counted : BOOLEAN, total : Nat]
          /\ counted.number = request.number /\ counted.label = request.label
      BY <3>2
    <3> HIDE DEF counted
    <3> QED
      BY <3>1, <3>3
  <2> QED
    BY <2>1, <2>3, <2>4, <2>5
<1>7. CASE \/ Rest \/ Service \/ GraphStep \/ QuestionSettles \/ QuestionBreaks \/ ExpansionSettles
           \/ SearchSettles \/ UNCHANGED vars
  <2>1. UNCHANGED schemaVars
    BY <1>7 DEF Rest, Service, GraphStep, vars, pageVars, QuestionSettles, QuestionAnswered, QuestionFails, QuestionBreaks,
                ExpansionSettles, ExpansionArrives, ExpansionFails, SearchSettles, SearchArrives, SearchFails
  <2> QED
    BY <1>1, <2>1
<1>8. CASE \/ SubmitQuestion \/ (\E id \in Ids(VisibleNodes) : ExpandNode(id)) \/ SubmitSearch
           \/ (\E n \in listed : SelectSearchResult(n)) \/ UndoExpansion
  <2>1. UNCHANGED schemaVars
    BY <1>8 DEF SubmitQuestion, ExpandNode, SubmitSearch, SelectSearchResult, UndoExpansion
  <2> QED
    BY <1>1, <2>1
<1> QED
  BY <1>4, <1>5, <1>6, <1>7, <1>8 DEF Next, UserStep

PagesInv == QueryInv /\ CanvasOK /\ QuestionOK /\ SamplesOK

LEMMA PagesInvHolds ==
    Spec => []PagesInv
<1>1. Init => CanvasOK /\ QuestionOK /\ SamplesOK
  <2> SUFFICES ASSUME Init PROVE CanvasOK /\ QuestionOK /\ SamplesOK
    OBVIOUS
  <2>1. CanvasOK
    <3>1. MaxExpansions[page] \in Nat /\ page \in Pages
      BY PagesAssumption DEF Init
    <3>2. <<>> \in Seq(Bookmarks) /\ Len(<<>>) = 0
      OBVIOUS
    <3> QED
      BY <3>1, <3>2, NoneIsView DEF Init, CanvasOK, NoExpansion, None
  <2>2. QuestionOK
    <3>1. questions = 0 /\ MaxQuestions \in Nat
      BY PagesAssumption DEF Init
    <3>2. loading = FALSE /\ searching = FALSE /\ listed = {} /\ stage = "idle"
      BY DEF Init, InitService
    <3>3. questions \in 0 .. MaxQuestions
      BY <3>1
    <3>4. loading \in BOOLEAN /\ searching \in BOOLEAN
      BY <3>2, Zenon
    <3>5. (loading <=> stage # "idle") /\ ~loading /\ ~searching
      BY <3>2, Zenon
    <3> QED
      BY <3>2, <3>3, <3>4, <3>5, Zenon DEF QuestionOK
  <2>3. SamplesOK
    <3>1. latest = 0 /\ sampleLoading = FALSE /\ requests = {} /\ MaxRequests \in Nat
      BY PagesAssumption DEF Init
    <3>2. samples.offset = 0 /\ samples.nodes = {}
      BY DEF Init, EmptySamples
    <3>3. latest \in 0 .. MaxRequests /\ ~(latest > 0) /\ samples.offset \in Nat
      BY <3>1, <3>2
    <3>4. sampleLoading \in BOOLEAN
      BY <3>1, Zenon
    <3> QED
      BY <3>1, <3>2, <3>3, <3>4, Zenon DEF SamplesOK
  <2> QED
    BY <2>1, <2>2, <2>3
<1>2. QueryInv /\ CanvasOK /\ QuestionOK /\ SamplesOK /\ [Next]_vars => (CanvasOK /\ QuestionOK /\ SamplesOK)'
  BY CanvasStaysOK, QuestionStaysOK, SamplesStayOK DEF QueryInv
<1>3. QueryInv /\ CanvasOK /\ QuestionOK /\ SamplesOK => PagesInv
  BY DEF PagesInv
<1> QED
  BY <1>1, <1>2, <1>3, QueryInvHolds, PTL DEF Spec

\* Each variable has values of its kind, and a page waits for an answer exactly as long as
\* its query is under way.
THEOREM PagesTypeCorrect ==
    Spec => []TypeOK
<1>1. PagesInv => TypeOK
  <2> SUFFICES ASSUME PagesInv PROVE TypeOK
    OBVIOUS
  <2>1. ServiceOK /\ AnswerOK /\ CanvasOK /\ QuestionOK /\ SamplesOK
    BY DEF PagesInv, QueryInv
  <2>2. \A i \in DOMAIN searches : searches[i].status \in {"pending", "fulfilled", "rejected"}
    BY <2>1, SearchFacts DEF ServiceOK, SearchRecord
  <2>3. response.via \in {"none", "evidence", "failure", "fallback"}
    BY <2>1 DEF AnswerOK
  <2>4. page \in Pages /\ expansions \in 0 .. MaxExpansions[page] /\ Len(history) <= expansions
    BY <2>1 DEF CanvasOK
  <2>5. /\ loading \in BOOLEAN /\ searching \in BOOLEAN /\ questions \in 0 .. MaxQuestions
        /\ loading <=> stage # "idle"
    BY <2>1 DEF QuestionOK
  <2>6. /\ latest \in 0 .. MaxRequests /\ sampleLoading \in BOOLEAN
        /\ \A request \in requests : request.number \in 1 .. latest /\ request.label \in Labels
    BY <2>1 DEF SamplesOK
  <2>7. /\ stored \in Graphs /\ changes \in 0 .. MaxChanges
        /\ stage \in {"idle", "terms", "search", "count", "generate", "execute", "regenerate", "reexecute",
                      "support", "supportExecute", "comments", "relationships", "synthesize",
                      "fallback", "fallbackComments", "fallbackRelationships", "done", "rejected"}
        /\ cypher \in Cyphers \cup {NoCypher}
    BY <2>1 DEF ServiceOK
  <2> QED
    BY <2>2, <2>3, <2>4, <2>5, <2>6, <2>7 DEF TypeOK
<1> QED
  BY <1>1, PagesInvHolds, PTL

\* In whatever order answers arrive, fail or are overtaken by what the user does: every
\* canvas is a graph and keeps its answer's evidence, the explorer shows what it has
\* selected, and so does every view it can go back to, and the schema map has the samples
\* of the type that is selected (useQueryWorkspace, ExplorerPage, SchemaMapPage).
THEOREM PagesStayWhole ==
    Spec => []PagesAreWhole
<1>1. PagesInv => PagesAreWhole
  <2> SUFFICES ASSUME PagesInv PROVE PagesAreWhole
    OBVIOUS
  <2>1. CanvasOK /\ SamplesOK
    BY DEF PagesInv
  <2>2. ViewIsWhole
    BY <2>1 DEF CanvasOK, ViewIsWhole, VisibleRelationships, Views
  <2>3. SelectionIsShown
    <3>1. \A i \in DOMAIN history : history[i] \in Bookmarks
      BY <2>1, LenProperties DEF CanvasOK
    <3> QED
      BY <2>1, <3>1 DEF CanvasOK, SelectionIsShown, Bookmarks
  <2>4. SamplesMatchSelection
    BY <2>1 DEF SamplesOK, SamplesMatchSelection
  <2> QED
    BY <2>2, <2>3, <2>4 DEF PagesAreWhole
<1> QED
  BY <1>1, PagesInvHolds, PTL

================================================================================
