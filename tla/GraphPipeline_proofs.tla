------------------------- MODULE GraphPipeline_proofs -------------------------
(* Proofs about GraphPipeline.                                                  *)
EXTENDS GraphPipeline, FiniteSetTheorems, WellFoundedInduction, TLAPS

--------------------------------------------------------------------------------
(* Finite sets and least elements.                                              *)

\* Of finitely many things there are finitely many images.
LEMMA FiniteImage ==
    ASSUME NEW S, IsFiniteSet(S), NEW f, DOMAIN f = S
    PROVE  IsFiniteSet({f[x] : x \in S})
<1> DEFINE T == {f[x] : x \in S}
           g == [x \in S |-> f[x]]
<1>1. g \in Surjection(S, T)
  <2>1. g \in [S -> T]
    OBVIOUS
  <2>2. \A t \in T : \E x \in S : g[x] = t
    OBVIOUS
  <2> QED
    BY <2>1, <2>2 DEF Surjection
<1> HIDE DEF T, g
<1>2. IsFiniteSet(T)
  BY <1>1, FS_Surjection
<1> QED
  BY <1>2 DEF T

\* One of the members of a set is least by a measure.
LEMMA LeastElement ==
    ASSUME NEW S, S # {}, NEW f \in [S -> Nat]
    PROVE  \E a \in S : \A b \in S : f[a] <= f[b]
<1> DEFINE T == {f[x] : x \in S}
<1>1. T \subseteq Nat /\ T # {}
  OBVIOUS
<1>2. \E n \in T : \A m \in T : ~ (<<m, n>> \in OpToRel(<, Nat))
  BY <1>1, NatLessThanWellFounded, WFMin
<1>3. PICK n \in T : \A m \in T : ~ (m < n)
  <2>1. PICK n \in T : \A m \in T : ~ (<<m, n>> \in OpToRel(<, Nat))
    BY <1>2
  <2>2. ASSUME NEW m \in T, m < n PROVE FALSE
    <3>1. <<m, n>> \in OpToRel(<, Nat)
      BY <1>1, <2>2 DEF OpToRel
    <3> QED
      BY <2>1, <3>1
  <2> QED
    BY <2>2
<1>4. PICK a \in S : f[a] = n
  OBVIOUS
<1>5. ASSUME NEW b \in S PROVE f[a] <= f[b]
  BY <1>3, <1>4
<1> QED
  BY <1>5

--------------------------------------------------------------------------------
(* Spellings and dictionaries.                                                  *)

\* What the normalizations make of a spelling.
LEMMA SpellingFacts ==
    /\ None \notin Names /\ Block \notin Names /\ Block # None
    /\ \A n \in Names :
        /\ Text[n] \in Names /\ Key[n] \in Names \cup {None} /\ Rank[n] \in Nat
        /\ Bare[n] \in Names /\ Spaced[n] \subseteq Names
        /\ Text[Text[n]] = Text[n] /\ Key[Text[n]] = Key[n]
        /\ Key[n] # None => Text[Key[n]] = Key[n] /\ Key[Key[n]] = Key[n]
        /\ Bare[n] # n => Key[n] \notin {None, Key[Bare[n]]}
        /\ \A a \in Spaced[n] : Key[a] = Key[n]
    /\ \A m, n \in Names :
        /\ Rank[m] = Rank[n] => m = n
        /\ Text[m] = Text[n] => Key[Bare[m]] = Key[Bare[n]]
        /\ Bare[n] # n /\ Key[m] = Key[Bare[n]] => Text[n] \notin Parts[m]
<1>1. \A n \in Names :
        /\ Spelling[n] \in [text : Names, key : Names \cup {None}, rank : Nat, bare : Names,
                            spaced : SUBSET Names, parts : SUBSET Names]
        /\ Text[n] = Spelling[n].text /\ Key[n] = Spelling[n].key /\ Rank[n] = Spelling[n].rank
        /\ Bare[n] = Spelling[n].bare /\ Spaced[n] = Spelling[n].spaced
  BY NameAssumption DEF Text, Key, Rank, Bare, Spaced
<1>2. \A n \in Names :
        /\ Text[n] \in Names /\ Key[n] \in Names \cup {None} /\ Rank[n] \in Nat
        /\ Bare[n] \in Names /\ Spaced[n] \subseteq Names
  BY <1>1
<1> QED
  BY <1>2, NameAssumption

\* Equal texts have equal keys.
LEMMA TextGivesKey ==
    \A m, n \in Names : Text[m] = Text[n] => Key[m] = Key[n]
<1> TAKE m, n \in Names
<1> HAVE Text[m] = Text[n]
<1>1. Key[Text[m]] = Key[m] /\ Key[Text[n]] = Key[n]
  BY SpellingFacts
<1> QED
  BY <1>1

LEMMA EmptyIsDictionary == IsDictionary(Empty)
  BY DEF IsDictionary, Empty

\* Of some spellings one is the first.
LEMMA FirstBelongs ==
    ASSUME NEW S \in SUBSET Names, S # {}
    PROVE  First(S) \in S
<1> DEFINE f == [n \in S |-> Rank[n]]
<1>1. f \in [S -> Nat]
  BY SpellingFacts
<1> HIDE DEF f
<1>2. PICK a \in S : \A b \in S : f[a] <= f[b]
  BY <1>1, LeastElement
<1>3. \A b \in S : Rank[a] <= Rank[b]
  BY <1>2 DEF f
<1> QED
  BY <1>3 DEF First

LEMMA MergedIsDictionary ==
    ASSUME NEW d, NEW e, IsDictionary(d), IsDictionary(e)
    PROVE  /\ IsDictionary(Merged(d, e))
           /\ DOMAIN Merged(d, e) = DOMAIN d \cup DOMAIN e
           /\ \A c \in DOMAIN d : d[c] \subseteq Merged(d, e)[c]
           /\ \A c \in DOMAIN e : e[c] \subseteq Merged(d, e)[c]
<1> DEFINE D == DOMAIN d \cup DOMAIN e
<1>1. \A c \in D : AliasesIn(d, c) \cup AliasesIn(e, c) \subseteq Names
  BY DEF IsDictionary, AliasesIn
<1>2. Merged(d, e) = [c \in D |-> AliasesIn(d, c) \cup AliasesIn(e, c)]
  BY DEF Merged
<1>3. D \subseteq Names
  BY DEF IsDictionary
<1>4. IsDictionary(Merged(d, e))
  BY <1>1, <1>2, <1>3 DEF IsDictionary
<1> QED
  BY <1>2, <1>4 DEF AliasesIn

LEMMA MergesIsDictionary ==
    ASSUME NEW cur, IsCuration(cur)
    PROVE  IsDictionary(Merges(cur))
<1>1. \A n \in MergedNames(cur) : n \in Names /\ cur[n] \in Names
  BY DEF MergedNames, IsCuration
<1>2. Merges(cur) = [c \in {cur[n] : n \in MergedNames(cur)} |->
                        {n \in MergedNames(cur) : cur[n] = c}]
  BY DEF Merges
<1> QED
  BY <1>1, <1>2 DEF IsDictionary

\* What composing keeps of a dictionary, and what it adds.
LEMMA ComposedIsDictionary ==
    ASSUME NEW d, IsDictionary(d), NEW cur, IsCuration(cur)
    PROVE  /\ IsDictionary(Composed(d, cur))
           /\ \A c \in DOMAIN d : JudgedOwner(cur, Key[c]) \in {None, Key[c]} =>
                /\ c \in DOMAIN Composed(d, cur)
                /\ \A a \in d[c] : JudgedOwner(cur, Key[a]) \in {None, Key[c]} =>
                        a \in Composed(d, cur)[c]
           /\ \A n \in MergedNames(cur) :
                cur[n] \in DOMAIN Composed(d, cur) /\ n \in Composed(d, cur)[cur[n]]
<1> DEFINE Fits(n, c) == JudgedOwner(cur, Key[n]) \in {None, Key[c]}
           k == [c \in {b \in DOMAIN d : Fits(b, b)} |-> {a \in d[c] : Fits(a, c)}]
<1>1. CASE DOMAIN cur = {}
  <2>1. Composed(d, cur) = d /\ MergedNames(cur) = {}
    BY <1>1 DEF Composed, MergedNames
  <2> QED
    BY <2>1
<1>2. CASE DOMAIN cur # {}
  <2>1. Composed(d, cur) = Merged(k, Merges(cur))
    BY <1>2 DEF Composed
  <2>2. IsDictionary(k)
    BY DEF IsDictionary
  <2>3. /\ \A c \in DOMAIN d : Fits(c, c) =>
            c \in DOMAIN k /\ \A a \in d[c] : Fits(a, c) => a \in k[c]
    OBVIOUS
  <2>4. \A n \in MergedNames(cur) :
            cur[n] \in DOMAIN Merges(cur) /\ n \in Merges(cur)[cur[n]]
    BY DEF Merges
  <2> HIDE DEF k
  <2>5. IsDictionary(Merges(cur))
    BY MergesIsDictionary
  <2>6. /\ IsDictionary(Merged(k, Merges(cur)))
        /\ DOMAIN Merged(k, Merges(cur)) = DOMAIN k \cup DOMAIN Merges(cur)
        /\ \A c \in DOMAIN k : k[c] \subseteq Merged(k, Merges(cur))[c]
        /\ \A c \in DOMAIN Merges(cur) : Merges(cur)[c] \subseteq Merged(k, Merges(cur))[c]
    BY <2>2, <2>5, MergedIsDictionary
  <2> QED
    BY <2>1, <2>3, <2>4, <2>6
<1> QED
  BY <1>1, <1>2

--------------------------------------------------------------------------------
(* seed-concepts.                                                               *)

Existing(d) == {Entry(c, d[c]) : c \in DOMAIN d}

Entries(r, d, cur) == Existing(d) \cup Generated(r, cur)

NameOf(r, d, cur, e) == Winner(Existing(d), Generated(r, cur), Blocked(cur), e.canonical)

MergedEntries(r, d, cur) ==
    [c \in {NameOf(r, d, cur, e) : e \in Entries(r, d, cur)} |->
        Spaced[c] \cup UNION {e.aliases : e \in {x \in Entries(r, d, cur) : NameOf(r, d, cur, x) = c}}]

LEMMA SeededInSteps ==
    ASSUME NEW r, NEW d, NEW cur
    PROVE  Seeded(r, d, cur) = Composed(Unconflicted(MergedEntries(r, d, cur), cur), cur)
  BY DEF Seeded, MergedEntries, Entries, NameOf, Existing

\* What is generated: names without aliases, and tags under their bare names.
LEMMA GeneratedEntries ==
    ASSUME NEW r, IsRaw(r), NEW cur
    PROVE  /\ \A e \in Generated(r, cur) :
                /\ e.canonical \in Names
                /\ \/ e.aliases = {}
                   \/ \E n \in Names : Bare[n] # n /\ e = TagEntry(n) /\ e.aliases = {n}
           /\ \A t \in DOMAIN r.tags : r.tags[t] \in Names /\ TagEntry(r.tags[t]) \in Generated(r, cur)
<1> DEFINE A == {TagEntry(n) : n \in {r.tags[t] : t \in DOMAIN r.tags}}
           B == {Entry(p.prefix, {}) : p \in {q \in r.posts : q.prefix # None}}
           C == {Entry(n, {}) : n \in {m \in UNION {w.title : w \in r.wikis} :
                                    Key[m] \notin {Key[j] : j \in MergedNames(cur)}}}
<1>1. Generated(r, cur) = A \cup B \cup C
  BY DEF Generated
<1>2. \A t \in DOMAIN r.tags : r.tags[t] \in Names
  BY DEF IsRaw
<1>3. ASSUME NEW e \in A
      PROVE  /\ e.canonical \in Names
             /\ \/ e.aliases = {}
                \/ \E n \in Names : Bare[n] # n /\ e = TagEntry(n) /\ e.aliases = {n}
  <2>1. PICK t \in DOMAIN r.tags : e = TagEntry(r.tags[t])
    OBVIOUS
  <2>2. r.tags[t] \in Names
    BY <1>2
  <2>3. /\ e.canonical = Bare[r.tags[t]]
        /\ e.aliases = {r.tags[t]} \ {Bare[r.tags[t]]}
    BY <2>1 DEF TagEntry, Entry
  <2>4. e.canonical \in Names
    BY <2>2, <2>3, SpellingFacts
  <2> QED
    BY <2>1, <2>2, <2>3, <2>4
<1>4. ASSUME NEW e \in B PROVE e.canonical \in Names /\ e.aliases = {}
  BY DEF Entry, IsRaw
<1>5. ASSUME NEW e \in C PROVE e.canonical \in Names /\ e.aliases = {}
  BY DEF Entry, IsRaw
<1>6. \A t \in DOMAIN r.tags : TagEntry(r.tags[t]) \in A
  OBVIOUS
<1> HIDE DEF A, B, C
<1> QED
  BY <1>1, <1>2, <1>3, <1>4, <1>5, <1>6

LEMMA EntriesAreSpellings ==
    ASSUME NEW r, IsRaw(r), NEW d, IsDictionary(d), NEW cur
    PROVE  \A e \in Entries(r, d, cur) : e.canonical \in Names /\ e.aliases \subseteq Names
<1>1. \A e \in Existing(d) : e.canonical \in Names /\ e.aliases \subseteq Names
  BY DEF Existing, Entry, IsDictionary
<1>2. \A e \in Generated(r, cur) : e.canonical \in Names /\ e.aliases \subseteq Names
  BY GeneratedEntries
<1> QED
  BY <1>1, <1>2 DEF Entries

\* An entry is renamed to a spelling with its key, the same one for every spelling
\* of that key.
LEMMA WinnerOfKey ==
    ASSUME NEW r, IsRaw(r), NEW d, IsDictionary(d), NEW cur
    PROVE  /\ \A e \in Entries(r, d, cur) :
                NameOf(r, d, cur, e) \in Names /\ Key[NameOf(r, d, cur, e)] = Key[e.canonical]
           /\ \A e, f \in Entries(r, d, cur) :
                Key[e.canonical] = Key[f.canonical] /\ Key[e.canonical] \notin Blocked(cur) \cup {None}
                  => NameOf(r, d, cur, e) = NameOf(r, d, cur, f)
<1> DEFINE old(n) == {e.canonical : e \in {x \in Existing(d) : Key[x.canonical] = Key[n]}}
           new(n) == {e.canonical : e \in {x \in Generated(r, cur) : Key[x.canonical] = Key[n]}}
           Pick(n) == IF Key[n] \in Blocked(cur) \cup {None} THEN n
                      ELSE IF old(n) # {} THEN First(old(n)) ELSE First(new(n))
<1>1. \A e : NameOf(r, d, cur, e) = Pick(e.canonical)
  BY DEF NameOf, Winner
<1>2. \A e \in Entries(r, d, cur) : e.canonical \in Names
  BY EntriesAreSpellings
<1>3. ASSUME NEW n \in Names
      PROVE  /\ old(n) \in SUBSET Names /\ new(n) \in SUBSET Names
             /\ \A m \in old(n) \cup new(n) : Key[m] = Key[n]
  BY <1>2 DEF Entries
<1>4. ASSUME NEW e \in Entries(r, d, cur)
      PROVE  NameOf(r, d, cur, e) \in Names /\ Key[NameOf(r, d, cur, e)] = Key[e.canonical]
  <2>1. e.canonical \in old(e.canonical) \cup new(e.canonical)
    BY DEF Entries
  <2>2. CASE Key[e.canonical] \in Blocked(cur) \cup {None}
    BY <1>1, <1>2, <2>2
  <2>3. CASE Key[e.canonical] \notin Blocked(cur) \cup {None}
    <3> HIDE DEF old, new
    <3>1. old(e.canonical) # {} => First(old(e.canonical)) \in old(e.canonical)
      BY <1>2, <1>3, FirstBelongs
    <3>2. new(e.canonical) # {} => First(new(e.canonical)) \in new(e.canonical)
      BY <1>2, <1>3, FirstBelongs
    <3>3. NameOf(r, d, cur, e) \in old(e.canonical) \cup new(e.canonical)
      BY <1>1, <2>1, <2>3, <3>1, <3>2
    <3> QED
      BY <3>3, <1>2, <1>3
  <2> QED
    BY <2>2, <2>3
<1>5. ASSUME NEW e \in Entries(r, d, cur), NEW f \in Entries(r, d, cur),
             Key[e.canonical] = Key[f.canonical], Key[e.canonical] \notin Blocked(cur) \cup {None}
      PROVE  NameOf(r, d, cur, e) = NameOf(r, d, cur, f)
  <2>1. /\ old(e.canonical) = old(f.canonical)
        /\ new(e.canonical) = new(f.canonical)
    BY <1>5
  <2> HIDE DEF old, new
  <2> QED
    BY <1>1, <1>5, <2>1
<1> QED
  BY <1>4, <1>5

LEMMA MergedEntriesAre ==
    ASSUME NEW r, IsRaw(r), NEW d, IsDictionary(d), NEW cur
    PROVE  /\ IsDictionary(MergedEntries(r, d, cur))
           /\ DOMAIN MergedEntries(r, d, cur) = {NameOf(r, d, cur, e) : e \in Entries(r, d, cur)}
           /\ \A c \in DOMAIN MergedEntries(r, d, cur) : \A a \in MergedEntries(r, d, cur)[c] :
                \/ a \in Spaced[c]
                \/ \E e \in Entries(r, d, cur) : NameOf(r, d, cur, e) = c /\ a \in e.aliases
           /\ \A e \in Entries(r, d, cur) :
                e.aliases \subseteq MergedEntries(r, d, cur)[NameOf(r, d, cur, e)]
<1> DEFINE D == {NameOf(r, d, cur, e) : e \in Entries(r, d, cur)}
           A(c) == Spaced[c] \cup UNION {e.aliases : e \in {x \in Entries(r, d, cur) : NameOf(r, d, cur, x) = c}}
<1>1. MergedEntries(r, d, cur) = [c \in D |-> A(c)]
  BY DEF MergedEntries
<1>2. D \subseteq Names
  BY WinnerOfKey
<1>3. \A c \in D : A(c) \subseteq Names
  BY <1>2, SpellingFacts, EntriesAreSpellings
<1>4. \A c : \A a \in A(c) :
        \/ a \in Spaced[c]
        \/ \E e \in Entries(r, d, cur) : NameOf(r, d, cur, e) = c /\ a \in e.aliases
  OBVIOUS
<1>5. \A e \in Entries(r, d, cur) : e.aliases \subseteq A(NameOf(r, d, cur, e))
  OBVIOUS
<1>6. \A e \in Entries(r, d, cur) : NameOf(r, d, cur, e) \in D
  OBVIOUS
<1> HIDE DEF A
<1>7. IsDictionary(MergedEntries(r, d, cur))
  BY <1>1, <1>2, <1>3 DEF IsDictionary
<1>8. DOMAIN MergedEntries(r, d, cur) = D /\ \A c \in D : MergedEntries(r, d, cur)[c] = A(c)
  BY <1>1
<1> QED
  BY <1>4, <1>5, <1>6, <1>7, <1>8

\* No entry goes, and what goes of its aliases.
LEMMA UnconflictedIsDictionary ==
    ASSUME NEW d, IsDictionary(d), NEW cur
    PROVE  /\ IsDictionary(Unconflicted(d, cur))
           /\ DOMAIN Unconflicted(d, cur) = DOMAIN d
           /\ \A c \in DOMAIN d : \A a \in d[c] :
                /\ JudgedOwner(cur, Key[a]) = None
                /\ Text[a] \notin Parts[c]
                /\ ~ \E b \in DOMAIN d \ {c} : Text[a] \in {Text[n] : n \in Spellings(d, b)}
                => a \in Unconflicted(d, cur)[c]
  BY DEF IsDictionary, Unconflicted

LEMMA SeededIsDictionary ==
    ASSUME NEW r, IsRaw(r), NEW d, IsDictionary(d), NEW cur, IsCuration(cur)
    PROVE  IsDictionary(Seeded(r, d, cur))
  BY SeededInSteps, MergedEntriesAre, UnconflictedIsDictionary, ComposedIsDictionary

LEMMA LoadedIsDictionary ==
    ASSUME NEW d, IsDictionary(d), NEW cur, IsCuration(cur)
    PROVE  IsDictionary(Loaded(d, cur))
  BY CoreAssumption, MergedIsDictionary, ComposedIsDictionary DEF Loaded

--------------------------------------------------------------------------------
(* What names mean.                                                             *)

\* The spellings of an entry mean that entry in a dictionary that loads.
LEMMA ExactMeaning ==
    ASSUME NEW d, NEW blocked, Loads(d, blocked), NEW c \in DOMAIN d, NEW x \in Spellings(d, c),
           NEW n, Text[n] = Text[x]
    PROVE  Canonicals(d, blocked, n) = {c}
<1>1. c \in ExactOwners(d, Text[n])
  BY DEF ExactOwners
<1>2. Text[n] \in {Text[m] : m \in AllSpellings(d)}
  BY DEF AllSpellings
<1>3. ~Several(ExactOwners(d, Text[n]))
  BY <1>2 DEF Loads, ExactConflicts
<1>4. ExactOwners(d, Text[n]) = {c}
  BY <1>1, <1>3 DEF Several
<1> QED
  BY <1>4 DEF Canonicals

LEMMA JudgmentHolds ==
    ASSUME NEW d, IsDictionary(d), NEW cur, IsCuration(cur), NEW blocked,
           Loads(Loaded(d, cur), blocked), NEW n \in MergedNames(cur)
    PROVE  Canonicals(Loaded(d, cur), blocked, n) = {cur[n]}
<1>1. IsDictionary(Merged(Core, d))
  BY CoreAssumption, MergedIsDictionary
<1>2. cur[n] \in DOMAIN Loaded(d, cur) /\ n \in Loaded(d, cur)[cur[n]]
  BY <1>1, ComposedIsDictionary DEF Loaded
<1>3. n \in Spellings(Loaded(d, cur), cur[n])
  BY <1>2 DEF Spellings
<1> QED
  BY <1>2, <1>3, ExactMeaning

LEMMA Unjudged ==
    ASSUME NEW cur, NEW k, k \notin {Key[n] : n \in DOMAIN cur}
    PROVE  JudgedOwner(cur, k) = None /\ k \notin Blocked(cur)
  BY DEF JudgedOwner, Blocked, MergedNames

\* After seed-concepts a tag that nothing was decided about has a meaning.
LEMMA TagHasMeaning ==
    ASSUME NEW r, IsRaw(r), NEW d, IsDictionary(d), NEW cur, IsCuration(cur), NEW t \in DOMAIN r.tags,
           {Key[r.tags[t]], Key[Bare[r.tags[t]]]}
             \cap ({Key[m] : m \in DOMAIN cur} \cup {None}) = {},
           ~Contested(d, r.tags[t])
    PROVE  Canonicals(Loaded(Seeded(r, d, cur), cur), Blocked(cur), r.tags[t]) # {}
<1> DEFINE n == r.tags[t]
           b == Bare[n]
           M == MergedEntries(r, d, cur)
           U == Unconflicted(M, cur)
           S == Seeded(r, d, cur)
           L == Loaded(S, cur)
           Free(k) == JudgedOwner(cur, k) = None
           c0 == NameOf(r, d, cur, TagEntry(n))
<1>1. /\ n \in Names /\ b \in Names /\ TagEntry(n) \in Entries(r, d, cur)
      /\ Free(Key[n]) /\ Free(Key[b])
      /\ Key[n] \notin Blocked(cur) \cup {None} /\ Key[b] \notin Blocked(cur) \cup {None}
  <2>1. n \in Names /\ TagEntry(n) \in Generated(r, cur)
    BY GeneratedEntries
  <2>2. /\ Key[n] \notin {Key[m] : m \in DOMAIN cur} /\ Key[n] # None
        /\ Key[b] \notin {Key[m] : m \in DOMAIN cur} /\ Key[b] # None
    OBVIOUS
  <2>3. /\ Free(Key[n]) /\ Key[n] \notin Blocked(cur)
        /\ Free(Key[b]) /\ Key[b] \notin Blocked(cur)
    BY <2>2, Unjudged
  <2> QED
    BY <2>1, <2>2, <2>3, SpellingFacts DEF Entries
<1>2. /\ IsDictionary(M) /\ IsDictionary(U) /\ DOMAIN U = DOMAIN M
      /\ S = Composed(U, cur) /\ IsDictionary(S)
      /\ L = Composed(Merged(Core, S), cur) /\ IsDictionary(Merged(Core, S))
  BY MergedEntriesAre, UnconflictedIsDictionary, SeededInSteps, SeededIsDictionary,
     CoreAssumption, MergedIsDictionary DEF Loaded
<1>3. ASSUME NEW c \in DOMAIN M, Free(Key[c])
      PROVE  c \in DOMAIN L /\ \A a \in U[c] : Free(Key[a]) => a \in L[c]
  <2>1. c \in DOMAIN S /\ \A a \in U[c] : Free(Key[a]) => a \in S[c]
    BY <1>2, <1>3, ComposedIsDictionary
  <2>2. c \in DOMAIN Merged(Core, S) /\ S[c] \subseteq Merged(Core, S)[c]
    BY <1>2, <2>1, CoreAssumption, MergedIsDictionary
  <2> QED
    BY <1>2, <1>3, <2>1, <2>2, ComposedIsDictionary
<1>4. ASSUME NEW c \in DOMAIN M, Key[c] = Key[n]
      PROVE  Canonicals(L, Blocked(cur), n) # {}
  <2>1. c \in DOMAIN L
    BY <1>1, <1>3, <1>4
  <2>2. c \in KeyOwners(L, Key[n])
    BY <1>4, <2>1 DEF KeyOwners, Spellings
  <2> QED
    BY <1>1, <2>2 DEF Canonicals
<1>5. c0 \in DOMAIN M /\ Key[c0] = Key[b]
  <2>1. TagEntry(n).canonical = b
    BY DEF TagEntry, Entry
  <2>2. Key[c0] = Key[b]
    BY <1>1, <2>1, WinnerOfKey
  <2>3. DOMAIN M = {NameOf(r, d, cur, e) : e \in Entries(r, d, cur)}
    BY MergedEntriesAre
  <2> QED
    BY <1>1, <2>2, <2>3
<1>6. CASE n = b
  BY <1>4, <1>5, <1>6
<1>7. CASE n # b
  <2>1. n \in M[c0]
    <3>1. n \in TagEntry(n).aliases
      BY <1>7 DEF TagEntry, Entry
    <3> QED
      BY <1>1, <3>1, MergedEntriesAre
  <2>2. CASE n \in U[c0]
    <3>1. c0 \in DOMAIN L /\ n \in L[c0]
      BY <1>1, <1>3, <1>5, <2>2
    <3>2. c0 \in ExactOwners(L, Text[n])
      BY <3>1 DEF ExactOwners, Spellings
    <3> QED
      BY <3>2 DEF Canonicals
  <2>3. CASE n \notin U[c0]
    <3>1. Text[n] \notin Parts[c0]
      <4>1. c0 \in Names
        BY <1>2, <1>5 DEF IsDictionary
      <4> QED
        BY <1>1, <1>5, <1>7, <4>1, SpellingFacts
    <3>2. \E c \in DOMAIN M \ {c0} : Text[n] \in {Text[x] : x \in Spellings(M, c)}
      BY <1>1, <1>2, <1>5, <2>1, <2>3, <3>1, UnconflictedIsDictionary
    <3>3. PICK c \in DOMAIN M \ {c0} : \E x \in Spellings(M, c) : Text[n] = Text[x]
      BY <3>2
    <3>4. PICK x \in Spellings(M, c) : Text[n] = Text[x]
      BY <3>3
    <3>5. c \in Names /\ x \in Names /\ Key[x] = Key[n]
      <4>1. c \in Names /\ x \in Names
        BY <1>2, <3>4 DEF IsDictionary, Spellings
      <4> QED
        BY <1>1, <3>4, <4>1, TextGivesKey
    <3>6. CASE x = c
      BY <1>4, <3>5, <3>6
    <3>7. CASE x \in Spaced[c]
      BY <1>4, <3>5, <3>7, SpellingFacts
    <3>8. CASE \E e \in Entries(r, d, cur) : NameOf(r, d, cur, e) = c /\ x \in e.aliases
      <4>1. PICK e \in Entries(r, d, cur) : NameOf(r, d, cur, e) = c /\ x \in e.aliases
        BY <3>8
      <4>2. Key[e.canonical] = Key[b]
        <5>1. CASE e \in Existing(d)
          <6>1. PICK c1 \in DOMAIN d : e = Entry(c1, d[c1])
            BY <5>1 DEF Existing
          <6>2. e.canonical = c1 /\ x \in d[c1]
            BY <4>1, <6>1 DEF Entry
          <6> QED
            BY <3>4, <6>2 DEF Contested
        <5>2. CASE e \in Generated(r, cur)
          <6>1. PICK m \in Names : Bare[m] # m /\ e = TagEntry(m) /\ e.aliases = {m}
            BY <4>1, <5>2, GeneratedEntries
          <6>2. x = m /\ e.canonical = Bare[m]
            BY <4>1, <6>1 DEF TagEntry, Entry
          <6> QED
            BY <1>1, <3>4, <6>2, SpellingFacts
        <5> QED
          BY <5>1, <5>2 DEF Entries
      <4>3. TagEntry(n).canonical = b
        BY DEF TagEntry, Entry
      <4>4. NameOf(r, d, cur, e) = c0
        BY <1>1, <4>2, <4>3, WinnerOfKey
      <4> QED
        BY <3>3, <4>1, <4>4
    <3> QED
      BY <1>2, <3>3, <3>4, <3>6, <3>7, <3>8, MergedEntriesAre DEF Spellings
  <2> QED
    BY <2>2, <2>3
<1> QED
  BY <1>6, <1>7

--------------------------------------------------------------------------------
(* Concepts that the dictionary does not have.                                  *)

IsInput(in) ==
    /\ IsFiniteSet(in.parsed.rels)
    /\ IsFiniteSet(in.inferred.rels) /\ IsFiniteSet(in.inferred.nodes)
    /\ IsDictionary(in.dictionary)
    /\ \A n \in Concepts(in.parsed.nodes) \cup Concepts(in.inferred.nodes) : n.key \in Names
    /\ \A r \in in.parsed.rels \cup in.inferred.rels : Spelt(Ends(r))

LEMMA RepresentativeIs ==
    ASSUME NEW in, NEW n
    PROVE  Representative(in, n) =
             IF Key[n.key] \in in.blocked \cup {None} THEN Text[n.key]
             ELSE CHOOSE a \in Rivals(in, n) : \A b \in Rivals(in, n) \ {a} : Precedes(in, a, b)
  BY DEF Representative

LEMMA UnmatchedNames ==
    ASSUME NEW in, IsInput(in)
    PROVE  \A n \in Unmatched(in) : n.key \in Names
  BY DEF IsInput, Unmatched

\* How often a name is used is bounded by the graphs.
LEMMA CountsAreBounded ==
    ASSUME NEW in, IsInput(in)
    PROVE  \E B \in Nat : \A a :
             /\ Mentioned(in, a) \in Nat /\ Mentioned(in, a) <= B
             /\ Occurrences(in, a) \in Nat /\ Occurrences(in, a) <= B
<1> DEFINE R == (in.parsed.rels \cup in.inferred.rels) \X {"start", "end"}
           N == in.inferred.nodes
<1>1. IsFiniteSet(R) /\ Cardinality(R) \in Nat
  <2>1. IsFiniteSet(in.parsed.rels \cup in.inferred.rels)
    BY FS_Union DEF IsInput
  <2>2. IsFiniteSet({"start"} \cup {"end"})
    BY FS_Singleton, FS_Union
  <2>3. {"start", "end"} = {"start"} \cup {"end"}
    OBVIOUS
  <2>4. IsFiniteSet(R)
    BY <2>1, <2>2, <2>3, FS_Product
  <2> QED
    BY <2>4, FS_CardinalityType
<1>2. IsFiniteSet(N) /\ Cardinality(N) \in Nat
  BY FS_CardinalityType DEF IsInput
<1>3. \A a : Mentioned(in, a) \in Nat /\ Mentioned(in, a) <= Cardinality(R)
  <2> TAKE a
  <2>1. PICK T \in SUBSET R : Mentioned(in, a) = Cardinality(T)
    BY DEF Mentioned
  <2> HIDE DEF R
  <2>2. IsFiniteSet(T) /\ Cardinality(T) <= Cardinality(R)
    BY <1>1, FS_Subset
  <2>3. Cardinality(T) \in Nat
    BY <2>2, FS_CardinalityType
  <2> QED
    BY <2>1, <2>2, <2>3
<1>4. \A a : Occurrences(in, a) \in Nat /\ Occurrences(in, a) <= Cardinality(N)
  <2> TAKE a
  <2>1. PICK T \in SUBSET N : Occurrences(in, a) = Cardinality(T)
    BY DEF Occurrences, Unmatched, Concepts
  <2> HIDE DEF N
  <2>2. IsFiniteSet(T) /\ Cardinality(T) <= Cardinality(N)
    BY <1>2, FS_Subset
  <2>3. Cardinality(T) \in Nat
    BY <2>2, FS_CardinalityType
  <2> QED
    BY <2>1, <2>2, <2>3
<1> HIDE DEF R, N
<1>5. Cardinality(R) + Cardinality(N) \in Nat
  BY <1>1, <1>2
<1>6. \A a : /\ Mentioned(in, a) \in Nat /\ Mentioned(in, a) <= Cardinality(R) + Cardinality(N)
             /\ Occurrences(in, a) \in Nat /\ Occurrences(in, a) <= Cardinality(R) + Cardinality(N)
  BY <1>1, <1>2, <1>3, <1>4
<1> QED
  BY <1>5, <1>6

\* One of the rivals precedes all others.
LEMMA SomeoneIsFirst ==
    ASSUME NEW in, IsInput(in), NEW S \in SUBSET Names, S # {}
    PROVE  \E a \in S : \A b \in S \ {a} : Precedes(in, a, b)
<1>1. PICK B \in Nat : \A a :
         /\ Mentioned(in, a) \in Nat /\ Mentioned(in, a) <= B
         /\ Occurrences(in, a) \in Nat /\ Occurrences(in, a) <= B
  BY CountsAreBounded
<1> DEFINE f1 == [a \in S |-> B - Mentioned(in, a)]
<1>2. f1 \in [S -> Nat]
  BY <1>1
<1>3. PICK a1 \in S : \A b \in S : Mentioned(in, a1) >= Mentioned(in, b)
  <2> HIDE DEF f1
  <2>1. PICK a \in S : \A b \in S : f1[a] <= f1[b]
    BY <1>2, LeastElement
  <2>2. \A b \in S : B - Mentioned(in, a) <= B - Mentioned(in, b)
    BY <2>1 DEF f1
  <2>3. \A b \in S : Mentioned(in, a) >= Mentioned(in, b)
    BY <1>1, <2>2
  <2> QED
    BY <2>3
<1> DEFINE S1 == {a \in S : Mentioned(in, a) = Mentioned(in, a1)}
           f2 == [a \in S1 |-> B - Occurrences(in, a)]
<1>4. f2 \in [S1 -> Nat] /\ S1 # {}
  BY <1>1
<1>5. PICK a2 \in S1 : \A b \in S1 : Occurrences(in, a2) >= Occurrences(in, b)
  <2> HIDE DEF f2, S1
  <2>1. PICK a \in S1 : \A b \in S1 : f2[a] <= f2[b]
    BY <1>4, LeastElement
  <2>2. \A b \in S1 : B - Occurrences(in, a) <= B - Occurrences(in, b)
    BY <2>1 DEF f2
  <2>3. \A b \in S1 : Occurrences(in, a) >= Occurrences(in, b)
    BY <1>1, <2>2
  <2> QED
    BY <2>3
<1> DEFINE S2 == {a \in S1 : Occurrences(in, a) = Occurrences(in, a2)}
           f3 == [a \in S2 |-> Rank[a]]
<1>6. f3 \in [S2 -> Nat] /\ S2 # {}
  BY SpellingFacts
<1>7. PICK a3 \in S2 : \A b \in S2 : Rank[a3] <= Rank[b]
  <2> HIDE DEF f3, S2, S1
  <2>1. PICK a \in S2 : \A b \in S2 : f3[a] <= f3[b]
    BY <1>6, LeastElement
  <2> QED
    BY <2>1 DEF f3
<1>8. ASSUME NEW b \in S \ {a3} PROVE Precedes(in, a3, b)
  <2>1. a3 \in Names /\ b \in Names /\ Rank[a3] \in Nat /\ Rank[b] \in Nat /\ Rank[a3] # Rank[b]
    BY SpellingFacts
  <2>2. CASE b \notin S1
    BY <1>1, <1>3, <2>2 DEF Precedes
  <2>3. CASE b \in S1 /\ b \notin S2
    BY <1>1, <1>5, <2>3 DEF Precedes
  <2>4. CASE b \in S2
    BY <1>1, <1>7, <2>1, <2>4 DEF Precedes
  <2> QED
    BY <2>2, <2>3, <2>4
<1> QED
  BY <1>8

\* The representative is an unmatched spelling with the same key, the spelling itself
\* if it is blocked, and the same one for every spelling of the key if it is not.
LEMMA RepresentativeFacts ==
    ASSUME NEW in, IsInput(in)
    PROVE  /\ \A n \in Unmatched(in) : \E m \in Unmatched(in) :
                Representative(in, n) = Text[m.key] /\ Key[m.key] = Key[n.key]
           /\ \A n : Key[n.key] \in in.blocked \cup {None} => Representative(in, n) = Text[n.key]
           /\ \A m, n : Key[m.key] = Key[n.key] /\ Key[n.key] \notin in.blocked \cup {None}
                => Representative(in, m) = Representative(in, n)
<1>1. ASSUME NEW n \in Unmatched(in)
      PROVE  \E m \in Unmatched(in) : Representative(in, n) = Text[m.key] /\ Key[m.key] = Key[n.key]
  <2>1. CASE Key[n.key] \in in.blocked \cup {None}
    BY <2>1, RepresentativeIs
  <2>2. CASE Key[n.key] \notin in.blocked \cup {None}
    <3>1. Rivals(in, n) \in SUBSET Names /\ Rivals(in, n) # {}
      BY UnmatchedNames, SpellingFacts DEF Rivals
    <3>2. \E a \in Rivals(in, n) : \A b \in Rivals(in, n) \ {a} : Precedes(in, a, b)
      BY <3>1, SomeoneIsFirst
    <3>3. Representative(in, n) \in Rivals(in, n)
      BY <2>2, <3>2, RepresentativeIs
    <3> QED
      BY <3>3 DEF Rivals
  <2> QED
    BY <2>1, <2>2
<1>2. ASSUME NEW m, NEW n, Key[m.key] = Key[n.key], Key[n.key] \notin in.blocked \cup {None}
      PROVE  Representative(in, m) = Representative(in, n)
  <2>1. Rivals(in, m) = Rivals(in, n)
    BY <1>2 DEF Rivals
  <2>2. Representative(in, m) =
          CHOOSE a \in Rivals(in, m) : \A b \in Rivals(in, m) \ {a} : Precedes(in, a, b)
    BY <1>2, RepresentativeIs
  <2>3. Representative(in, n) =
          CHOOSE a \in Rivals(in, n) : \A b \in Rivals(in, n) \ {a} : Precedes(in, a, b)
    BY <1>2, RepresentativeIs
  <2> QED
    BY <2>1, <2>2, <2>3
<1>3. ASSUME NEW n, Key[n.key] \in in.blocked \cup {None}
      PROVE  Representative(in, n) = Text[n.key]
  BY <1>3, RepresentativeIs
<1> QED
  BY <1>1, <1>2, <1>3

LEMMA SpellingsOfAKeyMeet ==
    ASSUME NEW in, IsInput(in), NEW m \in Unmatched(in), NEW n \in Unmatched(in)
    PROVE  Normalized(in, m) = Normalized(in, n) <=>
             IF Key[m.key] \in in.blocked \cup {None} THEN Text[m.key] = Text[n.key]
             ELSE Key[m.key] = Key[n.key]
<1>1. /\ Normalized(in, m) = Node("Concept", Representative(in, m))
      /\ Normalized(in, n) = Node("Concept", Representative(in, n))
  BY DEF Normalized, Unmatched, Concepts
<1>2. Normalized(in, m) = Normalized(in, n) <=> Representative(in, m) = Representative(in, n)
  BY <1>1 DEF Node
<1>3. m.key \in Names /\ n.key \in Names
  BY UnmatchedNames
<1>4. \A x \in Unmatched(in) : Key[Representative(in, x)] = Key[x.key]
  <2> TAKE x \in Unmatched(in)
  <2>1. PICK y \in Unmatched(in) : Representative(in, x) = Text[y.key] /\ Key[y.key] = Key[x.key]
    BY RepresentativeFacts
  <2> QED
    BY <2>1, UnmatchedNames, SpellingFacts
<1>5. Representative(in, m) = Representative(in, n) => Key[m.key] = Key[n.key]
  BY <1>4
<1>6. CASE Key[m.key] \in in.blocked \cup {None}
  BY <1>2, <1>3, <1>5, <1>6, RepresentativeFacts, TextGivesKey
<1>7. CASE Key[m.key] \notin in.blocked \cup {None}
  BY <1>2, <1>5, <1>7, RepresentativeFacts
<1> QED
  BY <1>6, <1>7

--------------------------------------------------------------------------------
(* End points.                                                                  *)

\* What a name stands for in the graph, as a concept.
StandsFor(in, name) == Normalized(in, Node("Concept", name))

LEMMA ConceptStandsForItsName ==
    ASSUME NEW in, NEW n, n.label = "Concept"
    PROVE  /\ Normalized(in, n) = StandsFor(in, n.key)
           /\ Meaning(in, n) # {} => Normalized(in, n) = Node("Concept", CHOOSE c \in Meaning(in, n) : TRUE)
           /\ Meaning(in, n) = {} => Normalized(in, n) = Node("Concept", Representative(in, n))
<1> DEFINE k == Node("Concept", n.key)
<1>1. k.label = "Concept" /\ k.key = n.key
  BY DEF Node
<1> HIDE DEF k
<1>2. Representative(in, k) = Representative(in, n) /\ Meaning(in, k) = Meaning(in, n)
  BY <1>1 DEF Representative, Rivals, Meaning
<1>3. Normalized(in, k) = Normalized(in, n)
  BY <1>1, <1>2 DEF Normalized
<1> QED
  BY <1>3 DEF StandsFor, k, Normalized

\* A name stands for what its text stands for.
LEMMA TextGivesMeaning ==
    ASSUME NEW d, NEW blocked, NEW m \in Names, NEW n \in Names, Text[m] = Text[n]
    PROVE  Canonicals(d, blocked, m) = Canonicals(d, blocked, n)
<1>1. Key[m] = Key[n]
  BY TextGivesKey
<1> QED
  BY <1>1 DEF Canonicals

LEMMA TextGivesNode ==
    ASSUME NEW in, IsInput(in), NEW m \in Names, NEW n \in Names, Text[m] = Text[n]
    PROVE  StandsFor(in, m) = StandsFor(in, n)
<1> DEFINE M == Node("Concept", m)
           N == Node("Concept", n)
<1>1. M.label = "Concept" /\ N.label = "Concept" /\ M.key = m /\ N.key = n
  BY DEF Node
<1> HIDE DEF M, N
<1>2. Meaning(in, M) = Meaning(in, N)
  BY <1>1, TextGivesMeaning DEF Meaning
<1>3. Key[m] = Key[n]
  BY TextGivesKey
<1>4. Representative(in, M) = Representative(in, N)
  BY <1>1, <1>3, RepresentativeFacts
<1>5. Normalized(in, M) = Normalized(in, N)
  BY <1>1, <1>2, <1>4, ConceptStandsForItsName
<1> QED
  BY <1>5 DEF StandsFor, M, N

\* A name that means one entry stands for it.
LEMMA MeaningIsStoodFor ==
    ASSUME NEW in, NEW name, NEW c, Canonicals(in.dictionary, in.blocked, name) = {c}
    PROVE  StandsFor(in, name) = Node("Concept", c)
<1> DEFINE k == Node("Concept", name)
<1>1. k.label = "Concept" /\ k.key = name
  BY DEF Node
<1> HIDE DEF k
<1>2. Meaning(in, k) = {c}
  BY <1>1 DEF Meaning
<1>3. Normalized(in, k) = Node("Concept", CHOOSE x \in {c} : TRUE)
  BY <1>1, <1>2, ConceptStandsForItsName
<1>4. (CHOOSE x \in {c} : TRUE) = c
  OBVIOUS
<1> QED
  BY <1>3, <1>4 DEF StandsFor, k

\* What a concept is called in the graph stands for the same concept.
LEMMA CanonicalStandsForItself ==
    ASSUME NEW in, IsInput(in), Resolves(in), NEW m \in Concepts(InputNodes(in))
    PROVE  /\ Normalized(in, m).key \in Names
           /\ Normalized(in, m) = StandsFor(in, Normalized(in, m).key)
<1>1. m.label = "Concept" /\ m.key \in Names
  BY DEF Concepts, InputNodes, IsInput
<1>2. CASE Meaning(in, m) # {}
  <2> DEFINE c == CHOOSE x \in Meaning(in, m) : TRUE
  <2>1. Normalized(in, m) = Node("Concept", c)
    BY <1>1, <1>2, ConceptStandsForItsName
  <2>2. c \in Meaning(in, m)
    BY <1>2
  <2> HIDE DEF c
  <2>3. c \in DOMAIN in.dictionary
    BY <2>2 DEF Meaning, Canonicals, ExactOwners, KeyOwners
  <2>4. c \in Names /\ c \in Spellings(in.dictionary, c)
    BY <2>3 DEF IsInput, IsDictionary, Spellings
  <2>5. Canonicals(in.dictionary, in.blocked, c) = {c}
    BY <2>3, <2>4, ExactMeaning DEF Resolves
  <2>6. StandsFor(in, c) = Node("Concept", c)
    BY <2>5, MeaningIsStoodFor
  <2> QED
    BY <2>1, <2>4, <2>6 DEF Node
<1>3. CASE Meaning(in, m) = {}
  <2> DEFINE a == Representative(in, m)
             k == Node("Concept", a)
  <2>1. Normalized(in, m) = k
    BY <1>1, <1>3, ConceptStandsForItsName
  <2>2. m \in Unmatched(in)
    BY <1>3 DEF Resolves, MissingConcepts, Concepts, InputNodes, Unmatched
  <2>3. k.label = "Concept" /\ k.key = a
    BY DEF Node
  <2> HIDE DEF a, k
  <2>4. PICK x \in Unmatched(in) : a = Text[x.key] /\ Key[x.key] = Key[m.key]
    BY <2>2, RepresentativeFacts DEF a
  <2>5. a \in Names /\ x.key \in Names /\ Text[a] = Text[x.key] /\ Key[a] = Key[m.key] /\ Text[a] = a
    BY <2>4, UnmatchedNames, SpellingFacts
  <2>6. Canonicals(in.dictionary, in.blocked, a) = {}
    <3>1. Canonicals(in.dictionary, in.blocked, x.key) = {}
      BY <2>4 DEF Unmatched, Meaning
    <3> QED
      BY <2>5, <3>1, TextGivesMeaning
  <2>7. Normalized(in, k) = Node("Concept", Representative(in, k))
    BY <2>3, <2>6, ConceptStandsForItsName DEF Meaning
  <2>8. Representative(in, k) = a
    <3>1. CASE Key[m.key] \in in.blocked \cup {None}
      BY <2>3, <2>5, <3>1, RepresentativeFacts
    <3>2. CASE Key[m.key] \notin in.blocked \cup {None}
      <4>1. Representative(in, k) = Representative(in, m)
        BY <2>3, <2>5, <3>2, RepresentativeFacts
      <4> QED
        BY <4>1 DEF a
    <3> QED
      BY <3>1, <3>2
  <2>9. StandsFor(in, a) = k
    BY <2>7, <2>8 DEF StandsFor, k
  <2> QED
    BY <2>1, <2>3, <2>5, <2>9
<1> QED
  BY <1>2, <1>3

\* Only concepts are renamed to concepts.
LEMMA ConceptsStayConcepts ==
    ASSUME NEW in, NEW n, Normalized(in, n).label = "Concept"
    PROVE  n.label = "Concept"
  BY DEF Normalized, Node

\* What a name means as the key of a label.
Named(in, label, name) == Normalized(in, Node(label, name))

LEMMA OthersKeepTheirName ==
    ASSUME NEW in, NEW n, n.label # "Concept"
    PROVE  /\ Normalized(in, n) = Node(n.label, n.key)
           /\ Named(in, n.label, n.key) = Node(n.label, n.key)
  BY DEF Normalized, Named, Node

\* Every name of a node of the graph goes with the node that the name stands for.
LEMMA AliasesAreNames ==
    ASSUME NEW in, IsInput(in), NEW x \in Aliases(in)
    PROVE  /\ x.node \in ResolvedNodes(in)
           /\ Resolves(in) => /\ x.node = Named(in, x.node.label, x.name)
                              /\ x.node.label = "Concept" => x.name \in Names
<1>1. PICK n \in InputNodes(in) :
          \E a \in {n.key} \cup CalledNow(in, Normalized(in, n)) : x = Alias(a, Normalized(in, n))
  BY DEF Aliases
<1> DEFINE m == Normalized(in, n)
<1>2. x.name \in {n.key} \cup CalledNow(in, m) /\ x.node = m
  BY <1>1 DEF Alias
<1>3. m \in ResolvedNodes(in)
  BY DEF ResolvedNodes
<1>4. CASE x.name = n.key
  <2>1. CASE n.label = "Concept"
    <3>1. n.key \in Names
      BY <2>1 DEF Concepts, InputNodes, IsInput
    <3>2. m = StandsFor(in, n.key) /\ m.label = "Concept"
      BY <2>1, ConceptStandsForItsName DEF Node
    <3> QED
      BY <1>2, <1>3, <1>4, <3>1, <3>2 DEF StandsFor, Named
  <2>2. CASE n.label # "Concept"
    <3>1. m = Node(n.label, n.key)
      BY <2>2, OthersKeepTheirName
    <3>2. m.label = n.label
      BY <3>1 DEF Node
    <3> QED
      BY <1>2, <1>3, <1>4, <2>2, <3>1, <3>2, OthersKeepTheirName
  <2> QED
    BY <2>1, <2>2
<1>5. CASE x.name = m.key
  <2>1. CASE m.label = "Concept"
    <3>1. n \in Concepts(InputNodes(in))
      BY <2>1, ConceptsStayConcepts DEF Concepts
    <3>2. Resolves(in) => m.key \in Names /\ m = StandsFor(in, m.key)
      BY <3>1, CanonicalStandsForItself
    <3> QED
      BY <1>2, <1>3, <1>5, <2>1, <3>2 DEF StandsFor, Named
  <2>2. CASE m.label # "Concept"
    <3>1. n.label # "Concept"
      BY <2>2 DEF Normalized, Node
    <3>2. m = Node(n.label, n.key)
      BY <3>1, OthersKeepTheirName
    <3>3. m = Node(m.label, m.key)
      BY <3>2 DEF Node
    <3> QED
      BY <1>2, <1>3, <1>5, <2>2, <3>3, OthersKeepTheirName
  <2> QED
    BY <2>1, <2>2
<1>6. CASE m.label = "Concept" /\ m.key \in DOMAIN in.dictionary /\ x.name \in in.dictionary[m.key]
  <2>1. x.name \in Spellings(in.dictionary, m.key)
    BY <1>6 DEF Spellings
  <2>2. x.name \in Names
    BY <1>6 DEF IsInput, IsDictionary
  <2>3. Resolves(in) => StandsFor(in, x.name) = Node("Concept", m.key)
    BY <1>6, <2>1, ExactMeaning, MeaningIsStoodFor DEF Resolves
  <2>4. m = Node("Concept", m.key)
    BY <1>6 DEF Normalized, Node
  <2> QED
    BY <1>2, <1>3, <1>6, <2>2, <2>3, <2>4 DEF StandsFor, Named
<1> QED
  BY <1>2, <1>4, <1>5, <1>6 DEF CalledNow

\* A node that an end point is found at was added for a text of it.
LEMMA TargetsAreAliased ==
    ASSUME NEW in, NEW e, NEW n \in Targets(Index(in), e)
    PROVE  \E a \in Aliases(in) : \E t \in {Written(e), InLowerCase(Written(e))} :
                t \in TextsOf(a) /\ n = a.node
<1>1. PICK t \in {Written(e), InLowerCase(Written(e))} : \E x \in Index(in).texts :
          x.text = t /\ n = x.node
  BY DEF Targets
<1>2. PICK x \in Index(in).texts : x.text = t /\ n = x.node
  BY <1>1
<1>3. Index(in).texts = UNION {{[text |-> u, node |-> a.node] : u \in TextsOf(a)} : a \in Aliases(in)}
  BY DEF Index
<1>4. PICK a \in Aliases(in) : \E u \in TextsOf(a) : x = [text |-> u, node |-> a.node]
  BY <1>2, <1>3
<1> QED
  BY <1>2, <1>4

\* Two end points with a text in common have the same label, and the same key or, of
\* concepts, keys with the same text.
LEMMA TextsTellNames ==
    ASSUME NEW e, NEW f,
           {Written(e), InLowerCase(Written(e))} \cap {Written(f), InLowerCase(Written(f))} # {}
    PROVE  /\ e.label = f.label
           /\ e.label # "Concept" => e.key = f.key
           /\ e.label = "Concept" => Text[e.key] = Text[f.key]
<1>1. /\ Written(e) = [label |-> e.label, key |-> e.key, lowered |-> FALSE]
      /\ Written(f) = [label |-> f.label, key |-> f.key, lowered |-> FALSE]
  BY DEF Written
<1>2. /\ InLowerCase(Written(e)) =
            [label |-> e.label, key |-> IF e.label = "Concept" THEN Text[e.key] ELSE e.key, lowered |-> TRUE]
      /\ InLowerCase(Written(f)) =
            [label |-> f.label, key |-> IF f.label = "Concept" THEN Text[f.key] ELSE f.key, lowered |-> TRUE]
  BY <1>1 DEF InLowerCase
<1> QED
  BY <1>1, <1>2

\* An end point that no name is spelled like is found at the node it means only.
LEMMA TargetIsMeant ==
    ASSUME NEW in, IsInput(in), Resolves(in), NEW e, e.label = "Concept" => e.key \in Names,
           {Written(e), InLowerCase(Written(e))} \cap Mistakable(in) = {},
           NEW n \in Targets(Index(in), e)
    PROVE  n = Meant(in, e)
<1>1. PICK a \in Aliases(in) : \E t \in {Written(e), InLowerCase(Written(e))} :
          t \in TextsOf(a) /\ n = a.node
  BY TargetsAreAliased
<1> DEFINE f == Node(a.node.label, a.name)
<1>2. {Written(e), InLowerCase(Written(e))} \cap {Written(f), InLowerCase(Written(f))} # {}
  <2>1. PICK t \in {Written(e), InLowerCase(Written(e))} : t \in TextsOf(a)
    BY <1>1
  <2>2. t \notin Spelled(a)
    BY DEF Mistakable
  <2> QED
    BY <2>1, <2>2 DEF TextsOf
<1>3. f.label = a.node.label /\ f.key = a.name
  BY DEF Node
<1>4. /\ e.label = a.node.label
      /\ e.label # "Concept" => e.key = a.name
      /\ e.label = "Concept" => Text[e.key] = Text[a.name]
  BY <1>2, <1>3, TextsTellNames
<1>5. n = Named(in, e.label, a.name) /\ (e.label = "Concept" => a.name \in Names)
  BY <1>1, <1>4, AliasesAreNames
<1>6. CASE e.label # "Concept"
  BY <1>4, <1>5, <1>6 DEF Named, Meant
<1>7. CASE e.label = "Concept"
  <2>1. StandsFor(in, e.key) = StandsFor(in, a.name)
    BY <1>4, <1>5, <1>7, TextGivesNode
  <2> QED
    BY <1>5, <1>7, <2>1 DEF Named, Meant, StandsFor
<1> QED
  BY <1>6, <1>7

\* A relationship is renamed to one between nodes of the graph.
IsEdge(r) == r = Edge(r.type, r.start, r.end, r.id)

LEMMA ResolvedIsClosed ==
    ASSUME NEW in, IsInput(in), Unresolved(Index(in), in.parsed.rels) = {}
    PROVE  \A r \in Resolved(in, Index(in)).rels :
                IsEdge(r) /\ Ends(r) \subseteq Resolved(in, Index(in)).nodes
<1> DEFINE kept == in.inferred.rels \ Unresolved(Index(in), in.inferred.rels)
<1>1. /\ Resolved(in, Index(in)).nodes = ResolvedNodes(in)
      /\ Resolved(in, Index(in)).rels = {Renamed(Index(in), r) : r \in in.parsed.rels \cup kept}
  BY DEF Resolved, Index
<1>2. \A e : Targets(Index(in), e) \subseteq ResolvedNodes(in)
  BY TargetsAreAliased, AliasesAreNames
<1>3. \A r \in in.parsed.rels \cup kept : \A e \in Ends(r) : \E n \in Targets(Index(in), e) : TRUE
  BY DEF Unresolved
<1> SUFFICES ASSUME NEW r \in in.parsed.rels \cup kept
             PROVE  /\ IsEdge(Renamed(Index(in), r))
                    /\ Ends(Renamed(Index(in), r)) \subseteq ResolvedNodes(in)
  BY <1>1
<1> DEFINE s == CHOOSE n \in Targets(Index(in), r.start) : TRUE
           e == CHOOSE n \in Targets(Index(in), r.end) : TRUE
<1>4. s \in Targets(Index(in), r.start) /\ e \in Targets(Index(in), r.end)
  BY <1>3 DEF Ends
<1>5. Renamed(Index(in), r) = Edge(r.type, s, e, r.id)
  BY DEF Renamed
<1> HIDE DEF s, e
<1> QED
  BY <1>2, <1>4, <1>5 DEF IsEdge, Edge, Ends

--------------------------------------------------------------------------------
(* The inductive invariant.                                                     *)

\* What parse-structure writes, whole or cut off.
IsGraphFile(g) == \E r \in Raws : g \in {Parsed(r)} \cup Cuts(Parsed(r))

\* What a process holds is what it is to write, or what it read.
PlanOK(p) ==
    /\ pc[p] \in {"seed", "seeding"} => IsDictionary(plan[p])
    /\ pc[p] \in {"parse", "parsing"} => \E r \in Raws : plan[p] = Parsed(r)
    /\ pc[p] = "read" =>
        IsGraphFile(plan[p].parsed) /\ plan[p].inferred \in Inferences \cup {NoGraph}
    /\ pc[p] = "load" =>
        \A r \in plan[p].rels : IsEdge(r) /\ Ends(r) \subseteq plan[p].nodes

FilesInv ==
    /\ TypeOK
    /\ DOMAIN plan = Slots /\ DOMAIN todo = Slots
    /\ parsed = NoFile \/ IsGraphFile(parsed)
    /\ \A p \in Slots : PlanOK(p)

\* What a sync was to send it has yet to send, or it is there.
SentOK(p) ==
    /\ pc[p] = "synced" => todo[p] = {}
    /\ pc[p] \in {"load", "synced"} /\ ~disturbed[p] =>
        /\ \A n \in plan[p].nodes : NodeScope(n) \in todo[p] \/ n \in neo4j.nodes
        /\ \A r \in plan[p].rels : EdgeScope(r) \in todo[p] \/ Stored(r) \in neo4j.rels

\* What a sync sends is due.
DueOK(p) ==
    pc[p] = "load" => plan[p].nodes \subseteq due.nodes /\ plan[p].rels \subseteq due.rels

SyncInv == NothingForeign /\ \A p \in Slots : SentOK(p) /\ DueOK(p)

--------------------------------------------------------------------------------
(* What the files hold, and what is resolved from them.                         *)

LEMMA GraphFileFacts ==
    ASSUME NEW g, IsGraphFile(g)
    PROVE  /\ IsFiniteSet(g.rels)
           /\ \A n \in Concepts(g.nodes) : n.key \in Names
           /\ \A x \in g.rels : Spelt(Ends(x))
<1>1. PICK r \in Raws : g \in {Parsed(r)} \cup Cuts(Parsed(r))
  BY DEF IsGraphFile
<1>2. /\ IsFiniteSet(Parsed(r).rels)
      /\ \A n \in Concepts(Parsed(r).nodes) : n.key \in Names
      /\ \A x \in Parsed(r).rels : Spelt(Ends(x))
  BY PipelineAssumption DEF IsRaw, Spelt
<1>3. g.nodes \subseteq Parsed(r).nodes /\ g.rels \subseteq Parsed(r).rels
  BY <1>1 DEF Cuts, IsPart
<1>4. IsFiniteSet(g.rels)
  BY <1>2, <1>3, FS_Subset
<1> QED
  BY <1>2, <1>3, <1>4 DEF Concepts

LEMMA InferenceFacts ==
    ASSUME NEW i \in Inferences \cup {NoGraph}
    PROVE  IsInference(i)
<1>1. IsInference(NoGraph)
  BY FS_EmptySet DEF NoGraph, IsInference, Concepts, Spelt
<1> QED
  BY <1>1, PipelineAssumption

\* Ends are rewritten to tasks and pages, never to concepts.
LEMMA SanitizedIsSpelt ==
    ASSUME NEW r, NEW rels, NEW x \in Sanitized(r, rels),
           \A y \in rels : {"start", "end"} \subseteq DOMAIN y /\ Spelt(Ends(y))
    PROVE  Spelt(Ends(x))
<1>1. PICK y \in rels : \E s \in Rewritten(r, y.start), e \in Rewritten(r, y.end) : x = Moved(y, s, e)
  BY DEF Sanitized
<1>2. PICK s \in Rewritten(r, y.start), e \in Rewritten(r, y.end) : x = Moved(y, s, e)
  BY <1>1
<1>3. x.start = s /\ x.end = e
  BY <1>2 DEF Moved
<1>4. \A n, m : m \in Rewritten(r, n) /\ m.label = "Concept" => m = n
  BY DEF Rewritten, NodeSet, Node
<1>5. \A m \in Ends(x) : m.label = "Concept" => m \in Ends(y)
  BY <1>3, <1>4 DEF Ends
<1> QED
  BY <1>5 DEF Spelt, Concepts

\* Rewriting the ends of finitely many relationships leaves finitely many.
LEMMA SanitizedIsFinite ==
    ASSUME NEW r, IsRaw(r), NEW rels, IsFiniteSet(rels)
    PROVE  IsFiniteSet(Sanitized(r, rels))
<1> DEFINE f1 == [p \in r.posts |-> [number |-> p.number, id |-> p.id]]
           f2 == [t \in KnownTasks(r) |-> Node("Task", t.number)]
           f3 == [w \in r.wikis |-> Node("Wiki", w.page)]
           f4 == [x \in rels |-> x.start]
           f5 == [x \in rels |-> x.end]
           T == {f2[t] : t \in KnownTasks(r)}
           W == {f3[w] : w \in r.wikis}
           A == {f4[x] : x \in rels}
           B == {f5[x] : x \in rels}
           E == (T \cup W) \cup (A \cup B)
           Q == rels \X (E \X E)
           f == [q \in Q |-> Moved(q[1], q[2][1], q[2][2])]
<1>1. IsFiniteSet(KnownTasks(r))
  <2>1. IsFiniteSet({f1[p] : p \in r.posts})
    BY FiniteImage DEF IsRaw
  <2>2. KnownTasks(r) = r.listed \cup {f1[p] : p \in r.posts}
    BY DEF KnownTasks
  <2> HIDE DEF f1
  <2>3. IsFiniteSet(r.listed)
    BY DEF IsRaw
  <2> QED
    BY <2>1, <2>2, <2>3, FS_Union
<1>2. IsFiniteSet(T) /\ IsFiniteSet(W) /\ IsFiniteSet(A) /\ IsFiniteSet(B)
  <2>1. IsFiniteSet(T)
    BY <1>1, FiniteImage
  <2>2. IsFiniteSet(W)
    BY FiniteImage DEF IsRaw
  <2>3. IsFiniteSet(A)
    BY FiniteImage
  <2>4. IsFiniteSet(B)
    BY FiniteImage
  <2> QED
    BY <2>1, <2>2, <2>3, <2>4
<1>3. \A x \in rels : x.start \in E /\ x.end \in E
  <2> TAKE x \in rels
  <2>1. f4[x] \in A /\ f5[x] \in B
    OBVIOUS
  <2> QED
    BY <2>1
<1>4. \A e \in E : Rewritten(r, e) \subseteq E
  <2>1. NodeSet("Task", {t.number : t \in KnownTasks(r)}) \subseteq T
    BY DEF NodeSet
  <2>2. NodeSet("Wiki", {w.page : w \in r.wikis}) \subseteq W
    BY DEF NodeSet
  <2>3. \A e : Rewritten(r, e) \subseteq {e} \cup (T \cup W)
    BY <2>1, <2>2 DEF Rewritten, NodeSet
  <2> QED
    BY <2>3
<1> HIDE DEF T, W, A, B
<1>5. IsFiniteSet(E)
  <2>1. IsFiniteSet(T \cup W) /\ IsFiniteSet(A \cup B)
    BY <1>2, FS_Union
  <2> QED
    BY <2>1, FS_Union
<1> HIDE DEF E
<1>6. IsFiniteSet(Q)
  <2>1. IsFiniteSet(E \X E)
    BY <1>5, FS_Product
  <2> QED
    BY <2>1, FS_Product
<1>7. IsFiniteSet({f[q] : q \in Q})
  <2>1. DOMAIN f = Q
    OBVIOUS
  <2> HIDE DEF f, Q
  <2> QED
    BY <1>6, <2>1, FiniteImage
<1>8. Sanitized(r, rels) \subseteq {f[q] : q \in Q}
  <2>1. ASSUME NEW x \in rels, NEW s \in Rewritten(r, x.start), NEW e \in Rewritten(r, x.end)
        PROVE  Moved(x, s, e) \in {f[q] : q \in Q}
    <3>1. s \in E /\ e \in E
      BY <1>3, <1>4
    <3>2. <<x, <<s, e>>>> \in Q
      BY <3>1
    <3>3. f[<<x, <<s, e>>>>] = Moved(x, s, e)
      BY <3>2
    <3> HIDE DEF f, Q
    <3> QED
      BY <3>2, <3>3
  <2> HIDE DEF f, Q
  <2> DEFINE I == {f[q] : q \in Q}
  <2>2. ASSUME NEW x \in rels
        PROVE  {Moved(x, s, e) :
                  s \in Rewritten(r, x.start), e \in Rewritten(r, x.end)} \subseteq I
    BY <2>1
  <2> HIDE DEF I
  <2>3. Sanitized(r, rels) \subseteq I
    BY <2>2 DEF Sanitized
  <2> QED
    BY <2>3 DEF I
<1> HIDE DEF f, Q
<1> QED
  BY <1>7, <1>8, FS_Subset

LEMMA ReaderHasInput ==
    ASSUME NEW g, IsGraphFile(g), NEW i \in Inferences \cup {NoGraph},
           NEW d, d = NoFile \/ IsDictionary(d), NEW cur \in Decisions, NEW r \in Raws
    PROVE  /\ IsInput(Input(g, i, d, cur, r))
           /\ Input(g, i, d, cur, r).parsed = g
           /\ Input(g, i, d, cur, r).dictionary = Loaded(OrNew(d), cur)
           /\ IsDictionary(OrNew(d))
<1> DEFINE in == Input(g, i, d, cur, r)
<1>1. IsRaw(r) /\ IsCuration(cur) /\ IsInference(i)
  BY PipelineAssumption, InferenceFacts
<1>2. /\ in.parsed = g
      /\ in.inferred = [i EXCEPT !.rels = Sanitized(r, i.rels)]
      /\ in.dictionary = Loaded(OrNew(d), cur)
  BY DEF Input
<1>3. in.inferred.nodes = i.nodes /\ in.inferred.rels = Sanitized(r, i.rels)
  BY <1>1, <1>2 DEF IsInference
<1>4. IsDictionary(OrNew(d))
  BY EmptyIsDictionary DEF OrNew
<1>5. IsDictionary(in.dictionary)
  BY <1>1, <1>2, <1>4, LoadedIsDictionary
<1>6. IsFiniteSet(in.inferred.rels)
  BY <1>1, <1>3, SanitizedIsFinite DEF IsInference
<1>7. /\ IsFiniteSet(in.parsed.rels) /\ \A n \in Concepts(in.parsed.nodes) : n.key \in Names
      /\ \A x \in in.parsed.rels : Spelt(Ends(x))
  BY <1>2, GraphFileFacts
<1>8. /\ IsFiniteSet(in.inferred.nodes) /\ \A n \in Concepts(in.inferred.nodes) : n.key \in Names
      /\ \A x \in in.inferred.rels : Spelt(Ends(x))
  BY <1>1, <1>3, SanitizedIsSpelt DEF IsInference, Spelt
<1> HIDE DEF in
<1>9. IsInput(in)
  BY <1>5, <1>6, <1>7, <1>8 DEF IsInput
<1> QED
  BY <1>2, <1>4, <1>9 DEF in

\* What a process that has read the graphs would resolve.
LEMMA ReadersHaveInput ==
    ASSUME FilesInv, NEW p \in Readers
    PROVE  /\ IsInput(Resolving(p))
           /\ Resolving(p).dictionary = Loaded(OrNew(dictionary), decided)
           /\ IsDictionary(OrNew(dictionary))
<1>1. /\ IsGraphFile(plan[p].parsed) /\ plan[p].inferred \in Inferences \cup {NoGraph}
      /\ dictionary = NoFile \/ IsDictionary(dictionary)
      /\ decided \in Decisions /\ raw \in Raws
  BY DEF FilesInv, PlanOK, TypeOK, Readers
<1> DEFINE g == plan[p].parsed
           i == plan[p].inferred
<1>2. Resolving(p) = Input(g, i, dictionary, decided, raw)
  BY DEF Resolving
<1> HIDE DEF g, i
<1>3. IsGraphFile(g) /\ i \in Inferences \cup {NoGraph}
  BY <1>1 DEF g, i
<1>4. /\ IsInput(Input(g, i, dictionary, decided, raw))
      /\ Input(g, i, dictionary, decided, raw).dictionary =
            Loaded(OrNew(dictionary), decided)
      /\ IsDictionary(OrNew(dictionary))
  BY <1>1, <1>3, ReaderHasInput
<1> QED
  BY <1>2, <1>4

--------------------------------------------------------------------------------
(* Files and plans keep their shape.                                            *)

LEMMA GoesOn ==
    ASSUME FilesInv, NEW p \in Slots, NEW x, NEW where, Goes(p, where, x),
           where \in {"idle", "seed", "seeding", "parse", "parsing", "read", "load", "synced"}
    PROVE  /\ pc' \in [Slots -> {"idle", "seed", "seeding", "parse", "parsing", "read", "load", "synced"}]
           /\ DOMAIN plan' = Slots
           /\ pc'[p] = where /\ plan'[p] = x
           /\ \A q \in Slots \ {p} : pc'[q] = pc[q] /\ plan'[q] = plan[q] /\ PlanOK(q)'
<1>1. /\ pc \in [Slots -> {"idle", "seed", "seeding", "parse", "parsing", "read", "load", "synced"}]
      /\ DOMAIN plan = Slots
  BY DEF FilesInv, TypeOK
<1>2. /\ pc' \in [Slots -> {"idle", "seed", "seeding", "parse", "parsing", "read", "load", "synced"}]
      /\ DOMAIN plan' = Slots
      /\ pc'[p] = where /\ plan'[p] = x
      /\ \A q \in Slots \ {p} : pc'[q] = pc[q] /\ plan'[q] = plan[q]
  BY <1>1 DEF Goes
<1>3. ASSUME NEW q \in Slots \ {p} PROVE PlanOK(q)'
  BY <1>2 DEF FilesInv, PlanOK
<1> QED
  BY <1>2, <1>3

\* A step that leaves files alone and takes one process from here to there.
LEMMA OneGoesOn ==
    ASSUME FilesInv, NEW p \in Slots, NEW x, NEW where, Goes(p, where, x),
           where \in {"idle", "seed", "seeding", "parse", "parsing", "read", "load", "synced"},
           raw' = raw /\ decided' = decided /\ inferred' = inferred,
           dictionary' \in {NoFile, Torn} \/ IsDictionary(dictionary'),
           parsed' = NoFile \/ IsGraphFile(parsed'),
           disturbed' \in [Slots -> BOOLEAN],
           DOMAIN todo' = Slots, \A q \in Slots \ {p} : todo'[q] = todo[q],
           runs' \in 0 .. MaxRuns, changes' = changes,
           PlanOK(p)', TodoOK(p)'
    PROVE  FilesInv'
<1>1. /\ pc' \in [Slots -> {"idle", "seed", "seeding", "parse", "parsing", "read", "load", "synced"}]
      /\ DOMAIN plan' = Slots
      /\ \A q \in Slots : PlanOK(q)'
      /\ \A q \in Slots \ {p} : pc'[q] = pc[q] /\ plan'[q] = plan[q]
  BY GoesOn
<1>4. \A q \in Slots : TodoOK(q)'
  BY <1>1 DEF FilesInv, TypeOK, TodoOK, Batches, NodeScope, EdgeScope
<1>2. TypeOK'
  BY <1>1, <1>4 DEF FilesInv, TypeOK
<1>3. (parsed = NoFile \/ IsGraphFile(parsed))'
  BY DEF IsGraphFile
<1> QED
  BY <1>1, <1>2, <1>3 DEF FilesInv

\* A process that is no sync has nothing to send.
LEMMA NothingToSend ==
    ASSUME FilesInv, NEW p \in Slots, todo' = todo, pc[p] # "load", pc'[p] # "load"
    PROVE  TodoOK(p)'
  BY DEF FilesInv, TypeOK, TodoOK

LEMMA AroundKeepsFiles ==
    ASSUME FilesInv, Around
    PROVE  FilesInv'
<1>1. \A q \in Slots : pc'[q] = pc[q] /\ plan'[q] = plan[q]
  BY DEF Around, Fetch, Decide, Infer
<1>2. \A q \in Slots : PlanOK(q)'
  BY <1>1 DEF FilesInv, PlanOK
<1>3. changes' \in 0 .. MaxChanges
  BY PipelineAssumption DEF Around, Fetch, Decide, Infer, Changes, FilesInv, TypeOK
<1>4. TypeOK'
  <2>1. \A q \in Slots : TodoOK(q)'
    BY DEF Around, Fetch, Decide, Infer, FilesInv, TypeOK, TodoOK, Batches, NodeScope, EdgeScope
  <2> QED
    BY <1>3, <2>1 DEF Around, Fetch, Decide, Infer, FilesInv, TypeOK
<1>5. (parsed = NoFile \/ IsGraphFile(parsed))' /\ DOMAIN plan' = Slots /\ DOMAIN todo' = Slots
  BY DEF Around, Fetch, Decide, Infer, FilesInv, IsGraphFile
<1> QED
  BY <1>2, <1>4, <1>5 DEF FilesInv

LEMMA StartsWithinBound ==
    ASSUME FilesInv, NEW p, Starts(p)
    PROVE  runs' \in 0 .. MaxRuns
  BY PipelineAssumption DEF Starts, FilesInv, TypeOK

LEMMA ResolveIsClosed ==
    ASSUME FilesInv, NEW p \in Slots, Resolve(p)
    PROVE  \E g : /\ Goes(p, IF g = NoGraph THEN "synced" ELSE "load", g)
                  /\ \A r \in g.rels : IsEdge(r) /\ Ends(r) \subseteq g.nodes
                  /\ todo' = [todo EXCEPT ![p] = Batches(g)]
                  /\ g = NoGraph <=> Batches(g) = {}
                  /\ due' = Union(due, g)
<1> DEFINE in == Resolving(p)
           g == Resolved(in, Index(in))
<1>1. p \in Readers
  BY DEF Resolve, Readers
<1>2. IsInput(in)
  BY <1>1, ReadersHaveInput
<1>3. /\ Unresolved(Index(in), in.parsed.rels) = {}
      /\ Goes(p, IF g = NoGraph THEN "synced" ELSE "load", g)
      /\ todo' = [todo EXCEPT ![p] = Batches(g)]
      /\ due' = Union(due, g)
  BY DEF Resolve, Resolving
<1> HIDE DEF in
<1>4. \A r \in g.rels : IsEdge(r) /\ Ends(r) \subseteq g.nodes
  BY <1>2, <1>3, ResolvedIsClosed
<1>5. g = NoGraph <=> Batches(g) = {}
  <2>1. g = [nodes |-> g.nodes, rels |-> g.rels]
    BY DEF Resolved
  <2> HIDE DEF g
  <2> QED
    BY <2>1 DEF Batches, NoGraph
<1> QED
  BY <1>3, <1>4, <1>5

LEMMA CommandsKeepFiles ==
    ASSUME FilesInv, NEW p \in Slots,
           \/ Seed(p) \/ OpenDictionary(p) \/ WriteDictionary(p)
           \/ Parse(p) \/ WritePart(p) \/ WriteParsed(p)
           \/ Sync(p) \/ Resolve(p) \/ LoadBatch(p)
           \/ Reset(p) \/ Stop(p)
    PROVE  FilesInv'
<1> USE DEF files
<1>0. /\ TypeOK /\ PlanOK(p) /\ DOMAIN todo = Slots
      /\ parsed = NoFile \/ IsGraphFile(parsed)
      /\ dictionary \in {NoFile, Torn} \/ IsDictionary(dictionary)
      /\ disturbed \in [Slots -> BOOLEAN] /\ runs \in 0 .. MaxRuns
      /\ raw \in Raws /\ decided \in Decisions
  BY DEF FilesInv, TypeOK
<1>1. CASE Seed(p)
  <2>1. /\ IsRaw(raw) /\ IsCuration(decided) /\ IsDictionary(OrNew(dictionary))
    BY <1>0, <1>1, EmptyIsDictionary, PipelineAssumption DEF Seed, OrNew
  <2>2. IsDictionary(Seeded(raw, OrNew(dictionary), decided))
    BY <2>1, SeededIsDictionary
  <2>3. Goes(p, "seed", Seeded(raw, OrNew(dictionary), decided))
    BY <1>1 DEF Seed
  <2>4. pc'[p] = "seed" /\ IsDictionary(plan'[p])
    BY <2>2, <2>3, GoesOn
  <2>5. PlanOK(p)'
    BY <2>4 DEF PlanOK
  <2>6. runs' \in 0 .. MaxRuns
    BY <1>1, StartsWithinBound DEF Seed
  <2>7. TodoOK(p)'
    BY <1>1, <2>4, NothingToSend DEF Seed, Starts
  <2> QED
    BY <1>0, <1>1, <2>3, <2>5, <2>6, <2>7, OneGoesOn DEF Seed
<1>2. CASE OpenDictionary(p)
  <2>1. Goes(p, "seeding", plan[p]) /\ IsDictionary(plan[p])
    BY <1>0, <1>2 DEF OpenDictionary, PlanOK
  <2>2. pc'[p] = "seeding" /\ IsDictionary(plan'[p])
    BY <2>1, GoesOn
  <2>3. PlanOK(p)'
    BY <2>2 DEF PlanOK
  <2>4. TodoOK(p)'
    BY <1>2, <2>2, NothingToSend DEF OpenDictionary
  <2> QED
    BY <1>0, <1>2, <2>1, <2>3, <2>4, OneGoesOn DEF OpenDictionary
<1>3. CASE WriteDictionary(p)
  <2>1. Goes(p, "idle", NoGraph) /\ IsDictionary(plan[p])
    BY <1>0, <1>3 DEF WriteDictionary, PlanOK
  <2>2. pc'[p] = "idle"
    BY <2>1, GoesOn
  <2>3. PlanOK(p)'
    BY <2>2 DEF PlanOK
  <2>4. TodoOK(p)'
    BY <1>3, <2>2, NothingToSend DEF WriteDictionary
  <2> QED
    BY <1>0, <1>3, <2>1, <2>3, <2>4, OneGoesOn DEF WriteDictionary
<1>4. CASE Parse(p)
  <2>1. Goes(p, "parse", Parsed(raw))
    BY <1>4 DEF Parse
  <2>2. pc'[p] = "parse" /\ plan'[p] = Parsed(raw)
    BY <2>1, GoesOn
  <2>3. PlanOK(p)'
    BY <1>0, <2>2 DEF PlanOK
  <2>4. runs' \in 0 .. MaxRuns
    BY <1>4, StartsWithinBound DEF Parse
  <2>5. TodoOK(p)'
    BY <1>4, <2>2, NothingToSend DEF Parse, Starts
  <2> QED
    BY <1>0, <1>4, <2>1, <2>3, <2>4, <2>5, OneGoesOn DEF Parse
<1>5. CASE WritePart(p)
  <2>1. PICK r \in Raws : plan[p] = Parsed(r)
    BY <1>0, <1>5 DEF WritePart, PlanOK
  <2>2. Goes(p, "parsing", plan[p]) /\ parsed' \in Cuts(plan[p])
    BY <1>5 DEF WritePart
  <2>3. IsGraphFile(parsed')
    BY <2>1, <2>2 DEF IsGraphFile
  <2>4. pc'[p] = "parsing" /\ plan'[p] = Parsed(r)
    BY <2>1, <2>2, GoesOn
  <2>5. PlanOK(p)'
    BY <2>4 DEF PlanOK
  <2>6. TodoOK(p)'
    BY <1>5, <2>4, NothingToSend DEF WritePart
  <2> QED
    BY <1>0, <1>5, <2>2, <2>3, <2>5, <2>6, OneGoesOn DEF WritePart
<1>6. CASE WriteParsed(p)
  <2>1. PICK r \in Raws : plan[p] = Parsed(r)
    BY <1>0, <1>6 DEF WriteParsed, PlanOK
  <2>2. Goes(p, "idle", NoGraph) /\ parsed' = Parsed(r)
    BY <1>6, <2>1 DEF WriteParsed
  <2>3. IsGraphFile(parsed')
    BY <2>2 DEF IsGraphFile
  <2>4. pc'[p] = "idle"
    BY <2>2, GoesOn
  <2>5. PlanOK(p)'
    BY <2>4 DEF PlanOK
  <2>6. TodoOK(p)'
    BY <1>6, <2>4, NothingToSend DEF WriteParsed
  <2> QED
    BY <1>0, <1>6, <2>2, <2>3, <2>5, <2>6, OneGoesOn DEF WriteParsed
<1>7. CASE Sync(p)
  <2>1. Goes(p, "read", [parsed |-> parsed, inferred |-> OrEmpty(inferred)])
    BY <1>7 DEF Sync
  <2>2. IsGraphFile(parsed) /\ OrEmpty(inferred) \in Inferences \cup {NoGraph}
    BY <1>0, <1>7 DEF Sync, TypeOK, OrEmpty
  <2>3. pc'[p] = "read" /\ plan'[p] = [parsed |-> parsed, inferred |-> OrEmpty(inferred)]
    BY <2>1, GoesOn
  <2>4. PlanOK(p)'
    BY <2>2, <2>3 DEF PlanOK
  <2>5. runs' \in 0 .. MaxRuns
    BY <1>7, StartsWithinBound DEF Sync
  <2>6. TodoOK(p)'
    BY <1>7, <2>3, NothingToSend DEF Sync, Starts
  <2> QED
    BY <1>0, <1>7, <2>1, <2>4, <2>5, <2>6, OneGoesOn DEF Sync
<1>8. CASE Resolve(p)
  <2>1. PICK g : /\ Goes(p, IF g = NoGraph THEN "synced" ELSE "load", g)
                 /\ \A r \in g.rels : IsEdge(r) /\ Ends(r) \subseteq g.nodes
                 /\ todo' = [todo EXCEPT ![p] = Batches(g)]
                 /\ g = NoGraph <=> Batches(g) = {}
    BY <1>8, ResolveIsClosed
  <2>2. pc'[p] = (IF g = NoGraph THEN "synced" ELSE "load") /\ plan'[p] = g
    BY <2>1, GoesOn
  <2>3. PlanOK(p)'
    BY <2>1, <2>2 DEF PlanOK
  <2>4. DOMAIN todo' = Slots /\ todo'[p] = Batches(g) /\ \A q \in Slots \ {p} : todo'[q] = todo[q]
    BY <1>0, <2>1
  <2>5. Batches(plan'[p]) = Batches(g)
    BY <2>2
  <2>6. TodoOK(p)'
    BY <2>1, <2>2, <2>4, <2>5 DEF TodoOK, Batches, NodeScope, EdgeScope
  <2> QED
    BY <1>0, <1>8, <2>1, <2>3, <2>4, <2>6, OneGoesOn DEF Resolve
<1>9. CASE LoadBatch(p)
  <2>1. PICK s \in todo[p] : /\ todo' = [todo EXCEPT ![p] = @ \ {s}]
                             /\ Goes(p, IF todo[p] = {s} THEN "synced" ELSE "load", plan[p])
    BY <1>9 DEF LoadBatch, Sends
  <2>2. pc'[p] = (IF todo[p] = {s} THEN "synced" ELSE "load") /\ plan'[p] = plan[p]
    BY <2>1, GoesOn
  <2>3. PlanOK(p)'
    BY <1>0, <1>9, <2>2 DEF PlanOK, LoadBatch
  <2>4. /\ DOMAIN todo' = Slots /\ todo'[p] = todo[p] \ {s}
        /\ \A q \in Slots \ {p} : todo'[q] = todo[q]
    BY <1>0, <2>1
  <2>5. TodoOK(p)'
    <3>1. todo[p] \subseteq Batches(plan[p])
      BY <1>0, <1>9 DEF TypeOK, TodoOK, LoadBatch
    <3>2. todo[p] = {s} <=> todo'[p] = {}
      BY <2>4
    <3>3. todo'[p] \subseteq Batches(plan'[p])
      BY <2>2, <2>4, <3>1
    <3> QED
      BY <2>2, <3>2, <3>3 DEF TodoOK, Batches, NodeScope, EdgeScope
  <2> QED
    BY <1>0, <1>9, <2>1, <2>3, <2>4, <2>5, OneGoesOn DEF LoadBatch
<1>10. CASE Reset(p)
  <2>1. Goes(p, "idle", NoGraph)
    BY <1>10 DEF Reset
  <2>2. pc'[p] = "idle"
    BY <2>1, GoesOn
  <2>3. PlanOK(p)'
    BY <2>2 DEF PlanOK
  <2>4. runs' \in 0 .. MaxRuns
    BY <1>10, StartsWithinBound DEF Reset
  <2>5. TodoOK(p)'
    BY <1>10, <2>2, NothingToSend DEF Reset, Starts
  <2> QED
    BY <1>0, <1>10, <2>1, <2>3, <2>4, <2>5, OneGoesOn DEF Reset
<1>11. CASE Stop(p)
  <2>1. Goes(p, "idle", NoGraph)
    BY <1>11 DEF Stop
  <2>2. pc'[p] = "idle"
    BY <2>1, GoesOn
  <2>3. PlanOK(p)'
    BY <2>2 DEF PlanOK
  <2>4. DOMAIN todo' = Slots /\ todo'[p] = {} /\ \A q \in Slots \ {p} : todo'[q] = todo[q]
    BY <1>0, <1>11 DEF Stop
  <2>5. TodoOK(p)'
    BY <2>2, <2>4 DEF TodoOK
  <2> QED
    BY <1>0, <1>11, <2>1, <2>3, <2>4, <2>5, OneGoesOn DEF Stop
<1> QED
  BY <1>1, <1>2, <1>3, <1>4, <1>5, <1>6, <1>7, <1>8, <1>9, <1>10, <1>11

LEMMA FilesInvariance == Spec => []FilesInv
<1>1. Init => FilesInv
  <2> SUFFICES ASSUME Init PROVE FilesInv
    OBVIOUS
  <2>1. raw \in Raws /\ decided \in Decisions /\ inferred \in Inferences \cup {NoFile}
    BY DEF Init
  <2>2. IsDictionary(Seeded(raw, Empty, decided))
    BY <2>1, SeededIsDictionary, EmptyIsDictionary, PipelineAssumption
  <2>3. dictionary \in {NoFile, Torn} \/ IsDictionary(dictionary)
    BY <2>2 DEF Init
  <2>4. parsed = NoFile \/ IsGraphFile(parsed)
    BY <2>1 DEF Init, IsGraphFile
  <2>5. \A p \in Slots : PlanOK(p)
    BY DEF Init, PlanOK
  <2>6. TypeOK
    BY <2>1, <2>3, PipelineAssumption DEF Init, TypeOK, TodoOK
  <2> QED
    BY <2>4, <2>5, <2>6 DEF FilesInv, Init
<1>2. FilesInv /\ [Next]_vars => FilesInv'
  <2> SUFFICES ASSUME FilesInv, [Next]_vars PROVE FilesInv'
    OBVIOUS
  <2>1. CASE Around
    BY <2>1, AroundKeepsFiles
  <2>2. CASE \E p \in Slots :
            \/ Seed(p) \/ OpenDictionary(p) \/ WriteDictionary(p)
            \/ Parse(p) \/ WritePart(p) \/ WriteParsed(p)
            \/ Sync(p) \/ Resolve(p) \/ LoadBatch(p)
            \/ Reset(p) \/ Stop(p)
    BY <2>2, CommandsKeepFiles
  <2>3. CASE UNCHANGED vars
    BY <2>3 DEF vars, files, FilesInv, TypeOK, TodoOK, PlanOK, IsGraphFile, Batches, NodeScope, EdgeScope
  <2> QED
    BY <2>1, <2>2, <2>3 DEF Next
<1> QED
  BY <1>1, <1>2, PTL DEF Spec

\* For all documents, inferences and decisions, files and processes keep their shape:
\* in particular seed-concepts writes dictionaries and nothing else.
THEOREM PipelineTypeCorrect == Spec => []TypeOK
  BY FilesInvariance, PTL DEF FilesInv

\* For all documents, inferences and decisions, what is sent to Neo4j joins nodes that
\* are sent with it: no relationship is lost to a MATCH that finds nothing.
THEOREM SyncsAreClosed == Spec => []Closed
<1>1. FilesInv => Closed
  BY DEF FilesInv, PlanOK, Closed, Loading
<1> QED
  BY <1>1, FilesInvariance, PTL

--------------------------------------------------------------------------------
(* Names.                                                                       *)

\* For all spellings, dictionaries and graphs whose dictionary loads, an end point is
\* found at the node it means and at no other, unless the name of a concept is spelled
\* like it.
THEOREM EndPointsAreFound == Spec => []EndsKeepTheirNode
<1>1. FilesInv => EndsKeepTheirNode
  <2> SUFFICES ASSUME FilesInv, NEW p \in Readers, NEW in, in = Resolving(p), Resolves(in),
                      NEW r \in in.parsed.rels \cup in.inferred.rels, NEW e \in Ends(r),
                      {Written(e), InLowerCase(Written(e))} \cap Mistakable(in) = {},
                      NEW n \in Targets(Index(in), e)
               PROVE  n = Meant(in, e)
    BY DEF EndsKeepTheirNode
  <2>1. IsInput(in)
    BY ReadersHaveInput
  <2>2. e.label = "Concept" => e.key \in Names
    BY <2>1 DEF IsInput, Spelt, Concepts
  <2> QED
    BY <2>1, <2>2, TargetIsMeant
<1> QED
  BY <1>1, FilesInvariance, PTL

\* For all spellings, the ones the dictionary does not have become one concept exactly
\* if they have the same key, or the same text where people blocked that key.
THEOREM UnknownSpellingsMeet == Spec => []SpellingsMeet
<1>1. FilesInv => SpellingsMeet
  <2> SUFFICES ASSUME FilesInv, NEW p \in Readers, NEW in, in = Resolving(p),
                      NEW node, node = [x \in Unmatched(in) |-> Normalized(in, x)],
                      NEW m \in Unmatched(in), NEW n \in Unmatched(in)
               PROVE  node[m] = node[n] <=>
                        IF Key[m.key] \in in.blocked \cup {None} THEN Text[m.key] = Text[n.key]
                        ELSE Key[m.key] = Key[n.key]
    BY DEF SpellingsMeet
  <2>1. IsInput(in)
    BY ReadersHaveInput
  <2>2. node[m] = Normalized(in, m) /\ node[n] = Normalized(in, n)
    OBVIOUS
  <2> QED
    BY <2>1, <2>2, SpellingsOfAKeyMeet
<1> QED
  BY <1>1, FilesInvariance, PTL

\* For all dictionaries that were seeded before and after they were taken, decisions
\* hold in every dictionary that loads, and the tags they do not touch have a meaning.
THEOREM NamesKeepTheirMeaning == Spec => NamesAreHonoured
<1>1. FilesInv => JudgmentsHonoured
  <2> SUFFICES ASSUME FilesInv, NEW p \in Readers, NEW in, in = Resolving(p),
                      Loads(in.dictionary, in.blocked), NEW n \in MergedNames(decided)
               PROVE  Meaning(in, Node("Concept", n)) = {decided[n]}
    BY DEF JudgmentsHonoured
  <2>1. in.dictionary = Loaded(OrNew(dictionary), decided) /\ IsDictionary(OrNew(dictionary))
    BY ReadersHaveInput
  <2>2. IsCuration(decided)
    BY PipelineAssumption DEF FilesInv, TypeOK
  <2>3. Canonicals(in.dictionary, in.blocked, n) = {decided[n]}
    BY <2>1, <2>2, JudgmentHolds
  <2> QED
    BY <2>3 DEF Meaning, Node
<1> DEFINE Judged == {Key[n] : n \in DOMAIN decided}
           TagsOf == {raw.tags[t] : t \in DOMAIN raw.tags}
           Settled(p, n) ==
                /\ {Key[n], Key[Bare[n]]} \cap (Judged \cup {None}) = {}
                /\ ~Contested(OrNew(dictionary), n)
                => Canonicals(Loaded(plan'[p], decided), Blocked(decided), n) # {}
           TagStep == \A p \in Slots : Seed(p) => \A n \in TagsOf : Settled(p, n)
<1>2. FilesInv /\ [Next]_vars => [TagStep]_vars
  <2> SUFFICES ASSUME FilesInv, NEW p \in Slots, Seed(p), NEW t \in DOMAIN raw.tags,
                      {Key[raw.tags[t]], Key[Bare[raw.tags[t]]]}
                        \cap ({Key[m] : m \in DOMAIN decided} \cup {None}) = {},
                      ~Contested(OrNew(dictionary), raw.tags[t])
               PROVE  Canonicals(Loaded(plan'[p], decided), Blocked(decided), raw.tags[t]) # {}
    OBVIOUS
  <2>1. IsRaw(raw) /\ IsCuration(decided) /\ IsDictionary(OrNew(dictionary))
    BY EmptyIsDictionary, PipelineAssumption DEF FilesInv, TypeOK, Seed, OrNew
  <2>2. Goes(p, "seed", Seeded(raw, OrNew(dictionary), decided))
    BY DEF Seed
  <2>3. plan'[p] = Seeded(raw, OrNew(dictionary), decided)
    BY <2>2, GoesOn
  <2> QED
    BY <2>1, <2>3, TagHasMeaning
<1>3. [TagStep]_vars <=>
        [\A p \in Slots : Seed(p) =>
            LET judged == {Key[n] : n \in DOMAIN decided} IN
            \A n \in {raw.tags[t] : t \in DOMAIN raw.tags} :
                /\ {Key[n], Key[Bare[n]]} \cap (judged \cup {None}) = {}
                /\ ~Contested(OrNew(dictionary), n)
                => Canonicals(Loaded(plan'[p], decided), Blocked(decided), n) # {}]_vars
  OBVIOUS
<1> HIDE DEF TagStep
<1>4. Spec => TagsResolve
  BY <1>2, <1>3, FilesInvariance, PTL DEF Spec, TagsResolve
<1> QED
  BY <1>1, <1>4, FilesInvariance, PTL DEF NamesAreHonoured

--------------------------------------------------------------------------------
(* What reaches Neo4j.                                                          *)

\* A scope of nodes comes before every scope of relationships.
LEMMA NodesComeFirst ==
    ASSUME NEW n, NEW r
    PROVE  NodeScope(n) # EdgeScope(r) /\ ~Earlier(EdgeScope(r), NodeScope(n))
<1> DEFINE s == EdgeScope(r)
           t == NodeScope(n)
<1>1. s[1] = 1 /\ t[1] = 0 /\ DOMAIN s = 1 .. 4
  BY DEF NodeScope, EdgeScope
<1> HIDE DEF s, t
<1>2. \A i \in DOMAIN s : i # 1 => 1 \in 1 .. i - 1
  BY <1>1
<1>3. ~Earlier(s, t)
  BY <1>1, <1>2 DEF Earlier
<1> QED
  BY <1>1, <1>3 DEF s, t

LEMMA StoredKeepsEnds ==
    ASSUME NEW r, IsEdge(r)
    PROVE  Ends(Stored(r)) = Ends(r)
<1>1. r = [type |-> r.type, start |-> r.start, end |-> r.end, id |-> r.id]
  BY DEF IsEdge, Edge
<1> QED
  BY <1>1 DEF Stored, Ends

\* Steps that leave the graph, the batches and the syncs alone.
LEMMA QuietStep ==
    ASSUME FilesInv, SyncInv,
           neo4j' = neo4j, due' = due, disturbed' = disturbed,
           \A q \in Slots :
              \/ pc'[q] \notin {"load", "synced"}
              \/ pc'[q] = pc[q] /\ plan'[q] = plan[q] /\ todo'[q] = todo[q]
    PROVE  SyncInv'
<1>1. NothingForeign'
  BY DEF SyncInv, NothingForeign
<1>2. ASSUME NEW q \in Slots PROVE SentOK(q)' /\ DueOK(q)'
  BY DEF SyncInv, SentOK, DueOK
<1> QED
  BY <1>1, <1>2 DEF SyncInv

\* A sync that has resolved has everything still to send.
LEMMA ResolveIsDue ==
    ASSUME FilesInv, SyncInv, NEW p \in Slots, Resolve(p)
    PROVE  SyncInv'
<1>1. PICK g : /\ Goes(p, IF g = NoGraph THEN "synced" ELSE "load", g)
               /\ todo' = [todo EXCEPT ![p] = Batches(g)]
               /\ due' = Union(due, g)
  BY ResolveIsClosed
<1>2. /\ plan'[p] = g /\ pc'[p] = IF g = NoGraph THEN "synced" ELSE "load"
      /\ \A q \in Slots \ {p} : pc'[q] = pc[q] /\ plan'[q] = plan[q]
  BY <1>1, GoesOn
<1>3. neo4j' = neo4j /\ \A q \in Slots \ {p} : disturbed'[q] = disturbed[q]
  BY DEF Resolve, FilesInv, TypeOK
<1>4. todo'[p] = Batches(g) /\ \A q \in Slots \ {p} : todo'[q] = todo[q]
  BY <1>1 DEF FilesInv
<1>5. /\ due.nodes \subseteq due'.nodes /\ due.rels \subseteq due'.rels
      /\ g.nodes \subseteq due'.nodes /\ g.rels \subseteq due'.rels
  BY <1>1 DEF Union
<1>6. NothingForeign'
  BY <1>3, <1>5 DEF SyncInv, NothingForeign
<1>7. ASSUME NEW q \in Slots \ {p} PROVE SentOK(q)' /\ DueOK(q)'
  BY <1>2, <1>3, <1>4, <1>5 DEF SyncInv, SentOK, DueOK
<1>8. SentOK(p)'
  <2>1. /\ \A n \in g.nodes : NodeScope(n) \in Batches(g)
        /\ \A r \in g.rels : EdgeScope(r) \in Batches(g)
    BY DEF Batches
  <2>2. g = NoGraph => Batches(g) = {}
    BY DEF Batches, NoGraph
  <2> QED
    BY <1>2, <1>4, <2>1, <2>2 DEF SentOK
<1>9. DueOK(p)'
  BY <1>2, <1>5 DEF DueOK
<1> QED
  BY <1>6, <1>7, <1>8, <1>9 DEF SyncInv

\* A batch that is sent leaves nothing of its scope behind: relationships are sent
\* when all nodes are there.
LEMMA BatchArrives ==
    ASSUME FilesInv, SyncInv, NEW p \in Slots, LoadBatch(p)
    PROVE  SyncInv'
<1> DEFINE g == plan[p]
<1>1. PICK s \in todo[p] :
        /\ \A t \in todo[p] \ {s} : Earlier(s, t)
        /\ neo4j' = Merge(neo4j, Batch(g, s))
        /\ todo' = [todo EXCEPT ![p] = @ \ {s}]
        /\ Goes(p, IF todo[p] = {s} THEN "synced" ELSE "load", g)
  BY DEF LoadBatch, Sends
<1>2. /\ pc[p] = "load" /\ due' = due /\ disturbed' = disturbed
      /\ \A r \in g.rels : IsEdge(r) /\ Ends(r) \subseteq g.nodes
      /\ g.nodes \subseteq due.nodes /\ g.rels \subseteq due.rels
  BY DEF LoadBatch, Sends, FilesInv, PlanOK, SyncInv, DueOK
<1>3. /\ plan'[p] = g /\ pc'[p] = IF todo[p] = {s} THEN "synced" ELSE "load"
      /\ \A q \in Slots \ {p} : pc'[q] = pc[q] /\ plan'[q] = plan[q]
  BY <1>1, GoesOn
<1>4. todo'[p] = todo[p] \ {s} /\ \A q \in Slots \ {p} : todo'[q] = todo[q]
  BY <1>1 DEF FilesInv
<1> DEFINE sent == {x \in g.rels : EdgeScope(x) = s /\ Ends(x) \subseteq neo4j.nodes}
<1>5. /\ neo4j'.nodes = neo4j.nodes \cup {n \in g.nodes : NodeScope(n) = s}
      /\ neo4j'.rels = neo4j.rels \cup {Stored(r) : r \in sent}
  BY <1>1 DEF Merge, Batch
<1>6. NothingForeign'
  <2>1. neo4j'.nodes \subseteq due'.nodes
    BY <1>2, <1>5 DEF SyncInv, NothingForeign
  <2>2. neo4j'.rels \subseteq {Stored(r) : r \in due'.rels}
    BY <1>2, <1>5 DEF SyncInv, NothingForeign
  <2>3. \A r \in sent : Ends(Stored(r)) \subseteq neo4j.nodes
    BY <1>2, StoredKeepsEnds
  <2>4. \A r \in neo4j'.rels : Ends(r) \subseteq neo4j'.nodes
    BY <1>5, <2>3 DEF SyncInv, NothingForeign
  <2> QED
    BY <2>1, <2>2, <2>4 DEF NothingForeign
<1>7. ASSUME NEW q \in Slots \ {p} PROVE SentOK(q)' /\ DueOK(q)'
  BY <1>2, <1>3, <1>4, <1>5 DEF SyncInv, SentOK, DueOK
<1>8. DueOK(p)'
  BY <1>2, <1>3 DEF DueOK
<1>9. SentOK(p)'
  <2>1. pc'[p] = "synced" => todo'[p] = {}
    BY <1>3, <1>4
  <2>2. SUFFICES ASSUME ~disturbed[p]
                 PROVE  /\ \A n \in g.nodes : NodeScope(n) \in todo'[p] \/ n \in neo4j'.nodes
                        /\ \A r \in g.rels : EdgeScope(r) \in todo'[p] \/ Stored(r) \in neo4j'.rels
    BY <1>2, <1>3, <2>1 DEF SentOK
  <2>3. /\ \A n \in g.nodes : NodeScope(n) \in todo[p] \/ n \in neo4j.nodes
        /\ \A r \in g.rels : EdgeScope(r) \in todo[p] \/ Stored(r) \in neo4j.rels
    BY <1>2, <2>2 DEF SyncInv, SentOK
  <2>4. \A n \in g.nodes : NodeScope(n) \in todo'[p] \/ n \in neo4j'.nodes
    BY <1>4, <1>5, <2>3
  <2>5. ASSUME NEW r \in g.rels, EdgeScope(r) = s
        PROVE  Stored(r) \in neo4j'.rels
    <3>1. \A n \in g.nodes : NodeScope(n) \notin todo[p]
      BY <1>1, <2>5, NodesComeFirst
    <3>2. Ends(r) \subseteq neo4j.nodes
      BY <1>2, <2>3, <3>1
    <3> QED
      BY <1>5, <2>5, <3>2
  <2>6. \A r \in g.rels : EdgeScope(r) \in todo'[p] \/ Stored(r) \in neo4j'.rels
    BY <1>4, <1>5, <2>3, <2>5
  <2> QED
    BY <2>4, <2>6
<1> QED
  BY <1>6, <1>7, <1>8, <1>9 DEF SyncInv

LEMMA ResetForgets ==
    ASSUME FilesInv, SyncInv, NEW p \in Slots, Reset(p)
    PROVE  SyncInv'
<1>1. Goes(p, "idle", NoGraph) /\ pc[p] # "load"
  BY DEF Reset, Starts
<1>2. /\ pc'[p] = "idle"
      /\ \A q \in Slots \ {p} : pc'[q] = pc[q] /\ plan'[q] = plan[q]
  BY <1>1, GoesOn
<1>3. /\ neo4j' = NoGraph /\ todo' = todo /\ \A q \in Slots : disturbed'[q]
      /\ due' = [nodes |-> UNION {plan[q].nodes : q \in Loading},
                 rels |-> UNION {plan[q].rels : q \in Loading}]
  BY DEF Reset
<1>4. NothingForeign'
  BY <1>3 DEF NothingForeign, NoGraph
<1>5. ASSUME NEW q \in Slots PROVE SentOK(q)'
  BY <1>2, <1>3 DEF SyncInv, SentOK
<1>6. ASSUME NEW q \in Slots PROVE DueOK(q)'
  <2> SUFFICES ASSUME pc'[q] = "load"
               PROVE  plan'[q].nodes \subseteq due'.nodes /\ plan'[q].rels \subseteq due'.rels
    BY DEF DueOK
  <2>1. q \in Loading /\ plan'[q] = plan[q]
    BY <1>2 DEF Loading
  <2> QED
    BY <1>3, <2>1
<1> QED
  BY <1>4, <1>5, <1>6 DEF SyncInv

LEMMA SyncStep ==
    ASSUME FilesInv, SyncInv, [Next]_vars
    PROVE  SyncInv'
<1> USE DEF files
<1>1. CASE Around
  <2>1. /\ neo4j' = neo4j /\ due' = due /\ disturbed' = disturbed
        /\ pc' = pc /\ plan' = plan /\ todo' = todo
    BY <1>1 DEF Around, Fetch, Decide, Infer
  <2> QED
    BY <2>1, QuietStep
<1>2. ASSUME NEW p \in Slots,
             \/ Seed(p) \/ OpenDictionary(p) \/ WriteDictionary(p)
             \/ Parse(p) \/ WritePart(p) \/ WriteParsed(p) \/ Sync(p) \/ Stop(p)
      PROVE  SyncInv'
  <2>1. /\ neo4j' = neo4j /\ due' = due /\ disturbed' = disturbed
        /\ \A q \in Slots \ {p} : todo'[q] = todo[q]
    BY <1>2 DEF Seed, OpenDictionary, WriteDictionary, Parse, WritePart, WriteParsed, Sync, Stop, FilesInv
  <2>2. \E where \in {"idle", "seed", "seeding", "parse", "parsing", "read"} : \E x : Goes(p, where, x)
    BY <1>2 DEF Seed, OpenDictionary, WriteDictionary, Parse, WritePart, WriteParsed, Sync, Stop
  <2>3. PICK where \in {"idle", "seed", "seeding", "parse", "parsing", "read"} : \E x : Goes(p, where, x)
    BY <2>2
  <2>4. PICK x : Goes(p, where, x)
    BY <2>3
  <2>5. /\ pc'[p] = where
        /\ \A q \in Slots \ {p} : pc'[q] = pc[q] /\ plan'[q] = plan[q]
    BY <2>4, GoesOn
  <2>6. \A q \in Slots :
            \/ pc'[q] \notin {"load", "synced"}
            \/ pc'[q] = pc[q] /\ plan'[q] = plan[q] /\ todo'[q] = todo[q]
    BY <2>1, <2>5
  <2> QED
    BY <2>1, <2>6, QuietStep
<1>3. ASSUME NEW p \in Slots, Resolve(p) \/ LoadBatch(p) \/ Reset(p)
      PROVE  SyncInv'
  BY <1>3, ResolveIsDue, BatchArrives, ResetForgets
<1>4. CASE UNCHANGED vars
  BY <1>4, QuietStep DEF vars
<1> QED
  BY <1>1, <1>2, <1>3, <1>4 DEF Next

\* For all numbers of processes, batches and stops: what a sync has ended with is in
\* Neo4j, and nothing is there that no sync resolved since the graph was deleted.
THEOREM SyncsAddUp == Spec => []SyncIsExact
<1>1. Init => SyncInv
  <2> SUFFICES ASSUME Init PROVE SyncInv
    OBVIOUS
  <2>1. NothingForeign
    BY DEF Init, NothingForeign, NoGraph
  <2>2. \A p \in Slots : SentOK(p) /\ DueOK(p)
    BY DEF Init, SentOK, DueOK
  <2> QED
    BY <2>1, <2>2 DEF SyncInv
<1>2. FilesInv /\ SyncInv /\ [Next]_vars => SyncInv'
  BY SyncStep
<1>3. SyncInv => SyncIsExact
  <2> SUFFICES ASSUME SyncInv, NEW p \in Slots, pc[p] = "synced", ~disturbed[p]
               PROVE  /\ plan[p].nodes \subseteq neo4j.nodes
                      /\ {Stored(r) : r \in plan[p].rels} \subseteq neo4j.rels
    BY DEF SyncIsExact, SyncComplete, SyncInv
  <2>1. SentOK(p) /\ todo[p] = {}
    BY DEF SyncInv, SentOK
  <2> QED
    BY <2>1 DEF SentOK
<1> QED
  BY <1>1, <1>2, <1>3, FilesInvariance, PTL DEF Spec
================================================================================
