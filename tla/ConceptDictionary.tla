--------------------------- MODULE ConceptDictionary ---------------------------
(* The Concept dictionary: how seed-concepts grows it from the raw documents    *)
(* (concepts/concept-seeder.ts), how it is composed with what people decided    *)
(* (concepts/dictionary.ts), and what a name means by it                        *)
(* (resolve/concept-alias.ts, packages/shared/src/concept).                     *)
(*                                                                              *)
(* A dictionary is a function from canonical names to their aliases; the kind   *)
(* of an entry is left out. A curation is a function from judged names to the   *)
(* canonical name they are merged into, or to Block.                            *)
EXTENDS Naturals, FiniteSets

CONSTANTS
    Spelling,   \* what the normalizations make of each spelling
    None,       \* no name: an empty key
    Block,      \* the decision that a spelling is not merged automatically
    Core        \* CORE_CONCEPTS

Names == DOMAIN Spelling

\* normalizeText: case and white space; normalizeConceptKey: punctuation, too
Text == [n \in Names |-> Spelling[n].text]
Key == [n \in Names |-> Spelling[n].key]

\* Code-point order.
Rank == [n \in Names |-> Spelling[n].rank]

\* A tag without its dimension: "1: Foo" is Foo.
Bare == [n \in Names |-> Spelling[n].bare]

\* The alias of a dotted name with blanks for its dots, and the texts of its parts.
Spaced == [n \in Names |-> Spelling[n].spaced]
Parts == [n \in Names |-> Spelling[n].parts]

ASSUME NameAssumption ==
    /\ None \notin Names /\ Block \notin Names \cup {None}
    /\ Spelling \in [Names -> [text : Names, key : Names \cup {None}, rank : Nat, bare : Names,
                               spaced : SUBSET Names, parts : SUBSET Names]]
    /\ \A n \in Names :
        /\ Text[Text[n]] = Text[n] /\ Key[Text[n]] = Key[n]
        /\ Key[n] # None => Text[Key[n]] = Key[n] /\ Key[Key[n]] = Key[n]
        \* a dimension is a digit in front of the name
        /\ Bare[n] # n => Key[n] \notin {None, Key[Bare[n]]}
        /\ \A a \in Spaced[n] : Key[a] = Key[n]
    /\ \A m, n \in Names :
        /\ Rank[m] = Rank[n] => m = n
        /\ Text[m] = Text[n] => Key[Bare[m]] = Key[Bare[n]]
        \* a part of a name is no longer than the name
        /\ Bare[n] # n /\ Key[m] = Key[Bare[n]] => Text[n] \notin Parts[m]

IsDictionary(d) == DOMAIN d \subseteq Names /\ d \in [DOMAIN d -> SUBSET Names]

ASSUME CoreAssumption == IsDictionary(Core)

Empty == [c \in {} |-> {}]

AliasesIn(d, c) == IF c \in DOMAIN d THEN d[c] ELSE {}

\* mergeEntry, mergeConcept, and [...CORE_CONCEPTS, ...generated]
Merged(d, e) == [c \in DOMAIN d \cup DOMAIN e |-> AliasesIn(d, c) \cup AliasesIn(e, c)]

--------------------------------------------------------------------------------
(* What people decided. No two judged names have the same key.                  *)

IsCuration(cur) ==
    /\ DOMAIN cur \subseteq Names
    /\ cur \in [DOMAIN cur -> Names \cup {Block}]
    /\ \A m, n \in DOMAIN cur : Key[m] # None /\ (Key[m] = Key[n] => m = n)

Blocked(cur) == {Key[n] : n \in {m \in DOMAIN cur : cur[m] = Block}}

MergedNames(cur) == {n \in DOMAIN cur : cur[n] # Block}

Merges(cur) ==
    [c \in {cur[n] : n \in MergedNames(cur)} |-> {n \in MergedNames(cur) : cur[n] = c}]

\* The key a judged alias belongs to, or None.
JudgedOwner(cur, k) ==
    IF k \in {Key[n] : n \in MergedNames(cur)}
    THEN Key[cur[CHOOSE n \in MergedNames(cur) : Key[n] = k]] ELSE None

\* An entry under a judged alias goes, with its other aliases; judged aliases
\* leave the entries they do not belong to and appear where they belong.
Composed(d, cur) ==
    IF DOMAIN cur = {} THEN d
    ELSE LET Fits(n, c) == JudgedOwner(cur, Key[n]) \in {None, Key[c]}
         IN Merged([c \in {b \in DOMAIN d : Fits(b, b)} |-> {a \in d[c] : Fits(a, c)}],
                   Merges(cur))

Loaded_Uncurated(d, cur) == Merged(Core, d)

Loaded(d, cur) == Composed(Merged(Core, d), cur)

--------------------------------------------------------------------------------
(* What a name means: its text decides, then its key unless it is blocked.      *)

Spellings(d, c) == {c} \cup d[c]

ExactOwners(d, t) == {c \in DOMAIN d : \E n \in Spellings(d, c) : Text[n] = t}

KeyOwners(d, k) == {c \in DOMAIN d : \E n \in Spellings(d, c) : Key[n] = k}

AllSpellings(d) == UNION {Spellings(d, c) : c \in DOMAIN d}

Several(S) == \E a, b \in S : a # b

\* The keys that stop buildConceptAliasMap.
ExactConflicts(d) == {t \in {Text[n] : n \in AllSpellings(d)} : Several(ExactOwners(d, t))}

KeyConflicts(d, blocked) ==
    {k \in {Key[n] : n \in AllSpellings(d)} \ (blocked \cup {None}) :
        ExactOwners(d, k) = {} /\ Several(KeyOwners(d, k))}

Loads(d, blocked) == ExactConflicts(d) = {} /\ KeyConflicts(d, blocked) = {}

\* The canonical name of n: none, or one when the dictionary loads.
Canonicals(d, blocked, n) ==
    IF ExactOwners(d, Text[n]) # {} THEN ExactOwners(d, Text[n])
    ELSE IF Key[n] \in blocked \cup {None} THEN {}
    ELSE IF ExactOwners(d, Key[n]) # {} THEN ExactOwners(d, Key[n])
    ELSE KeyOwners(d, Key[n])

--------------------------------------------------------------------------------
(* seed-concepts.                                                               *)

Entry(c, aliases) == [canonical |-> c, aliases |-> aliases]

TagEntry_NoAlias(n) == Entry(Bare[n], {})

TagEntry(n) == Entry(Bare[n], {n} \ {Bare[n]})

\* Tags, the prefixes of task titles, and the names in wiki titles that are not
\* judged to be aliases.
Generated(raw, cur) ==
    {TagEntry(n) : n \in {raw.tags[t] : t \in DOMAIN raw.tags}}
      \cup {Entry(p.prefix, {}) : p \in {q \in raw.posts : q.prefix # None}}
      \cup {Entry(n, {}) : n \in {m \in UNION {w.title : w \in raw.wikis} :
                                    Key[m] \notin {Key[j] : j \in MergedNames(cur)}}}

First(S) == CHOOSE n \in S : \A m \in S : Rank[n] <= Rank[m]

\* One spelling per key: an existing entry's, else the first generated one.
Winner(existing, generated, blocked, n) ==
    LET SameKey(e) == Key[e.canonical] = Key[n]
        old == {e.canonical : e \in {x \in existing : SameKey(x)}}
        new == {e.canonical : e \in {x \in generated : SameKey(x)}}
    IN IF Key[n] \in blocked \cup {None} THEN n
       ELSE IF old # {} THEN First(old) ELSE First(new)

\* An alias that is another entry's name or alias, or a part of a dotted name, goes,
\* unless it was judged.
Unconflicted(d, cur) ==
    LET Other(a, c) == \E b \in DOMAIN d \ {c} : Text[a] \in {Text[n] : n \in Spellings(d, b)}
        Keeps(c, a) == LET owner == JudgedOwner(cur, Key[a]) IN
                       IF owner # None THEN owner = Key[c]
                       ELSE Text[a] \notin Parts[c] /\ ~Other(a, c)
    IN [c \in DOMAIN d |-> {a \in d[c] : Keeps(c, a)}]

Seeded(raw, d, cur) ==
    LET existing == {Entry(c, d[c]) : c \in DOMAIN d}
        generated == Generated(raw, cur)
        Name(e) == Winner(existing, generated, Blocked(cur), e.canonical)
        all == existing \cup generated
        merged == [c \in {Name(e) : e \in all} |->
                     Spaced[c] \cup UNION {e.aliases : e \in {x \in all : Name(x) = c}}]
    IN Composed(Unconflicted(merged, cur), cur)
================================================================================
