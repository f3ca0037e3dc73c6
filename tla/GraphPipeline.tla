----------------------------- MODULE GraphPipeline -----------------------------
(* The commands that make the knowledge graph: seed-concepts, parse-structure,  *)
(* sync-neo4j and reset-neo4j as processes over the files of a project, the     *)
(* registry and Neo4j, beside what changes these: fetch-dooray, infer-knowledge *)
(* and the commands of the registry.                                            *)
(*                                                                              *)
(* Files are written in place: a command that is killed, or one that reads in   *)
(* between, meets a part of a file. A batch is a transaction of its own.        *)
EXTENDS ResolvedGraph

CONSTANTS
    Slots,          \* processes
    Raws,           \* what fetch-dooray may have collected
    Inferences,     \* what infer-knowledge may have written
    Decisions,      \* what the registry may hold
    NoFile, Torn,   \* a file that is not there, or not readable as JSON
    Halves(_),      \* bound: what a half-written file of a graph may hold
    MaxRuns,        \* bound: commands that are started
    MaxChanges      \* bound: times that documents, inferences or decisions change

\* Every concept has a spelling for its key.
Spelt(nodes) == \A n \in Concepts(nodes) : n.key \in Names

\* Documents are finitely many, and what they call a concept is a spelling.
IsRaw(r) ==
    /\ IsFiniteSet(r.posts) /\ IsFiniteSet(r.wikis) /\ IsFiniteSet(r.listed)
    /\ {r.tags[t] : t \in DOMAIN r.tags} \subseteq Names
    /\ \A p \in r.posts : p.prefix \in Names \cup {None}
    /\ \A w \in r.wikis : w.title \subseteq Names
    /\ IsFiniteSet(Parsed(r).rels)
    /\ Spelt(Parsed(r).nodes) /\ \A x \in Parsed(r).rels : Spelt(Ends(x))

IsInference(i) ==
    /\ i = [nodes |-> i.nodes, rels |-> i.rels]
    /\ IsFiniteSet(i.nodes) /\ IsFiniteSet(i.rels)
    /\ Spelt(i.nodes) /\ \A x \in i.rels : {"start", "end"} \subseteq DOMAIN x /\ Spelt(Ends(x))

ASSUME PipelineAssumption ==
    /\ \A r \in Raws : IsRaw(r)
    /\ \A i \in Inferences : IsInference(i)
    /\ \A cur \in Decisions : IsCuration(cur)
    /\ Empty \in Decisions
    /\ MaxRuns \in Nat /\ MaxChanges \in Nat
    /\ Torn # NoFile

VARIABLES
    raw,            \* data/raw/<project>
    decided,        \* the decisions in the registry
    dictionary,     \* data/concepts/<project>.json
    parsed,         \* graph/<project>/parsed.jsonl
    inferred,       \* graph/<project>/inferred.jsonl
    neo4j,          \* the graph
    pc,             \* where each process is
    plan,           \* what it is to write, or has read
    todo,           \* scopes of the batches a sync has yet to send
    disturbed,      \* history: the graph was deleted during the sync
    due,            \* history: what syncs may have written since the last reset
    runs,           \* history: commands started
    changes         \* history: changes around them

files == <<raw, decided, dictionary, parsed, inferred>>
vars == <<files, neo4j, pc, plan, todo, disturbed, due, runs, changes>>

NoGraph == [nodes |-> {}, rels |-> {}]

Union(g, h) == [nodes |-> g.nodes \cup h.nodes, rels |-> g.rels \cup h.rels]

\* Nodes come first in parsed.jsonl.
IsPart(h, g) ==
    /\ h.nodes \subseteq g.nodes /\ h.rels \subseteq g.rels
    /\ h.rels # {} => h.nodes = g.nodes

\* parsed.jsonl cut off somewhere. (One that is cut off in a record only keeps a sync
\* from starting.)
Cuts(g) == {h \in Halves(g) : IsPart(h, g)}

--------------------------------------------------------------------------------
(* What sync-neo4j makes of the files: readResolveInput, resolveGraph.          *)

\* An inferred.jsonl or a dictionary that is not there is an empty one.
OrEmpty(i) == IF i = NoFile THEN NoGraph ELSE i
OrNew(d) == IF d = NoFile THEN Empty ELSE d

Input(p, i, d, cur, r) ==
    [parsed |-> p,
     inferred |-> [i EXCEPT !.rels = Sanitized(r, i.rels)],
     dictionary |-> Loaded(OrNew(d), cur),
     blocked |-> Blocked(cur)]

Labels == <<"Project", "Task", "Wiki", "Person", "Comment", "Concept", "Decision">>

Types == <<"CONTAINS", "ASSIGNED_TO", "AUTHORED", "COMMENTED", "HAS_COMMENT", "TAGGED",
           "REFERENCES", "CHILD_OF", "MENTIONS", "DOCUMENTS", "DEPENDS_ON", "DECIDED_IN",
           "EVIDENCED_BY", "AFFECTS", "RELATES_TO">>

\* RELATIONSHIP_IDENTITY_PROPERTIES
Identified == {"ASSIGNED_TO", "TAGGED", "RELATES_TO"}

Place(seq, x) == CHOOSE i \in DOMAIN seq : seq[i] = x

\* What one statement sends: the nodes of a label, or the relationships of a type
\* with the labels of both ends. A scope is its place in the loops of mergeNodes and,
\* after it, mergeRelationships.
NodeScope_Last(n) == <<2, Place(Labels, n.label)>>

NodeScope(n) == <<0, Place(Labels, n.label)>>

EdgeScope(r) == <<1, Place(Types, r.type), Place(Labels, r.start.label), Place(Labels, r.end.label)>>

Earlier(s, t) == \E i \in DOMAIN s : (\A j \in 1 .. i - 1 : s[j] = t[j]) /\ s[i] < t[i]

Batch(g, s) ==
    [nodes |-> {n \in g.nodes : NodeScope(n) = s}, rels |-> {r \in g.rels : EdgeScope(r) = s}]

\* Nothing is sent for a scope without rows.
Batches(g) == {NodeScope(n) : n \in g.nodes} \cup {EdgeScope(r) : r \in g.rels}

\* MERGE of nodes; MATCH of both ends and MERGE of relationships, by the property
\* that identifies them if their type has one.
Stored(r) == IF r.type \in Identified THEN r ELSE [r EXCEPT !.id = NoName]

Merge_Turned(db, batch) ==
    [nodes |-> db.nodes \cup batch.nodes,
     rels |-> db.rels \cup {Stored([r EXCEPT !.start = r.end, !.end = r.start]) :
                               r \in {x \in batch.rels : Ends(x) \subseteq db.nodes}}]

Merge(db, batch) ==
    [nodes |-> db.nodes \cup batch.nodes,
     rels |-> db.rels \cup {Stored(r) : r \in {x \in batch.rels : Ends(x) \subseteq db.nodes}}]

--------------------------------------------------------------------------------
Init ==
    /\ raw \in Raws /\ decided \in Decisions /\ inferred \in Inferences \cup {NoFile}
    /\ \/ dictionary = NoFile /\ parsed = NoFile
       \/ dictionary = Seeded(raw, Empty, decided) /\ parsed = Parsed(raw)
    /\ neo4j = NoGraph
    /\ pc = [p \in Slots |-> "idle"]
    /\ plan = [p \in Slots |-> NoGraph]
    /\ todo = [p \in Slots |-> {}]
    /\ disturbed = [p \in Slots |-> FALSE]
    /\ due = NoGraph
    /\ runs = 0 /\ changes = 0

Goes(p, where, what) ==
    /\ pc' = [pc EXCEPT ![p] = where]
    /\ plan' = [plan EXCEPT ![p] = what]

Starts(p) ==
    /\ pc[p] \in {"idle", "synced"} /\ runs < MaxRuns
    /\ runs' = runs + 1

--------------------------------------------------------------------------------
(* Around the commands.                                                         *)

Changes == changes < MaxChanges /\ changes' = changes + 1

\* fetch-dooray: documents stay, the lists of tags and members are written anew.
Fetch ==
    /\ Changes
    /\ \E r \in Raws :
        /\ raw.posts \subseteq r.posts /\ raw.wikis \subseteq r.wikis /\ raw' = r
    /\ UNCHANGED <<decided, dictionary, parsed, inferred, neo4j, pc, plan, todo, disturbed, due, runs>>

\* import-curation
Decide ==
    /\ Changes
    /\ \E cur \in Decisions : decided' = cur
    /\ UNCHANGED <<raw, dictionary, parsed, inferred, neo4j, pc, plan, todo, disturbed, due, runs>>

\* infer-knowledge; a file that is not readable yet only keeps a sync from starting
Infer ==
    /\ Changes
    /\ \E i \in Inferences : inferred' = i
    /\ UNCHANGED <<raw, decided, dictionary, parsed, neo4j, pc, plan, todo, disturbed, due, runs>>

Around == Fetch \/ Decide \/ Infer
--------------------------------------------------------------------------------
(* seed-concepts and parse-structure.                                           *)

\* An existing dictionary that cannot be read stops the command.
Seed(p) ==
    /\ Starts(p)
    /\ dictionary # Torn
    /\ Goes(p, "seed", Seeded(raw, OrNew(dictionary), decided))
    /\ UNCHANGED <<files, neo4j, todo, disturbed, due, changes>>

OpenDictionary(p) ==
    /\ pc[p] = "seed"
    /\ dictionary' = Torn
    /\ Goes(p, "seeding", plan[p])
    /\ UNCHANGED <<raw, decided, parsed, inferred, neo4j, todo, disturbed, due, runs, changes>>

WriteDictionary(p) ==
    /\ pc[p] = "seeding"
    /\ dictionary' = plan[p]
    /\ Goes(p, "idle", NoGraph)
    /\ UNCHANGED <<raw, decided, parsed, inferred, neo4j, todo, disturbed, due, runs, changes>>

Parse(p) ==
    /\ Starts(p)
    /\ Goes(p, "parse", Parsed(raw))
    /\ UNCHANGED <<files, neo4j, todo, disturbed, due, changes>>

WritePart(p) ==
    /\ pc[p] = "parse"
    /\ \E g \in Cuts(plan[p]) : parsed' = g
    /\ Goes(p, "parsing", plan[p])
    /\ UNCHANGED <<raw, decided, dictionary, inferred, neo4j, todo, disturbed, due, runs, changes>>

WriteParsed(p) ==
    /\ pc[p] = "parsing"
    /\ parsed' = plan[p]
    /\ Goes(p, "idle", NoGraph)
    /\ UNCHANGED <<raw, decided, dictionary, inferred, neo4j, todo, disturbed, due, runs, changes>>

--------------------------------------------------------------------------------
(* sync-neo4j: reads the graphs, then the registry, the dictionary and the raw  *)
(* documents; resolves; sends one batch after the other.                        *)

Sync(p) ==
    /\ Starts(p)
    /\ parsed # NoFile
    /\ Goes(p, "read", [parsed |-> parsed, inferred |-> OrEmpty(inferred)])
    /\ UNCHANGED <<files, neo4j, todo, disturbed, due, changes>>

Resolve(p) ==
    /\ pc[p] = "read"
    /\ dictionary # Torn
    /\ \E in \in {Input(plan[p].parsed, plan[p].inferred, dictionary, decided, raw)} :
        /\ Resolves(in)
        /\ \E index \in {Index(in)} :
            /\ Unresolved(index, in.parsed.rels) = {}
            /\ \E g \in {Resolved(in, index)} :
                /\ Goes(p, IF g = NoGraph THEN "synced" ELSE "load", g)
                /\ todo' = [todo EXCEPT ![p] = Batches(g)]
                /\ due' = Union(due, g)
    /\ disturbed' = [disturbed EXCEPT ![p] = FALSE]
    /\ UNCHANGED <<files, neo4j, runs, changes>>

Sends(p, s) ==
    /\ s \in todo[p] /\ \A t \in todo[p] \ {s} : Earlier(s, t)
    /\ neo4j' = Merge(neo4j, Batch(plan[p], s))
    /\ todo' = [todo EXCEPT ![p] = @ \ {s}]

LoadBatch_OneShort(p) ==
    /\ pc[p] = "load"
    /\ \E s \in todo[p] :
        /\ Sends(p, s)
        /\ Goes(p, IF \E t \in todo[p] : todo[p] \subseteq {s, t} THEN "synced" ELSE "load", plan[p])
    /\ UNCHANGED <<files, disturbed, due, runs, changes>>

\* After the last batch only counts are read.
LoadBatch(p) ==
    /\ pc[p] = "load"
    /\ \E s \in todo[p] :
        /\ Sends(p, s)
        /\ Goes(p, IF todo[p] = {s} THEN "synced" ELSE "load", plan[p])
    /\ UNCHANGED <<files, disturbed, due, runs, changes>>

--------------------------------------------------------------------------------
(* reset-neo4j, once --force and the port were accepted: between two counts, one *)
(* transaction deletes everything.                                              *)

Loading == {p \in Slots : pc[p] = "load"}

Reset(p) ==
    /\ Starts(p)
    /\ neo4j' = NoGraph
    /\ disturbed' = [q \in Slots |-> TRUE]
    /\ due' = [nodes |-> UNION {plan[q].nodes : q \in Loading},
               rels |-> UNION {plan[q].rels : q \in Loading}]
    /\ Goes(p, "idle", NoGraph)
    /\ UNCHANGED <<files, todo, changes>>

\* An error or a signal ends a command where it is.
Stop(p) ==
    /\ pc[p] \notin {"idle", "synced"}
    /\ Goes(p, "idle", NoGraph)
    /\ todo' = [todo EXCEPT ![p] = {}]
    /\ UNCHANGED <<files, neo4j, disturbed, due, runs, changes>>

Next ==
    \/ Around
    \/ \E p \in Slots :
        \/ Seed(p) \/ OpenDictionary(p) \/ WriteDictionary(p)
        \/ Parse(p) \/ WritePart(p) \/ WriteParsed(p)
        \/ Sync(p) \/ Resolve(p) \/ LoadBatch(p)
        \/ Reset(p) \/ Stop(p)

Spec == Init /\ [][Next]_vars

--------------------------------------------------------------------------------
(* Properties.                                                                  *)

\* A sync that is loading has batches of its graph to send, any other process none.
TodoOK(p) ==
    /\ pc[p] = "load" <=> todo[p] # {}
    /\ pc[p] = "load" => todo[p] \subseteq Batches(plan[p])

\* The state of files and processes has its shape, and a sync ends when it has sent
\* its batches (neo4j/sync.ts:296), not before and not after.
TypeOK ==
    /\ raw \in Raws /\ decided \in Decisions
    /\ dictionary \in {NoFile, Torn} \/ IsDictionary(dictionary)
    /\ inferred \in Inferences \cup {NoFile}
    /\ pc \in [Slots -> {"idle", "seed", "seeding", "parse", "parsing", "read", "load", "synced"}]
    /\ \A p \in Slots : TodoOK(p)
    /\ disturbed \in [Slots -> BOOLEAN]
    /\ runs \in 0 .. MaxRuns /\ changes \in 0 .. MaxChanges

\* What a sync that has read the graphs will resolve if nothing changes any more.
Resolving(p) == Input(plan[p].parsed, plan[p].inferred, dictionary, decided, raw)

Readers == {p \in Slots : pc[p] = "read" /\ dictionary # Torn}

\* Every relationship that is sent to Neo4j joins nodes that are sent before it:
\* none is lost to a MATCH that finds nothing (neo4j/sync.ts:188).
Closed ==
    \A p \in Loading : \A r \in plan[p].rels : Ends(r) \subseteq plan[p].nodes

\* Texts of end points that a name of a concept is spelled like.
Mistakable(in) == UNION {Spelled(a) : a \in Aliases(in)}

\* What an end point means: the node it names, by the name it has in the graph.
Meant(in, e) == Normalized(in, Node(e.label, e.key))

\* With a dictionary that loads, an end point is found at the node it means or not
\* at all, however the two graphs and the dictionary spell it (endpoint.ts:40),
\* except one that the name of a concept is spelled like: it may be found at that
\* concept, or at two nodes.
EndsKeepTheirNode ==
    \A p \in Readers :
        \A in \in {Resolving(p)} :
        Resolves(in) =>
            \A index \in {Index(in)} : \A mistakable \in {Mistakable(in)} :
            \A r \in in.parsed.rels \cup in.inferred.rels : \A e \in Ends(r) :
                {Written(e), InLowerCase(Written(e))} \cap mistakable = {} =>
                    \A n \in Targets(index, e) : n = Meant(in, e)

\* Spellings the dictionary does not have become one concept if they differ in
\* case and punctuation only, unless people decided to keep them apart.
SpellingsMeet ==
    \A p \in Readers :
        \A in \in {Resolving(p)} :
        \A node \in {[n \in Unmatched(in) |-> Normalized(in, n)]} :
        \A m, n \in Unmatched(in) :
            node[m] = node[n] <=>
                IF Key[m.key] \in in.blocked \cup {None} THEN Text[m.key] = Text[n.key]
                ELSE Key[m.key] = Key[n.key]

\* What people judged to be a spelling of a name means that name, whatever
\* seed-concepts had made of it, in every dictionary that loads.
JudgmentsHonoured ==
    \A p \in Readers :
        \A in \in {Resolving(p)} :
        Loads(in.dictionary, in.blocked) =>
            \A n \in MergedNames(decided) : Meaning(in, Node("Concept", n)) = {decided[n]}

\* The dictionary file says that a tag is another name than the one in it: people
\* decided so once, and seed-concepts keeps what it finds.
Contested(d, n) ==
    \E c \in DOMAIN d : Key[c] # Key[Bare[n]] /\ Text[n] \in {Text[a] : a \in d[c]}

\* A dictionary that is seeded gives every tag of the project a meaning, so that no
\* tag stops a sync, if no decision is about the tag or its name and the dictionary
\* that was there does not contest it (concept-seeder.ts:81).
TagsResolve ==
    [][\A p \in Slots : Seed(p) =>
        LET judged == {Key[n] : n \in DOMAIN decided} IN
        \A n \in {raw.tags[t] : t \in DOMAIN raw.tags} :
            /\ {Key[n], Key[Bare[n]]} \cap (judged \cup {None}) = {}
            /\ ~Contested(OrNew(dictionary), n)
            => Canonicals(Loaded(plan'[p], decided), Blocked(decided), n) # {}]_vars

\* When a sync has ended and nobody deleted the graph meanwhile, everything it
\* resolved is in Neo4j, beside whatever other syncs write (neo4j/sync.ts:296).
SyncComplete ==
    \A p \in Slots : pc[p] = "synced" /\ ~disturbed[p] =>
        /\ plan[p].nodes \subseteq neo4j.nodes
        /\ {Stored(r) : r \in plan[p].rels} \subseteq neo4j.rels

\* Neo4j holds nothing but what syncs resolved since it was deleted last, and no
\* relationship without its ends: with SyncComplete, deleting the graph and syncing
\* again leaves exactly what the files say (docs/data-schema.md, deletion).
NothingForeign ==
    /\ neo4j.nodes \subseteq due.nodes
    /\ neo4j.rels \subseteq {Stored(r) : r \in due.rels}
    /\ \A r \in neo4j.rels : Ends(r) \subseteq neo4j.nodes

\* Names mean what people and the project's tags say they mean.
NamesAreHonoured == []JudgmentsHonoured /\ TagsResolve

\* Batches in transactions of their own, stopped anywhere and interleaved with other
\* syncs and deletions, add up to what was resolved, and to nothing else.
SyncIsExact == SyncComplete /\ NothingForeign
================================================================================
