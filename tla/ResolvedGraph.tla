----------------------------- MODULE ResolvedGraph -----------------------------
(* resolveGraph: one graph from what parse-structure and infer-knowledge wrote, *)
(* with the names of concepts replaced by canonical ones (resolve/resolve.ts,   *)
(* node-merge.ts, endpoint.ts, and the cleaning of relationships of             *)
(* infer/llm-relationship-sanitizer.ts).                                        *)
(*                                                                              *)
(* Everything a node is called is in one index: its key, and its label and key  *)
(* as an end point is written. A concept may have a name that is spelled like   *)
(* the end point of another node.                                               *)
(*                                                                              *)
(* An input is a record of the two graphs, the dictionary as it was loaded and  *)
(* the blocked keys. Inferred nodes and relationships carry their document.     *)
EXTENDS ConceptDictionary, StructuralGraph

CONSTANT Reads  \* the end point that a name is spelled like, for names that are

\* The text of an end point: "Label:key", or the same in lower case.
Written(e) == [label |-> e.label, key |-> e.key, lowered |-> FALSE]

InLowerCase_ByKey(t) ==
    [t EXCEPT !.lowered = TRUE, !.key = IF t.label = "Concept" THEN Key[@] ELSE @]

\* normalizeText of such a text. Numbers, ids and codes are their own lower case, and
\* no name begins with a blank.
InLowerCase(t) ==
    [t EXCEPT !.lowered = TRUE, !.key = IF t.label = "Concept" THEN Text[@] ELSE @]

ASSUME ReadsAssumption ==
    /\ DOMAIN Reads \subseteq Names
    /\ \A n \in DOMAIN Reads :
        /\ DOMAIN Reads[n] = {"label", "key", "lowered"} /\ Reads[n].lowered \in BOOLEAN
        /\ Reads[n].label = "Concept" => Reads[n].key \in Names
        /\ Text[n] \in DOMAIN Reads /\ Reads[Text[n]] = InLowerCase(Reads[n])

--------------------------------------------------------------------------------
(* End points of inferred relationships: buildEndpointIndex, normalizeEndpoint. *)

\* Tasks are known from the list or from their documents, by number or by id.
KnownTasks(raw) ==
    raw.listed \cup {[number |-> p.number, id |-> p.id] : p \in raw.posts}

\* What an end point is rewritten to; nothing if it is unknown.
Rewritten(raw, e) ==
    CASE e.label = "Task" ->
           IF e.key \in {t.number : t \in KnownTasks(raw)} THEN {e}
           ELSE NodeSet("Task", {t.number : t \in {x \in KnownTasks(raw) : x.id = e.key}})
      [] e.label = "Wiki" ->
           IF e.key \in {w.page : w \in raw.wikis} THEN {e}
           ELSE NodeSet("Wiki", {w.page : w \in {x \in raw.wikis : x.id = e.key}})
      [] OTHER -> {e}

Moved(r, s, e) == [r EXCEPT !.start = s, !.end = e]

Sanitized(raw, rels) ==
    UNION {{Moved(r, s, e) :
              s \in Rewritten(raw, r.start), e \in Rewritten(raw, r.end)} :
           r \in rels}

--------------------------------------------------------------------------------
(* Nodes: normalizeNode.                                                        *)

Meaning(in, n) == Canonicals(in.dictionary, in.blocked, n.key)

Concepts(nodes) == {n \in nodes : n.label = "Concept"}

\* A rule found a concept that the dictionary does not have: the whole fails.
MissingConcepts(in) == {n \in Concepts(in.parsed.nodes) : Meaning(in, n) = {}}

Unmatched(in) == {n \in Concepts(in.inferred.nodes) : Meaning(in, n) = {}}

\* Ends that are not concepts count as they are written.
Mentioned(in, name) ==
    LET Mentions(e) == IF e.label = "Concept" THEN Text[e.key] = name
                       ELSE name \in DOMAIN Reads /\ Reads[name] = InLowerCase(Written(e))
    IN Cardinality({m \in (in.parsed.rels \cup in.inferred.rels) \X {"start", "end"} :
                        Mentions(m[1][m[2]])})

Occurrences(in, name) == Cardinality({n \in Unmatched(in) : Text[n.key] = name})

\* The spellings that are unmatched beside n, and the order between them.
Rivals(in, n) == {Text[m.key] : m \in {x \in Unmatched(in) : Key[x.key] = Key[n.key]}}

Precedes(in, a, b) ==
    \/ Mentioned(in, a) > Mentioned(in, b)
    \/ /\ Mentioned(in, a) = Mentioned(in, b)
       /\ \/ Occurrences(in, a) > Occurrences(in, b)
          \/ Occurrences(in, a) = Occurrences(in, b) /\ Rank[a] < Rank[b]

Representative_Unblocked(in, n) ==
    CHOOSE a \in Rivals(in, n) : \A b \in Rivals(in, n) : Rank[a] <= Rank[b]

\* The spelling that stands for all unmatched spellings of its key: the one with
\* the most relationships, then the most frequent, then the first.
Representative(in, n) ==
    IF Key[n.key] \in in.blocked \cup {None} THEN Text[n.key]
    ELSE CHOOSE a \in Rivals(in, n) : \A b \in Rivals(in, n) \ {a} : Precedes(in, a, b)

Normalized(in, n) ==
    IF n.label # "Concept" THEN Node(n.label, n.key)
    ELSE IF Meaning(in, n) # {} THEN Node("Concept", CHOOSE c \in Meaning(in, n) : TRUE)
    ELSE Node("Concept", Representative(in, n))

InputNodes(in) == in.parsed.nodes \cup in.inferred.nodes

ResolvedNodes(in) == {Normalized(in, n) : n \in InputNodes(in)}

--------------------------------------------------------------------------------
(* Relationships: addEndpointAlias, addDictionaryEndpointAliases and            *)
(* resolveEndpoint.                                                             *)

Alias(name, node) == [name |-> name, node |-> node]

\* Mutant: everything in the dictionary has its names in the index.
Aliases_AllEntries(in) ==
    {Alias(n.key, Normalized(in, n)) : n \in InputNodes(in)}
      \cup {Alias(n.key, n) : n \in ResolvedNodes(in)}
      \cup UNION {{Alias(a, Node("Concept", c)) : a \in Spellings(in.dictionary, c)} :
                  c \in DOMAIN in.dictionary}

\* What a node of the graph is called, by itself and by the dictionary.
CalledNow(in, n) ==
    {n.key} \cup (IF n.label = "Concept" /\ n.key \in DOMAIN in.dictionary
                  THEN in.dictionary[n.key] ELSE {})

\* What the nodes of the graph are called: as they were written, as they are called
\* now, and everything the dictionary calls a concept.
Aliases(in) ==
    UNION {UNION {{Alias(a, m) : a \in {n.key} \cup CalledNow(in, m)} : m \in {Normalized(in, n)}} :
           n \in InputNodes(in)}

\* The unqualified name, as it is and in lower case, where an end point is spelled so.
Spelled(a) ==
    IF a.node.label # "Concept" THEN {}
    ELSE {Reads[n] : n \in {a.name, Text[a.name]} \cap DOMAIN Reads}

TextsOf(a) ==
    LET qualified == Written(Node(a.node.label, a.name))
    IN {qualified, InLowerCase(qualified)} \cup Spelled(a)

\* endpointAliases, built once: texts and the nodes they were added for
Index(in) ==
    [nodes |-> ResolvedNodes(in),
     texts |-> UNION {{[text |-> t, node |-> a.node] : t \in TextsOf(a)} : a \in Aliases(in)}]

Targets(index, e) ==
    LET Found(t) == {x.node : x \in {y \in index.texts : y.text = t}}
    IN IF Found(Written(e)) # {} THEN Found(Written(e)) ELSE Found(InLowerCase(Written(e)))

\* An inferred relationship whose ends are not found is left out and counted.
Unresolved(index, rels) ==
    {r \in rels : \E e \in Ends(r) : \A n \in Targets(index, e) : Targets(index, e) # {n}}

Renamed(index, r) ==
    LET The(e) == CHOOSE n \in Targets(index, e) : TRUE
    IN Edge(r.type, The(r.start), The(r.end), r.id)

\* A dictionary that contradicts itself and a structural concept that is not in it
\* stop the command before the relationships, a structural one of which may, too.
Resolves(in) ==
    /\ Loads(in.dictionary, in.blocked)
    /\ MissingConcepts(in) = {}

Resolved(in, index) ==
    LET kept == in.inferred.rels \ Unresolved(index, in.inferred.rels)
    IN [nodes |-> index.nodes,
        rels |-> {Renamed(index, r) : r \in in.parsed.rels \cup kept}]
================================================================================
