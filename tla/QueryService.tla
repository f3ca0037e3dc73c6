------------------------------ MODULE QueryService ------------------------------
(* POST /api/query: one question, from the terms to search for to an answer with *)
(* its evidence. Every call of the model and every read of Neo4j may fail, and   *)
(* the graph may change between two reads: none of them shares a transaction.    *)
(* Two queries share nothing but the graph, so there is one of them here.        *)
EXTENDS QueryEvidence

CONSTANTS
    Graphs,         \* what Neo4j may hold
    TermLists,      \* terms the model may extract from the question
    Question,       \* the question, which is searched for as a term too
    HitLists,       \* answers of the full-text indexes
    Cyphers,        \* what the model may write: [readOnly, aggregates]
    Answers,        \* evidence in the rows a Cypher may return
    TaskCommentFetchLimit,
    MaxChanges      \* bound: changes of the graph

Nodes == UNION {g.nodes : g \in Graphs}
Relationships == UNION {g.relationships : g \in Graphs}

\* An id names one node, or one relationship, in all graphs, and no two nodes are
\* displayed alike (the API tells them apart by their ids). A search has its hits on
\* nodes, and no more than MaxHits. There is an anchor for all that labels are sure of.
ASSUME QueryAssumption ==
    /\ TaskCommentFetchLimit \in Nat \ {0}
    /\ MaxChanges \in Nat
    /\ \A g \in Graphs : IsFiniteSet(g.nodes) /\ IsFiniteSet(g.relationships)
    /\ \A g \in Graphs : \A r \in g.relationships : {r.startId, r.endId} \subseteq Ids(g.nodes)
    /\ \A n \in Nodes : n.display \in Nat /\ n.size \in Nat
    /\ \A m, n \in Nodes : m.id = n.id \/ m.display = n.display => m = n
    /\ \A r \in Relationships : r.id \in Nat /\ r.size \in Nat \ {0}
    /\ \A r, s \in Relationships : r.id = s.id => r = s
    /\ HitLists \subseteq Seq([node : Nodes, score : Nat])
    /\ \A hits \in HitLists : Len(hits) <= MaxHits
    /\ \A terms \in TermLists : terms \in Seq(ToSet(terms))
    /\ \A sure \in SUBSET Nodes :
          IsFiniteSet(sure) /\ (\A n \in sure : CountLabel(sure, n.label) <= Least(n.label))
          => Cardinality(sure) <= AnchorCandidateLimit

VARIABLES
    stored,         \* the graph in Neo4j
    changes,        \* history: times it was changed
    stage,          \* what the query waits for
    searches,       \* for each term, its search: [status, hits]
    found,          \* hits, those on comments promoted
    anchors,        \* anchors of the question
    cypher,         \* the Cypher under way
    final,          \* evidence of the rows that are answered from
    supporting,     \* evidence that was read besides
    payload,        \* evidence in the prompt of the answer
    response        \* [via, evidence], via naming the end the query came to

queryVars == <<stage, searches, found, anchors, cypher, final, supporting, payload, response>>
serviceVars == <<stored, changes, queryVars>>

Search(status, hits) == [status |-> status, hits |-> hits]
NoCypher == [readOnly |-> TRUE, aggregates |-> FALSE]
NoEvidence == [nodes |-> <<>>, relationships |-> <<>>]
NoResponse == [via |-> "none", evidence |-> NoEvidence]

InitService ==
    /\ stored \in Graphs /\ changes = 0
    /\ stage = "idle" /\ searches = <<>> /\ found = <<>> /\ anchors = <<>> /\ cypher = NoCypher
    /\ final = None /\ supporting = None /\ payload = NoEvidence /\ response = NoResponse

\* A reset or a sync of the pipeline.
GraphChanges ==
    /\ changes < MaxChanges
    /\ stored' \in Graphs \ {stored}
    /\ changes' = changes + 1
    /\ UNCHANGED queryVars

Stored(evidence) ==
    evidence.nodes \subseteq stored.nodes /\ evidence.relationships \subseteq stored.relationships

Touching(r, id) == id \in {r.startId, r.endId}

Labelled(nodes, label) == {n \in nodes : n.label = label}

Respond(via, evidence) ==
    /\ stage' = "done"
    /\ response' = [via |-> via, evidence |-> evidence]

--------------------------------------------------------------------------------
Query ==
    /\ stage = "idle"
    /\ stage' = "terms"
    /\ UNCHANGED <<stored, changes, searches, found, anchors, cypher, final, supporting, payload, response>>

UniqueTerms(terms) ==
    Picked(terms, {i \in DOMAIN terms : \A j \in 1..(i - 1) : terms[j] # terms[i]})

\* The searches of all terms are started at once. Without terms of the model, the
\* question is the only one.
ExtractAnchorTerms ==
    /\ stage = "terms"
    /\ \E terms \in TermLists \cup {<<>>} :
          searches' = [i \in DOMAIN UniqueTerms(Append(terms, Question)) |-> Search("pending", <<>>)]
    /\ stage' = "search"
    /\ UNCHANGED <<stored, changes, found, anchors, cypher, final, supporting, payload, response>>

FulltextSearch(i) ==
    /\ stage = "search" /\ searches[i].status = "pending"
    /\ \/ \E hits \in HitLists :
             /\ {h.node : h \in ToSet(hits)} \subseteq stored.nodes
             /\ searches' = [searches EXCEPT ![i] = Search("fulfilled", hits)]
       \/ searches' = [searches EXCEPT ![i] = Search("rejected", <<>>)]
    /\ UNCHANGED <<stored, changes, stage, found, anchors, cypher, final, supporting, payload, response>>

\* The task of each comment, by HAS_COMMENT.
CommentParentTasks(ids) ==
    LET owner(id, t) == \E r \in stored.relationships : r.type = "HAS_COMMENT" /\ r.startId = t.id /\ r.endId = id
        tasks == Labelled(stored.nodes, "Task")
        owned == {id \in ids : \E t \in tasks : owner(id, t)}
    IN  [id \in owned |-> CHOOSE t \in tasks : owner(id, t)]

\* Once all searches have settled. A failed read of the tasks drops the hits on comments.
PromoteCommentHits ==
    LET settled == Picked(searches, {i \in DOMAIN searches : searches[i].status = "fulfilled"})
        fulfilled == [i \in DOMAIN settled |-> settled[i].hits]
        comments == {n \in Candidates(fulfilled) : n.label = "Comment"}
        promoted == [i \in DOMAIN fulfilled |->
                        PromoteCommentAnchors(fulfilled[i], CommentParentTasks(Ids(comments)))]
    IN  /\ stage = "search" /\ \A i \in DOMAIN searches : searches[i].status # "pending"
        /\ \E kept \in {promoted, DropCommentHits(fulfilled)} :
              /\ found' = kept
              /\ anchors' = RankAnchorCandidates(kept)
        /\ searches' = <<>>
        /\ stage' = "count"
        /\ UNCHANGED <<stored, changes, cypher, final, supporting, payload, response>>

\* The count of a task's decisions is for the prompt only; the query goes on without it.
CountTaskDecisions ==
    /\ stage = "count"
    /\ stage' = "generate"
    /\ found' = <<>>
    /\ UNCHANGED <<stored, changes, searches, anchors, cypher, final, supporting, payload, response>>

\* No Cypher: the anchors themselves are read.
GenerateCypher ==
    /\ stage = "generate"
    /\ \/ stage' = "execute" /\ cypher' \in Cyphers
       \/ stage' = "fallback" /\ cypher' = NoCypher
    /\ UNCHANGED <<stored, changes, searches, found, anchors, final, supporting, payload, response>>

\* What the rows of the Cypher may hold. A Cypher that may write is not executed, and
\* any may fail.
Rows == {evidence \in Answers : cypher.readOnly /\ Stored(evidence)}

\* Once the rows are there: the evidence of an aggregation is asked for separately.
TakeRows ==
    /\ final' \in Rows
    /\ stage' = IF cypher.aggregates THEN "support" ELSE "comments"
    /\ cypher' = NoCypher
    /\ UNCHANGED response

ExecuteGeneratedCypher ==
    /\ stage = "execute"
    /\ TakeRows \/ (stage' = "regenerate" /\ cypher' = NoCypher /\ UNCHANGED <<final, response>>)
    /\ UNCHANGED <<stored, changes, searches, found, anchors, supporting, payload>>

RegenerateCypher ==
    /\ stage = "regenerate"
    /\ \/ stage' = "reexecute" /\ cypher' \in Cyphers /\ UNCHANGED response
       \/ Respond("failure", RefineQueryEvidence(None, None, anchors)) /\ UNCHANGED cypher
    /\ UNCHANGED <<stored, changes, searches, found, anchors, final, supporting, payload>>

ReexecuteCypher ==
    /\ stage = "reexecute"
    /\ \/ TakeRows
       \/ /\ Respond("failure", RefineQueryEvidence(None, None, anchors))
          /\ cypher' = NoCypher /\ UNCHANGED final
    /\ UNCHANGED <<stored, changes, searches, found, anchors, supporting, payload>>

\* A Cypher for the evidence of an aggregation, or none.
GenerateEvidenceCypher ==
    /\ stage = "support"
    /\ \/ stage' = "supportExecute" /\ cypher' \in Cyphers
       \/ stage' = "comments" /\ UNCHANGED cypher
    /\ UNCHANGED <<stored, changes, searches, found, anchors, final, supporting, payload, response>>

ExecuteEvidenceCypher ==
    /\ stage = "supportExecute"
    /\ supporting' \in Rows \cup {None}
    /\ stage' = "comments" /\ cypher' = NoCypher
    /\ UNCHANGED <<stored, changes, searches, found, anchors, final, payload, response>>

\* The anchors that are still in the graph, or, when they cannot be read, no evidence.
ExecuteAnchorFallback ==
    /\ stage = "fallback"
    /\ \/ /\ final' = [None EXCEPT !.nodes = ToSet(anchors) \cap stored.nodes]
          /\ stage' = "fallbackComments" /\ UNCHANGED response
       \/ Respond("fallback", RefineQueryEvidence(None, None, anchors)) /\ UNCHANGED final
    /\ UNCHANGED <<stored, changes, searches, found, anchors, cypher, supporting, payload>>

\* The comments of the tasks, the first of each by when they were written (which is
\* the order of the ids of the relationships).
TaskComments(nodes) ==
    LET owns(r) == r.type = "HAS_COMMENT" /\ r.startId \in Ids(Labelled(nodes, "Task"))
        earlier(r, s) == r.startId = s.startId /\ r.id < s.id
        taken == {r \in stored.relationships :
                    owns(r) /\ Cardinality({s \in stored.relationships : owns(s) /\ earlier(s, r)})
                                 < TaskCommentFetchLimit}
    IN  [nodes |-> {n \in stored.nodes : \E r \in taken : Touching(r, n.id)}, relationships |-> taken]

FetchTaskComments_OfSupport ==
    /\ stage \in {"comments", "fallbackComments"}
    /\ LET refined == RefineQueryEvidence(final, supporting, anchors)
       IN  IF refined.nodes = <<>>
           THEN /\ response' = [via |-> "evidence", evidence |-> refined]
                /\ IF stage = "comments" THEN stage' = "synthesize" ELSE stage' = "done"
                /\ UNCHANGED supporting
           ELSE /\ supporting' = MergeEvidence(supporting, TaskComments(supporting.nodes))
                /\ stage' = IF stage = "comments" THEN "relationships" ELSE "fallbackRelationships"
                /\ UNCHANGED response
    /\ UNCHANGED <<stored, changes, searches, found, anchors, cypher, final, payload>>

\* Without a node to start from there is nothing more to read, and the evidence is
\* ready; without a task there are no comments to read. A read that fails rejects the
\* query.
FetchTaskComments ==
    /\ stage \in {"comments", "fallbackComments"}
    /\ LET refined == RefineQueryEvidence(final, supporting, anchors)
       IN  IF refined.nodes = <<>>
           THEN /\ response' = [via |-> "evidence", evidence |-> refined]
                /\ IF stage = "comments" THEN stage' = "synthesize" ELSE stage' = "done"
                /\ UNCHANGED supporting
           ELSE \/ /\ supporting' = MergeEvidence(supporting, TaskComments(ToSet(refined.nodes)))
                   /\ stage' = IF stage = "comments" THEN "relationships" ELSE "fallbackRelationships"
                   /\ UNCHANGED response
                \/ /\ Labelled(ToSet(refined.nodes), "Task") # {}
                   /\ stage' = "rejected" /\ UNCHANGED <<supporting, response>>
    /\ UNCHANGED <<stored, changes, searches, found, anchors, cypher, final, payload>>

RelationshipsBetween_ToAnchors(ids, anchorIds) ==
    {r \in stored.relationships :
        \/ r.startId \in ids /\ r.endId \in anchorIds
        \/ r.startId \in anchorIds /\ r.endId \in ids}

RelationshipsBetween(ids, anchorIds) ==
    {r \in stored.relationships :
        \/ {r.startId, r.endId} \subseteq ids
        \/ r.startId \in ids /\ r.endId \in anchorIds
        \/ r.startId \in anchorIds /\ r.endId \in ids}

ReadRelationships ==
    /\ stage \in {"relationships", "fallbackRelationships"}
    /\ LET withComments == RefineQueryEvidence(final, supporting, anchors)
           between == RelationshipsBetween(Ids(ToSet(withComments.nodes)), Ids(ToSet(anchors)))
           enriched == MergeEvidence(supporting, [None EXCEPT !.relationships = between])
       IN  \/ /\ supporting' = enriched
              /\ response' = [via |-> "evidence", evidence |-> RefineQueryEvidence(final, enriched, anchors)]
              /\ stage' = IF stage = "relationships" THEN "synthesize" ELSE "done"
           \/ stage' = "rejected" /\ UNCHANGED <<supporting, response>>
    /\ UNCHANGED <<stored, changes, searches, found, anchors, cypher, final, payload>>

\* With or without the model's answer, the evidence is returned.
SynthesizeAnswer ==
    /\ stage = "synthesize"
    /\ payload' = BuildAnswerEvidencePayload(response.evidence)
    /\ stage' = "done"
    /\ UNCHANGED <<stored, changes, searches, found, anchors, cypher, final, supporting, response>>

\* The response has left, or nobody waits for it any more.
Forget ==
    /\ stage' = "idle" /\ searches' = <<>> /\ found' = <<>> /\ anchors' = <<>> /\ cypher' = NoCypher
    /\ final' = None /\ supporting' = None /\ payload' = NoEvidence /\ response' = NoResponse

ServiceStep ==
    \/ ExtractAnchorTerms \/ (\E i \in DOMAIN searches : FulltextSearch(i)) \/ PromoteCommentHits
    \/ CountTaskDecisions \/ GenerateCypher \/ ExecuteGeneratedCypher \/ RegenerateCypher
    \/ ReexecuteCypher \/ GenerateEvidenceCypher \/ ExecuteEvidenceCypher \/ ExecuteAnchorFallback
    \/ FetchTaskComments \/ ReadRelationships \/ SynthesizeAnswer
================================================================================
