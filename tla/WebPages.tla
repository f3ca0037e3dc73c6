-------------------------------- MODULE WebPages --------------------------------
(* The pages of the web client over the API: the workspace of the question page, *)
(* which asks and expands, the explorer, which searches, expands and undoes, and *)
(* the schema map, which loads samples. Requests overlap with each other and     *)
(* with what the user does meanwhile, and each of them may fail.                 *)
(*                                                                               *)
(* A question is followed through QueryService; samples are counted, then read;  *)
(* the other requests are single reads, in the step in which their answer arrives.*)
EXTENDS QueryService

CONSTANTS
    Pages,          \* pages under way: "query", "explorer", "schema"
    Labels,         \* labels that samples may be asked for
    PageSize,       \* samples on a page
    MaxQuestions,   \* bound: questions and searches
    MaxExpansions,  \* bound: expansions, for each page
    MaxRequests     \* bound: requests for samples

ASSUME PagesAssumption ==
    /\ Pages \subseteq {"query", "explorer", "schema"}
    /\ PageSize \in Nat \ {0}
    /\ {MaxQuestions, MaxRequests} \subseteq Nat /\ MaxExpansions \in [Pages -> Nat]

VARIABLES
    page,           \* the page under way; the pages share no state
    view,           \* nodes and relationships given to the canvas
    expanding,      \* the expansion that is awaited; in the explorer, with the view of the click
    expansions,     \* history: expansions asked for
    questions,      \* history: questions and searches submitted
    loading,        \* whether an answer is awaited
    result,         \* evidence of the answer on the page
    listed,         \* nodes the search found
    searching,      \* whether a search is awaited
    selected,       \* id of the selected node, or Nobody
    history,        \* views to go back to
    selection,      \* label whose samples are asked for
    samples,        \* the samples on the page
    requests,       \* requests for samples that are not answered
    latest,         \* number of the last of them
    sampleLoading   \* whether samples are awaited

queryPageVars == <<questions, loading, result>>
explorerVars == <<listed, searching, selected, history>>
schemaVars == <<selection, samples, requests, latest, sampleLoading>>
canvasVars == <<view, expanding, expansions>>
pageVars == <<page, canvasVars, queryPageVars, explorerVars, schemaVars>>
vars == <<serviceVars, pageVars>>

Nobody == "nobody"
NoExpansion == [id |-> Nobody, before |-> None]
EmptySamples == [nodes |-> {}, total |-> 0, offset |-> 0]

Init ==
    /\ InitService
    /\ page \in Pages
    /\ view = None /\ expanding = NoExpansion /\ expansions = 0
    /\ questions = 0 /\ loading = FALSE /\ result = None
    /\ listed = {} /\ searching = FALSE /\ selected = Nobody /\ history = <<>>
    /\ selection = "none" /\ samples = EmptySamples /\ requests = {} /\ latest = 0
    /\ sampleLoading = FALSE

AsSets(evidence) == [nodes |-> ToSet(evidence.nodes), relationships |-> ToSet(evidence.relationships)]

--------------------------------------------------------------------------------
(* The API's reads.                                                             *)

\* The node and what one relationship leads to.
Neighbors(id) ==
    LET around == {r \in stored.relationships : Touching(r, id)}
    IN  [nodes |-> {n \in stored.nodes : n.id = id \/ \E r \in around : Touching(r, n.id)},
         relationships |-> around]

ByDisplay(nodes) == Sorted(nodes, LAMBDA a, b : a.display < b.display)

\* A page of the nodes with a label, in the order of their keys.
SamplesOf(label, offset) ==
    LET all == ByDisplay(Labelled(stored.nodes, label))
    IN  ToSet(SubSeq(all, offset + 1, Min({offset + PageSize, Len(all)})))

--------------------------------------------------------------------------------
(* What the canvas shows, and its expansions, on the question page and in the   *)
(* explorer.                                                                    *)

VisibleRelationships ==
    {r \in view.relationships : {r.startId, r.endId} \subseteq Ids(view.nodes)}

VisibleNodes ==
    IF page = "explorer" THEN view.nodes
    ELSE {n \in view.nodes : \E r \in VisibleRelationships : Touching(r, n.id)}

\* A click on a node, or on the card of the node that is selected. (The question page
\* also focuses the node, which nothing else depends on.)
ExpandNode(id) ==
    /\ page \in {"query", "explorer"} /\ expansions < MaxExpansions[page]
    /\ expanding = NoExpansion
    /\ id \in Ids(VisibleNodes)
    /\ IF page = "explorer" THEN selected' = id /\ expanding' = [id |-> id, before |-> view]
       ELSE UNCHANGED selected /\ expanding' = [NoExpansion EXCEPT !.id = id]
    /\ expansions' = expansions + 1
    /\ UNCHANGED <<serviceVars, page, view, queryPageVars, listed, searching, history, schemaVars>>

\* The explorer keeps the view that the click was made in.
ExpansionArrives ==
    /\ expanding # NoExpansion
    /\ view' = MergeEvidence(view, Neighbors(expanding.id))
    /\ IF page = "explorer"
       THEN history' = Append(history, [view |-> expanding.before, selected |-> expanding.id])
       ELSE UNCHANGED history
    /\ expanding' = NoExpansion
    /\ UNCHANGED <<serviceVars, page, expansions, queryPageVars, listed, searching, selected, schemaVars>>

ExpansionFails ==
    /\ expanding # NoExpansion
    /\ expanding' = NoExpansion
    /\ UNCHANGED <<serviceVars, page, view, expansions, queryPageVars, explorerVars, schemaVars>>

--------------------------------------------------------------------------------
(* The question page.                                                           *)

\* The stages in which a query is enabled to go on.
Busy == stage \notin {"idle", "done", "rejected"}

SubmitQuestion ==
    /\ page = "query" /\ questions < MaxQuestions
    /\ ~loading
    /\ Query
    /\ questions' = questions + 1
    /\ loading' = TRUE
    /\ UNCHANGED <<page, canvasVars, result, explorerVars, schemaVars>>

QuestionAnswered_KeepsRelationships ==
    /\ loading /\ stage = "done"
    /\ result' = AsSets(response.evidence)
    /\ view' = [view EXCEPT !.nodes = ToSet(response.evidence.nodes)]
    /\ loading' = FALSE
    /\ Forget
    /\ UNCHANGED <<stored, changes, page, expanding, expansions, questions, explorerVars, schemaVars>>

\* The answer's evidence takes the place of the view.
QuestionAnswered ==
    /\ loading /\ stage = "done"
    /\ result' = AsSets(response.evidence)
    /\ view' = AsSets(response.evidence)
    /\ loading' = FALSE
    /\ Forget
    /\ UNCHANGED <<stored, changes, page, expanding, expansions, questions, explorerVars, schemaVars>>

QuestionFails_KeepsQuery ==
    /\ loading /\ stage \in {"done", "rejected"}
    /\ loading' = FALSE
    /\ UNCHANGED <<serviceVars, page, canvasVars, questions, result, explorerVars, schemaVars>>

QuestionFails_NotRejected ==
    /\ loading /\ stage = "done"
    /\ loading' = FALSE
    /\ Forget
    /\ UNCHANGED <<stored, changes, page, canvasVars, questions, result, explorerVars, schemaVars>>

\* The query was rejected, or its answer is lost.
QuestionFails ==
    /\ loading /\ stage \in {"done", "rejected"}
    /\ loading' = FALSE
    /\ Forget
    /\ UNCHANGED <<stored, changes, page, canvasVars, questions, result, explorerVars, schemaVars>>

\* The connection is lost while the query still runs. Nobody sees what it comes to, and
\* it only reads, so it is not followed any further.
QuestionBreaks ==
    /\ loading /\ Busy
    /\ loading' = FALSE
    /\ Forget
    /\ UNCHANGED <<stored, changes, page, canvasVars, questions, result, explorerVars, schemaVars>>

--------------------------------------------------------------------------------
(* The explorer.                                                                *)

SubmitSearch ==
    /\ page = "explorer" /\ questions < MaxQuestions
    /\ ~searching
    /\ questions' = questions + 1
    /\ searching' = TRUE
    /\ UNCHANGED <<serviceVars, page, canvasVars, loading, result, listed, selected, history, schemaVars>>

SearchArrives ==
    /\ searching
    /\ \E hits \in HitLists :
          /\ {h.node : h \in ToSet(hits)} \subseteq stored.nodes
          /\ listed' = {h.node : h \in ToSet(hits)}
    /\ searching' = FALSE
    /\ UNCHANGED <<serviceVars, page, canvasVars, queryPageVars, selected, history, schemaVars>>

SearchFails ==
    /\ searching
    /\ searching' = FALSE
    /\ UNCHANGED <<serviceVars, page, canvasVars, queryPageVars, listed, selected, history, schemaVars>>

SelectSearchResult(n) ==
    /\ page = "explorer" /\ n \in listed
    /\ view' = [None EXCEPT !.nodes = {n}]
    /\ selected' = n.id
    /\ history' = <<>>
    /\ UNCHANGED <<serviceVars, page, expanding, expansions, queryPageVars, listed, searching, schemaVars>>

UndoExpansion_KeepsSelection ==
    /\ history # <<>>
    /\ view' = Last(history).view
    /\ history' = Front(history)
    /\ UNCHANGED <<serviceVars, page, expanding, expansions, queryPageVars, listed, searching, selected, schemaVars>>

UndoExpansion ==
    /\ history # <<>>
    /\ view' = Last(history).view
    /\ selected' = Last(history).selected
    /\ history' = Front(history)
    /\ UNCHANGED <<serviceVars, page, expanding, expansions, queryPageVars, listed, searching, schemaVars>>

--------------------------------------------------------------------------------
(* The schema map.                                                              *)

LoadSamples(label, offset) ==
    /\ latest < MaxRequests
    /\ latest' = latest + 1
    /\ requests' = requests \cup {[number |-> latest + 1, label |-> label, offset |-> offset,
                                 counted |-> FALSE, total |-> 0]}
    /\ selection' = label
    /\ sampleLoading' = TRUE
    /\ UNCHANGED <<serviceVars, page, canvasVars, queryPageVars, explorerVars, samples>>

\* The contract and the statistics are there; the page loads its first samples.
OpenSchemaMap ==
    /\ page = "schema" /\ latest = 0
    /\ \E label \in Labels : LoadSamples(label, 0)

SelectType(label) ==
    /\ latest > 0
    /\ LoadSamples(label, 0)

TurnPage ==
    /\ latest > 0 /\ ~sampleLoading
    /\ \/ /\ samples.offset > 0
          /\ LoadSamples(selection, IF samples.offset > PageSize THEN samples.offset - PageSize ELSE 0)
       \/ /\ samples.offset + PageSize < samples.total
          /\ LoadSamples(selection, samples.offset + PageSize)

SamplesSettle_AnyAnswer(request, answer) ==
    /\ request \in requests
    /\ requests' = requests \ {request}
    /\ samples' = answer /\ sampleLoading' = FALSE
    /\ UNCHANGED <<serviceVars, page, canvasVars, queryPageVars, explorerVars, selection, latest>>

\* Only the answer to the last request counts.
SamplesSettle(request, answer) ==
    /\ request \in requests
    /\ requests' = requests \ {request}
    /\ IF request.number = latest THEN samples' = answer /\ sampleLoading' = FALSE
       ELSE UNCHANGED <<samples, sampleLoading>>
    /\ UNCHANGED <<serviceVars, page, canvasVars, queryPageVars, explorerVars, selection, latest>>

\* The nodes with the label are counted in a transaction of their own.
SamplesCounted(request) ==
    /\ request \in requests /\ ~request.counted
    /\ requests' = (requests \ {request})
          \cup {[request EXCEPT !.counted = TRUE,
                                 !.total = Cardinality(Labelled(stored.nodes, request.label))]}
    /\ UNCHANGED <<serviceVars, page, canvasVars, queryPageVars, explorerVars,
                    selection, samples, latest, sampleLoading>>

SamplesArrive(request) ==
    /\ request.counted
    /\ SamplesSettle(request, [nodes |-> SamplesOf(request.label, request.offset),
                               total |-> request.total, offset |-> request.offset])

SamplesFail(request) == SamplesSettle(request, [EmptySamples EXCEPT !.offset = request.offset])

--------------------------------------------------------------------------------
Service == ServiceStep /\ UNCHANGED pageVars

GraphStep == GraphChanges /\ UNCHANGED pageVars

UserStep ==
    \/ SubmitQuestion \/ (\E id \in Ids(VisibleNodes) : ExpandNode(id))
    \/ SubmitSearch \/ (\E n \in listed : SelectSearchResult(n)) \/ UndoExpansion
    \/ OpenSchemaMap \/ (\E label \in Labels : SelectType(label)) \/ TurnPage

QuestionSettles == QuestionAnswered \/ QuestionFails
ExpansionSettles == ExpansionArrives \/ ExpansionFails
SearchSettles == SearchArrives \/ SearchFails
SampleRequestSettles ==
    \E request \in requests : SamplesCounted(request) \/ SamplesArrive(request) \/ SamplesFail(request)

\* The user may leave it at that, once nothing is awaited.
Rest ==
    /\ stage = "idle" /\ expanding = NoExpansion /\ ~searching /\ requests = {}
    /\ UNCHANGED vars

Next ==
    \/ Rest \/ Service \/ GraphStep \/ UserStep \/ QuestionBreaks
    \/ QuestionSettles \/ ExpansionSettles \/ SearchSettles \/ SampleRequestSettles

Spec == Init /\ [][Next]_vars

\* The model answers or times out, Neo4j answers or fails, and so does every request.
\* (The first of these is WF_vars(Service): Service is enabled when the query is Busy,
\* and its steps are those that change queryVars then.)
FairSpec ==
    /\ Spec
    /\ []<>~Busy \/ []<><<Busy>>_queryVars
    /\ WF_vars(QuestionSettles) /\ WF_vars(ExpansionSettles)
    /\ WF_vars(SearchSettles) /\ WF_vars(SampleRequestSettles)

--------------------------------------------------------------------------------
TypeOK ==
    /\ stored \in Graphs /\ changes \in 0..MaxChanges
    /\ stage \in {"idle", "terms", "search", "count", "generate", "execute", "regenerate", "reexecute",
                  "support", "supportExecute", "comments", "relationships", "synthesize",
                  "fallback", "fallbackComments", "fallbackRelationships", "done", "rejected"}
    /\ \A i \in DOMAIN searches : searches[i].status \in {"pending", "fulfilled", "rejected"}
    /\ cypher \in Cyphers \cup {NoCypher}
    /\ response.via \in {"none", "evidence", "failure", "fallback"}
    /\ page \in Pages /\ loading \in BOOLEAN /\ searching \in BOOLEAN /\ sampleLoading \in BOOLEAN
    /\ loading <=> stage # "idle"
    /\ questions \in 0..MaxQuestions /\ expansions \in 0..MaxExpansions[page] /\ Len(history) <= expansions
    /\ latest \in 0..MaxRequests
    /\ \A request \in requests : request.number \in 1..latest /\ request.label \in Labels

\* The candidates that the label's maximum leaves room for.
InQuota(nodes) ==
    {n \in nodes : n.label \in DOMAIN AnchorLabelQuotas =>
                      CountLabel(nodes, n.label) <= AnchorLabelQuotas[n.label].max}

\* However searches and the promotion of comments went: no anchor is a comment, a label
\* has the anchors it is sure of if they were found, no place stays free that a
\* candidate could have, and a label exceeds its maximum only when every candidate of
\* the labels below theirs is an anchor (rankAnchorCandidates, dropCommentHits).
AnchorsAreMixed ==
    stage = "count" =>
        LET chosen == ToSet(anchors)
            pool == Candidates(found)
            min(l) == AnchorLabelQuotas[l].min
        IN  /\ Labelled(chosen, "Comment") = {}
            /\ Cardinality(chosen) = Min({Cardinality(pool), AnchorCandidateLimit})
            /\ \A l \in DOMAIN AnchorLabelQuotas :
                  CountLabel(chosen, l) >= Min({CountLabel(pool, l), min(l), AnchorCandidateLimit})
            /\ InQuota(chosen) # chosen =>
                  \A n \in pool \ chosen :
                      /\ n.label \in DOMAIN AnchorLabelQuotas
                      /\ CountLabel(chosen, n.label) >= AnchorLabelQuotas[n.label].max

\* Nothing is left out of the evidence before something that matters less is: whatever
\* was read for the answer, or besides, and is not in the evidence, comes after all that
\* is (takeWithinBudget stops where it could skip). And an answer with evidence is not
\* shown without any.
LeastImportantLeftOut ==
    response.via = "evidence" =>
        LET kept == ToSet(response.evidence.nodes)
            read == final.nodes \cup supporting.nodes
        IN  /\ \A n \in kept, m \in read \ kept : CompareNodes(n, m, final)
            /\ read # {} => kept # {}

\* As long as the graph stays as it is, a task that the rows of a Cypher brought into the
\* evidence has its comments there, up to the limit of a task, unless the evidence is
\* full with what matters more (fetchTaskComments).
CommentsComeWithTasks ==
    response.via = "evidence" /\ changes = 0 =>
        LET kept == ToSet(response.evidence.nodes)
            comments == TaskComments(kept \cap final.nodes).nodes
        IN  \A c \in Labelled(comments, "Comment") \ kept : \A n \in kept : CompareNodes(n, c, final)

\* As long as the graph stays as it is, its relationships between nodes of the evidence
\* are all there, and no others, as far as one of the two was read: however late the other
\* one came, as a comment or as an anchor. (Two anchors that came by relationships to what
\* was read may lack the one between them: nothing reads it.)
EvidenceIsInduced ==
    response.via = "evidence" /\ changes = 0 =>
        LET kept == Ids(ToSet(response.evidence.nodes))
            read == Ids(final.nodes \cup supporting.nodes)
            induced == {r \in stored.relationships : {r.startId, r.endId} \subseteq kept}
        IN  /\ ToSet(response.evidence.relationships) \subseteq induced
            /\ {r \in induced : {r.startId, r.endId} \cap read # {}} \subseteq ToSet(response.evidence.relationships)

\* The prompt of the answer is given what fits, and never relationships instead of nodes:
\* only a single item may exceed the budget, no relationship lacks an end, and a node is
\* left out only when the nodes without it use more than the relationships' reserve leaves.
PromptIsBalanced ==
    payload # NoEvidence =>
        LET nodes == payload.nodes
            rels == payload.relationships
            next == response.evidence.nodes[Len(nodes) + 1]
        IN  /\ LengthOf(nodes) <= PromptBudget \/ Len(nodes) = 1
            /\ Len(rels) > 1 => Serialized(nodes) + LengthOf(rels) <= PromptBudget
            /\ \A i \in DOMAIN rels : {rels[i].startId, rels[i].endId} \subseteq Ids(ToSet(nodes))
            /\ Len(nodes) < Len(response.evidence.nodes) =>
                  LengthOf(nodes) + next.size > PromptBudget - PromptReserve

\* The canvas of a page is a graph: the question page keeps all the evidence of its
\* answer on it, whatever expansions arrive, and no relationship there lacks an end.
ViewIsWhole ==
    /\ VisibleRelationships = view.relationships
    /\ result.nodes \subseteq view.nodes /\ result.relationships \subseteq view.relationships

\* What the explorer has selected is on its canvas, and so is, in every view to go back
\* to, what is selected there: selecting, expanding and undoing in any order.
SelectionIsShown ==
    page = "explorer" =>
        /\ selected \in Ids(view.nodes) \cup {Nobody}
        /\ \A i \in DOMAIN history : history[i].selected \in Ids(history[i].view.nodes)

\* Samples on the page are those of the type that is selected, in whatever order the
\* answers of the requests arrive (sampleRequestId).
SamplesMatchSelection ==
    page = "schema" /\ ~sampleLoading => \A n \in samples.nodes : n.label = selection

\* Where a limit leaves something out, of anchors, evidence or prompt, it is what
\* matters least, however the searches went and the graph changed.
LimitsCutTheLeast == AnchorsAreMixed /\ LeastImportantLeftOut /\ PromptIsBalanced

\* What belongs to the evidence came with it, in whichever of three reads.
EvidenceIsConnected == CommentsComeWithTasks /\ EvidenceIsInduced

\* The pages show what they were asked for last, in whatever order answers arrive.
PagesAreWhole == ViewIsWhole /\ SelectionIsShown /\ SamplesMatchSelection

\* Every question, expansion, search and request for samples comes to an end.
EveryRequestEnds ==
    /\ loading ~> ~loading
    /\ expanding # NoExpansion ~> expanding = NoExpansion
    /\ searching ~> ~searching
    /\ sampleLoading ~> ~sampleLoading

\* docs/flow.md on a Cypher that fails: it is regenerated once, and when it fails again
\* the anchors are what is answered from.
AnchorsAnswerFailures ==
    stage = "done" /\ response.via = "failure" /\ anchors # <<>> => response.evidence.nodes # <<>>
================================================================================
