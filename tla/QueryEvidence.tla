----------------------------- MODULE QueryEvidence -----------------------------
(* How the API chooses the nodes it works with: the anchors of a question from  *)
(* its full-text hits, the evidence of an answer from what was read of the      *)
(* graph, and the part of the evidence that goes into the prompt.               *)
(*                                                                              *)
(* A node is [id, label, display, size]: display is its rank among displayed    *)
(* names, size the length it is serialized to. A relationship is [id, startId,  *)
(* endId, size], its id the rank of its id.                                     *)
EXTENDS Naturals, Sequences, SequencesExt, FiniteSetsExt

CONSTANTS
    AnchorCandidateLimit,   \* anchors of a question
    AnchorLabelQuotas,      \* label |-> [min, max]; a label that is not there has neither
    EvidenceBudget,         \* serialized length of the evidence's nodes
    EvidenceCeiling,        \* and their number
    PromptBudget,           \* serialized length of the evidence in the prompt
    PromptReserve,          \* and the share of it that relationships may keep
    MaxHits                 \* bound: hits of one search

ASSUME EvidenceAssumption ==
    /\ {AnchorCandidateLimit, EvidenceBudget, EvidenceCeiling, PromptBudget, PromptReserve, MaxHits}
         \subseteq Nat \ {0}
    /\ PromptReserve <= PromptBudget
    /\ \A l \in DOMAIN AnchorLabelQuotas :
          /\ {AnchorLabelQuotas[l].min, AnchorLabelQuotas[l].max} \subseteq Nat
          /\ AnchorLabelQuotas[l].min <= AnchorLabelQuotas[l].max

None == [nodes |-> {}, relationships |-> {}]

MergeEvidence(left, right) ==
    [nodes |-> left.nodes \cup right.nodes,
     relationships |-> left.relationships \cup right.relationships]

Ids(nodes) == {n.id : n \in nodes}

\* The set S in the order of Before, a strict total order on it.
Sorted(S, Before(_, _)) ==
    LET place == [i \in 1..Cardinality(S) |-> CHOOSE x \in S : Cardinality({y \in S : Before(y, x)}) = i - 1]
    IN  SubSeq(place, 1, Cardinality(S))

Ascending(places) == Sorted(places, LAMBDA i, j : i < j)

\* The items of a sequence at some of its places.
Picked(items, places) == [k \in DOMAIN Ascending(places) |-> items[Ascending(places)[k]]]

\* What the first k items are serialized to.
Used(items) ==
    LET used[k \in 0..Len(items)] == IF k = 0 THEN 0 ELSE used[k - 1] + items[k].size
    IN  used

LengthOf(items) == Used(items)[Len(items)]

\* What they are serialized to as an array, with its brackets and commas.
Serialized(items) == LengthOf(items) + 1 + Max({1, Len(items)})

--------------------------------------------------------------------------------
(* Anchors. A hit is [node, score].                                             *)

IsComment(hit) == hit.node.label = "Comment"

DropCommentHits_Original(resultSets) == resultSets

DropCommentHits(resultSets) ==
    [i \in DOMAIN resultSets |->
        Picked(resultSets[i], {k \in DOMAIN resultSets[i] : ~IsComment(resultSets[i][k])})]

\* A hit on a comment counts for its task, at the place of the comment; a task keeps
\* the first of its places and the best of its scores. A comment without a task is
\* dropped. parents is a function from ids of comments to tasks.
PromoteCommentAnchors(matches, parents) ==
    LET owned == {i \in DOMAIN matches : IsComment(matches[i]) => matches[i].node.id \in DOMAIN parents}
        node(i) == IF IsComment(matches[i]) THEN parents[matches[i].node.id] ELSE matches[i].node
        same(i) == {j \in owned : node(j) = node(i)}
        promoted == [i \in owned |-> [node |-> node(i), score |-> Max({matches[j].score : j \in same(i)})]]
    IN  Picked(promoted, {i \in owned : \A j \in same(i) : i <= j})

\* 1 / (60 + rank), as a whole number: a multiple of every divisor up to MaxHits = 4.
ReciprocalRank(rank) == (61 * 62 * 63 * 64) \div (60 + rank)

\* Where each node was found: <<result set, rank>>.
PlacesOf(node, resultSets) ==
    {p \in (DOMAIN resultSets) \X (1..MaxHits) :
        p[2] \in DOMAIN resultSets[p[1]] /\ resultSets[p[1]][p[2]].node = node}

Candidates(resultSets) == UNION {{h.node : h \in ToSet(resultSets[i])} : i \in DOMAIN resultSets}

RankOf(places) == MapThenSumSet(LAMBDA p : ReciprocalRank(p[2]), places)

BestOf(places, resultSets) == Max({resultSets[p[1]][p[2]].score : p \in places})

FirstOf(places) == Min({p[1] * (MaxHits + 1) + p[2] : p \in places})

Rating(node, resultSets) ==
    LET at == PlacesOf(node, resultSets)
    IN  [node |-> node, rank |-> RankOf(at), best |-> BestOf(at, resultSets), first |-> FirstOf(at)]

\* By reciprocal rank, then by best score, then by where the candidates came first.
Precedes(a, b) ==
    \/ a.rank > b.rank
    \/ a.rank = b.rank /\ a.best > b.best
    \/ a.rank = b.rank /\ a.best = b.best /\ a.first < b.first

RankedCandidates(resultSets) ==
    LET sorted == Sorted({Rating(n, resultSets) : n \in Candidates(resultSets)}, Precedes)
    IN  [i \in DOMAIN sorted |-> sorted[i].node]

CountLabel(nodes, label) == Cardinality({n \in nodes : n.label = label})

\* What a label is sure of, and what it may have before every other one has as much.
Least(label) == IF label \in DOMAIN AnchorLabelQuotas THEN AnchorLabelQuotas[label].min ELSE 0
Most(label) == IF label \in DOMAIN AnchorLabelQuotas THEN AnchorLabelQuotas[label].max ELSE AnchorCandidateLimit

\* Besides those chosen, the candidates whose label has room, until there are enough.
Selected(sorted, chosen, room) ==
    LET after[i \in 0..Len(sorted)] ==
            IF i = 0 THEN chosen
            ELSE LET before == after[i - 1]
                     n == sorted[i]
                 IN  IF Cardinality(before) < AnchorCandidateLimit /\ CountLabel(before, n.label) < room[n.label]
                     THEN before \cup {n} ELSE before
    IN  after[Len(sorted)]

\* First what every label is sure of, then what fits its maximum, then anything: room for
\* as many of each label as there are anchors at all.
ChosenAnchors(sorted) ==
    LET labels == {sorted[i].label : i \in DOMAIN sorted}
        sure == Selected(sorted, {}, [l \in labels |-> Least(l)])
        fair == Selected(sorted, sure, [l \in labels |-> Most(l)])
    IN  Selected(sorted, fair, [l \in labels |-> AnchorCandidateLimit])

RankAnchorCandidates(resultSets) ==
    LET sorted == RankedCandidates(resultSets)
        chosen == ChosenAnchors(sorted)
    IN  Picked(sorted, {i \in DOMAIN sorted : sorted[i] \in chosen})

--------------------------------------------------------------------------------
(* Evidence.                                                                    *)

LabelPriority(label) ==
    CASE label = "Task" -> 0 [] label = "Decision" -> 1 [] label = "Comment" -> 2
      [] label = "Wiki" -> 3 [] label = "Concept" -> 4 [] OTHER -> 5

\* The nodes of the answer come first, then the label counts, then the name.
Place(n, answer) == (IF n \in answer.nodes THEN 0 ELSE 6) + LabelPriority(n.label)

CompareNodes(left, right, answer) ==
    LET l == Place(left, answer)
        r == Place(right, answer)
    IN  l < r \/ (l = r /\ left.display < right.display)

CompareRelationships(left, right, answer) ==
    LET ends(r) == Cardinality({i \in {1, 2} : <<r.startId, r.endId>>[i] \in Ids(answer.nodes)})
    IN  ends(left) > ends(right) \/ (ends(left) = ends(right) /\ left.id < right.id)

NodesInOrder(nodes, answer) == Sorted(nodes, LAMBDA a, b : CompareNodes(a, b, answer))

RelationshipsInOrder(relationships, answer) ==
    Sorted(relationships, LAMBDA a, b : CompareRelationships(a, b, answer))

TakeWithinBudget_Skips(items, budget, ceiling) ==
    FoldLeft(LAMBDA taken, x : IF Len(taken) < ceiling /\ (taken = <<>> \/ LengthOf(taken) + x.size <= budget)
                               THEN Append(taken, x) ELSE taken, <<>>, items)

\* The longest part from the front that is within budget and ceiling; the first item
\* is taken whatever its length.
TakeWithinBudget(items, budget, ceiling) ==
    LET fits == {k \in 0..Len(items) : k <= ceiling /\ (k > 1 => Used(items)[k] <= budget)}
    IN  SubSeq(items, 1, Max(fits))

\* Of answer and supporting evidence, and of the anchors that a relationship ties to
\* them, what fits the budget, and the relationships among it.
RefineQueryEvidence(answer, supporting, anchors) ==
    LET base == MergeEvidence(answer, supporting)
        tied(a) == \E r \in base.relationships :
                      \/ r.startId = a.id /\ r.endId \in Ids(base.nodes)
                      \/ r.endId = a.id /\ r.startId \in Ids(base.nodes)
        pool == base.nodes \cup {a \in ToSet(anchors) : tied(a)}
        nodes == TakeWithinBudget(NodesInOrder(pool, answer), EvidenceBudget, EvidenceCeiling)
        among == {r \in base.relationships : {r.startId, r.endId} \subseteq Ids(ToSet(nodes))}
    IN  [nodes |-> nodes, relationships |-> RelationshipsInOrder(among, answer)]

\* The relationships with both ends among the nodes, in their order.
Reachable(relationships, nodes) ==
    Picked(relationships, {i \in DOMAIN relationships :
                              {relationships[i].startId, relationships[i].endId} \subseteq Ids(ToSet(nodes))})

BuildAnswerEvidencePayload_RelationshipsFirst(evidence) ==
    LET reserve == Min({Serialized(evidence.relationships), PromptBudget})
        nodes == TakeWithinBudget(evidence.nodes, PromptBudget - reserve, Len(evidence.nodes))
    IN  [nodes |-> nodes, relationships |-> Reachable(evidence.relationships, nodes)]

BuildAnswerEvidencePayload_WithoutBrackets(evidence) ==
    LET reserve == Min({Serialized(evidence.relationships), PromptReserve})
        nodes == TakeWithinBudget(evidence.nodes, PromptBudget - reserve, Len(evidence.nodes))
        reachable == Reachable(evidence.relationships, nodes)
        left == Max({0, PromptBudget - LengthOf(nodes)})
    IN  [nodes |-> nodes, relationships |-> TakeWithinBudget(reachable, left, Len(reachable))]

\* What the prompt is given of an evidence: nodes first, but never the whole budget
\* as long as there are relationships to use the rest of it.
BuildAnswerEvidencePayload(evidence) ==
    LET reserve == Min({Serialized(evidence.relationships), PromptReserve})
        nodes == TakeWithinBudget(evidence.nodes, PromptBudget - reserve, Len(evidence.nodes))
        reachable == Reachable(evidence.relationships, nodes)
        left == IF Serialized(nodes) < PromptBudget THEN PromptBudget - Serialized(nodes) ELSE 0
    IN  [nodes |-> nodes, relationships |-> TakeWithinBudget(reachable, left, Len(reachable))]
================================================================================
