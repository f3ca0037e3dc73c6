------------------------------ MODULE MCWebPages ------------------------------
(* WebPages over two tasks, two comments of one of them, a wiki page and a       *)
(* concept.                                                                      *)
EXTENDS WebPages

Node(id, label, display, size) == [id |-> id, label |-> label, display |-> display, size |-> size]
t1 == Node("t1", "Task", 2, 2)
t2 == Node("t2", "Task", 1, 2)
m1 == Node("m1", "Comment", 4, 3)
m2 == Node("m2", "Comment", 3, 3)
w1 == Node("w1", "Wiki", 5, 2)
c1 == Node("c1", "Concept", 6, 1)

Rel(id, type, start, end) == [id |-> id, type |-> type, startId |-> start.id, endId |-> end.id, size |-> 1]
has1 == Rel(1, "HAS_COMMENT", t1, m1)
has2 == Rel(2, "HAS_COMMENT", t1, m2)
references == Rel(3, "REFERENCES", t1, t2)
tagged == Rel(4, "TAGGED", t2, c1)
documents == Rel(5, "DOCUMENTS", w1, c1)
mentions == Rel(6, "MENTIONS", t1, c1)

Whole == [nodes |-> {t1, t2, m1, m2, w1, c1}, relationships |-> {has1, has2, references, tagged, documents, mentions}]
WithoutTask == [nodes |-> {t2, w1, c1}, relationships |-> {tagged, documents}]
TwoGraphs == {Whole, WithoutTask}

ByScore(nodes) == [i \in DOMAIN nodes |-> [node |-> nodes[i], score |-> 9 - i]]
SomeHits == {ByScore(<<t1, t2, w1>>), ByScore(<<m1, t2, m2>>), ByScore(<<t2, c1>>)}
OneTerm == {<<"term">>}

SomeCyphers == {[readOnly |-> TRUE, aggregates |-> TRUE], [readOnly |-> TRUE, aggregates |-> FALSE],
                [readOnly |-> FALSE, aggregates |-> FALSE]}

Evidence(nodes, rels) == [nodes |-> nodes, relationships |-> rels]
SomeAnswers ==
    {Evidence({}, {}), Evidence({t1}, {}), Evidence({c1}, {documents}), Evidence({t1, t2, w1}, {references})}

ThreePages == {"query", "explorer", "schema"}
FewExpansions == [query |-> 1, explorer |-> 2, schema |-> 0]

OneOfEach == [Task |-> [min |-> 0, max |-> 1], Wiki |-> [min |-> 1, max |-> 1], Concept |-> [min |-> 0, max |-> 1]]
===============================================================================
