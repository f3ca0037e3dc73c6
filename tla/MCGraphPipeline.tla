---------------------------- MODULE MCGraphPipeline ----------------------------
(* A project with one tag, three tasks, two pages and two people.               *)
EXTENDS GraphPipeline, TLC

\* Spellings in code-point order, with their text and their key.
Table == <<
    <<"1: Foo", "1: foo", "1foo">>, <<"1: foo", "1: foo", "1foo">>,
    <<"1foo", "1foo", "1foo">>, <<"Bar", "bar", "bar">>, <<"Baz", "baz", "baz">>,
    <<"Concept:foo", "concept:foo", "conceptfoo">>, <<"Foo", "foo", "foo">>,
    <<"Q ux", "q ux", "qux">>, <<"Q.ux", "q.ux", "qux">>, <<"S:1", "s:1", "s1">>,
    <<"Task:2", "task:2", "task2">>, <<"Task:9", "task:9", "task9">>,
    <<"bar", "bar", "bar">>, <<"baz", "baz", "baz">>, <<"concept:foo", "concept:foo", "conceptfoo">>,
    <<"conceptfoo", "conceptfoo", "conceptfoo">>, <<"f-oo", "f-oo", "foo">>,
    <<"foo", "foo", "foo">>, <<"n-et", "n-et", "net">>, <<"net", "net", "net">>,
    <<"q", "q", "q">>, <<"q ux", "q ux", "qux">>, <<"q-ux", "q-ux", "qux">>,
    <<"q.ux", "q.ux", "qux">>, <<"qux", "qux", "qux">>, <<"s1", "s1", "s1">>,
    <<"s:1", "s:1", "s1">>, <<"task2", "task2", "task2">>, <<"task:2", "task:2", "task2">>,
    <<"task9", "task9", "task9">>, <<"task:9", "task:9", "task9">>, <<"ux", "ux", "ux">> >>

MCSpelling ==
    [n \in {Table[i][1] : i \in DOMAIN Table} |->
        LET i == CHOOSE j \in DOMAIN Table : Table[j][1] = n
        IN [text |-> Table[i][2], key |-> Table[i][3], rank |-> i,
            bare |-> CASE n = "1: Foo" -> "Foo" [] n = "1: foo" -> "foo" [] OTHER -> n,
            spaced |-> CASE n = "Q.ux" -> {"Q ux"} [] n = "q.ux" -> {"q ux"} [] OTHER -> {},
            parts |-> IF Table[i][2] = "q.ux" THEN {"q", "ux"} ELSE {}]]

Reading(label, key, lowered) == [label |-> label, key |-> key, lowered |-> lowered]

MCReads ==
    [n \in {"Concept:foo", "concept:foo", "Task:2", "task:2", "Task:9", "task:9"} |->
        CASE n = "Concept:foo" -> Reading("Concept", "foo", FALSE)
          [] n = "concept:foo" -> Reading("Concept", "foo", TRUE)
          [] n = "Task:2" -> Reading("Task", "2", FALSE)
          [] n = "task:2" -> Reading("Task", "2", TRUE)
          [] n = "Task:9" -> Reading("Task", "9", FALSE)
          [] n = "task:9" -> Reading("Task", "9", TRUE)]

MCCore == [c \in {"Bar"} |-> {"Baz"}]

--------------------------------------------------------------------------------
Plain == [mentions |-> {}, code |-> {}]
Mention(n) == [shape |-> "reference", project |-> Project, number |-> n]
Tag == [id |-> "t1", name |-> NoName, dimension |-> "1"]

Task(n, id) ==
    [number |-> n, id |-> id, author |-> NoName, assigned |-> {}, tags |-> {}, parent |-> NoName,
     text |-> Plain, comments |-> {}, prefix |-> None]

Assigned == [Task("1", "11") EXCEPT !.author = "ann", !.assigned = {[who |-> "bob", role |-> "to"]},
                !.comments = {[id |-> "c1", author |-> "bob", text |-> Plain]}]
Tagged == [Task("2", "12") EXCEPT !.tags = {Tag}, !.prefix = "f-oo"]
Child == [Task("3", "13") EXCEPT !.parent = "2", !.text.mentions = {Mention("2"), Mention("9")}]
\* It names a place in the code; its parent was not collected.
Stray == [Task("4", "14") EXCEPT !.parent = "9", !.text.code = {"S:1"}]

Page(n, parent, title) == [page |-> n, id |-> n, parent |-> parent, title |-> title, text |-> Plain]

Raw(posts, wikis) ==
    [posts |-> posts, wikis |-> wikis,
     tags |-> [t \in IF Tagged \in posts THEN {"t1"} ELSE {} |-> "1: Foo"],
     members |-> [m \in IF Assigned \in posts THEN {"ann", "cat"} ELSE {} |-> "a name"],
     listed |-> {[number |-> p.number, id |-> p.id] : p \in posts}]

Title == Page("w1", NoName, {"Q.ux"})

Titled == Raw({}, {Title})
People_ == Raw({Assigned}, {})
Tags_ == Raw({Tagged, Child}, {})
\* What Titled may grow to.
Strays == Raw({Stray}, {Title, Page("w2", "w1", {})})

MCRaws == {Titled, People_, Tags_, Strays}

\* parsed.jsonl cut off before its first record, after the lists of members and tags,
\* and after the relationships of the first task, if there is one.
MCHalves(g) ==
    LET lists == {Node("Project", "dev"), Node("Person", "ann"), Node("Person", "cat"),
                  Node("Concept", "1: Foo")}
        first == PostEdges(People_, Assigned) \cup PostEdges(Tags_, Tagged) \cup PostEdges(Strays, Stray)
    IN {NoGraph, [nodes |-> g.nodes \cap lists, rels |-> {}], [g EXCEPT !.rels = @ \cap first]}

--------------------------------------------------------------------------------
From(doc, node) == [label |-> node.label, key |-> node.key, doc |-> doc]
Says(doc, type, start, end, id) ==
    [type |-> type, start |-> start, end |-> end, id |-> id, doc |-> doc]

Concept(n) == Node("Concept", n)

\* Two of its concepts are called like the end point of a concept and of a task that
\* was not collected.
Inferred ==
    [nodes |-> {From(2, Concept("q-ux")), From(2, Concept("q ux")), From(3, Concept("n-et")),
                From(3, Concept("net")), From(3, Concept("Concept:foo")), From(3, Concept("Task:9"))},
     rels |-> {Says(2, "MENTIONS", Node("Task", "12"), Concept("Q ux"), NoName),
               Says(2, "MENTIONS", Node("Task", "2"), Concept("Baz"), NoName),
               Says(3, "RELATES_TO", Node("Task", "2"), Node("Task", "3"), "causes"),
               Says(3, "MENTIONS", Node("Task", "3"), Concept("foo"), NoName)}]

MCInferences == {Inferred}

OneDecision(n, c) == [m \in {n} |-> c]
MCDecisions == {Empty, OneDecision("q-ux", Block) @@ OneDecision("n-et", "Bar") @@ OneDecision("1: Foo", "Bar")}

Swap == Permutations(Slots)
================================================================================
