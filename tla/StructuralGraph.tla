---------------------------- MODULE StructuralGraph ----------------------------
(* parse-structure: the graph that the rules of parse/structural-extractor.ts   *)
(* make of the raw documents of a project.                                      *)
(*                                                                              *)
(* Properties of nodes (subjects, excerpts, dates) are left out; of a           *)
(* relationship only the property that identifies it in Neo4j is kept.          *)
EXTENDS FiniteSets

CONSTANTS
    Project,    \* the project that is parsed
    NoName      \* nobody, no parent, no name in the tag itself, no identity

Node(label, key) == [label |-> label, key |-> key]

Edge(type, start, end, id) == [type |-> type, start |-> start, end |-> end, id |-> id]

NodeSet(label, keys) == {Node(label, k) : k \in keys}

Ends(r) == {r.start, r.end}

--------------------------------------------------------------------------------
(* Documents. A text is what the extractor finds in it: mentions of the form    *)
(* word/number, and places in the code.                                         *)

\* A mention counts if it is neither part of a URL, a path or a version, nor a
\* date or a protocol, and names another task of this project.
References(text, number) ==
    {m.number : m \in {x \in text.mentions :
        x.shape = "reference" /\ x.project = Project /\ x.number # number}}

TagName(raw, tag) ==
    IF tag.name # NoName THEN tag.name
    ELSE IF tag.id \in DOMAIN raw.tags THEN raw.tags[tag.id] ELSE NoName

NamedTags(raw, p) == {t \in p.tags : TagName(raw, t) # NoName}

Texts(p) == {p.text} \cup {c.text : c \in p.comments}

--------------------------------------------------------------------------------
(* One task: addPostDocument.                                                   *)

People(p) ==
    ({p.author} \cup {a.who : a \in p.assigned} \cup {c.author : c \in p.comments}) \ {NoName}

PostNodes(raw, p) ==
    {Node("Task", p.number)}
      \cup NodeSet("Person", People(p))
      \cup NodeSet("Concept", {TagName(raw, t) : t \in NamedTags(raw, p)})
      \cup NodeSet("Concept", UNION {t.code : t \in Texts(p)})
      \cup NodeSet("Comment", {c.id : c \in p.comments})

AuthorEdges(p) ==
    {Edge("AUTHORED", Node("Person", w), Node("Task", p.number), NoName) : w \in {p.author} \ {NoName}}

AssigneeEdges(p) ==
    {Edge("ASSIGNED_TO", Node("Task", p.number), Node("Person", a.who), a.role) : a \in p.assigned}

TagEdges(raw, p) ==
    {Edge("TAGGED", Node("Task", p.number), Node("Concept", TagName(raw, t)), t.dimension) :
        t \in NamedTags(raw, p)}

\* The parent need not have been collected.
ParentEdges(p) ==
    {Edge("CHILD_OF", Node("Task", p.number), Node("Task", n), NoName) : n \in {p.parent} \ {NoName}}

ReferenceEdges(p) ==
    {Edge("REFERENCES", Node("Task", p.number), Node("Task", n), NoName) :
        n \in UNION {References(t, p.number) : t \in Texts(p)}}

CommentEdges(p) ==
    {Edge("HAS_COMMENT", Node("Task", p.number), Node("Comment", c.id), NoName) : c \in p.comments}
      \cup {Edge("COMMENTED", Node("Person", c.author), Node("Comment", c.id), NoName) :
                c \in {x \in p.comments : x.author # NoName}}

PostEdges(raw, p) ==
    {Edge("CONTAINS", Node("Project", Project), Node("Task", p.number), NoName)}
      \cup AuthorEdges(p) \cup AssigneeEdges(p) \cup TagEdges(raw, p)
      \cup ParentEdges(p) \cup ReferenceEdges(p) \cup CommentEdges(p)

--------------------------------------------------------------------------------
(* One page, and the whole project.                                             *)

WikiNodes(w) == {Node("Wiki", w.page)} \cup NodeSet("Concept", w.text.code)

\* Unlike a task's, a page's parent must have been collected.
WikiEdges(raw, w) ==
    {Edge("CONTAINS", Node("Project", Project), Node("Wiki", w.page), NoName)}
      \cup {Edge("CHILD_OF", Node("Wiki", w.page), Node("Wiki", x.page), NoName) :
                x \in {y \in raw.wikis : y.page = w.parent}}

ParsedNodes(raw) ==
    {Node("Project", Project)}
      \cup NodeSet("Person", DOMAIN raw.members)
      \cup NodeSet("Concept", {raw.tags[t] : t \in DOMAIN raw.tags})
      \cup UNION {PostNodes(raw, p) : p \in raw.posts}
      \cup UNION {WikiNodes(w) : w \in raw.wikis}

\* References to tasks that were not collected are left out.
Parsed(raw) ==
    LET edges == UNION {PostEdges(raw, p) : p \in raw.posts}
                   \cup UNION {WikiEdges(raw, w) : w \in raw.wikis}
    IN [nodes |-> ParsedNodes(raw),
        rels |-> {r \in edges : r.type = "REFERENCES" => Ends(r) \subseteq ParsedNodes(raw)}]
================================================================================
