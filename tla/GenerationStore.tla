---------------------------- MODULE GenerationStore ----------------------------
(***************************************************************************)
(* What one stage of the Memory pipeline promises the next one: it         *)
(* publishes whole generations, each for good and under a name of its own, *)
(* and its pointer, current-<stage>.json, names one of them.               *)
(*                                                                         *)
(* Source: the publishers under apps/pipeline/src/memory                   *)
(* (source-generation-publisher.ts, extraction-generation-publisher.ts and *)
(* wiki-builder.ts); every command of the pipeline reads them this way.    *)
(***************************************************************************)
CONSTANT None             \* the pointer file does not exist yet

VARIABLES published,      \* the generations a reader finds: [id, content]
          current         \* the id in the pointer file

vars == <<published, current>>

IsPublished(id) == \E g \in published : g.id = id

Init ==
    /\ published = {}
    /\ current = None

\* A generation appears at once, under a name nobody has used, and stays.
Install ==
    /\ \E g \in published' : /\ ~IsPublished(g.id)
                             /\ published' = published \cup {g}
    /\ UNCHANGED current

\* The pointer is replaced in one step, by the name of a generation on disk.
Point ==
    /\ IsPublished(current')
    /\ UNCHANGED published

Next == Install \/ Point

Spec == Init /\ [][Next]_vars
================================================================================
