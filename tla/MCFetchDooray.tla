---------------------------- MODULE MCFetchDooray ----------------------------
(* Instances of FetchDooray for TLC.                                          *)
EXTENDS FetchDooray, TLC

CONSTANTS t1, t2, w1, w2, m1, m2

\* The second task may appear after the first list was taken, or an entry may
\* have no number.
ListsOfTwo == {{t1}, {t1, t2}}
ListsOfAll == ListsOfTwo \cup {{t1, None}}

\* The pages are linked in a circle; one entry may have no id, and then no run
\* that reaches it succeeds.
Circle == w1 :> {w2} @@ w2 :> {w1}
Broken == w1 :> {w2, None} @@ w2 :> {w1}
JustCircle == {Circle}
CircleOrBroken == {Circle, Broken}

MentionsOfTwo == t1 :> {m1} @@ t2 :> {m2} @@ w1 :> {} @@ w2 :> {m2}
MentionsOfOne == t1 :> {m1} @@ t2 :> {} @@ w1 :> {} @@ w2 :> {m1}
SummariesOfTwo == t1 :> {m1} @@ t2 :> {m1} @@ None :> {m2}
==============================================================================
