---------------------------- MODULE MCLlmExtractor ----------------------------
(* Instances of LlmExtractor for TLC.                                          *)
EXTENDS LlmExtractor, TLC

CONSTANTS r1, r2, w1, w2, p1, p2, d1, d2, m1, v1, v2, k1, k2, k3

TwoWorkers == w1 :> r1 @@ w2 :> r1
TwoProcesses == w1 :> r1 @@ w2 :> r2

\* One project, or two whose tasks have the same number.
OneProject == p1 :> {d1, d2}
TwoProjects == p1 :> {d1} @@ p2 :> {d1}

\* In every project k1 is a key, k2 the id of the same task and k3 unknown.
Keys == k1 :> k1 @@ k2 :> k1 @@ k3 :> None
KeysOfOne == p1 :> Keys
KeysOfTwo == p1 :> Keys @@ p2 :> Keys

\* One relationship between known tasks, and one that leads nowhere.
OneAnswer == {{<<k2, k1>>, <<k1, k3>>}}

\* The two processes, each with its worker, are alike, and so are the prompts.
SwapProcesses == r1 :> r2 @@ r2 :> r1 @@ w1 :> w2 @@ w2 :> w1
SwapPrompts == v1 :> v2 @@ v2 :> v1
Symmetry == {SwapProcesses, SwapPrompts, SwapProcesses @@ SwapPrompts}
==============================================================================
