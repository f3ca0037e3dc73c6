------------------------- MODULE MCAppServerClient -------------------------
(* Instances of AppServerClient for TLC: two or three concurrent calls.    *)
EXTENDS AppServerClient, TLC

Symmetry == Permutations(Calls)
=============================================================================
