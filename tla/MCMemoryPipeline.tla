--------------------------- MODULE MCMemoryPipeline ---------------------------
(* Instances of MemoryPipeline for TLC.                                      *)
EXTENDS MemoryPipeline, TLC

CONSTANTS p1, p2, s1, s2, k1, k2, o1, o2

\* One source with one or with two packets.
OnePacket == s1 :> {{k1}}
TwoPackets == s1 :> {{k1, k2}}

\* git cuts different evidence from the same revisions at different times (a
\* clone that was shallow, another diff algorithm).
TwoReadings == s1 :> {{k1}, {k1, k2}}

\* How often each command is started.
Runs(n, e, b, s) ==
    "normalize" :> n @@ "extract" :> e @@ "build" :> b @@ "search" :> s

RunsOfRace == Runs(1, 2, 2, 0)
RunsOfTrace == Runs(2, 1, 1, 1)

Symmetry == Permutations(Procs) \cup Permutations(Outputs)
================================================================================
