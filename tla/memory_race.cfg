\* Two commands at a time over one source, killed at any step; the LLM
\* may answer a packet in two ways.
CONSTANTS
    p1 = p1 p2 = p2 s1 = s1 s2 = s2 k1 = k1 k2 = k2 o1 = o1 o2 = o2
    None = None
    Procs = {p1, p2}
    Sources = {s1}
    Packets = {k1, k2}
    Outputs = {o1, o2}
    Readings <- TwoPackets
    MaxRuns <- RunsOfRace
    Crashes = TRUE
SPECIFICATION Spec
SYMMETRY Symmetry
CHECK_DEADLOCK FALSE
INVARIANTS
    TypeOK
    OneBuilder
    SuccessIsCached
