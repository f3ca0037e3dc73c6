\* Two commands at a time, failing or killed anywhere, while the reading of git
\* changes.
CONSTANTS
    p1 = p1 p2 = p2 s1 = s1 s2 = s2 k1 = k1 k2 = k2 o1 = o1 o2 = o2
    None = None
    Procs = {p1, p2}
    Sources = {s1}
    Packets = {k1, k2}
    Outputs = {o1}
    Readings <- TwoReadings
    MaxRuns <- RunsOfTrace
    Crashes = TRUE
SPECIFICATION Spec
CHECK_DEADLOCK FALSE
INVARIANTS
    Provenance
    SearchCoversSource
PROPERTIES
    LockReturns
    ImplementsStores
