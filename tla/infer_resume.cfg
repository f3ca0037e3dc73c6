\* A process with two workers, and again after it ended or was killed.
CONSTANTS
    r1 = r1 r2 = r2 w1 = w1 w2 = w2 p1 = p1 p2 = p2 d1 = d1 d2 = d2
    m1 = m1 v1 = v1 v2 = v2 k1 = k1 k2 = k2 k3 = k3
    None = None
    Torn = Torn
    Slots = {r1}
    Workers = {w1, w2}
    SlotOf <- TwoWorkers
    Projects = {p1}
    DocIds = {d1, d2}
    Documents <- OneProject
    Filters = {{}, {d1}}
    Models = {m1}
    Prompts = {v1}
    Endpoints = {k1, k2, k3}
    Index <- KeysOfOne
    Answers <- OneAnswer
    MaxAttempts = 1
    Reports = {"inferred", "failures", "dropped"}
    MaxRuns = 2
SPECIFICATION Spec
CHECK_DEADLOCK FALSE
INVARIANTS
    EachDocumentOnce
    CallsAreCounted
    OnlyTheRest
    EveryDocumentAccounted
PROPERTY
    EveryRunEnds
