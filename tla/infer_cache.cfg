\* Two processes, of two projects or prompts, over one cache.
CONSTANTS
    r1 = r1 r2 = r2 w1 = w1 w2 = w2 p1 = p1 p2 = p2 d1 = d1 d2 = d2
    m1 = m1 v1 = v1 v2 = v2 k1 = k1 k2 = k2 k3 = k3
    None = None
    Torn = Torn
    Slots = {r1, r2}
    Workers = {w1, w2}
    SlotOf <- TwoProcesses
    Projects = {p1, p2}
    DocIds = {d1}
    Documents <- TwoProjects
    Filters = {{}}
    Models = {m1}
    Prompts = {v1, v2}
    Endpoints = {k1, k2, k3}
    Index <- KeysOfTwo
    Answers <- OneAnswer
    MaxAttempts = 2
    Reports = {"inferred"}
    MaxRuns = 2
SYMMETRY Symmetry
SPECIFICATION Spec
CHECK_DEADLOCK FALSE
INVARIANTS
    TypeOK
    OwnAnswers
