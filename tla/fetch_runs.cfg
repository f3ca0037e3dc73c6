\* Three runs, each failing or killed anywhere, on a wiki with or without an
\* entry that has no id.
CONSTANTS
    t1 = t1 t2 = t2 w1 = w1 w2 = w2 m1 = m1 m2 = m2
    None = None
    Posts = {t1, t2}
    Pages = {w1, w2}
    Members = {m1, m2}
    Mentions <- MentionsOfTwo
    Summaries <- SummariesOfTwo
    Roots = {w1}
    PostLists <- ListsOfAll
    Wikis <- CircleOrBroken
    Directory = {m1}
    RetryDelays = 1
    MaxRuns = 3
SPECIFICATION Spec
CHECK_DEADLOCK FALSE
INVARIANTS
    TypeOK
    SuccessIsComplete
    NothingSkipped
PROPERTY
    EveryRunEnds
