\* `member list` fails in the first of two runs; nothing mentions m2.
CONSTANTS
    t1 = t1 t2 = t2 w1 = w1 w2 = w2 m1 = m1 m2 = m2
    None = None
    Posts = {t1, t2}
    Pages = {w1, w2}
    Members = {m1, m2}
    Mentions <- MentionsOfOne
    Summaries <- SummariesOfTwo
    Roots = {w1}
    PostLists <- ListsOfTwo
    Wikis <- JustCircle
    Directory = {m1, m2}
    RetryDelays = 0
    MaxRuns = 2
SPECIFICATION Spec
CHECK_DEADLOCK FALSE
INVARIANT
    SuccessHasDirectory
