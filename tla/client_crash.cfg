\* The defaults: Node throws on unhandled rejections, the request timer (30 s)
\* is shorter than the turn timer (120 s or 180 s).
CONSTANTS
    Calls = {c1, c2}
    None = None
    MaxDeltas = 1
    ShortTurnTimeout = FALSE
    ThrowOnUnhandled = TRUE
SPECIFICATION Spec
CHECK_DEADLOCK FALSE
INVARIANT ProcessSurvives
