SPECIFICATION Spec
CONSTANTS
    Spelling <- MCSpelling
    None = None
    Block = Block
    Core <- MCCore
    Reads <- MCReads
    Project = "dev"
    NoName = None
    Slots = {s1, s2}
    Raws <- MCRaws
    Inferences <- MCInferences
    Decisions <- MCDecisions
    Halves <- MCHalves
    NoFile = NoFile
    Torn = Torn
    MaxRuns = 3
    MaxChanges = 1
SYMMETRY Swap
INVARIANTS
    TypeOK
    Closed
    EndsKeepTheirNode
    SpellingsMeet
    SyncIsExact
PROPERTY
    NamesAreHonoured
CHECK_DEADLOCK FALSE
