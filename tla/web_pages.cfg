SPECIFICATION FairSpec
CONSTANTS
    AnchorCandidateLimit = 2
    AnchorLabelQuotas <- OneOfEach
    EvidenceBudget = 8
    EvidenceCeiling = 4
    PromptBudget = 11
    PromptReserve = 5
    MaxHits = 3
    Graphs <- TwoGraphs
    TermLists <- OneTerm
    Question = "question"
    HitLists <- SomeHits
    Cyphers <- SomeCyphers
    Answers <- SomeAnswers
    TaskCommentFetchLimit = 1
    MaxChanges = 1
    Pages <- ThreePages
    Labels = {"Task", "Wiki"}
    PageSize = 1
    MaxQuestions = 2
    MaxExpansions <- FewExpansions
    MaxRequests = 3
INVARIANTS
    TypeOK
    LimitsCutTheLeast
    EvidenceIsConnected
    PagesAreWhole
PROPERTIES
    EveryRequestEnds
