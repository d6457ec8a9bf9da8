\* One Pons launch from a news draft without artwork; one failure of any kind.
SPECIFICATION FairSpec
CONSTANTS
    Tokens = {"a"}
    UriOf <- OneImage
    DraftOf <- OwnDrafts
    NewsDrafts = {"A"}
    ArtDrafts = {}
    PonsTokens = {"a"}
    Requests = {"r"}
    MaxRows = 2
    MaxCalls = 2
    MaxFaults <- EachOnce
    FaultBudget = 1
    MaxAttempts = 2
    NewsMaxAttempts = 3
PROPERTIES
    ImageShown
    GapCloses
    LoreKept
CHECK_DEADLOCK FALSE
