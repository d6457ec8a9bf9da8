\* Two launches of the same image from different news drafts, two requests at once.
SPECIFICATION Spec
CONSTANTS
    Tokens = {"a", "b"}
    UriOf <- OneImage
    DraftOf <- OwnDrafts
    NewsDrafts = {"A", "B"}
    ArtDrafts = {"B"}
    PonsTokens = {}
    Requests = {"r1", "r2"}
    MaxRows = 2
    MaxCalls = 2
    MaxFaults <- EachOnce
    FaultBudget = 0
    MaxAttempts = 1
    NewsMaxAttempts = 1
INVARIANTS
    TypeOK
    NewsDoneIsLinked
PROPERTIES
    PageSpec
CHECK_DEADLOCK FALSE
