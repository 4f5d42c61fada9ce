CONSTANTS
    p1 = p1
    p2 = p2
    first = first
    second = second
    last = last
    para = para
    window = window
    Analyses <- MCAnalyses
    Requests <- MCRequests
    Nodes <- MCNodes
    Refs <- MCRefs
    Texts <- MCTexts
    Windows <- MCWindows
    Matches = {"some", "others"}
    NotCached = NotCached
    Nobody = Nobody
SPECIFICATION Spec
INVARIANTS
    HeldByItsComputation
    SameMatchesForAll
PROPERTIES
    EveryDetectEnds
CHECK_DEADLOCK FALSE
