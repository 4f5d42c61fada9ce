CONSTANTS
    Texts <- MCTexts
    AutoFix <- MCAutoFix
    ClientWords = {"a"}
    MaxAnswers = 1
SPECIFICATION Spec
INVARIANTS
    HighlightsTrue
    AllFixedWhereMarked
    ConnectionTended
PROPERTIES
    RejectedStay
    LastCheckShown
