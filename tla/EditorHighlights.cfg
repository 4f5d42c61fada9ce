CONSTANTS
    Texts <- MCTexts
    AutoFix <- MCAutoFix
    ClientWords = {}
    MaxAnswers = 1
SPECIFICATION Spec
INVARIANTS
    HighlightsStayValid
