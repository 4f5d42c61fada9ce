CONSTANTS
    Letters <- MCLetters
    LowerOf <- MCLowerOf
    Chars <- MCChars
    Files <- MCFiles
    Rules <- LinkedRules
    MapOrders <- Orders
    Matches <- RuleMatches
    AutoFix <- FixOf
    PluginMethods <- MCPluginMethods
    PluginFixes = {}
    Norm = 2
    MaxLen = 6
SPECIFICATION FlagsSpec
INVARIANTS
    AnchorsResolve
    FlagIDsDistinct
    WordsFoundWhole
    CombinedAsWritten
    ThresholdReached
    WindowMatchesAreMatches
    NearInOneSentence
    GroupsOfTheMatch
    FixSettles
    ScoresAgree
CHECK_DEADLOCK FALSE
