CONSTANTS
    r1 = r1
    r2 = r2
    NoRules = NoRules
    PluginMethods = {}
    PluginFixes = {}
    Requests <- MCRequests
    Contents <- MCContents
    FirstDisks <- MCFirstDisks
    MaxEdits = 0
SPECIFICATION Spec
INVARIANT ClientRulesServed
CHECK_DEADLOCK FALSE
