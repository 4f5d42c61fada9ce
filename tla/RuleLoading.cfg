CONSTANTS
    r1 = r1
    r2 = r2
    NoRules = NoRules
    PluginMethods = {}
    PluginFixes = {}
    Requests <- MCRequests
    Contents <- MCContents
    FirstDisks <- MCFirstDisks
    MaxEdits = 1
SPECIFICATION Spec
INVARIANTS
    RefsLeadSomewhere
    LastLayerDecides
    OneRuleSet
PROPERTY
    EveryoneAnswered
CHECK_DEADLOCK FALSE
