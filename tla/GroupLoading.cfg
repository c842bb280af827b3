SPECIFICATION Spec
CONSTANTS
    Hidden = FALSE
    Image <- Images
    Scenarios <- AllScenarios
    Names <- Symbol
    Dirs = {d1}
    DefaultDir = d0
    MaxAuxStacks = 4
    Memory64Threads = FALSE
    NoName = NoName
    ReserveCount = 3
    MaxLaunches = 2
INVARIANTS TypeOK StaticDataIntact StacksDisjoint CleanedUp ReferencesHold TranslationAsAsked
