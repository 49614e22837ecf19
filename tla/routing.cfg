SPECIFICATION Spec
CONSTANTS
    Config <- Configs
    Default <- Built
    NoFile = NoFile
    Decl <- Declarations
    MaxEntries = 1
    MaxEdits = 2
INVARIANTS TicksAreScheduled LadderCoversBudget
PROPERTY TierNeverChanges
CHECK_DEADLOCK FALSE
