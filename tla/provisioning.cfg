SPECIFICATION Spec
CONSTANTS
    MaxLessons = 1
    MaxQuestions = 1
    Containers = {c1, c2}
    Configs <- MCConfigs
    ManualRows <- MCManualRows
    MaxManual = 2
    MaxSeeds = 2
    MaxCrashes = 1
    MaxReverts = 4
INVARIANTS TypeOK SchemaMatchesApplied OneSuperAdmin ServesProvisioned SliceWhole UsageCoversTransactions
PROPERTIES OnlyDependentsTouched
CONSTRAINT RevertsApart OneStory
SYMMETRY Symmetry
CHECK_DEADLOCK FALSE
