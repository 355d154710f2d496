CONSTANTS
    MaxOpens = 2
    MaxCaptures = 1
    MaxRecordings = 2
    MaxChecks = 3
SPECIFICATION Spec
INVARIANTS GateOfThisConnection NoOrphanRecording SavedIsWhole
PROPERTIES EndsTogether StopsWithoutLink
CHECK_DEADLOCK FALSE
