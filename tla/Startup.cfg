SPECIFICATION FairSpec
CONSTANTS
    Instances = {a, b, c}
    WithEnv = {a, b}
    NumFiles = 3
    MaxFailures = 3
CHECK_DEADLOCK FALSE
INVARIANTS
    TypeOK
    ServingHasSchema
    AppliedInOrder
    NeverReapplied
    RepeatsBounded
PROPERTIES
    OneGetsThrough
