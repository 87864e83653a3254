SPECIFICATION FairContainerSpec
CONSTANTS
    Addon = {m1, m2, m3}
    MaxAttempts = 3
    RetryAttempts = 2
INVARIANTS
    StartedHasAll
    CleanupLeavesOnlyStuck
PROPERTIES
    StartEnds
CHECK_DEADLOCK FALSE
