SPECIFICATION FairSpec
CONSTANTS
    Versions = {v1, v2}
    Flashed = v1
    Bare = bare
    Foreign = foreign
    None = none
    MaxUploads = 2
    MaxResets = 1
    MaxFailures = 1
INVARIANTS
    RollbackTargetWhole
    ReadyIsSound
PROPERTIES
    HealthyIsConfirmed
CHECK_DEADLOCK FALSE
