CONSTANTS
    MaxCommand = 1
    MaxVersion = 2
    ReleaseOf <- SameRelease
    Broken = {}
    MaxMishaps = 0
    MayLapse = {}
SPECIFICATION UpSpec
INVARIANT ReadyIsProved
CHECK_DEADLOCK FALSE
