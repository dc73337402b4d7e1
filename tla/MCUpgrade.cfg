CONSTANTS
    MaxCommand = 2
    MaxVersion = 2
    ReleaseOf <- SameRelease
    Broken = {}
    MaxMishaps = 1
    MayLapse = {1}
SPECIFICATION UpFairSpec
INVARIANTS BinariesStay AppliedWasProved
PROPERTIES ImplementsSwitchover RequestIsAnswered
CHECK_DEADLOCK FALSE
