CONSTANTS
    w1 = w1
    w2 = w2
    Workers = {w1, w2}
    MaxCommand = 3
    MaxRecords = 1
    Unverifiable = {1}
    Unsupported = {}
    Skewed = {2}
    DiskMayFail = TRUE
    HandlerOutcomes <- AnyOutcome
    MaxToken = 2
    Members = {a1, a2}
    MaxOrder = 2
    MaxRelease = 1
    FleetFaults = {"statement", "crash"}
    NodeNames = {n1, n2}
    TagNames = {t1, t2}
    Handlers = {h1, h2}
    MaxRequests = 2
SPECIFICATION CommandsSpec
INVARIANTS SettledNeverRuns RunningHasRecord FleetIsWhole  PatchIsWhole
PROPERTIES RunsOncePerLife UpgradesAreConfirmed
