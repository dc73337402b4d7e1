CONSTANTS
    Processes = {p1}
    Families = {v4, v6}
    Addresses = {a1, a2}
    MaxFailure = 2
    MaxMoves = 2
    MaxTroubles = 4
    EgressFaults = {"write", "damage", "reload"}
SPECIFICATION EgressFairSpec
PROPERTIES KnownIsKept ReportsCatchUp
