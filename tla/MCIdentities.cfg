CONSTANTS
    Hosts = {h1, h2}
    NewNames = {n1}
    Codes = {c1, c2}
    Runs = {r1, r2}
    EnrollFaults = {"lost", "kill", "revoke", "lapse", "rename"}
    MaxSerial = 2
    MaxSession = 2
    MaxAsk = 2
    IdentityFaults = {"crash", "lost_response", "drop", "reload", "revoke"}
    Panels = {p1, p2}
    MaxSet = 2
    KeyFaults = {"kill", "write", "sync", "power"}
SPECIFICATION PartsFairSpec
INVARIANTS CodeBuysOneIdentity LoadedWasIssued   TrustIsKept
PROPERTIES  RevokedIsFinal RevokedLosesSession
CHECK_DEADLOCK FALSE
