CONSTANTS
    Nodes = {n1, n2}
    Handlers = {h1}
    PublicIPs = {x, y}
    OtherIPs = {"private"}
    Loads = {"low"}
    Nameless = {}
    Capacity = 1
    MaxReports = 2
    MaxMishaps = 1
SPECIFICATION GeoFairSpec
INVARIANTS LocationIsOfItsAddress NoLostRefresh
PROPERTY MissedIsRepaired
