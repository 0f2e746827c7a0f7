\* Two nodes, two messages, two clients, four calls and one crash of the master.
CONSTANTS
    Nodes = {"A", "B"}
    Clients = {c1, c2}
    Ids = {1, 2}
    Host <- HostOf
    Port <- PortOf
    MaxCalls = 4
    MaxCrashes = 1
    c1 = c1
    c2 = c2
SYMMETRY AnyClient
SPECIFICATION Spec
INVARIANTS TypeOK OneReader
PROPERTIES DeletedStaysGone FailsOnlyIfRefused
CHECK_DEADLOCK FALSE
