SPECIFICATION FairSpec
CONSTANTS
    RoleFile <- TheRoles
    Calls <- TheCalls
    NetworkLibraryDatabase = {"net", "rpc"}
    Nodes = {n1, n2}
    QueueLen = 2
    MaxPackets = 4
INVARIANTS TypeOK CountsExact RolesRight
PROPERTIES StatsFrozen StopReturns
