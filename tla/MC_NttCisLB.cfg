CONSTANTS
    c1 = c1
    c2 = c2
    d1 = d1
    d2 = d2
    a1 = a1
    Callers <- MC_Callers
    Domains <- MC_Domains
    Ips <- MC_Ips
    ListenerPorts <- MC_ListenerPorts
    MaxId = 4
    MaxFaults = 0
    MaxMembers = 0

SYMMETRY MC_Symmetry
SPECIFICATION Spec

INVARIANT TypeOK
INVARIANT BalancerHandlesAccurate
INVARIANT HandleIdsKindCorrect
INVARIANT LeftPoolsReachable
