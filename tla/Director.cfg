CONSTANTS
    s1 = s1
    s2 = s2
    ann = ann
    bob = bob
    Workload <- Mixed
    SessionIds <- MCSessionIds
    Users <- MCUsers
    Owner <- MCOwner
    NoUser = NoUser
    Forged = Forged
    Targets = 3
    Half = 4
    MaxFaults = 1
SPECIFICATION FairSpec
INVARIANTS
    TypeOK
    ForwardedAsOwner
    Balanced
PROPERTIES
    EveryRequestForwarded
CHECK_DEADLOCK FALSE
