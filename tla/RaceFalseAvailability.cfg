\* Two additions to one team overlap.
CONSTANTS
    ann = ann
    bob = bob
    cyd = cyd
    dan = dan
    mon = mon
    tue = tue
    alpha = alpha
    beta = beta
    Users = {ann, bob, cyd}
    TeamNames = {alpha, beta}
    Days = {mon, tue}
    Times = {1, 2, 3, 4}
    NoUser = NoUser
    NoSuchTeam = NoSuchTeam
    Mixes <- TwoAdditions
    InitialDBs <- Alpha
    MaxInFlight = 2
    MaxFaults = 0
SPECIFICATION Spec
INVARIANT NoFalseAvailabilityAtRest
CHECK_DEADLOCK FALSE
