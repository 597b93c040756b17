\* Three requests at a time and one fault.
CONSTANTS
    ann = ann
    bob = bob
    cyd = cyd
    dan = dan
    mon = mon
    tue = tue
    alpha = alpha
    beta = beta
    Users = {ann, bob, cyd, dan}
    TeamNames = {alpha, beta}
    Days = {mon, tue}
    Times = {1, 2, 3, 4}
    NoUser = NoUser
    NoSuchTeam = NoSuchTeam
    Mixes <- Overlaps
    InitialDBs <- Alpha
    MaxInFlight = 3
    MaxFaults = 1
SPECIFICATION FairSpec
INVARIANTS TypeOK WindowExact CreatorFirst MembersPosted AckedTeamStands AckedDayKept
PROPERTIES EveryRequestAnswered
CHECK_DEADLOCK FALSE
