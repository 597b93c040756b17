\* One request at a time, from empty collections.
CONSTANTS
    ann = ann
    bob = bob
    cyd = cyd
    dan = dan
    mon = mon
    tue = tue
    alpha = alpha
    beta = beta
    Users = {ann, bob}
    TeamNames = {alpha}
    Days = {mon, tue}
    Times = {1, 2, 3, 4}
    NoUser = NoUser
    NoSuchTeam = NoSuchTeam
    Mixes <- OneByOne
    InitialDBs <- Nothing
    MaxInFlight = 1
    MaxFaults = 0
SPECIFICATION Spec
INVARIANTS NoFalseAvailabilityAtRest AckedDayKept OneWindowPerDay AckedMemberKept DiesOfFaultsOnly
PROPERTIES AtomicStep
CHECK_DEADLOCK FALSE
