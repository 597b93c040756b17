\* Three mixes of requests, one failed call, one deployment.
CONSTANTS
    ann = ann
    bob = bob
    pa = pa
    pb = pb
    na = na
    nb = nb
    Mixes <- MCMixes
    Emails <- MCEmails
    UserNames <- MCUserNames
    Passwords <- MCPasswords
    Names <- MCNames
    MaxFaults = 1
    MaxDeploys = 1
SPECIFICATION FairSpec
INVARIANTS
    TypeOK
    AccountsDistinct
    SessionsAreOwn
    SignedOutStaysOut
    AckedAccountStands
PROPERTIES
    OwnProfileOnly
    EveryRequestAnswered
CHECK_DEADLOCK FALSE
