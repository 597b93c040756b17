\* Three people, one team, two days, and four hours of the day, so that windows
\* contain, overlap and miss each other, within a zone and across zones.  Four
\* windows let every member post a day and one of them post the other day later.
CONSTANTS
    Users = {ann, bob, cyd}
    ann = ann
    bob = bob
    cyd = cyd
    TeamNames = {team}
    Days = {mon, tue}
    Times <- Instants
    Hours = {0, 7, 17, 24}
    Winter <- WinterZones
    Summer <- SummerZones
    NoUser = NoUser
    MaxPosts = 4
SPECIFICATION ZonedSpec
INVARIANTS NoFalseAvailability WindowsAreWeights CommonIsReal
PROPERTIES WindowsOnlyNarrow
SYMMETRY Interchangeable
CONSTRAINT PostsBounded
CHECK_DEADLOCK FALSE
