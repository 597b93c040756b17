\* One day, and two windows in all.
CONSTANTS
    Users = {ann, bob, cyd}
    ann = ann
    bob = bob
    cyd = cyd
    TeamNames = {team}
    Days = {mon}
    Times <- Instants
    Hours = {0, 7, 17, 24}
    Winter <- WinterZones
    Summer <- SummerZones
    NoUser = NoUser
    MaxPosts = 2
SPECIFICATION ZonedSpec
INVARIANTS RealInSummer
CONSTRAINT PostsBounded
CHECK_DEADLOCK FALSE
