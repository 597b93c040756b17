\* Three people, so that an id can pass to another and a third join their team;
\* an id more, so that one may be used up by a sign-up that was refused; two
\* deployments, so that MongoDB can follow the gateway and precede it.
CONSTANTS
    People = {ann, bob, cyd}
    TeamNames = {alpha}
    Days = {mon, tue}
    MaxID = 4
    MaxDeploys = 2
SPECIFICATION Spec
INVARIANTS OwnScheduleShown TeamsShownToMembers 
SYMMETRY Interchangeable
CHECK_DEADLOCK FALSE
