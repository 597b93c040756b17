---------------------------- MODULE ScheduleStore ----------------------------
(***************************************************************************)
(* The two MongoDB collections of the schedules service (schemas.js), and  *)
(* what must be true of them whoever writes to them.                       *)
(***************************************************************************)
EXTENDS Availability, SequencesExt

CONSTANTS
    Users,      \* people with an account: an id and an email of the gateway
    TeamNames,  \* team names; the unique name stands for the team's _id too
    Days,       \* labels of days
    Times,      \* instants, as numbers
    NoUser      \* the creator of a team that does not exist

ASSUME TimesAreNumbers == Times \subseteq Nat
ASSUME NoUserIsNobody == NoUser \notin Users
ASSUME TeamNamesFinite == IsFiniteSet(TeamNames)

VARIABLES
    userSchedules,  \* the UserSchedule collection: the posted days of a user,
                    \* in the order of posting; <<>> when there is no document
    teams           \* the Team collection: creator, members and schedule

NoTeam == [creator |-> NoUser, members |-> <<>>, schedule |-> <<>>]

Team == [creator : Users \cup {NoUser},
         members : Seq(Users),
         schedule : Seq(TeamEntry(Days, Times))]

StoreTypeOK ==
    /\ userSchedules \in [Users -> Seq(DayEntry(Days, Times))]
    /\ teams \in [TeamNames -> Team]

\* A team that does not exist has no entries and no members.
Exists(n) == teams[n] # NoTeam

Members(n) == ToSet(teams[n].members)

-----------------------------------------------------------------------------
(***************************************************************************)
(* What the collections must satisfy.                                      *)
(***************************************************************************)

(***************************************************************************)
(* An entry is marked available exactly when its window is not empty.  The *)
(* flag is computed in two handlers, and only after some of the updates.   *)
(***************************************************************************)
WindowExact ==
    \A n \in TeamNames : \A k \in DOMAIN teams[n].schedule :
        Exact(teams[n].schedule[k])

(***************************************************************************)
(* A window shown to a team lies inside a window that every one of its     *)
(* members posted for that day.                                            *)
(***************************************************************************)
NoFalseAvailability ==
    \A n \in TeamNames : \A entry \in Shown(teams[n]) :
        \A m \in Members(n) : Covers(userSchedules[m], entry)

=============================================================================
