--------------------------- MODULE AtomicSchedules ---------------------------
(***************************************************************************)
(* What the schedules service promises to its users: posting availability, *)
(* creating a team and adding a member each take effect at one instant, on *)
(* the two MongoDB collections as they are at that instant.                *)
(*                                                                         *)
(* ScheduleService models the handlers as they run, one database call at a *)
(* time.                                                                   *)
(***************************************************************************)
EXTENDS ScheduleStore

collections == <<userSchedules, teams>>

-----------------------------------------------------------------------------
AtomicInit ==
    /\ userSchedules = [u \in Users |-> <<>>]
    /\ teams = [n \in TeamNames |-> NoTeam]

(***************************************************************************)
(* A user's first day creates the document and touches no team: only a     *)
(* user with a document can be in one.                                     *)
(***************************************************************************)
PostSchedule(u, window, format) ==
    /\ ~HasDay(userSchedules[u], window.day)
    /\ window.startTime < window.endTime
    /\ userSchedules' = [userSchedules EXCEPT ![u] = Append(@, window)]
    /\ teams' =
         IF userSchedules[u] = <<>> THEN teams
         ELSE [n \in TeamNames |->
                 IF u \in Members(n)
                 THEN [teams[n] EXCEPT !.schedule =
                          ScheduleAfterOwnDay(teams[n], format, window)]
                 ELSE teams[n]]

PostTeam(u, n) ==
    /\ ~Exists(n)
    /\ userSchedules[u] # <<>>
    /\ teams' = [teams EXCEPT ![n] =
                   [creator |-> u, members |-> <<u>>,
                    schedule |-> InitialTeamSchedule(userSchedules[u])]]
    /\ UNCHANGED userSchedules

PostMember(u, n, added) ==
    /\ teams[n].creator = u
    /\ added \notin Members(n)
    /\ userSchedules[added] # <<>>
    /\ teams' = [teams EXCEPT
                   ![n].members = Append(@, added),
                   ![n].schedule = ScheduleWithMember(@, userSchedules[added])]
    /\ UNCHANGED userSchedules

AtomicNext ==
    \/ \E u \in Users, window \in DayEntry(Days, Times), format \in {"iso", "ms"} :
           PostSchedule(u, window, format)
    \/ \E u \in Users, n \in TeamNames : PostTeam(u, n)
    \/ \E u, added \in Users, n \in TeamNames : PostMember(u, n, added)

AtomicSpec == AtomicInit /\ [][AtomicNext]_collections

-----------------------------------------------------------------------------
(***************************************************************************)
(* Nothing reopens or widens a window of a team: an entry that is closed   *)
(* stays closed, one that is open only loses time.                         *)
(***************************************************************************)
WindowsOnlyNarrow ==
    [][\A n \in TeamNames : \A k \in DOMAIN teams[n].schedule :
          LET before == teams[n].schedule[k]
              after  == teams'[n].schedule[k]
          IN  after.hasAvailability =>
                 /\ before.hasAvailability
                 /\ before.startTime <= after.startTime
                 /\ after.endTime <= before.endTime]_collections

=============================================================================
