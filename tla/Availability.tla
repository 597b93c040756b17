---------------------------- MODULE Availability ----------------------------
(***************************************************************************)
(* The window arithmetic shared by the handlers of the schedules service:  *)
(* the helpers of scheduleHandler.js and the loop bodies that use them.    *)
(* Everything here is a pure operator on the two kinds of schedule entry:  *)
(*                                                                         *)
(*   a day entry of a user      [day, startTime, endTime]                  *)
(*   a day entry of a team      the same and hasAvailability               *)
(*                                                                         *)
(* Times are numbers (a stored Date compares by its milliseconds).  A time *)
(* in a request body is compared with stored Dates as it came: a JSON body *)
(* holds milliseconds ("ms") or an ISO string ("iso"); a value read from   *)
(* the database is a Date ("date").                                        *)
(***************************************************************************)
EXTENDS Naturals, Sequences

Formats == {"iso", "ms", "date"}

DayEntry(Days, Times) ==
    [day : Days, startTime : Times, endTime : Times]

TeamEntry(Days, Times) ==
    [day : Days, startTime : Times, endTime : Times, hasAvailability : BOOLEAN]

(***************************************************************************)
(* findIndex(d => d.day == day), counted from 1; 0 stands for -1.          *)
(***************************************************************************)
FirstWithDay(entries, day, k) ==
    /\ k \in DOMAIN entries
    /\ entries[k].day = day
    /\ \A j \in 1 .. (k - 1) : entries[j].day # day

HasDay(entries, day) == \E k \in DOMAIN entries : entries[k].day = day

\* Mutant: the first entry of the document, whatever its day.
FindDayFirstEntry(entries, day) == IF HasDay(entries, day) THEN 1 ELSE 0

FindDay(entries, day) ==
    IF HasDay(entries, day)
    THEN CHOOSE k \in DOMAIN entries : FirstWithDay(entries, day, k)
    ELSE 0

(***************************************************************************)
(* needsUpdate compares a stored Date with the user's time.  A Date and an *)
(* ISO string compare as a number and NaN, so neither order holds.         *)
(***************************************************************************)
\* Mutant: the two comparisons swapped.
NeedsUpdateSwapped(format, userTime, teamTime, startTime) ==
    /\ format # "iso"
    /\ IF startTime THEN teamTime > userTime ELSE teamTime < userTime

NeedsUpdate(format, userTime, teamTime, startTime) ==
    /\ format # "iso"
    /\ IF startTime THEN teamTime < userTime ELSE teamTime > userTime

\* Mutant: currEnd < currStart for currEnd <= currStart.
WindowIsValidStrict(entry) ==
    [entry EXCEPT !.hasAvailability = ~(entry.endTime < entry.startTime)]

WindowIsValid(entry) ==
    [entry EXCEPT !.hasAvailability = ~(entry.endTime <= entry.startTime)]

(***************************************************************************)
(* The body of the loop of postMembersHandler.  `entry' is the element at  *)
(* the index in force when the lookup of the member's day has returned,    *)
(* `seen' the one the comparison was prepared with, `window' the member's  *)
(* posted window for the day of `seen'.                                    *)
(***************************************************************************)
MemberNarrows(seen, window) ==
    \/ NeedsUpdate("date", window.startTime, seen.startTime, TRUE)
    \/ NeedsUpdate("date", window.endTime, seen.endTime, FALSE)

NarrowByMember(entry, seen, window) ==
    LET later   == NeedsUpdate("date", window.startTime, seen.startTime, TRUE)
        earlier == NeedsUpdate("date", window.endTime, seen.endTime, FALSE)
    IN  IF later \/ earlier
        THEN WindowIsValid([entry EXCEPT
                 !.startTime = IF later THEN window.startTime ELSE @,
                 !.endTime   = IF earlier THEN window.endTime ELSE @])
        ELSE entry

\* Mutant: the else branch is missing.
CloseWindowForgotten(entry) == entry

\* The member has not posted the day: the window is closed at its start.
CloseWindow(entry) ==
    [entry EXCEPT !.endTime = entry.startTime, !.hasAvailability = FALSE]

\* The whole loop, when nothing else happens while it runs.
ScheduleWithMember(entries, posted) ==
    [k \in DOMAIN entries |->
        LET day == FindDay(posted, entries[k].day)
        IN  IF day # 0
            THEN NarrowByMember(entries[k], entries[k], posted[day])
            ELSE CloseWindow(entries[k])]

(***************************************************************************)
(* The body of the loop of postUserScheduleHandler, for one team of the    *)
(* user.  An end time that must move is given the START time of the window *)
(* just posted.                                                            *)
(***************************************************************************)
NarrowByOwnDay(entry, format, window) ==
    LET later   == NeedsUpdate(format, window.startTime, entry.startTime, TRUE)
        earlier == NeedsUpdate(format, window.endTime, entry.endTime, FALSE)
    IN  IF later \/ earlier
        THEN WindowIsValid([entry EXCEPT
                 !.startTime = IF later THEN window.startTime ELSE @,
                 !.endTime   = IF earlier THEN window.startTime ELSE @])
        ELSE entry

OpenEntry(window) ==
    [day |-> window.day, startTime |-> window.startTime,
     endTime |-> window.endTime, hasAvailability |-> TRUE]

\* The team's schedule after a member has posted `window'.
ScheduleAfterOwnDay(team, format, window) ==
    LET index == FindDay(team.schedule, window.day)
    IN  IF Len(team.members) > 1
        THEN IF index # 0
             THEN [team.schedule EXCEPT ![index] = NarrowByOwnDay(@, format, window)]
             ELSE team.schedule
        ELSE Append(team.schedule, OpenEntry(window))

\* The schedule of a new team: the creator's days, all of them open.
InitialTeamSchedule(entries) ==
    [k \in DOMAIN entries |-> OpenEntry(entries[k])]

\* What GET /v1/teams/:teamID shows: the entries marked available.
Shown(team) ==
    {team.schedule[k] : k \in {j \in DOMAIN team.schedule :
                                   team.schedule[j].hasAvailability}}

-----------------------------------------------------------------------------
(***************************************************************************)
(* Vocabulary of the properties.                                           *)
(***************************************************************************)

\* Some posted window of the day contains the entry's window.
Covers(entries, entry) ==
    \E k \in DOMAIN entries :
        /\ entries[k].day = entry.day
        /\ entries[k].startTime <= entry.startTime
        /\ entry.endTime <= entries[k].endTime

Exact(entry) == entry.hasAvailability <=> entry.startTime < entry.endTime

=============================================================================
