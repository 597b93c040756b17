------------------------------ MODULE TimeZones -------------------------------
(***************************************************************************)
(* People in different time zones: the client's conversions of hours       *)
(* (toMongoDate, toClientDate, hourOptions) in front of AtomicSchedules.   *)
(*                                                                         *)
(* The page makes an hour of a day an instant of a fixed date, 1998-01-01, *)
(* in the zone of the browser, and sends it next to the name of the day.   *)
(* Here an instant is counted in hours from 1997-12-31T00:00Z, and a zone  *)
(* is a whole number of hours east of Greenwich.                           *)
(***************************************************************************)
EXTENDS AtomicSchedules, Weights, Integers

CONSTANTS
    Hours,    \* the hours offered: of 0 .. 24, midnight to "End of Day"
    Winter,   \* the zone of each user's browser, on 1998-01-01,
    Summer    \* and half a year later

ToMongoDate(u, hour) == 24 + hour - Winter[u]

ASSUME HoursOfADay == Hours \subseteq 0 .. 24
ASSUME ZonesAreHours == Winter \in [Users -> -12 .. 14] /\ Summer \in [Users -> -12 .. 14]
ASSUME InstantsAreTimes == \A u \in Users, h \in Hours : ToMongoDate(u, h) \in Times

VARIABLE meant  \* history: the hours of a day each user said to be free

zoned == <<userSchedules, teams, meant>>

\* Mutant: without local(), the time of day is Greenwich's.
ToClientDateUTC(u, instant) == instant % 24

\* What is displayed is a time of day: 12:00 am ends a window as hour 24.
ToClientDate(u, instant) == (instant + Winter[u]) % 24

ToClientEnd(u, instant) ==
    IF ToClientDate(u, instant) = 0 THEN 24 ELSE ToClientDate(u, instant)

-----------------------------------------------------------------------------
ZonedInit == AtomicInit /\ meant = [u \in Users |-> {}]

\* The page posts ISO strings; other callers of the endpoint may send numbers.
PostDay(u, day, from, to, format) ==
    /\ PostSchedule(u, [day |-> day, startTime |-> ToMongoDate(u, from),
                        endTime |-> ToMongoDate(u, to)], format)
    /\ meant' = [meant EXCEPT ![u] = @ \cup {[day |-> day, from |-> from, to |-> to]}]

ZonedNext ==
    \/ \E u \in Users, day \in Days, from, to \in Hours, format \in {"iso", "ms"} :
           PostDay(u, day, from, to, format)
    \/ \E u \in Users, n \in TeamNames : PostTeam(u, n) /\ UNCHANGED meant
    \/ \E u, added \in Users, n \in TeamNames : PostMember(u, n, added) /\ UNCHANGED meant

ZonedSpec == ZonedInit /\ [][ZonedNext]_zoned

-----------------------------------------------------------------------------
(***************************************************************************)
(* The windows are the prototype's: an entry shown to a team is exactly    *)
(* the hours at which the weights count all of its members, whatever order *)
(* the windows were posted and narrowed in.                                *)
(***************************************************************************)
FreeAt(u, day) ==
    [t \in Times |-> \E k \in DOMAIN userSchedules[u] :
        LET posted == userSchedules[u][k]
        IN  posted.day = day /\ posted.startTime <= t /\ t < posted.endTime]

WindowsAreWeights ==
    \A n \in TeamNames : \A entry \in Shown(teams[n]) :
        LET users == [i \in DOMAIN teams[n].members |-> FreeAt(teams[n].members[i], entry.day)]
        IN  TeamSchedule(users, Times) =
               [t \in Times |-> entry.startTime <= t /\ t < entry.endTime]

(***************************************************************************)
(* What a member v of a team reads is true: from the first hour shown to   *)
(* the last, on v's clocks, every member m said to be free, on m's clocks. *)
(***************************************************************************)
TrueFor(now, v, m, entry) ==
    \E said \in meant[m] :
        /\ said.day = entry.day
        /\ said.from - now[m] <= ToClientDate(v, entry.startTime) - now[v]
        /\ ToClientEnd(v, entry.endTime) - now[v] <= said.to - now[m]

\* The clocks of the two have moved alike since January.
SameShift(now, v, m) == now[v] - Winter[v] = now[m] - Winter[m]

(***************************************************************************)
(* Hours read are true, although an instant may be of another date where   *)
(* it is read and the page shows neither dates nor zones: a member's own   *)
(* window keeps what that member reads within the day.  This holds while   *)
(* the clocks of the two have moved alike since January, whose zone is the *)
(* one both conversions use.                                               *)
(***************************************************************************)
CommonIsReal ==
    \A n \in TeamNames : \A entry \in Shown(teams[n]) : \A v, m \in Members(n) :
        \A now \in {Winter, Summer} : SameShift(now, v, m) => TrueFor(now, v, m, entry)

(***************************************************************************)
(* Story 8 of README.md: the hours are those of the viewer's time zone,    *)
(* in summer too.                                                          *)
(***************************************************************************)
RealInSummer ==
    \A n \in TeamNames : \A entry \in Shown(teams[n]) : \A v, m \in Members(n) :
        TrueFor(Summer, v, m, entry)

=============================================================================
