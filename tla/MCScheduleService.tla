-------------------------- MODULE MCScheduleService --------------------------
(***************************************************************************)
(* ScheduleService on small mixes of requests.                             *)
(***************************************************************************)
EXTENDS ScheduleService

CONSTANTS ann, bob, cyd, dan, mon, tue, alpha, beta

Window(day, start, end) == [day |-> day, startTime |-> start, endTime |-> end]

PostDay(id, user, window, format) ==
    [type |-> "schedule", id |-> id, user |-> user, signedIn |-> TRUE,
     complete |-> TRUE, window |-> window, format |-> format]

CreateTeam(id, user, team) ==
    [type |-> "team", id |-> id, user |-> user, signedIn |-> TRUE,
     complete |-> TRUE, team |-> team]

AddMember(id, user, team, added) ==
    [type |-> "member", id |-> id, user |-> user, signedIn |-> TRUE,
     complete |-> TRUE, team |-> team, added |-> added]

\* Collections that requests of before have left behind.
Empty == [userSchedules |-> [u \in Users |-> <<>>],
          teams |-> [n \in TeamNames |-> NoTeam]]

TeamOf(creator, schedules) ==
    [creator |-> creator, members |-> <<creator>>,
     schedule |-> InitialTeamSchedule(schedules[creator])]

WithAlpha(schedules) ==
    [userSchedules |-> schedules,
     teams |-> [n \in TeamNames |-> IF n = alpha THEN TeamOf(ann, schedules) ELSE NoTeam]]

\* Ann leads team alpha; she, bob and cyd have posted monday, dan nothing.
Posted ==
    [u \in Users |-> CASE u = ann -> <<Window(mon, 1, 4)>>
                       [] u = bob -> <<Window(mon, 2, 3)>>
                       [] u = cyd -> <<Window(mon, 3, 4)>>
                       [] OTHER   -> <<>>]

Alpha == {WithAlpha(Posted)}
Nothing == {Empty}

Incomplete(r) == [r EXCEPT !.complete = FALSE]
SignedOut(r) == [r EXCEPT !.signedIn = FALSE]

-----------------------------------------------------------------------------
(***************************************************************************)
(* Overlapping requests: additions to a team, days of its members and the  *)
(* creation of another team; two creations of one team, one of them by a   *)
(* user without a schedule, next to two first days of that user; and       *)
(* requests that return early.                                             *)
(***************************************************************************)
AddBob == AddMember(1, ann, alpha, bob)
AddCyd == AddMember(2, ann, alpha, cyd)
AnnPosts == PostDay(3, ann, Window(tue, 2, 3), "ms")
BobPosts == PostDay(11, bob, Window(tue, 1, 4), "ms")
BobCreates == CreateTeam(4, bob, beta)
DanCreates == CreateTeam(5, dan, beta)
DanPosts == {PostDay(6, dan, Window(mon, 1, 2), "iso"), PostDay(7, dan, Window(tue, 1, 2), "iso")}
Early == {PostDay(8, bob, Window(tue, 3, 3), "ms"),
          Incomplete(AddMember(9, bob, beta, dan)),
          SignedOut(CreateTeam(10, bob, beta))}

Overlaps ==
    {{AddBob, AddCyd, AnnPosts}, {AddBob, AddCyd, BobCreates}, {AddBob, AnnPosts, BobCreates},
     {AddBob, AddCyd, BobPosts},
     {BobCreates, DanCreates} \cup DanPosts, {BobCreates} \cup Early}

(***************************************************************************)
(* Requests sent one after the other, in every order.                      *)
(***************************************************************************)
OneByOne ==
    {{PostDay(1, ann, Window(mon, 1, 4), "iso"),
      PostDay(2, ann, Window(tue, 1, 3), "ms"),
      PostDay(3, bob, Window(mon, 2, 3), "ms"),
      PostDay(4, bob, Window(tue, 2, 4), "ms"),
      PostDay(5, bob, Window(mon, 1, 4), "iso"),
      CreateTeam(6, ann, alpha),
      CreateTeam(7, bob, alpha),
      AddMember(8, ann, alpha, bob),
      AddMember(9, bob, alpha, ann)}}

-----------------------------------------------------------------------------
(***************************************************************************)
(* Pairs of requests that disturb each other.  In the second bob's         *)
(* creation of a team runs in the middle of ann's loop.                    *)
(***************************************************************************)
TwoAdditions == {{AddBob, AddCyd}}

AdditionAndCreation == {{AddBob, BobCreates}}

=============================================================================
