--------------------------- MODULE ScheduleService ---------------------------
(***************************************************************************)
(* The Node process of servers/schedules: the three handlers that change   *)
(* state, run concurrently.  A handler runs alone between two awaits; a    *)
(* step of this module is such a stretch, from the answer of one database  *)
(* query to the next.  Where the stretch touches no memory that handlers   *)
(* share, the query it starts with is evaluated in the same step; where it *)
(* does, the query is a step of its own, because other handlers may run    *)
(* between the query and its continuation.                                 *)
(*                                                                         *)
(* The handlers share one variable: their loops write `for (i = 0; ...)'   *)
(* without declaring i, so i is a global of the process.  Their updates    *)
(* are not awaited: each is in flight, on a connection of its own, until   *)
(* MongoDB executes it, in any order.                                      *)
(***************************************************************************)
EXTENDS ScheduleStore

CONSTANTS
    Mixes,        \* the sets of requests clients may send
    NoSuchTeam,   \* a team id that names no team
    InitialDBs,   \* the contents the collections may have at first: records
                  \* with the fields userSchedules and teams
    MaxInFlight,  \* bound on the requests being handled at once
    MaxFaults     \* bound on failed updates and crashes of the process

(***************************************************************************)
(* A request.  `signedIn' says that the gateway sent an X-User header,     *)
(* `complete' that the body has the fields the handler asks for.  The id   *)
(* tells apart two sendings of the same request.                           *)
(***************************************************************************)
Request ==
    [type : {"schedule"}, id : Nat, user : Users, signedIn : BOOLEAN,
     complete : BOOLEAN, window : DayEntry(Days, Times), format : {"iso", "ms"}]
    \cup
    [type : {"team"}, id : Nat, user : Users, signedIn : BOOLEAN,
     complete : BOOLEAN, team : TeamNames]
    \cup
    [type : {"member"}, id : Nat, user : Users, signedIn : BOOLEAN,
     complete : BOOLEAN, team : TeamNames \cup {NoSuchTeam}, added : Users]

Workload == UNION Mixes

ASSUME WorkloadIsRequests == Workload \subseteq Request /\ IsFiniteSet(Workload)
ASSUME StrayTeamIsNoTeam == NoSuchTeam \notin TeamNames
ASSUME BoundsAreNumbers == MaxInFlight \in Nat /\ MaxFaults \in Nat

(***************************************************************************)
(* What any mix of requests leaves behind (ScheduleServiceProofs): posted  *)
(* windows are proper, flags agree with windows, the creator is the first  *)
(* member, and all members have posted.  Nothing is said of the days of a  *)
(* user being distinct or of a team's windows lying in its members'.       *)
(***************************************************************************)
Proper(entries) ==
    \A k \in DOMAIN entries : entries[k].startTime < entries[k].endTime

ExactEntries(entries) == \A k \in DOMAIN entries : Exact(entries[k])

LegalTeam(team, schedules) ==
    /\ team.creator \in Users
    /\ team.members # <<>>
    /\ team.members[1] = team.creator
    /\ \A i \in DOMAIN team.members : schedules[team.members[i]] # <<>>
    /\ ExactEntries(team.schedule)

LegalDB(schedules, ts) ==
    /\ schedules \in [Users -> Seq(DayEntry(Days, Times))]
    /\ ts \in [TeamNames -> Team]
    /\ \A u \in Users : Proper(schedules[u])
    /\ \A n \in TeamNames : ts[n] # NoTeam => LegalTeam(ts[n], schedules)

ASSUME InitialDBsAreLegal ==
    \A db \in InitialDBs : LegalDB(db.userSchedules, db.teams)

VARIABLES
    pc,      \* what each request's handler is waiting for
    local,   \* what the handler holds in its local variables
    gi,      \* the global i
    writes,  \* updates sent to MongoDB and not executed yet
    answer,  \* the status each request was answered with; 0 for none
    up,      \* the process runs
    faults   \* how many faults there have been

handlers == <<pc, local, gi, answer, up>>
store == <<userSchedules, teams>>
vars == <<userSchedules, teams, pc, local, gi, writes, answer, up, faults>>

Stage == {"waiting",                                  \* not received yet
          "findDay", "findSchedule", "findTeams", "teamsFound",
          "findName", "findCreator", "creatorFound",
          "findTeam", "findMember", "findAdded", "findTeamAgain", "teamFound",
          "findAddedDay", "addedDayFound",
          "handled",                                  \* the handler returned
          "dead"}                                     \* the process died first

Status == {0, 201, 400, 401, 403, 404, 409, 500}

(***************************************************************************)
(* own       the user's posted days, as read                               *)
(* snapshot  the teams the user is in, as read                             *)
(* members   team[0].members                                               *)
(* schedule  updatedTeamSched, which is also the array the loop runs over  *)
(* at        the index `curr' was taken at, counted from 1                 *)
(* found     the added member's window for the day of curr, or <<>>        *)
(***************************************************************************)
Local ==
    [own : Seq(DayEntry(Days, Times)),
     snapshot : [TeamNames -> Team],
     members : Seq(Users),
     schedule : Seq(TeamEntry(Days, Times)),
     at : Nat,
     found : Seq(DayEntry(Days, Times))]

Blank == [own |-> <<>>, snapshot |-> [n \in TeamNames |-> NoTeam],
          members |-> <<>>, schedule |-> <<>>, at |-> 0, found |-> <<>>]

Write ==
    [kind : {"insertUser", "setUserSchedule"}, user : Users,
     schedule : Seq(DayEntry(Days, Times))]
    \cup
    [kind : {"insertTeam"}, team : TeamNames, creator : Users,
     schedule : Seq(TeamEntry(Days, Times))]
    \cup
    [kind : {"setTeamSchedule"}, team : TeamNames,
     schedule : Seq(TeamEntry(Days, Times))]
    \cup
    [kind : {"setMembers"}, team : TeamNames, members : Seq(Users)]

TypeOK ==
    /\ StoreTypeOK
    /\ pc \in [Workload -> Stage]
    /\ local \in [Workload -> Local]
    /\ gi \in Nat
    /\ writes \in [Workload -> SUBSET Write]
    /\ answer \in [Workload -> Status]
    /\ up \in BOOLEAN
    /\ faults \in 0 .. MaxFaults

Init ==
    /\ \E db \in InitialDBs : userSchedules = db.userSchedules /\ teams = db.teams
    /\ pc = [r \in Workload |-> "waiting"]
    /\ local = [r \in Workload |-> Blank]
    /\ gi = 0
    /\ writes = [r \in Workload |-> {}]
    /\ answer = [r \in Workload |-> 0]
    /\ up = TRUE
    /\ faults = 0

-----------------------------------------------------------------------------
(***************************************************************************)
(* The ways a stretch of a handler ends.                                   *)
(***************************************************************************)
At(r, stage) == up /\ pc[r] = stage

\* The next query is sent; l is what the handler remembers.
Await(r, stage, l) ==
    /\ pc' = [pc EXCEPT ![r] = stage]
    /\ local' = [local EXCEPT ![r] = l]
    /\ UNCHANGED <<writes, answer, up, faults>>

\* An early return.
Return(r, status) ==
    /\ pc' = [pc EXCEPT ![r] = "handled"]
    /\ local' = [local EXCEPT ![r] = Blank]
    /\ answer' = [answer EXCEPT ![r] = status]
    /\ UNCHANGED <<gi, writes, up, faults>>

\* The handler returns with these updates in flight.
Send(r, ws) ==
    /\ pc' = [pc EXCEPT ![r] = "handled"]
    /\ local' = [local EXCEPT ![r] = Blank]
    /\ writes' = [writes EXCEPT ![r] = ws]
    /\ UNCHANGED <<answer, up, faults>>

(***************************************************************************)
(* An error nobody catches ends the process.  Updates already sent may     *)
(* still be executed.                                                      *)
(***************************************************************************)
Die ==
    /\ up' = FALSE
    /\ pc' = [r \in Workload |-> IF pc[r] = "waiting" THEN "waiting" ELSE "dead"]
    /\ local' = [r \in Workload |-> Blank]
    /\ gi' = 0

DieHandling == Die /\ UNCHANGED <<writes, answer, faults>>

-----------------------------------------------------------------------------
(***************************************************************************)
(* A request arrives.  A client knows the id of a team once it exists.     *)
(***************************************************************************)
Busy(r) == pc[r] \notin {"waiting", "handled", "dead"} \/ writes[r] # {}

FirstQuery == [schedule |-> "findDay", team |-> "findName", member |-> "findTeam"]

Received == {q \in Workload : pc[q] # "waiting"}

Receive(r) ==
    /\ At(r, "waiting")
    /\ \E mix \in Mixes : Received \cup {r} \subseteq mix
    /\ Cardinality({q \in Workload : Busy(q)}) < MaxInFlight
    /\ r.type = "member" /\ r.team \in TeamNames => Exists(r.team)
    /\ CASE ~r.signedIn -> Return(r, 401)
         [] r.signedIn /\ r.type # "member" /\ ~r.complete -> Return(r, 400)
         [] OTHER -> Await(r, FirstQuery[r.type], Blank) /\ UNCHANGED gi
    /\ UNCHANGED store

-----------------------------------------------------------------------------
(***************************************************************************)
(* POST /v1/schedules: postUserScheduleHandler.                            *)
(***************************************************************************)
\* Mutant: no test for a day posted already.
ScheduleFindDayUnchecked(r) ==
    /\ At(r, "findDay")
    /\ IF r.window.startTime >= r.window.endTime
       THEN Return(r, 400)
       ELSE Await(r, "findSchedule", Blank) /\ UNCHANGED gi
    /\ UNCHANGED store

ScheduleFindDay(r) ==
    /\ At(r, "findDay")
    /\ CASE HasDay(userSchedules[r.user], r.window.day) -> Return(r, 409)
         [] ~HasDay(userSchedules[r.user], r.window.day)
              /\ r.window.startTime >= r.window.endTime -> Return(r, 400)
         [] OTHER -> Await(r, "findSchedule", Blank) /\ UNCHANGED gi
    /\ UNCHANGED store

ScheduleFindSchedule(r) ==
    /\ At(r, "findSchedule")
    /\ IF userSchedules[r.user] = <<>>
       THEN Send(r, {[kind |-> "insertUser", user |-> r.user, schedule |-> <<r.window>>]})
       ELSE Await(r, "findTeams", [Blank EXCEPT !.own = userSchedules[r.user]])
    /\ UNCHANGED <<userSchedules, teams, gi>>

TeamsOf(u) == [n \in TeamNames |-> IF u \in Members(n) THEN teams[n] ELSE NoTeam]

ScheduleFindTeams(r) ==
    /\ At(r, "findTeams")
    /\ Await(r, "teamsFound", [local[r] EXCEPT !.snapshot = TeamsOf(r.user)])
    /\ UNCHANGED <<userSchedules, teams, gi>>

\* Mutant: the new day replaces the schedule of the user.
ScheduleUpdateTeamsReplacing(r) ==
    /\ At(r, "teamsFound")
    /\ Send(r, {[kind |-> "setUserSchedule", user |-> r.user, schedule |-> <<r.window>>]})
    /\ gi' = 0
    /\ UNCHANGED store

\* Mutant: only the user's document is updated.
ScheduleUpdateTeamsSkipped(r) ==
    /\ At(r, "teamsFound")
    /\ Send(r, {[kind |-> "setUserSchedule", user |-> r.user,
                 schedule |-> Append(local[r].own, r.window)]})
    /\ gi' = 0
    /\ UNCHANGED store

\* The loop over the teams awaits nothing; it leaves i at their number.
ScheduleUpdateTeams(r) ==
    LET snapshot == local[r].snapshot
        mine     == {n \in TeamNames : snapshot[n] # NoTeam}
        after(n) == ScheduleAfterOwnDay(snapshot[n], r.format, r.window)
    IN  /\ At(r, "teamsFound")
        /\ Send(r, {[kind |-> "setTeamSchedule", team |-> n, schedule |-> after(n)] :
                       n \in {m \in mine : after(m) # snapshot[m].schedule}}
                   \cup {[kind |-> "setUserSchedule", user |-> r.user,
                          schedule |-> Append(local[r].own, r.window)]})
        /\ gi' = Cardinality(mine)
        /\ UNCHANGED store

-----------------------------------------------------------------------------
(***************************************************************************)
(* POST /v1/teams: postTeamHandler.                                        *)
(***************************************************************************)
TeamFindName(r) ==
    /\ At(r, "findName")
    /\ IF Exists(r.team)
       THEN Return(r, 409)
       ELSE Await(r, "findCreator", Blank) /\ UNCHANGED gi
    /\ UNCHANGED store

\* Mutant: a creator without a schedule is let through.
TeamFindCreatorUnchecked(r) ==
    /\ At(r, "findCreator")
    /\ Await(r, "creatorFound", [Blank EXCEPT !.own = userSchedules[r.user]])
    /\ UNCHANGED <<userSchedules, teams, gi>>

TeamFindCreator(r) ==
    /\ At(r, "findCreator")
    /\ IF userSchedules[r.user] = <<>>
       THEN Return(r, 401)
       ELSE Await(r, "creatorFound", [Blank EXCEPT !.own = userSchedules[r.user]])
            /\ UNCHANGED gi
    /\ UNCHANGED store

\* The loop that copies the creator's days leaves i at their number.
TeamSave(r) ==
    /\ At(r, "creatorFound")
    /\ Send(r, {[kind |-> "insertTeam", team |-> r.team, creator |-> r.user,
                 schedule |-> InitialTeamSchedule(local[r].own)]})
    /\ gi' = Len(local[r].own)
    /\ UNCHANGED store

-----------------------------------------------------------------------------
(***************************************************************************)
(* POST /v1/teams/:teamID/members: postMembersHandler.                     *)
(***************************************************************************)

(***************************************************************************)
(* Team.find gives an empty array for an unknown id, never null: the test  *)
(* for null does not catch it and team[0]['creator'] throws.               *)
(***************************************************************************)
MemberFindTeam(r) ==
    /\ At(r, "findTeam")
    /\ CASE r.team = NoSuchTeam -> DieHandling
         [] r.team # NoSuchTeam /\ teams[r.team].creator # r.user -> Return(r, 403)
         [] r.team # NoSuchTeam /\ teams[r.team].creator = r.user /\ ~r.complete ->
              Return(r, 404)
         [] OTHER -> Await(r, "findMember", [Blank EXCEPT !.members = teams[r.team].members])
                     /\ UNCHANGED gi
    /\ UNCHANGED store

MemberFindMember(r) ==
    /\ At(r, "findMember")
    /\ IF r.added \in Members(r.team)
       THEN Return(r, 409)
       ELSE Await(r, "findAdded", local[r]) /\ UNCHANGED gi
    /\ UNCHANGED store

MemberFindAdded(r) ==
    /\ At(r, "findAdded")
    /\ IF userSchedules[r.added] = <<>>
       THEN Return(r, 400)
       ELSE Await(r, "findTeamAgain", local[r]) /\ UNCHANGED gi
    /\ UNCHANGED store

MemberFindTeamAgain(r) ==
    /\ At(r, "findTeamAgain")
    /\ Await(r, "teamFound", [local[r] EXCEPT !.schedule = teams[r.team].schedule])
    /\ UNCHANGED <<userSchedules, teams, gi>>

\* Mutant: unshift for push.
MemberLoopFront(r, index, schedule) ==
    /\ gi' = index
    /\ IF index < Len(schedule)
       THEN Await(r, "findAddedDay",
                  [local[r] EXCEPT !.schedule = schedule, !.at = index + 1, !.found = <<>>])
       ELSE Send(r, {[kind |-> "setTeamSchedule", team |-> r.team, schedule |-> schedule],
                     [kind |-> "setMembers", team |-> r.team,
                      members |-> <<r.added>> \o local[r].members]})

\* Mutant: the new member is not pushed.
MemberLoopNoPush(r, index, schedule) ==
    /\ gi' = index
    /\ IF index < Len(schedule)
       THEN Await(r, "findAddedDay",
                  [local[r] EXCEPT !.schedule = schedule, !.at = index + 1, !.found = <<>>])
       ELSE Send(r, {[kind |-> "setTeamSchedule", team |-> r.team, schedule |-> schedule],
                     [kind |-> "setMembers", team |-> r.team,
                      members |-> local[r].members]})

(***************************************************************************)
(* The test of the loop with i = index: the next entry is taken as `curr'  *)
(* and the member's window for its day is looked up, or the loop is over   *)
(* and the two updates are sent, the members from the FIRST reading.       *)
(***************************************************************************)
MemberLoop(r, index, schedule) ==
    /\ gi' = index
    /\ IF index < Len(schedule)
       THEN Await(r, "findAddedDay",
                  [local[r] EXCEPT !.schedule = schedule, !.at = index + 1, !.found = <<>>])
       ELSE Send(r, {[kind |-> "setTeamSchedule", team |-> r.team, schedule |-> schedule],
                     [kind |-> "setMembers", team |-> r.team,
                      members |-> Append(local[r].members, r.added)]})

MemberStartLoop(r) ==
    /\ At(r, "teamFound")
    /\ MemberLoop(r, 0, local[r].schedule)
    /\ UNCHANGED store

MemberFindAddedDay(r) ==
    LET posted == userSchedules[r.added]
        index  == FindDay(posted, local[r].schedule[local[r].at].day)
    IN  /\ At(r, "findAddedDay")
        /\ Await(r, "addedDayFound",
                 [local[r] EXCEPT !.found = IF index = 0 THEN <<>> ELSE <<posted[index]>>])
        /\ UNCHANGED <<userSchedules, teams, gi>>

(***************************************************************************)
(* The lookup has returned.  What is compared was taken before it, what is *)
(* updated is the entry at the i of now; past the end of the array there   *)
(* is none and the access throws.                                          *)
(***************************************************************************)
MemberUseAddedDay(r) ==
    LET l      == local[r]
        seen   == l.schedule[l.at]
        index  == gi + 1
        misses == l.found = <<>>
        moves  == ~misses /\ MemberNarrows(seen, l.found[1])
    IN  /\ At(r, "addedDayFound")
        /\ CASE (misses \/ moves) /\ index > Len(l.schedule) -> DieHandling
             [] misses /\ index <= Len(l.schedule) ->
                  MemberLoop(r, index, [l.schedule EXCEPT ![index] = CloseWindow(@)])
             [] moves /\ index <= Len(l.schedule) ->
                  MemberLoop(r, index,
                      [l.schedule EXCEPT ![index] = NarrowByMember(@, seen, l.found[1])])
             [] OTHER -> MemberLoop(r, index, l.schedule)
        /\ UNCHANGED store

-----------------------------------------------------------------------------
(***************************************************************************)
(* MongoDB.  An update replaces one field of one document; an insertion    *)
(* fails when the unique index has the key already.                        *)
(***************************************************************************)
\* Mutant: the schema of teams without its unique index.
DuplicateUsersOnly(w) == w.kind = "insertUser" /\ userSchedules[w.user] # <<>>

\* Mutant: the schema of user schedules without its unique index.
DuplicateTeamsOnly(w) == w.kind = "insertTeam" /\ Exists(w.team)

Duplicate(w) ==
    \/ w.kind = "insertUser" /\ userSchedules[w.user] # <<>>
    \/ w.kind = "insertTeam" /\ Exists(w.team)

Execute(w) ==
    /\ userSchedules' =
         IF w.kind \in {"insertUser", "setUserSchedule"} /\ ~Duplicate(w)
         THEN [userSchedules EXCEPT ![w.user] = w.schedule] ELSE userSchedules
    /\ teams' =
         CASE w.kind = "insertTeam" /\ ~Duplicate(w) ->
                [teams EXCEPT ![w.team] = [creator |-> w.creator, members |-> <<w.creator>>,
                                           schedule |-> w.schedule]]
           [] w.kind = "setTeamSchedule" -> [teams EXCEPT ![w.team].schedule = w.schedule]
           [] w.kind = "setMembers" -> [teams EXCEPT ![w.team].members = w.members]
           [] OTHER -> teams

Insertion(w) == w.kind \in {"insertUser", "insertTeam"}

\* Mutant: res.status(200) for res.status(201).
SuccessStatus200(w) ==
    IF Duplicate(w) THEN 500 ELSE IF w.kind = "setTeamSchedule" THEN 0 ELSE 200

\* Mutant: the callback of a team's schedule answers as well.
SuccessStatusTwice(w) == IF Duplicate(w) THEN 500 ELSE 201

\* The status the callback answers with; that of a team's schedule is silent.
SuccessStatus(w) ==
    IF Duplicate(w) THEN 500 ELSE IF w.kind = "setTeamSchedule" THEN 0 ELSE 201

\* Mutant: the error branch returns without answering.
FailureStatusSilent(w) == 0

FailureStatus(w) == IF Insertion(w) THEN 500 ELSE 400

\* Answering a request that has been answered throws, in a callback.
Callback(r, status) ==
    CASE pc[r] = "dead" \/ status = 0 -> UNCHANGED handlers
      [] pc[r] # "dead" /\ status # 0 /\ answer[r] = 0 ->
           /\ answer' = [answer EXCEPT ![r] = status]
           /\ UNCHANGED <<pc, local, gi, up>>
      [] OTHER -> Die /\ UNCHANGED answer

WriteLands(r) ==
    \E w \in writes[r] :
        /\ Execute(w)
        /\ writes' = [writes EXCEPT ![r] = @ \ {w}]
        /\ Callback(r, SuccessStatus(w))
        /\ UNCHANGED faults

(***************************************************************************)
(* An update fails: MongoDB stepped down, or the connection was lost, and  *)
(* then the update may have been executed all the same.                    *)
(***************************************************************************)
WriteFails(r) ==
    \E w \in writes[r] :
        /\ faults < MaxFaults
        /\ faults' = faults + 1
        /\ writes' = [writes EXCEPT ![r] = @ \ {w}]
        /\ Callback(r, FailureStatus(w))
        /\ Execute(w) \/ UNCHANGED store

\* The process died before the update left it.
WriteLost(r) ==
    \E w \in writes[r] :
        /\ pc[r] = "dead"
        /\ writes' = [writes EXCEPT ![r] = @ \ {w}]
        /\ UNCHANGED <<userSchedules, teams, pc, local, gi, answer, up, faults>>

\* A failed query rejects its await, which nobody catches; so does a kill.
Crash ==
    /\ up
    /\ faults < MaxFaults
    /\ faults' = faults + 1
    /\ Die
    /\ UNCHANGED <<userSchedules, teams, writes, answer>>

\* deploy.sh is run again; nothing restarts the container by itself.
Restart ==
    /\ ~up
    /\ up' = TRUE
    /\ UNCHANGED <<userSchedules, teams, pc, local, gi, writes, answer, faults>>

-----------------------------------------------------------------------------
ScheduleStep(r) ==
    \/ ScheduleFindDay(r) \/ ScheduleFindSchedule(r)
    \/ ScheduleFindTeams(r) \/ ScheduleUpdateTeams(r)

TeamStep(r) == TeamFindName(r) \/ TeamFindCreator(r) \/ TeamSave(r)

MemberStep(r) ==
    \/ MemberFindTeam(r) \/ MemberFindMember(r) \/ MemberFindAdded(r)
    \/ MemberFindTeamAgain(r) \/ MemberStartLoop(r)
    \/ MemberFindAddedDay(r) \/ MemberUseAddedDay(r)

HandlerStep(r) == ScheduleStep(r) \/ TeamStep(r) \/ MemberStep(r)

Next ==
    \/ \E r \in Workload : \/ Receive(r) \/ HandlerStep(r)
                           \/ WriteLands(r) \/ WriteFails(r) \/ WriteLost(r)
    \/ Crash
    \/ Restart

Spec == Init /\ [][Next]_vars

(***************************************************************************)
(* The event loop runs every handler whose query has returned, and MongoDB *)
(* answers every query.  Nothing makes a client send, a crash happen or an *)
(* operator deploy again.                                                  *)
(***************************************************************************)
Fairness == \A r \in Workload : WF_vars(HandlerStep(r)) /\ WF_vars(WriteLands(r))

FairSpec == Spec /\ Fairness

-----------------------------------------------------------------------------
(***************************************************************************)
(* What holds however the handlers interleave, whatever fails and whenever *)
(* the process dies.  WindowExact of ScheduleStore is one of these.        *)
(***************************************************************************)

\* The creator is the first member: every later list extends an earlier one.
CreatorFirst ==
    \A n \in TeamNames : Exists(n) =>
        /\ teams[n].members # <<>>
        /\ teams[n].members[1] = teams[n].creator

\* Every member of a team has posted availability.
MembersPosted ==
    \A n \in TeamNames : \A m \in Members(n) : userSchedules[m] # <<>>

(***************************************************************************)
(* A team whose creation was answered with 201 is there and belongs to the *)
(* one who asked: two creations of one name pass the test for the name     *)
(* together, the unique index lets one of them through.                    *)
(***************************************************************************)
AckedTeamStands ==
    \A r \in Workload : r.type = "team" /\ answer[r] = 201 =>
        teams[r.team].creator = r.user

(***************************************************************************)
(* In the end every request that was received is answered, unless the      *)
(* process died first.  (An answer stays and requests are finitely many,   *)
(* so this is what a leads-to for each of them says.)                      *)
(***************************************************************************)
EveryRequestAnswered ==
    <>[](\A r \in Workload : pc[r] \in {"waiting", "dead"} \/ answer[r] # 0)

-----------------------------------------------------------------------------
(***************************************************************************)
(* What the service does promise when requests do not overlap.             *)
(***************************************************************************)
Quiescent ==
    \A r \in Workload : writes[r] = {} /\ pc[r] \in {"waiting", "handled", "dead"}

\* At rest, no team is shown a window some member did not post.
NoFalseAvailabilityAtRest == Quiescent => NoFalseAvailability

\* A day whose posting was answered with 201 is in the user's document.
AckedDayKept ==
    \A r \in Workload : r.type = "schedule" /\ answer[r] = 201 =>
        r.window \in ToSet(userSchedules[r.user])

\* A user has one window for a day.
OneWindowPerDay ==
    \A u \in Users : \A j, k \in DOMAIN userSchedules[u] :
        userSchedules[u][j].day = userSchedules[u][k].day => j = k

\* A member whose addition was answered with 201 is in the team.
AckedMemberKept ==
    \A r \in Workload : r.type = "member" /\ answer[r] = 201 =>
        r.added \in Members(r.team)

\* The process dies only of a crash from outside or of a failed call.
DiesOfFaultsOnly == faults = 0 => up

-----------------------------------------------------------------------------
(***************************************************************************)
(* One request at a time, the service implements AtomicSchedules.  A       *)
(* request takes effect when its updates are sent: the abstract            *)
(* collections are the stored ones with the updates in flight applied.     *)
(***************************************************************************)
InFlight == UNION {writes[r] : r \in Workload}

SettledUserSchedules ==
    [u \in Users |->
        LET pending == {w \in InFlight :
                          w.kind \in {"insertUser", "setUserSchedule"} /\ w.user = u}
        IN  IF pending = {} THEN userSchedules[u]
            ELSE (CHOOSE w \in pending : TRUE).schedule]

SettledTeams ==
    [n \in TeamNames |->
        LET pending(kind) == {w \in InFlight : w.kind = kind /\ w.team = n}
            one(kind)     == CHOOSE w \in pending(kind) : TRUE
            base == IF pending("insertTeam") = {} THEN teams[n]
                    ELSE [creator |-> one("insertTeam").creator,
                          members |-> <<one("insertTeam").creator>>,
                          schedule |-> one("insertTeam").schedule]
        IN  [base EXCEPT
               !.members = IF pending("setMembers") = {} THEN @
                           ELSE one("setMembers").members,
               !.schedule = IF pending("setTeamSchedule") = {} THEN @
                            ELSE one("setTeamSchedule").schedule]]

Atomic == INSTANCE AtomicSchedules WITH
              userSchedules <- SettledUserSchedules, teams <- SettledTeams

(***************************************************************************)
(* Every step of a handler is a step of AtomicSchedules or changes nothing *)
(* there: the database calls of one request add up to one update.          *)
(***************************************************************************)
AtomicStep == [][Atomic!AtomicNext]_(Atomic!collections)

=============================================================================
