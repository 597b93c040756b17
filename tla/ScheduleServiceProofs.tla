------------------------ MODULE ScheduleServiceProofs ------------------------
(***************************************************************************)
(* What holds of the schedules service under every interleaving, failure   *)
(* and crash, for any workload and any legal contents of the collections;  *)
(* what holds besides when requests are handled one at a time, and what    *)
(* when those that overlap do not disturb each other.                      *)
(***************************************************************************)
EXTENDS ScheduleService, AtomicSchedulesProofs

ScheduleStages == {"findDay", "findSchedule", "findTeams", "teamsFound"}
TeamStages == {"findName", "findCreator", "creatorFound"}
InTeam == {"findMember", "findAdded", "findTeamAgain", "teamFound",
           "findAddedDay", "addedDayFound"}
WithAdded == {"findTeamAgain", "teamFound", "findAddedDay", "addedDayFound"}
InLoop == {"findAddedDay", "addedDayFound"}

\* The handler a request is in is that of its type.
StageFits(r, stage) ==
    /\ stage \in ScheduleStages => r.type = "schedule"
    /\ stage \in TeamStages => r.type = "team"
    /\ stage \in InTeam \cup {"findTeam"} => r.type = "member"

\* A list of members that may be stored in team n, with the collections S and T.
GoodMembers(n, members, S, T) ==
    /\ T[n] # NoTeam
    /\ members # <<>>
    /\ members[1] = T[n].creator
    /\ \A i \in DOMAIN members : S[members[i]] # <<>>

(***************************************************************************)
(* What a handler has made sure of by the time it reaches a stage.  Each   *)
(* part stays true while others run, because documents are never removed   *)
(* or emptied and the creator of a team never changes.                     *)
(***************************************************************************)
GoodLocal(r, stage, l, S, T) ==
    /\ StageFits(r, stage)
    /\ Proper(l.own)
    /\ ExactEntries(l.schedule)
    /\ \A n \in TeamNames : /\ ExactEntries(l.snapshot[n].schedule)
                            /\ l.snapshot[n] # NoTeam => T[n] # NoTeam
    /\ stage \in {"findSchedule", "findTeams", "teamsFound"} =>
          r.window.startTime < r.window.endTime
    /\ stage = "creatorFound" => S[r.user] # <<>>
    /\ stage \in InTeam => r.team \in TeamNames /\ GoodMembers(r.team, l.members, S, T)
    /\ stage \in WithAdded => S[r.added] # <<>>
    /\ stage \in InLoop => l.at \in DOMAIN l.schedule

\* An update that may be executed at any moment.
GoodWrite(r, w, S, T) ==
    /\ w.kind \in {"insertUser", "setUserSchedule"} =>
          r.type = "schedule" /\ w.schedule # <<>> /\ Proper(w.schedule)
    /\ w.kind = "insertTeam" =>
          /\ r.type = "team" /\ w.team = r.team /\ w.creator = r.user
          /\ S[w.creator] # <<>>
          /\ ExactEntries(w.schedule)
    /\ w.kind = "setTeamSchedule" =>
          /\ r.type \in {"schedule", "member"}
          /\ T[w.team] # NoTeam
          /\ ExactEntries(w.schedule)
    /\ w.kind = "setMembers" =>
          r.type = "member" /\ GoodMembers(w.team, w.members, S, T)

GoodHandlers ==
    \A r \in Workload : GoodLocal(r, pc[r], local[r], userSchedules, teams)

GoodWrites ==
    \A r \in Workload : \A w \in writes[r] : GoodWrite(r, w, userSchedules, teams)

Inv ==
    /\ TypeOK
    /\ LegalDB(userSchedules, teams)
    /\ GoodHandlers
    /\ GoodWrites
    /\ AckedTeamStands

-----------------------------------------------------------------------------
(***************************************************************************)
(* The collections only grow, as far as the handlers rely on them.         *)
(***************************************************************************)
Grows(S, T, S2, T2) ==
    /\ \A u \in Users : S[u] # <<>> => S2[u] # <<>>
    /\ \A n \in TeamNames : T[n] # NoTeam => T2[n] # NoTeam /\ T2[n].creator = T[n].creator

LEMMA RequestFields ==
    ASSUME NEW r \in Workload
    PROVE  /\ r.user \in Users
           /\ r.type \in {"schedule", "team", "member"}
           /\ r.type = "schedule" =>
                r.window \in DayEntry(Days, Times) /\ r.format \in {"iso", "ms"}
           /\ r.type = "team" => r.team \in TeamNames
           /\ r.type = "member" => r.team \in TeamNames \cup {NoSuchTeam} /\ r.added \in Users
BY WorkloadIsRequests DEF Request

LEMMA MembersGrow ==
    ASSUME NEW S, NEW T, NEW S2, NEW T2, Grows(S, T, S2, T2),
           NEW n \in TeamNames, NEW members \in Seq(Users), GoodMembers(n, members, S, T)
    PROVE  GoodMembers(n, members, S2, T2)
<1>1. \A i \in DOMAIN members : members[i] \in Users
  BY ElementOfSeq, LenProperties
<1> QED
  BY <1>1 DEF Grows, GoodMembers

LEMMA LocalGrows ==
    ASSUME NEW S, NEW T, NEW S2, NEW T2, Grows(S, T, S2, T2),
           NEW r \in Workload, NEW stage, NEW l \in Local, GoodLocal(r, stage, l, S, T)
    PROVE  GoodLocal(r, stage, l, S2, T2)
<1>1. l.members \in Seq(Users)
  BY DEF Local
<1>2. stage \in InTeam => GoodMembers(r.team, l.members, S2, T2)
  BY <1>1, MembersGrow DEF GoodLocal
<1>3. stage \in WithAdded => r.added \in Users
  BY RequestFields DEF GoodLocal, StageFits, WithAdded, InTeam
<1>4. stage \in WithAdded => S2[r.added] # <<>>
  BY <1>3 DEF Grows, GoodLocal
<1>5. stage = "creatorFound" => S2[r.user] # <<>>
  BY RequestFields DEF Grows, GoodLocal
<1>6. \A n \in TeamNames : l.snapshot[n] # NoTeam => T2[n] # NoTeam
  BY DEF Grows, GoodLocal
<1> QED
  BY <1>2, <1>4, <1>5, <1>6 DEF GoodLocal

LEMMA WriteGrows ==
    ASSUME NEW S, NEW T, NEW S2, NEW T2, Grows(S, T, S2, T2),
           NEW r \in Workload, NEW w \in Write, GoodWrite(r, w, S, T)
    PROVE  GoodWrite(r, w, S2, T2)
<1>1. CASE w.kind \in {"insertUser", "setUserSchedule"}
  BY <1>1 DEF GoodWrite
<1>2. CASE w.kind = "insertTeam"
  BY <1>2 DEF GoodWrite, Write, Grows
<1>3. CASE w.kind = "setTeamSchedule"
  BY <1>3 DEF GoodWrite, Write, Grows
<1>4. CASE w.kind = "setMembers"
  <2>1. w.team \in TeamNames /\ w.members \in Seq(Users)
    BY <1>4 DEF Write
  <2> QED
    BY <1>4, <2>1, MembersGrow DEF GoodWrite
<1> QED
  BY <1>1, <1>2, <1>3, <1>4 DEF Write

LEMMA SameGrows ==
    ASSUME NEW S, NEW T
    PROVE  Grows(S, T, S, T)
BY DEF Grows

-----------------------------------------------------------------------------
LEMMA InvFacts ==
    ASSUME Inv
    PROVE  /\ userSchedules \in [Users -> Seq(DayEntry(Days, Times))]
           /\ teams \in [TeamNames -> Team]
           /\ pc \in [Workload -> Stage]
           /\ local \in [Workload -> Local]
           /\ gi \in Nat
           /\ writes \in [Workload -> SUBSET Write]
           /\ answer \in [Workload -> Status]
           /\ up \in BOOLEAN
           /\ faults \in 0 .. MaxFaults
           /\ LegalDB(userSchedules, teams)
           /\ \A r \in Workload : GoodLocal(r, pc[r], local[r], userSchedules, teams)
           /\ \A r \in Workload : \A w \in writes[r] : GoodWrite(r, w, userSchedules, teams)
           /\ AckedTeamStands
BY DEF Inv, TypeOK, StoreTypeOK, GoodHandlers, GoodWrites

(***************************************************************************)
(* The frame of every step of a handler: the collections stay, and what    *)
(* changes is the stage, the memory and the updates of one request.        *)
(***************************************************************************)
LEMMA HandlerFrame ==
    ASSUME Inv, NEW r \in Workload, NEW stage \in Stage, NEW l \in Local,
           NEW ws \in SUBSET Write,
           userSchedules' = userSchedules, teams' = teams,
           pc' = [pc EXCEPT ![r] = stage],
           local' = [local EXCEPT ![r] = l],
           writes' = [writes EXCEPT ![r] = ws],
           gi' \in Nat, up' \in BOOLEAN, faults' = faults,
           answer' \in [Workload -> Status],
           \A q \in Workload : answer'[q] = 201 => answer[q] = 201,
           GoodLocal(r, stage, l, userSchedules, teams),
           \A w \in ws : GoodWrite(r, w, userSchedules, teams)
    PROVE  Inv'
<1>1. TypeOK'
  BY InvFacts DEF TypeOK, StoreTypeOK
<1>2. LegalDB(userSchedules', teams')
  BY InvFacts
<1>3. GoodHandlers'
  <2> SUFFICES ASSUME NEW q \in Workload
               PROVE  GoodLocal(q, pc'[q], local'[q], userSchedules', teams')
    BY DEF GoodHandlers
  <2>1. CASE q = r
    BY <2>1, InvFacts
  <2>2. CASE q # r
    BY <2>2, InvFacts
  <2> QED
    BY <2>1, <2>2
<1>4. GoodWrites'
  <2> SUFFICES ASSUME NEW q \in Workload, NEW w \in writes'[q]
               PROVE  GoodWrite(q, w, userSchedules', teams')
    BY DEF GoodWrites
  <2>1. CASE q = r
    BY <2>1, InvFacts
  <2>2. CASE q # r
    BY <2>2, InvFacts
  <2> QED
    BY <2>1, <2>2
<1>5. AckedTeamStands'
  BY InvFacts DEF AckedTeamStands
<1> QED
  BY <1>1, <1>2, <1>3, <1>4, <1>5 DEF Inv

LEMMA BlankGood ==
    /\ Blank \in Local
    /\ \A S, T, r, stage :
          /\ StageFits(r, stage)
          /\ stage \in {"waiting", "findDay", "findName", "findCreator", "findTeam",
                        "handled", "dead"}
          => GoodLocal(r, stage, Blank, S, T)
<1>1. NoTeam \in Team
  BY DEF NoTeam, Team
<1>2. Blank \in Local
  BY <1>1 DEF Blank, Local
<1>3. ASSUME NEW S, NEW T, NEW r, NEW stage, StageFits(r, stage),
             stage \in {"waiting", "findDay", "findName", "findCreator", "findTeam",
                        "handled", "dead"}
      PROVE  GoodLocal(r, stage, Blank, S, T)
  <2>1. /\ Blank.own = <<>> /\ Blank.schedule = <<>>
        /\ \A n \in TeamNames : Blank.snapshot[n] = NoTeam /\ NoTeam.schedule = <<>>
    BY DEF Blank, NoTeam
  <2>2. Proper(<<>>) /\ ExactEntries(<<>>)
    BY DEF Proper, ExactEntries
  <2> QED
    BY <1>3, <2>1, <2>2 DEF GoodLocal, InTeam, WithAdded, InLoop
<1> QED
  BY <1>2, <1>3

LEMMA AwaitInv ==
    ASSUME Inv, NEW r \in Workload, NEW stage \in Stage, NEW l \in Local,
           Await(r, stage, l), gi' \in Nat,
           userSchedules' = userSchedules, teams' = teams,
           GoodLocal(r, stage, l, userSchedules, teams)
    PROVE  Inv'
<1> DEFINE ws == writes[r]
<1>1. /\ pc' = [pc EXCEPT ![r] = stage]
      /\ local' = [local EXCEPT ![r] = l]
      /\ writes' = [writes EXCEPT ![r] = ws]
      /\ up' = up /\ faults' = faults /\ answer' = answer
  BY InvFacts DEF Await
<1>2. ws \in SUBSET Write /\ \A w \in ws : GoodWrite(r, w, userSchedules, teams)
  BY InvFacts
<1>3. up' \in BOOLEAN /\ answer' \in [Workload -> Status]
  BY <1>1, InvFacts
<1> HIDE DEF ws
<1> QED
  BY <1>1, <1>2, <1>3, HandlerFrame

LEMMA ReturnInv ==
    ASSUME Inv, NEW r \in Workload, NEW status \in Status \ {201},
           Return(r, status), userSchedules' = userSchedules, teams' = teams
    PROVE  Inv'
<1> DEFINE ws == writes[r]
<1>1. /\ pc' = [pc EXCEPT ![r] = "handled"]
      /\ local' = [local EXCEPT ![r] = Blank]
      /\ writes' = [writes EXCEPT ![r] = ws]
      /\ up' = up /\ faults' = faults /\ gi' = gi
      /\ answer' = [answer EXCEPT ![r] = status]
  BY InvFacts DEF Return
<1>2. ws \in SUBSET Write /\ \A w \in ws : GoodWrite(r, w, userSchedules, teams)
  BY InvFacts
<1>3. /\ up' \in BOOLEAN /\ gi' \in Nat
      /\ answer' \in [Workload -> Status]
      /\ \A q \in Workload : answer'[q] = 201 => answer[q] = 201
  BY <1>1, InvFacts
<1>4. StageFits(r, "handled") /\ "handled" \in Stage
  BY DEF StageFits, ScheduleStages, TeamStages, InTeam, Stage
<1>5. Blank \in Local /\ GoodLocal(r, "handled", Blank, userSchedules, teams)
  BY <1>4, BlankGood
<1> HIDE DEF ws
<1> QED
  BY <1>1, <1>2, <1>3, <1>4, <1>5, HandlerFrame

LEMMA SendInv ==
    ASSUME Inv, NEW r \in Workload, NEW ws \in SUBSET Write, Send(r, ws), gi' \in Nat,
           userSchedules' = userSchedules, teams' = teams,
           \A w \in ws : GoodWrite(r, w, userSchedules, teams)
    PROVE  Inv'
<1>1. /\ pc' = [pc EXCEPT ![r] = "handled"]
      /\ local' = [local EXCEPT ![r] = Blank]
      /\ writes' = [writes EXCEPT ![r] = ws]
      /\ up' = up /\ faults' = faults /\ answer' = answer
  BY DEF Send
<1>2. up' \in BOOLEAN /\ answer' \in [Workload -> Status]
  BY <1>1, InvFacts
<1>3. StageFits(r, "handled") /\ "handled" \in Stage
  BY DEF StageFits, ScheduleStages, TeamStages, InTeam, Stage
<1>4. Blank \in Local /\ GoodLocal(r, "handled", Blank, userSchedules, teams)
  BY <1>3, BlankGood
<1> QED
  BY <1>1, <1>2, <1>3, <1>4, HandlerFrame

(***************************************************************************)
(* The frame of every other step: updates leave the set of those in        *)
(* flight, the collections grow, and the handlers go on or the process     *)
(* dies.                                                                   *)
(***************************************************************************)
LEMMA DeadLocals ==
    ASSUME Inv, Die, NEW S, NEW T
    PROVE  /\ pc' \in [Workload -> Stage]
           /\ local' \in [Workload -> Local]
           /\ gi' \in Nat
           /\ up' \in BOOLEAN
           /\ \A q \in Workload : GoodLocal(q, pc'[q], local'[q], S, T)
<1>1. Blank \in Local
  BY BlankGood
<1>2. \A q \in Workload : pc'[q] \in {"waiting", "dead"} /\ local'[q] = Blank
  BY DEF Die
<1>3. \A q \in Workload : StageFits(q, pc'[q])
  BY <1>2 DEF StageFits, ScheduleStages, TeamStages, InTeam
<1>4. \A q \in Workload : GoodLocal(q, pc'[q], local'[q], S, T)
  BY <1>2, <1>3, BlankGood
<1>5. pc' \in [Workload -> Stage]
  BY DEF Die, Stage
<1>6. local' \in [Workload -> Local] /\ gi' \in Nat /\ up' \in BOOLEAN
  BY <1>1 DEF Die
<1> QED
  BY <1>4, <1>5, <1>6

LEMMA StoreFrame ==
    ASSUME Inv,
           Grows(userSchedules, teams, userSchedules', teams'),
           LegalDB(userSchedules', teams'),
           writes' \in [Workload -> SUBSET Write],
           \A q \in Workload : writes'[q] \subseteq writes[q],
           faults' \in 0 .. MaxFaults,
           answer' \in [Workload -> Status],
           AckedTeamStands',
           UNCHANGED <<pc, local, gi, up>> \/ Die
    PROVE  Inv'
<1>1. StoreTypeOK'
  BY DEF StoreTypeOK, LegalDB
<1>2. /\ pc' \in [Workload -> Stage]
      /\ local' \in [Workload -> Local]
      /\ gi' \in Nat
      /\ up' \in BOOLEAN
      /\ \A q \in Workload : GoodLocal(q, pc'[q], local'[q], userSchedules', teams')
  <2>1. CASE Die
    BY <2>1, DeadLocals
  <2>2. CASE UNCHANGED <<pc, local, gi, up>>
    <3>1. \A q \in Workload : GoodLocal(q, pc[q], local[q], userSchedules', teams')
      BY InvFacts, LocalGrows
    <3> QED
      BY <2>2, <3>1, InvFacts
  <2> QED
    BY <2>1, <2>2
<1>3. TypeOK'
  BY <1>1, <1>2 DEF TypeOK
<1>4. GoodHandlers'
  BY <1>2 DEF GoodHandlers
<1>5. GoodWrites'
  <2>1. \A q \in Workload : \A w \in writes'[q] : w \in Write /\ w \in writes[q]
    BY InvFacts
  <2>2. \A q \in Workload : \A w \in writes'[q] : GoodWrite(q, w, userSchedules', teams')
    BY <2>1, InvFacts, WriteGrows
  <2> QED
    BY <2>2 DEF GoodWrites
<1> QED
  BY <1>3, <1>4, <1>5 DEF Inv

-----------------------------------------------------------------------------
(***************************************************************************)
(* MongoDB executes an update.                                             *)
(***************************************************************************)
LEMMA ExecuteSafe ==
    ASSUME Inv, NEW r \in Workload, NEW w \in writes[r], Execute(w)
    PROVE  /\ Grows(userSchedules, teams, userSchedules', teams')
           /\ LegalDB(userSchedules', teams')
<1>1. /\ w \in Write
      /\ GoodWrite(r, w, userSchedules, teams)
      /\ LegalDB(userSchedules, teams)
      /\ userSchedules \in [Users -> Seq(DayEntry(Days, Times))]
      /\ teams \in [TeamNames -> Team]
  BY InvFacts
<1>2. CASE w.kind \in {"insertUser", "setUserSchedule"}
  <2>1. /\ w.user \in Users /\ w.schedule \in Seq(DayEntry(Days, Times))
        /\ w.schedule # <<>> /\ Proper(w.schedule)
    BY <1>1, <1>2 DEF Write, GoodWrite
  <2>2. /\ teams' = teams
        /\ \/ userSchedules' = [userSchedules EXCEPT ![w.user] = w.schedule]
           \/ userSchedules' = userSchedules
    BY <1>2 DEF Execute
  <2>3. /\ userSchedules' \in [Users -> Seq(DayEntry(Days, Times))]
        /\ \A u \in Users : Proper(userSchedules'[u])
        /\ \A u \in Users : userSchedules[u] # <<>> => userSchedules'[u] # <<>>
    BY <1>1, <2>1, <2>2 DEF LegalDB
  <2>4. Grows(userSchedules, teams, userSchedules', teams')
    BY <2>2, <2>3 DEF Grows
  <2>5. ASSUME NEW n \in TeamNames, teams[n] # NoTeam
        PROVE  LegalTeam(teams[n], userSchedules')
    <3>1. LegalTeam(teams[n], userSchedules) /\ teams[n] \in Team
      BY <1>1, <2>5 DEF LegalDB
    <3>2. \A i \in DOMAIN teams[n].members : teams[n].members[i] \in Users
      BY <3>1, ElementOfSeq, LenProperties DEF Team
    <3> QED
      BY <2>3, <3>1, <3>2 DEF LegalTeam
  <2> QED
    BY <1>1, <2>2, <2>3, <2>4, <2>5 DEF LegalDB
<1>3. CASE w.kind \in {"insertTeam", "setTeamSchedule", "setMembers"}
  <2>1. userSchedules' = userSchedules
    BY <1>3 DEF Execute
  <2>2. w.team \in TeamNames
    BY <1>1, <1>3 DEF Write
  <2>3. PICK team \in Team :
           /\ team # NoTeam
           /\ LegalTeam(team, userSchedules)
           /\ teams[w.team] # NoTeam => team.creator = teams[w.team].creator
           /\ teams' = [teams EXCEPT ![w.team] = team] \/ teams' = teams
    <3>1. CASE w.kind = "insertTeam"
      <4> DEFINE new == [creator |-> w.creator, members |-> <<w.creator>>,
                         schedule |-> w.schedule]
      <4>1. /\ w.creator \in Users /\ w.schedule \in Seq(TeamEntry(Days, Times))
            /\ userSchedules[w.creator] # <<>> /\ ExactEntries(w.schedule)
        BY <1>1, <3>1 DEF Write, GoodWrite
      <4>2. new \in Team /\ new # NoTeam /\ LegalTeam(new, userSchedules)
        BY <4>1, NoUserIsNobody DEF Team, NoTeam, LegalTeam
      <4>3. CASE teams[w.team] = NoTeam
        BY <3>1, <4>2, <4>3 DEF Execute, Duplicate, Exists
      <4>4. CASE teams[w.team] # NoTeam
        <5>1. Duplicate(w)
          BY <3>1, <4>4 DEF Duplicate, Exists
        <5>2. teams' = teams
          BY <3>1, <5>1 DEF Execute
        <5> QED
          BY <1>1, <2>2, <4>4, <5>2 DEF LegalDB
      <4> QED
        BY <4>3, <4>4
    <3>2. CASE w.kind = "setTeamSchedule"
      <4> DEFINE new == [teams[w.team] EXCEPT !.schedule = w.schedule]
      <4>1. /\ w.schedule \in Seq(TeamEntry(Days, Times))
            /\ ExactEntries(w.schedule) /\ teams[w.team] # NoTeam
        BY <1>1, <3>2 DEF Write, GoodWrite
      <4>2. teams[w.team] \in Team /\ LegalTeam(teams[w.team], userSchedules)
        BY <1>1, <2>2, <4>1 DEF LegalDB
      <4>3. /\ new \in Team /\ new.creator = teams[w.team].creator
            /\ new.members = teams[w.team].members /\ new.schedule = w.schedule
        BY <4>1, <4>2 DEF Team
      <4>4. new # NoTeam /\ LegalTeam(new, userSchedules)
        BY <4>1, <4>2, <4>3, NoUserIsNobody DEF NoTeam, LegalTeam
      <4>5. teams' = [teams EXCEPT ![w.team] = new]
        BY <3>2 DEF Execute
      <4> QED
        BY <4>3, <4>4, <4>5
    <3>3. CASE w.kind = "setMembers"
      <4> DEFINE new == [teams[w.team] EXCEPT !.members = w.members]
      <4>1. /\ w.members \in Seq(Users)
            /\ GoodMembers(w.team, w.members, userSchedules, teams)
            /\ teams[w.team] # NoTeam
        BY <1>1, <3>3 DEF Write, GoodWrite, GoodMembers
      <4>2. teams[w.team] \in Team /\ LegalTeam(teams[w.team], userSchedules)
        BY <1>1, <2>2, <4>1 DEF LegalDB
      <4>3. /\ new \in Team /\ new.creator = teams[w.team].creator
            /\ new.members = w.members /\ new.schedule = teams[w.team].schedule
        BY <4>1, <4>2 DEF Team
      <4>4. new # NoTeam /\ LegalTeam(new, userSchedules)
        BY <4>1, <4>2, <4>3, NoUserIsNobody DEF NoTeam, LegalTeam, GoodMembers
      <4>5. teams' = [teams EXCEPT ![w.team] = new]
        BY <3>3 DEF Execute
      <4> QED
        BY <4>3, <4>4, <4>5
    <3> QED
      BY <1>3, <3>1, <3>2, <3>3
  <2>4. teams' \in [TeamNames -> Team]
    BY <1>1, <2>2, <2>3
  <2>5. \A n \in TeamNames : teams'[n] # NoTeam => LegalTeam(teams'[n], userSchedules)
    BY <1>1, <2>2, <2>3 DEF LegalDB
  <2>6. Grows(userSchedules, teams, userSchedules', teams')
    BY <1>1, <2>1, <2>2, <2>3 DEF Grows
  <2> QED
    BY <1>1, <2>1, <2>4, <2>5, <2>6 DEF LegalDB
<1> QED
  BY <1>1, <1>2, <1>3 DEF Write

\* A team that was acknowledged keeps its creator as the collections grow.
LEMMA AckedGrow ==
    ASSUME Inv, Grows(userSchedules, teams, userSchedules', teams'),
           NEW q \in Workload, q.type = "team", answer[q] = 201
    PROVE  teams'[q.team].creator = q.user
<1>1. q.team \in TeamNames /\ q.user \in Users
  BY RequestFields
<1>2. teams[q.team].creator = q.user
  BY InvFacts DEF AckedTeamStands
<1>3. teams[q.team] # NoTeam
  BY <1>1, <1>2, NoUserIsNobody DEF NoTeam
<1> QED
  BY <1>1, <1>2, <1>3 DEF Grows

LEMMA WriteLandsInv ==
    ASSUME Inv, NEW r \in Workload, WriteLands(r)
    PROVE  Inv'
<1>1. PICK w \in writes[r] :
         /\ Execute(w)
         /\ writes' = [writes EXCEPT ![r] = @ \ {w}]
         /\ Callback(r, SuccessStatus(w))
         /\ UNCHANGED faults
  BY DEF WriteLands
<1>2. /\ w \in Write /\ GoodWrite(r, w, userSchedules, teams)
      /\ writes \in [Workload -> SUBSET Write]
      /\ answer \in [Workload -> Status]
      /\ faults \in 0 .. MaxFaults
  BY InvFacts
<1>3. /\ Grows(userSchedules, teams, userSchedules', teams')
      /\ LegalDB(userSchedules', teams')
  BY <1>1, ExecuteSafe
<1>4. /\ writes' \in [Workload -> SUBSET Write]
      /\ \A q \in Workload : writes'[q] \subseteq writes[q]
      /\ faults' \in 0 .. MaxFaults
  BY <1>1, <1>2
<1>5. SuccessStatus(w) \in Status
  BY DEF SuccessStatus, Status
<1>6. /\ \/ answer' = answer
         \/ answer' = [answer EXCEPT ![r] = SuccessStatus(w)]
      /\ UNCHANGED <<pc, local, gi, up>> \/ Die
  BY <1>1 DEF Callback, handlers
<1>7. answer' \in [Workload -> Status]
  BY <1>2, <1>5, <1>6
<1>8. ASSUME r.type = "team", SuccessStatus(w) = 201
      PROVE  teams'[r.team].creator = r.user
  <2>1. w.kind = "insertTeam" /\ w.team = r.team /\ w.creator = r.user
    BY <1>2, <1>8 DEF GoodWrite, Write
  <2>2. ~Duplicate(w)
    BY <1>8 DEF SuccessStatus
  <2>3. w.team \in TeamNames /\ teams \in [TeamNames -> Team]
    BY <1>2, <2>1, InvFacts DEF Write
  <2> QED
    BY <1>1, <2>1, <2>2, <2>3 DEF Execute
<1>9. AckedTeamStands'
  <2> SUFFICES ASSUME NEW q \in Workload, q.type = "team", answer'[q] = 201
               PROVE  teams'[q.team].creator = q.user
    BY DEF AckedTeamStands
  <2>1. CASE answer[q] = 201
    BY <1>3, <2>1, AckedGrow
  <2>2. CASE answer[q] # 201
    BY <1>2, <1>6, <1>8, <2>2
  <2> QED
    BY <2>1, <2>2
<1> QED
  BY <1>3, <1>4, <1>6, <1>7, <1>9, StoreFrame

(***************************************************************************)
(* A step that leaves the collections alone and answers nobody with 201.   *)
(***************************************************************************)
LEMMA QuietFrame ==
    ASSUME Inv, UNCHANGED store,
           writes' \in [Workload -> SUBSET Write],
           \A q \in Workload : writes'[q] \subseteq writes[q],
           faults' \in 0 .. MaxFaults,
           answer' \in [Workload -> Status],
           \A q \in Workload : answer'[q] = 201 => answer[q] = 201,
           UNCHANGED <<pc, local, gi, up>> \/ Die
    PROVE  Inv'
<1>1. userSchedules' = userSchedules /\ teams' = teams
  BY DEF store
<1>2. /\ Grows(userSchedules, teams, userSchedules', teams')
      /\ LegalDB(userSchedules', teams')
  BY <1>1, InvFacts, SameGrows
<1>3. AckedTeamStands'
  BY <1>1, InvFacts DEF AckedTeamStands
<1> QED
  BY <1>2, <1>3, StoreFrame

LEMMA WriteFailsInv ==
    ASSUME Inv, NEW r \in Workload, WriteFails(r)
    PROVE  Inv'
<1>1. PICK w \in writes[r] :
         /\ faults < MaxFaults
         /\ faults' = faults + 1
         /\ writes' = [writes EXCEPT ![r] = @ \ {w}]
         /\ Callback(r, FailureStatus(w))
         /\ Execute(w) \/ UNCHANGED store
  BY DEF WriteFails
<1>2. /\ FailureStatus(w) \in Status \ {201}
      /\ writes' \in [Workload -> SUBSET Write]
      /\ \A q \in Workload : writes'[q] \subseteq writes[q]
      /\ faults' \in 0 .. MaxFaults
  BY <1>1, InvFacts, BoundsAreNumbers DEF FailureStatus, Status
<1>3. /\ \/ answer' = answer
         \/ answer' = [answer EXCEPT ![r] = FailureStatus(w)]
      /\ UNCHANGED <<pc, local, gi, up>> \/ Die
  BY <1>1 DEF Callback, handlers
<1>4. /\ answer' \in [Workload -> Status]
      /\ \A q \in Workload : answer'[q] = 201 => answer[q] = 201
  BY <1>2, <1>3, InvFacts
<1>5. CASE Execute(w)
  <2>1. /\ Grows(userSchedules, teams, userSchedules', teams')
        /\ LegalDB(userSchedules', teams')
    BY <1>5, InvFacts, ExecuteSafe
  <2>2. AckedTeamStands'
    BY <1>4, <2>1, AckedGrow DEF AckedTeamStands
  <2> QED
    BY <1>2, <1>3, <1>4, <2>1, <2>2, StoreFrame
<1>6. CASE UNCHANGED store
  BY <1>2, <1>3, <1>4, <1>6, QuietFrame
<1> QED
  BY <1>1, <1>5, <1>6

LEMMA WriteLostInv ==
    ASSUME Inv, NEW r \in Workload, WriteLost(r)
    PROVE  Inv'
<1>1. PICK w \in writes[r] :
         /\ writes' = [writes EXCEPT ![r] = @ \ {w}]
         /\ UNCHANGED <<userSchedules, teams, pc, local, gi, answer, up, faults>>
  BY DEF WriteLost
<1>2. /\ writes' \in [Workload -> SUBSET Write]
      /\ \A q \in Workload : writes'[q] \subseteq writes[q]
      /\ faults' \in 0 .. MaxFaults
      /\ answer' \in [Workload -> Status]
  BY <1>1, InvFacts
<1>3. UNCHANGED store /\ UNCHANGED <<pc, local, gi, up>> /\ answer' = answer
  BY <1>1 DEF store
<1> QED
  BY <1>2, <1>3, QuietFrame

LEMMA CrashInv ==
    ASSUME Inv, Crash
    PROVE  Inv'
<1>1. /\ UNCHANGED store /\ writes' = writes /\ answer' = answer /\ Die
      /\ faults' = faults + 1 /\ faults < MaxFaults
  BY DEF Crash, store
<1>2. /\ writes' \in [Workload -> SUBSET Write]
      /\ faults' \in 0 .. MaxFaults
      /\ answer' \in [Workload -> Status]
  BY <1>1, InvFacts, BoundsAreNumbers
<1> QED
  BY <1>1, <1>2, QuietFrame

LEMMA RestartInv ==
    ASSUME Inv, Restart
    PROVE  Inv'
<1>1. UNCHANGED <<userSchedules, teams, pc, local, gi, writes, answer, faults>> /\ up' = TRUE
  BY DEF Restart
<1> QED
  BY <1>1 DEF Inv, TypeOK, StoreTypeOK, GoodHandlers, GoodWrites, AckedTeamStands

LEMMA DieHandlingInv ==
    ASSUME Inv, DieHandling, UNCHANGED store
    PROVE  Inv'
<1>1. Die /\ writes' = writes /\ answer' = answer /\ faults' = faults
  BY DEF DieHandling
<1>2. /\ writes' \in [Workload -> SUBSET Write]
      /\ faults' \in 0 .. MaxFaults
      /\ answer' \in [Workload -> Status]
  BY <1>1, InvFacts
<1> QED
  BY <1>1, <1>2, QuietFrame

-----------------------------------------------------------------------------
(***************************************************************************)
(* One lemma per action of a handler.                                      *)
(***************************************************************************)
LEMMA ReceiveInv ==
    ASSUME Inv, NEW r \in Workload, Receive(r)
    PROVE  Inv'
<1>1. userSchedules' = userSchedules /\ teams' = teams
  BY DEF Receive, store
<1>2. CASE Return(r, 401) \/ Return(r, 400)
  BY <1>1, <1>2, ReturnInv DEF Status
<1>3. CASE Await(r, FirstQuery[r.type], Blank) /\ UNCHANGED gi
  <2>1. /\ FirstQuery[r.type] \in {"findDay", "findName", "findTeam"}
        /\ FirstQuery[r.type] \in Stage
        /\ StageFits(r, FirstQuery[r.type])
    BY RequestFields DEF FirstQuery, Stage, StageFits, ScheduleStages, TeamStages, InTeam
  <2>2. Blank \in Local /\ GoodLocal(r, FirstQuery[r.type], Blank, userSchedules, teams)
    BY <2>1, BlankGood
  <2>3. gi' \in Nat
    BY <1>3, InvFacts
  <2> QED
    BY <1>1, <1>3, <2>1, <2>2, <2>3, AwaitInv
<1> QED
  BY <1>2, <1>3 DEF Receive

LEMMA ScheduleFindDayInv ==
    ASSUME Inv, NEW r \in Workload, ScheduleFindDay(r)
    PROVE  Inv'
<1>1. userSchedules' = userSchedules /\ teams' = teams /\ pc[r] = "findDay"
  BY DEF ScheduleFindDay, store, At
<1>2. CASE Return(r, 409) \/ Return(r, 400)
  BY <1>1, <1>2, ReturnInv DEF Status
<1>3. CASE /\ ~(r.window.startTime >= r.window.endTime)
           /\ Await(r, "findSchedule", Blank) /\ UNCHANGED gi
  <2>1. GoodLocal(r, "findDay", local[r], userSchedules, teams)
    BY <1>1, InvFacts
  <2>2. r.type = "schedule"
    BY <2>1 DEF GoodLocal, StageFits, ScheduleStages
  <2>3. r.window.startTime < r.window.endTime
    <3>1. r.window.startTime \in Nat /\ r.window.endTime \in Nat
      BY <2>2, RequestFields, TimesAreNumbers DEF DayEntry
    <3> QED
      BY <1>3, <3>1
  <2>4. Blank \in Local /\ GoodLocal(r, "findDay", Blank, userSchedules, teams)
    <3>1. StageFits(r, "findDay")
      BY <2>1 DEF GoodLocal
    <3> QED
      BY <3>1, BlankGood
  <2>5. GoodLocal(r, "findSchedule", Blank, userSchedules, teams)
    BY <2>2, <2>3, <2>4
       DEF GoodLocal, StageFits, ScheduleStages, TeamStages, InTeam, WithAdded, InLoop
  <2>6. gi' \in Nat /\ "findSchedule" \in Stage
    BY <1>3, InvFacts DEF Stage
  <2> QED
    BY <1>1, <1>3, <2>4, <2>5, <2>6, AwaitInv
<1> QED
  BY <1>2, <1>3 DEF ScheduleFindDay

LEMMA ScheduleFindScheduleInv ==
    ASSUME Inv, NEW r \in Workload, ScheduleFindSchedule(r)
    PROVE  Inv'
<1>1. /\ userSchedules' = userSchedules /\ teams' = teams /\ gi' = gi
      /\ pc[r] = "findSchedule"
  BY DEF ScheduleFindSchedule, At
<1>2. GoodLocal(r, "findSchedule", local[r], userSchedules, teams)
  BY <1>1, InvFacts
<1>3. /\ r.type = "schedule" /\ r.window.startTime < r.window.endTime
      /\ r.user \in Users /\ r.window \in DayEntry(Days, Times)
  BY <1>2, RequestFields DEF GoodLocal, StageFits, ScheduleStages
<1>4. gi' \in Nat
  BY <1>1, InvFacts
<1>5. CASE Send(r, {[kind |-> "insertUser", user |-> r.user, schedule |-> <<r.window>>]})
  <2> DEFINE w == [kind |-> "insertUser", user |-> r.user, schedule |-> <<r.window>>]
  <2>1. w \in Write
    BY <1>3 DEF Write
  <2>2. GoodWrite(r, w, userSchedules, teams)
    BY <1>3 DEF GoodWrite, Proper
  <2>3. Send(r, {w})
    BY <1>5
  <2> HIDE DEF w
  <2> QED
    BY <1>1, <1>4, <2>1, <2>2, <2>3, SendInv
<1>6. CASE Await(r, "findTeams", [Blank EXCEPT !.own = userSchedules[r.user]])
  <2> DEFINE l == [Blank EXCEPT !.own = userSchedules[r.user]]
  <2>1. /\ Blank \in Local
        /\ GoodLocal(r, "findDay", Blank, userSchedules, teams)
    <3>1. StageFits(r, "findDay")
      BY <1>3 DEF StageFits, ScheduleStages, TeamStages, InTeam
    <3> QED
      BY <3>1, BlankGood
  <2>2. /\ userSchedules[r.user] \in Seq(DayEntry(Days, Times))
        /\ Proper(userSchedules[r.user])
    BY <1>3, InvFacts DEF LegalDB
  <2>3. /\ l \in Local /\ l.own = userSchedules[r.user]
        /\ l.schedule = Blank.schedule /\ l.snapshot = Blank.snapshot
    BY <2>1, <2>2 DEF Local
  <2>4. Await(r, "findTeams", l)
    BY <1>6
  <2> HIDE DEF l
  <2>5. GoodLocal(r, "findTeams", l, userSchedules, teams)
    BY <1>3, <2>1, <2>2, <2>3
       DEF GoodLocal, StageFits, ScheduleStages, TeamStages, InTeam, WithAdded, InLoop
  <2>6. "findTeams" \in Stage
    BY DEF Stage
  <2> QED
    BY <1>1, <1>4, <2>3, <2>4, <2>5, <2>6, AwaitInv
<1> QED
  BY <1>5, <1>6 DEF ScheduleFindSchedule

LEMMA NotInTeam ==
    /\ "teamsFound" \notin InTeam \cup WithAdded \cup InLoop
    /\ "creatorFound" \notin InTeam \cup WithAdded \cup InLoop
BY DEF InTeam, WithAdded, InLoop

LEMMA ScheduleFindTeamsInv ==
    ASSUME Inv, NEW r \in Workload, ScheduleFindTeams(r)
    PROVE  Inv'
<1> DEFINE snapshot == TeamsOf(r.user)
           l == [local[r] EXCEPT !.snapshot = snapshot]
<1>1. /\ userSchedules' = userSchedules /\ teams' = teams /\ gi' = gi
      /\ pc[r] = "findTeams" /\ Await(r, "teamsFound", l)
  BY DEF ScheduleFindTeams, At
<1>2. /\ GoodLocal(r, "findTeams", local[r], userSchedules, teams)
      /\ local[r] \in Local /\ gi' \in Nat
      /\ teams \in [TeamNames -> Team]
      /\ \A n \in TeamNames : teams[n] # NoTeam => ExactEntries(teams[n].schedule)
  BY <1>1, InvFacts DEF LegalDB, LegalTeam
<1>3. /\ snapshot \in [TeamNames -> Team]
      /\ \A n \in TeamNames : /\ ExactEntries(snapshot[n].schedule)
                              /\ snapshot[n] # NoTeam => teams[n] # NoTeam
  <2>1. NoTeam \in Team /\ ExactEntries(NoTeam.schedule)
    BY DEF NoTeam, Team, ExactEntries
  <2> QED
    BY <1>2, <2>1 DEF TeamsOf
<1> HIDE DEF snapshot
<1>4. /\ l \in Local /\ l.own = local[r].own /\ l.schedule = local[r].schedule
      /\ l.snapshot = snapshot
  BY <1>2, <1>3 DEF Local
<1> HIDE DEF l
<1>5. GoodLocal(r, "teamsFound", l, userSchedules, teams)
  <2>1. /\ StageFits(r, "findTeams") /\ Proper(local[r].own)
        /\ ExactEntries(local[r].schedule)
        /\ r.window.startTime < r.window.endTime
    BY <1>2 DEF GoodLocal
  <2>2. StageFits(r, "teamsFound")
    BY <2>1 DEF StageFits, ScheduleStages, TeamStages, InTeam
  <2> QED
    BY <1>3, <1>4, <2>1, <2>2, NotInTeam DEF GoodLocal
<1>6. "teamsFound" \in Stage
  BY DEF Stage
<1> QED
  BY <1>1, <1>2, <1>4, <1>5, <1>6, AwaitInv

LEMMA ScheduleUpdateTeamsInv ==
    ASSUME Inv, NEW r \in Workload, ScheduleUpdateTeams(r)
    PROVE  Inv'
<1> DEFINE snapshot == local[r].snapshot
           mine     == {n \in TeamNames : snapshot[n] # NoTeam}
           after(n) == ScheduleAfterOwnDay(snapshot[n], r.format, r.window)
           toTeam(n) == [kind |-> "setTeamSchedule", team |-> n, schedule |-> after(n)]
           toUser   == [kind |-> "setUserSchedule", user |-> r.user,
                        schedule |-> Append(local[r].own, r.window)]
           ws       == {toTeam(n) : n \in {m \in mine : after(m) # snapshot[m].schedule}}
                       \cup {toUser}
<1>1. /\ userSchedules' = userSchedules /\ teams' = teams
      /\ gi' = Cardinality(mine) /\ pc[r] = "teamsFound" /\ Send(r, ws)
  BY DEF ScheduleUpdateTeams, At, store
<1>2. /\ GoodLocal(r, "teamsFound", local[r], userSchedules, teams)
      /\ local[r] \in Local
  BY <1>1, InvFacts
<1>3. /\ r.type = "schedule" /\ r.user \in Users /\ r.window \in DayEntry(Days, Times)
      /\ r.window.startTime < r.window.endTime
  BY <1>2, RequestFields DEF GoodLocal, StageFits, ScheduleStages
<1>4. ASSUME NEW n \in mine
      PROVE  toTeam(n) \in Write /\ GoodWrite(r, toTeam(n), userSchedules, teams)
  <2>1. /\ snapshot[n] \in Team /\ teams[n] # NoTeam
        /\ \A k \in DOMAIN snapshot[n].schedule : Exact(snapshot[n].schedule[k])
    BY <1>2 DEF Local, GoodLocal, ExactEntries
  <2> HIDE DEF snapshot
  <2>2. after(n) \in Seq(TeamEntry(Days, Times)) /\ ExactEntries(after(n))
    BY <1>3, <2>1, OwnDayOnTeam DEF ExactEntries
  <2> HIDE DEF after
  <2>3. toTeam(n) \in Write
    BY <2>2 DEF Write
  <2>4. /\ toTeam(n).kind = "setTeamSchedule" /\ toTeam(n).team = n
        /\ toTeam(n).schedule = after(n)
    OBVIOUS
  <2> HIDE DEF toTeam
  <2> QED
    BY <1>3, <2>1, <2>2, <2>3, <2>4 DEF GoodWrite
<1>5. toUser \in Write /\ GoodWrite(r, toUser, userSchedules, teams)
  <2> DEFINE own == local[r].own
             new == Append(own, r.window)
  <2>1. own \in Seq(DayEntry(Days, Times)) /\ Proper(own)
    BY <1>2 DEF Local, GoodLocal
  <2> HIDE DEF own
  <2>2. /\ new \in Seq(DayEntry(Days, Times)) /\ new # <<>>
        /\ DOMAIN new = 1 .. (Len(own) + 1) /\ Len(own) \in Nat
        /\ \A k \in 1 .. Len(own) : new[k] = own[k]
        /\ new[Len(own) + 1] = r.window
    BY <1>3, <2>1, AppendProperties
  <2> HIDE DEF new
  <2>3. Proper(new)
    <3>1. ASSUME NEW k \in DOMAIN new
          PROVE  new[k].startTime < new[k].endTime
      <4>1. CASE k = Len(own) + 1
        BY <1>3, <2>2, <4>1
      <4>2. CASE k \in 1 .. Len(own)
        BY <2>1, <2>2, <4>2, LenProperties DEF Proper
      <4> QED
        BY <2>2, <4>1, <4>2
    <3> QED
      BY <3>1 DEF Proper
  <2>4. toUser = [kind |-> "setUserSchedule", user |-> r.user, schedule |-> new]
    BY DEF new, own
  <2> HIDE DEF toUser
  <2>5. /\ toUser \in Write
        /\ toUser.kind = "setUserSchedule" /\ toUser.schedule = new
    BY <1>3, <2>2, <2>4 DEF Write
  <2> QED
    BY <1>3, <2>2, <2>3, <2>5 DEF GoodWrite
<1>6. gi' \in Nat
  <2>1. mine \subseteq TeamNames
    OBVIOUS
  <2>2. IsFiniteSet(mine)
    BY <2>1, TeamNamesFinite, FS_Subset
  <2> QED
    BY <1>1, <2>2, FS_CardinalityType
<1>7. /\ ws \in SUBSET Write
      /\ \A w \in ws : GoodWrite(r, w, userSchedules, teams)
  <2> HIDE DEF mine, toTeam, toUser
  <2> QED
    BY <1>4, <1>5
<1> HIDE DEF ws
<1> QED
  BY <1>1, <1>6, <1>7, SendInv

LEMMA TeamFindNameInv ==
    ASSUME Inv, NEW r \in Workload, TeamFindName(r)
    PROVE  Inv'
<1>1. userSchedules' = userSchedules /\ teams' = teams /\ pc[r] = "findName"
  BY DEF TeamFindName, store, At
<1>2. CASE Return(r, 409)
  BY <1>1, <1>2, ReturnInv DEF Status
<1>3. CASE Await(r, "findCreator", Blank) /\ UNCHANGED gi
  <2>1. GoodLocal(r, "findName", local[r], userSchedules, teams)
    BY <1>1, InvFacts
  <2>2. StageFits(r, "findCreator") /\ "findCreator" \in Stage
    BY <2>1 DEF GoodLocal, StageFits, ScheduleStages, TeamStages, InTeam, Stage
  <2>3. Blank \in Local /\ GoodLocal(r, "findCreator", Blank, userSchedules, teams)
    BY <2>2, BlankGood
  <2>4. gi' \in Nat
    BY <1>3, InvFacts
  <2> QED
    BY <1>1, <1>3, <2>2, <2>3, <2>4, AwaitInv
<1> QED
  BY <1>2, <1>3 DEF TeamFindName

LEMMA TeamFindCreatorInv ==
    ASSUME Inv, NEW r \in Workload, TeamFindCreator(r)
    PROVE  Inv'
<1> DEFINE l == [Blank EXCEPT !.own = userSchedules[r.user]]
<1>1. userSchedules' = userSchedules /\ teams' = teams /\ pc[r] = "findCreator"
  BY DEF TeamFindCreator, store, At
<1>2. CASE Return(r, 401)
  BY <1>1, <1>2, ReturnInv DEF Status
<1>3. CASE userSchedules[r.user] # <<>> /\ Await(r, "creatorFound", l) /\ UNCHANGED gi
  <2>1. GoodLocal(r, "findCreator", local[r], userSchedules, teams)
    BY <1>1, InvFacts
  <2>2. /\ StageFits(r, "findCreator") /\ StageFits(r, "creatorFound")
        /\ "creatorFound" \in Stage
    BY <2>1 DEF GoodLocal, StageFits, ScheduleStages, TeamStages, InTeam, Stage
  <2>3. Blank \in Local /\ GoodLocal(r, "findCreator", Blank, userSchedules, teams)
    BY <2>2, BlankGood
  <2>4. /\ userSchedules[r.user] \in Seq(DayEntry(Days, Times))
        /\ Proper(userSchedules[r.user])
    BY RequestFields, InvFacts DEF LegalDB
  <2>5. /\ l \in Local /\ l.own = userSchedules[r.user]
        /\ l.schedule = Blank.schedule /\ l.snapshot = Blank.snapshot
    BY <2>3, <2>4 DEF Local
  <2> HIDE DEF l
  <2>6. GoodLocal(r, "creatorFound", l, userSchedules, teams)
    BY <1>3, <2>2, <2>3, <2>4, <2>5, NotInTeam DEF GoodLocal
  <2>7. gi' \in Nat
    BY <1>3, InvFacts
  <2> QED
    BY <1>1, <1>3, <2>2, <2>5, <2>6, <2>7, AwaitInv
<1> QED
  BY <1>2, <1>3 DEF TeamFindCreator

LEMMA TeamSaveInv ==
    ASSUME Inv, NEW r \in Workload, TeamSave(r)
    PROVE  Inv'
<1> DEFINE days == InitialTeamSchedule(local[r].own)
           w == [kind |-> "insertTeam", team |-> r.team, creator |-> r.user,
                 schedule |-> days]
<1>1. /\ userSchedules' = userSchedules /\ teams' = teams
      /\ gi' = Len(local[r].own) /\ pc[r] = "creatorFound" /\ Send(r, {w})
  BY DEF TeamSave, At, store
<1>2. /\ GoodLocal(r, "creatorFound", local[r], userSchedules, teams)
      /\ local[r] \in Local
  BY <1>1, InvFacts
<1>3. /\ r.type = "team" /\ r.user \in Users /\ r.team \in TeamNames
      /\ userSchedules[r.user] # <<>>
  BY <1>2, RequestFields DEF GoodLocal, StageFits, TeamStages
<1>4. /\ local[r].own \in Seq(DayEntry(Days, Times))
      /\ \A k \in DOMAIN local[r].own :
            local[r].own[k].startTime < local[r].own[k].endTime
  BY <1>2 DEF Local, GoodLocal, Proper
<1>5. days \in Seq(TeamEntry(Days, Times)) /\ ExactEntries(days)
  BY <1>4, InitialSchedule DEF ExactEntries
<1>6. gi' \in Nat
  BY <1>1, <1>4, LenProperties
<1> HIDE DEF days
<1>7. w \in Write
  BY <1>3, <1>5 DEF Write
<1>8. GoodWrite(r, w, userSchedules, teams)
  BY <1>3, <1>5 DEF GoodWrite
<1> HIDE DEF w
<1> QED
  BY <1>1, <1>6, <1>7, <1>8, SendInv

-----------------------------------------------------------------------------
\* The team a member request is about, once it has been read.
LEMMA MemberFacts ==
    ASSUME Inv, NEW r \in Workload, pc[r] \in InTeam
    PROVE  /\ r.type = "member" /\ r.added \in Users /\ r.team \in TeamNames
           /\ teams[r.team] # NoTeam /\ teams[r.team] \in Team
           /\ LegalTeam(teams[r.team], userSchedules)
           /\ GoodMembers(r.team, local[r].members, userSchedules, teams)
           /\ local[r] \in Local
           /\ GoodLocal(r, pc[r], local[r], userSchedules, teams)
           /\ \A stage \in InTeam : StageFits(r, stage)
           /\ gi \in Nat
<1>1. GoodLocal(r, pc[r], local[r], userSchedules, teams) /\ local[r] \in Local /\ gi \in Nat
  BY InvFacts
<1>2. /\ r.type = "member" /\ r.team \in TeamNames
      /\ GoodMembers(r.team, local[r].members, userSchedules, teams)
  BY <1>1 DEF GoodLocal, StageFits
<1>3. teams[r.team] # NoTeam
  BY <1>2 DEF GoodMembers
<1>4. teams[r.team] \in Team /\ LegalTeam(teams[r.team], userSchedules)
  BY <1>2, <1>3, InvFacts DEF LegalDB
<1>5. \A stage \in InTeam : StageFits(r, stage)
  BY <1>2 DEF StageFits, ScheduleStages, TeamStages, InTeam
<1> QED
  BY <1>1, <1>2, <1>3, <1>4, <1>5, RequestFields

LEMMA MemberFindTeamInv ==
    ASSUME Inv, NEW r \in Workload, MemberFindTeam(r)
    PROVE  Inv'
<1> DEFINE l == [Blank EXCEPT !.members = teams[r.team].members]
<1>1. /\ userSchedules' = userSchedules /\ teams' = teams /\ pc[r] = "findTeam"
      /\ UNCHANGED store
  BY DEF MemberFindTeam, store, At
<1>2. CASE DieHandling
  BY <1>1, <1>2, DieHandlingInv
<1>3. CASE Return(r, 403) \/ Return(r, 404)
  BY <1>1, <1>3, ReturnInv DEF Status
<1>4. CASE /\ r.team # NoSuchTeam /\ teams[r.team].creator = r.user
           /\ Await(r, "findMember", l) /\ UNCHANGED gi
  <2>1. GoodLocal(r, "findTeam", local[r], userSchedules, teams)
    BY <1>1, InvFacts
  <2>2. /\ r.type = "member" /\ StageFits(r, "findTeam") /\ StageFits(r, "findMember")
        /\ "findMember" \in Stage /\ "findMember" \in InTeam
        /\ "findMember" \notin WithAdded \cup InLoop
    BY <2>1 DEF GoodLocal, StageFits, ScheduleStages, TeamStages, InTeam, Stage,
                WithAdded, InLoop
  <2>3. r.team \in TeamNames /\ r.user \in Users
    BY <1>4, <2>2, RequestFields
  <2>4. /\ teams[r.team] # NoTeam /\ teams[r.team] \in Team
        /\ LegalTeam(teams[r.team], userSchedules)
    BY <1>4, <2>3, InvFacts, NoUserIsNobody DEF NoTeam, LegalDB
  <2>5. Blank \in Local /\ GoodLocal(r, "findTeam", Blank, userSchedules, teams)
    BY <2>2, BlankGood
  <2>6. /\ l \in Local /\ l.members = teams[r.team].members /\ l.own = Blank.own
        /\ l.schedule = Blank.schedule /\ l.snapshot = Blank.snapshot
    BY <2>4, <2>5 DEF Local, Team
  <2> HIDE DEF l
  <2>7. GoodMembers(r.team, l.members, userSchedules, teams)
    BY <2>4, <2>6 DEF GoodMembers, LegalTeam
  <2>8. GoodLocal(r, "findMember", l, userSchedules, teams)
    BY <2>2, <2>3, <2>5, <2>6, <2>7 DEF GoodLocal
  <2>9. gi' \in Nat
    BY <1>4, InvFacts
  <2> QED
    BY <1>1, <1>4, <2>2, <2>6, <2>8, <2>9, AwaitInv
<1> QED
  BY <1>2, <1>3, <1>4 DEF MemberFindTeam

LEMMA MemberFindMemberInv ==
    ASSUME Inv, NEW r \in Workload, MemberFindMember(r)
    PROVE  Inv'
<1>1. userSchedules' = userSchedules /\ teams' = teams /\ pc[r] = "findMember"
  BY DEF MemberFindMember, store, At
<1>2. CASE Return(r, 409)
  BY <1>1, <1>2, ReturnInv DEF Status
<1>3. CASE Await(r, "findAdded", local[r]) /\ UNCHANGED gi
  <2>1. /\ pc[r] \in InTeam /\ "findAdded" \in InTeam \cap Stage
        /\ "findAdded" \notin WithAdded \cup InLoop
    BY <1>1 DEF InTeam, Stage, WithAdded, InLoop
  <2>2. GoodLocal(r, "findAdded", local[r], userSchedules, teams)
    BY <2>1, MemberFacts DEF GoodLocal
  <2>3. gi' \in Nat /\ local[r] \in Local
    BY <1>3, InvFacts
  <2> QED
    BY <1>1, <1>3, <2>1, <2>2, <2>3, AwaitInv
<1> QED
  BY <1>2, <1>3 DEF MemberFindMember

LEMMA MemberFindAddedInv ==
    ASSUME Inv, NEW r \in Workload, MemberFindAdded(r)
    PROVE  Inv'
<1>1. userSchedules' = userSchedules /\ teams' = teams /\ pc[r] = "findAdded"
  BY DEF MemberFindAdded, store, At
<1>2. CASE Return(r, 400)
  BY <1>1, <1>2, ReturnInv DEF Status
<1>3. CASE /\ userSchedules[r.added] # <<>>
           /\ Await(r, "findTeamAgain", local[r]) /\ UNCHANGED gi
  <2>1. /\ pc[r] \in InTeam /\ "findTeamAgain" \in InTeam \cap Stage
        /\ "findTeamAgain" \notin InLoop
    BY <1>1 DEF InTeam, Stage, InLoop
  <2>2. GoodLocal(r, "findTeamAgain", local[r], userSchedules, teams)
    BY <1>3, <2>1, MemberFacts DEF GoodLocal
  <2>3. gi' \in Nat /\ local[r] \in Local
    BY <1>3, InvFacts
  <2> QED
    BY <1>1, <1>3, <2>1, <2>2, <2>3, AwaitInv
<1> QED
  BY <1>2, <1>3 DEF MemberFindAdded

LEMMA MemberFindTeamAgainInv ==
    ASSUME Inv, NEW r \in Workload, MemberFindTeamAgain(r)
    PROVE  Inv'
<1> DEFINE l == [local[r] EXCEPT !.schedule = teams[r.team].schedule]
<1>1. /\ userSchedules' = userSchedules /\ teams' = teams /\ gi' = gi
      /\ pc[r] = "findTeamAgain" /\ Await(r, "teamFound", l)
  BY DEF MemberFindTeamAgain, At
<1>2. /\ pc[r] \in InTeam /\ pc[r] \in WithAdded /\ "teamFound" \in InTeam \cap Stage
      /\ "teamFound" \notin InLoop
  BY <1>1 DEF InTeam, WithAdded, Stage, InLoop
<1>3. /\ local[r] \in Local /\ teams[r.team] \in Team /\ gi' \in Nat
      /\ ExactEntries(teams[r.team].schedule)
  BY <1>1, <1>2, MemberFacts DEF LegalTeam
<1>4. /\ l \in Local /\ l.schedule = teams[r.team].schedule
      /\ l.own = local[r].own /\ l.snapshot = local[r].snapshot
      /\ l.members = local[r].members
  BY <1>3 DEF Local, Team
<1> HIDE DEF l
<1>5. GoodLocal(r, "teamFound", l, userSchedules, teams)
  BY <1>2, <1>3, <1>4, MemberFacts DEF GoodLocal
<1> QED
  BY <1>1, <1>2, <1>3, <1>4, <1>5, AwaitInv

\* The memory of a handler that has taken the next entry of the array.
Taken(old, schedule, next, found) ==
    [old EXCEPT !.schedule = schedule, !.at = next, !.found = found]

LEMMA NextEntry ==
    ASSUME NEW old \in Local, NEW schedule \in Seq(TeamEntry(Days, Times)),
           NEW next \in Nat, NEW found \in Seq(DayEntry(Days, Times))
    PROVE  LET l == Taken(old, schedule, next, found)
           IN  /\ l \in Local /\ l.schedule = schedule /\ l.at = next
               /\ l.own = old.own /\ l.snapshot = old.snapshot
               /\ l.members = old.members
<1> DEFINE a == [old EXCEPT !.schedule = schedule]
           b == [a EXCEPT !.at = next]
           c == [b EXCEPT !.found = found]
<1>1. /\ a \in Local /\ a.schedule = schedule /\ a.own = old.own
      /\ a.snapshot = old.snapshot /\ a.members = old.members
  BY DEF Local
<1> HIDE DEF a
<1>2. /\ b \in Local /\ b.schedule = schedule /\ b.at = next /\ b.own = old.own
      /\ b.snapshot = old.snapshot /\ b.members = old.members
  BY <1>1 DEF Local
<1> HIDE DEF b
<1>3. /\ c \in Local /\ c.schedule = schedule /\ c.at = next /\ c.own = old.own
      /\ c.snapshot = old.snapshot /\ c.members = old.members
  BY <1>2 DEF Local
<1>4. Taken(old, schedule, next, found) = c
  BY DEF a, b, Local, Taken
<1> QED
  BY <1>3, <1>4

LEMMA MemberLoopInv ==
    ASSUME Inv, NEW r \in Workload, pc[r] \in InTeam, pc[r] \in WithAdded,
           NEW index \in Nat, NEW schedule \in Seq(TeamEntry(Days, Times)),
           ExactEntries(schedule), MemberLoop(r, index, schedule), UNCHANGED store
    PROVE  Inv'
<1> DEFINE l == [local[r] EXCEPT !.schedule = schedule, !.at = index + 1, !.found = <<>>]
           new == Append(local[r].members, r.added)
           toTeam == [kind |-> "setTeamSchedule", team |-> r.team, schedule |-> schedule]
           toMembers == [kind |-> "setMembers", team |-> r.team, members |-> new]
<1>1. userSchedules' = userSchedules /\ teams' = teams /\ gi' \in Nat
  BY DEF store, MemberLoop
<1>2. /\ r.type = "member" /\ r.added \in Users /\ r.team \in TeamNames
      /\ GoodMembers(r.team, local[r].members, userSchedules, teams)
      /\ local[r] \in Local /\ userSchedules[r.added] # <<>>
      /\ teams[r.team] # NoTeam
      /\ GoodLocal(r, pc[r], local[r], userSchedules, teams)
      /\ \A stage \in InTeam : StageFits(r, stage)
  BY MemberFacts DEF GoodLocal
<1>3. CASE index < Len(schedule) /\ Await(r, "findAddedDay", l)
  <2>1. /\ l \in Local /\ l.schedule = schedule /\ l.at = index + 1
        /\ l.own = local[r].own /\ l.snapshot = local[r].snapshot
        /\ l.members = local[r].members
    <3> DEFINE old == local[r]
               next == index + 1
               found == <<>>
    <3>1. /\ old \in Local /\ next \in Nat
          /\ found \in Seq(DayEntry(Days, Times))
      BY <1>2
    <3>2. l = Taken(old, schedule, next, found)
      BY DEF Taken
    <3> HIDE DEF l, old, next, found
    <3>3. LET t == Taken(old, schedule, next, found)
          IN  /\ t \in Local /\ t.schedule = schedule /\ t.at = next
              /\ t.own = old.own /\ t.snapshot = old.snapshot
              /\ t.members = old.members
      BY <3>1, NextEntry
    <3>4. /\ l \in Local /\ l.schedule = schedule /\ l.at = next
          /\ l.own = old.own /\ l.snapshot = old.snapshot
          /\ l.members = old.members
      BY <3>2, <3>3
    <3> QED
      BY <3>4 DEF old, next
  <2>2. index + 1 \in DOMAIN schedule
    BY <1>3, LenProperties
  <2>3. "findAddedDay" \in Stage /\ "findAddedDay" \in InTeam
    BY DEF Stage, InTeam
  <2> HIDE DEF l
  <2>4. GoodLocal(r, "findAddedDay", l, userSchedules, teams)
    BY <1>2, <2>1, <2>2, <2>3 DEF GoodLocal
  <2> QED
    BY <1>1, <1>3, <2>1, <2>3, <2>4, AwaitInv
<1>4. CASE Send(r, {toTeam, toMembers})
  <2>1. toTeam \in Write /\ GoodWrite(r, toTeam, userSchedules, teams)
    BY <1>2 DEF Write, GoodWrite
  <2>2. /\ new \in Seq(Users) /\ GoodMembers(r.team, new, userSchedules, teams)
    <3> DEFINE old == local[r].members
    <3>1. old \in Seq(Users) /\ old # <<>> /\ old[1] = teams[r.team].creator
          /\ \A i \in DOMAIN old : userSchedules[old[i]] # <<>>
      BY <1>2 DEF Local, GoodMembers
    <3> HIDE DEF old
    <3>2. /\ Append(old, r.added) \in Seq(Users) /\ Append(old, r.added) # <<>>
          /\ DOMAIN Append(old, r.added) = 1 .. (Len(old) + 1)
          /\ Len(old) \in Nat /\ Len(old) # 0 /\ DOMAIN old = 1 .. Len(old)
          /\ \A i \in 1 .. Len(old) : Append(old, r.added)[i] = old[i]
          /\ Append(old, r.added)[Len(old) + 1] = r.added
      BY <1>2, <3>1, AppendProperties, LenProperties, EmptySeq
    <3>3. new = Append(old, r.added)
      BY DEF old
    <3> HIDE DEF new
    <3>4. new[1] = teams[r.team].creator
      BY <3>1, <3>2, <3>3
    <3>5. \A i \in DOMAIN new : userSchedules[new[i]] # <<>>
      BY <1>2, <3>1, <3>2, <3>3
    <3> QED
      BY <1>2, <3>2, <3>3, <3>4, <3>5 DEF GoodMembers
  <2> HIDE DEF new
  <2>3. toMembers \in Write /\ GoodWrite(r, toMembers, userSchedules, teams)
    BY <1>2, <2>2 DEF Write, GoodWrite
  <2> HIDE DEF toTeam, toMembers
  <2> QED
    BY <1>1, <1>4, <2>1, <2>3, SendInv
<1> QED
  BY <1>3, <1>4 DEF MemberLoop

LEMMA MemberStartLoopInv ==
    ASSUME Inv, NEW r \in Workload, MemberStartLoop(r)
    PROVE  Inv'
<1>1. /\ pc[r] = "teamFound" /\ UNCHANGED store
      /\ MemberLoop(r, 0, local[r].schedule)
  BY DEF MemberStartLoop, At
<1>2. pc[r] \in InTeam /\ pc[r] \in WithAdded
  BY <1>1 DEF InTeam, WithAdded
<1>3. /\ local[r].schedule \in Seq(TeamEntry(Days, Times))
      /\ ExactEntries(local[r].schedule)
  BY <1>2, MemberFacts DEF Local, GoodLocal
<1> QED
  BY <1>1, <1>2, <1>3, MemberLoopInv

LEMMA MemberFindAddedDayInv ==
    ASSUME Inv, NEW r \in Workload, MemberFindAddedDay(r)
    PROVE  Inv'
<1> DEFINE posted == userSchedules[r.added]
           index  == FindDay(posted, local[r].schedule[local[r].at].day)
           found  == IF index = 0 THEN <<>> ELSE <<posted[index]>>
           l      == [local[r] EXCEPT !.found = found]
<1>1. /\ userSchedules' = userSchedules /\ teams' = teams /\ gi' = gi
      /\ pc[r] = "findAddedDay" /\ Await(r, "addedDayFound", l)
  BY DEF MemberFindAddedDay, At
<1>2. /\ pc[r] \in InTeam /\ pc[r] \in WithAdded /\ pc[r] \in InLoop
      /\ "addedDayFound" \in InTeam \cap Stage
  BY <1>1 DEF InTeam, WithAdded, InLoop, Stage
<1>3. local[r] \in Local /\ r.added \in Users /\ gi' \in Nat
  BY <1>1, <1>2, MemberFacts
<1>4. posted \in Seq(DayEntry(Days, Times))
  BY <1>3, InvFacts
<1>5. found \in Seq(DayEntry(Days, Times))
  <2>1. CASE index = 0
    BY <2>1
  <2>2. CASE index # 0
    <3>1. index \in DOMAIN posted
      BY <1>4, <2>2, FindDayFinds
    <3>2. posted[index] \in DayEntry(Days, Times)
      BY <1>4, <3>1, ElementOfSeq, LenProperties
    <3> QED
      BY <2>2, <3>2
  <2> QED
    BY <2>1, <2>2
<1> HIDE DEF found
<1>6. /\ l \in Local /\ l.schedule = local[r].schedule /\ l.at = local[r].at
      /\ l.own = local[r].own /\ l.snapshot = local[r].snapshot
      /\ l.members = local[r].members
  BY <1>3, <1>5 DEF Local
<1> HIDE DEF l
<1>7. GoodLocal(r, "addedDayFound", l, userSchedules, teams)
  BY <1>2, <1>6, MemberFacts DEF GoodLocal
<1> QED
  BY <1>1, <1>2, <1>3, <1>6, <1>7, AwaitInv

\* An entry of the array replaced by another of the right kind.
LEMMA EntryReplaced ==
    ASSUME NEW schedule \in Seq(TeamEntry(Days, Times)), ExactEntries(schedule),
           NEW index \in DOMAIN schedule, NEW entry \in TeamEntry(Days, Times), Exact(entry)
    PROVE  /\ [schedule EXCEPT ![index] = entry] \in Seq(TeamEntry(Days, Times))
           /\ ExactEntries([schedule EXCEPT ![index] = entry])
BY ExceptSeq, LenProperties DEF ExactEntries

LEMMA MemberUseAddedDayInv ==
    ASSUME Inv, NEW r \in Workload, MemberUseAddedDay(r)
    PROVE  Inv'
<1> DEFINE l        == local[r]
           schedule == l.schedule
           seen     == schedule[l.at]
           index    == gi + 1
           entry    == schedule[index]
           moves    == l.found # <<>> /\ MemberNarrows(seen, l.found[1])
           closed   == [schedule EXCEPT ![index] = CloseWindow(@)]
           narrowed == [schedule EXCEPT ![index] = NarrowByMember(@, seen, l.found[1])]
<1>1. pc[r] = "addedDayFound" /\ UNCHANGED store
  BY DEF MemberUseAddedDay, At
<1>2. pc[r] \in InTeam /\ pc[r] \in WithAdded /\ pc[r] \in InLoop
  BY <1>1 DEF InTeam, WithAdded, InLoop
<1>3. /\ schedule \in Seq(TeamEntry(Days, Times)) /\ ExactEntries(schedule)
      /\ l.at \in DOMAIN schedule
      /\ l.found \in Seq(DayEntry(Days, Times))
      /\ index \in Nat /\ index # 0
  BY <1>2, MemberFacts DEF Local, GoodLocal
<1>4. \/ DieHandling
      \/ l.found = <<>> /\ index <= Len(schedule) /\ MemberLoop(r, index, closed)
      \/ moves /\ index <= Len(schedule) /\ MemberLoop(r, index, narrowed)
      \/ MemberLoop(r, index, schedule)
  BY DEF MemberUseAddedDay
<1>5. CASE DieHandling
  BY <1>1, <1>5, DieHandlingInv
<1>6. CASE l.found = <<>> /\ index <= Len(schedule) /\ MemberLoop(r, index, closed)
  <2>1. index \in DOMAIN schedule
    BY <1>3, <1>6, LenProperties
  <2>2. entry \in TeamEntry(Days, Times)
    BY <1>3, <2>1, ElementOfSeq, LenProperties
  <2>3. CloseWindow(entry) \in TeamEntry(Days, Times) /\ Exact(CloseWindow(entry))
    BY <2>2, CloseWindowSafe
  <2>4. closed = [schedule EXCEPT ![index] = CloseWindow(entry)]
    BY <2>1
  <2>5. closed \in Seq(TeamEntry(Days, Times)) /\ ExactEntries(closed)
    BY <1>3, <2>1, <2>3, <2>4, EntryReplaced
  <2> HIDE DEF closed
  <2> QED
    BY <1>1, <1>2, <1>3, <1>6, <2>5, MemberLoopInv
<1>7. CASE moves /\ index <= Len(schedule) /\ MemberLoop(r, index, narrowed)
  <2> DEFINE after == NarrowByMember(entry, seen, l.found[1])
  <2>1. index \in DOMAIN schedule
    BY <1>3, <1>7, LenProperties
  <2>2. entry \in TeamEntry(Days, Times) /\ seen \in TeamEntry(Days, Times)
    BY <1>3, <2>1, ElementOfSeq, LenProperties
  <2>3. l.found[1] \in DayEntry(Days, Times)
    <3>1. Len(l.found) \in Nat /\ Len(l.found) # 0
      BY <1>3, <1>7, LenProperties, EmptySeq
    <3>2. 1 \in 1 .. Len(l.found)
      BY <3>1
    <3> QED
      BY <1>3, <3>2, ElementOfSeq
  <2>4. Exact(entry)
    BY <1>3, <2>1 DEF ExactEntries
  <2>5. after \in TeamEntry(Days, Times) /\ Exact(after)
    BY <2>2, <2>3, <2>4, NarrowByMemberSafe
  <2>6. narrowed = [schedule EXCEPT ![index] = after]
    BY <2>1
  <2>7. narrowed \in Seq(TeamEntry(Days, Times)) /\ ExactEntries(narrowed)
    BY <1>3, <2>1, <2>5, <2>6, EntryReplaced
  <2> HIDE DEF narrowed
  <2> QED
    BY <1>1, <1>2, <1>3, <1>7, <2>7, MemberLoopInv
<1>8. CASE MemberLoop(r, index, schedule)
  BY <1>1, <1>2, <1>3, <1>8, MemberLoopInv
<1> QED
  BY <1>4, <1>5, <1>6, <1>7, <1>8

-----------------------------------------------------------------------------
LEMMA InitInv ==
    ASSUME Init
    PROVE  Inv
<1>1. LegalDB(userSchedules, teams)
  BY InitialDBsAreLegal DEF Init
<1>2. Blank \in Local
  BY BlankGood
<1>3. TypeOK
  BY <1>1, <1>2, BoundsAreNumbers
     DEF Init, TypeOK, StoreTypeOK, LegalDB, Stage, Status
<1>4. \A r \in Workload : GoodLocal(r, "waiting", Blank, userSchedules, teams)
  <2>1. \A r \in Workload : StageFits(r, "waiting")
    BY DEF StageFits, ScheduleStages, TeamStages, InTeam
  <2> QED
    BY <2>1, BlankGood
<1>5. GoodHandlers
  BY <1>4 DEF Init, GoodHandlers
<1>6. GoodWrites /\ AckedTeamStands
  BY DEF Init, GoodWrites, AckedTeamStands
<1> QED
  BY <1>1, <1>3, <1>5, <1>6 DEF Inv

LEMMA HandlerStepInv ==
    ASSUME Inv, NEW r \in Workload, HandlerStep(r)
    PROVE  Inv'
<1>1. CASE ScheduleStep(r)
  BY <1>1, ScheduleFindDayInv, ScheduleFindScheduleInv, ScheduleFindTeamsInv,
     ScheduleUpdateTeamsInv DEF ScheduleStep
<1>2. CASE TeamStep(r)
  BY <1>2, TeamFindNameInv, TeamFindCreatorInv, TeamSaveInv DEF TeamStep
<1>3. CASE MemberStep(r)
  BY <1>3, MemberFindTeamInv, MemberFindMemberInv, MemberFindAddedInv,
     MemberFindTeamAgainInv, MemberStartLoopInv, MemberFindAddedDayInv,
     MemberUseAddedDayInv DEF MemberStep
<1> QED
  BY <1>1, <1>2, <1>3 DEF HandlerStep

LEMMA NextInv ==
    ASSUME Inv, [Next]_vars
    PROVE  Inv'
<1>1. ASSUME NEW r \in Workload, Receive(r) \/ HandlerStep(r)
      PROVE  Inv'
  BY <1>1, ReceiveInv, HandlerStepInv
<1>2. ASSUME NEW r \in Workload, WriteLands(r) \/ WriteFails(r) \/ WriteLost(r)
      PROVE  Inv'
  BY <1>2, WriteLandsInv, WriteFailsInv, WriteLostInv
<1>3. CASE Crash \/ Restart
  BY <1>3, CrashInv, RestartInv
<1>4. CASE UNCHANGED vars
  BY <1>4 DEF vars, Inv, TypeOK, StoreTypeOK, GoodHandlers, GoodWrites, AckedTeamStands
<1> QED
  BY <1>1, <1>2, <1>3, <1>4 DEF Next

\* What the invariant says of the collections.
LEMMA InvImplies ==
    ASSUME Inv
    PROVE  TypeOK /\ WindowExact /\ CreatorFirst /\ MembersPosted /\ AckedTeamStands
<1>1. TypeOK /\ AckedTeamStands
  BY DEF Inv
<1>2. \A n \in TeamNames : teams[n] # NoTeam => LegalTeam(teams[n], userSchedules)
  BY InvFacts DEF LegalDB
<1>3. WindowExact
  <2> SUFFICES ASSUME NEW n \in TeamNames, NEW k \in DOMAIN teams[n].schedule
               PROVE  Exact(teams[n].schedule[k])
    BY DEF WindowExact
  <2>1. teams[n] # NoTeam
    BY DEF NoTeam
  <2> QED
    BY <1>2, <2>1 DEF LegalTeam, ExactEntries
<1>4. CreatorFirst
  BY <1>2 DEF CreatorFirst, Exists, LegalTeam
<1>5. MembersPosted
  <2> SUFFICES ASSUME NEW n \in TeamNames, NEW i \in DOMAIN teams[n].members
               PROVE  userSchedules[teams[n].members[i]] # <<>>
    BY DEF MembersPosted, Members, ToSet
  <2>1. teams[n] # NoTeam
    BY DEF NoTeam
  <2> QED
    BY <1>2, <2>1 DEF LegalTeam
<1> QED
  BY <1>1, <1>3, <1>4, <1>5

\* The invariant holds of every reachable state.
THEOREM ServiceInvariant == Spec => []Inv
BY InitInv, NextInv, PTL DEF Spec

(***************************************************************************)
(* The next five hold however the handlers interleave, in whatever order   *)
(* MongoDB executes their updates, whatever fails and whenever the process *)
(* dies.                                                                   *)
(***************************************************************************)

\* The collections and the memory of the handlers keep their types.
THEOREM ServiceTypes == Spec => []TypeOK
BY ServiceInvariant, InvImplies, PTL

\* The flag of every entry of a team agrees with its window.
THEOREM ServiceWindowExact == Spec => []WindowExact
BY ServiceInvariant, InvImplies, PTL

\* The creator of a team is its first member.
THEOREM ServiceCreatorFirst == Spec => []CreatorFirst
BY ServiceInvariant, InvImplies, PTL

\* Every member of a team has posted availability.
THEOREM ServiceMembersPosted == Spec => []MembersPosted
BY ServiceInvariant, InvImplies, PTL

\* A team whose creation was answered with 201 belongs to the one who asked.
THEOREM ServiceAckedTeamStands == Spec => []AckedTeamStands
BY ServiceInvariant, InvImplies, PTL

-----------------------------------------------------------------------------
(***************************************************************************)
(* One request at a time.  What is promised then is promised although      *)
(* updates fail and the process dies: with MaxInFlight = 1 a request is    *)
(* received once the last one's handler has ended and its updates are no   *)
(* longer in flight.                                                       *)
(***************************************************************************)
Begun(r) == pc[r] \notin {"waiting", "handled", "dead"}

OneBusy == \A q, r \in Workload : Busy(q) /\ Busy(r) => q = r

\* A handler answers and sends its updates when it returns.
NothingSentYet ==
    \A r \in Workload : pc[r] = "waiting" \/ Begun(r) => answer[r] = 0 /\ writes[r] = {}

(***************************************************************************)
(* The loop of postMembersHandler before the entry `next': those before it *)
(* are what they are to be, the others are what was read.                  *)
(***************************************************************************)
LoopedTo(next, schedule, old, posted) ==
    /\ DOMAIN schedule = DOMAIN old
    /\ \A k \in DOMAIN old :
          schedule[k] = IF k < next THEN ScheduleWithMember(old, posted)[k] ELSE old[k]

Looked(entry, posted) ==
    LET index == FindDay(posted, entry.day)
    IN  IF index = 0 THEN <<>> ELSE <<posted[index]>>

(***************************************************************************)
(* What a handler has read is still so, and no other handler's loop has    *)
(* moved i.                                                                *)
(***************************************************************************)
FreshLocal(r) ==
    LET l == local[r]
        old == teams[r.team].schedule
    IN  /\ pc[r] \in {"findSchedule", "findTeams", "teamsFound"} =>
              ~HasDay(userSchedules[r.user], r.window.day)
        /\ pc[r] \in {"findTeams", "teamsFound"} =>
              l.own = userSchedules[r.user] /\ l.own # <<>>
        /\ pc[r] = "teamsFound" => l.snapshot = TeamsOf(r.user)
        /\ pc[r] \in {"findCreator", "creatorFound"} => ~Exists(r.team)
        /\ pc[r] = "creatorFound" => l.own = userSchedules[r.user]
        /\ pc[r] \in InTeam => l.members = teams[r.team].members /\ teams[r.team].creator = r.user
        /\ pc[r] \in {"findAdded"} \cup WithAdded => r.added \notin Members(r.team)
        /\ pc[r] = "teamFound" => l.schedule = old
        /\ pc[r] \in InLoop =>
              /\ gi + 1 = l.at
              /\ LoopedTo(l.at, l.schedule, old, userSchedules[r.added])
        /\ pc[r] = "addedDayFound" =>
              l.found = Looked(l.schedule[l.at], userSchedules[r.added])

\* What an update in flight will make of the collections.
FreshWrite(r, w) ==
    /\ w.kind = "insertUser" =>
          w.user = r.user /\ userSchedules[r.user] = <<>> /\ w.schedule = <<r.window>>
    /\ w.kind = "setUserSchedule" =>
          w.user = r.user /\ w.schedule = Append(userSchedules[r.user], r.window)
    /\ w.kind \in {"insertUser", "setUserSchedule"} =>
          ~HasDay(userSchedules[r.user], r.window.day)
    /\ w.kind = "insertTeam" => ~Exists(w.team)
    /\ w.kind = "setMembers" =>
          /\ w.team = r.team /\ r.added \notin Members(r.team)
          /\ w.members = Append(teams[r.team].members, r.added)

\* Two updates of one request: of two teams, or of a team and one other field.
Apart(v, w) ==
    /\ v.kind \in {"setUserSchedule", "setMembers", "setTeamSchedule"}
    /\ v.kind = "setTeamSchedule" \/ w.kind = "setTeamSchedule"
    /\ v.kind = w.kind => v.team # w.team

Silent(w) == w.kind = "setTeamSchedule"

\* Without faults the handler has returned and one update is to answer.
UndisturbedWrites(r) ==
    faults = 0 /\ writes[r] # {} =>
        /\ pc[r] = "handled"
        /\ (\E w \in writes[r] : ~Silent(w)) => answer[r] = 0

FreshWrites(r) ==
    /\ \A w \in writes[r] : FreshWrite(r, w)
    /\ \A v, w \in writes[r] : v # w => Apart(v, w)
    /\ UndisturbedWrites(r)

\* AckedMemberKept, with the team being one.
AckedMemberIn ==
    \A r \in Workload : r.type = "member" /\ answer[r] = 201 =>
        r.team \in TeamNames /\ r.added \in Members(r.team)

SerialInv ==
    /\ OneBusy
    /\ NothingSentYet
    /\ \A r \in Workload : FreshLocal(r) /\ FreshWrites(r)
    /\ AckedDayKept
    /\ AckedMemberIn

-----------------------------------------------------------------------------
(***************************************************************************)
(* The frames of the steps of the one request that is busy.                *)
(***************************************************************************)
OnlyBusy(r) == \A q \in Workload : Busy(q) => q = r

\* The request is being handled, or about to be.
Working(r) == pc[r] = "waiting" \/ Begun(r)

LEMMA HandlerKeepsSerial ==
    ASSUME SerialInv, NEW r \in Workload, OnlyBusy(r),
           userSchedules' = userSchedules, teams' = teams,
           \A q \in Workload \ {r} :
              pc'[q] = pc[q] /\ writes'[q] = writes[q] /\ answer'[q] = answer[q],
           answer'[r] = 201 => answer[r] = 201,
           Working(r)' => answer'[r] = 0 /\ writes'[r] = {},
           FreshLocal(r)', FreshWrites(r)'
    PROVE  SerialInv'
<1>1. \A q \in Workload \ {r} :
         pc'[q] \in {"waiting", "handled", "dead"} /\ writes'[q] = {}
  BY DEF OnlyBusy, Busy
<1>2. OneBusy'
  BY <1>1 DEF OneBusy, Busy
<1>3. NothingSentYet'
  BY <1>1 DEF NothingSentYet, SerialInv, Begun, Working
<1>4. ASSUME NEW q \in Workload \ {r}
      PROVE  FreshLocal(q)' /\ FreshWrites(q)'
  BY <1>1 DEF FreshLocal, FreshWrites, UndisturbedWrites, InTeam, WithAdded, InLoop
<1>5. AckedDayKept' /\ AckedMemberIn'
  <2>1. \A q \in Workload : answer'[q] = 201 => answer[q] = 201
    OBVIOUS
  <2> QED
    BY <2>1 DEF SerialInv, AckedDayKept, AckedMemberIn, Members
<1> QED
  BY <1>2, <1>3, <1>4, <1>5 DEF SerialInv

LEMMA WorkingAlone ==
    ASSUME SerialInv, NEW r \in Workload, Begun(r)
    PROVE  OnlyBusy(r)
BY DEF SerialInv, OneBusy, OnlyBusy, Busy, Begun

LEMMA AwaitKeepsSerial ==
    ASSUME Inv, SerialInv, NEW r \in Workload, Working(r), OnlyBusy(r), NEW stage, NEW l,
           Await(r, stage, l), userSchedules' = userSchedules, teams' = teams,
           FreshLocal(r)'
    PROVE  SerialInv'
<1>1. answer[r] = 0 /\ writes[r] = {}
  BY DEF SerialInv, NothingSentYet, Working
<1>2. /\ \A q \in Workload \ {r} :
            pc'[q] = pc[q] /\ writes'[q] = writes[q] /\ answer'[q] = answer[q]
      /\ answer'[r] = 0 /\ writes'[r] = {}
  BY <1>1, InvFacts DEF Await
<1>3. FreshWrites(r)'
  BY <1>2 DEF FreshWrites, UndisturbedWrites
<1> QED
  BY <1>2, <1>3, HandlerKeepsSerial

\* What is handled, dead or waiting remembers nothing.
LEMMA NothingRead ==
    ASSUME NEW r \in Workload, pc'[r] \in {"waiting", "handled", "dead"}
    PROVE  FreshLocal(r)'
BY DEF FreshLocal, InTeam, WithAdded, InLoop

LEMMA ReturnKeepsSerial ==
    ASSUME Inv, SerialInv, NEW r \in Workload, Working(r), OnlyBusy(r),
           NEW status, status # 201, Return(r, status),
           userSchedules' = userSchedules, teams' = teams
    PROVE  SerialInv'
<1>1. writes[r] = {}
  BY DEF SerialInv, NothingSentYet, Working
<1>2. /\ \A q \in Workload \ {r} :
            pc'[q] = pc[q] /\ writes'[q] = writes[q] /\ answer'[q] = answer[q]
      /\ pc'[r] = "handled" /\ answer'[r] # 201 /\ writes'[r] = {}
  BY <1>1, InvFacts DEF Return
<1>3. FreshLocal(r)' /\ FreshWrites(r)'
  BY <1>2, NothingRead DEF FreshWrites, UndisturbedWrites
<1>4. ~Working(r)'
  BY <1>2 DEF Working, Begun
<1> QED
  BY <1>2, <1>3, <1>4, HandlerKeepsSerial

LEMMA SendKeepsSerial ==
    ASSUME Inv, SerialInv, NEW r \in Workload, Begun(r), NEW ws, Send(r, ws),
           \A w \in ws : FreshWrite(r, w), \A v, w \in ws : v # w => Apart(v, w),
           userSchedules' = userSchedules, teams' = teams
    PROVE  SerialInv'
<1>1. answer[r] = 0 /\ OnlyBusy(r)
  BY WorkingAlone DEF SerialInv, NothingSentYet, Working
<1>2. /\ \A q \in Workload \ {r} :
            pc'[q] = pc[q] /\ writes'[q] = writes[q] /\ answer'[q] = answer[q]
      /\ pc'[r] = "handled" /\ answer'[r] = 0 /\ writes'[r] = ws
  BY <1>1, InvFacts DEF Send
<1>3. FreshWrites(r)'
  BY <1>2 DEF FreshWrites, UndisturbedWrites, FreshWrite, Exists, Members
<1>4. FreshLocal(r)' /\ ~Working(r)'
  BY <1>2, NothingRead DEF Working, Begun
<1> QED
  BY <1>1, <1>2, <1>3, <1>4, HandlerKeepsSerial

\* The process dies; what was sent is still in flight, after a fault.
LEMMA DeathKeepsSerial ==
    ASSUME Inv, SerialInv, Die, userSchedules' = userSchedules, teams' = teams,
           writes' = writes, answer' = answer,
           faults' = 0 => \A r \in Workload : writes[r] = {}
    PROVE  SerialInv'
<1>1. \A r \in Workload :
         /\ pc'[r] \in {"waiting", "dead"}
         /\ pc'[r] = "waiting" => pc[r] = "waiting"
  BY DEF Die
<1>2. OneBusy'
  BY <1>1 DEF SerialInv, OneBusy, Busy
<1>3. NothingSentYet'
  BY <1>1 DEF SerialInv, NothingSentYet, Begun
<1>4. ASSUME NEW r \in Workload
      PROVE  FreshLocal(r)' /\ FreshWrites(r)'
  <2>1. FreshLocal(r)'
    BY <1>1, NothingRead
  <2>2. FreshWrites(r)'
    BY DEF SerialInv, FreshWrites, UndisturbedWrites, FreshWrite, Exists, Members
  <2> QED
    BY <2>1, <2>2
<1>5. AckedDayKept' /\ AckedMemberIn'
  BY DEF SerialInv, AckedDayKept, AckedMemberIn, Members
<1> QED
  BY <1>2, <1>3, <1>4, <1>5 DEF SerialInv

\* The fields of a memory of which one field is replaced.
LEMMA LocalWith ==
    ASSUME NEW l \in Local, NEW x
    PROVE  /\ [l EXCEPT !.own = x].own = x
           /\ [l EXCEPT !.snapshot = x].snapshot = x /\ [l EXCEPT !.snapshot = x].own = l.own
           /\ [l EXCEPT !.members = x].members = x
           /\ [l EXCEPT !.schedule = x].schedule = x
           /\ [l EXCEPT !.schedule = x].members = l.members
           /\ [l EXCEPT !.found = x].found = x
           /\ [l EXCEPT !.found = x].members = l.members
           /\ [l EXCEPT !.found = x].schedule = l.schedule
           /\ [l EXCEPT !.found = x].at = l.at
BY DEF Local

\* What a step that awaits leaves in the memory of its handler.
LEMMA Awaited ==
    ASSUME Inv, NEW r \in Workload, NEW stage, NEW l, Await(r, stage, l),
           userSchedules' = userSchedules, teams' = teams
    PROVE  pc'[r] = stage /\ local'[r] = l
BY InvFacts DEF Await

-----------------------------------------------------------------------------
LEMMA ReceiveSerial ==
    ASSUME MaxInFlight = 1, Inv, SerialInv, NEW r \in Workload, Receive(r)
    PROVE  SerialInv'
<1> DEFINE busy == {q \in Workload : Busy(q)}
<1>1. /\ pc[r] = "waiting" /\ userSchedules' = userSchedules /\ teams' = teams
      /\ Cardinality(busy) < 1
  BY DEF Receive, At, store
<1>2. busy = {}
  <2>1. IsFiniteSet(busy)
    BY WorkloadIsRequests, FS_Subset
  <2>2. Cardinality(busy) \in Nat
    BY <2>1, FS_CardinalityType
  <2>3. Cardinality(busy) = 0
    BY <1>1, <2>2
  <2> QED
    BY <2>1, <2>3, FS_EmptySet
<1>3. OnlyBusy(r) /\ Working(r)
  BY <1>1, <1>2 DEF OnlyBusy, Working
<1>4. CASE Return(r, 401) \/ Return(r, 400)
  BY <1>1, <1>3, <1>4, ReturnKeepsSerial
<1>5. CASE Await(r, FirstQuery[r.type], Blank) /\ UNCHANGED gi
  <2>1. FirstQuery[r.type] \in {"findDay", "findName", "findTeam"}
    BY RequestFields DEF FirstQuery
  <2>2. pc'[r] \in {"findDay", "findName", "findTeam"}
    BY <1>1, <1>5, <2>1, Awaited
  <2>3. FreshLocal(r)'
    BY <2>2 DEF FreshLocal, InTeam, WithAdded, InLoop
  <2> QED
    BY <1>1, <1>3, <1>5, <2>3, AwaitKeepsSerial
<1> QED
  BY <1>4, <1>5 DEF Receive

LEMMA ScheduleFindDaySerial ==
    ASSUME Inv, SerialInv, NEW r \in Workload, ScheduleFindDay(r)
    PROVE  SerialInv'
<1>1. userSchedules' = userSchedules /\ teams' = teams /\ pc[r] = "findDay"
  BY DEF ScheduleFindDay, store, At
<1>2. OnlyBusy(r) /\ Working(r)
  BY <1>1, WorkingAlone DEF Working, Begun
<1>3. CASE Return(r, 409) \/ Return(r, 400)
  BY <1>1, <1>2, <1>3, ReturnKeepsSerial
<1>4. CASE /\ ~HasDay(userSchedules[r.user], r.window.day)
           /\ Await(r, "findSchedule", Blank) /\ UNCHANGED gi
  <2>1. pc'[r] = "findSchedule"
    BY <1>1, <1>4, Awaited
  <2>2. FreshLocal(r)'
    BY <1>1, <1>4, <2>1 DEF FreshLocal, InTeam, WithAdded, InLoop
  <2> QED
    BY <1>1, <1>2, <1>4, <2>2, AwaitKeepsSerial
<1> QED
  BY <1>3, <1>4 DEF ScheduleFindDay

LEMMA ScheduleFindScheduleSerial ==
    ASSUME Inv, SerialInv, NEW r \in Workload, ScheduleFindSchedule(r)
    PROVE  SerialInv'
<1>1. userSchedules' = userSchedules /\ teams' = teams /\ pc[r] = "findSchedule"
  BY DEF ScheduleFindSchedule, At
<1>2. Begun(r) /\ OnlyBusy(r) /\ Working(r)
  BY <1>1, WorkingAlone DEF Working, Begun
<1>3. ~HasDay(userSchedules[r.user], r.window.day)
  BY <1>1 DEF SerialInv, FreshLocal
<1>4. CASE /\ userSchedules[r.user] = <<>>
           /\ Send(r, {[kind |-> "insertUser", user |-> r.user, schedule |-> <<r.window>>]})
  <2> DEFINE w == [kind |-> "insertUser", user |-> r.user, schedule |-> <<r.window>>]
  <2>1. FreshWrite(r, w)
    BY <1>3, <1>4 DEF FreshWrite
  <2>2. Send(r, {w})
    BY <1>4
  <2> HIDE DEF w
  <2> QED
    BY <1>1, <1>2, <2>1, <2>2, SendKeepsSerial
<1>5. CASE /\ userSchedules[r.user] # <<>>
           /\ Await(r, "findTeams", [Blank EXCEPT !.own = userSchedules[r.user]])
  <2>1. pc'[r] = "findTeams" /\ local'[r].own = userSchedules[r.user]
    <3> DEFINE own == userSchedules[r.user]
               l   == [Blank EXCEPT !.own = own]
    <3> HIDE DEF own
    <3>1. l.own = own
      BY BlankGood, LocalWith
    <3> USE DEF own
    <3>2. Await(r, "findTeams", l)
      BY <1>5
    <3> HIDE DEF l
    <3>3. pc'[r] = "findTeams" /\ local'[r] = l
      BY <1>1, <3>2, Awaited
    <3> QED
      BY <3>1, <3>3
  <2>2. FreshLocal(r)'
    BY <1>1, <1>3, <1>5, <2>1 DEF FreshLocal, InTeam, WithAdded, InLoop
  <2> QED
    BY <1>1, <1>2, <1>5, <2>2, AwaitKeepsSerial
<1> QED
  BY <1>4, <1>5 DEF ScheduleFindSchedule

LEMMA ScheduleFindTeamsSerial ==
    ASSUME Inv, SerialInv, NEW r \in Workload, ScheduleFindTeams(r)
    PROVE  SerialInv'
<1> DEFINE snapshot == TeamsOf(r.user)
           l == [local[r] EXCEPT !.snapshot = snapshot]
<1>1. /\ userSchedules' = userSchedules /\ teams' = teams /\ pc[r] = "findTeams"
      /\ Await(r, "teamsFound", l)
  BY DEF ScheduleFindTeams, At
<1>2. OnlyBusy(r) /\ Working(r)
  BY <1>1, WorkingAlone DEF Working, Begun
<1>3. /\ ~HasDay(userSchedules[r.user], r.window.day)
      /\ local[r].own = userSchedules[r.user] /\ local[r].own # <<>>
  BY <1>1 DEF SerialInv, FreshLocal
<1>4. snapshot' = snapshot
  BY <1>1 DEF TeamsOf, Members
<1>5. pc'[r] = "teamsFound" /\ local'[r].own = local[r].own /\ local'[r].snapshot = snapshot
  <2> HIDE DEF snapshot
  <2>1. l.own = local[r].own /\ l.snapshot = snapshot
    BY InvFacts, LocalWith
  <2> HIDE DEF l
  <2> QED
    BY <1>1, <2>1, Awaited
<1>6. FreshLocal(r)'
  BY <1>1, <1>3, <1>4, <1>5 DEF FreshLocal, InTeam, WithAdded, InLoop
<1> HIDE DEF l
<1> QED
  BY <1>1, <1>2, <1>6, AwaitKeepsSerial

LEMMA ScheduleUpdateTeamsSerial ==
    ASSUME Inv, SerialInv, NEW r \in Workload, ScheduleUpdateTeams(r)
    PROVE  SerialInv'
<1> DEFINE snapshot == local[r].snapshot
           mine     == {n \in TeamNames : snapshot[n] # NoTeam}
           after(n) == ScheduleAfterOwnDay(snapshot[n], r.format, r.window)
           toTeam(n) == [kind |-> "setTeamSchedule", team |-> n, schedule |-> after(n)]
           moved    == {n \in mine : after(n) # snapshot[n].schedule}
           toUser   == [kind |-> "setUserSchedule", user |-> r.user,
                        schedule |-> Append(local[r].own, r.window)]
           ws       == {toTeam(n) : n \in moved} \cup {toUser}
<1>1. /\ userSchedules' = userSchedules /\ teams' = teams
      /\ pc[r] = "teamsFound" /\ Send(r, ws)
  BY DEF ScheduleUpdateTeams, At, store
<1>2. Begun(r)
  BY <1>1 DEF Begun
<1>3. /\ ~HasDay(userSchedules[r.user], r.window.day)
      /\ local[r].own = userSchedules[r.user]
  BY <1>1 DEF SerialInv, FreshLocal
<1>4. /\ toUser.kind = "setUserSchedule" /\ toUser.user = r.user
      /\ toUser.schedule = Append(userSchedules[r.user], r.window)
      /\ \A n : toTeam(n).kind = "setTeamSchedule" /\ toTeam(n).team = n
  BY <1>3
<1> HIDE DEF toUser, toTeam, moved
<1>5. \A w \in ws : FreshWrite(r, w)
  BY <1>3, <1>4 DEF FreshWrite
<1>6. \A v, w \in ws : v # w => Apart(v, w)
  BY <1>4 DEF Apart
<1> HIDE DEF ws
<1> QED
  BY <1>1, <1>2, <1>5, <1>6, SendKeepsSerial

LEMMA TeamFindNameSerial ==
    ASSUME Inv, SerialInv, NEW r \in Workload, TeamFindName(r)
    PROVE  SerialInv'
<1>1. userSchedules' = userSchedules /\ teams' = teams /\ pc[r] = "findName"
  BY DEF TeamFindName, store, At
<1>2. OnlyBusy(r) /\ Working(r)
  BY <1>1, WorkingAlone DEF Working, Begun
<1>3. CASE Return(r, 409)
  BY <1>1, <1>2, <1>3, ReturnKeepsSerial
<1>4. CASE ~Exists(r.team) /\ Await(r, "findCreator", Blank) /\ UNCHANGED gi
  <2>1. pc'[r] = "findCreator"
    BY <1>1, <1>4, Awaited
  <2>2. FreshLocal(r)'
    BY <1>1, <1>4, <2>1 DEF FreshLocal, Exists, InTeam, WithAdded, InLoop
  <2> QED
    BY <1>1, <1>2, <1>4, <2>2, AwaitKeepsSerial
<1> QED
  BY <1>3, <1>4 DEF TeamFindName

LEMMA TeamFindCreatorSerial ==
    ASSUME Inv, SerialInv, NEW r \in Workload, TeamFindCreator(r)
    PROVE  SerialInv'
<1>1. userSchedules' = userSchedules /\ teams' = teams /\ pc[r] = "findCreator"
  BY DEF TeamFindCreator, store, At
<1>2. OnlyBusy(r) /\ Working(r)
  BY <1>1, WorkingAlone DEF Working, Begun
<1>3. ~Exists(r.team)
  BY <1>1 DEF SerialInv, FreshLocal
<1>4. CASE Return(r, 401)
  BY <1>1, <1>2, <1>4, ReturnKeepsSerial
<1>5. CASE /\ Await(r, "creatorFound", [Blank EXCEPT !.own = userSchedules[r.user]])
           /\ UNCHANGED gi
  <2>1. pc'[r] = "creatorFound" /\ local'[r].own = userSchedules[r.user]
    <3> DEFINE own == userSchedules[r.user]
               l   == [Blank EXCEPT !.own = own]
    <3> HIDE DEF own
    <3>1. l.own = own
      BY BlankGood, LocalWith
    <3> USE DEF own
    <3>2. Await(r, "creatorFound", l)
      BY <1>5
    <3> HIDE DEF l
    <3>3. pc'[r] = "creatorFound" /\ local'[r] = l
      BY <1>1, <3>2, Awaited
    <3> QED
      BY <3>1, <3>3
  <2>2. FreshLocal(r)'
    BY <1>1, <1>3, <1>5, <2>1 DEF FreshLocal, Exists, InTeam, WithAdded, InLoop
  <2> QED
    BY <1>1, <1>2, <1>5, <2>2, AwaitKeepsSerial
<1> QED
  BY <1>4, <1>5 DEF TeamFindCreator

LEMMA TeamSaveSerial ==
    ASSUME Inv, SerialInv, NEW r \in Workload, TeamSave(r)
    PROVE  SerialInv'
<1> DEFINE days == InitialTeamSchedule(local[r].own)
           w == [kind |-> "insertTeam", team |-> r.team, creator |-> r.user,
                 schedule |-> days]
<1>1. /\ userSchedules' = userSchedules /\ teams' = teams
      /\ pc[r] = "creatorFound" /\ Send(r, {w})
  BY DEF TeamSave, At, store
<1>2. Begun(r) /\ ~Exists(r.team)
  BY <1>1 DEF Begun, SerialInv, FreshLocal
<1> HIDE DEF days
<1>3. FreshWrite(r, w)
  BY <1>2 DEF FreshWrite
<1> HIDE DEF w
<1> QED
  BY <1>1, <1>2, <1>3, SendKeepsSerial

-----------------------------------------------------------------------------
LEMMA MemberFindTeamSerial ==
    ASSUME Inv, SerialInv, NEW r \in Workload, MemberFindTeam(r)
    PROVE  SerialInv'
<1>1. userSchedules' = userSchedules /\ teams' = teams /\ pc[r] = "findTeam"
  BY DEF MemberFindTeam, store, At
<1>2. Begun(r) /\ OnlyBusy(r) /\ Working(r)
  BY <1>1, WorkingAlone DEF Working, Begun
<1>3. CASE DieHandling
  <2>1. \A q \in Workload : writes[q] = {}
    BY <1>2 DEF SerialInv, NothingSentYet, OnlyBusy, Busy
  <2> QED
    BY <1>1, <1>3, <2>1, DeathKeepsSerial DEF DieHandling
<1>4. CASE Return(r, 403) \/ Return(r, 404)
  BY <1>1, <1>2, <1>4, ReturnKeepsSerial
<1>5. CASE /\ teams[r.team].creator = r.user
           /\ Await(r, "findMember", [Blank EXCEPT !.members = teams[r.team].members])
  <2> DEFINE members == teams[r.team].members
             l       == [Blank EXCEPT !.members = members]
  <2>1. Await(r, "findMember", l)
    BY <1>5
  <2>2. l.members = members
    <3> HIDE DEF members
    <3> QED
      BY BlankGood, LocalWith
  <2> HIDE DEF l
  <2>3. pc'[r] = "findMember" /\ local'[r].members = teams[r.team].members
    BY <1>1, <2>1, <2>2, Awaited
  <2>4. FreshLocal(r)'
    BY <1>1, <1>5, <2>3 DEF FreshLocal, InTeam, WithAdded, InLoop
  <2> QED
    BY <1>1, <1>2, <2>1, <2>4, AwaitKeepsSerial
<1> QED
  BY <1>3, <1>4, <1>5 DEF MemberFindTeam

\* What a handler knows of the team it is about to change.
LEMMA TeamStillRead ==
    ASSUME SerialInv, NEW r \in Workload, pc[r] \in InTeam
    PROVE  /\ local[r].members = teams[r.team].members /\ teams[r.team].creator = r.user
           /\ Begun(r) /\ OnlyBusy(r) /\ Working(r)
           /\ pc[r] \in WithAdded => r.added \notin Members(r.team)
<1>1. Begun(r)
  BY DEF Begun, InTeam
<1> QED
  BY <1>1, WorkingAlone DEF SerialInv, FreshLocal, Working

LEMMA MemberFindMemberSerial ==
    ASSUME Inv, SerialInv, NEW r \in Workload, MemberFindMember(r)
    PROVE  SerialInv'
<1>1. userSchedules' = userSchedules /\ teams' = teams /\ pc[r] \in InTeam
  BY DEF MemberFindMember, store, At, InTeam
<1>2. CASE Return(r, 409)
  BY <1>1, <1>2, TeamStillRead, ReturnKeepsSerial
<1>3. CASE r.added \notin Members(r.team) /\ Await(r, "findAdded", local[r]) /\ UNCHANGED gi
  <2>1. pc'[r] = "findAdded" /\ local'[r] = local[r]
    BY <1>1, <1>3, Awaited
  <2>2. FreshLocal(r)'
    BY <1>1, <1>3, <2>1, TeamStillRead DEF FreshLocal, Members, InTeam, WithAdded, InLoop
  <2> QED
    BY <1>1, <1>3, <2>2, TeamStillRead, AwaitKeepsSerial
<1> QED
  BY <1>2, <1>3 DEF MemberFindMember

LEMMA MemberFindAddedSerial ==
    ASSUME Inv, SerialInv, NEW r \in Workload, MemberFindAdded(r)
    PROVE  SerialInv'
<1>1. userSchedules' = userSchedules /\ teams' = teams /\ pc[r] \in InTeam
  BY DEF MemberFindAdded, store, At, InTeam
<1>2. CASE Return(r, 400)
  BY <1>1, <1>2, TeamStillRead, ReturnKeepsSerial
<1>3. CASE Await(r, "findTeamAgain", local[r]) /\ UNCHANGED gi
  <2>1. pc'[r] = "findTeamAgain" /\ local'[r] = local[r]
    BY <1>1, <1>3, Awaited
  <2>2. r.added \notin Members(r.team)
    BY DEF MemberFindAdded, At, SerialInv, FreshLocal
  <2>3. FreshLocal(r)'
    BY <1>1, <2>1, <2>2, TeamStillRead DEF FreshLocal, Members, InTeam, WithAdded, InLoop
  <2> QED
    BY <1>1, <1>3, <2>3, TeamStillRead, AwaitKeepsSerial
<1> QED
  BY <1>2, <1>3 DEF MemberFindAdded

LEMMA MemberFindTeamAgainSerial ==
    ASSUME Inv, SerialInv, NEW r \in Workload, MemberFindTeamAgain(r)
    PROVE  SerialInv'
<1> DEFINE old == teams[r.team].schedule
           l   == [local[r] EXCEPT !.schedule = old]
<1>1. /\ userSchedules' = userSchedules /\ teams' = teams
      /\ pc[r] \in InTeam /\ pc[r] \in WithAdded /\ Await(r, "teamFound", l)
  BY DEF MemberFindTeamAgain, At, InTeam, WithAdded
<1>2. l.schedule = old /\ l.members = local[r].members
  <2> HIDE DEF old
  <2> QED
    BY InvFacts, LocalWith
<1> HIDE DEF l
<1>3. pc'[r] = "teamFound" /\ local'[r] = l
  BY <1>1, Awaited
<1>4. FreshLocal(r)'
  BY <1>1, <1>2, <1>3, TeamStillRead DEF FreshLocal, Members, InTeam, WithAdded, InLoop
<1> QED
  BY <1>1, <1>4, TeamStillRead, AwaitKeepsSerial

LEMMA MemberLoopSerial ==
    ASSUME Inv, SerialInv, NEW r \in Workload, pc[r] \in InTeam, pc[r] \in WithAdded,
           NEW index \in Nat, NEW schedule \in Seq(TeamEntry(Days, Times)),
           LoopedTo(index + 1, schedule, teams[r.team].schedule, userSchedules[r.added]),
           MemberLoop(r, index, schedule), UNCHANGED store
    PROVE  SerialInv'
<1>1. userSchedules' = userSchedules /\ teams' = teams /\ gi' = index
  BY DEF store, MemberLoop
<1>2. /\ local[r].members = teams[r.team].members /\ teams[r.team].creator = r.user
      /\ Begun(r) /\ OnlyBusy(r) /\ Working(r) /\ r.added \notin Members(r.team)
  BY TeamStillRead
<1>3. ASSUME Await(r, "findAddedDay",
                   [local[r] EXCEPT !.schedule = schedule, !.at = index + 1, !.found = <<>>])
      PROVE  SerialInv'
  <2> DEFINE old   == local[r]
             next  == index + 1
             found == <<>>
             l     == Taken(old, schedule, next, found)
  <2>1. Await(r, "findAddedDay", l)
    BY <1>3 DEF Taken
  <2>2. /\ old \in Local /\ next \in Nat /\ found \in Seq(DayEntry(Days, Times))
    BY InvFacts
  <2> HIDE DEF old, next, found
  <2>3. l.schedule = schedule /\ l.at = next /\ l.members = old.members
    BY <2>2, NextEntry
  <2> HIDE DEF l
  <2>4. pc'[r] = "findAddedDay" /\ local'[r] = l
    BY <1>1, <2>1, Awaited
  <2>5. FreshLocal(r)'
    BY <1>1, <1>2, <2>3, <2>4 DEF FreshLocal, Members, InTeam, WithAdded, InLoop, old, next
  <2> QED
    BY <1>1, <1>2, <2>1, <2>5, AwaitKeepsSerial
<1>4. ASSUME Send(r, {[kind |-> "setTeamSchedule", team |-> r.team, schedule |-> schedule],
                      [kind |-> "setMembers", team |-> r.team,
                       members |-> Append(local[r].members, r.added)]})
      PROVE  SerialInv'
  <2> DEFINE toTeam    == [kind |-> "setTeamSchedule", team |-> r.team, schedule |-> schedule]
             toMembers == [kind |-> "setMembers", team |-> r.team,
                           members |-> Append(local[r].members, r.added)]
  <2>1. FreshWrite(r, toTeam) /\ FreshWrite(r, toMembers)
    BY <1>2 DEF FreshWrite
  <2>2. Apart(toTeam, toMembers) /\ Apart(toMembers, toTeam)
    BY DEF Apart
  <2>3. Send(r, {toTeam, toMembers})
    BY <1>4
  <2> HIDE DEF toTeam, toMembers
  <2> QED
    BY <1>1, <1>2, <2>1, <2>2, <2>3, SendKeepsSerial
<1> QED
  BY <1>3, <1>4 DEF MemberLoop

(***************************************************************************)
(* With i as the handler left it, each round of the loop does to its entry *)
(* what ScheduleWithMember says, and the loop never leaves the array.      *)
(***************************************************************************)
LEMMA LoopGoesOn ==
    ASSUME Inv, SerialInv, NEW r \in Workload, MemberStartLoop(r) \/ MemberUseAddedDay(r)
    PROVE  /\ pc[r] \in InTeam /\ pc[r] \in WithAdded /\ UNCHANGED store
           /\ \E index \in Nat, schedule \in Seq(TeamEntry(Days, Times)) :
                 /\ LoopedTo(index + 1, schedule, teams[r.team].schedule,
                             userSchedules[r.added])
                 /\ MemberLoop(r, index, schedule)
<1>1. /\ pc[r] \in {"teamFound", "addedDayFound"} /\ UNCHANGED store
      /\ pc[r] \in InTeam /\ pc[r] \in WithAdded
  BY DEF MemberStartLoop, MemberUseAddedDay, At, InTeam, WithAdded
<1> DEFINE l        == local[r]
           schedule == l.schedule
           old      == teams[r.team].schedule
           posted   == userSchedules[r.added]
<1>2. /\ l \in Local /\ schedule \in Seq(TeamEntry(Days, Times)) /\ gi \in Nat
      /\ old \in Seq(TeamEntry(Days, Times)) /\ posted \in Seq(DayEntry(Days, Times))
      /\ l.at \in Nat
      /\ pc[r] \in InLoop => l.at \in DOMAIN schedule
  BY <1>1, MemberFacts, InvFacts DEF Local, Team, GoodLocal
<1>3. CASE MemberStartLoop(r)
  <2>1. MemberLoop(r, 0, schedule) /\ schedule = old
    BY <1>3 DEF MemberStartLoop, At, SerialInv, FreshLocal
  <2>2. \A k \in DOMAIN old : ~(k < 1)
    BY <1>2, LenProperties
  <2>3. LoopedTo(0 + 1, schedule, old, posted)
    BY <2>1, <2>2, SMTT(30) DEF LoopedTo
  <2> QED
    BY <1>1, <1>2, <2>1, <2>3
<1>4. CASE MemberUseAddedDay(r)
  <2> DEFINE at    == l.at
             entry == schedule[at]
             day   == FindDay(posted, entry.day)
             new   == IF day # 0 THEN NarrowByMember(entry, entry, posted[day])
                      ELSE CloseWindow(entry)
             after == [schedule EXCEPT ![at] = new]
  <2>1. /\ gi + 1 = at /\ LoopedTo(at, schedule, old, posted)
        /\ l.found = Looked(entry, posted)
        /\ at \in DOMAIN schedule /\ at <= Len(schedule) /\ at \in Nat
        /\ DOMAIN schedule = 1 .. Len(schedule)
    <3>1. pc[r] = "addedDayFound" /\ pc[r] \in InLoop
      BY <1>4 DEF MemberUseAddedDay, At, InLoop
    <3> QED
      BY <1>2, <3>1, LenProperties DEF SerialInv, FreshLocal
  <2>2. entry = old[at] /\ at \in DOMAIN old
    BY <2>1 DEF LoopedTo
  <2>3. entry \in TeamEntry(Days, Times)
    BY <1>2, <2>1, ElementOfSeq
  <2>4. day # 0 => posted[day] \in DayEntry(Days, Times)
    BY <1>2, FindDayFinds, ElementOfSeq, LenProperties
  <2>5. new \in TeamEntry(Days, Times)
    BY <2>3, <2>4, NarrowByMemberSafe, CloseWindowSafe
  <2>6. /\ after \in Seq(TeamEntry(Days, Times))
        /\ DOMAIN after = DOMAIN schedule
        /\ \A k \in DOMAIN schedule : after[k] = IF k = at THEN new ELSE schedule[k]
    <3> HIDE DEF new, at
    <3> QED
      BY <1>2, <2>1, <2>5, ExceptSeq, LenProperties, SMTT(30)
  <2>7. ScheduleWithMember(old, posted)[at] = new
    BY <2>2 DEF ScheduleWithMember
  <2>8. LoopedTo(at + 1, after, old, posted)
    <3> HIDE DEF new, after, at
    <3>1. DOMAIN after = DOMAIN old
      BY <2>1, <2>6 DEF LoopedTo
    <3>2. ASSUME NEW k \in DOMAIN old
          PROVE  after[k] = IF k < at + 1 THEN ScheduleWithMember(old, posted)[k] ELSE old[k]
      <4>1. /\ k \in Nat /\ k \in DOMAIN schedule
            /\ schedule[k] = IF k < at THEN ScheduleWithMember(old, posted)[k] ELSE old[k]
        BY <1>2, <2>1, LenProperties DEF LoopedTo
      <4> QED
        BY <2>1, <2>6, <2>7, <4>1
    <3> QED
      BY <3>1, <3>2 DEF LoopedTo
  <2>9. MemberLoop(r, at, after)
    <3>1. CASE day = 0
      <4>1. l.found = <<>> /\ new = CloseWindow(entry)
        BY <2>1, <3>1 DEF Looked
      <4>2. MemberLoop(r, gi + 1, [schedule EXCEPT ![gi + 1] = CloseWindow(@)])
        BY <1>4, <2>1, <4>1 DEF MemberUseAddedDay
      <4> QED
        BY <2>1, <4>1, <4>2
    <3>2. CASE day # 0
      <4>1. /\ l.found # <<>> /\ l.found[1] = posted[day]
            /\ new = NarrowByMember(entry, entry, posted[day])
        BY <2>1, <3>2, SMTT(30) DEF Looked
      <4>2. CASE MemberNarrows(entry, posted[day])
        <5>1. MemberLoop(r, gi + 1, [schedule EXCEPT ![gi + 1] =
                                        NarrowByMember(@, entry, posted[day])])
          <6>1. ~(gi + 1 > Len(schedule)) /\ gi + 1 <= Len(schedule)
            BY <1>2, <2>1, LenProperties
          <6>2. l.found # <<>> /\ MemberNarrows(entry, l.found[1])
            <7> HIDE DEF l, entry, posted, day
            <7> QED
              BY <4>1, <4>2, Zenon
          <6>3. MemberLoop(r, gi + 1, [schedule EXCEPT ![gi + 1] =
                                          NarrowByMember(@, entry, l.found[1])])
            BY <1>4, <6>1, <6>2 DEF MemberUseAddedDay
          <6> QED
            BY <4>1, <6>3, Zenon
        <5> QED
          BY <2>1, <4>1, <5>1, ZenonT(40)
      <4>3. CASE ~MemberNarrows(entry, posted[day])
        <5>1. MemberLoop(r, gi + 1, schedule)
          BY <1>4, <2>1, <4>1, <4>3, SMTT(30) DEF MemberUseAddedDay
        <5>2. new = entry
          BY <4>1, <4>3 DEF NarrowByMember, MemberNarrows
        <5>3. after = schedule
          <6> HIDE DEF new, after, at
          <6> QED
            BY <1>2, <2>6, <5>2, LenProperties DEF at
        <5> QED
          BY <2>1, <5>1, <5>3, SMTT(30)
      <4> QED
        BY <4>2, <4>3
    <3> QED
      BY <3>1, <3>2
  <2> QED
    BY <1>1, <2>1, <2>6, <2>8, <2>9, Zenon
<1> QED
  BY <1>3, <1>4

LEMMA MemberRoundSerial ==
    ASSUME Inv, SerialInv, NEW r \in Workload, MemberStartLoop(r) \/ MemberUseAddedDay(r)
    PROVE  SerialInv'
BY LoopGoesOn, MemberLoopSerial

LEMMA MemberFindAddedDaySerial ==
    ASSUME Inv, SerialInv, NEW r \in Workload, MemberFindAddedDay(r)
    PROVE  SerialInv'
<1> DEFINE found == Looked(local[r].schedule[local[r].at], userSchedules[r.added])
           l     == [local[r] EXCEPT !.found = found]
<1>1. /\ userSchedules' = userSchedules /\ teams' = teams /\ gi' = gi
      /\ pc[r] \in InTeam /\ pc[r] \in WithAdded /\ pc[r] \in InLoop
      /\ Await(r, "addedDayFound", l)
  BY DEF MemberFindAddedDay, At, InTeam, WithAdded, InLoop, Looked
<1>2. /\ l.found = found /\ l.members = local[r].members
      /\ l.schedule = local[r].schedule /\ l.at = local[r].at
  <2> HIDE DEF found
  <2> QED
    BY InvFacts, LocalWith
<1> HIDE DEF l
<1>3. pc'[r] = "addedDayFound" /\ local'[r] = l
  BY <1>1, Awaited
<1>4. /\ gi + 1 = local[r].at
      /\ LoopedTo(local[r].at, local[r].schedule, teams[r.team].schedule,
                  userSchedules[r.added])
  BY <1>1 DEF SerialInv, FreshLocal
<1>5. FreshLocal(r)'
  BY <1>1, <1>2, <1>3, <1>4, TeamStillRead DEF FreshLocal, Members, InTeam, WithAdded, InLoop
<1> QED
  BY <1>1, <1>5, TeamStillRead, AwaitKeepsSerial

-----------------------------------------------------------------------------
(***************************************************************************)
(* The steps of updates in flight.                                         *)
(***************************************************************************)
LEMMA WritesOf ==
    ASSUME Inv, SerialInv, NEW r \in Workload, writes[r] # {}
    PROVE  /\ OnlyBusy(r)
           /\ pc[r] \in {"handled", "dead"}
           /\ \A q \in Workload : pc[q] \in {"waiting", "handled", "dead"}
           /\ \A q \in Workload \ {r} : writes[q] = {}
           /\ FreshWrites(r)
<1>1. OnlyBusy(r)
  BY DEF SerialInv, OneBusy, OnlyBusy, Busy
<1>2. pc[r] \in {"handled", "dead"}
  BY DEF SerialInv, NothingSentYet, Begun
<1>3. \A q \in Workload \ {r} : pc[q] \in {"waiting", "handled", "dead"} /\ writes[q] = {}
  BY <1>1 DEF OnlyBusy, Busy
<1> QED
  BY <1>1, <1>2, <1>3 DEF SerialInv

LEMMA CallbackEffect ==
    ASSUME Inv, SerialInv, NEW r \in Workload, writes[r] # {}, NEW status,
           Callback(r, status)
    PROVE  /\ \A q \in Workload : /\ pc'[q] \in {"waiting", "handled", "dead"}
                                  /\ pc'[q] = "waiting" => pc[q] = "waiting"
           /\ \A q \in Workload \ {r} : answer'[q] = answer[q]
           /\ answer'[r] = answer[r] \/ (answer[r] = 0 /\ answer'[r] = status)
           /\ status = 0 => answer' = answer /\ pc' = pc /\ up' = up
           /\ pc[r] = "handled" /\ answer[r] = 0 => pc' = pc /\ up' = up
<1>1. CASE (pc[r] = "dead" \/ status = 0) /\ UNCHANGED handlers
  BY <1>1, WritesOf DEF handlers
<1>2. CASE /\ status # 0 /\ answer[r] = 0
           /\ answer' = [answer EXCEPT ![r] = status]
           /\ UNCHANGED <<pc, local, gi, up>>
  BY <1>2, WritesOf, InvFacts
<1>3. CASE /\ pc[r] # "dead" /\ status # 0 /\ answer[r] # 0
           /\ Die /\ UNCHANGED answer
  BY <1>3 DEF Die
<1> QED
  BY <1>1, <1>2, <1>3 DEF Callback

\* The frame of the steps that take an update out of those in flight.
LEMMA WritesFrame ==
    ASSUME Inv, SerialInv, NEW r \in Workload, writes[r] # {},
           \A q \in Workload : writes'[q] \subseteq writes[q],
           \A q \in Workload : /\ pc'[q] \in {"waiting", "handled", "dead"}
                               /\ pc'[q] = "waiting" => pc[q] = "waiting",
           \A q \in Workload \ {r} : answer'[q] = answer[q],
           FreshWrites(r)', AckedDayKept', AckedMemberIn'
    PROVE  SerialInv'
<1>1. \A q \in Workload \ {r} : writes'[q] = {}
  BY WritesOf
<1>2. pc'[r] # "waiting"
  BY WritesOf
<1>3. OneBusy'
  BY <1>1 DEF OneBusy, Busy
<1>4. NothingSentYet'
  BY <1>1, <1>2 DEF SerialInv, NothingSentYet, Begun
<1>5. ASSUME NEW q \in Workload
      PROVE  FreshLocal(q)' /\ FreshWrites(q)'
  <2>1. FreshLocal(q)'
    BY NothingRead
  <2>2. q # r => FreshWrites(q)'
    BY <1>1 DEF FreshWrites, UndisturbedWrites
  <2> QED
    BY <2>1, <2>2
<1> QED
  BY <1>3, <1>4, <1>5 DEF SerialInv

LEMMA WriteLostSerial ==
    ASSUME Inv, SerialInv, NEW r \in Workload, WriteLost(r)
    PROVE  SerialInv'
<1>1. PICK w \in writes[r] :
         /\ writes' = [writes EXCEPT ![r] = @ \ {w}]
         /\ UNCHANGED <<userSchedules, teams, pc, local, gi, answer, up, faults>>
  BY DEF WriteLost
<1>2. \A q \in Workload : writes'[q] \subseteq writes[q]
  BY <1>1, InvFacts
<1>3. FreshWrites(r)'
  BY <1>1, <1>2, WritesOf
     DEF FreshWrites, UndisturbedWrites, FreshWrite, Exists, Members
<1>4. AckedDayKept' /\ AckedMemberIn'
  BY <1>1 DEF SerialInv, AckedDayKept, AckedMemberIn, Members
<1> QED
  BY <1>1, <1>2, <1>3, <1>4, WritesOf, WritesFrame

(***************************************************************************)
(* What the execution of an update does to the collections.                *)
(***************************************************************************)
LEMMA FreshEffect ==
    ASSUME Inv, NEW r \in Workload, NEW w \in writes[r], FreshWrite(r, w), Execute(w)
    PROVE  /\ ~Duplicate(w)
           /\ \A u \in Users : ToSet(userSchedules[u]) \subseteq ToSet(userSchedules'[u])
           /\ \A n \in TeamNames : ToSet(teams[n].members) \subseteq ToSet(teams'[n].members)
           /\ w.kind \in {"insertUser", "setUserSchedule"} =>
                 r.window \in ToSet(userSchedules'[r.user])
           /\ w.kind = "setMembers" => r.added \in ToSet(teams'[r.team].members)
           /\ w.kind = "setTeamSchedule" =>
                 /\ userSchedules' = userSchedules
                 /\ \A n \in TeamNames : teams'[n].members = teams[n].members
<1>1. /\ w \in Write /\ GoodWrite(r, w, userSchedules, teams)
      /\ userSchedules \in [Users -> Seq(DayEntry(Days, Times))]
      /\ teams \in [TeamNames -> Team]
  BY InvFacts
<1>2. ~Duplicate(w)
  BY DEF Duplicate, FreshWrite
<1>3. CASE w.kind \in {"insertUser", "setUserSchedule"}
  <2>1. /\ r.type = "schedule" /\ w.user = r.user /\ r.user \in Users
        /\ r.window \in DayEntry(Days, Times)
        /\ userSchedules[r.user] \in Seq(DayEntry(Days, Times))
    BY <1>1, <1>3, RequestFields DEF GoodWrite, FreshWrite
  <2>2. w.schedule = Append(userSchedules[r.user], r.window)
    <3>1. Append(<<>>, r.window) = <<r.window>>
      OBVIOUS
    <3> QED
      BY <1>3, <3>1 DEF FreshWrite
  <2>3. ToSet(w.schedule) = ToSet(userSchedules[r.user]) \cup {r.window}
    BY <2>1, <2>2, AppendedMembers
  <2>4. /\ userSchedules' = [userSchedules EXCEPT ![r.user] = w.schedule]
        /\ teams' = teams
    BY <1>2, <1>3, <2>1 DEF Execute
  <2>5. \A u \in Users : userSchedules'[u] = IF u = r.user THEN w.schedule ELSE userSchedules[u]
    BY <1>1, <2>4
  <2> QED
    BY <1>2, <1>3, <2>1, <2>3, <2>4, <2>5
<1>4. CASE w.kind = "insertTeam"
  <2>1. w.team \in TeamNames /\ teams[w.team] = NoTeam /\ ToSet(NoTeam.members) = {}
    BY <1>1, <1>4 DEF Write, FreshWrite, Exists, NoTeam, ToSet
  <2>2. /\ userSchedules' = userSchedules
        /\ \A n \in TeamNames \ {w.team} : teams'[n] = teams[n]
    BY <1>1, <1>2, <1>4, <2>1 DEF Execute
  <2> QED
    BY <1>2, <1>4, <2>1, <2>2
<1>5. CASE w.kind = "setMembers"
  <2>1. /\ r.type = "member" /\ w.team = r.team /\ r.team \in TeamNames /\ r.added \in Users
        /\ teams[r.team].members \in Seq(Users)
        /\ w.members = Append(teams[r.team].members, r.added)
    BY <1>1, <1>5, RequestFields DEF Write, GoodWrite, FreshWrite, Team
  <2>2. ToSet(w.members) = ToSet(teams[r.team].members) \cup {r.added}
    BY <2>1, AppendedMembers
  <2>3. /\ userSchedules' = userSchedules
        /\ \A n \in TeamNames \ {r.team} : teams'[n] = teams[n]
        /\ teams'[r.team].members = w.members
    BY <1>1, <1>5, <2>1 DEF Execute, Team
  <2> QED
    BY <1>2, <1>5, <2>1, <2>2, <2>3
<1>6. CASE w.kind = "setTeamSchedule"
  <2>1. /\ userSchedules' = userSchedules
        /\ \A n \in TeamNames : teams'[n].members = teams[n].members
    BY <1>1, <1>6 DEF Execute, Team
  <2> QED
    BY <1>2, <1>6, <2>1
<1> QED
  BY <1>1, <1>3, <1>4, <1>5, <1>6 DEF Write

(***************************************************************************)
(* The updates that stay in flight when w is executed are as good as they  *)
(* were: no two updates of a request touch the same field.                 *)
(***************************************************************************)
LEMMA OthersStayFresh ==
    ASSUME Inv, NEW r \in Workload, FreshWrites(r), NEW w \in writes[r], Execute(w),
           writes'[r] = writes[r] \ {w}, NEW v \in writes'[r]
    PROVE  FreshWrite(r, v)'
<1>1. /\ v \in writes[r] /\ v # w /\ FreshWrite(r, v) /\ v \in Write
      /\ FreshWrite(r, w)
  BY InvFacts DEF FreshWrites
<1>2. Apart(v, w)
  BY <1>1 DEF FreshWrites
<1>3. CASE v.kind = "setTeamSchedule"
  BY <1>3 DEF FreshWrite
<1>4. CASE w.kind = "setTeamSchedule" /\ v.kind # "setTeamSchedule"
  <2>1. /\ userSchedules' = userSchedules
        /\ \A n \in TeamNames : teams'[n].members = teams[n].members
    BY <1>1, <1>4, FreshEffect
  <2>2. v.kind = "setMembers" => r.team \in TeamNames
    BY <1>1 DEF FreshWrite, Write
  <2>3. v.kind # "insertTeam"
    BY <1>2, <1>4 DEF Apart
  <2> QED
    BY <1>1, <2>1, <2>2, <2>3 DEF FreshWrite, Members
<1> QED
  BY <1>2, <1>3, <1>4 DEF Apart

LEMMA WriteFailsSerial ==
    ASSUME Inv, SerialInv, NEW r \in Workload, WriteFails(r)
    PROVE  SerialInv'
<1>1. PICK w \in writes[r] :
         /\ faults' = faults + 1
         /\ writes' = [writes EXCEPT ![r] = @ \ {w}]
         /\ Callback(r, FailureStatus(w))
         /\ Execute(w) \/ UNCHANGED store
  BY DEF WriteFails
<1>2. /\ \A q \in Workload : writes'[q] \subseteq writes[q]
      /\ writes'[r] = writes[r] \ {w}
  BY <1>1, InvFacts
<1>3. FailureStatus(w) # 201
  BY DEF FailureStatus
<1>4. \A q \in Workload : answer'[q] = 201 => answer[q] = 201
  BY <1>1, <1>3, CallbackEffect
<1>5. faults' # 0
  BY <1>1, InvFacts
<1>6. FreshWrites(r) /\ FreshWrite(r, w)
  BY WritesOf DEF FreshWrites
<1>7. /\ \A q \in Workload : /\ pc'[q] \in {"waiting", "handled", "dead"}
                             /\ pc'[q] = "waiting" => pc[q] = "waiting"
      /\ \A q \in Workload \ {r} : answer'[q] = answer[q]
  <2> DEFINE status == FailureStatus(w)
  <2> HIDE DEF status
  <2>1. Callback(r, status)
    BY <1>1 DEF status
  <2> QED
    BY <2>1, CallbackEffect
<1>8. CASE Execute(w)
  <2>1. /\ \A u \in Users : ToSet(userSchedules[u]) \subseteq ToSet(userSchedules'[u])
        /\ \A n \in TeamNames : ToSet(teams[n].members) \subseteq ToSet(teams'[n].members)
    BY <1>6, <1>8, FreshEffect
  <2>2. FreshWrites(r)'
    <3>1. \A v \in writes'[r] : FreshWrite(r, v)'
      BY <1>2, <1>6, <1>8, OthersStayFresh
    <3>2. \A v, x \in writes'[r] : v # x => Apart(v, x)
      BY <1>2, <1>6 DEF FreshWrites
    <3> QED
      BY <1>5, <3>1, <3>2 DEF FreshWrites, UndisturbedWrites
  <2>3. AckedDayKept'
    BY <1>4, <2>1, RequestFields DEF SerialInv, AckedDayKept
  <2>4. AckedMemberIn'
    BY <1>4, <2>1 DEF SerialInv, AckedMemberIn, Members
  <2> QED
    BY <1>2, <1>7, <2>2, <2>3, <2>4, WritesFrame
<1>9. CASE UNCHANGED store
  <2>1. userSchedules' = userSchedules /\ teams' = teams
    BY <1>9 DEF store
  <2>2. FreshWrites(r)'
    BY <1>2, <1>5, <1>6, <2>1
       DEF FreshWrites, UndisturbedWrites, FreshWrite, Exists, Members
  <2>3. AckedDayKept' /\ AckedMemberIn'
    BY <1>4, <2>1 DEF SerialInv, AckedDayKept, AckedMemberIn, Members
  <2> QED
    BY <1>2, <1>7, <2>2, <2>3, WritesFrame
<1> QED
  BY <1>1, <1>8, <1>9

LEMMA WriteLandsSerial ==
    ASSUME Inv, SerialInv, NEW r \in Workload, WriteLands(r)
    PROVE  SerialInv'
<1>1. PICK w \in writes[r] :
         /\ Execute(w)
         /\ writes' = [writes EXCEPT ![r] = @ \ {w}]
         /\ Callback(r, SuccessStatus(w))
         /\ UNCHANGED faults
  BY DEF WriteLands
<1>2. /\ FreshWrite(r, w) /\ FreshWrites(r) /\ w \in Write
      /\ GoodWrite(r, w, userSchedules, teams)
      /\ \A v \in writes[r] : v \in Write
  BY WritesOf, InvFacts DEF FreshWrites
<1>3. /\ \A q \in Workload : writes'[q] \subseteq writes[q]
      /\ writes'[r] = writes[r] \ {w}
  BY <1>1, InvFacts
<1> DEFINE status == SuccessStatus(w)
<1>4. /\ status \in {0, 201}
      /\ status = 0 <=> Silent(w)
  BY <1>1, <1>2, FreshEffect DEF SuccessStatus, Silent
<1>5. Callback(r, status)
  BY <1>1
<1> HIDE DEF status
<1>6. /\ \A q \in Workload : /\ pc'[q] \in {"waiting", "handled", "dead"}
                             /\ pc'[q] = "waiting" => pc[q] = "waiting"
      /\ \A q \in Workload \ {r} : answer'[q] = answer[q]
      /\ answer'[r] = answer[r] \/ (answer[r] = 0 /\ answer'[r] = status)
      /\ status = 0 => answer' = answer /\ pc' = pc
      /\ pc[r] = "handled" /\ answer[r] = 0 => pc' = pc
  BY <1>5, CallbackEffect
<1>7. /\ \A u \in Users : ToSet(userSchedules[u]) \subseteq ToSet(userSchedules'[u])
      /\ \A n \in TeamNames : ToSet(teams[n].members) \subseteq ToSet(teams'[n].members)
      /\ w.kind \in {"insertUser", "setUserSchedule"} =>
            r.window \in ToSet(userSchedules'[r.user])
      /\ w.kind = "setMembers" => r.added \in ToSet(teams'[r.team].members)
      /\ w.kind = "setTeamSchedule" =>
            /\ userSchedules' = userSchedules
            /\ \A n \in TeamNames : teams'[n].members = teams[n].members
  BY <1>1, <1>2, FreshEffect
<1>8. FreshWrites(r)'
  <2>1. \A v \in writes'[r] : FreshWrite(r, v)'
    BY <1>1, <1>2, <1>3, OthersStayFresh
  <2>2. \A v, x \in writes'[r] : v # x => Apart(v, x)
    BY <1>2, <1>3 DEF FreshWrites
  <2>3. UndisturbedWrites(r)'
    <3> SUFFICES ASSUME faults' = 0, writes'[r] # {}
                 PROVE  /\ pc'[r] = "handled"
                        /\ (\E v \in writes'[r] : ~Silent(v)) => answer'[r] = 0
      BY DEF UndisturbedWrites, Silent
    <3>1. /\ pc[r] = "handled"
          /\ (\E v \in writes[r] : ~Silent(v)) => answer[r] = 0
      BY <1>1, <1>2 DEF FreshWrites, UndisturbedWrites
    <3>2. CASE Silent(w)
      BY <1>3, <1>4, <1>6, <3>1, <3>2 DEF Silent
    <3>3. CASE ~Silent(w)
      <4>1. \A v \in writes'[r] : Silent(v)
        BY <1>2, <1>3, <3>3 DEF FreshWrites, Apart, Silent
      <4> QED
        BY <1>6, <3>1, <3>3, <4>1 DEF Silent
    <3> QED
      BY <3>2, <3>3
  <2> QED
    BY <2>1, <2>2, <2>3 DEF FreshWrites
<1>9. AckedDayKept'
  <2> SUFFICES ASSUME NEW q \in Workload, q.type = "schedule", answer'[q] = 201
               PROVE  q.window \in ToSet(userSchedules'[q.user])
    BY DEF AckedDayKept
  <2>1. CASE answer[q] = 201
    BY <1>7, <2>1, RequestFields DEF SerialInv, AckedDayKept
  <2>2. CASE answer[q] # 201
    <3>1. q = r /\ status = 201
      BY <1>6, <2>2
    <3>2. w.kind \in {"insertUser", "setUserSchedule"}
      BY <1>2, <1>4, <3>1 DEF GoodWrite, Write, Silent
    <3> QED
      BY <1>7, <3>1, <3>2
  <2> QED
    BY <2>1, <2>2
<1>10. AckedMemberIn'
  <2> SUFFICES ASSUME NEW q \in Workload, q.type = "member", answer'[q] = 201
               PROVE  q.team \in TeamNames /\ q.added \in ToSet(teams'[q.team].members)
    BY DEF AckedMemberIn, Members
  <2>1. CASE answer[q] = 201
    <3>1. q.team \in TeamNames /\ q.added \in ToSet(teams[q.team].members)
      BY <2>1 DEF SerialInv, AckedMemberIn, Members
    <3> QED
      BY <1>7, <3>1
  <2>2. CASE answer[q] # 201
    <3>1. q = r /\ status = 201
      BY <1>6, <2>2
    <3>2. w.kind = "setMembers" /\ r.team \in TeamNames
      BY <1>2, <1>4, <3>1 DEF GoodWrite, FreshWrite, Write, Silent
    <3> QED
      BY <1>7, <3>1, <3>2
  <2> QED
    BY <2>1, <2>2
<1> QED
  BY <1>3, <1>6, <1>8, <1>9, <1>10, WritesFrame

-----------------------------------------------------------------------------
LEMMA InitSerial ==
    ASSUME Init
    PROVE  SerialInv
<1>1. \A r \in Workload : pc[r] = "waiting" /\ writes[r] = {} /\ answer[r] = 0
  BY DEF Init
<1> QED
  BY <1>1 DEF SerialInv, OneBusy, Busy, NothingSentYet, FreshLocal, FreshWrites,
     UndisturbedWrites, AckedDayKept, AckedMemberIn, InTeam, WithAdded, InLoop

\* A step that changes nothing but whether the process runs.
LEMMA RestartSerial ==
    ASSUME SerialInv,
           UNCHANGED <<userSchedules, teams, pc, local, gi, writes, answer, faults>>
    PROVE  SerialInv'
<1>1. /\ userSchedules' = userSchedules /\ teams' = teams /\ pc' = pc /\ local' = local
      /\ gi' = gi /\ writes' = writes /\ answer' = answer /\ faults' = faults
  OBVIOUS
<1>2. OneBusy' /\ NothingSentYet' /\ AckedDayKept' /\ AckedMemberIn'
  BY <1>1 DEF SerialInv, OneBusy, Busy, NothingSentYet, Begun, AckedDayKept, AckedMemberIn,
              Members
<1>3. ASSUME NEW r \in Workload
      PROVE  FreshLocal(r)' /\ FreshWrites(r)'
  <2>1. FreshLocal(r) /\ FreshWrites(r)
    BY DEF SerialInv
  <2>2. FreshLocal(r)'
    BY <1>1, <2>1 DEF FreshLocal, TeamsOf, Members, Exists
  <2>3. FreshWrites(r)'
    BY <1>1, <2>1 DEF FreshWrites, FreshWrite, UndisturbedWrites, Members, Exists
  <2> QED
    BY <2>2, <2>3
<1> QED
  BY <1>2, <1>3 DEF SerialInv

LEMMA CrashSerial ==
    ASSUME Inv, SerialInv, Crash
    PROVE  SerialInv'
<1>1. Die /\ faults' = faults + 1 /\ UNCHANGED <<userSchedules, teams, writes, answer>>
  BY DEF Crash
<1>2. faults' # 0
  BY <1>1, InvFacts
<1> QED
  BY <1>1, <1>2, DeathKeepsSerial

LEMMA HandlerStepSerial ==
    ASSUME Inv, SerialInv, NEW r \in Workload, HandlerStep(r)
    PROVE  SerialInv'
<1>1. CASE ScheduleStep(r)
  BY <1>1, ScheduleFindDaySerial, ScheduleFindScheduleSerial, ScheduleFindTeamsSerial,
     ScheduleUpdateTeamsSerial DEF ScheduleStep
<1>2. CASE TeamStep(r)
  BY <1>2, TeamFindNameSerial, TeamFindCreatorSerial, TeamSaveSerial DEF TeamStep
<1>3. CASE MemberStep(r)
  BY <1>3, MemberFindTeamSerial, MemberFindMemberSerial, MemberFindAddedSerial,
     MemberFindTeamAgainSerial, MemberRoundSerial, MemberFindAddedDaySerial
     DEF MemberStep
<1> QED
  BY <1>1, <1>2, <1>3 DEF HandlerStep

LEMMA NextSerial ==
    ASSUME MaxInFlight = 1, Inv, SerialInv, [Next]_vars
    PROVE  SerialInv'
<1>1. ASSUME NEW r \in Workload, Receive(r) \/ HandlerStep(r)
      PROVE  SerialInv'
  BY <1>1, ReceiveSerial, HandlerStepSerial
<1>2. ASSUME NEW r \in Workload, WriteLands(r) \/ WriteFails(r) \/ WriteLost(r)
      PROVE  SerialInv'
  BY <1>2, WriteLandsSerial, WriteFailsSerial, WriteLostSerial
<1>3. CASE Crash
  BY <1>3, CrashSerial
<1>4. CASE Restart \/ UNCHANGED vars
  BY <1>4, RestartSerial DEF Restart, vars
<1> QED
  BY <1>1, <1>2, <1>3, <1>4 DEF Next

\* The invariant of a service that is given one request at a time.
THEOREM SerialInvariant == MaxInFlight = 1 => (Spec => [](Inv /\ SerialInv))
<1> SUFFICES ASSUME MaxInFlight = 1
             PROVE  Spec => [](Inv /\ SerialInv)
  OBVIOUS
<1>1. Init => Inv /\ SerialInv
  BY InitInv, InitSerial
<1>2. Inv /\ SerialInv /\ [Next]_vars => Inv' /\ SerialInv'
  BY NextInv, NextSerial
<1> QED
  BY <1>1, <1>2, PTL DEF Spec

(***************************************************************************)
(* A day whose posting was answered with 201 is in the user's document,    *)
(* whatever fails: only the handler of another request could replace the   *)
(* array it was pushed to.                                                 *)
(***************************************************************************)
THEOREM SerialAckedDayKept == MaxInFlight = 1 => (Spec => []AckedDayKept)
<1>1. Inv /\ SerialInv => AckedDayKept
  BY DEF SerialInv
<1> QED
  BY <1>1, SerialInvariant, PTL

\* A member whose addition was answered with 201 stays in the team.
THEOREM SerialAckedMemberKept == MaxInFlight = 1 => (Spec => []AckedMemberKept)
<1>1. Inv /\ SerialInv => AckedMemberKept
  BY DEF SerialInv, AckedMemberIn, AckedMemberKept
<1> QED
  BY <1>1, SerialInvariant, PTL

-----------------------------------------------------------------------------
(***************************************************************************)
(* No day is posted twice.                                                 *)
(***************************************************************************)
LEMMA OneWindowStep ==
    ASSUME Inv, SerialInv, OneWindowPerDay, [Next]_vars
    PROVE  OneWindowPerDay'
<1>1. CASE userSchedules' = userSchedules
  BY <1>1 DEF OneWindowPerDay
<1>2. ASSUME NEW r \in Workload, WriteLands(r) \/ WriteFails(r),
             userSchedules' # userSchedules
      PROVE  OneWindowPerDay'
  <2>1. PICK w \in writes[r] : Execute(w)
    BY <1>2 DEF WriteLands, WriteFails, store
  <2>2. /\ FreshWrite(r, w) /\ GoodWrite(r, w, userSchedules, teams)
        /\ userSchedules \in [Users -> Seq(DayEntry(Days, Times))]
        /\ w.kind \in {"insertUser", "setUserSchedule"}
    BY <1>2, <2>1, WritesOf, InvFacts DEF FreshWrites, Execute
  <2>3. /\ w.user = r.user /\ r.user \in Users /\ r.window \in DayEntry(Days, Times)
        /\ userSchedules[r.user] \in Seq(DayEntry(Days, Times))
        /\ ~HasDay(userSchedules[r.user], r.window.day)
        /\ userSchedules' = [userSchedules EXCEPT ![r.user] = w.schedule]
    BY <1>2, <2>1, <2>2, RequestFields DEF GoodWrite, FreshWrite, Execute
  <2>4. w.schedule = Append(userSchedules[r.user], r.window)
    <3>1. Append(<<>>, r.window) = <<r.window>>
      OBVIOUS
    <3> QED
      BY <2>2, <3>1 DEF FreshWrite
  <2>5. DistinctDays(userSchedules[r.user])
    BY <2>3 DEF OneWindowPerDay, DistinctDays
  <2>6. DistinctDays(w.schedule)
    BY <2>3, <2>4, <2>5, DistinctAppended
  <2> QED
    BY <2>2, <2>3, <2>6 DEF OneWindowPerDay, DistinctDays
<1>3. ASSUME NEW r \in Workload,
             Receive(r) \/ HandlerStep(r) \/ WriteLost(r)
      PROVE  userSchedules' = userSchedules
  BY <1>3 DEF Receive, WriteLost, HandlerStep, ScheduleStep, TeamStep,
     MemberStep, ScheduleFindDay, ScheduleFindSchedule, ScheduleFindTeams,
     ScheduleUpdateTeams, TeamFindName, TeamFindCreator, TeamSave, MemberFindTeam,
     MemberFindMember, MemberFindAdded, MemberFindTeamAgain, MemberStartLoop,
     MemberFindAddedDay, MemberUseAddedDay, store
<1>4. CASE Crash \/ Restart \/ UNCHANGED vars
  BY <1>1, <1>4 DEF Crash, Restart, vars
<1> QED
  BY <1>1, <1>2, <1>3, <1>4 DEF Next

\* A user has one window for a day, if every user had at first.
THEOREM SerialOneWindowPerDay ==
    ASSUME MaxInFlight = 1,
           \A db \in InitialDBs : \A u \in Users : DistinctDays(db.userSchedules[u])
    PROVE  Spec => []OneWindowPerDay
<1>1. Init => OneWindowPerDay
  BY DEF Init, OneWindowPerDay, DistinctDays
<1>2. Inv /\ SerialInv /\ OneWindowPerDay /\ [Next]_vars => OneWindowPerDay'
  BY OneWindowStep
<1>3. Spec => [](Inv /\ SerialInv)
  BY SerialInvariant
<1> QED
  BY <1>1, <1>2, <1>3, PTL DEF Spec

-----------------------------------------------------------------------------
(***************************************************************************)
(* Without faults the process dies of one thing only: a member posted to a *)
(* team that does not exist.                                               *)
(***************************************************************************)
LEMMA DiesStep ==
    ASSUME \A r \in Workload : r.type = "member" => r.team # NoSuchTeam,
           Inv, SerialInv, DiesOfFaultsOnly, [Next]_vars
    PROVE  DiesOfFaultsOnly'
<1>1. CASE up' = up /\ faults' = faults
  BY <1>1 DEF DiesOfFaultsOnly
<1>2. ASSUME NEW r \in Workload, Receive(r)
      PROVE  up' = up /\ faults' = faults
  BY <1>2 DEF Receive, Return, Await
<1>3. ASSUME NEW r \in Workload, ScheduleStep(r) \/ TeamStep(r)
      PROVE  up' = up /\ faults' = faults
  BY <1>3 DEF ScheduleStep, TeamStep, ScheduleFindDay, ScheduleFindSchedule,
     ScheduleFindTeams, ScheduleUpdateTeams, TeamFindName, TeamFindCreator, TeamSave,
     Return, Await, Send
<1>4. ASSUME NEW r \in Workload, MemberStep(r)
      PROVE  up' = up /\ faults' = faults
  <2>1. CASE MemberFindTeam(r)
    <3>1. r.type = "member"
      BY <2>1, InvFacts DEF MemberFindTeam, At, GoodLocal, StageFits
    <3> QED
      BY <2>1, <3>1 DEF MemberFindTeam, Return, Await
  <2>2. CASE \/ MemberFindMember(r) \/ MemberFindAdded(r)
             \/ MemberFindTeamAgain(r) \/ MemberFindAddedDay(r)
    BY <2>2 DEF MemberFindMember, MemberFindAdded, MemberFindTeamAgain, MemberFindAddedDay,
                Return, Await
  <2>3. CASE MemberStartLoop(r) \/ MemberUseAddedDay(r)
    <3>1. PICK index, schedule : MemberLoop(r, index, schedule)
      BY <2>3, LoopGoesOn
    <3> QED
      BY <3>1 DEF MemberLoop, Await, Send
  <2> QED
    BY <1>4, <2>1, <2>2, <2>3 DEF MemberStep
<1>5. ASSUME NEW r \in Workload, WriteLands(r)
      PROVE  DiesOfFaultsOnly'
  <2>1. PICK w \in writes[r] : Callback(r, SuccessStatus(w)) /\ faults' = faults
    BY <1>5 DEF WriteLands
  <2> SUFFICES ASSUME faults = 0
               PROVE  up' = up
    BY <2>1 DEF DiesOfFaultsOnly
  <2> DEFINE status == SuccessStatus(w)
  <2>2. FreshWrite(r, w) /\ pc[r] = "handled" /\ (~Silent(w) => answer[r] = 0)
    BY WritesOf DEF FreshWrites, UndisturbedWrites
  <2>3. Silent(w) => status = 0
    BY DEF Silent, SuccessStatus, Duplicate
  <2>4. Callback(r, status)
    BY <2>1
  <2> HIDE DEF status
  <2>5. /\ status = 0 => up' = up
        /\ pc[r] = "handled" /\ answer[r] = 0 => up' = up
    BY <2>4, CallbackEffect
  <2> QED
    BY <2>2, <2>3, <2>5
<1>6. ASSUME NEW r \in Workload, WriteFails(r)
      PROVE  DiesOfFaultsOnly'
  <2>1. faults' = faults + 1
    BY <1>6 DEF WriteFails
  <2> QED
    BY <2>1, InvFacts DEF DiesOfFaultsOnly
<1>7. CASE Crash
  <2>1. faults' = faults + 1
    BY <1>7 DEF Crash
  <2> QED
    BY <2>1, InvFacts DEF DiesOfFaultsOnly
<1>8. CASE Restart
  BY <1>8 DEF Restart, DiesOfFaultsOnly
<1>9. ASSUME NEW r \in Workload, WriteLost(r)
      PROVE  up' = up /\ faults' = faults
  BY <1>9 DEF WriteLost
<1>10. UNCHANGED vars => up' = up /\ faults' = faults
  BY DEF vars
<1> QED
  BY <1>1, <1>2, <1>3, <1>4, <1>5, <1>6, <1>7, <1>8, <1>9, <1>10 DEF Next, HandlerStep

\* The process dies of faults only, if nobody names a team that is not there.
THEOREM SerialDiesOfFaultsOnly ==
    ASSUME MaxInFlight = 1,
           \A r \in Workload : r.type = "member" => r.team # NoSuchTeam
    PROVE  Spec => []DiesOfFaultsOnly
<1>1. Init => DiesOfFaultsOnly
  BY DEF Init, DiesOfFaultsOnly
<1>2. Inv /\ SerialInv /\ DiesOfFaultsOnly /\ [Next]_vars => DiesOfFaultsOnly'
  BY DiesStep
<1>3. Spec => [](Inv /\ SerialInv)
  BY SerialInvariant
<1> QED
  BY <1>1, <1>2, <1>3, PTL DEF Spec

-----------------------------------------------------------------------------
(***************************************************************************)
(* The collections S and T with the updates ws applied.                    *)
(***************************************************************************)
OfUser(w) == w.kind \in {"insertUser", "setUserSchedule"}

Pending(ws, kind, n) == {w \in ws : w.kind = kind /\ w.team = n}

SettleUsers(S, ws) ==
    [u \in Users |->
        LET pending == {w \in ws : w.kind \in {"insertUser", "setUserSchedule"} /\ w.user = u}
        IN  IF pending = {} THEN S[u] ELSE (CHOOSE w \in pending : TRUE).schedule]

Inserted(old, ws, n) ==
    IF Pending(ws, "insertTeam", n) = {} THEN old
    ELSE LET w == CHOOSE v \in Pending(ws, "insertTeam", n) : TRUE
         IN  [creator |-> w.creator, members |-> <<w.creator>>, schedule |-> w.schedule]

NewMembers(old, ws, n) ==
    IF Pending(ws, "setMembers", n) = {} THEN old
    ELSE (CHOOSE w \in Pending(ws, "setMembers", n) : TRUE).members

NewSchedule(old, ws, n) ==
    IF Pending(ws, "setTeamSchedule", n) = {} THEN old
    ELSE (CHOOSE w \in Pending(ws, "setTeamSchedule", n) : TRUE).schedule

SettleTeams(T, ws) ==
    [n \in TeamNames |->
        [Inserted(T[n], ws, n) EXCEPT !.members = NewMembers(@, ws, n),
                                      !.schedule = NewSchedule(@, ws, n)]]

LEMMA SettledIs ==
    /\ SettledUserSchedules = SettleUsers(userSchedules, InFlight)
    /\ SettledTeams = SettleTeams(teams, InFlight)
    /\ SettledUserSchedules' = SettleUsers(userSchedules', InFlight')
    /\ SettledTeams' = SettleTeams(teams', InFlight')
BY DEF SettledUserSchedules, SettledTeams, SettleUsers, SettleTeams, Inserted, NewMembers,
       NewSchedule, Pending

LEMMA ChooseOnly ==
    ASSUME NEW x
    PROVE  (CHOOSE w \in {x} : TRUE) = x
OBVIOUS

\* No two of the updates fill the same field.
Separate(ws) == \A v, w \in ws : v # w => Apart(v, w)

LEMMA OnlyPending ==
    ASSUME NEW ws, Separate(ws), NEW w \in ws
    PROVE  Pending(ws, w.kind, w.team) = {w}
BY DEF Pending, Separate, Apart

LEMMA SettledUser ==
    ASSUME NEW ws, Separate(ws), NEW S, NEW u \in Users
    PROVE  /\ \A w \in ws : OfUser(w) /\ w.user = u => SettleUsers(S, ws)[u] = w.schedule
           /\ (\A w \in ws : ~(OfUser(w) /\ w.user = u)) => SettleUsers(S, ws)[u] = S[u]
<1> DEFINE pending == {w \in ws : w.kind \in {"insertUser", "setUserSchedule"} /\ w.user = u}
<1>1. SettleUsers(S, ws)[u] =
         IF pending = {} THEN S[u] ELSE (CHOOSE w \in pending : TRUE).schedule
  BY DEF SettleUsers
<1>2. ASSUME NEW w \in ws, OfUser(w), w.user = u
      PROVE  pending = {w}
  BY <1>2 DEF OfUser, Separate, Apart
<1>3. ASSUME NEW w \in ws, OfUser(w), w.user = u
      PROVE  SettleUsers(S, ws)[u] = w.schedule
  <2>1. pending = {w}
    BY <1>2, <1>3
  <2> HIDE DEF pending
  <2> QED
    BY <1>1, <2>1, ChooseOnly
<1>4. (\A w \in ws : ~(OfUser(w) /\ w.user = u)) => pending = {}
  BY DEF OfUser
<1> QED
  BY <1>1, <1>3, <1>4

LEMMA SettledTeam ==
    ASSUME NEW ws, Separate(ws), NEW T, NEW n \in TeamNames, T[n] \in Team,
           Pending(ws, "insertTeam", n) = {}
    PROVE  LET t == SettleTeams(T, ws)[n]
           IN  /\ t = [creator |-> T[n].creator, members |-> t.members, schedule |-> t.schedule]
               /\ \A w \in Pending(ws, "setMembers", n) : t.members = w.members
               /\ Pending(ws, "setMembers", n) = {} => t.members = T[n].members
               /\ \A w \in Pending(ws, "setTeamSchedule", n) : t.schedule = w.schedule
               /\ Pending(ws, "setTeamSchedule", n) = {} => t.schedule = T[n].schedule
<1> DEFINE members  == NewMembers(T[n].members, ws, n)
           schedule == NewSchedule(T[n].schedule, ws, n)
           t        == SettleTeams(T, ws)[n]
<1>1. Inserted(T[n], ws, n) = T[n]
  BY DEF Inserted
<1>2. t = [T[n] EXCEPT !.members = members, !.schedule = schedule]
  BY <1>1 DEF SettleTeams, Team
<1>3. ASSUME NEW w \in Pending(ws, "setMembers", n)
      PROVE  members = w.members
  <2>1. w \in ws /\ w.kind = "setMembers" /\ w.team = n
    BY DEF Pending
  <2>2. Pending(ws, "setMembers", n) = {w}
    BY <2>1, OnlyPending
  <2> QED
    BY <2>2, ChooseOnly DEF NewMembers
<1>4. ASSUME NEW w \in Pending(ws, "setTeamSchedule", n)
      PROVE  schedule = w.schedule
  <2>1. w \in ws /\ w.kind = "setTeamSchedule" /\ w.team = n
    BY DEF Pending
  <2>2. Pending(ws, "setTeamSchedule", n) = {w}
    BY <2>1, OnlyPending
  <2> QED
    BY <2>2, ChooseOnly DEF NewSchedule
<1>5. /\ Pending(ws, "setMembers", n) = {} => members = T[n].members
      /\ Pending(ws, "setTeamSchedule", n) = {} => schedule = T[n].schedule
  BY DEF NewMembers, NewSchedule
<1> HIDE DEF members, schedule
<1>6. /\ t = [creator |-> T[n].creator, members |-> members, schedule |-> schedule]
      /\ t.members = members /\ t.schedule = schedule
  BY <1>2 DEF Team
<1> HIDE DEF t
<1>7. /\ t = [creator |-> T[n].creator, members |-> t.members, schedule |-> t.schedule]
      /\ \A w \in Pending(ws, "setMembers", n) : t.members = w.members
      /\ Pending(ws, "setMembers", n) = {} => t.members = T[n].members
      /\ \A w \in Pending(ws, "setTeamSchedule", n) : t.schedule = w.schedule
      /\ Pending(ws, "setTeamSchedule", n) = {} => t.schedule = T[n].schedule
  BY <1>3, <1>4, <1>5, <1>6
<1> QED
  BY <1>7 DEF t

\* With nothing in flight the settled collections are the stored ones.
LEMMA SettledNothing ==
    ASSUME NEW S, NEW T, S \in [Users -> Seq(DayEntry(Days, Times))], T \in [TeamNames -> Team]
    PROVE  SettleUsers(S, {}) = S /\ SettleTeams(T, {}) = T
<1>1. Separate({}) /\ \A kind, n : Pending({}, kind, n) = {}
  BY DEF Separate, Pending
<1>2. SettleUsers(S, {}) = S
  <2>1. \A u \in Users : SettleUsers(S, {})[u] = S[u]
    BY <1>1, SettledUser
  <2> QED
    BY <2>1 DEF SettleUsers
<1>3. \A n \in TeamNames : SettleTeams(T, {})[n] = T[n]
  <2> TAKE n \in TeamNames
  <2>1. T[n] \in Team
    OBVIOUS
  <2> DEFINE ws == {}
             t  == SettleTeams(T, ws)[n]
  <2>a. Separate(ws) /\ \A kind : Pending(ws, kind, n) = {}
    BY <1>1
  <2> HIDE DEF ws
  <2>b. /\ t = [creator |-> T[n].creator, members |-> t.members, schedule |-> t.schedule]
        /\ Pending(ws, "setMembers", n) = {} => t.members = T[n].members
        /\ Pending(ws, "setTeamSchedule", n) = {} => t.schedule = T[n].schedule
    <3>1. Pending(ws, "insertTeam", n) = {}
      BY <2>a
    <3> QED
      BY <2>a, <2>1, <3>1, SettledTeam
  <2>2. /\ t = [creator |-> T[n].creator, members |-> t.members, schedule |-> t.schedule]
        /\ t.members = T[n].members /\ t.schedule = T[n].schedule
    <3>1. Pending(ws, "setMembers", n) = {} /\ Pending(ws, "setTeamSchedule", n) = {}
      BY <2>a
    <3> HIDE DEF t
    <3> QED
      BY <2>b, <3>1
  <2>3. T[n] = [creator |-> T[n].creator, members |-> T[n].members, schedule |-> T[n].schedule]
    BY <2>1 DEF Team
  <2> HIDE DEF t
  <2>4. t = T[n]
    BY <2>2, <2>3
  <2> QED
    BY <2>4 DEF t, ws
<1>4. SettleTeams(T, {}) = T
  <2>1. /\ DOMAIN SettleTeams(T, {}) = TeamNames
        /\ SettleTeams(T, {}) = [n \in TeamNames |-> SettleTeams(T, {})[n]]
    BY DEF SettleTeams
  <2> QED
    BY <1>3, <2>1
<1> QED
  BY <1>2, <1>4

LEMMA OneBranch ==
    ASSUME NEW W, NEW r \in Workload, \A q \in Workload \ {r} : W[q] = {}
    PROVE  UNION {W[q] : q \in Workload} = W[r]
<1>1. W[r] \in {W[q] : q \in Workload}
  OBVIOUS
<1>2. \A x \in {W[q] : q \in Workload} : x = W[r] \/ x = {}
  OBVIOUS
<1> QED
  BY <1>1, <1>2

\* The creation of a team is alone in flight.
LEMMA SettledInsert ==
    ASSUME NEW T \in [TeamNames -> Team], NEW w \in Write, w.kind = "insertTeam"
    PROVE  SettleTeams(T, {w}) =
              [T EXCEPT ![w.team] = [creator |-> w.creator, members |-> <<w.creator>>,
                                     schedule |-> w.schedule]]
<1> DEFINE new   == [creator |-> w.creator, members |-> <<w.creator>>,
                     schedule |-> w.schedule]
           after == [T EXCEPT ![w.team] = new]
           ws    == {w}
<1>1. w.team \in TeamNames
  BY DEF Write
<1>2. Separate(ws)
  BY DEF Separate
<1>3. /\ \A n : Pending(ws, "setMembers", n) = {} /\ Pending(ws, "setTeamSchedule", n) = {}
      /\ Pending(ws, "insertTeam", w.team) = {w}
      /\ \A n : n # w.team => Pending(ws, "insertTeam", n) = {}
  BY DEF Pending
<1> HIDE DEF ws
<1>4. SettleTeams(T, ws)[w.team] = new
  <2>1. Inserted(T[w.team], ws, w.team) = new
    BY <1>3, ChooseOnly DEF Inserted
  <2>2. SettleTeams(T, ws)[w.team] = [new EXCEPT !.members = @, !.schedule = @]
    BY <1>1, <1>3, <2>1 DEF SettleTeams, NewMembers, NewSchedule
  <2> QED
    BY <2>2
<1>5. ASSUME NEW n \in TeamNames, n # w.team
      PROVE  SettleTeams(T, ws)[n] = T[n]
  <2> DEFINE t == SettleTeams(T, ws)[n]
  <2>1. T[n] \in Team
    OBVIOUS
  <2>2. /\ t = [creator |-> T[n].creator, members |-> t.members, schedule |-> t.schedule]
        /\ t.members = T[n].members /\ t.schedule = T[n].schedule
    BY <1>2, <1>3, <1>5, <2>1, SettledTeam
  <2> HIDE DEF t
  <2>3. t = T[n]
    BY <2>1, <2>2 DEF Team
  <2> QED
    BY <2>3 DEF t
<1>6. /\ DOMAIN SettleTeams(T, ws) = TeamNames
      /\ SettleTeams(T, ws) = [n \in TeamNames |-> SettleTeams(T, ws)[n]]
  BY DEF SettleTeams
<1>7. \A n \in TeamNames : SettleTeams(T, ws)[n] = after[n]
  <2> HIDE DEF new
  <2> QED
    BY <1>1, <1>4, <1>5
<1>8. after = [n \in TeamNames |-> after[n]]
  OBVIOUS
<1> HIDE DEF after
<1>9. SettleTeams(T, ws) = after
  BY <1>6, <1>7, <1>8
<1> QED
  BY <1>9 DEF after, ws

(***************************************************************************)
(* An update that is executed leaves the settled collections as they are.  *)
(***************************************************************************)
LEMMA LandsUsers ==
    ASSUME Inv, NEW r \in Workload, NEW w \in writes[r], FreshWrite(r, w),
           Separate(writes[r]), Execute(w)
    PROVE  SettleUsers(userSchedules', writes[r] \ {w}) = SettleUsers(userSchedules, writes[r])
<1> DEFINE ws   == writes[r]
           rest == ws \ {w}
           S    == userSchedules
           S2   == userSchedules'
<1>1. w \in Write /\ ~Duplicate(w) /\ S \in [Users -> Seq(DayEntry(Days, Times))]
  BY FreshEffect, InvFacts
<1>2. Separate(ws) /\ Separate(rest) /\ w \in ws
  BY DEF Separate
<1>3. \A u \in Users : S2[u] = IF OfUser(w) /\ w.user = u THEN w.schedule ELSE S[u]
  BY <1>1 DEF Execute, OfUser
<1>4. \A v \in rest : ~(OfUser(v) /\ OfUser(w))
  BY <1>2 DEF Separate, Apart, OfUser
<1> HIDE DEF S, S2, ws
<1>5. ASSUME NEW u \in Users
      PROVE  SettleUsers(S2, rest)[u] = SettleUsers(S, ws)[u]
  <2>1. CASE OfUser(w) /\ w.user = u
    <3>1. SettleUsers(S, ws)[u] = w.schedule
      BY <1>2, <2>1, SettledUser
    <3>2. \A v \in rest : ~(OfUser(v) /\ v.user = u)
      BY <1>4, <2>1
    <3> HIDE DEF rest
    <3>3. SettleUsers(S2, rest)[u] = S2[u]
      BY <1>2, <3>2, SettledUser
    <3> QED
      BY <1>3, <2>1, <3>1, <3>3
  <2>2. CASE ~(OfUser(w) /\ w.user = u)
    <3>1. S2[u] = S[u]
      BY <1>3, <2>2
    <3>2. CASE \E v \in rest : OfUser(v) /\ v.user = u
      <4>1. PICK v \in rest : OfUser(v) /\ v.user = u
        BY <3>2
      <4>2. v \in ws
        OBVIOUS
      <4>3. SettleUsers(S, ws)[u] = v.schedule
        BY <1>2, <4>1, <4>2, SettledUser
      <4> HIDE DEF rest
      <4>4. SettleUsers(S2, rest)[u] = v.schedule
        BY <1>2, <4>1, SettledUser
      <4> QED
        BY <4>3, <4>4
    <3>3. CASE \A v \in rest : ~(OfUser(v) /\ v.user = u)
      <4>1. \A v \in ws : ~(OfUser(v) /\ v.user = u)
        BY <2>2, <3>3
      <4>2. SettleUsers(S, ws)[u] = S[u]
        BY <1>2, <4>1, SettledUser
      <4> HIDE DEF rest
      <4>3. SettleUsers(S2, rest)[u] = S2[u]
        BY <1>2, <3>3, SettledUser
      <4> QED
        BY <3>1, <4>2, <4>3
    <3> QED
      BY <3>2, <3>3
  <2> QED
    BY <2>1, <2>2
<1> HIDE DEF rest
<1>6. /\ SettleUsers(S2, rest) = [u \in Users |-> SettleUsers(S2, rest)[u]]
      /\ SettleUsers(S, ws) = [u \in Users |-> SettleUsers(S, ws)[u]]
  BY DEF SettleUsers
<1>7. SettleUsers(S2, rest) = SettleUsers(S, ws)
  BY <1>5, <1>6
<1> QED
  BY <1>7 DEF S, S2, ws, rest

LEMMA LandsTeams ==
    ASSUME Inv, NEW r \in Workload, NEW w \in writes[r], FreshWrite(r, w),
           Separate(writes[r]), Execute(w)
    PROVE  SettleTeams(teams', writes[r] \ {w}) = SettleTeams(teams, writes[r])
<1> DEFINE ws   == writes[r]
           rest == ws \ {w}
           T    == teams
           T2   == teams'
<1>1. /\ w \in Write /\ ~Duplicate(w) /\ T \in [TeamNames -> Team]
      /\ T2 \in [TeamNames -> Team]
  BY FreshEffect, ExecuteSafe, InvFacts DEF LegalDB
<1>2. Separate(ws) /\ Separate(rest) /\ w \in ws
  BY DEF Separate
<1>3. CASE w.kind = "insertTeam"
  <2>1. rest = {}
    BY <1>2, <1>3 DEF Separate, Apart
  <2>2. ws = {w}
    BY <2>1
  <2>3. SettleTeams(T, {w}) = T2
    BY <1>1, <1>3, SettledInsert DEF Execute
  <2>4. SettleTeams(T2, {}) = T2
    BY <1>1, InvFacts, SettledNothing
  <2> HIDE DEF T, T2, ws, rest
  <2>5. SettleTeams(T2, rest) = SettleTeams(T, ws)
    BY <2>1, <2>2, <2>3, <2>4
  <2> QED
    BY <2>5 DEF T, T2, ws, rest
<1>4. CASE w.kind # "insertTeam"
  <2>1. \A v \in ws : v.kind # "insertTeam"
    BY <1>2, <1>4 DEF Separate, Apart
  <2>2. \A n : Pending(ws, "insertTeam", n) = {} /\ Pending(rest, "insertTeam", n) = {}
    BY <2>1 DEF Pending
  <2>3. \A n \in TeamNames :
           /\ T2[n].creator = T[n].creator
           /\ T2[n].members = IF w.kind = "setMembers" /\ w.team = n THEN w.members
                              ELSE T[n].members
           /\ T2[n].schedule = IF w.kind = "setTeamSchedule" /\ w.team = n THEN w.schedule
                               ELSE T[n].schedule
    BY <1>1, <1>4 DEF Execute, Team, Write
  <2> HIDE DEF T, T2, ws
  <2>4. ASSUME NEW n \in TeamNames
        PROVE  SettleTeams(T2, rest)[n] = SettleTeams(T, ws)[n]
    <3> DEFINE t2 == SettleTeams(T2, rest)[n]
               t  == SettleTeams(T, ws)[n]
               M  == Pending(ws, "setMembers", n)
               M2 == Pending(rest, "setMembers", n)
               C  == Pending(ws, "setTeamSchedule", n)
               C2 == Pending(rest, "setTeamSchedule", n)
    <3>1. M2 = M \ {w} /\ C2 = C \ {w}
      BY DEF Pending
    <3>2. /\ w \in M <=> w.kind = "setMembers" /\ w.team = n
          /\ w \in C <=> w.kind = "setTeamSchedule" /\ w.team = n
      BY <1>2 DEF Pending
    <3>3. /\ w \in M => M = {w}
          /\ w \in C => C = {w}
      BY <1>2, <3>2, OnlyPending
    <3>4. T[n] \in Team /\ T2[n] \in Team
      BY <1>1
    <3>5. /\ t = [creator |-> T[n].creator, members |-> t.members, schedule |-> t.schedule]
          /\ \A v \in M : t.members = v.members
          /\ M = {} => t.members = T[n].members
          /\ \A v \in C : t.schedule = v.schedule
          /\ C = {} => t.schedule = T[n].schedule
      BY <1>2, <2>2, <3>4, SettledTeam
    <3> HIDE DEF rest
    <3>6. /\ t2 = [creator |-> T2[n].creator, members |-> t2.members, schedule |-> t2.schedule]
          /\ \A v \in M2 : t2.members = v.members
          /\ M2 = {} => t2.members = T2[n].members
          /\ \A v \in C2 : t2.schedule = v.schedule
          /\ C2 = {} => t2.schedule = T2[n].schedule
      BY <1>2, <2>2, <3>4, SettledTeam
    <3>7. /\ T2[n].creator = T[n].creator
          /\ T2[n].members = IF w \in M THEN w.members ELSE T[n].members
          /\ T2[n].schedule = IF w \in C THEN w.schedule ELSE T[n].schedule
      BY <2>3, <3>2
    <3> HIDE DEF t, t2, M, M2, C, C2
    <3>8. t2.members = t.members
      BY <3>1, <3>3, <3>5, <3>6, <3>7
    <3>9. t2.schedule = t.schedule
      BY <3>1, <3>3, <3>5, <3>6, <3>7
    <3>10. t2 = t
      BY <3>5, <3>6, <3>7, <3>8, <3>9
    <3> QED
      BY <3>10 DEF t, t2
  <2> HIDE DEF rest
  <2>5. /\ SettleTeams(T2, rest) = [n \in TeamNames |-> SettleTeams(T2, rest)[n]]
        /\ SettleTeams(T, ws) = [n \in TeamNames |-> SettleTeams(T, ws)[n]]
    BY DEF SettleTeams
  <2>6. SettleTeams(T2, rest) = SettleTeams(T, ws)
    BY <2>4, <2>5
  <2> QED
    BY <2>6 DEF T, T2, ws, rest
<1> QED
  BY <1>3, <1>4

\* Only the writes of one user's document count for the schedules of users.
LEMMA SettledOneUser ==
    ASSUME NEW S \in [Users -> Seq(DayEntry(Days, Times))], NEW ws, Separate(ws),
           NEW w \in ws, OfUser(w), w.user \in Users
    PROVE  SettleUsers(S, ws) = [S EXCEPT ![w.user] = w.schedule]
<1>1. \A v \in ws : OfUser(v) => v = w
  BY DEF Separate, Apart, OfUser
<1>2. SettleUsers(S, ws)[w.user] = w.schedule
  BY SettledUser
<1>3. ASSUME NEW u \in Users, u # w.user
      PROVE  SettleUsers(S, ws)[u] = S[u]
  <2>1. \A v \in ws : ~(OfUser(v) /\ v.user = u)
    BY <1>1, <1>3
  <2> QED
    BY <2>1, SettledUser
<1>4. SettleUsers(S, ws) = [u \in Users |-> SettleUsers(S, ws)[u]]
  BY DEF SettleUsers
<1> QED
  BY <1>2, <1>3, <1>4

LEMMA SettledNoUser ==
    ASSUME NEW S \in [Users -> Seq(DayEntry(Days, Times))], NEW ws, Separate(ws),
           \A w \in ws : ~OfUser(w)
    PROVE  SettleUsers(S, ws) = S
<1>1. \A u \in Users : SettleUsers(S, ws)[u] = S[u]
  BY SettledUser
<1>2. SettleUsers(S, ws) = [u \in Users |-> SettleUsers(S, ws)[u]]
  BY DEF SettleUsers
<1> QED
  BY <1>1, <1>2

\* A team of which no update is in flight.
LEMMA SettledUntouched ==
    ASSUME NEW T \in [TeamNames -> Team], NEW ws, Separate(ws), NEW n \in TeamNames,
           \A kind \in {"insertTeam", "setMembers", "setTeamSchedule"} :
              Pending(ws, kind, n) = {}
    PROVE  SettleTeams(T, ws)[n] = T[n]
<1> DEFINE t == SettleTeams(T, ws)[n]
<1>1. T[n] \in Team
  OBVIOUS
<1>2. /\ t = [creator |-> T[n].creator, members |-> t.members, schedule |-> t.schedule]
      /\ t.members = T[n].members /\ t.schedule = T[n].schedule
  BY <1>1, SettledTeam
<1> HIDE DEF t
<1>3. t = T[n]
  BY <1>1, <1>2 DEF Team
<1> QED
  BY <1>3 DEF t

LEMMA SettledNoTeam ==
    ASSUME NEW T \in [TeamNames -> Team], NEW ws, Separate(ws), \A w \in ws : OfUser(w)
    PROVE  SettleTeams(T, ws) = T
<1>1. \A kind \in {"insertTeam", "setMembers", "setTeamSchedule"} : \A n :
         Pending(ws, kind, n) = {}
  BY DEF Pending, OfUser
<1>2. \A n \in TeamNames : SettleTeams(T, ws)[n] = T[n]
  BY <1>1, SettledUntouched
<1>3. SettleTeams(T, ws) = [n \in TeamNames |-> SettleTeams(T, ws)[n]]
  BY DEF SettleTeams
<1> QED
  BY <1>2, <1>3

-----------------------------------------------------------------------------
(***************************************************************************)
(* Without faults, and one request at a time, the handlers implement       *)
(* AtomicSchedules: the step that sends the updates is the step there.     *)
(***************************************************************************)
LEMMA AtomicOperators ==
    /\ Atomic!NoTeam = NoTeam
    /\ \A d, t : Atomic!DayEntry(d, t) = DayEntry(d, t)
    /\ \A s : Atomic!ToSet(s) = ToSet(s)
    /\ \A entries, day : Atomic!HasDay(entries, day) = HasDay(entries, day)
    /\ \A entries, day : Atomic!FindDay(entries, day) = FindDay(entries, day)
    /\ \A entries : Atomic!InitialTeamSchedule(entries) = InitialTeamSchedule(entries)
<1>1. Atomic!NoTeam = NoTeam /\ \A d, t : Atomic!DayEntry(d, t) = DayEntry(d, t)
  BY DEF Atomic!NoTeam, NoTeam, Atomic!DayEntry, DayEntry
<1>2. \A s : Atomic!ToSet(s) = ToSet(s)
  BY DEF Atomic!ToSet, ToSet
<1>3. \A entries, day : Atomic!HasDay(entries, day) = HasDay(entries, day)
  BY DEF Atomic!HasDay, HasDay
<1>4. \A entries, day : Atomic!FindDay(entries, day) = FindDay(entries, day)
  BY DEF Atomic!FindDay, FindDay, Atomic!HasDay, HasDay, Atomic!FirstWithDay, FirstWithDay
<1>5. \A entries : Atomic!InitialTeamSchedule(entries) = InitialTeamSchedule(entries)
  BY DEF Atomic!InitialTeamSchedule, InitialTeamSchedule, Atomic!OpenEntry, OpenEntry
<1> QED
  BY <1>1, <1>2, <1>3, <1>4, <1>5

LEMMA NarrowingIsAtomic ==
    /\ \A entry : Atomic!CloseWindow(entry) = CloseWindow(entry)
    /\ \A entry, seen, window :
          Atomic!NarrowByMember(entry, seen, window) = NarrowByMember(entry, seen, window)
    /\ \A entry, format, window :
          Atomic!NarrowByOwnDay(entry, format, window) = NarrowByOwnDay(entry, format, window)
    /\ \A window : Atomic!OpenEntry(window) = OpenEntry(window)
BY DEF Atomic!CloseWindow, CloseWindow, Atomic!NarrowByMember, NarrowByMember,
       Atomic!NarrowByOwnDay, NarrowByOwnDay, Atomic!OpenEntry, OpenEntry,
       Atomic!WindowIsValid, WindowIsValid, Atomic!NeedsUpdate, NeedsUpdate

LEMMA AtomicLoops ==
    /\ \A entries, posted :
          Atomic!ScheduleWithMember(entries, posted) = ScheduleWithMember(entries, posted)
    /\ \A team, format, window :
          Atomic!ScheduleAfterOwnDay(team, format, window)
            = ScheduleAfterOwnDay(team, format, window)
BY AtomicOperators, NarrowingIsAtomic
   DEF Atomic!ScheduleWithMember, ScheduleWithMember,
       Atomic!ScheduleAfterOwnDay, ScheduleAfterOwnDay

LEMMA AtomicPostSchedule ==
    ASSUME NEW u \in Users, NEW window \in DayEntry(Days, Times), NEW format \in {"iso", "ms"},
           SettledUserSchedules = userSchedules, SettledTeams = teams,
           ~HasDay(userSchedules[u], window.day), window.startTime < window.endTime,
           SettledUserSchedules' = [userSchedules EXCEPT ![u] = Append(@, window)],
           SettledTeams' =
              IF userSchedules[u] = <<>> THEN teams
              ELSE [n \in TeamNames |->
                      IF u \in Members(n)
                      THEN [teams[n] EXCEPT !.schedule =
                               ScheduleAfterOwnDay(teams[n], format, window)]
                      ELSE teams[n]]
    PROVE  Atomic!AtomicNext
<1>1. \A n : Atomic!Members(n) = Members(n)
  BY AtomicOperators DEF Atomic!Members, Members
<1>2. Atomic!PostSchedule(u, window, format)
  BY <1>1, AtomicOperators, AtomicLoops DEF Atomic!PostSchedule
<1>3. window \in Atomic!DayEntry(Days, Times)
  BY AtomicOperators
<1> QED
  BY <1>2, <1>3 DEF Atomic!AtomicNext

LEMMA AtomicPostTeam ==
    ASSUME NEW u \in Users, NEW n \in TeamNames,
           SettledUserSchedules = userSchedules, SettledTeams = teams,
           ~Exists(n), userSchedules[u] # <<>>,
           SettledTeams' = [teams EXCEPT ![n] =
                              [creator |-> u, members |-> <<u>>,
                               schedule |-> InitialTeamSchedule(userSchedules[u])]],
           SettledUserSchedules' = userSchedules
    PROVE  Atomic!AtomicNext
<1>1. Atomic!PostTeam(u, n)
  BY AtomicOperators DEF Atomic!PostTeam, Atomic!Exists, Exists
<1> QED
  BY <1>1 DEF Atomic!AtomicNext

LEMMA AtomicPostMember ==
    ASSUME NEW u \in Users, NEW n \in TeamNames, NEW added \in Users,
           SettledUserSchedules = userSchedules, SettledTeams = teams,
           teams[n].creator = u, added \notin Members(n), userSchedules[added] # <<>>,
           SettledTeams' =
              [teams EXCEPT ![n].members = Append(@, added),
                            ![n].schedule = ScheduleWithMember(@, userSchedules[added])],
           SettledUserSchedules' = userSchedules
    PROVE  Atomic!AtomicNext
<1>1. Atomic!Members(n) = Members(n)
  BY AtomicOperators DEF Atomic!Members, Members
<1>2. Atomic!PostMember(u, n, added)
  BY <1>1, AtomicLoops DEF Atomic!PostMember
<1> QED
  BY <1>2 DEF Atomic!AtomicNext

-----------------------------------------------------------------------------
LEMMA InFlightOf ==
    ASSUME NEW r \in Workload, OnlyBusy(r)
    PROVE  /\ InFlight = writes[r]
           /\ (\A q \in Workload \ {r} : writes'[q] = {}) => InFlight' = writes'[r]
<1>1. \A q \in Workload \ {r} : writes[q] = {}
  BY DEF OnlyBusy, Busy
<1>2. InFlight = writes[r]
  BY <1>1, OneBranch DEF InFlight
<1>3. ASSUME \A q \in Workload \ {r} : writes'[q] = {}
      PROVE  InFlight' = writes'[r]
  <2> DEFINE W == writes'
  <2>1. \A q \in Workload \ {r} : W[q] = {}
    BY <1>3
  <2> HIDE DEF W
  <2>2. UNION {W[q] : q \in Workload} = W[r]
    BY <2>1, OneBranch
  <2> QED
    BY <2>2 DEF W, InFlight
<1> QED
  BY <1>2, <1>3

\* Nothing is in flight while a handler runs; what it sends is.
LEMMA SendSettled ==
    ASSUME Inv, SerialInv, NEW r \in Workload, Begun(r), NEW ws, Send(r, ws),
           userSchedules' = userSchedules, teams' = teams
    PROVE  /\ SettledUserSchedules = userSchedules /\ SettledTeams = teams
           /\ SettledUserSchedules' = SettleUsers(userSchedules, ws)
           /\ SettledTeams' = SettleTeams(teams, ws)
<1>1. OnlyBusy(r) /\ writes[r] = {}
  BY WorkingAlone DEF SerialInv, NothingSentYet
<1>2. writes'[r] = ws /\ \A q \in Workload \ {r} : writes'[q] = {}
  BY <1>1, InvFacts DEF Send, OnlyBusy, Busy
<1>3. InFlight = {} /\ InFlight' = ws
  BY <1>1, <1>2, InFlightOf
<1>4. SettleUsers(userSchedules, {}) = userSchedules /\ SettleTeams(teams, {}) = teams
  BY InvFacts, SettledNothing
<1> QED
  BY <1>3, <1>4, SettledIs

LEMMA FindScheduleAtomic ==
    ASSUME Inv, SerialInv, NEW r \in Workload, ScheduleFindSchedule(r)
    PROVE  Atomic!AtomicNext \/ writes' = writes
<1>1. /\ userSchedules' = userSchedules /\ teams' = teams /\ pc[r] = "findSchedule"
      /\ Begun(r)
  BY DEF ScheduleFindSchedule, At, Begun
<1>2. /\ r.type = "schedule" /\ r.window.startTime < r.window.endTime
      /\ r.user \in Users /\ r.window \in DayEntry(Days, Times) /\ r.format \in {"iso", "ms"}
  BY <1>1, InvFacts, RequestFields DEF GoodLocal, StageFits, ScheduleStages
<1>3. ~HasDay(userSchedules[r.user], r.window.day)
  BY <1>1 DEF SerialInv, FreshLocal
<1> DEFINE w == [kind |-> "insertUser", user |-> r.user, schedule |-> <<r.window>>]
           S == userSchedules
<1>4. CASE userSchedules[r.user] = <<>> /\ Send(r, {w})
  <2>1. /\ SettledUserSchedules = userSchedules /\ SettledTeams = teams
        /\ SettledUserSchedules' = SettleUsers(userSchedules, {w})
        /\ SettledTeams' = SettleTeams(teams, {w})
    <3> HIDE DEF w
    <3> QED
      BY <1>1, <1>4, SendSettled
  <2>2. /\ w.kind = "insertUser" /\ w.user = r.user
        /\ w.schedule = Append(S[r.user], r.window)
    BY <1>4
  <2> HIDE DEF w
  <2>3. Separate({w}) /\ OfUser(w)
    BY <2>2 DEF Separate, OfUser
  <2>4. SettleUsers(S, {w}) = [S EXCEPT ![r.user] = Append(@, r.window)]
    <3> DEFINE ws == {w}
    <3>1. w \in ws /\ Separate(ws)
      BY <2>3
    <3> HIDE DEF ws
    <3>2. SettleUsers(S, ws) = [S EXCEPT ![w.user] = w.schedule]
      BY <1>2, <2>2, <2>3, <3>1, InvFacts, SettledOneUser
    <3> QED
      BY <2>2, <3>2 DEF ws
  <2>5. SettleTeams(teams, {w}) = teams
    <3> DEFINE ws == {w}
    <3>1. Separate(ws) /\ \A v \in ws : OfUser(v)
      BY <2>3
    <3> HIDE DEF ws
    <3>2. SettleTeams(teams, ws) = teams
      BY <3>1, InvFacts, SettledNoTeam
    <3> QED
      BY <3>2 DEF ws
  <2> QED
    BY <1>2, <1>3, <1>4, <2>1, <2>4, <2>5, AtomicPostSchedule
<1>5. CASE Await(r, "findTeams", [Blank EXCEPT !.own = userSchedules[r.user]])
  BY <1>5 DEF Await
<1> QED
  BY <1>4, <1>5 DEF ScheduleFindSchedule

LEMMA TeamRebuilt ==
    ASSUME NEW t \in Team, NEW m, NEW s
    PROVE  [t EXCEPT !.members = m, !.schedule = s] =
              [creator |-> t.creator, members |-> m, schedule |-> s]
<1> DEFINE u == [t EXCEPT !.members = m, !.schedule = s]
<1>1. u = [t EXCEPT !.members = m, !.schedule = s]
  OBVIOUS
<1> HIDE DEF u
<1>2. u = [creator |-> t.creator, members |-> m, schedule |-> s]
  BY <1>1 DEF Team
<1> QED
  BY <1>2 DEF u

\* A team of which an update of the schedule is in flight, and no other.
LEMMA SettledScheduled ==
    ASSUME NEW T \in [TeamNames -> Team], NEW ws, Separate(ws), NEW n \in TeamNames,
           NEW w \in Pending(ws, "setTeamSchedule", n),
           Pending(ws, "insertTeam", n) = {}, Pending(ws, "setMembers", n) = {}
    PROVE  SettleTeams(T, ws)[n] = [T[n] EXCEPT !.schedule = w.schedule]
<1> DEFINE t == SettleTeams(T, ws)[n]
<1>1. T[n] \in Team
  OBVIOUS
<1>2. /\ t = [creator |-> T[n].creator, members |-> t.members, schedule |-> t.schedule]
      /\ t.members = T[n].members /\ t.schedule = w.schedule
  BY <1>1, SettledTeam
<1> HIDE DEF t
<1>3. t = [T[n] EXCEPT !.schedule = w.schedule]
  BY <1>1, <1>2 DEF Team
<1> QED
  BY <1>3 DEF t

LEMMA UpdateTeamsAtomic ==
    ASSUME Inv, SerialInv, NEW r \in Workload, ScheduleUpdateTeams(r)
    PROVE  Atomic!AtomicNext
<1> DEFINE u         == r.user
           snapshot  == local[r].snapshot
           mine      == {n \in TeamNames : snapshot[n] # NoTeam}
           after(n)  == ScheduleAfterOwnDay(snapshot[n], r.format, r.window)
           toTeam(n) == [kind |-> "setTeamSchedule", team |-> n, schedule |-> after(n)]
           moved     == {n \in mine : after(n) # snapshot[n].schedule}
           toUser    == [kind |-> "setUserSchedule", user |-> r.user,
                         schedule |-> Append(local[r].own, r.window)]
           ws        == {toTeam(n) : n \in moved} \cup {toUser}
           S         == userSchedules
           T         == teams
<1>1. /\ userSchedules' = userSchedules /\ teams' = teams
      /\ pc[r] = "teamsFound" /\ Send(r, ws) /\ Begun(r)
  BY DEF ScheduleUpdateTeams, At, store, Begun
<1>2. /\ r.type = "schedule" /\ r.window.startTime < r.window.endTime
      /\ u \in Users /\ r.window \in DayEntry(Days, Times) /\ r.format \in {"iso", "ms"}
  BY <1>1, InvFacts, RequestFields DEF GoodLocal, StageFits, ScheduleStages
<1>3. /\ ~HasDay(S[u], r.window.day) /\ S[u] # <<>>
      /\ local[r].own = S[u] /\ snapshot = TeamsOf(u)
  BY <1>1 DEF SerialInv, FreshLocal
<1>4. S \in [Users -> Seq(DayEntry(Days, Times))] /\ T \in [TeamNames -> Team]
  BY InvFacts
<1>5. /\ toUser.kind = "setUserSchedule" /\ toUser.user = u
      /\ toUser.schedule = Append(S[u], r.window)
      /\ \A n : /\ toTeam(n).kind = "setTeamSchedule" /\ toTeam(n).team = n
                /\ toTeam(n).schedule = after(n)
  BY <1>3
<1>6. \A n \in TeamNames : snapshot[n] = IF u \in Members(n) THEN T[n] ELSE NoTeam
  BY <1>3 DEF TeamsOf
<1>7. /\ SettledUserSchedules = S /\ SettledTeams = T
      /\ SettledUserSchedules' = SettleUsers(S, ws)
      /\ SettledTeams' = SettleTeams(T, ws)
  <2> HIDE DEF ws
  <2> QED
    BY <1>1, SendSettled
<1> HIDE DEF toUser, toTeam, moved, S, T
<1>8. Separate(ws) /\ toUser \in ws /\ OfUser(toUser)
  BY <1>5 DEF Separate, Apart, OfUser
<1>9. SettleUsers(S, ws) = [S EXCEPT ![u] = Append(@, r.window)]
  <2> HIDE DEF ws, u
  <2>1. SettleUsers(S, ws) = [S EXCEPT ![toUser.user] = toUser.schedule]
    BY <1>2, <1>4, <1>5, <1>8, SettledOneUser, SMTT(30)
  <2> QED
    BY <1>5, <2>1
<1>10. /\ \A n : Pending(ws, "insertTeam", n) = {} /\ Pending(ws, "setMembers", n) = {}
       /\ \A n \in moved : toTeam(n) \in Pending(ws, "setTeamSchedule", n)
       /\ \A n : n \notin moved => Pending(ws, "setTeamSchedule", n) = {}
  BY <1>5 DEF Pending
<1> HIDE DEF ws, snapshot, after
<1>11. ASSUME NEW n \in TeamNames
       PROVE  SettleTeams(T, ws)[n] =
                 IF u \in Members(n)
                 THEN [T[n] EXCEPT !.schedule = ScheduleAfterOwnDay(T[n], r.format, r.window)]
                 ELSE T[n]
  <2>1. n \notin moved => SettleTeams(T, ws)[n] = T[n]
    BY <1>4, <1>8, <1>10, SettledUntouched
  <2>2. CASE u \in Members(n)
    <3>1. T[n] # NoTeam
      BY <2>2 DEF Members, NoTeam, ToSet, T
    <3>2. n \in mine /\ after(n) = ScheduleAfterOwnDay(T[n], r.format, r.window)
          /\ snapshot[n] = T[n]
      BY <1>6, <2>2, <3>1 DEF after
    <3>3. CASE n \in moved
      <4>1. toTeam(n) \in Pending(ws, "setTeamSchedule", n) /\ toTeam(n).schedule = after(n)
        BY <1>5, <1>10, <3>3
      <4>2. SettleTeams(T, ws)[n] = [T[n] EXCEPT !.schedule = toTeam(n).schedule]
        BY <1>4, <1>8, <1>10, <4>1, SettledScheduled
      <4> QED
        BY <2>2, <3>2, <4>1, <4>2
    <3>4. CASE n \notin moved
      <4>1. after(n) = T[n].schedule
        BY <3>2, <3>4 DEF moved
      <4>2. [T[n] EXCEPT !.schedule = after(n)] = T[n]
        BY <1>4, <4>1 DEF Team
      <4> QED
        BY <2>1, <2>2, <3>2, <3>4, <4>2
    <3> QED
      BY <3>3, <3>4
  <2>3. CASE u \notin Members(n)
    <3>1. n \notin moved
      BY <1>6, <2>3 DEF moved
    <3> QED
      BY <2>1, <2>3, <3>1
  <2> QED
    BY <2>2, <2>3
<1>12. SettleTeams(T, ws) = [n \in TeamNames |-> SettleTeams(T, ws)[n]]
  BY DEF SettleTeams
<1>13. SettledTeams' =
          IF S[u] = <<>> THEN T
          ELSE [n \in TeamNames |->
                  IF u \in Members(n)
                  THEN [T[n] EXCEPT !.schedule =
                           ScheduleAfterOwnDay(T[n], r.format, r.window)]
                  ELSE T[n]]
  BY <1>3, <1>7, <1>11, <1>12
<1> HIDE DEF u
<1> QED
  BY <1>2, <1>3, <1>7, <1>9, <1>13, AtomicPostSchedule DEF S, T, u

LEMMA TeamSaveAtomic ==
    ASSUME Inv, SerialInv, NEW r \in Workload, TeamSave(r)
    PROVE  Atomic!AtomicNext
<1> DEFINE days == InitialTeamSchedule(local[r].own)
           w    == [kind |-> "insertTeam", team |-> r.team, creator |-> r.user,
                    schedule |-> days]
<1>1. /\ userSchedules' = userSchedules /\ teams' = teams
      /\ pc[r] = "creatorFound" /\ Send(r, {w}) /\ Begun(r)
  BY DEF TeamSave, At, store, Begun
<1>2. /\ r.type = "team" /\ r.user \in Users /\ r.team \in TeamNames
      /\ userSchedules[r.user] # <<>>
      /\ \A k \in DOMAIN local[r].own :
            local[r].own[k].startTime < local[r].own[k].endTime
  BY <1>1, InvFacts, RequestFields DEF GoodLocal, StageFits, TeamStages, Proper
<1>3. ~Exists(r.team) /\ local[r].own = userSchedules[r.user]
  BY <1>1 DEF SerialInv, FreshLocal
<1>4. days \in Seq(TeamEntry(Days, Times)) /\ days = InitialTeamSchedule(userSchedules[r.user])
  BY <1>2, <1>3, InvFacts, InitialSchedule
<1>5. /\ SettledUserSchedules = userSchedules /\ SettledTeams = teams
      /\ SettledUserSchedules' = SettleUsers(userSchedules, {w})
      /\ SettledTeams' = SettleTeams(teams, {w})
  <2> HIDE DEF w
  <2> QED
    BY <1>1, SendSettled
<1> HIDE DEF days
<1>6. /\ w \in Write /\ w.kind = "insertTeam" /\ w.team = r.team /\ w.creator = r.user
      /\ w.schedule = days
  BY <1>2, <1>4 DEF Write
<1> HIDE DEF w
<1>7. SettleTeams(teams, {w}) =
         [teams EXCEPT ![r.team] = [creator |-> r.user, members |-> <<r.user>>,
                                    schedule |-> days]]
  BY <1>6, InvFacts, SettledInsert
<1>8. SettleUsers(userSchedules, {w}) = userSchedules
  <2> DEFINE ws == {w}
  <2>1. Separate(ws) /\ \A v \in ws : ~OfUser(v)
    BY <1>6 DEF Separate, OfUser
  <2> HIDE DEF ws
  <2>2. SettleUsers(userSchedules, ws) = userSchedules
    BY <2>1, InvFacts, SettledNoUser
  <2> QED
    BY <2>2 DEF ws
<1> QED
  BY <1>2, <1>3, <1>4, <1>5, <1>7, <1>8, AtomicPostTeam

LEMMA MemberRoundAtomic ==
    ASSUME Inv, SerialInv, NEW r \in Workload, MemberStartLoop(r) \/ MemberUseAddedDay(r)
    PROVE  Atomic!AtomicNext \/ writes' = writes
<1>1. /\ pc[r] \in InTeam /\ pc[r] \in WithAdded
      /\ userSchedules' = userSchedules /\ teams' = teams
  BY LoopGoesOn DEF store
<1> DEFINE n      == r.team
           posted == userSchedules[r.added]
           old    == teams[n].schedule
           members == Append(teams[n].members, r.added)
<1>2. PICK index \in Nat, schedule \in Seq(TeamEntry(Days, Times)) :
         /\ LoopedTo(index + 1, schedule, old, posted)
         /\ MemberLoop(r, index, schedule)
  BY LoopGoesOn
<1>3. /\ local[r].members = teams[n].members /\ teams[n].creator = r.user
      /\ Begun(r) /\ r.added \notin Members(n)
      /\ r.added \in Users /\ n \in TeamNames /\ r.user \in Users
      /\ posted # <<>>
  BY <1>1, TeamStillRead, MemberFacts, RequestFields DEF GoodLocal
<1>4. teams \in [TeamNames -> Team] /\ old \in Seq(TeamEntry(Days, Times))
  BY <1>3, InvFacts DEF Team
<1> DEFINE toTeam    == [kind |-> "setTeamSchedule", team |-> n, schedule |-> schedule]
           toMembers == [kind |-> "setMembers", team |-> n, members |-> members]
           ws        == {toTeam, toMembers}
<1>5. CASE ~(index < Len(schedule)) /\ Send(r, ws)
  <2>1. schedule = ScheduleWithMember(old, posted)
    <3>1. /\ DOMAIN schedule = 1 .. Len(schedule) /\ Len(schedule) \in Nat
          /\ DOMAIN schedule = DOMAIN old
      BY <1>2, LenProperties DEF LoopedTo
    <3>2. \A k \in DOMAIN old : k < index + 1
      BY <1>5, <3>1
    <3>3. \A k \in DOMAIN old : schedule[k] = ScheduleWithMember(old, posted)[k]
      BY <1>2, <3>2 DEF LoopedTo
    <3>4. /\ DOMAIN ScheduleWithMember(old, posted) = DOMAIN old
          /\ ScheduleWithMember(old, posted) =
                [k \in DOMAIN old |-> ScheduleWithMember(old, posted)[k]]
      BY DEF ScheduleWithMember
    <3>5. schedule = [k \in DOMAIN schedule |-> schedule[k]]
      OBVIOUS
    <3> QED
      BY <3>1, <3>3, <3>4, <3>5
  <2>2. /\ SettledUserSchedules = userSchedules /\ SettledTeams = teams
        /\ SettledUserSchedules' = SettleUsers(userSchedules, ws)
        /\ SettledTeams' = SettleTeams(teams, ws)
    <3> HIDE DEF ws
    <3> QED
      BY <1>1, <1>3, <1>5, SendSettled
  <2>3. /\ toTeam.kind = "setTeamSchedule" /\ toTeam.team = n
        /\ toTeam.schedule = schedule
        /\ toMembers.kind = "setMembers" /\ toMembers.team = n
        /\ toMembers.members = members
    OBVIOUS
  <2> HIDE DEF toTeam, toMembers, members
  <2>4. /\ Separate(ws) /\ \A v \in ws : ~OfUser(v)
        /\ \A m : Pending(ws, "insertTeam", m) = {}
        /\ toTeam \in Pending(ws, "setTeamSchedule", n)
        /\ toMembers \in Pending(ws, "setMembers", n)
        /\ \A m : m # n => /\ Pending(ws, "setTeamSchedule", m) = {}
                           /\ Pending(ws, "setMembers", m) = {}
    BY <2>3 DEF Separate, Apart, OfUser, Pending
  <2> HIDE DEF ws, n
  <2>5. SettleUsers(userSchedules, ws) = userSchedules
    BY <2>4, InvFacts, SettledNoUser
  <2>6. \A m \in TeamNames \ {n} : SettleTeams(teams, ws)[m] = teams[m]
    BY <1>4, <2>4, SettledUntouched
  <2>7. SettleTeams(teams, ws)[n] =
           [creator |-> teams[n].creator, members |-> members, schedule |-> schedule]
    <3> DEFINE t == SettleTeams(teams, ws)[n]
    <3>1. teams[n] \in Team
      BY <1>3, <1>4
    <3>2. /\ t = [creator |-> teams[n].creator, members |-> t.members,
                  schedule |-> t.schedule]
          /\ t.members = toMembers.members /\ t.schedule = toTeam.schedule
      BY <1>3, <2>4, <3>1, SettledTeam
    <3> HIDE DEF t
    <3>3. t = [creator |-> teams[n].creator, members |-> members, schedule |-> schedule]
      BY <2>3, <3>2
    <3> QED
      BY <3>3 DEF t
  <2>8. SettleTeams(teams, ws) =
           [teams EXCEPT ![n].members = Append(@, r.added),
                         ![n].schedule = ScheduleWithMember(@, posted)]
    <3>1. SettleTeams(teams, ws) = [m \in TeamNames |-> SettleTeams(teams, ws)[m]]
      BY DEF SettleTeams
    <3> DEFINE new == [creator |-> teams[n].creator, members |-> members,
                       schedule |-> schedule]
    <3>2. SettleTeams(teams, ws) = [teams EXCEPT ![n] = new]
      <4> HIDE DEF new
      <4>1. SettleTeams(teams, ws)[n] = new
        BY <2>7 DEF new
      <4> QED
        BY <1>3, <1>4, <2>6, <3>1, <4>1
    <3>3. new = [teams[n] EXCEPT !.members = Append(@, r.added),
                                 !.schedule = ScheduleWithMember(@, posted)]
      <4> DEFINE withM == ScheduleWithMember(teams[n].schedule, posted)
      <4>1. teams[n] \in Team
        BY <1>3, <1>4
      <4>2. members = Append(teams[n].members, r.added) /\ schedule = withM
        BY <1>3, <2>1 DEF members
      <4> HIDE DEF withM
      <4>3. new = [creator |-> teams[n].creator, members |-> Append(teams[n].members, r.added),
                   schedule |-> withM]
        BY <4>2
      <4>4. [teams[n] EXCEPT !.members = Append(@, r.added), !.schedule = withM] =
            [creator |-> teams[n].creator, members |-> Append(teams[n].members, r.added),
             schedule |-> withM]
        BY <4>1, TeamRebuilt
      <4> QED
        BY <4>3, <4>4 DEF withM
    <3>4. [teams EXCEPT ![n].members = Append(@, r.added),
                        ![n].schedule = ScheduleWithMember(@, posted)] =
          [teams EXCEPT ![n] = [teams[n] EXCEPT !.members = Append(@, r.added),
                                                !.schedule = ScheduleWithMember(@, posted)]]
      BY <1>3, <1>4
    <3> QED
      BY <3>2, <3>3, <3>4
  <2> QED
    BY <1>3, <2>2, <2>5, <2>8, AtomicPostMember DEF n
<1>6. CASE Await(r, "findAddedDay",
                 [local[r] EXCEPT !.schedule = schedule, !.at = index + 1, !.found = <<>>])
  BY <1>6 DEF Await
<1> QED
  BY <1>2, <1>3, <1>5, <1>6 DEF MemberLoop

-----------------------------------------------------------------------------
LEMMA SettledStill ==
    ASSUME userSchedules' = userSchedules, teams' = teams, writes' = writes
    PROVE  SettledUserSchedules' = SettledUserSchedules /\ SettledTeams' = SettledTeams
<1>1. InFlight' = InFlight
  BY DEF InFlight
<1> QED
  BY <1>1, SettledIs

LEMMA HandlerStepAtomic ==
    ASSUME Inv, SerialInv, NEW r \in Workload, HandlerStep(r)
    PROVE  /\ userSchedules' = userSchedules /\ teams' = teams
           /\ Atomic!AtomicNext \/ writes' = writes
<1>1. userSchedules' = userSchedules /\ teams' = teams
  BY DEF HandlerStep, ScheduleStep, TeamStep, MemberStep, ScheduleFindDay,
     ScheduleFindSchedule, ScheduleFindTeams, ScheduleUpdateTeams, TeamFindName,
     TeamFindCreator, TeamSave, MemberFindTeam, MemberFindMember, MemberFindAdded,
     MemberFindTeamAgain, MemberStartLoop, MemberFindAddedDay, MemberUseAddedDay, store
<1>2. CASE \/ ScheduleFindDay(r) \/ ScheduleFindTeams(r)
           \/ TeamFindName(r) \/ TeamFindCreator(r)
           \/ MemberFindTeam(r) \/ MemberFindMember(r) \/ MemberFindAdded(r)
           \/ MemberFindTeamAgain(r) \/ MemberFindAddedDay(r)
  <2>1. writes' = writes
    BY <1>2 DEF ScheduleFindDay, ScheduleFindTeams, TeamFindName, TeamFindCreator,
       MemberFindTeam, MemberFindMember, MemberFindAdded, MemberFindTeamAgain,
       MemberFindAddedDay, Await, Return, DieHandling
  <2> QED
    BY <1>1, <2>1
<1>3. CASE ScheduleFindSchedule(r)
  BY <1>1, <1>3, FindScheduleAtomic
<1>4. CASE ScheduleUpdateTeams(r)
  BY <1>1, <1>4, UpdateTeamsAtomic
<1>5. CASE TeamSave(r)
  BY <1>1, <1>5, TeamSaveAtomic
<1>6. CASE MemberStartLoop(r) \/ MemberUseAddedDay(r)
  BY <1>1, <1>6, MemberRoundAtomic
<1> QED
  BY <1>2, <1>3, <1>4, <1>5, <1>6 DEF HandlerStep, ScheduleStep, TeamStep, MemberStep

\* An update that is executed was settled when it was sent.
LEMMA WriteLandsAtomic ==
    ASSUME Inv, SerialInv, NEW r \in Workload, WriteLands(r)
    PROVE  SettledUserSchedules' = SettledUserSchedules /\ SettledTeams' = SettledTeams
<1>1. PICK w \in writes[r] : Execute(w) /\ writes' = [writes EXCEPT ![r] = @ \ {w}]
  BY DEF WriteLands
<1>2. OnlyBusy(r) /\ FreshWrite(r, w) /\ Separate(writes[r])
  BY WritesOf DEF FreshWrites, Separate
<1>3. \A q \in Workload \ {r} : writes'[q] = {}
  BY <1>1, InvFacts, WritesOf
<1>4. writes'[r] = writes[r] \ {w}
  BY <1>1, InvFacts
<1>5. InFlight = writes[r] /\ InFlight' = writes[r] \ {w}
  BY <1>2, <1>3, <1>4, InFlightOf
<1>6. /\ SettleUsers(userSchedules', writes[r] \ {w}) = SettleUsers(userSchedules, writes[r])
      /\ SettleTeams(teams', writes[r] \ {w}) = SettleTeams(teams, writes[r])
  BY <1>1, <1>2, LandsUsers, LandsTeams
<1> QED
  BY <1>5, <1>6, SettledIs

\* Nothing is lost as long as nothing fails.
LEMMA NothingLost ==
    ASSUME MaxFaults = 0, Inv, SerialInv, NEW r \in Workload
    PROVE  ~WriteFails(r) /\ ~WriteLost(r) /\ ~Crash
<1>1. faults = 0
  BY InvFacts
<1>2. writes[r] # {} => pc[r] = "handled"
  BY <1>1 DEF SerialInv, FreshWrites, UndisturbedWrites
<1> QED
  BY <1>1, <1>2 DEF WriteFails, WriteLost, Crash

LEMMA NextAtomic ==
    ASSUME MaxFaults = 0, Inv, SerialInv, [Next]_vars
    PROVE  \/ Atomic!AtomicNext
           \/ SettledUserSchedules' = SettledUserSchedules /\ SettledTeams' = SettledTeams
<1>1. ASSUME NEW r \in Workload, Receive(r)
      PROVE  userSchedules' = userSchedules /\ teams' = teams /\ writes' = writes
  BY <1>1 DEF Receive, Return, Await, store
<1>2. CASE Crash
  <2>1. faults = 0
    BY InvFacts
  <2> QED
    BY <1>2, <2>1 DEF Crash
<1>3. CASE Restart \/ UNCHANGED vars
  BY <1>3, SettledStill DEF Restart, vars
<1>4. ASSUME NEW r \in Workload, HandlerStep(r)
      PROVE  \/ Atomic!AtomicNext
             \/ SettledUserSchedules' = SettledUserSchedules /\ SettledTeams' = SettledTeams
  BY <1>4, HandlerStepAtomic, SettledStill
<1> QED
  BY <1>1, <1>2, <1>3, <1>4, SettledStill, WriteLandsAtomic, NothingLost DEF Next

(***************************************************************************)
(* One request at a time and without faults, the handlers and the updates  *)
(* they do not wait for implement AtomicSchedules, where a request is one  *)
(* step: the loops over the team's days, with an await in each round, come *)
(* to one evaluation of the helper, and the updates of one request, which  *)
(* MongoDB may execute in any order, to one assignment.                    *)
(***************************************************************************)
THEOREM SerialImplementsAtomic ==
    ASSUME MaxInFlight = 1, MaxFaults = 0
    PROVE  Spec => AtomicStep
<1>1. Inv /\ SerialInv /\ [Next]_vars => [Atomic!AtomicNext]_(Atomic!collections)
  BY NextAtomic DEF Atomic!collections
<1>2. Spec => [](Inv /\ SerialInv)
  BY SerialInvariant
<1> QED
  BY <1>1, <1>2, PTL DEF Spec, AtomicStep

-----------------------------------------------------------------------------
(***************************************************************************)
(* What AtomicSchedulesProofs proves of the abstract collections holds of  *)
(* the settled ones, and at rest these are the stored ones.                *)
(***************************************************************************)
Settled == INSTANCE AtomicSchedulesProofs WITH
               userSchedules <- SettledUserSchedules, teams <- SettledTeams

LEMMA AtomicKeepsSettled ==
    ASSUME Settled!AtomicInv,
           \/ Atomic!AtomicNext
           \/ SettledUserSchedules' = SettledUserSchedules /\ SettledTeams' = SettledTeams
    PROVE  Settled!AtomicInv'
<1>1. Atomic!AtomicNext => Settled!AtomicNext
  BY ZenonT(40) DEF Atomic!AtomicNext, Settled!AtomicNext, Atomic!PostSchedule, Settled!PostSchedule,
         Atomic!PostTeam, Settled!PostTeam, Atomic!PostMember, Settled!PostMember,
         Atomic!HasDay, Settled!HasDay, Atomic!FindDay, Settled!FindDay,
         Atomic!FirstWithDay, Settled!FirstWithDay, Atomic!ToSet, Settled!ToSet,
         Atomic!Members, Settled!Members, Atomic!Exists, Settled!Exists, Atomic!NoTeam,
         Settled!NoTeam, Atomic!DayEntry, Settled!DayEntry, Atomic!InitialTeamSchedule,
         Settled!InitialTeamSchedule, Atomic!OpenEntry, Settled!OpenEntry,
         Atomic!ScheduleWithMember, Settled!ScheduleWithMember, Atomic!NarrowByMember,
         Settled!NarrowByMember, Atomic!CloseWindow, Settled!CloseWindow,
         Atomic!ScheduleAfterOwnDay, Settled!ScheduleAfterOwnDay, Atomic!NarrowByOwnDay,
         Settled!NarrowByOwnDay, Atomic!WindowIsValid, Settled!WindowIsValid,
         Atomic!NeedsUpdate, Settled!NeedsUpdate
<1>2. SettledUserSchedules' = SettledUserSchedules /\ SettledTeams' = SettledTeams =>
         UNCHANGED Settled!collections
  BY DEF Settled!collections
<1>3. Settled!IsFiniteSet(TeamNames)
  BY TeamNamesFinite DEF IsFiniteSet, Settled!IsFiniteSet
<1>4. Settled!AtomicInv /\ [Settled!AtomicNext]_(Settled!collections) => Settled!AtomicInv'
  BY <1>3, TimesAreNumbers, NoUserIsNobody, Settled!AtomicNextInv
<1> QED
  BY <1>1, <1>2, <1>4, ZenonT(40)

\* With nothing in flight the settled collections are the stored ones.
LEMMA SettledAtRest ==
    ASSUME Inv, \A r \in Workload : writes[r] = {}
    PROVE  SettledUserSchedules = userSchedules /\ SettledTeams = teams
<1>1. InFlight = {}
  BY DEF InFlight
<1>2. SettleUsers(userSchedules, {}) = userSchedules /\ SettleTeams(teams, {}) = teams
  BY InvFacts, SettledNothing
<1> QED
  BY <1>1, <1>2, SettledIs

\* No team is shown, at first, a window that some member did not post.
NoFalseAvailabilityAtFirst ==
    \A db \in InitialDBs : \A n \in TeamNames : Sound(db.teams[n], db.userSchedules)

LEMMA InitSettled ==
    ASSUME NoFalseAvailabilityAtFirst, Init
    PROVE  Settled!AtomicInv
<1>1. Inv /\ \A r \in Workload : writes[r] = {}
  BY InitInv DEF Init
<1>2. SettledUserSchedules = userSchedules /\ SettledTeams = teams
  BY <1>1, SettledAtRest
<1>3. PICK db \in InitialDBs : userSchedules = db.userSchedules /\ teams = db.teams
  BY DEF Init
<1>4. LegalDB(userSchedules, teams)
  BY <1>3, InitialDBsAreLegal
<1>5. \A n \in TeamNames : \A k \in DOMAIN teams[n].schedule : Exact(teams[n].schedule[k])
  <2> SUFFICES ASSUME NEW n \in TeamNames, NEW k \in DOMAIN teams[n].schedule
               PROVE  Exact(teams[n].schedule[k])
    OBVIOUS
  <2>1. teams[n] # NoTeam
    BY DEF NoTeam
  <2> QED
    BY <1>4, <2>1 DEF LegalDB, LegalTeam, ExactEntries
<1>6. Settled!StoreTypeOK
  BY <1>2, <1>4 DEF LegalDB, Settled!StoreTypeOK, Settled!Team, Team,
     Settled!DayEntry, DayEntry, Settled!TeamEntry, TeamEntry
<1>7. Settled!PostedWindowsProper
  BY <1>2, <1>4 DEF LegalDB, Proper, Settled!PostedWindowsProper
<1>8. Settled!WindowExact
  BY <1>2, <1>5 DEF Settled!WindowExact, Settled!Exact, Exact
<1>9. Settled!NoFalseAvailability
  BY <1>2, <1>3 DEF NoFalseAvailabilityAtFirst, Sound, Settled!NoFalseAvailability,
     Settled!Shown, Settled!Members, Settled!ToSet, ToSet, Settled!Covers, Covers
<1> QED
  BY <1>6, <1>7, <1>8, <1>9 DEF Settled!AtomicInv

(***************************************************************************)
(* At rest no team is shown a window that some member did not post, if     *)
(* none was at first, when requests are handled one at a time and nothing  *)
(* fails.  The promise of AtomicSchedules carries over to the handlers     *)
(* because they implement it.                                              *)
(***************************************************************************)
THEOREM SerialNoFalseAvailability ==
    ASSUME MaxInFlight = 1, MaxFaults = 0, NoFalseAvailabilityAtFirst
    PROVE  Spec => []NoFalseAvailabilityAtRest
<1>1. Init => Settled!AtomicInv
  BY InitSettled
<1>2. Inv /\ SerialInv /\ Settled!AtomicInv /\ [Next]_vars => Settled!AtomicInv'
  BY NextAtomic, AtomicKeepsSettled
<1>3. Spec => [](Inv /\ SerialInv)
  BY SerialInvariant
<1>4. Inv /\ Settled!AtomicInv => NoFalseAvailabilityAtRest
  <2> SUFFICES ASSUME Inv, Settled!AtomicInv, Quiescent
               PROVE  NoFalseAvailability
    BY DEF NoFalseAvailabilityAtRest
  <2>1. SettledUserSchedules = userSchedules /\ SettledTeams = teams
    BY SettledAtRest DEF Quiescent
  <2>2. Settled!NoFalseAvailability
    BY DEF Settled!AtomicInv
  <2> QED
    BY <2>1, <2>2 DEF NoFalseAvailability, Shown, Members, ToSet, Covers,
       Settled!NoFalseAvailability, Settled!Shown, Settled!Members, Settled!ToSet,
       Settled!Covers
<1> QED
  BY <1>1, <1>2, <1>3, <1>4, PTL DEF Spec

-----------------------------------------------------------------------------
(***************************************************************************)
(* Requests that overlap, where a mix has none that disturb each other.    *)
(***************************************************************************)

\* The requests received so far are of one mix.
OfOneMix == Received # {} => \E mix \in Mixes : Received \subseteq mix

\* The updates of a request are sent when its handler returns.
SentAtReturn == \A r \in Workload : writes[r] # {} => pc[r] \in {"handled", "dead"}

MixInv == OfOneMix /\ SentAtReturn

\* A stretch of the handler of r: nothing of the other requests changes.
Moves(r) ==
    /\ \A q \in Workload \ {r} :
          pc'[q] = pc[q] /\ local'[q] = local[q] /\ writes'[q] = writes[q]
    /\ pc[r] = "waiting" \/ Begun(r)
    /\ pc'[r] # "waiting"
    /\ writes'[r] # {} => pc'[r] = "handled"
    /\ \A q \in Workload : answer'[q] = 201 => answer[q] = 201

\* Handlers stay where they are or die, and no update is sent.
Recedes ==
    \A q \in Workload :
        /\ writes'[q] \subseteq writes[q]
        /\ \/ pc'[q] = pc[q] /\ local'[q] = local[q]
           \/ pc[q] = "waiting" /\ pc'[q] = "waiting"
           \/ pc[q] # "waiting" /\ pc'[q] = "dead"

\* The update w of r is executed and taken out of those in flight.
Lands(r, w) ==
    /\ Execute(w)
    /\ writes' = [writes EXCEPT ![r] = @ \ {w}]
    /\ \A q \in Workload : answer'[q] = 201 =>
          answer[q] = 201 \/ (q = r /\ SuccessStatus(w) = 201)

NoNewAnswer == \A q \in Workload : answer'[q] = 201 => answer[q] = 201

LEMMA AwaitMoves ==
    ASSUME Inv, SentAtReturn, NEW r \in Workload, NEW stage, NEW l, Await(r, stage, l),
           pc[r] = "waiting" \/ Begun(r), stage # "waiting"
    PROVE  Moves(r) /\ pc'[r] = stage /\ local'[r] = l /\ writes'[r] = {}
<1>1. writes[r] = {}
  BY DEF SentAtReturn, Begun
<1> QED
  BY <1>1, InvFacts DEF Await, Moves

LEMMA ReturnMoves ==
    ASSUME Inv, SentAtReturn, NEW r \in Workload, NEW status, Return(r, status),
           pc[r] = "waiting" \/ Begun(r), status # 201
    PROVE  Moves(r) /\ pc'[r] = "handled" /\ writes'[r] = {}
<1>1. writes[r] = {}
  BY DEF SentAtReturn, Begun
<1> QED
  BY <1>1, InvFacts DEF Return, Moves

LEMMA SendMoves ==
    ASSUME Inv, NEW r \in Workload, NEW ws, Send(r, ws), Begun(r)
    PROVE  Moves(r) /\ pc'[r] = "handled" /\ writes'[r] = ws
BY InvFacts DEF Send, Moves

LEMMA DeathRecedes ==
    ASSUME Inv, Die, writes' = writes
    PROVE  Recedes
BY InvFacts DEF Die, Recedes

LEMMA ReceiveMoves ==
    ASSUME Inv, SentAtReturn, NEW r \in Workload, Receive(r)
    PROVE  /\ Moves(r) /\ userSchedules' = userSchedules /\ teams' = teams
           /\ writes'[r] = {} /\ pc'[r] \in {"handled", "findDay", "findName", "findTeam"}
           /\ \E mix \in Mixes : Received \cup {r} \subseteq mix
<1>1. pc[r] = "waiting" /\ userSchedules' = userSchedules /\ teams' = teams
  BY DEF Receive, At, store
<1>2. CASE Return(r, 401) \/ Return(r, 400)
  BY <1>1, <1>2, ReturnMoves DEF Receive
<1>3. CASE Await(r, FirstQuery[r.type], Blank)
  <2>1. FirstQuery[r.type] \in {"findDay", "findName", "findTeam"}
    BY RequestFields DEF FirstQuery
  <2> QED
    BY <1>1, <1>3, <2>1, AwaitMoves DEF Receive
<1> QED
  BY <1>2, <1>3 DEF Receive

LEMMA ScheduleFindDayMoves ==
    ASSUME Inv, SentAtReturn, NEW r \in Workload, ScheduleFindDay(r)
    PROVE  /\ Moves(r) /\ writes'[r] = {} /\ pc'[r] \in {"handled", "findSchedule"}
           /\ pc'[r] = "findSchedule" => ~HasDay(userSchedules[r.user], r.window.day)
<1>1. Begun(r)
  BY DEF ScheduleFindDay, At, Begun
<1>2. CASE Return(r, 409) \/ Return(r, 400)
  BY <1>1, <1>2, ReturnMoves
<1>3. CASE /\ Await(r, "findSchedule", Blank)
           /\ ~HasDay(userSchedules[r.user], r.window.day)
  BY <1>1, <1>3, AwaitMoves
<1> QED
  BY <1>2, <1>3 DEF ScheduleFindDay

LEMMA ScheduleFindScheduleMoves ==
    ASSUME Inv, SentAtReturn, NEW r \in Workload, ScheduleFindSchedule(r)
    PROVE  /\ Moves(r)
           /\ \/ /\ pc'[r] = "handled"
                 /\ writes'[r] = {[kind |-> "insertUser", user |-> r.user,
                                   schedule |-> <<r.window>>]}
              \/ /\ pc'[r] = "findTeams" /\ writes'[r] = {}
                 /\ local'[r].own = userSchedules[r.user] /\ userSchedules[r.user] # <<>>
<1>1. Begun(r)
  BY DEF ScheduleFindSchedule, At, Begun
<1>2. CASE userSchedules[r.user] = <<>>
  BY <1>1, <1>2, SendMoves DEF ScheduleFindSchedule
<1>3. CASE userSchedules[r.user] # <<>>
  <2> DEFINE l == [Blank EXCEPT !.own = userSchedules[r.user]]
  <2>1. Await(r, "findTeams", l) /\ l.own = userSchedules[r.user]
    BY <1>3 DEF ScheduleFindSchedule, Blank
  <2> HIDE DEF l
  <2> QED
    BY <1>1, <1>3, <2>1, AwaitMoves
<1> QED
  BY <1>2, <1>3

LEMMA ScheduleFindTeamsMoves ==
    ASSUME Inv, SentAtReturn, NEW r \in Workload, ScheduleFindTeams(r)
    PROVE  /\ Moves(r) /\ writes'[r] = {}
           /\ pc[r] = "findTeams" /\ pc'[r] = "teamsFound" /\ local'[r].own = local[r].own
<1> DEFINE l == [local[r] EXCEPT !.snapshot = TeamsOf(r.user)]
<1>1. /\ Begun(r) /\ pc[r] = "findTeams" /\ Await(r, "teamsFound", l)
      /\ l.own = local[r].own
  BY InvFacts DEF ScheduleFindTeams, At, Begun, Local
<1> HIDE DEF l
<1> QED
  BY <1>1, AwaitMoves

LEMMA ScheduleUpdateTeamsMoves ==
    ASSUME Inv, NEW r \in Workload, ScheduleUpdateTeams(r)
    PROVE  /\ Moves(r) /\ pc[r] = "teamsFound" /\ pc'[r] = "handled"
           /\ \A w \in writes'[r] :
                 \/ w.kind = "setTeamSchedule"
                 \/ w = [kind |-> "setUserSchedule", user |-> r.user,
                         schedule |-> Append(local[r].own, r.window)]
<1>1. Begun(r) /\ pc[r] = "teamsFound"
  BY DEF ScheduleUpdateTeams, At, Begun
<1>2. PICK ws :
         /\ Send(r, ws)
         /\ \A w \in ws : \/ w.kind = "setTeamSchedule"
                          \/ w = [kind |-> "setUserSchedule", user |-> r.user,
                                  schedule |-> Append(local[r].own, r.window)]
  BY DEF ScheduleUpdateTeams
<1> QED
  BY <1>1, <1>2, SendMoves
LEMMA TeamStepMoves ==
    ASSUME Inv, SentAtReturn, NEW r \in Workload, TeamStep(r)
    PROVE  Moves(r) /\ pc[r] \in TeamStages
<1>1. Begun(r) /\ pc[r] \in TeamStages
  BY DEF TeamStep, TeamFindName, TeamFindCreator, TeamSave, At, Begun, TeamStages
<1>2. CASE TeamFindName(r)
  <2>1. Return(r, 409) \/ Await(r, "findCreator", Blank)
    BY <1>2 DEF TeamFindName
  <2> QED
    BY <1>1, <2>1, ReturnMoves, AwaitMoves
<1>3. CASE TeamFindCreator(r)
  <2>1. \/ Return(r, 401)
        \/ Await(r, "creatorFound", [Blank EXCEPT !.own = userSchedules[r.user]])
    BY <1>3 DEF TeamFindCreator
  <2> QED
    BY <1>1, <2>1, ReturnMoves, AwaitMoves
<1>4. CASE TeamSave(r)
  <2>1. PICK ws : Send(r, ws)
    BY <1>4 DEF TeamSave
  <2> QED
    BY <1>1, <2>1, SendMoves
<1> QED
  BY <1>1, <1>2, <1>3, <1>4 DEF TeamStep

\* What a stretch of postMembersHandler remembers and sends.
MemberMoves(r) ==
    /\ Moves(r)
    /\ \/ pc'[r] = "handled" /\ writes'[r] = {}
       \/ /\ pc[r] = "findTeam" /\ writes'[r] = {}
          /\ local'[r].members = teams[r.team].members
       \/ /\ pc[r] \in InTeam /\ writes'[r] = {}
          /\ local'[r].members = local[r].members
       \/ /\ pc[r] \in InTeam /\ pc'[r] = "handled"
          /\ \A w \in writes'[r] :
                \/ w.kind = "setTeamSchedule"
                \/ w = [kind |-> "setMembers", team |-> r.team,
                        members |-> Append(local[r].members, r.added)]

LEMMA MemberLoopMoves ==
    ASSUME Inv, SentAtReturn, NEW r \in Workload, Begun(r), pc[r] \in InTeam,
           NEW index, NEW schedule, MemberLoop(r, index, schedule)
    PROVE  MemberMoves(r)
<1>1. CASE index < Len(schedule)
  <2> DEFINE l == [local[r] EXCEPT !.schedule = schedule, !.at = index + 1, !.found = <<>>]
  <2>1. Await(r, "findAddedDay", l) /\ l.members = local[r].members
    BY <1>1, InvFacts DEF MemberLoop, Local
  <2> HIDE DEF l
  <2> QED
    BY <2>1, AwaitMoves DEF MemberMoves
<1>2. CASE ~(index < Len(schedule))
  <2>1. PICK ws :
           /\ Send(r, ws)
           /\ \A w \in ws : \/ w.kind = "setTeamSchedule"
                            \/ w = [kind |-> "setMembers", team |-> r.team,
                                    members |-> Append(local[r].members, r.added)]
    BY <1>2 DEF MemberLoop
  <2> QED
    BY <2>1, SendMoves DEF MemberMoves
<1> QED
  BY <1>1, <1>2

LEMMA MemberStepMoves ==
    ASSUME Inv, SentAtReturn, NEW r \in Workload, MemberStep(r)
    PROVE  MemberMoves(r) \/ DieHandling
<1>1. Begun(r) /\ (pc[r] \in InTeam \/ pc[r] = "findTeam")
  BY DEF MemberStep, MemberFindTeam, MemberFindMember, MemberFindAdded,
         MemberFindTeamAgain, MemberStartLoop, MemberFindAddedDay, MemberUseAddedDay,
         At, Begun, InTeam
<1>2. CASE MemberFindTeam(r)
  <2> DEFINE l == [Blank EXCEPT !.members = teams[r.team].members]
  <2>1. /\ pc[r] = "findTeam" /\ l.members = teams[r.team].members
        /\ DieHandling \/ Return(r, 403) \/ Return(r, 404) \/ Await(r, "findMember", l)
    BY <1>2 DEF MemberFindTeam, At, Blank
  <2> HIDE DEF l
  <2> QED
    BY <1>1, <2>1, ReturnMoves, AwaitMoves DEF MemberMoves
<1>3. CASE MemberFindMember(r)
  <2>1. /\ pc[r] \in InTeam
        /\ Return(r, 409) \/ Await(r, "findAdded", local[r])
    BY <1>3 DEF MemberFindMember, At, InTeam
  <2> QED
    BY <1>1, <2>1, ReturnMoves, AwaitMoves DEF MemberMoves
<1>4. CASE MemberFindAdded(r)
  <2>1. /\ pc[r] \in InTeam
        /\ Return(r, 400) \/ Await(r, "findTeamAgain", local[r])
    BY <1>4 DEF MemberFindAdded, At, InTeam
  <2> QED
    BY <1>1, <2>1, ReturnMoves, AwaitMoves DEF MemberMoves
<1>5. CASE MemberFindTeamAgain(r)
  <2> DEFINE l == [local[r] EXCEPT !.schedule = teams[r.team].schedule]
  <2>1. pc[r] \in InTeam /\ l.members = local[r].members /\ Await(r, "teamFound", l)
    BY <1>5, InvFacts DEF MemberFindTeamAgain, At, InTeam, Local
  <2> HIDE DEF l
  <2> QED
    BY <1>1, <2>1, AwaitMoves DEF MemberMoves
<1>6. CASE MemberStartLoop(r)
  <2>1. pc[r] \in InTeam /\ MemberLoop(r, 0, local[r].schedule)
    BY <1>6 DEF MemberStartLoop, At, InTeam
  <2> QED
    BY <1>1, <2>1, MemberLoopMoves
<1>7. CASE MemberFindAddedDay(r)
  <2> DEFINE found == Looked(local[r].schedule[local[r].at], userSchedules[r.added])
             l     == [local[r] EXCEPT !.found = found]
  <2>1. pc[r] \in InTeam /\ Await(r, "addedDayFound", l)
    BY <1>7 DEF MemberFindAddedDay, At, InTeam, Looked
  <2>2. l.members = local[r].members
    BY InvFacts, LocalWith
  <2> HIDE DEF l
  <2> QED
    BY <1>1, <2>1, <2>2, AwaitMoves DEF MemberMoves
<1>8. CASE MemberUseAddedDay(r)
  <2>1. /\ pc[r] \in InTeam
        /\ DieHandling \/ \E index, schedule : MemberLoop(r, index, schedule)
    BY <1>8 DEF MemberUseAddedDay, At, InTeam
  <2> QED
    BY <1>1, <2>1, MemberLoopMoves
<1> QED
  BY <1>2, <1>3, <1>4, <1>5, <1>6, <1>7, <1>8 DEF MemberStep

\* A request is handled by the handler of its type.
LEMMA StepOfType ==
    ASSUME Inv, NEW r \in Workload, HandlerStep(r)
    PROVE  /\ r.type = "schedule" => ScheduleStep(r)
           /\ r.type = "member" => MemberStep(r)
<1>1. ScheduleStep(r) => pc[r] \in ScheduleStages
  BY DEF ScheduleStep, ScheduleFindDay, ScheduleFindSchedule, ScheduleFindTeams,
     ScheduleUpdateTeams, At, ScheduleStages
<1>2. TeamStep(r) => pc[r] \in TeamStages
  BY DEF TeamStep, TeamFindName, TeamFindCreator, TeamSave, At, TeamStages
<1>3. MemberStep(r) => pc[r] \in InTeam \cup {"findTeam"}
  BY DEF MemberStep, MemberFindTeam, MemberFindMember, MemberFindAdded,
     MemberFindTeamAgain, MemberStartLoop, MemberFindAddedDay, MemberUseAddedDay, At, InTeam
<1> QED
  BY <1>1, <1>2, <1>3, InvFacts DEF HandlerStep, GoodLocal, StageFits

LEMMA HandlerStepMoves ==
    ASSUME Inv, SentAtReturn, NEW r \in Workload, HandlerStep(r)
    PROVE  /\ userSchedules' = userSchedules /\ teams' = teams /\ Begun(r)
           /\ Moves(r) \/ (Recedes /\ NoNewAnswer)
<1>1. userSchedules' = userSchedules /\ teams' = teams /\ Begun(r)
  BY DEF HandlerStep, ScheduleStep, TeamStep, MemberStep, ScheduleFindDay,
     ScheduleFindSchedule, ScheduleFindTeams, ScheduleUpdateTeams, TeamFindName,
     TeamFindCreator, TeamSave, MemberFindTeam, MemberFindMember, MemberFindAdded,
     MemberFindTeamAgain, MemberStartLoop, MemberFindAddedDay, MemberUseAddedDay,
     store, At, Begun
<1>2. CASE ScheduleStep(r)
  BY <1>1, <1>2, ScheduleFindDayMoves, ScheduleFindScheduleMoves, ScheduleFindTeamsMoves,
     ScheduleUpdateTeamsMoves DEF ScheduleStep
<1>3. CASE TeamStep(r)
  BY <1>1, <1>3, TeamStepMoves
<1>4. CASE MemberStep(r)
  <2>1. DieHandling => Recedes /\ NoNewAnswer
    BY DeathRecedes DEF DieHandling, NoNewAnswer
  <2> QED
    BY <1>1, <1>4, <2>1, MemberStepMoves DEF MemberMoves
<1> QED
  BY <1>2, <1>3, <1>4 DEF HandlerStep

LEMMA CallbackRecedes ==
    ASSUME Inv, NEW r \in Workload, NEW status, Callback(r, status),
           \A q \in Workload : writes'[q] \subseteq writes[q]
    PROVE  /\ Recedes
           /\ \A q \in Workload : answer'[q] = 201 =>
                 answer[q] = 201 \/ (q = r /\ status = 201)
<1>2. CASE UNCHANGED <<pc, local>> /\ UNCHANGED answer
  BY <1>2 DEF Recedes
<1>3. CASE UNCHANGED <<pc, local>> /\ answer' = [answer EXCEPT ![r] = status]
  BY <1>3, InvFacts DEF Recedes
<1>4. CASE Die /\ UNCHANGED answer
  BY <1>4, InvFacts DEF Recedes, Die
<1> QED
  BY <1>2, <1>3, <1>4 DEF Callback, handlers

LEMMA WriteLandsForm ==
    ASSUME Inv, NEW r \in Workload, WriteLands(r)
    PROVE  Recedes /\ \E w \in writes[r] : Lands(r, w)
<1>1. PICK w \in writes[r] : /\ Execute(w)
                             /\ writes' = [writes EXCEPT ![r] = @ \ {w}]
                             /\ Callback(r, SuccessStatus(w))
  BY DEF WriteLands
<1> DEFINE status == SuccessStatus(w)
<1> HIDE DEF status
<1>2. Callback(r, status) /\ \A q \in Workload : writes'[q] \subseteq writes[q]
  BY <1>1, InvFacts DEF status
<1>3. /\ Recedes
      /\ \A q \in Workload : answer'[q] = 201 =>
            answer[q] = 201 \/ (q = r /\ status = 201)
  BY <1>2, CallbackRecedes
<1> QED
  BY <1>1, <1>3 DEF Lands, status

\* An update that fails is executed or not, and its request is not told of success.
LEMMA WriteFailsForm ==
    ASSUME Inv, NEW r \in Workload, WriteFails(r)
    PROVE  /\ Recedes /\ NoNewAnswer
           /\ \/ \E w \in writes[r] : Lands(r, w)
              \/ userSchedules' = userSchedules /\ teams' = teams
<1>1. PICK w \in writes[r] : /\ writes' = [writes EXCEPT ![r] = @ \ {w}]
                             /\ Callback(r, FailureStatus(w))
                             /\ Execute(w) \/ UNCHANGED store
  BY DEF WriteFails
<1> DEFINE status == FailureStatus(w)
<1>2. /\ Callback(r, status) /\ status # 201
      /\ \A q \in Workload : writes'[q] \subseteq writes[q]
  BY <1>1, InvFacts DEF FailureStatus
<1> HIDE DEF status
<1>3. Recedes /\ NoNewAnswer
  BY <1>2, CallbackRecedes DEF NoNewAnswer
<1>4. Execute(w) => Lands(r, w)
  BY <1>1, <1>3 DEF Lands, NoNewAnswer
<1> QED
  BY <1>1, <1>3, <1>4 DEF store

\* A step in which no update is executed and no request is handled.
LEMMA QuietForm ==
    ASSUME Inv, SentAtReturn,
           (\E r \in Workload : WriteLost(r)) \/ Crash \/ Restart \/ UNCHANGED vars
    PROVE  Recedes /\ NoNewAnswer /\ userSchedules' = userSchedules /\ teams' = teams
<1>1. ASSUME NEW r \in Workload, WriteLost(r)
      PROVE  Recedes /\ NoNewAnswer /\ userSchedules' = userSchedules /\ teams' = teams
  BY <1>1, InvFacts DEF WriteLost, Recedes, NoNewAnswer
<1>2. CASE Crash
  BY <1>2, DeathRecedes DEF Crash, NoNewAnswer
<1>3. CASE Restart \/ UNCHANGED vars
  BY <1>3 DEF Restart, vars, Recedes, NoNewAnswer
<1> QED
  BY <1>1, <1>2, <1>3

\* What any step does, to the requests and to the collections.
LEMMA StepForms ==
    ASSUME Inv, SentAtReturn, [Next]_vars
    PROVE  \/ \E r \in Workload : Recedes /\ \E w \in writes[r] : Lands(r, w)
           \/ /\ userSchedules' = userSchedules /\ teams' = teams
              /\ \/ Recedes /\ NoNewAnswer
                 \/ \E r \in Workload : Moves(r) /\ (Receive(r) \/ HandlerStep(r))
<1>1. ASSUME NEW r \in Workload, Receive(r)
      PROVE  Moves(r) /\ userSchedules' = userSchedules /\ teams' = teams
  BY <1>1, ReceiveMoves
<1> QED
  BY <1>1, HandlerStepMoves, WriteLandsForm, WriteFailsForm, QuietForm DEF Next

LEMMA MixStep ==
    ASSUME Inv, MixInv, [Next]_vars
    PROVE  MixInv'
<1> USE DEF MixInv
<1>1. CASE Recedes
  <2>1. Received' = Received
    BY <1>1 DEF Recedes, Received
  <2> QED
    BY <1>1, <2>1 DEF OfOneMix, SentAtReturn, Recedes
<1>2. ASSUME NEW r \in Workload, Moves(r), Receive(r) \/ HandlerStep(r)
      PROVE  MixInv'
  <2>1. SentAtReturn'
    BY <1>2 DEF SentAtReturn, Moves
  <2>2. Received' = Received \cup {r}
    BY <1>2 DEF Received, Moves
  <2>3. CASE Receive(r)
    BY <2>1, <2>2, <2>3, ReceiveMoves DEF OfOneMix
  <2>4. CASE HandlerStep(r)
    <3>1. r \in Received
      BY <2>4, HandlerStepMoves DEF Received, Begun
    <3>2. Received' = Received /\ Received # {}
      BY <2>2, <3>1
    <3> QED
      BY <2>1, <3>2 DEF OfOneMix
  <2> QED
    BY <1>2, <2>3, <2>4
<1> QED
  BY <1>1, <1>2, StepForms

LEMMA MixInvariant == Spec => [](Inv /\ MixInv)
<1>1. Init => MixInv
  BY DEF Init, MixInv, OfOneMix, SentAtReturn, Received
<1>2. Inv /\ MixInv /\ [Next]_vars => MixInv'
  BY MixStep
<1> QED
  BY <1>1, <1>2, ServiceInvariant, PTL DEF Spec
-----------------------------------------------------------------------------
(***************************************************************************)
(* Days of one user are not posted together, except two when the user has  *)
(* no document yet: then only one can find the document and append to it,  *)
(* as the other has made it.                                               *)
(***************************************************************************)
DaysApart ==
    \A mix \in Mixes : \A q, r \in mix :
        q.type = "schedule" /\ r.type = "schedule" /\ q.user = r.user /\ q # r =>
            /\ \A db \in InitialDBs : db.userSchedules[r.user] = <<>>
            /\ \A p \in mix : p.type = "schedule" /\ p.user = r.user => p \in {q, r}

\* The handler is about to append to the user's document, or has sent the update.
Appending(r) ==
    \/ pc[r] \in {"findTeams", "teamsFound"}
    \/ \E w \in writes[r] : w.kind = "setUserSchedule"

\* The update adds the posted day to what the user's document is.
AddsDay(r, w) ==
    /\ w.user = r.user
    /\ w.kind = "insertUser" => w.schedule = <<r.window>>
    /\ w.kind = "setUserSchedule" =>
          /\ userSchedules[r.user] # <<>>
          /\ w.schedule = Append(userSchedules[r.user], r.window)

FreshDocument(r) ==
    /\ pc[r] \in {"findTeams", "teamsFound"} =>
          local[r].own = userSchedules[r.user] /\ local[r].own # <<>>
    /\ \A w \in writes[r] : OfUser(w) => AddsDay(r, w)
    /\ \A v, w \in writes[r] : OfUser(v) /\ OfUser(w) => v = w

\* A document was there at first, or a request has made it that appends nothing.
DocumentMade ==
    \A u \in Users : userSchedules[u] # <<>> =>
        \/ \E db \in InitialDBs : db.userSchedules[u] # <<>>
        \/ \E r \in Workload : /\ r.type = "schedule" /\ r.user = u
                               /\ pc[r] \in {"handled", "dead"} /\ ~Appending(r)

DaysInv ==
    /\ \A r \in Workload : FreshDocument(r)
    /\ DocumentMade
    /\ AckedDayKept

LEMMA OneAppending ==
    ASSUME DaysApart, Inv, MixInv, DaysInv, NEW q \in Workload, NEW r \in Workload,
           Appending(q), Appending(r), q.user = r.user
    PROVE  q = r
<1> SUFFICES ASSUME q # r
             PROVE  FALSE
  OBVIOUS
<1>1. ASSUME NEW s \in Workload, Appending(s)
      PROVE  s \in Received /\ s.type = "schedule" /\ userSchedules[s.user] # <<>>
  <2>1. CASE pc[s] \in {"findTeams", "teamsFound"}
    BY <2>1, InvFacts DEF GoodLocal, StageFits, ScheduleStages, Received, DaysInv,
                          FreshDocument
  <2>2. CASE \E w \in writes[s] : w.kind = "setUserSchedule"
    <3>1. pc[s] \in {"handled", "dead"}
      BY <2>2 DEF MixInv, SentAtReturn
    <3> QED
      BY <2>2, <3>1, InvFacts DEF GoodWrite, Received, DaysInv, FreshDocument, AddsDay, OfUser
  <2> QED
    BY <1>1, <2>1, <2>2 DEF Appending
<1>2. PICK mix \in Mixes : Received \subseteq mix
  BY <1>1 DEF MixInv, OfOneMix
<1>3. /\ \A db \in InitialDBs : db.userSchedules[r.user] = <<>>
      /\ \A p \in mix : p.type = "schedule" /\ p.user = r.user => p \in {q, r}
  BY <1>1, <1>2 DEF DaysApart
<1>4. PICK p \in Workload : /\ p.type = "schedule" /\ p.user = r.user
                            /\ pc[p] \in {"handled", "dead"} /\ ~Appending(p)
  BY <1>1, <1>3, RequestFields DEF DaysInv, DocumentMade
<1>5. p \in mix
  BY <1>2, <1>4 DEF Received
<1> QED
  BY <1>3, <1>4, <1>5

LEMMA DaysRecede ==
    ASSUME DaysInv, Recedes, NoNewAnswer, userSchedules' = userSchedules
    PROVE  DaysInv'
<1>1. ASSUME NEW r \in Workload
      PROVE  FreshDocument(r)'
  BY DEF DaysInv, FreshDocument, AddsDay, OfUser, Recedes
<1>2. DocumentMade'
  <2> SUFFICES ASSUME NEW r \in Workload, pc[r] \in {"handled", "dead"}, ~Appending(r)
               PROVE  pc'[r] \in {"handled", "dead"} /\ ~Appending(r)'
    BY DEF DaysInv, DocumentMade
  <2> QED
    BY DEF Recedes, Appending
<1>3. AckedDayKept'
  BY DEF DaysInv, AckedDayKept, NoNewAnswer
<1> QED
  BY <1>1, <1>2, <1>3 DEF DaysInv

LEMMA DaysMove ==
    ASSUME Inv, DaysInv, NEW r \in Workload, Moves(r), userSchedules' = userSchedules,
           FreshDocument(r)'
    PROVE  DaysInv'
<1>1. ASSUME NEW q \in Workload
      PROVE  FreshDocument(q)'
  BY DEF DaysInv, FreshDocument, AddsDay, OfUser, Moves
<1>2. DocumentMade'
  <2> SUFFICES ASSUME NEW q \in Workload, pc[q] \in {"handled", "dead"}, ~Appending(q)
               PROVE  pc'[q] \in {"handled", "dead"} /\ ~Appending(q)'
    BY DEF DaysInv, DocumentMade
  <2>1. q # r
    BY DEF Moves, Begun
  <2> QED
    BY <2>1 DEF Moves, Appending
<1>3. AckedDayKept'
  BY DEF DaysInv, AckedDayKept, Moves
<1> QED
  BY <1>1, <1>2, <1>3 DEF DaysInv

LEMMA OthersFreshDocument ==
    ASSUME Inv', NEW r \in Workload, r.type # "schedule"
    PROVE  FreshDocument(r)'
<1>1. /\ GoodLocal(r, pc[r], local[r], userSchedules, teams)'
      /\ \A w \in writes'[r] : GoodWrite(r, w, userSchedules', teams')
  BY DEF Inv, GoodHandlers, GoodWrites
<1> QED
  BY <1>1 DEF FreshDocument, OfUser, GoodLocal, StageFits, ScheduleStages, GoodWrite

LEMMA ScheduleStepDays ==
    ASSUME Inv, MixInv, DaysInv, NEW r \in Workload, ScheduleStep(r),
           userSchedules' = userSchedules
    PROVE  Moves(r) /\ FreshDocument(r)'
<1>1. CASE ScheduleFindDay(r)
  BY <1>1, ScheduleFindDayMoves DEF MixInv, FreshDocument
<1>2. CASE ScheduleFindSchedule(r)
  <2>1. CASE /\ pc'[r] = "handled"
             /\ writes'[r] = {[kind |-> "insertUser", user |-> r.user,
                               schedule |-> <<r.window>>]}
    BY <1>2, <2>1, ScheduleFindScheduleMoves DEF MixInv, FreshDocument, AddsDay
  <2>2. CASE /\ writes'[r] = {} /\ userSchedules[r.user] # <<>>
             /\ local'[r].own = userSchedules[r.user]
    BY <1>2, <2>2, ScheduleFindScheduleMoves DEF MixInv, FreshDocument
  <2> QED
    BY <1>2, <2>1, <2>2, ScheduleFindScheduleMoves DEF MixInv
<1>3. CASE ScheduleFindTeams(r)
  BY <1>3, ScheduleFindTeamsMoves DEF MixInv, DaysInv, FreshDocument
<1>4. CASE ScheduleUpdateTeams(r)
  <2> DEFINE own == local[r].own
             set == [kind |-> "setUserSchedule", user |-> r.user,
                     schedule |-> Append(own, r.window)]
  <2>1. /\ Moves(r) /\ pc[r] = "teamsFound" /\ pc'[r] = "handled"
        /\ \A w \in writes'[r] : w.kind = "setTeamSchedule" \/ w = set
    BY <1>4, ScheduleUpdateTeamsMoves
  <2>2. own = userSchedules[r.user] /\ own # <<>>
    BY <2>1 DEF DaysInv, FreshDocument
  <2>3. set.kind = "setUserSchedule" /\ set.user = r.user /\ set.schedule = Append(own, r.window)
    OBVIOUS
  <2> HIDE DEF own, set
  <2>4. \A w \in writes'[r] : OfUser(w) => w = set
    BY <2>1 DEF OfUser
  <2>5. ASSUME NEW w \in writes'[r], OfUser(w)
        PROVE  AddsDay(r, w)'
    BY <2>2, <2>3, <2>4, <2>5 DEF AddsDay
  <2>6. \A v, w \in writes'[r] : OfUser(v) /\ OfUser(w) => v = w
    BY <2>4
  <2> QED
    BY <2>1, <2>5, <2>6 DEF FreshDocument, OfUser
<1> QED
  BY <1>1, <1>2, <1>3, <1>4 DEF ScheduleStep

LEMMA DaysHandled ==
    ASSUME Inv, Inv', MixInv, DaysInv, userSchedules' = userSchedules,
           NEW r \in Workload, Moves(r), Receive(r) \/ HandlerStep(r)
    PROVE  DaysInv'
<1>1. CASE r.type # "schedule"
  BY <1>1, OthersFreshDocument, DaysMove
<1>2. CASE Receive(r)
  BY <1>2, ReceiveMoves, DaysMove DEF MixInv, FreshDocument
<1>3. CASE ScheduleStep(r)
  BY <1>3, ScheduleStepDays, DaysMove
<1> QED
  BY <1>1, <1>2, <1>3, StepOfType
\* What the execution of an update makes of the documents.
LEMMA LandsDocument ==
    ASSUME Inv, DaysInv, NEW r \in Workload, NEW w \in writes[r], Execute(w),
           OfUser(w), ~Duplicate(w)
    PROVE  /\ r.type = "schedule" /\ r.user \in Users /\ r.window \in DayEntry(Days, Times)
           /\ userSchedules[r.user] \in Seq(DayEntry(Days, Times))
           /\ userSchedules'[r.user] = Append(userSchedules[r.user], r.window)
           /\ \A u \in Users \ {r.user} : userSchedules'[u] = userSchedules[u]
<1>1. /\ w \in Write /\ AddsDay(r, w) /\ r.type = "schedule"
      /\ userSchedules \in [Users -> Seq(DayEntry(Days, Times))]
  BY InvFacts DEF DaysInv, FreshDocument, GoodWrite, OfUser
<1>2. r.user \in Users /\ r.window \in DayEntry(Days, Times)
  BY <1>1, RequestFields
<1>3. w.schedule = Append(userSchedules[r.user], r.window)
  <2>1. Append(<<>>, r.window) = <<r.window>>
    OBVIOUS
  <2>2. w.kind = "insertUser" => userSchedules[r.user] = <<>> /\ w.schedule = <<r.window>>
    BY <1>1 DEF AddsDay, Duplicate
  <2>3. w.kind = "setUserSchedule" => w.schedule = Append(userSchedules[r.user], r.window)
    BY <1>1 DEF AddsDay
  <2> QED
    BY <2>1, <2>2, <2>3 DEF OfUser
<1>4. /\ userSchedules'[r.user] = w.schedule
      /\ \A u \in Users \ {r.user} : userSchedules'[u] = userSchedules[u]
  BY <1>1, <1>2 DEF Execute, OfUser, AddsDay
<1> QED
  BY <1>1, <1>2, <1>3, <1>4

LEMMA DaysLand ==
    ASSUME DaysApart, Inv, Inv', MixInv, DaysInv, NEW r \in Workload, NEW w \in writes[r],
           Lands(r, w), Recedes
    PROVE  DaysInv'
<1>1. /\ w \in Write /\ GoodWrite(r, w, userSchedules, teams)
      /\ userSchedules \in [Users -> Seq(DayEntry(Days, Times))]
      /\ pc[r] \in {"handled", "dead"} /\ pc'[r] \in {"handled", "dead"}
      /\ r.user \in Users
  BY InvFacts, RequestFields DEF MixInv, SentAtReturn, Recedes
<1>2. /\ writes'[r] = writes[r] \ {w} /\ \A q \in Workload \ {r} : writes'[q] = writes[q]
      /\ \A q \in Workload : writes'[q] \subseteq writes[q]
  BY InvFacts DEF Lands
<1>3. OfUser(w) => r.type = "schedule" /\ AddsDay(r, w)
  BY <1>1 DEF DaysInv, FreshDocument, OfUser, GoodWrite
<1>4. ASSUME NEW q \in Workload, q.type = "schedule", answer'[q] = 201, answer[q] # 201
      PROVE  q = r /\ OfUser(w) /\ ~Duplicate(w)
  <2>1. q = r /\ SuccessStatus(w) = 201
    BY <1>4 DEF Lands
  <2> QED
    BY <1>1, <1>4, <2>1 DEF SuccessStatus, GoodWrite, Write, OfUser
<1>5. CASE ~OfUser(w) \/ Duplicate(w)
  <2>1. userSchedules' = userSchedules
    BY <1>5 DEF Lands, Execute, OfUser
  <2>2. AckedDayKept'
    BY <1>4, <1>5, <2>1 DEF DaysInv, AckedDayKept
  <2>3. \A q \in Workload : FreshDocument(q)'
    BY <2>1 DEF DaysInv, FreshDocument, AddsDay, OfUser, Recedes
  <2>4. DocumentMade'
    BY <1>2, <2>1 DEF DaysInv, DocumentMade, Recedes, Appending
  <2> QED
    BY <2>2, <2>3, <2>4 DEF DaysInv
<1>6. CASE OfUser(w) /\ ~Duplicate(w)
  <2> DEFINE u == r.user
  <2>1. /\ u \in Users /\ r.window \in DayEntry(Days, Times)
        /\ userSchedules[u] \in Seq(DayEntry(Days, Times))
        /\ userSchedules'[u] = Append(userSchedules[u], r.window)
        /\ \A v \in Users \ {u} : userSchedules'[v] = userSchedules[v]
    BY <1>6, LandsDocument DEF Lands
  <2>2. ToSet(userSchedules'[u]) = ToSet(userSchedules[u]) \cup {r.window}
    BY <2>1, AppendedMembers
  <2>3. AckedDayKept'
    <3> SUFFICES ASSUME NEW q \in Workload, q.type = "schedule", answer'[q] = 201
                 PROVE  q.window \in ToSet(userSchedules'[q.user])
      BY DEF AckedDayKept
    <3>1. CASE answer[q] = 201
      <4>1. q.window \in ToSet(userSchedules[q.user]) /\ q.user \in Users
        BY <3>1, RequestFields DEF DaysInv, AckedDayKept
      <4> QED
        BY <2>1, <2>2, <4>1
    <3>2. CASE answer[q] # 201
      BY <1>4, <2>2, <3>2
    <3> QED
      BY <3>1, <3>2
  <2>4. \A v \in writes'[r] : ~OfUser(v)
    BY <1>2, <1>6 DEF DaysInv, FreshDocument
  <2>5. DocumentMade'
    <3>1. ~Appending(r)'
      BY <1>1, <2>4 DEF Appending, OfUser
    <3>2. ASSUME NEW p \in Workload, pc[p] \in {"handled", "dead"}, ~Appending(p)
          PROVE  pc'[p] \in {"handled", "dead"} /\ ~Appending(p)'
      BY <1>2, <3>2 DEF Appending, Recedes
    <3> QED
      BY <1>1, <1>3, <1>6, <2>1, <3>1, <3>2 DEF DaysInv, DocumentMade
  <2>6. ASSUME NEW q \in Workload, Appending(q), q.user = u
        PROVE  q = r
    <3>1. userSchedules[u] # <<>>
      <4>1. CASE pc[q] \in {"findTeams", "teamsFound"}
        BY <2>6, <4>1 DEF DaysInv, FreshDocument
      <4>2. CASE \E v \in writes[q] : v.kind = "setUserSchedule"
        BY <2>6, <4>2 DEF DaysInv, FreshDocument, AddsDay, OfUser
      <4> QED
        BY <2>6, <4>1, <4>2 DEF Appending
    <3>2. w.kind = "setUserSchedule"
      BY <1>3, <1>6, <3>1 DEF OfUser, Duplicate, AddsDay
    <3> QED
      BY <2>6, <3>2, OneAppending DEF Appending
  <2>7. ASSUME NEW q \in Workload
        PROVE  FreshDocument(q)'
    <3>1. CASE q = r
      BY <1>1, <2>4, <3>1 DEF FreshDocument, OfUser
    <3>2. CASE q # r
      <4>1. writes'[q] = writes[q] /\ FreshDocument(q) /\ q.user \in Users
        BY <1>2, <3>2, RequestFields DEF DaysInv
      <4>2. Appending(q) => userSchedules'[q.user] = userSchedules[q.user]
        BY <2>1, <2>6, <3>2, <4>1
      <4>3. pc'[q] \in {"findTeams", "teamsFound"} => pc'[q] = pc[q] /\ local'[q] = local[q]
        BY DEF Recedes
      <4>4. ASSUME NEW v \in writes'[q], OfUser(v)
            PROVE  AddsDay(q, v)'
        BY <4>1, <4>2, <4>4 DEF AddsDay, FreshDocument, Appending
      <4> QED
        BY <4>1, <4>2, <4>3, <4>4 DEF FreshDocument, Appending, OfUser
    <3> QED
      BY <3>1, <3>2
  <2> QED
    BY <2>3, <2>5, <2>7 DEF DaysInv
<1> QED
  BY <1>5, <1>6

LEMMA DaysInvariant == DaysApart => (Spec => []DaysInv)
<1> SUFFICES ASSUME DaysApart
             PROVE  Spec => []DaysInv
  OBVIOUS
<1>1. Init => DaysInv
  <2> SUFFICES ASSUME Init
               PROVE  DaysInv
    OBVIOUS
  <2>1. \A r \in Workload : pc[r] = "waiting" /\ writes[r] = {} /\ answer[r] = 0
    BY DEF Init
  <2>2. DocumentMade
    BY DEF Init, DocumentMade
  <2> QED
    BY <2>1, <2>2 DEF DaysInv, FreshDocument, AckedDayKept
<1>2. Inv /\ Inv' /\ MixInv /\ DaysInv /\ [Next]_vars => DaysInv'
  BY StepForms, DaysLand, DaysRecede, DaysHandled DEF MixInv
<1> QED
  BY <1>1, <1>2, MixInvariant, PTL DEF Spec

(***************************************************************************)
(* A day whose posting was answered with 201 stays in the user's document, *)
(* however the requests overlap and whatever fails, unless days of that    *)
(* user are posted together: the updates in flight replace the list that   *)
(* postUserScheduleHandler read before.                                    *)
(***************************************************************************)
THEOREM OverlapAckedDayKept == DaysApart => (Spec => []AckedDayKept)
<1>1. DaysInv => AckedDayKept
  BY DEF DaysInv
<1> QED
  BY <1>1, DaysInvariant, PTL
-----------------------------------------------------------------------------
(***************************************************************************)
(* No two members are added to one team together.                          *)
(***************************************************************************)
AdditionsApart ==
    \A mix \in Mixes : \A q, r \in mix :
        q.type = "member" /\ r.type = "member" /\ q.team = r.team => q = r

\* The list the handler read first is the team's, and so is the one it extends.
FreshMembers(r) ==
    /\ pc[r] \in InTeam => local[r].members = teams[r.team].members
    /\ \A w \in writes[r] : w.kind = "setMembers" =>
          w.team = r.team /\ w.members = Append(teams[r.team].members, r.added)
    /\ \A v, w \in writes[r] : v.kind = "setMembers" /\ w.kind = "setMembers" => v = w

AdditionsInv ==
    /\ \A r \in Workload : FreshMembers(r)
    /\ AckedMemberIn

LEMMA OneAddition ==
    ASSUME AdditionsApart, MixInv, NEW q \in Workload, NEW r \in Workload,
           pc[q] # "waiting", pc[r] # "waiting",
           q.type = "member", r.type = "member", q.team = r.team
    PROVE  q = r
<1>1. q \in Received /\ r \in Received
  BY DEF Received
<1> QED
  BY <1>1 DEF MixInv, OfOneMix, AdditionsApart

LEMMA AdditionsRecede ==
    ASSUME AdditionsInv, Recedes, NoNewAnswer, teams' = teams
    PROVE  AdditionsInv'
<1>1. ASSUME NEW r \in Workload
      PROVE  FreshMembers(r)'
  BY DEF AdditionsInv, FreshMembers, Recedes, InTeam
<1>2. AckedMemberIn'
  BY DEF AdditionsInv, AckedMemberIn, Members, NoNewAnswer
<1> QED
  BY <1>1, <1>2 DEF AdditionsInv

LEMMA AdditionsMove ==
    ASSUME AdditionsInv, NEW r \in Workload, Moves(r), teams' = teams, FreshMembers(r)'
    PROVE  AdditionsInv'
<1>1. ASSUME NEW q \in Workload
      PROVE  FreshMembers(q)'
  BY DEF AdditionsInv, FreshMembers, Moves
<1>2. AckedMemberIn'
  BY DEF AdditionsInv, AckedMemberIn, Members, Moves
<1> QED
  BY <1>1, <1>2 DEF AdditionsInv

LEMMA OthersFreshMembers ==
    ASSUME Inv', NEW r \in Workload, r.type # "member"
    PROVE  FreshMembers(r)'
<1>1. /\ GoodLocal(r, pc[r], local[r], userSchedules, teams)'
      /\ \A w \in writes'[r] : GoodWrite(r, w, userSchedules', teams')
  BY DEF Inv, GoodHandlers, GoodWrites
<1> QED
  BY <1>1 DEF FreshMembers, GoodLocal, StageFits, GoodWrite

LEMMA MemberStepAdditions ==
    ASSUME AdditionsInv, NEW r \in Workload, MemberMoves(r), teams' = teams
    PROVE  FreshMembers(r)'
<1>1. CASE pc'[r] = "handled" /\ writes'[r] = {}
  BY <1>1 DEF FreshMembers, InTeam
<1>2. CASE writes'[r] = {} /\ local'[r].members = teams[r.team].members
  BY <1>2 DEF FreshMembers
<1>3. CASE pc[r] \in InTeam /\ writes'[r] = {} /\ local'[r].members = local[r].members
  BY <1>3 DEF AdditionsInv, FreshMembers
<1>4. CASE /\ pc[r] \in InTeam /\ pc'[r] = "handled"
           /\ \A w \in writes'[r] :
                 \/ w.kind = "setTeamSchedule"
                 \/ w = [kind |-> "setMembers", team |-> r.team,
                         members |-> Append(local[r].members, r.added)]
  <2>1. local[r].members = teams[r.team].members
    BY <1>4 DEF AdditionsInv, FreshMembers
  <2> QED
    BY <1>4, <2>1 DEF FreshMembers, InTeam
<1> QED
  BY <1>1, <1>2, <1>3, <1>4 DEF MemberMoves

LEMMA AdditionsHandled ==
    ASSUME Inv, Inv', MixInv, AdditionsInv, teams' = teams,
           NEW r \in Workload, Moves(r), Receive(r) \/ HandlerStep(r)
    PROVE  AdditionsInv'
<1>1. CASE r.type # "member"
  BY <1>1, OthersFreshMembers, AdditionsMove
<1>2. CASE Receive(r)
  BY <1>2, ReceiveMoves, AdditionsMove DEF MixInv, FreshMembers, InTeam
<1>3. CASE MemberStep(r) /\ MemberMoves(r)
  BY <1>3, MemberStepAdditions, AdditionsMove
<1>4. CASE MemberStep(r) /\ DieHandling
  <2>1. Recedes /\ NoNewAnswer
    BY <1>4, DeathRecedes DEF DieHandling, NoNewAnswer
  <2> QED
    BY <2>1, AdditionsRecede
<1> QED
  BY <1>1, <1>2, <1>3, <1>4, StepOfType, MemberStepMoves DEF MixInv

LEMMA AdditionsLand ==
    ASSUME AdditionsApart, Inv, MixInv, AdditionsInv, NEW r \in Workload, NEW w \in writes[r],
           Lands(r, w), Recedes
    PROVE  AdditionsInv'
<1>1. /\ w \in Write /\ GoodWrite(r, w, userSchedules, teams)
      /\ teams \in [TeamNames -> Team]
      /\ pc[r] \in {"handled", "dead"} /\ pc'[r] \in {"handled", "dead"}
  BY InvFacts DEF MixInv, SentAtReturn, Recedes
<1>2. /\ writes'[r] = writes[r] \ {w} /\ \A q \in Workload \ {r} : writes'[q] = writes[q]
      /\ \A q \in Workload : writes'[q] \subseteq writes[q]
  BY InvFacts DEF Lands
<1>3. ASSUME NEW q \in Workload, q.type = "member", answer'[q] = 201, answer[q] # 201
      PROVE  q = r /\ w.kind = "setMembers"
  <2>1. q = r /\ SuccessStatus(w) = 201
    BY <1>3 DEF Lands
  <2> QED
    BY <1>1, <1>3, <2>1 DEF SuccessStatus, GoodWrite, Write
<1>4. ASSUME NEW q \in Workload, q.type = "member",
             pc[q] \in InTeam \/ \E v \in writes[q] : v.kind = "setMembers"
      PROVE  pc[q] # "waiting" /\ q.team \in TeamNames /\ teams[q.team] # NoTeam
  <2>1. CASE pc[q] \in InTeam
    BY <2>1, InvFacts DEF GoodLocal, GoodMembers, InTeam
  <2>2. CASE \E v \in writes[q] : v.kind = "setMembers"
    <3>1. PICK v \in writes[q] : v.kind = "setMembers"
      BY <2>2
    <3>2. v \in Write /\ GoodWrite(q, v, userSchedules, teams)
      BY InvFacts
    <3>3. v.team \in TeamNames /\ teams[v.team] # NoTeam
      BY <3>1, <3>2 DEF GoodWrite, GoodMembers, Write
    <3>4. v.team = q.team
      BY <3>1 DEF AdditionsInv, FreshMembers
    <3>5. pc[q] # "waiting"
      BY <3>1 DEF MixInv, SentAtReturn
    <3> QED
      BY <3>3, <3>4, <3>5
  <2> QED
    BY <1>4, <2>1, <2>2
<1>5. CASE w.kind # "setMembers"
  <2>1. ASSUME NEW n \in TeamNames, teams[n] # NoTeam
        PROVE  teams'[n].members = teams[n].members
    <3>1. w.kind = "insertTeam" /\ ~Duplicate(w) => w.team # n
      BY <2>1 DEF Duplicate, Exists
    <3>2. CASE w.kind = "insertTeam" /\ ~Duplicate(w)
      BY <1>1, <3>1, <3>2 DEF Lands, Execute
    <3>3. CASE w.kind = "setTeamSchedule"
      BY <1>1, <3>3 DEF Lands, Execute, Team
    <3>4. CASE w.kind # "setTeamSchedule" /\ ~(w.kind = "insertTeam" /\ ~Duplicate(w))
      BY <1>1, <1>5, <3>4 DEF Lands, Execute
    <3> QED
      BY <3>2, <3>3, <3>4
  <2>2. AckedMemberIn'
    <3> SUFFICES ASSUME NEW q \in Workload, q.type = "member", answer'[q] = 201
                 PROVE  q.team \in TeamNames /\ q.added \in ToSet(teams'[q.team].members)
      BY DEF AckedMemberIn, Members
    <3>1. q.team \in TeamNames /\ q.added \in ToSet(teams[q.team].members)
      BY <1>3, <1>5 DEF AdditionsInv, AckedMemberIn, Members
    <3>2. teams[q.team] # NoTeam
      BY <3>1 DEF NoTeam, ToSet
    <3> QED
      BY <2>1, <3>1, <3>2
  <2>3. ASSUME NEW q \in Workload
        PROVE  FreshMembers(q)'
    <3>1. /\ FreshMembers(q) /\ writes'[q] \subseteq writes[q]
          /\ pc'[q] \in InTeam => pc'[q] = pc[q] /\ local'[q] = local[q]
      BY <1>2 DEF AdditionsInv, Recedes, InTeam
    <3>2. /\ pc[q] \in InTeam => q.type = "member"
          /\ (\E v \in writes[q] : v.kind = "setMembers") => q.type = "member"
      BY InvFacts DEF GoodLocal, StageFits, GoodWrite
    <3>3. (pc[q] \in InTeam \/ \E v \in writes[q] : v.kind = "setMembers")
             => teams'[q.team].members = teams[q.team].members
      BY <1>4, <2>1, <3>2
    <3> QED
      BY <3>1, <3>3 DEF FreshMembers
  <2> QED
    BY <2>2, <2>3 DEF AdditionsInv
<1>6. CASE w.kind = "setMembers"
  <2> DEFINE n == r.team
  <2>1. /\ r.type = "member" /\ n \in TeamNames /\ r.added \in Users
        /\ teams[n].members \in Seq(Users)
        /\ w.team = n /\ w.members = Append(teams[n].members, r.added)
    BY <1>1, <1>6, RequestFields DEF AdditionsInv, FreshMembers, GoodWrite, Write, Team
  <2>2. ToSet(w.members) = ToSet(teams[n].members) \cup {r.added}
    BY <2>1, AppendedMembers
  <2>3. /\ teams'[n].members = w.members
        /\ \A m \in TeamNames \ {n} : teams'[m] = teams[m]
    BY <1>1, <1>6, <2>1 DEF Lands, Execute, Team
  <2>4. AckedMemberIn'
    <3> SUFFICES ASSUME NEW q \in Workload, q.type = "member", answer'[q] = 201
                 PROVE  q.team \in TeamNames /\ q.added \in ToSet(teams'[q.team].members)
      BY DEF AckedMemberIn, Members
    <3>1. CASE answer[q] = 201
      BY <2>2, <2>3, <3>1 DEF AdditionsInv, AckedMemberIn, Members
    <3>2. CASE answer[q] # 201
      <4>1. q = r
        BY <1>3, <3>2
      <4> QED
        BY <2>1, <2>2, <2>3, <4>1
    <3> QED
      BY <3>1, <3>2
  <2>5. ASSUME NEW q \in Workload
        PROVE  FreshMembers(q)'
    <3>1. /\ FreshMembers(q) /\ writes'[q] \subseteq writes[q]
          /\ pc'[q] \in InTeam => pc'[q] = pc[q] /\ local'[q] = local[q]
      BY <1>2 DEF AdditionsInv, Recedes, InTeam
    <3>2. CASE q = r
      <4>1. pc'[q] \notin InTeam /\ \A v \in writes'[q] : v.kind # "setMembers"
        BY <1>1, <1>2, <1>6, <3>1, <3>2 DEF FreshMembers, InTeam
      <4> QED
        BY <4>1 DEF FreshMembers
    <3>3. CASE q # r
      <4>1. /\ pc[q] \in InTeam => q.type = "member"
            /\ (\E v \in writes[q] : v.kind = "setMembers") => q.type = "member"
        BY InvFacts DEF GoodLocal, StageFits, GoodWrite
      <4>2. ASSUME pc[q] \in InTeam \/ \E v \in writes[q] : v.kind = "setMembers"
            PROVE  teams'[q.team] = teams[q.team]
        <5>1. q.type = "member" /\ pc[q] # "waiting" /\ q.team \in TeamNames
          BY <1>4, <4>1, <4>2
        <5>2. q.team # n
          BY <1>1, <2>1, <3>3, <5>1, OneAddition
        <5> QED
          BY <2>3, <5>1, <5>2
      <4> QED
        BY <3>1, <4>2 DEF FreshMembers
    <3> QED
      BY <3>2, <3>3
  <2> QED
    BY <2>4, <2>5 DEF AdditionsInv
<1> QED
  BY <1>5, <1>6

(***************************************************************************)
(* A member whose addition was answered with 201 stays in the team,        *)
(* however the requests overlap and whatever fails, unless members are     *)
(* added to that team together: postMembersHandler writes back the list it *)
(* read first.  Additions to other teams, postings by the members and      *)
(* creations of teams may come in between, and the loop over the global i  *)
(* may go astray.                                                          *)
(***************************************************************************)
THEOREM OverlapAckedMemberKept == AdditionsApart => (Spec => []AckedMemberKept)
<1> SUFFICES ASSUME AdditionsApart
             PROVE  Spec => []AckedMemberKept
  OBVIOUS
<1>1. Init => AdditionsInv
  BY DEF Init, AdditionsInv, FreshMembers, AckedMemberIn, InTeam
<1>2. Inv /\ Inv' /\ MixInv /\ AdditionsInv /\ [Next]_vars => AdditionsInv'
  BY StepForms, AdditionsLand, AdditionsRecede, AdditionsHandled DEF MixInv
<1>3. AdditionsInv => AckedMemberKept
  BY DEF AdditionsInv, AckedMemberIn, AckedMemberKept
<1> QED
  BY <1>1, <1>2, <1>3, MixInvariant, PTL DEF Spec
-----------------------------------------------------------------------------
(***************************************************************************)
(* No two days of one user are posted together.  A handler that has found  *)
(* a day missing then posts it while it still is.                          *)
(***************************************************************************)
DaysAlone ==
    \A mix \in Mixes : \A q, r \in mix :
        q.type = "schedule" /\ r.type = "schedule" /\ q.user = r.user => q = r

\* The handler has found the day missing, or has sent the update that adds it.
Posting(r) ==
    \/ pc[r] \in {"findSchedule", "findTeams", "teamsFound"}
    \/ \E w \in writes[r] : OfUser(w)

StillMissing(r) == Posting(r) => ~HasDay(userSchedules[r.user], r.window.day)

WindowsInv ==
    /\ \A r \in Workload : StillMissing(r)
    /\ OneWindowPerDay

LEMMA OnePosting ==
    ASSUME DaysAlone, Inv, MixInv, NEW q \in Workload, NEW r \in Workload,
           Posting(q), Posting(r), q.user = r.user
    PROVE  q = r
<1>1. ASSUME NEW s \in Workload, Posting(s)
      PROVE  s \in Received /\ s.type = "schedule"
  <2>1. CASE pc[s] \in {"findSchedule", "findTeams", "teamsFound"}
    BY <2>1, InvFacts DEF GoodLocal, StageFits, ScheduleStages, Received
  <2>2. CASE \E w \in writes[s] : OfUser(w)
    BY <2>2, InvFacts DEF MixInv, SentAtReturn, GoodWrite, Received, OfUser
  <2> QED
    BY <1>1, <2>1, <2>2 DEF Posting
<1> QED
  BY <1>1 DEF MixInv, OfOneMix, DaysAlone

LEMMA WindowsRecede ==
    ASSUME WindowsInv, Recedes, userSchedules' = userSchedules
    PROVE  WindowsInv'
<1>1. ASSUME NEW r \in Workload
      PROVE  Posting(r)' => Posting(r)
  BY DEF Posting, Recedes, OfUser
<1> QED
  BY <1>1 DEF WindowsInv, StillMissing, OneWindowPerDay

LEMMA WindowsHandled ==
    ASSUME Inv, Inv', MixInv, WindowsInv, userSchedules' = userSchedules,
           NEW r \in Workload, Moves(r), Receive(r) \/ HandlerStep(r)
    PROVE  WindowsInv'
<1>1. ASSUME NEW q \in Workload, q # r
      PROVE  StillMissing(q)'
  BY <1>1 DEF WindowsInv, StillMissing, Posting, Moves
<1>2. StillMissing(r)'
  <2>1. CASE r.type # "schedule"
    <3>1. /\ GoodLocal(r, pc[r], local[r], userSchedules, teams)'
          /\ \A w \in writes'[r] : GoodWrite(r, w, userSchedules', teams')
      BY DEF Inv, GoodHandlers, GoodWrites
    <3>2. ~Posting(r)'
      BY <2>1, <3>1 DEF Posting, OfUser, GoodLocal, StageFits, ScheduleStages, GoodWrite
    <3> QED
      BY <3>2 DEF StillMissing
  <2>2. CASE Receive(r)
    BY <2>2, ReceiveMoves DEF MixInv, StillMissing, Posting
  <2>3. CASE ScheduleFindDay(r)
    BY <2>3, ScheduleFindDayMoves DEF MixInv, StillMissing, Posting
  <2>4. CASE ScheduleFindSchedule(r) \/ ScheduleFindTeams(r) \/ ScheduleUpdateTeams(r)
    <3>1. Posting(r)
      BY <2>4 DEF ScheduleFindSchedule, ScheduleFindTeams, ScheduleUpdateTeams, At, Posting
    <3> QED
      BY <3>1 DEF WindowsInv, StillMissing
  <2> QED
    BY <2>1, <2>2, <2>3, <2>4, StepOfType DEF ScheduleStep
<1> QED
  BY <1>1, <1>2 DEF WindowsInv, OneWindowPerDay
LEMMA WindowsLand ==
    ASSUME DaysAlone, Inv, MixInv, DaysInv, WindowsInv, NEW r \in Workload,
           NEW w \in writes[r], Lands(r, w), Recedes
    PROVE  WindowsInv'
<1>1. ASSUME NEW q \in Workload
      PROVE  Posting(q)' => Posting(q)
  BY DEF Posting, Recedes, OfUser
<1>2. CASE ~OfUser(w) \/ Duplicate(w)
  <2>1. userSchedules' = userSchedules
    BY <1>2 DEF Lands, Execute, OfUser
  <2> QED
    BY <1>1, <2>1 DEF WindowsInv, StillMissing, OneWindowPerDay
<1>3. CASE OfUser(w) /\ ~Duplicate(w)
  <2>1. /\ r.user \in Users /\ r.window \in DayEntry(Days, Times)
        /\ userSchedules[r.user] \in Seq(DayEntry(Days, Times))
        /\ userSchedules'[r.user] = Append(userSchedules[r.user], r.window)
        /\ \A u \in Users \ {r.user} : userSchedules'[u] = userSchedules[u]
    BY <1>3, LandsDocument DEF Lands
  <2>2. Posting(r)
    BY <1>3 DEF Posting
  <2>3. ASSUME NEW q \in Workload
        PROVE  StillMissing(q)'
    <3>1. CASE q = r
      <4>1. pc'[r] \in {"handled", "dead"} /\ writes'[r] = writes[r] \ {w}
        BY InvFacts DEF MixInv, SentAtReturn, Recedes, Lands
      <4>2. ~Posting(r)'
        BY <1>3, <4>1 DEF Posting, DaysInv, FreshDocument, OfUser
      <4> QED
        BY <3>1, <4>2 DEF StillMissing
    <3>2. CASE q # r
      <4>1. Posting(q) => q.user # r.user
        BY <2>2, <3>2, OnePosting
      <4> QED
        BY <1>1, <2>1, <4>1, RequestFields DEF WindowsInv, StillMissing
    <3> QED
      BY <3>1, <3>2
  <2>4. DistinctDays(userSchedules'[r.user])
    <3>1. /\ ~HasDay(userSchedules[r.user], r.window.day)
          /\ DistinctDays(userSchedules[r.user])
      BY <2>1, <2>2 DEF WindowsInv, StillMissing, OneWindowPerDay, DistinctDays
    <3> QED
      BY <2>1, <3>1, DistinctAppended
  <2>5. OneWindowPerDay'
    BY <2>1, <2>4 DEF WindowsInv, OneWindowPerDay, DistinctDays
  <2> QED
    BY <2>3, <2>5 DEF WindowsInv
<1> QED
  BY <1>2, <1>3

(***************************************************************************)
(* A user has one window for a day, if every user had at first, unless     *)
(* days of that user are posted together: postUserScheduleHandler looks    *)
(* for the day in one query and appends it in another.                     *)
(***************************************************************************)
THEOREM OverlapOneWindowPerDay ==
    ASSUME DaysAlone,
           \A db \in InitialDBs : \A u \in Users : DistinctDays(db.userSchedules[u])
    PROVE  Spec => []OneWindowPerDay
<1>1. DaysApart
  BY DEF DaysAlone, DaysApart
<1>2. Init => WindowsInv
  <2> SUFFICES ASSUME Init
               PROVE  WindowsInv
    OBVIOUS
  <2>1. \A r \in Workload : pc[r] = "waiting" /\ writes[r] = {}
    BY DEF Init
  <2>2. OneWindowPerDay
    BY DEF Init, OneWindowPerDay, DistinctDays
  <2> QED
    BY <2>1, <2>2 DEF WindowsInv, StillMissing, Posting
<1>3. Inv /\ Inv' /\ MixInv /\ DaysInv /\ WindowsInv /\ [Next]_vars => WindowsInv'
  BY StepForms, WindowsLand, WindowsRecede, WindowsHandled DEF MixInv
<1>4. Spec => []DaysInv
  BY <1>1, DaysInvariant
<1>5. WindowsInv => OneWindowPerDay
  BY DEF WindowsInv
<1> QED
  BY <1>2, <1>3, <1>4, <1>5, MixInvariant, PTL DEF Spec

=============================================================================
