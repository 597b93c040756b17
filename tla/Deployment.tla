------------------------------ MODULE Deployment ------------------------------
(***************************************************************************)
(* Who a document belongs to.  An account of the gateway has an id, which  *)
(* MySQL counts up from 1, and an email; the schedules service is told     *)
(* both (X-User) and keeps both in its documents, and each of its handlers *)
(* looks for one of the two.  The gateway with its databases, the          *)
(* collections of MongoDB and the schedules service are deployed by        *)
(* separate scripts.  The first two begin anew with nothing, the last      *)
(* makes the indexes the collections lack.                                 *)
(*                                                                         *)
(* A handler is one step here (ScheduleService has its steps), and of      *)
(* availability only the days are modelled.                                *)
(***************************************************************************)
EXTENDS Naturals

CONSTANTS
    People,       \* each with an email of their own
    TeamNames, Days,
    MaxID,        \* bound on the ids MySQL gives
    MaxDeploys    \* bound on the deployments that begin anew

ASSUME BoundsAreNumbers == MaxID \in Nat /\ MaxDeploys \in Nat

VARIABLES
    id,         \* the accounts: the id of each email, or NoAccount
    documents,  \* the collection UserSchedule
    indexed,    \* its userEmail is indexed as unique
    teams,      \* the collection Team: members, the creator first to be one
    posted,     \* history: the postings acknowledged, since MongoDB began
    joined,     \* history: the people put into each team, since MongoDB began
    orphaned,   \* history: there are documents of accounts that are gone
    deploys

vars == <<id, documents, indexed, teams, posted, joined, orphaned, deploys>>
mongo == <<documents, indexed, teams, posted, joined>>

NoAccount == 0
Ids == 1 .. MaxID

Document == [userID : Ids, userEmail : People, schedule : SUBSET Days]
Posting == [who : People, id : Ids, day : Days]
Member == [id : Ids, email : People]
NoTeam == [creator |-> NoAccount, members |-> {}]
Team == [creator : {NoAccount} \cup Ids, members : SUBSET Member]

TypeOK ==
    /\ id \in [People -> {NoAccount} \cup Ids]
    /\ documents \subseteq Document
    /\ teams \in [TeamNames -> Team]
    /\ indexed \in BOOLEAN
    /\ posted \subseteq Posting
    /\ joined \in [TeamNames -> SUBSET People]
    /\ orphaned \in BOOLEAN
    /\ deploys \in 0 .. MaxDeploys

NoAccounts == [p \in People |-> NoAccount]
NoTeams == [n \in TeamNames |-> NoTeam]

Init ==
    /\ id = NoAccounts
    /\ documents = {} /\ indexed = TRUE /\ teams = NoTeams
    /\ posted = {} /\ joined = [n \in TeamNames |-> {}]
    /\ orphaned = FALSE
    /\ deploys = 0

-----------------------------------------------------------------------------
Signed == {p \in People : id[p] # NoAccount}

(***************************************************************************)
(* POST /v1/users.  An id is above all given before; a sign-up that is     *)
(* refused uses one up, so ids need not follow each other.                 *)
(***************************************************************************)
SignUp(p) ==
    /\ p \notin Signed
    /\ \E i \in Ids :
          /\ \A q \in Signed : i > id[q]
          /\ id' = [id EXCEPT ![p] = i]
    /\ UNCHANGED <<mongo, orphaned, deploys>>

ByID(i) == {d \in documents : d.userID = i}
ByEmail(p) == {d \in documents : d.userEmail = p}

(***************************************************************************)
(* Both fields are declared unique.  A handler inserts when it found no    *)
(* document by the id, so it is the index of userEmail that may refuse.    *)
(***************************************************************************)
Insertable(d) == indexed => ByEmail(d.userEmail) = {}

Acknowledged(p, day) == posted' = posted \cup {[who |-> p, id |-> id[p], day |-> day]}

\* Mutant: the schedule is replaced by the day posted.
PostDayReplacing(p, day) ==
    /\ p \in Signed
    /\ \A d \in ByID(id[p]) : day \notin d.schedule
    /\ \E new \in [userID : {id[p]}, userEmail : {p}, schedule : {{day}}] :
          documents' = (documents \ ByID(id[p])) \cup {new}
    /\ Acknowledged(p, day)
    /\ UNCHANGED <<id, indexed, teams, joined, orphaned, deploys>>

\* Mutant: a document that is new replaces what has the email (an upsert).
PostDayUpserting(p, day) ==
    /\ p \in Signed
    /\ \/ /\ ByID(id[p]) = {}
          /\ LET new == [userID |-> id[p], userEmail |-> p, schedule |-> {day}]
             IN  documents' = (documents \ ByEmail(p)) \cup {new}
       \/ \E d \in ByID(id[p]) :
             /\ day \notin d.schedule
             /\ documents' = (documents \ {d}) \cup {[d EXCEPT !.schedule = @ \cup {day}]}
    /\ Acknowledged(p, day)
    /\ UNCHANGED <<id, indexed, teams, joined, orphaned, deploys>>

(***************************************************************************)
(* postUserScheduleHandler finds and updates the document by the id.       *)
(***************************************************************************)
PostDay(p, day) ==
    /\ p \in Signed
    /\ \/ /\ ByID(id[p]) = {}
          /\ LET new == [userID |-> id[p], userEmail |-> p, schedule |-> {day}]
             IN  Insertable(new) /\ documents' = documents \cup {new}
       \/ \E d \in ByID(id[p]) :
             /\ day \notin d.schedule
             /\ documents' = (documents \ {d}) \cup {[d EXCEPT !.schedule = @ \cup {day}]}
    /\ Acknowledged(p, day)
    /\ UNCHANGED <<id, indexed, teams, joined, orphaned, deploys>>

\* postTeamHandler finds the creator's document by the id.
PostTeam(p, n) ==
    /\ p \in Signed
    /\ teams[n] = NoTeam
    /\ ByID(id[p]) # {}
    /\ teams' = [teams EXCEPT ![n] = [creator |-> id[p], members |-> {[id |-> id[p], email |-> p]}]]
    /\ joined' = [joined EXCEPT ![n] = {p}]
    /\ UNCHANGED <<id, documents, indexed, posted, orphaned, deploys>>

\* Mutant: the member gets the id of the one who adds.
PostMemberAs(p, n, added) ==
    /\ p \in Signed
    /\ teams[n] # NoTeam /\ teams[n].creator = id[p]
    /\ \A m \in teams[n].members : m.email # added
    /\ ByEmail(added) # {}
    /\ teams' = [teams EXCEPT ![n].members = @ \cup {[id |-> id[p], email |-> added]}]
    /\ joined' = [joined EXCEPT ![n] = @ \cup {added}]
    /\ UNCHANGED <<id, documents, indexed, posted, orphaned, deploys>>

\* postMembersHandler finds the document by the email and takes the id from it.
PostMember(p, n, added) ==
    /\ p \in Signed
    /\ teams[n] # NoTeam /\ teams[n].creator = id[p]
    /\ \A m \in teams[n].members : m.email # added
    /\ \E d \in ByEmail(added) :
          teams' = [teams EXCEPT ![n].members = @ \cup {[id |-> d.userID, email |-> added]}]
    /\ joined' = [joined EXCEPT ![n] = @ \cup {added}]
    /\ UNCHANGED <<id, documents, indexed, posted, orphaned, deploys>>

-----------------------------------------------------------------------------
(***************************************************************************)
(* The handlers that read: getUserScheduleHandler by the email;            *)
(* getTeamsHandler, getSpecificTeamHandler and getMembersHandler by the id.*)
(***************************************************************************)
\* The possible answers, of one document found; {} stands for the status 404.
GetUserSchedule(p) ==
    IF ByEmail(p) = {} THEN {{}} ELSE {d.schedule : d \in ByEmail(p)}

IsMember(p, n) == \E m \in teams[n].members : m.id = id[p]

GetTeams(p) == {n \in TeamNames : IsMember(p, n)}

\* The emails in the answer; {} stands for the status 404.
GetMembers(p, n) == IF IsMember(p, n) THEN {m.email : m \in teams[n].members} ELSE {}

-----------------------------------------------------------------------------
Deploy == deploys < MaxDeploys /\ deploys' = deploys + 1

\* gateway/scripts/dockerize.sh: MySQL and Redis are replaced.
DeployGateway ==
    /\ Deploy
    /\ id' = NoAccounts
    /\ orphaned' = (documents # {})
    /\ UNCHANGED mongo

(***************************************************************************)
(* mongodb/dockerize.sh.  The accounts that are left find nothing.  The    *)
(* schedules service connects again, but asks for its indexes only when it *)
(* starts.                                                                 *)
(***************************************************************************)
DeployMongo ==
    /\ Deploy
    /\ documents' = {} /\ indexed' = FALSE /\ teams' = NoTeams
    /\ posted' = {} /\ joined' = [n \in TeamNames |-> {}]
    /\ orphaned' = FALSE
    /\ UNCHANGED id

\* schedules/scripts/dockerize.sh.  No unique index is made over duplicates.
DeploySchedules ==
    /\ indexed' = (\A d, e \in documents : d.userEmail = e.userEmail => d = e)
    /\ UNCHANGED <<id, documents, teams, posted, joined, orphaned, deploys>>

Next ==
    \/ \E p \in People : SignUp(p) \/ \E day \in Days : PostDay(p, day)
    \/ \E p \in People, n \in TeamNames : PostTeam(p, n) \/ \E added \in People : PostMember(p, n, added)
    \/ DeployGateway \/ DeployMongo \/ DeploySchedules

Spec == Init /\ [][Next]_vars

-----------------------------------------------------------------------------
(***************************************************************************)
(* A person sees as their schedule the days they were told are posted, all *)
(* of them and no other's, although posting goes by the id and reading by  *)
(* the email; until accounts are lost that documents name.                 *)
(***************************************************************************)
Posted(p) == {a.day : a \in {b \in posted : b.who = p}}

OwnScheduleShown ==
    ~orphaned => \A p \in Signed : GetUserSchedule(p) = {Posted(p)}

(***************************************************************************)
(* Teams and their members are shown to the people put into them and to    *)
(* nobody else, although people are added by email and read by id; until   *)
(* accounts are lost that documents name.                                  *)
(***************************************************************************)
TeamsShownToMembers ==
    ~orphaned => \A p \in Signed, n \in TeamNames :
        /\ n \in GetTeams(p) <=> p \in joined[n]
        /\ GetMembers(p, n) = IF p \in joined[n] THEN joined[n] ELSE {}

(***************************************************************************)
(* Whatever is deployed in whichever order, each posting that was          *)
(* acknowledged stays in the document of the id it was made under, as a    *)
(* day of its own: nobody who has that id afterwards, and nobody who posts *)
(* under another id than before, overwrites it or takes it for theirs.     *)
(***************************************************************************)
NothingPostedLost ==
    /\ \A a \in posted : \E d \in documents : d.userID = a.id /\ a.day \in d.schedule
    /\ \A a, b \in posted : a.id = b.id /\ a.day = b.day => a.who = b.who

=============================================================================
