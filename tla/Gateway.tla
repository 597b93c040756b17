------------------------------- MODULE Gateway -------------------------------
(***************************************************************************)
(* The gateway's own endpoints (servers/gateway/handlers/auth.go): signing *)
(* up, signing in and out, reading and updating a profile.  Every request  *)
(* runs in a goroutine; what they share is the MySQL database of users and *)
(* the session store, so a step is one call on either of them together     *)
(* with what the handler does until the next.  SessionStore and RedisStore *)
(* justify that a call on the session store is one step.                   *)
(*                                                                         *)
(* A session id is 32 random bytes and their signature: it stands for the  *)
(* one request it was made for, and is modelled by that request's id.      *)
(***************************************************************************)
EXTENDS Naturals

CONSTANTS
    Mixes,       \* the sets of requests that clients may send together
    Emails, UserNames, Passwords,
    Names,       \* a first and a last name
    MaxFaults,   \* bound on failed calls of MySQL and of the session store
    MaxDeploys   \* bound on deployments of a new gateway

(***************************************************************************)
(* `json' says that the Content-Type is application/json, `valid' that the *)
(* new user passes Validate.  A request presents no usable session id      *)
(* (there is none, or its scheme or its signature is wrong), one that was  *)
(* cut short, or the one it was given in the answer to request `session'.  *)
(* `who' is the user id in the path; 0 stands for "me".  A request of type *)
(* other has a method its path does not: `specific' says that the path is  *)
(* /users/{id}, whose handler asks for the session before the method.      *)
(***************************************************************************)
Presented == [credential : {"missing", "truncated", "session"}, session : Nat]

Request ==
    [type : {"signUp"}, id : Nat, json : BOOLEAN, valid : BOOLEAN,
     email : Emails, userName : UserNames, password : Passwords, name : Names]
    \cup
    [type : {"signIn"}, id : Nat, json : BOOLEAN, email : Emails, password : Passwords]
    \cup
    [type : {"profile"}, id : Nat, auth : Presented, who : Nat]
    \cup
    [type : {"update"}, id : Nat, auth : Presented, who : Nat, json : BOOLEAN,
     name : Names]
    \cup
    [type : {"signOut"}, id : Nat, auth : Presented, mine : BOOLEAN]
    \cup
    [type : {"other"}, id : Nat, auth : Presented, specific : BOOLEAN]

Workload == UNION Mixes

ASSUME WorkloadIsRequests == Workload \subseteq Request
ASSUME SessionIdsAreUnique == \A q, r \in Workload : q.id = r.id => q = r
ASSUME BoundsAreNumbers == MaxFaults \in Nat /\ MaxDeploys \in Nat

VARIABLES
    users,     \* the table Users, by ID
    nextID,    \* its auto_increment
    logins,    \* the table LoginAttempts: the requests it has a row for
    sessions,  \* the session store: the user of each live session; 0 for none
    pc,        \* the call each request is waiting for
    account,   \* the ID of the user the handler works for; 0 for none
    answer,    \* the status each request was answered with; 0 for none
    late,      \* history: requests that came after their session's sign-out
    faults,    \* how many calls have failed
    deploys    \* how many deployments there have been

stores == <<users, nextID, logins, sessions>>
vars == <<users, nextID, logins, sessions, pc, account, answer, late, faults, deploys>>

Row == [email : Emails, userName : UserNames, password : Passwords, name : Names]

Stage == {"unsent",      \* not one of the requests clients send
          "waiting",     \* not received yet
          "insert", "findUser", "trackLogin", "beginSession", "getState",
          "getUser", "updateUser", "getUpdated", "endSession",
          "handled",
          "dropped",     \* the handler panicked
          "cutOff"}      \* a deployment ended the handler

Status == {0, 200, 201, 400, 401, 403, 404, 405, 415, 500}

Ids == {r.id : r \in Workload}

TypeOK ==
    /\ nextID \in Nat \ {0}
    /\ DOMAIN users \subseteq 1 .. (nextID - 1)
    /\ \A id \in DOMAIN users : users[id] \in Row
    /\ logins \subseteq Ids
    /\ sessions \in [Ids -> 0 .. (nextID - 1)]
    /\ pc \in [Workload -> Stage]
    /\ account \in [Workload -> Nat]
    /\ answer \in [Workload -> Status]
    /\ late \subseteq Workload
    /\ faults \in 0 .. MaxFaults
    /\ deploys \in 0 .. MaxDeploys

NoRows == [id \in {} |-> {}]

NoSessions == [sid \in Ids |-> 0]

Init ==
    /\ users = NoRows
    /\ nextID = 1
    /\ logins = {}
    /\ sessions = NoSessions
    /\ \E mix \in Mixes :
          pc = [r \in Workload |-> IF r \in mix THEN "waiting" ELSE "unsent"]
    /\ account = [r \in Workload |-> 0]
    /\ answer = [r \in Workload |-> 0]
    /\ late = {}
    /\ faults = 0
    /\ deploys = 0

-----------------------------------------------------------------------------
(***************************************************************************)
(* The ways a stretch of a handler ends, and whether its call failed.  A   *)
(* call that failed may have been executed all the same.                   *)
(***************************************************************************)
Await(r, stage, id) ==
    /\ pc' = [pc EXCEPT ![r] = stage]
    /\ account' = [account EXCEPT ![r] = id]
    /\ UNCHANGED answer

Answer(r, status) ==
    /\ pc' = [pc EXCEPT ![r] = "handled"]
    /\ answer' = [answer EXCEPT ![r] = status]
    /\ UNCHANGED account

\* A panic: net/http closes the connection.
Drop(r) ==
    /\ pc' = [pc EXCEPT ![r] = "dropped"]
    /\ UNCHANGED <<account, answer>>

Works == UNCHANGED <<faults, late, deploys>>

Fails ==
    /\ faults < MaxFaults
    /\ faults' = faults + 1
    /\ UNCHANGED <<late, deploys>>

With(f, key, value) ==
    [k \in DOMAIN f \cup {key} |-> IF k = key THEN value ELSE f[k]]

-----------------------------------------------------------------------------
(***************************************************************************)
(* A request arrives, and is refused by what needs no call.  A client has  *)
(* a session id once the request it was made for is answered.              *)
(***************************************************************************)
SignedOut(sid) ==
    \E q \in Workload : /\ q.type = "signOut" /\ q.mine /\ answer[q] = 200
                        /\ q.auth.credential = "session" /\ q.auth.session = sid

HasToken(sid) == \E q \in Workload : q.id = sid /\ answer[q] = 201

Presents(r) == r.type \in {"profile", "update", "signOut", "other"}

\* GetSessionID; ValidateID slices a decoded id that may be too short.
WithSessionID(r, stage, unauthorized) ==
    CASE r.auth.credential = "missing"   -> Answer(r, unauthorized)
      [] r.auth.credential = "truncated" -> Drop(r)
      [] r.auth.credential = "session"   -> Await(r, stage, 0)

Receive(r) ==
    /\ pc[r] = "waiting"
    /\ Presents(r) /\ r.auth.credential = "session" => HasToken(r.auth.session)
    /\ late' = IF Presents(r) /\ r.auth.credential = "session" /\ SignedOut(r.auth.session)
               THEN late \cup {r} ELSE late
    /\ CASE r.type \in {"signUp", "signIn"} /\ ~r.json -> Answer(r, 415)
         [] r.type = "signUp" /\ r.json -> IF r.valid THEN Await(r, "insert", 0)
                                           ELSE Answer(r, 400)
         [] r.type = "signIn" /\ r.json -> Await(r, "findUser", 0)
         [] r.type \in {"profile", "update"} -> WithSessionID(r, "getState", 401)
         [] r.type = "other" -> IF r.specific THEN WithSessionID(r, "getState", 401)
                                ELSE Answer(r, 405)
         [] r.type = "signOut" -> IF r.mine THEN WithSessionID(r, "endSession", 200)
                                  ELSE Answer(r, 403)
    /\ UNCHANGED <<stores, faults, deploys>>

-----------------------------------------------------------------------------
(***************************************************************************)
(* POST /users: UsersHandler.                                              *)
(***************************************************************************)
\* Mutant: UserName without its unique index.
DuplicateEmailOnly(r) == \E id \in DOMAIN users : users[id].email = r.email

Duplicate(r) ==
    \E id \in DOMAIN users : users[id].email = r.email \/ users[id].userName = r.userName

\* InnoDB takes the next number before it finds a duplicate.
Inserted(r) ==
    /\ ~Duplicate(r)
    /\ users' = With(users, nextID, [email |-> r.email, userName |-> r.userName,
                                     password |-> r.password, name |-> r.name])
    /\ nextID' = nextID + 1

Refused(r) ==
    /\ Duplicate(r)
    /\ nextID' = nextID + 1
    /\ UNCHANGED users

NotExecuted == UNCHANGED <<users, nextID>>

\* Mutant: the error of Insert is not looked at.
SignUpInsertUnchecked(r) ==
    /\ pc[r] = "insert"
    /\ \/ Works /\ (Inserted(r) \/ Refused(r))
       \/ Fails /\ NotExecuted
    /\ Await(r, "beginSession", nextID)
    /\ UNCHANGED <<logins, sessions>>

SignUpInsert(r) ==
    /\ pc[r] = "insert"
    /\ \/ Works /\ Inserted(r) /\ Await(r, "beginSession", nextID)
       \/ Works /\ Refused(r) /\ Answer(r, 400)
       \/ Fails /\ (Inserted(r) \/ Refused(r) \/ NotExecuted) /\ Answer(r, 400)
    /\ UNCHANGED <<logins, sessions>>

(***************************************************************************)
(* BeginSession of the sessions package, then the answer.  When it fails   *)
(* the handlers return without writing one, which net/http sends as 200.   *)
(***************************************************************************)
BeginSession(r) ==
    LET saved == sessions' = [sessions EXCEPT ![r.id] = account[r]]
    IN  /\ pc[r] = "beginSession"
        /\ \/ Works /\ saved /\ Answer(r, 201)
           \/ Fails /\ (saved \/ UNCHANGED sessions) /\ Answer(r, 200)
        /\ UNCHANGED <<users, nextID, logins>>

-----------------------------------------------------------------------------
(***************************************************************************)
(* POST /sessions: SessionsHandler.                                        *)
(***************************************************************************)
\* Mutant: the password is not compared.
AuthenticatesByEmail(r, id) == users[id].email = r.email

Authenticates(r, id) == users[id].email = r.email /\ users[id].password = r.password

SignInFindUser(r) ==
    /\ pc[r] = "findUser"
    /\ \/ Works /\ \E id \in DOMAIN users : Authenticates(r, id) /\ Await(r, "trackLogin", id)
       \/ Works /\ ~(\E id \in DOMAIN users : Authenticates(r, id)) /\ Answer(r, 401)
       \/ Fails /\ Answer(r, 401)
    /\ UNCHANGED stores

\* The error of TrackLogin is overwritten before it is looked at.
SignInTrackLogin(r) ==
    /\ pc[r] = "trackLogin"
    /\ \/ Works /\ logins' = logins \cup {r.id}
       \/ Fails /\ logins' \in {logins, logins \cup {r.id}}
    /\ Await(r, "beginSession", account[r])
    /\ UNCHANGED <<users, nextID, sessions>>

-----------------------------------------------------------------------------
(***************************************************************************)
(* GET and PATCH /users/{id}: SpecificUsersHandler.  The state saved with  *)
(* the session is a copy of the user; the handler uses its ID only.        *)
(***************************************************************************)
\* Mutant: the test for another user's id is missing.
AfterGetStateUnchecked(r, id) ==
    CASE r.type = "profile" -> Await(r, "getUser", id)
      [] r.type = "other" -> Answer(r, 405)
      [] r.type = "update" -> IF r.json THEN Await(r, "updateUser", id) ELSE Answer(r, 415)

AfterGetState(r, id) ==
    CASE r.type = "profile" -> Await(r, "getUser", id)
      [] r.type = "other" -> Answer(r, 405)
      [] r.type = "update" /\ r.who \notin {0, id} -> Answer(r, 403)
      [] r.type = "update" /\ r.who \in {0, id} /\ ~r.json -> Answer(r, 415)
      [] OTHER -> Await(r, "updateUser", id)

GetState(r) ==
    LET sid == r.auth.session
    IN  /\ pc[r] = "getState"
        /\ \/ Works /\ sessions[sid] # 0 /\ AfterGetState(r, sessions[sid])
           \/ Works /\ sessions[sid] = 0 /\ Answer(r, 401)
           \/ Fails /\ Answer(r, 401)
        /\ UNCHANGED stores

ProfileGetUser(r) ==
    LET id == IF r.who = 0 THEN account[r] ELSE r.who
    IN  /\ pc[r] = "getUser"
        /\ \/ Works /\ Answer(r, IF id \in DOMAIN users THEN 200 ELSE 404)
           \/ Fails /\ Answer(r, 404)
        /\ UNCHANGED stores

(***************************************************************************)
(* RowsAffected of MySQL counts rows whose values changed: an update to    *)
(* the names a user already has is taken for one of an unknown user.       *)
(***************************************************************************)
Changes(r, id) == id \in DOMAIN users /\ users[id].name # r.name

Updated(r) ==
    /\ Changes(r, account[r])
    /\ users' = [users EXCEPT ![account[r]].name = r.name]

\* Mutant: an update that changed no row is tried again.
UpdateUserRetrying(r) ==
    /\ pc[r] = "updateUser"
    /\ \/ Works /\ Updated(r) /\ Await(r, "getUpdated", account[r])
       \/ Works /\ ~Changes(r, account[r]) /\ UNCHANGED <<users, pc, account, answer>>
       \/ Fails /\ (Updated(r) \/ UNCHANGED users) /\ Answer(r, 500)
    /\ UNCHANGED <<nextID, logins, sessions>>

UpdateUser(r) ==
    /\ pc[r] = "updateUser"
    /\ \/ Works /\ Updated(r) /\ Await(r, "getUpdated", account[r])
       \/ Works /\ ~Changes(r, account[r]) /\ Answer(r, 500) /\ UNCHANGED users
       \/ Fails /\ (Updated(r) \/ UNCHANGED users) /\ Answer(r, 500)
    /\ UNCHANGED <<nextID, logins, sessions>>

UpdateGetUser(r) ==
    /\ pc[r] = "getUpdated"
    /\ \/ Works /\ Answer(r, IF account[r] \in DOMAIN users THEN 200 ELSE 500)
       \/ Fails /\ Answer(r, 500)
    /\ UNCHANGED stores

-----------------------------------------------------------------------------
(***************************************************************************)
(* DELETE /sessions/mine: SpecificSessionsHandler.  The result of          *)
(* EndSession is not looked at.                                            *)
(***************************************************************************)
\* Mutant: the session is not deleted.
SignOutEndSessionKept(r) ==
    /\ pc[r] = "endSession"
    /\ Works
    /\ Answer(r, 200)
    /\ UNCHANGED stores

SignOutEndSession(r) ==
    LET ended == sessions' = [sessions EXCEPT ![r.auth.session] = 0]
    IN  /\ pc[r] = "endSession"
        /\ \/ Works /\ ended
           \/ Fails /\ (ended \/ UNCHANGED sessions)
        /\ Answer(r, 200)
        /\ UNCHANGED <<users, nextID, logins>>

-----------------------------------------------------------------------------
\* A session nobody used for SessionDuration.
SessionExpires(sid) ==
    /\ sessions[sid] # 0
    /\ sessions' = [sessions EXCEPT ![sid] = 0]
    /\ UNCHANGED <<users, nextID, logins, pc, account, answer, late, faults, deploys>>

Handling(r) == pc[r] \notin {"unsent", "waiting", "handled", "dropped", "cutOff"}

\* Mutant: the container of Redis stays.
DeployKeepingRedis ==
    /\ deploys < MaxDeploys
    /\ deploys' = deploys + 1
    /\ users' = NoRows
    /\ nextID' = 1
    /\ logins' = {}
    /\ pc' = [r \in Workload |-> IF Handling(r) THEN "cutOff" ELSE pc[r]]
    /\ UNCHANGED <<sessions, account, answer, late, faults>>

(***************************************************************************)
(* dockerize.sh removes the containers of Redis, the gateway and MySQL and *)
(* runs new ones, which have no volumes of the old.                        *)
(***************************************************************************)
Deploy ==
    /\ deploys < MaxDeploys
    /\ deploys' = deploys + 1
    /\ users' = NoRows
    /\ nextID' = 1
    /\ logins' = {}
    /\ sessions' = NoSessions
    /\ pc' = [r \in Workload |-> IF Handling(r) THEN "cutOff" ELSE pc[r]]
    /\ UNCHANGED <<account, answer, late, faults>>

HandlerStep(r) ==
    \/ SignUpInsert(r) \/ BeginSession(r)
    \/ SignInFindUser(r) \/ SignInTrackLogin(r)
    \/ GetState(r) \/ ProfileGetUser(r) \/ UpdateUser(r) \/ UpdateGetUser(r)
    \/ SignOutEndSession(r)

Next ==
    \/ \E r \in Workload : Receive(r) \/ HandlerStep(r)
    \/ \E sid \in Ids : SessionExpires(sid)
    \/ Deploy

Spec == Init /\ [][Next]_vars

(***************************************************************************)
(* MySQL and the session store answer every call, if only with an error,   *)
(* and every goroutine gets its turn.                                      *)
(***************************************************************************)
FairSpec == Spec /\ \A r \in Workload : WF_vars(HandlerStep(r))

-----------------------------------------------------------------------------
(***************************************************************************)
(* What holds whatever fails and whenever a new gateway is deployed.       *)
(***************************************************************************)

(***************************************************************************)
(* No two accounts have an email or a user name in common, however many    *)
(* sign up at once and whatever becomes of their answers.                  *)
(***************************************************************************)
AccountsDistinct ==
    \A i, j \in DOMAIN users :
        users[i].email = users[j].email \/ users[i].userName = users[j].userName => i = j

(***************************************************************************)
(* A live session is of an account, and of the one whose email the request *)
(* that began it named.                                                    *)
(***************************************************************************)
SessionsAreOwn ==
    \A r \in Workload :
        r.type \in {"signUp", "signIn"} /\ sessions[r.id] # 0 =>
            /\ sessions[r.id] \in DOMAIN users
            /\ users[sessions[r.id]].email = r.email
            /\ users[sessions[r.id]].password = r.password

(***************************************************************************)
(* The name of an account changes only at a request that addresses this    *)
(* account and comes with a session its owner began with its password.     *)
(***************************************************************************)
BegunByOwner(sid, id) ==
    \E q \in Workload :
        /\ q.type \in {"signUp", "signIn"} /\ q.id = sid
        /\ q.email = users[id].email /\ q.password = users[id].password

OwnProfileOnly ==
    [][\A id \in DOMAIN users \cap DOMAIN users' :
          users'[id].name # users[id].name =>
              \E r \in Workload :
                  /\ r.type = "update" /\ r.who \in {0, id} /\ pc[r] = "updateUser"
                  /\ BegunByOwner(r.auth.session, id)]_vars

(***************************************************************************)
(* In the end every request received is answered, unless a deployment cut  *)
(* it off or its session id was cut short.  (An answer stays and requests  *)
(* are finitely many, so this is what a leads-to for each of them says.)   *)
(***************************************************************************)
CutShort(r) == Presents(r) /\ r.auth.credential = "truncated"

EveryRequestAnswered ==
    <>[](\A r \in Workload :
            pc[r] \in {"unsent", "waiting", "cutOff"} \/ answer[r] # 0 \/ CutShort(r))

(***************************************************************************)
(* Unless a call failed, nothing is done for a session whose sign-out was  *)
(* answered before the request came.                                       *)
(***************************************************************************)
SignedOutStaysOut ==
    \A r \in late : r.type \in {"profile", "update"} /\ faults = 0 => answer[r] \in {0, 401}

(***************************************************************************)
(* An account whose creation was answered with 201 is there, as long as    *)
(* the container of MySQL is.                                              *)
(***************************************************************************)
AckedAccountStands ==
    \A r \in Workload : r.type = "signUp" /\ answer[r] = 201 /\ deploys = 0 =>
        \E id \in DOMAIN users : users[id].email = r.email

=============================================================================
