---------------------------- MODULE GatewayProofs -----------------------------
(***************************************************************************)
(* The safety of Gateway, for any requests sent together in any mix, any   *)
(* interleaving of their handlers, any failed calls and any deployments.   *)
(***************************************************************************)
EXTENDS Gateway, SessionStores, TLAPS

(***************************************************************************)
(* The invariant.  A handler works on what an earlier call told it, which  *)
(* other handlers may have changed since: Good says, for every stage, what *)
(* is still true of it.  It rests on what never changes while a gateway    *)
(* lives: who owns an account, and who has been given a session id.        *)
(***************************************************************************)
Begins(r) == r.type \in {"signUp", "signIn"}

HasSession(r) == r.auth.credential = "session" /\ HasToken(r.auth.session)

Owns(r, id) ==
    id \in DOMAIN users /\ users[id].email = r.email /\ users[id].password = r.password

GoodStage(r) ==
    /\ pc[r] = "insert" => r.type = "signUp"
    /\ pc[r] = "findUser" => r.type = "signIn"
    /\ pc[r] \in {"trackLogin", "beginSession"} => Begins(r) /\ Owns(r, account[r])
    /\ pc[r] = "getState" => r.type \in {"profile", "update", "other"} /\ HasSession(r)
    /\ pc[r] = "getUser" => r.type = "profile"
    /\ pc[r] \in {"updateUser", "getUpdated"} =>
          /\ r.type = "update" /\ r.who \in {0, account[r]}
          /\ account[r] \in DOMAIN users
          /\ BegunByOwner(r.auth.session, account[r])
    /\ pc[r] = "endSession" => r.type = "signOut" /\ r.mine /\ HasSession(r)

GoodAnswer(r) ==
    /\ answer[r] # 0 => pc[r] = "handled"
    /\ r.type = "signOut" /\ r.mine /\ r.auth.credential = "session" /\ answer[r] = 200 =>
          HasToken(r.auth.session)
    /\ r.type = "signUp" /\ answer[r] = 201 /\ deploys = 0 =>
          \E id \in DOMAIN users : users[id].email = r.email

Good(r) == GoodStage(r) /\ GoodAnswer(r)

\* Sessions are of those who began them; requests of other kinds begin none.
SessionsBegun ==
    \A r \in Workload : sessions[r.id] # 0 => Begins(r) /\ Owns(r, sessions[r.id])

\* Unless a call failed, a session is gone once its sign-out is answered.
SignedOutGone ==
    faults = 0 => \A sid \in Ids : SignedOut(sid) => sessions[sid] = 0

LateRefused ==
    \A r \in late : r.type \in {"profile", "update"} /\ faults = 0 =>
        /\ pc[r] \in {"getState", "handled", "dropped", "cutOff"}
        /\ SignedOut(r.auth.session)
        /\ answer[r] \in {0, 401}

Inv ==
    /\ TypeOK
    /\ AccountsDistinct
    /\ \A r \in Workload : Good(r)
    /\ SessionsBegun
    /\ SignedOutGone
    /\ LateRefused

-----------------------------------------------------------------------------
\* What a request holds, by its type.
LEMMA RequestFields ==
    ASSUME NEW r \in Workload
    PROVE  /\ r.id \in Ids
           /\ r.type \in {"signUp", "signIn", "profile", "update", "signOut", "other"}
           /\ Begins(r) => r.email \in Emails /\ r.password \in Passwords
           /\ r.type = "signUp" => r.userName \in UserNames /\ r.name \in Names
           /\ r.type = "update" => r.who \in Nat /\ r.name \in Names
           /\ Presents(r) => r.auth \in Presented
<1>1. r \in Request
  BY WorkloadIsRequests
<1>2. r.id \in Ids
  BY DEF Ids
<1> QED
  BY <1>1, <1>2 DEF Request, Begins, Presents

\* What every step but a deployment keeps.
Grows ==
    /\ \A id \in DOMAIN users :
          /\ id \in DOMAIN users'
          /\ users'[id].email = users[id].email
          /\ users'[id].password = users[id].password
    /\ \A q \in Workload : answer[q] # 0 => answer'[q] = answer[q]
    /\ deploys' = deploys

Same(q) == pc'[q] = pc[q] /\ account'[q] = account[q] /\ answer'[q] = answer[q]

LEMMA TokensStay ==
    ASSUME Grows, NEW sid, HasToken(sid)
    PROVE  HasToken(sid)'
BY DEF Grows, HasToken

LEMMA SignOutsStay ==
    ASSUME Grows, NEW sid, SignedOut(sid)
    PROVE  SignedOut(sid)'
BY DEF Grows, SignedOut

\* What is true of a handler stays true in the steps of others.
LEMMA GoodStable ==
    ASSUME NEW q \in Workload, Good(q), Grows, Same(q)
    PROVE  Good(q)'
<1>1. HasSession(q) => HasSession(q)'
  BY TokensStay DEF HasSession
<1>2. Owns(q, account[q]) => Owns(q, account[q])'
  BY DEF Grows, Same, Owns
<1>3. account[q] \in DOMAIN users /\ BegunByOwner(q.auth.session, account[q])
      => (account[q] \in DOMAIN users /\ BegunByOwner(q.auth.session, account[q]))'
  BY DEF Grows, Same, BegunByOwner
<1>4. GoodStage(q)'
  BY <1>1, <1>2, <1>3 DEF Good, GoodStage, Same
<1>5. GoodAnswer(q)'
  BY TokensStay DEF Good, GoodAnswer, Same, Grows
<1> QED
  BY <1>4, <1>5 DEF Good

-----------------------------------------------------------------------------
\* A handler goes on, and no other.
Moved(r) ==
    /\ pc' \in [Workload -> Stage]
    /\ account' \in [Workload -> Nat]
    /\ answer' \in [Workload -> Status]
    /\ \A q \in Workload \ {r} : Same(q)

LEMMA AwaitMoves ==
    ASSUME TypeOK, NEW r \in Workload, NEW stage \in Stage, NEW id \in Nat,
           Await(r, stage, id)
    PROVE  Moved(r) /\ pc'[r] = stage /\ account'[r] = id /\ answer'[r] = answer[r]
BY DEF TypeOK, Await, Moved, Same

LEMMA AnswerMoves ==
    ASSUME TypeOK, NEW r \in Workload, NEW status \in Status, Answer(r, status)
    PROVE  Moved(r) /\ pc'[r] = "handled" /\ account'[r] = account[r] /\ answer'[r] = status
BY DEF TypeOK, Answer, Moved, Same, Stage

LEMMA DropMoves ==
    ASSUME TypeOK, NEW r \in Workload, Drop(r)
    PROVE  Moved(r) /\ pc'[r] = "dropped" /\ account'[r] = account[r] /\ answer'[r] = answer[r]
BY DEF TypeOK, Drop, Moved, Same, Stage

\* Unless r is a sign-out with a session, its answer signs nobody out.
SignsOut(r) == r.type = "signOut" /\ r.mine /\ r.auth.credential = "session" /\ answer'[r] = 200

LEMMA NobodySignedOut ==
    ASSUME NEW r \in Workload, Moved(r), ~SignsOut(r), NEW sid, SignedOut(sid)'
    PROVE  SignedOut(sid)
BY DEF Moved, Same, SignsOut, SignedOut

LateRefusedFor(r) ==
    r \in late /\ r.type \in {"profile", "update"} /\ faults = 0 =>
        /\ pc[r] \in {"getState", "handled", "dropped", "cutOff"}
        /\ SignedOut(r.auth.session)
        /\ answer[r] \in {0, 401}

(***************************************************************************)
(* The step of one handler: what is left to show is about its own request  *)
(* and about the accounts and sessions.                                    *)
(***************************************************************************)
LEMMA StepInv ==
    ASSUME Inv, NEW r \in Workload, Moved(r), Grows, Good(r)', LateRefusedFor(r)',
           late' \in {late, late \cup {r}}, faults' = 0 => faults = 0,
           TypeOK', AccountsDistinct', SessionsBegun', SignedOutGone'
    PROVE  Inv'
<1>1. \A q \in Workload : Good(q)'
  BY GoodStable DEF Inv, Moved
<1>2. LateRefused'
  <2> SUFFICES ASSUME NEW q \in late', q.type \in {"profile", "update"}, faults' = 0
               PROVE  /\ pc'[q] \in {"getState", "handled", "dropped", "cutOff"}
                      /\ SignedOut(q.auth.session)'
                      /\ answer'[q] \in {0, 401}
    BY DEF LateRefused
  <2>1. CASE q = r
    BY <2>1 DEF LateRefusedFor
  <2>2. CASE q # r
    <3>1. q \in late /\ q \in Workload /\ faults = 0
      BY <2>2 DEF Inv, TypeOK
    <3> QED
      BY <2>2, <3>1, SignOutsStay DEF Inv, LateRefused, Moved, Same
  <2> QED
    BY <2>1, <2>2
<1> QED
  BY <1>1, <1>2 DEF Inv

\* Most steps leave accounts and sessions alone.
LEMMA QuietInv ==
    ASSUME Inv, NEW r \in Workload, Moved(r), answer[r] = 0, Good(r)', LateRefusedFor(r)',
           ~SignsOut(r), late' \in {late, late \cup {r}},
           UNCHANGED <<users, nextID, sessions, deploys>>, logins' \subseteq Ids,
           faults' \in 0 .. MaxFaults, faults' = 0 => faults = 0
    PROVE  Inv'
<1>1. Grows
  BY DEF Grows, Moved, Same
<1>2. TypeOK'
  BY DEF Inv, TypeOK, Moved
<1>3. AccountsDistinct' /\ SessionsBegun'
  BY DEF Inv, AccountsDistinct, SessionsBegun, Owns
<1>4. SignedOutGone'
  BY NobodySignedOut DEF Inv, SignedOutGone
<1> QED
  BY <1>1, <1>2, <1>3, <1>4, StepInv

QuietStep(r) ==
    /\ UNCHANGED <<users, nextID, sessions, deploys>>
    /\ logins' \subseteq Ids
    /\ faults' \in 0 .. MaxFaults
    /\ faults' = 0 => faults = 0
    /\ late' \in {late, late \cup {r}}

\* A handler that came too late, and no call has failed yet.
Belated(r) == r \in late' /\ r.type \in {"profile", "update"} /\ faults' = 0

LEMMA QuietAnswer ==
    ASSUME Inv, NEW r \in Workload, answer[r] = 0, QuietStep(r),
           NEW status \in Status \ {201}, Answer(r, status), ~SignsOut(r),
           Belated(r) => status = 401 /\ SignedOut(r.auth.session)
    PROVE  Inv'
<1>1. Moved(r) /\ pc'[r] = "handled" /\ answer'[r] = status
  BY AnswerMoves DEF Inv
<1>2. Good(r)'
  BY <1>1 DEF Good, GoodStage, GoodAnswer, SignsOut
<1>3. Grows
  BY <1>1 DEF Grows, Moved, Same, QuietStep
<1>4. LateRefusedFor(r)'
  BY <1>1, <1>3, SignOutsStay DEF LateRefusedFor, Belated
<1> QED
  BY <1>1, <1>2, <1>4, QuietInv DEF QuietStep

LEMMA QuietAwait ==
    ASSUME Inv, NEW r \in Workload, answer[r] = 0, QuietStep(r),
           NEW stage \in Stage, NEW id \in Nat, Await(r, stage, id), GoodStage(r)',
           Belated(r) => stage = "getState" /\ SignedOut(r.auth.session)
    PROVE  Inv'
<1>1. Moved(r) /\ pc'[r] = stage /\ answer'[r] = 0
  BY AwaitMoves DEF Inv
<1>2. Good(r)' /\ ~SignsOut(r)
  BY <1>1 DEF Good, GoodAnswer, SignsOut
<1>3. Grows
  BY <1>1 DEF Grows, Moved, Same, QuietStep
<1>4. LateRefusedFor(r)'
  BY <1>1, <1>3, SignOutsStay DEF LateRefusedFor, Belated
<1> QED
  BY <1>1, <1>2, <1>4, QuietInv DEF QuietStep

LEMMA QuietDrop ==
    ASSUME Inv, NEW r \in Workload, answer[r] = 0, QuietStep(r), Drop(r), ~Belated(r)
    PROVE  Inv'
<1>1. Moved(r) /\ pc'[r] = "dropped" /\ answer'[r] = 0
  BY DropMoves DEF Inv
<1>2. Good(r)' /\ ~SignsOut(r)
  BY <1>1 DEF Good, GoodStage, GoodAnswer, SignsOut
<1>3. LateRefusedFor(r)'
  BY DEF LateRefusedFor, Belated
<1> QED
  BY <1>1, <1>2, <1>3, QuietInv DEF QuietStep

\* A request not answered yet has no answer.
LEMMA Unanswered ==
    ASSUME Inv, NEW r \in Workload, pc[r] # "handled"
    PROVE  answer[r] = 0
BY DEF Inv, Good, GoodAnswer

-----------------------------------------------------------------------------
LEMMA WithSessionIDInv ==
    ASSUME Inv, NEW r \in Workload, answer[r] = 0, QuietStep(r), Presents(r),
           NEW stage \in {"getState", "endSession"}, NEW status \in {200, 401},
           WithSessionID(r, stage, status),
           stage = "getState" <=> r.type \in {"profile", "update", "other"},
           stage = "endSession" => r.type = "signOut" /\ r.mine,
           r.auth.credential = "session" => HasToken(r.auth.session),
           Belated(r) => r.auth.credential = "session" /\ SignedOut(r.auth.session)
    PROVE  Inv'
<1>1. CASE r.auth.credential = "missing"
  <2>1. Answer(r, status)
    BY <1>1 DEF WithSessionID
  <2>2. ~SignsOut(r) /\ ~Belated(r)
    BY <1>1 DEF SignsOut
  <2> QED
    BY <2>1, <2>2, QuietAnswer DEF Status
<1>2. CASE r.auth.credential = "truncated"
  <2>1. Drop(r)
    BY <1>2 DEF WithSessionID
  <2> QED
    BY <1>2, <2>1, QuietDrop
<1>3. CASE r.auth.credential = "session"
  <2>1. Await(r, stage, 0)
    BY <1>3 DEF WithSessionID
  <2>2. Moved(r) /\ pc'[r] = stage
    BY <2>1, AwaitMoves DEF Inv, Stage
  <2>3. Grows
    BY <2>1, AwaitMoves DEF Inv, Stage, Grows, Moved, Same, QuietStep
  <2>4. HasSession(r)'
    BY <1>3, <2>3, TokensStay DEF HasSession
  <2>5. GoodStage(r)'
    BY <2>2, <2>4 DEF GoodStage
  <2>6. Belated(r) => stage = "getState"
    BY DEF Belated
  <2> QED
    BY <2>1, <2>5, <2>6, QuietAwait DEF Stage
<1> QED
  BY <1>1, <1>2, <1>3, RequestFields DEF Presented

LEMMA ReceiveInv ==
    ASSUME Inv, NEW r \in Workload, Receive(r)
    PROVE  Inv'
<1>1. answer[r] = 0 /\ pc[r] = "waiting"
  BY Unanswered DEF Receive
<1>2. QuietStep(r)
  BY DEF Receive, stores, QuietStep, Inv, TypeOK
<1>3. r \notin late \/ ~(r.type \in {"profile", "update"} /\ faults = 0)
  BY <1>1 DEF Inv, LateRefused
<1>4. Belated(r) => r.auth.credential = "session" /\ SignedOut(r.auth.session)
  BY <1>2, <1>3 DEF Belated, Receive, QuietStep
<1>5. CASE r.type \in {"signUp", "signIn"}
  <2>1. ~SignsOut(r) /\ ~Belated(r)
    BY <1>5 DEF SignsOut, Belated
  <2>2. ASSUME NEW status \in {400, 415}, Answer(r, status) PROVE Inv'
    BY <1>1, <1>2, <2>1, <2>2, QuietAnswer DEF Status
  <2>3. ASSUME NEW stage \in {"insert", "findUser"}, Await(r, stage, 0),
               stage = "insert" <=> r.type = "signUp"
        PROVE  Inv'
    <3>1. pc'[r] = stage
      BY <2>3, AwaitMoves DEF Inv, Stage
    <3>2. GoodStage(r)'
      BY <1>5, <2>3, <3>1 DEF GoodStage
    <3> QED
      BY <1>1, <1>2, <2>1, <2>3, <3>2, QuietAwait DEF Stage
  <2>4. CASE ~r.json
    <3>1. Answer(r, 415)
      BY <1>5, <2>4 DEF Receive
    <3> QED
      BY <2>2, <3>1
  <2>5. CASE r.json /\ r.type = "signUp"
    <3>1. Await(r, "insert", 0) \/ Answer(r, 400)
      BY <2>5 DEF Receive
    <3> QED
      BY <2>2, <2>3, <2>5, <3>1
  <2>6. CASE r.json /\ r.type = "signIn"
    <3>1. Await(r, "findUser", 0)
      BY <2>6 DEF Receive
    <3> QED
      BY <2>3, <2>6, <3>1
  <2> QED
    BY <1>5, <2>4, <2>5, <2>6
<1>6. CASE r.type \in {"profile", "update"} \/ (r.type = "other" /\ r.specific)
  <2>1. WithSessionID(r, "getState", 401) /\ Presents(r)
    BY <1>6 DEF Receive, Presents
  <2>2. r.auth.credential = "session" => HasToken(r.auth.session)
    BY <2>1 DEF Receive
  <2> QED
    BY <1>1, <1>2, <1>4, <1>6, <2>1, <2>2, WithSessionIDInv
<1>7. CASE r.type = "signOut" /\ r.mine
  <2>1. WithSessionID(r, "endSession", 200) /\ Presents(r)
    BY <1>7 DEF Receive, Presents
  <2>2. r.auth.credential = "session" => HasToken(r.auth.session)
    BY <2>1 DEF Receive
  <2> QED
    BY <1>1, <1>2, <1>4, <1>7, <2>1, <2>2, WithSessionIDInv
<1>8. CASE r.type = "signOut" /\ ~r.mine
  <2>1. Answer(r, 403)
    BY <1>8 DEF Receive
  <2>2. ~SignsOut(r) /\ ~Belated(r)
    BY <1>8 DEF SignsOut, Belated
  <2> QED
    BY <1>1, <1>2, <2>1, <2>2, QuietAnswer DEF Status
<1>9. CASE r.type = "other" /\ ~r.specific
  <2>1. Answer(r, 405)
    BY <1>9 DEF Receive
  <2>2. ~SignsOut(r) /\ ~Belated(r)
    BY <1>9 DEF SignsOut, Belated
  <2> QED
    BY <1>1, <1>2, <2>1, <2>2, QuietAnswer DEF Status
<1> QED
  BY <1>5, <1>6, <1>7, <1>8, <1>9, RequestFields

-----------------------------------------------------------------------------
\* The calls that only read, or write LoginAttempts.
LEMMA CallFacts ==
    ASSUME Inv, NEW r \in Workload, Handling(r)
    PROVE  /\ answer[r] = 0
           /\ pc[r] # "getState" => ~(r \in late /\ r.type \in {"profile", "update"} /\ faults = 0)
<1>1. answer[r] = 0
  BY Unanswered DEF Handling
<1> QED
  BY <1>1 DEF Inv, LateRefused, Handling

LEMMA QuietCall ==
    ASSUME Inv, NEW r \in Workload, Works \/ Fails, UNCHANGED <<users, nextID, sessions>>,
           logins' \subseteq Ids
    PROVE  QuietStep(r) /\ (Belated(r) => r \in late /\ faults = 0) /\ (Fails => ~Belated(r))
BY BoundsAreNumbers DEF Inv, TypeOK, Works, Fails, QuietStep, Belated

LEMMA SignInFindUserInv ==
    ASSUME Inv, NEW r \in Workload, SignInFindUser(r)
    PROVE  Inv'
<1>1. /\ answer[r] = 0 /\ QuietStep(r) /\ pc[r] = "findUser"
      /\ UNCHANGED users
  BY CallFacts, QuietCall DEF SignInFindUser, stores, Handling, Inv, TypeOK
<1>2. r.type = "signIn"
  BY <1>1 DEF Inv, Good, GoodStage
<1>3. ~SignsOut(r) /\ ~Belated(r)
  BY <1>2 DEF SignsOut, Belated
<1>4. ASSUME NEW id \in DOMAIN users, Authenticates(r, id), Await(r, "trackLogin", id)
      PROVE  Inv'
  <2>1. id \in Nat
    BY DEF Inv, TypeOK
  <2>2. pc'[r] = "trackLogin" /\ account'[r] = id
    BY <1>4, <2>1, AwaitMoves DEF Inv, Stage
  <2>3. GoodStage(r)'
    BY <1>1, <1>2, <1>4, <2>2 DEF GoodStage, Begins, Owns, Authenticates
  <2> QED
    BY <1>1, <1>3, <1>4, <2>1, <2>3, QuietAwait DEF Stage
<1>5. CASE Answer(r, 401)
  BY <1>1, <1>3, <1>5, QuietAnswer DEF Status
<1> QED
  BY <1>4, <1>5 DEF SignInFindUser

LEMMA SignInTrackLoginInv ==
    ASSUME Inv, NEW r \in Workload, SignInTrackLogin(r)
    PROVE  Inv'
<1>1. logins' \subseteq Ids
  BY RequestFields DEF SignInTrackLogin, Inv, TypeOK
<1>2. /\ answer[r] = 0 /\ QuietStep(r) /\ pc[r] = "trackLogin"
      /\ UNCHANGED users
  BY <1>1, CallFacts, QuietCall DEF SignInTrackLogin, Handling
<1>3. r.type = "signIn" \/ r.type = "signUp"
  BY <1>2 DEF Inv, Good, GoodStage, Begins
<1>4. ~Belated(r)
  BY <1>3 DEF Belated
<1>5. Await(r, "beginSession", account[r]) /\ account[r] \in Nat
  BY DEF SignInTrackLogin, Inv, TypeOK
<1>6. pc'[r] = "beginSession" /\ account'[r] = account[r]
  BY <1>5, AwaitMoves DEF Inv, Stage
<1>7. GoodStage(r)'
  BY <1>2, <1>6 DEF Inv, Good, GoodStage, Begins, Owns
<1> QED
  BY <1>2, <1>4, <1>5, <1>7, QuietAwait DEF Stage

(***************************************************************************)
(* The owner of the session a request presents, at the time it is looked   *)
(* up.  What the handler does after that it does in this owner's name.     *)
(***************************************************************************)
LEMMA SessionHasOwner ==
    ASSUME Inv, NEW sid, HasToken(sid), sessions[sid] # 0
    PROVE  /\ sid \in Ids
           /\ sessions[sid] \in DOMAIN users /\ sessions[sid] \in Nat
           /\ BegunByOwner(sid, sessions[sid])
<1>1. PICK q \in Workload : q.id = sid
  BY DEF HasToken
<1>2. Begins(q) /\ Owns(q, sessions[sid])
  BY <1>1 DEF Inv, SessionsBegun
<1> QED
  BY <1>1, <1>2, RequestFields DEF Inv, TypeOK, Begins, Owns, BegunByOwner

LEMMA GetStateInv ==
    ASSUME Inv, NEW r \in Workload, GetState(r)
    PROVE  Inv'
<1> DEFINE sid == r.auth.session
           id == sessions[sid]
<1>1. /\ answer[r] = 0 /\ QuietStep(r) /\ pc[r] = "getState"
      /\ Belated(r) => r \in late /\ faults = 0
      /\ Fails => ~Belated(r)
      /\ UNCHANGED users
  BY CallFacts, QuietCall DEF GetState, stores, Handling, Inv, TypeOK
<1>2. r.type \in {"profile", "update", "other"} /\ HasSession(r)
  BY <1>1 DEF Inv, Good, GoodStage
<1>3. sid \in Ids
  BY <1>2 DEF HasSession, HasToken, Ids
<1>4. Belated(r) => SignedOut(sid) /\ sessions[sid] = 0
  BY <1>1, <1>2, <1>3 DEF Inv, Belated, LateRefused, SignedOutGone
<1>5. ~SignsOut(r)
  BY <1>2 DEF SignsOut
<1>6. CASE Answer(r, 401)
  BY <1>1, <1>4, <1>5, <1>6, QuietAnswer DEF Status
<1>7. CASE sid \in Ids /\ id # 0 /\ AfterGetState(r, id)
  <2>1. id \in DOMAIN users /\ id \in Nat /\ BegunByOwner(sid, id)
    BY <1>2, <1>7, SessionHasOwner DEF HasSession
  <2>2. ~Belated(r)
    BY <1>4, <1>7
  <2>3. ASSUME NEW status \in {403, 405, 415}, Answer(r, status) PROVE Inv'
    BY <1>1, <1>5, <2>2, <2>3, QuietAnswer DEF Status
  <2>4. CASE r.type = "profile" /\ Await(r, "getUser", id)
    <3>1. pc'[r] = "getUser"
      BY <2>1, <2>4, AwaitMoves DEF Inv, Stage
    <3>2. GoodStage(r)'
      BY <2>4, <3>1 DEF GoodStage
    <3> QED
      BY <1>1, <2>1, <2>2, <2>4, <3>2, QuietAwait DEF Stage
  <2>5. CASE r.type = "update" /\ r.who \in {0, id} /\ Await(r, "updateUser", id)
    <3>1. pc'[r] = "updateUser" /\ account'[r] = id
      BY <2>1, <2>5, AwaitMoves DEF Inv, Stage
    <3>2. BegunByOwner(sid, account[r])'
      BY <1>1, <2>1, <3>1 DEF BegunByOwner
    <3>3. GoodStage(r)'
      BY <1>1, <2>1, <2>5, <3>1, <3>2 DEF GoodStage
    <3> QED
      BY <1>1, <2>1, <2>2, <2>5, <3>3, QuietAwait DEF Stage
  <2> QED
    BY <1>2, <1>7, <2>3, <2>4, <2>5 DEF AfterGetState
<1> QED
  BY <1>3, <1>6, <1>7 DEF GetState

LEMMA ReadUserInv ==
    ASSUME Inv, NEW r \in Workload, ProfileGetUser(r) \/ UpdateGetUser(r)
    PROVE  Inv'
<1>1. PICK status \in {200, 404, 500} : Answer(r, status)
  BY DEF ProfileGetUser, UpdateGetUser
<1>2. answer[r] = 0 /\ QuietStep(r) /\ pc[r] \in {"getUser", "getUpdated"} /\ ~Belated(r)
  BY CallFacts, QuietCall DEF ProfileGetUser, UpdateGetUser, stores, Handling, Inv, TypeOK, Belated
<1>3. ~SignsOut(r)
  BY <1>2 DEF Inv, Good, GoodStage, SignsOut
<1> QED
  BY <1>1, <1>2, <1>3, QuietAnswer DEF Status

-----------------------------------------------------------------------------
(***************************************************************************)
(* Creating an account: the number MySQL gave it was never used, and no    *)
(* other account has its email or its user name.                           *)
(***************************************************************************)
LEMMA InsertKeeps ==
    ASSUME Inv, NEW r \in Workload, r.type = "signUp",
           Inserted(r) \/ Refused(r) \/ NotExecuted
    PROVE  /\ nextID' \in Nat \ {0} /\ nextID <= nextID'
           /\ DOMAIN users' \subseteq 1 .. (nextID' - 1)
           /\ \A id \in DOMAIN users' : users'[id] \in Row
           /\ \A id \in DOMAIN users : id \in DOMAIN users' /\ users'[id] = users[id]
           /\ Inserted(r) => /\ nextID \in DOMAIN users' /\ users'[nextID].email = r.email
                             /\ users'[nextID].password = r.password
           /\ AccountsDistinct'
<1>1. nextID \in Nat \ {0} /\ DOMAIN users \subseteq 1 .. (nextID - 1)
  BY DEF Inv, TypeOK
<1>2. nextID \notin DOMAIN users
  BY <1>1
<1>3. CASE Inserted(r)
  <2> DEFINE row == [email |-> r.email, userName |-> r.userName,
                     password |-> r.password, name |-> r.name]
  <2>1. row \in Row /\ row.email = r.email /\ row.password = r.password
        /\ row.userName = r.userName
    BY RequestFields DEF Row, Begins
  <2>2. /\ DOMAIN users' = DOMAIN users \cup {nextID}
        /\ \A id \in DOMAIN users : users'[id] = users[id]
        /\ users'[nextID] = row
        /\ nextID' = nextID + 1
    BY <1>2, <1>3 DEF Inserted, With
  <2> HIDE DEF row
  <2>3. \A id \in DOMAIN users : users[id].email # row.email /\ users[id].userName # row.userName
    BY <1>3, <2>1 DEF Inserted, Duplicate
  <2>4. AccountsDistinct'
    BY <2>2, <2>3 DEF Inv, AccountsDistinct
  <2>5. nextID' \in Nat \ {0} /\ nextID <= nextID' /\ DOMAIN users' \subseteq 1 .. (nextID' - 1)
    BY <1>1, <2>2
  <2>6. /\ nextID \in DOMAIN users'
        /\ users'[nextID].email = r.email /\ users'[nextID].password = r.password
    BY <2>1, <2>2
  <2> QED
    BY <2>1, <2>2, <2>4, <2>5, <2>6 DEF Inv, TypeOK
<1>4. CASE ~Inserted(r) /\ (Refused(r) \/ NotExecuted)
  <2>1. users' = users /\ nextID' \in {nextID, nextID + 1}
    BY <1>4 DEF Refused, NotExecuted
  <2>2. nextID' \in Nat \ {0} /\ nextID <= nextID' /\ DOMAIN users' \subseteq 1 .. (nextID' - 1)
    BY <1>1, <2>1
  <2>3. AccountsDistinct'
    BY <2>1 DEF Inv, AccountsDistinct
  <2> QED
    BY <1>4, <2>1, <2>2, <2>3 DEF Inv, TypeOK
<1> QED
  BY <1>3, <1>4

LEMMA SignUpInsertInv ==
    ASSUME Inv, NEW r \in Workload, SignUpInsert(r)
    PROVE  Inv'
<1>1. answer[r] = 0 /\ pc[r] = "insert"
  BY CallFacts DEF SignUpInsert, Handling
<1>2. r.type = "signUp"
  BY <1>1 DEF Inv, Good, GoodStage
<1>3. Inserted(r) \/ Refused(r) \/ NotExecuted
  BY DEF SignUpInsert
<1>4. /\ nextID \in Nat
      /\ faults' \in 0 .. MaxFaults /\ (faults' = 0 => faults = 0) /\ late' = late
      /\ deploys' = deploys /\ logins' = logins /\ sessions' = sessions
  BY BoundsAreNumbers DEF SignUpInsert, Works, Fails, Inv, TypeOK
<1>5. \/ /\ Inserted(r) /\ Moved(r) /\ answer'[r] = 0
         /\ pc'[r] = "beginSession" /\ account'[r] = nextID
      \/ Moved(r) /\ answer'[r] = 400 /\ pc'[r] = "handled"
  BY <1>1, <1>4, AwaitMoves, AnswerMoves DEF SignUpInsert, Inv, Stage, Status
<1>6. Grows
  BY <1>1, <1>2, <1>3, <1>4, <1>5, InsertKeeps DEF Grows, Moved, Same
<1>7. TypeOK'
  <2>1. sessions' \in [Ids -> 0 .. (nextID' - 1)]
    <3>1. \A n \in 0 .. (nextID - 1) : n \in 0 .. (nextID' - 1)
      BY <1>2, <1>3, <1>4, InsertKeeps
    <3> QED
      BY <1>4, <3>1 DEF Inv, TypeOK
  <2> QED
    BY <1>2, <1>3, <1>4, <1>5, <2>1, InsertKeeps DEF Inv, TypeOK, Moved
<1>8. AccountsDistinct'
  BY <1>2, <1>3, InsertKeeps
<1>9. SessionsBegun'
  BY <1>4, <1>6 DEF Inv, SessionsBegun, Grows, Owns
<1>10. ~SignsOut(r)
  BY <1>2 DEF SignsOut
<1>11. SignedOutGone'
  BY <1>4, <1>5, <1>10, NobodySignedOut DEF Inv, SignedOutGone
<1>12. Good(r)'
  BY <1>2, <1>3, <1>5, InsertKeeps DEF Good, GoodStage, GoodAnswer, Begins, Owns
<1>13. LateRefusedFor(r)'
  BY <1>2 DEF LateRefusedFor
<1> QED
  BY <1>4, <1>5, <1>6, <1>7, <1>8, <1>9, <1>11, <1>12, <1>13, StepInv

(***************************************************************************)
(* Beginning a session: its id was given to nobody before, so that nobody  *)
(* has signed it out.                                                      *)
(***************************************************************************)
LEMMA BeginSessionInv ==
    ASSUME Inv, NEW r \in Workload, BeginSession(r)
    PROVE  Inv'
<1>1. answer[r] = 0 /\ pc[r] = "beginSession"
  BY CallFacts DEF BeginSession, Handling
<1>2. Begins(r) /\ Owns(r, account[r])
  BY <1>1 DEF Inv, Good, GoodStage
<1>3. /\ faults' \in 0 .. MaxFaults /\ (faults' = 0 => faults = 0) /\ late' = late
      /\ deploys' = deploys /\ logins' = logins /\ users' = users /\ nextID' = nextID
      /\ sessions' = sessions \/ sessions' = [sessions EXCEPT ![r.id] = account[r]]
  BY BoundsAreNumbers DEF BeginSession, Works, Fails, Inv, TypeOK
<1>4. Moved(r) /\ answer'[r] \in {200, 201} /\ pc'[r] = "handled" /\ account'[r] = account[r]
  BY AnswerMoves DEF BeginSession, Inv, Status
<1>5. Grows
  BY <1>1, <1>3, <1>4 DEF Grows, Moved, Same
<1>6. account[r] \in 0 .. (nextID - 1) /\ r.id \in Ids /\ account[r] # 0
  BY <1>2, RequestFields DEF Inv, TypeOK, Owns
<1>7. TypeOK'
  <2>1. sessions' \in [Ids -> 0 .. (nextID' - 1)]
    BY <1>3, <1>6 DEF Inv, TypeOK
  <2> QED
    BY <1>3, <1>4, <2>1 DEF Inv, TypeOK, Moved
<1>8. AccountsDistinct'
  BY <1>3 DEF Inv, AccountsDistinct
<1>9. SessionsBegun'
  <2> SUFFICES ASSUME NEW q \in Workload, sessions'[q.id] # 0
               PROVE  Begins(q) /\ Owns(q, sessions[q.id])'
    BY DEF SessionsBegun, Begins
  <2>1. CASE q = r
    BY <1>2, <1>3, <1>6, <2>1 DEF Inv, TypeOK, SessionsBegun, Owns
  <2>2. CASE q # r
    <3>1. q.id # r.id /\ q.id \in Ids
      BY <2>2, SessionIdsAreUnique, RequestFields
    <3>2. sessions'[q.id] = sessions[q.id]
      BY <1>3, <3>1 DEF Inv, TypeOK
    <3> QED
      BY <1>3, <3>2 DEF Inv, SessionsBegun, Owns
  <2> QED
    BY <2>1, <2>2
<1>10. ~SignsOut(r)
  BY <1>2 DEF SignsOut, Begins
<1>11. SignedOutGone'
  <2> SUFFICES ASSUME faults' = 0, NEW sid \in Ids, SignedOut(sid)'
               PROVE  sessions'[sid] = 0
    BY DEF SignedOutGone, Ids
  <2>1. SignedOut(sid) /\ sessions[sid] = 0
    BY <1>3, <1>4, <1>10, NobodySignedOut DEF Inv, SignedOutGone
  <2>2. HasToken(sid)
    BY <2>1 DEF Inv, Good, GoodAnswer, SignedOut
  <2>3. r.id # sid
    BY <1>1, <2>2, SessionIdsAreUnique DEF HasToken
  <2> QED
    BY <1>3, <2>1, <2>3 DEF Inv, TypeOK
<1>12. Good(r)'
  BY <1>2, <1>3, <1>4 DEF Good, GoodStage, GoodAnswer, Begins, Owns
<1>13. LateRefusedFor(r)'
  BY <1>2 DEF LateRefusedFor, Begins
<1> QED
  BY <1>3, <1>4, <1>5, <1>7, <1>8, <1>9, <1>11, <1>12, <1>13, StepInv

\* Updating a profile leaves the email and the password of every account.
LEMMA UpdateKeeps ==
    ASSUME Inv, NEW r \in Workload, r.type = "update", Updated(r) \/ UNCHANGED users
    PROVE  /\ DOMAIN users' = DOMAIN users
           /\ \A id \in DOMAIN users :
                 /\ users'[id] \in Row
                 /\ users'[id].email = users[id].email
                 /\ users'[id].userName = users[id].userName
                 /\ users'[id].password = users[id].password
                 /\ id # account[r] => users'[id] = users[id]
<1>1. \A id \in DOMAIN users : users[id] \in Row
  BY DEF Inv, TypeOK
<1>2. r.name \in Names
  BY RequestFields
<1>3. CASE Updated(r)
  <2>1. DOMAIN users' = DOMAIN users
    BY <1>3 DEF Updated
  <2>2. \A id \in DOMAIN users :
           users'[id] = IF id = account[r] THEN [users[id] EXCEPT !.name = r.name] ELSE users[id]
    BY <1>3 DEF Updated
  <2> QED
    BY <1>1, <1>2, <2>1, <2>2 DEF Row
<1>4. CASE UNCHANGED users
  BY <1>1, <1>4
<1> QED
  BY <1>3, <1>4

LEMMA UpdateUserInv ==
    ASSUME Inv, NEW r \in Workload, UpdateUser(r)
    PROVE  Inv'
<1>1. answer[r] = 0 /\ pc[r] = "updateUser" /\ ~(r \in late /\ faults = 0)
  BY CallFacts DEF UpdateUser, Handling, Inv, Good, GoodStage
<1>2. /\ r.type = "update" /\ r.who \in {0, account[r]} /\ account[r] \in DOMAIN users
      /\ BegunByOwner(r.auth.session, account[r])
  BY <1>1 DEF Inv, Good, GoodStage
<1>3. /\ faults' \in 0 .. MaxFaults /\ (faults' = 0 => faults = 0) /\ late' = late
      /\ deploys' = deploys /\ logins' = logins /\ nextID' = nextID /\ sessions' = sessions
      /\ Updated(r) \/ UNCHANGED users
  BY BoundsAreNumbers DEF UpdateUser, Works, Fails, Inv, TypeOK
<1>4. /\ Moved(r) /\ account'[r] = account[r]
      /\ \/ answer'[r] = 0 /\ pc'[r] = "getUpdated"
         \/ answer'[r] = 500 /\ pc'[r] = "handled"
  BY <1>1, AwaitMoves, AnswerMoves DEF UpdateUser, Inv, TypeOK, Stage, Status
<1>5. Grows
  BY <1>1, <1>2, <1>3, <1>4, UpdateKeeps DEF Grows, Moved, Same
<1>6. TypeOK'
  BY <1>2, <1>3, <1>4, UpdateKeeps DEF Inv, TypeOK, Moved
<1>7. AccountsDistinct'
  BY <1>2, <1>3, UpdateKeeps DEF Inv, AccountsDistinct
<1>8. SessionsBegun'
  BY <1>3, <1>5 DEF Inv, SessionsBegun, Grows, Owns
<1>9. ~SignsOut(r)
  BY <1>2 DEF SignsOut
<1>10. SignedOutGone'
  BY <1>3, <1>4, <1>9, NobodySignedOut DEF Inv, SignedOutGone
<1>11. Good(r)'
  BY <1>2, <1>4, <1>5 DEF Good, GoodStage, GoodAnswer, BegunByOwner, Grows
<1>12. LateRefusedFor(r)'
  BY <1>1, <1>3 DEF LateRefusedFor
<1> QED
  BY <1>3, <1>4, <1>5, <1>6, <1>7, <1>8, <1>10, <1>11, <1>12, StepInv

LEMMA SignOutEndSessionInv ==
    ASSUME Inv, NEW r \in Workload, SignOutEndSession(r)
    PROVE  Inv'
<1> DEFINE sid == r.auth.session
<1>1. answer[r] = 0 /\ pc[r] = "endSession"
  BY CallFacts DEF SignOutEndSession, Handling
<1>2. r.type = "signOut" /\ HasSession(r)
  BY <1>1 DEF Inv, Good, GoodStage
<1>3. /\ faults' \in 0 .. MaxFaults /\ (faults' = 0 => faults = 0) /\ late' = late
      /\ deploys' = deploys /\ logins' = logins /\ users' = users /\ nextID' = nextID
      /\ sessions' = sessions \/ sessions' = [sessions EXCEPT ![sid] = 0]
      /\ faults' = 0 => sessions' = [sessions EXCEPT ![sid] = 0]
  BY BoundsAreNumbers DEF SignOutEndSession, Works, Fails, Inv, TypeOK
<1>4. Moved(r) /\ answer'[r] = 200 /\ pc'[r] = "handled"
  BY AnswerMoves DEF SignOutEndSession, Inv, Status
<1>5. Grows
  BY <1>1, <1>3, <1>4 DEF Grows, Moved, Same
<1>6. /\ sessions' \in [Ids -> 0 .. (nextID - 1)]
      /\ \A id \in Ids : sessions'[id] \in {0, sessions[id]}
  BY <1>3 DEF Inv, TypeOK
<1>7. TypeOK'
  BY <1>3, <1>4, <1>6 DEF Inv, TypeOK, Moved
<1>8. AccountsDistinct'
  BY <1>3 DEF Inv, AccountsDistinct
<1>9. SessionsBegun'
  BY <1>3, <1>6, RequestFields DEF Inv, SessionsBegun, Owns
<1>10. SignedOutGone'
  <2> SUFFICES ASSUME faults' = 0, NEW id \in Ids, SignedOut(id)'
               PROVE  sessions'[id] = 0
    BY DEF SignedOutGone, Ids
  <2>1. CASE id = sid
    BY <1>3, <2>1 DEF Inv, TypeOK
  <2>2. CASE id # sid
    <3>1. SignedOut(id)
      BY <1>4, <2>2 DEF SignedOut, Moved, Same
    <3> QED
      BY <1>3, <1>6, <3>1 DEF Inv, SignedOutGone
  <2> QED
    BY <2>1, <2>2
<1>11. HasToken(sid)'
  BY <1>2, <1>5, TokensStay DEF HasSession
<1>12. Good(r)'
  BY <1>2, <1>4, <1>11 DEF Good, GoodStage, GoodAnswer
<1>13. LateRefusedFor(r)'
  BY <1>2 DEF LateRefusedFor
<1> QED
  BY <1>3, <1>4, <1>5, <1>7, <1>8, <1>9, <1>10, <1>12, <1>13, StepInv

LEMMA SessionExpiresInv ==
    ASSUME Inv, NEW sid \in Ids, SessionExpires(sid)
    PROVE  Inv'
<1>1. /\ UNCHANGED <<users, nextID, logins, pc, account, answer, late, faults, deploys>>
      /\ sessions' \in [Ids -> 0 .. (nextID - 1)]
      /\ \A id \in Ids : sessions'[id] \in {0, sessions[id]}
  BY DEF SessionExpires, Inv, TypeOK
<1>2. Grows /\ \A q \in Workload : Same(q)
  BY <1>1 DEF Grows, Same
<1>3. \A q \in Workload : Good(q)'
  BY <1>2, GoodStable DEF Inv
<1>4. TypeOK' /\ AccountsDistinct'
  BY <1>1 DEF Inv, TypeOK, AccountsDistinct
<1>5. SessionsBegun'
  BY <1>1, RequestFields DEF Inv, SessionsBegun, Owns
<1>6. SignedOutGone' /\ LateRefused'
  BY <1>1 DEF Inv, SignedOutGone, LateRefused, SignedOut
<1> QED
  BY <1>3, <1>4, <1>5, <1>6 DEF Inv

\* A deployment forgets accounts and sessions and ends every handler.
LEMMA DeployInv ==
    ASSUME Inv, Deploy
    PROVE  Inv'
<1>1. /\ users' = NoRows /\ nextID' = 1 /\ logins' = {} /\ sessions' = NoSessions
      /\ UNCHANGED <<account, answer, late, faults>>
      /\ deploys' \in 0 .. MaxDeploys /\ deploys' # 0
  BY BoundsAreNumbers DEF Deploy, Inv, TypeOK
<1>2. /\ pc' \in [Workload -> Stage]
      /\ \A q \in Workload : /\ pc'[q] \in {"unsent", "waiting", "handled", "dropped", "cutOff"}
                             /\ pc[q] = "handled" => pc'[q] = "handled"
                             /\ pc'[q] = pc[q] \/ pc'[q] = "cutOff"
  BY DEF Deploy, Handling, Inv, TypeOK, Stage
<1>3. DOMAIN NoRows = {}
  BY DEF NoRows
<1>4. \A sid \in Ids : NoSessions[sid] = 0
  BY DEF NoSessions
<1>5. TypeOK'
  <2>1. NoSessions \in [Ids -> 0 .. (1 - 1)]
    BY DEF NoSessions
  <2> QED
    BY <1>1, <1>2, <1>3, <2>1 DEF Inv, TypeOK
<1>6. AccountsDistinct'
  BY <1>1, <1>3 DEF AccountsDistinct
<1>7. ASSUME NEW q \in Workload PROVE Good(q)'
  <2>1. GoodStage(q)'
    BY <1>2 DEF GoodStage
  <2>2. GoodAnswer(q)'
    BY <1>1, <1>2 DEF Inv, Good, GoodAnswer, HasToken
  <2> QED
    BY <2>1, <2>2 DEF Good
<1>8. SessionsBegun'
  BY <1>1, <1>4, RequestFields DEF SessionsBegun
<1>9. SignedOutGone'
  BY <1>1, <1>4 DEF SignedOutGone
<1>10. LateRefused'
  BY <1>1, <1>2 DEF Inv, TypeOK, LateRefused, SignedOut
<1> QED
  BY <1>5, <1>6, <1>7, <1>8, <1>9, <1>10 DEF Inv

-----------------------------------------------------------------------------
LEMMA InitInv == Init => Inv
<1> SUFFICES ASSUME Init PROVE Inv
  OBVIOUS
<1>1. /\ pc \in [Workload -> Stage]
      /\ \A r \in Workload : pc[r] \in {"waiting", "unsent"} /\ answer[r] = 0
  BY DEF Init, Stage
<1>2. DOMAIN users = {} /\ \A sid \in Ids : sessions[sid] = 0
  BY DEF Init, NoRows, NoSessions
<1>3. TypeOK
  <2>1. sessions \in [Ids -> 0 .. (nextID - 1)]
    BY DEF Init, NoSessions
  <2> QED
    BY <1>1, <1>2, <2>1, BoundsAreNumbers DEF Init, TypeOK, Status
<1>4. AccountsDistinct
  BY <1>2 DEF AccountsDistinct
<1>5. \A r \in Workload : Good(r)
  BY <1>1 DEF Good, GoodStage, GoodAnswer
<1>6. SessionsBegun /\ LateRefused
  BY <1>2, RequestFields DEF Init, SessionsBegun, LateRefused
<1>7. SignedOutGone
  BY <1>2 DEF SignedOutGone
<1> QED
  BY <1>3, <1>4, <1>5, <1>6, <1>7 DEF Inv

LEMMA StutterInv ==
    ASSUME Inv, UNCHANGED vars
    PROVE  Inv'
<1>1. /\ UNCHANGED <<users, nextID, logins, sessions, pc, account, answer>>
      /\ UNCHANGED <<late, faults, deploys>>
  BY DEF vars
<1>2. Grows /\ \A q \in Workload : Same(q)
  BY <1>1 DEF Grows, Same
<1>3. \A q \in Workload : Good(q)'
  BY <1>2, GoodStable DEF Inv
<1>4. TypeOK' /\ AccountsDistinct'
  BY <1>1 DEF Inv, TypeOK, AccountsDistinct
<1>5. SessionsBegun'
  BY <1>1 DEF Inv, SessionsBegun, Owns
<1>6. SignedOutGone' /\ LateRefused'
  BY <1>1 DEF Inv, SignedOutGone, LateRefused, SignedOut
<1> QED
  BY <1>3, <1>4, <1>5, <1>6 DEF Inv

LEMMA NextInv == Inv /\ [Next]_vars => Inv'
<1> SUFFICES ASSUME Inv, [Next]_vars PROVE Inv'
  OBVIOUS
<1>1. ASSUME NEW r \in Workload, HandlerStep(r) PROVE Inv'
  BY <1>1, SignUpInsertInv, BeginSessionInv, SignInFindUserInv, SignInTrackLoginInv,
     GetStateInv, ReadUserInv, UpdateUserInv, SignOutEndSessionInv DEF HandlerStep
<1> QED
  BY <1>1, ReceiveInv, SessionExpiresInv, DeployInv, StutterInv DEF Next

(***************************************************************************)
(* The invariant holds whatever requests are sent together, whatever calls *)
(* fail and whenever a new gateway is deployed.                            *)
(***************************************************************************)
THEOREM GatewayInvariant == Spec => []Inv
<1>1. Init => Inv
  BY InitInv
<1>2. Inv /\ [Next]_vars => Inv'
  BY NextInv
<1> QED
  BY <1>1, <1>2, PTL DEF Spec

\* The state of the gateway keeps its types.
THEOREM GatewayTypes == Spec => []TypeOK
<1>1. Inv => TypeOK
  BY DEF Inv
<1> QED
  BY <1>1, GatewayInvariant, PTL

(***************************************************************************)
(* No two accounts ever have an email or a user name in common (the unique *)
(* indexes, to which UsersHandler leaves it).                              *)
(***************************************************************************)
THEOREM GatewayAccountsDistinct == Spec => []AccountsDistinct
<1>1. Inv => AccountsDistinct
  BY DEF Inv
<1> QED
  BY <1>1, GatewayInvariant, PTL

(***************************************************************************)
(* A live session is of the account whose email and password the request   *)
(* that began it named, also after ids have started at 1 again.            *)
(***************************************************************************)
THEOREM GatewaySessionsAreOwn == Spec => []SessionsAreOwn
<1>1. Inv => SessionsAreOwn
  BY DEF Inv, SessionsBegun, SessionsAreOwn, Owns
<1> QED
  BY <1>1, GatewayInvariant, PTL

(***************************************************************************)
(* An account acknowledged with 201 is there, as long as MySQL's container *)
(* is.                                                                     *)
(***************************************************************************)
THEOREM GatewayAckedAccountStands == Spec => []AckedAccountStands
<1>1. Inv => AckedAccountStands
  BY DEF Inv, Good, GoodAnswer, AckedAccountStands
<1> QED
  BY <1>1, GatewayInvariant, PTL

(***************************************************************************)
(* Unless a call failed, nothing is done for a session whose sign-out was  *)
(* answered before the request came.                                       *)
(***************************************************************************)
THEOREM GatewaySignedOutStaysOut == Spec => []SignedOutStaysOut
<1>1. Inv => SignedOutStaysOut
  BY DEF Inv, LateRefused, SignedOutStaysOut
<1> QED
  BY <1>1, GatewayInvariant, PTL

(***************************************************************************)
(* The name of an account changes only at a request that addresses it and  *)
(* comes with a session its owner began, however many calls lie between    *)
(* the look-up of the session and the update.                              *)
(***************************************************************************)
THEOREM GatewayOwnProfileOnly == Spec => OwnProfileOnly
<1> DEFINE Authorized ==
      \A id \in DOMAIN users \cap DOMAIN users' :
          users'[id].name # users[id].name =>
              \E r \in Workload :
                  /\ r.type = "update" /\ r.who \in {0, id} /\ pc[r] = "updateUser"
                  /\ BegunByOwner(r.auth.session, id)
<1>1. Inv /\ [Next]_vars => [Authorized]_vars
  <2> SUFFICES ASSUME Inv, Next, NEW id \in DOMAIN users \cap DOMAIN users',
                      users'[id].name # users[id].name
               PROVE  \E r \in Workload :
                         /\ r.type = "update" /\ r.who \in {0, id} /\ pc[r] = "updateUser"
                         /\ BegunByOwner(r.auth.session, id)
    OBVIOUS
  <2>1. ASSUME NEW r \in Workload, SignUpInsert(r) PROVE FALSE
    <3>1. r.type = "signUp"
      BY <2>1 DEF SignUpInsert, Inv, Good, GoodStage
    <3>2. Inserted(r) \/ Refused(r) \/ NotExecuted
      BY <2>1 DEF SignUpInsert
    <3> QED
      BY <3>1, <3>2, InsertKeeps
  <2>2. ASSUME NEW r \in Workload, UpdateUser(r)
        PROVE  /\ r.type = "update" /\ r.who \in {0, id} /\ pc[r] = "updateUser"
               /\ BegunByOwner(r.auth.session, id)
    <3>1. /\ pc[r] = "updateUser" /\ r.type = "update" /\ r.who \in {0, account[r]}
          /\ BegunByOwner(r.auth.session, account[r])
      BY <2>2 DEF UpdateUser, Inv, Good, GoodStage
    <3>2. Updated(r) \/ UNCHANGED users
      BY <2>2 DEF UpdateUser
    <3>3. id = account[r]
      BY <3>1, <3>2, UpdateKeeps
    <3> QED
      BY <3>1, <3>3
  <2>3. ~Deploy
    BY DEF Deploy, NoRows
  <2>4. ASSUME NEW r \in Workload,
               \/ Receive(r) \/ BeginSession(r) \/ SignInFindUser(r) \/ SignInTrackLogin(r)
               \/ GetState(r) \/ ProfileGetUser(r) \/ UpdateGetUser(r) \/ SignOutEndSession(r)
        PROVE  FALSE
    BY <2>4 DEF Receive, BeginSession, SignInFindUser, SignInTrackLogin, GetState,
                ProfileGetUser, UpdateGetUser, SignOutEndSession, stores
  <2>5. ASSUME NEW sid \in Ids, SessionExpires(sid) PROVE FALSE
    BY <2>5 DEF SessionExpires
  <2> QED
    BY <2>1, <2>2, <2>3, <2>4, <2>5 DEF Next, HandlerStep
<1> QED
  BY <1>1, GatewayInvariant, PTL DEF Spec, OwnProfileOnly

-----------------------------------------------------------------------------
(***************************************************************************)
(* The session stores below the handlers, for any clients, session ids and *)
(* states and any duration: what both keep, and that the one of Redis      *)
(* implements the interface Store.                                         *)
(***************************************************************************)
Busy(c, op) == call[c].op = op /\ call[c].phase # "idle"

\* The life of a session id agrees with the calls that are under way for it.
GoodCall(c) ==
    /\ call[c].phase = "between" => call[c].op = "get" /\ (kind = "mem" => call[c].state # NoState)
    /\ InCall(c, "save", "called") => call[c].state # NoState
    /\ Busy(c, "save") => life[call[c].sid] = "saving"
    /\ Busy(c, "get") => life[call[c].sid] \in {"given", "ending", "ended"}
    /\ Busy(c, "delete") => life[call[c].sid] \in {"ending", "ended"}

OneSaver ==
    \A b, c \in Clients : Busy(b, "save") /\ Busy(c, "save") /\ call[b].sid = call[c].sid => b = c

\* Time left and time passed since make up the duration.
Renewed(c) == SessionDuration - age[c] <= ttl[call[c].sid]

(***************************************************************************)
(* What a call has done lasts until it returns: a session that was used    *)
(* has been renewed since the call began, a deleted one is not there.      *)
(***************************************************************************)
GoodEffect(c) ==
    /\ /\ call[c].phase = "done" /\ call[c].ok /\ call[c].op # "delete"
       /\ life[call[c].sid] \in {"saving", "given"}
       => Renewed(c)
    /\ /\ call[c].phase = "between" /\ kind = "redis" /\ life[call[c].sid] = "given"
       => db[call[c].sid] = NoState \/ Renewed(c)
    /\ InCall(c, "delete", "done") /\ call[c].ok /\ kind = "redis" => db[call[c].sid] = NoState

GoodSession(sid) ==
    /\ life[sid] \in {"free", "saving"} => unused[sid] = SessionDuration
    /\ life[sid] = "given" => SessionDuration - unused[sid] <= ttl[sid]
    /\ life[sid] = "ended" /\ kind = "redis" => db[sid] = NoState

StoresInv ==
    /\ TimedTypeOK /\ kind \in {"redis", "mem"}
    /\ \A c \in Clients : GoodCall(c) /\ GoodEffect(c)
    /\ OneSaver
    /\ \A sid \in SessionIds : GoodSession(sid)

-----------------------------------------------------------------------------
\* The calls that are under way for a session id, and what it can become.
Bystanders(c) == \A b \in Clients \ {c} : call'[b] = call[b]

LEMMA NoCallIsCall == NoCall \in Call
<1>1. NoCall.sid \in SessionIds
  BY ThereAreSessionIds DEF NoCall
<1> QED
  BY <1>1 DEF NoCall, Call

LEMMA BeginCall ==
    ASSUME StoreTypeOK, NEW c \in Clients, NEW op \in {"save", "get", "delete"},
           NEW sid \in SessionIds, NEW state \in SessionStates \cup {NoState},
           Begin(c, op, sid, state)
    PROVE  /\ call' \in [Clients -> Call]
           /\ Bystanders(c)
           /\ call'[c] = [op |-> op, sid |-> sid, state |-> state,
                          phase |-> "called", ok |-> FALSE]
BY DEF StoreTypeOK, Begin, Call, Bystanders

LEMMA FinishCall ==
    ASSUME StoreTypeOK, NEW c \in Clients, NEW ok \in BOOLEAN,
           NEW state \in SessionStates \cup {NoState}, Finish(c, ok, state)
    PROVE  /\ call' \in [Clients -> Call]
           /\ Bystanders(c)
           /\ call'[c].op = call[c].op /\ call'[c].sid = call[c].sid
           /\ call'[c].phase = "done" /\ call'[c].ok = ok /\ call'[c].state = state
<1>1. call[c] \in Call /\ call \in [Clients -> Call]
  BY DEF StoreTypeOK
<1> DEFINE r == [call[c] EXCEPT !.phase = "done", !.ok = ok, !.state = state]
<1>2. call' = [call EXCEPT ![c] = r]
  BY <1>1 DEF Finish, Call
<1>3. r \in Call /\ r.op = call[c].op /\ r.sid = call[c].sid
      /\ r.phase = "done" /\ r.ok = ok /\ r.state = state
  BY <1>1 DEF Call
<1> HIDE DEF r
<1> QED
  BY <1>1, <1>2, <1>3 DEF Bystanders

\* A call that has sent the first of its two commands.
LEMMA PauseCall ==
    ASSUME StoreTypeOK, NEW c \in Clients,
           NEW state \in SessionStates \cup {NoState},
           call' = [call EXCEPT ![c].phase = "between", ![c].state = state]
    PROVE  /\ call' \in [Clients -> Call]
           /\ Bystanders(c)
           /\ call'[c].op = call[c].op /\ call'[c].sid = call[c].sid
           /\ call'[c].phase = "between" /\ call'[c].state = state
<1>1. call[c] \in Call /\ call \in [Clients -> Call]
  BY DEF StoreTypeOK
<1> DEFINE r == [call[c] EXCEPT !.phase = "between", !.state = state]
<1>2. call' = [call EXCEPT ![c] = r]
  BY <1>1 DEF Call
<1>3. r \in Call /\ r.op = call[c].op /\ r.sid = call[c].sid
      /\ r.phase = "between" /\ r.state = state
  BY <1>1 DEF Call
<1> HIDE DEF r
<1> QED
  BY <1>1, <1>2, <1>3 DEF Bystanders

-----------------------------------------------------------------------------
(***************************************************************************)
(* What a command does to the session it is for: nothing, it renews it, or *)
(* it removes it, and that only while or after it is deleted.  In Redis a  *)
(* session that is not there comes from nothing but its Save.              *)
(***************************************************************************)
Kept(sid) == db'[sid] = db[sid] /\ ttl'[sid] = ttl[sid]

Renewal(sid) ==
    /\ ttl'[sid] = SessionDuration /\ db'[sid] # NoState
    /\ kind = "redis" /\ db[sid] = NoState => life[sid] = "saving"

Removal(sid) ==
    ttl'[sid] = 0 /\ db'[sid] = NoState /\ life[sid] \in {"ending", "ended"}

CallWorks(sid) ==
    /\ db' \in [SessionIds -> SessionStates \cup {NoState}]
    /\ ttl' \in [SessionIds -> Duration]
    /\ \A other \in SessionIds \ {sid} : Kept(other)
    /\ Kept(sid) \/ Renewal(sid) \/ Removal(sid)

LEMMA PutWorks ==
    ASSUME StoresInv, NEW sid \in SessionIds, NEW state \in SessionStates, Put(sid, state),
           kind = "redis" /\ db[sid] = NoState => life[sid] = "saving"
    PROVE  CallWorks(sid)
<1>1. SessionDuration \in Duration /\ state # NoState
  BY DurationIsPositive, NoStateIsNoState DEF Duration
<1> QED
  BY <1>1 DEF StoresInv, TimedTypeOK, StoreTypeOK, Put, CallWorks, Kept, Renewal

LEMMA RemoveWorks ==
    ASSUME StoresInv, NEW sid \in SessionIds, Remove(sid), life[sid] \in {"ending", "ended"}
    PROVE  CallWorks(sid)
<1>1. 0 \in Duration
  BY DurationIsPositive DEF Duration
<1> QED
  BY <1>1 DEF StoresInv, TimedTypeOK, StoreTypeOK, Remove, CallWorks, Kept, Removal

LEMMA NothingWorks ==
    ASSUME StoresInv, NEW sid \in SessionIds, UNCHANGED <<db, ttl>>
    PROVE  CallWorks(sid)
BY DEF StoresInv, TimedTypeOK, StoreTypeOK, CallWorks, Kept

LEMMA ExpireCommandWorks ==
    ASSUME StoresInv, NEW sid \in SessionIds, ExpireCommand(sid), UNCHANGED db
    PROVE  CallWorks(sid)
<1>1. CASE db[sid] = NoState
  BY <1>1, NothingWorks DEF ExpireCommand
<1>2. CASE db[sid] # NoState
  <2>1. SessionDuration \in Duration
    BY DurationIsPositive DEF Duration
  <2> QED
    BY <1>2, <2>1 DEF StoresInv, TimedTypeOK, StoreTypeOK, ExpireCommand, CallWorks, Kept, Renewal
<1> QED
  BY <1>1, <1>2

\* A step of one client's call: the others see its work, not their calls changed.
Serves(c) ==
    /\ call' \in [Clients -> Call]
    /\ Bystanders(c)
    /\ call[c].phase # "idle" /\ call'[c].phase # "idle"
    /\ call'[c].op = call[c].op /\ call'[c].sid = call[c].sid
    /\ CallWorks(call[c].sid)
    /\ UNCHANGED <<life, age, unused, kind>>

LEMMA ServingKeepsInv ==
    ASSUME StoresInv, NEW c \in Clients, Serves(c), GoodCall(c)', GoodEffect(c)'
    PROVE  StoresInv'
<1> DEFINE sid == call[c].sid
<1>1. call[c] \in Call /\ sid \in SessionIds /\ \A b \in Clients : call[b].sid \in SessionIds
  BY DEF StoresInv, TimedTypeOK, StoreTypeOK, Call
<1>2. \A s \in SessionIds : Kept(s) \/ Renewal(s) \/ Removal(s)
  BY <1>1 DEF Serves, CallWorks
<1>3. ASSUME NEW s \in SessionIds PROVE db'[s] = NoState <=> ttl'[s] = 0
  <2>1. db[s] = NoState <=> ttl[s] = 0
    BY DEF StoresInv, TimedTypeOK
  <2> QED
    BY <1>2, <2>1, DurationIsPositive DEF Kept, Renewal, Removal
<1>4. TimedTypeOK' /\ kind' \in {"redis", "mem"}
  BY <1>3 DEF StoresInv, TimedTypeOK, StoreTypeOK, Serves, CallWorks
<1>5. ASSUME NEW b \in Clients \ {c} PROVE GoodCall(b)' /\ GoodEffect(b)'
  <2>1. call'[b] = call[b]
    BY DEF Serves, Bystanders
  <2>2. GoodCall(b) /\ GoodEffect(b)
    BY DEF StoresInv
  <2>3. GoodCall(b)'
    BY <2>1, <2>2 DEF GoodCall, Serves, Busy, InCall
  <2>4. Kept(call[b].sid) \/ Renewal(call[b].sid) \/ Removal(call[b].sid)
    BY <1>1, <1>2
  <2>5. age'[b] = age[b] /\ life' = life /\ kind' = kind
    BY DEF Serves
  <2>6. age[b] \in 0 .. SessionDuration /\ SessionDuration \in Nat
        /\ ttl[call[b].sid] \in 0 .. SessionDuration
    BY <1>1, DurationIsPositive DEF StoresInv, TimedTypeOK, Duration
  <2>7. life[call[b].sid] \in {"saving", "given"} /\ Renewed(b) => Renewed(b)'
    BY <2>1, <2>4, <2>5, <2>6 DEF Renewed, Kept, Renewal, Removal
  <2>8. life[call[b].sid] = "given" /\ db[call[b].sid] = NoState
        => db'[call[b].sid] = NoState \/ kind = "mem"
    BY <2>4 DEF StoresInv, Kept, Renewal, Removal
  <2>9. kind = "redis" /\ Busy(b, "delete") /\ db[call[b].sid] = NoState
        => db'[call[b].sid] = NoState
    BY <2>2, <2>4 DEF GoodCall, Kept, Renewal, Removal
  <2>10. GoodEffect(b)'
    BY <2>1, <2>2, <2>5, <2>7, <2>8, <2>9 DEF GoodEffect, InCall, Busy
  <2> QED
    BY <2>3, <2>10
<1>6. OneSaver'
  <2>1. ASSUME NEW b \in Clients PROVE
          /\ Busy(b, "save")' <=> Busy(b, "save")
          /\ call'[b].sid = call[b].sid
    BY DEF Serves, Bystanders, Busy
  <2> QED
    BY <2>1 DEF StoresInv, OneSaver
<1>7. ASSUME NEW s \in SessionIds PROVE GoodSession(s)'
  <2>1. GoodSession(s) /\ (Kept(s) \/ Renewal(s) \/ Removal(s))
    BY <1>2 DEF StoresInv
  <2>2. unused[s] \in 0 .. SessionDuration /\ SessionDuration \in Nat
    BY DurationIsPositive DEF StoresInv, TimedTypeOK, Duration
  <2> QED
    BY <2>1, <2>2 DEF GoodSession, Serves, Kept, Renewal, Removal
<1> QED
  BY <1>4, <1>5, <1>6, <1>7 DEF StoresInv

-----------------------------------------------------------------------------
\* The commands of the two stores, one by one.
LEMMA CallTypes ==
    ASSUME StoresInv, NEW c \in Clients
    PROVE  /\ StoreTypeOK
           /\ call[c] \in Call /\ call[c].sid \in SessionIds
           /\ call[c].state \in SessionStates \cup {NoState}
           /\ db[call[c].sid] \in SessionStates \cup {NoState}
           /\ life[call[c].sid] \in Life
           /\ ttl[call[c].sid] \in 0 .. SessionDuration
           /\ age[c] \in 0 .. SessionDuration
           /\ SessionDuration \in Nat /\ SessionDuration > 0
           /\ GoodCall(c) /\ GoodEffect(c)
<1>1. StoreTypeOK /\ call[c] \in Call /\ ttl \in [SessionIds -> Duration]
      /\ age \in [Clients -> Duration]
  BY DEF StoresInv, TimedTypeOK, StoreTypeOK
<1>2. call[c].sid \in SessionIds /\ call[c].state \in SessionStates \cup {NoState}
  BY <1>1 DEF Call
<1> QED
  BY <1>1, <1>2, DurationIsPositive DEF StoresInv, StoreTypeOK, Duration

\* A call that ends after it has failed leaves nothing to be told of it.
LEMMA FailureKeepsInv ==
    ASSUME StoresInv, NEW c \in Clients, call[c].phase # "idle",
           NEW state \in SessionStates \cup {NoState}, Finish(c, FALSE, state),
           CallWorks(call[c].sid), UNCHANGED <<life, age, unused, kind>>
    PROVE  StoresInv'
<1>1. Serves(c) /\ call'[c].phase = "done" /\ call'[c].ok = FALSE
  BY CallTypes, FinishCall DEF Serves
<1>2. GoodCall(c)'
  BY <1>1, CallTypes DEF GoodCall, Serves, Busy, InCall
<1>3. GoodEffect(c)'
  BY <1>1 DEF GoodEffect, InCall
<1> QED
  BY <1>1, <1>2, <1>3, ServingKeepsInv

\* A Save or Get that succeeds has renewed its session since it began.
LEMMA SuccessKeepsInv ==
    ASSUME StoresInv, NEW c \in Clients, call[c].phase # "idle", call[c].op # "delete",
           NEW state \in SessionStates \cup {NoState}, Finish(c, TRUE, state),
           CallWorks(call[c].sid), UNCHANGED <<life, age, unused, kind>>,
           life[call[c].sid] \in {"saving", "given"} => Renewed(c)'
    PROVE  StoresInv'
<1>1. Serves(c) /\ call'[c].phase = "done"
  BY CallTypes, FinishCall DEF Serves
<1>2. GoodCall(c)'
  BY <1>1, CallTypes DEF GoodCall, Serves, Busy, InCall
<1>3. GoodEffect(c)'
  BY <1>1 DEF GoodEffect, InCall, Serves
<1> QED
  BY <1>1, <1>2, <1>3, ServingKeepsInv

LEMMA DeletionKeepsInv ==
    ASSUME StoresInv, NEW c \in Clients, InCall(c, "delete", "called"),
           Remove(call[c].sid), NEW ok \in BOOLEAN, Finish(c, ok, NoState),
           UNCHANGED <<life, age, unused, kind>>
    PROVE  StoresInv'
<1>1. life[call[c].sid] \in {"ending", "ended"} /\ call[c].phase # "idle"
  BY CallTypes DEF GoodCall, InCall, Busy
<1>2. CallWorks(call[c].sid)
  BY <1>1, CallTypes, RemoveWorks
<1>3. Serves(c) /\ call'[c].phase = "done"
  BY <1>1, <1>2, CallTypes, FinishCall DEF Serves
<1>4. GoodCall(c)'
  BY <1>3, CallTypes DEF GoodCall, Serves, Busy, InCall
<1>5. db'[call'[c].sid] = NoState
  BY <1>3, CallTypes DEF Remove, Serves, StoreTypeOK
<1>6. GoodEffect(c)'
  BY <1>3, <1>5 DEF GoodEffect, InCall, Serves
<1> QED
  BY <1>3, <1>4, <1>6, ServingKeepsInv

\* A session put has its whole time left.
LEMMA PutRenews ==
    ASSUME StoresInv, NEW c \in Clients, Put(call[c].sid, call[c].state), NEW ok \in BOOLEAN,
           NEW state \in SessionStates \cup {NoState}, Finish(c, ok, state), UNCHANGED age
    PROVE  Renewed(c)'
<1>1. ttl'[call'[c].sid] = SessionDuration
  BY CallTypes, FinishCall DEF Put, StoresInv, TimedTypeOK
<1> QED
  BY <1>1, CallTypes DEF Renewed

\* Saving: only the one call that was given the id saves it.
LEMMA SavingKeepsInv ==
    ASSUME StoresInv, NEW c \in Clients, InCall(c, "save", "called"),
           Put(call[c].sid, call[c].state), NEW ok \in BOOLEAN, Finish(c, ok, NoState),
           UNCHANGED <<life, age, unused, kind>>
    PROVE  StoresInv'
<1>1. call[c].state \in SessionStates /\ life[call[c].sid] = "saving"
  BY CallTypes DEF GoodCall, InCall, Busy
<1>2. CallWorks(call[c].sid)
  BY <1>1, CallTypes, PutWorks
<1>3. Renewed(c)'
  BY PutRenews
<1> QED
  BY <1>2, <1>3, FailureKeepsInv, SuccessKeepsInv DEF InCall

LEMMA RedisSaveKeepsInv ==
    ASSUME StoresInv, NEW c \in Clients, RedisSave(c), UNCHANGED <<life, age, unused, kind>>
    PROVE  StoresInv'
<1>1. CASE UNCHANGED <<db, ttl>> /\ Finish(c, FALSE, NoState)
  BY <1>1, CallTypes, NothingWorks, FailureKeepsInv DEF RedisSave, InCall
<1> QED
  BY <1>1, SavingKeepsInv DEF RedisSave

LEMMA RedisDeleteKeepsInv ==
    ASSUME StoresInv, NEW c \in Clients, RedisDelete(c), UNCHANGED <<life, age, unused, kind>>
    PROVE  StoresInv'
<1>1. CASE UNCHANGED <<db, ttl>> /\ Finish(c, FALSE, NoState)
  BY <1>1, CallTypes, NothingWorks, FailureKeepsInv DEF RedisDelete, InCall
<1> QED
  BY <1>1, DeletionKeepsInv DEF RedisDelete

LEMMA RedisGetExpireKeepsInv ==
    ASSUME StoresInv, kind = "redis", NEW c \in Clients, RedisGetExpire(c),
           UNCHANGED <<life, age, unused, kind>>
    PROVE  StoresInv'
<1>1. CallWorks(call[c].sid)
  BY CallTypes, NothingWorks, ExpireCommandWorks DEF RedisGetExpire
<1>2. CASE Finish(c, FALSE, NoState)
  BY <1>1, <1>2, FailureKeepsInv DEF RedisGetExpire, InCall
<1>3. CASE ExpireCommand(call[c].sid) /\ call' = [call EXCEPT ![c].phase = "between"]
  <2>1. call' = [call EXCEPT ![c].phase = "between", ![c].state = call[c].state]
    BY <1>3, CallTypes DEF StoreTypeOK, Call
  <2>2. Serves(c) /\ call'[c].phase = "between"
    BY <1>1, <2>1, CallTypes, PauseCall DEF Serves, RedisGetExpire, InCall
  <2>3. GoodCall(c)'
    BY <2>2, CallTypes DEF GoodCall, Serves, Busy, InCall, RedisGetExpire
  <2>4. db[call[c].sid] = NoState \/ ttl'[call[c].sid] = SessionDuration
    BY <1>3, CallTypes DEF ExpireCommand, StoresInv, TimedTypeOK
  <2>5. db'[call'[c].sid] = NoState \/ Renewed(c)'
    BY <2>2, <2>4, CallTypes DEF Renewed, Serves, RedisGetExpire
  <2>6. GoodEffect(c)'
    BY <2>2, <2>5 DEF GoodEffect, InCall
  <2> QED
    BY <2>2, <2>3, <2>6, ServingKeepsInv
<1> QED
  BY <1>2, <1>3 DEF RedisGetExpire

LEMMA RedisGetGetKeepsInv ==
    ASSUME StoresInv, kind = "redis", NEW c \in Clients, RedisGetGet(c),
           UNCHANGED <<life, age, unused, kind>>
    PROVE  StoresInv'
<1>1. CallWorks(call[c].sid) /\ call[c].phase # "idle" /\ call[c].op # "delete"
  BY CallTypes, NothingWorks DEF RedisGetGet, InCall
<1>2. CASE Finish(c, FALSE, NoState)
  BY <1>1, <1>2, FailureKeepsInv
<1>3. CASE db[call[c].sid] # NoState /\ Finish(c, TRUE, db[call[c].sid])
  <2>1. life[call[c].sid] = "given" => Renewed(c)
    BY <1>3, CallTypes DEF RedisGetGet, InCall, GoodEffect
  <2>2. life[call[c].sid] # "saving"
    BY CallTypes DEF RedisGetGet, InCall, GoodCall, Busy
  <2>3. Renewed(c) => Renewed(c)'
    BY <1>3, CallTypes, FinishCall DEF Renewed, RedisGetGet
  <2> QED
    BY <1>1, <1>3, <2>1, <2>2, <2>3, CallTypes, SuccessKeepsInv
<1> QED
  BY <1>2, <1>3 DEF RedisGetGet

LEMMA MemSaveKeepsInv ==
    ASSUME StoresInv, NEW c \in Clients, MemSave(c), UNCHANGED <<life, age, unused, kind>>
    PROVE  StoresInv'
BY SavingKeepsInv DEF MemSave

LEMMA MemDeleteKeepsInv ==
    ASSUME StoresInv, NEW c \in Clients, MemDelete(c), UNCHANGED <<life, age, unused, kind>>
    PROVE  StoresInv'
BY DeletionKeepsInv DEF MemDelete

LEMMA MemGetReadKeepsInv ==
    ASSUME StoresInv, kind = "mem", NEW c \in Clients, MemGetRead(c),
           UNCHANGED <<life, age, unused, kind>>
    PROVE  StoresInv'
<1> DEFINE state == db[call[c].sid]
<1>1. CallWorks(call[c].sid)
  BY CallTypes, NothingWorks DEF MemGetRead
<1>2. CASE Finish(c, FALSE, NoState)
  BY <1>1, <1>2, FailureKeepsInv DEF MemGetRead, InCall
<1>3. CASE /\ state # NoState
           /\ call' = [call EXCEPT ![c].phase = "between", ![c].state = state]
  <2>1. Serves(c) /\ call'[c].phase = "between" /\ call'[c].state # NoState
    BY <1>1, <1>3, CallTypes, PauseCall DEF Serves, MemGetRead, InCall
  <2>2. GoodCall(c)'
    BY <2>1, CallTypes DEF GoodCall, Serves, Busy, InCall, MemGetRead
  <2>3. GoodEffect(c)'
    BY <2>1 DEF GoodEffect, InCall, Serves
  <2> QED
    BY <2>1, <2>2, <2>3, ServingKeepsInv
<1> QED
  BY <1>2, <1>3 DEF MemGetRead

LEMMA MemGetRenewKeepsInv ==
    ASSUME StoresInv, kind = "mem", NEW c \in Clients, MemGetRenew(c),
           UNCHANGED <<life, age, unused, kind>>
    PROVE  StoresInv'
<1>1. call[c].state \in SessionStates /\ call[c].phase # "idle" /\ call[c].op # "delete"
  BY CallTypes DEF GoodCall, MemGetRenew, InCall
<1>2. CallWorks(call[c].sid)
  BY <1>1, CallTypes, PutWorks DEF MemGetRenew
<1>3. Renewed(c)'
  BY CallTypes, PutRenews DEF MemGetRenew
<1> QED
  BY <1>1, <1>2, <1>3, CallTypes, SuccessKeepsInv DEF MemGetRenew

-----------------------------------------------------------------------------
\* Calls that begin and return, and the passing of time.
LEMMA InvokeKeepsInv ==
    ASSUME StoresInv, NEW c \in Clients, TimedInvoke(c), UNCHANGED kind
    PROVE  StoresInv'
<1>1. call[c].phase = "idle" /\ UNCHANGED <<db, ttl, unused, kind>>
      /\ age' = [age EXCEPT ![c] = 0]
  BY DEF TimedInvoke, Invoke
<1>2. PICK sid \in SessionIds, op \in {"save", "get", "delete"},
           state \in SessionStates \cup {NoState} :
        /\ Begin(c, op, sid, state)
        /\ \/ op = "save" /\ state # NoState /\ life[sid] = "free"
              /\ life' = [life EXCEPT ![sid] = "saving"]
           \/ op = "get" /\ life[sid] \in {"given", "ending", "ended"} /\ life' = life
           \/ op = "delete" /\ life[sid] \in {"given", "ending", "ended"}
              /\ life' = [life EXCEPT ![sid] = IF @ = "given" THEN "ending" ELSE @]
  <2>1. PICK sid \in SessionIds : \/ \E state \in SessionStates : CallSave(c, sid, state)
                                  \/ CallGet(c, sid)
                                  \/ CallDelete(c, sid)
    BY DEF TimedInvoke, Invoke
  <2>2. CASE \E state \in SessionStates : CallSave(c, sid, state)
    BY <2>2, NoStateIsNoState DEF CallSave
  <2>3. CASE CallGet(c, sid)
    BY <2>3 DEF CallGet
  <2>4. CASE CallDelete(c, sid)
    BY <2>4 DEF CallDelete
  <2> QED
    BY <2>1, <2>2, <2>3, <2>4
<1>3. /\ call' \in [Clients -> Call] /\ Bystanders(c)
      /\ call'[c] = [op |-> op, sid |-> sid, state |-> state, phase |-> "called", ok |-> FALSE]
  BY <1>2, CallTypes, BeginCall
<1>4. life \in [SessionIds -> Life] /\ age \in [Clients -> Duration] /\ 0 \in Duration
  BY DurationIsPositive DEF StoresInv, TimedTypeOK, StoreTypeOK, Duration
<1>5. life' \in [SessionIds -> Life] /\ age' \in [Clients -> Duration]
  <2>1. {"saving", "ending"} \subseteq Life
    BY DEF Life
  <2>2. life[sid] \in Life
    BY <1>4
  <2> QED
    BY <1>1, <1>2, <1>4, <2>1, <2>2
<1>6. TimedTypeOK' /\ kind' \in {"redis", "mem"}
  BY <1>1, <1>3, <1>5 DEF StoresInv, TimedTypeOK, StoreTypeOK
<1>7. \A s \in SessionIds : \/ life'[s] = life[s]
                            \/ life[s] = "free" /\ life'[s] = "saving"
                            \/ life[s] = "given" /\ life'[s] = "ending"
  BY <1>2, <1>4
<1>8. /\ op = "save" => life[sid] = "free" /\ life'[sid] = "saving" /\ state # NoState
      /\ op = "get" => life'[sid] \in {"given", "ending", "ended"}
      /\ op = "delete" => life'[sid] \in {"ending", "ended"}
  BY <1>2, <1>4
<1>9. ASSUME NEW b \in Clients \ {c} PROVE GoodCall(b)' /\ GoodEffect(b)'
  <2>1. call'[b] = call[b] /\ age'[b] = age[b]
    BY <1>1, <1>3, <1>4 DEF Bystanders
  <2>2. GoodCall(b) /\ GoodEffect(b) /\ call[b].sid \in SessionIds
        /\ call[b].op \in {"save", "get", "delete"}
    BY CallTypes DEF Call
  <2>3. GoodCall(b)'
    BY <1>1, <1>7, <2>1, <2>2 DEF GoodCall, Busy, InCall
  <2>4. Renewed(b) => Renewed(b)'
    BY <1>1, <2>1 DEF Renewed
  <2>5. GoodEffect(b)'
    BY <1>1, <1>7, <2>1, <2>2, <2>4 DEF GoodCall, GoodEffect, Busy, InCall
  <2> QED
    BY <2>3, <2>5
<1>10. GoodCall(c)' /\ GoodEffect(c)'
  <2>1. GoodCall(c)'
    BY <1>3, <1>8 DEF GoodCall, Busy, InCall
  <2>2. GoodEffect(c)'
    BY <1>3 DEF GoodEffect, InCall
  <2> QED
    BY <2>1, <2>2
<1>11. OneSaver'
  <2> SUFFICES ASSUME NEW a \in Clients, NEW b \in Clients, Busy(a, "save")',
                      Busy(b, "save")', call'[a].sid = call'[b].sid
               PROVE  a = b
    BY DEF OneSaver
  <2>1. ASSUME NEW d \in Clients, d # c, Busy(d, "save")' PROVE
          Busy(d, "save") /\ call'[d].sid = call[d].sid /\ life[call'[d].sid] = "saving"
    BY <1>3, <2>1, CallTypes DEF Bystanders, Busy, GoodCall
  <2>2. Busy(c, "save")' => life[call'[c].sid] = "free"
    BY <1>3, <1>8 DEF Busy
  <2>3. CASE a # c /\ b # c
    BY <2>1, <2>3 DEF StoresInv, OneSaver
  <2> QED
    BY <2>1, <2>2, <2>3
<1>12. ASSUME NEW s \in SessionIds PROVE GoodSession(s)'
  <2>1. GoodSession(s)
    BY DEF StoresInv
  <2> QED
    BY <1>1, <1>7, <2>1 DEF GoodSession
<1> QED
  BY <1>6, <1>9, <1>10, <1>11, <1>12 DEF StoresInv

LEMMA ReturnKeepsInv ==
    ASSUME StoresInv, NEW c \in Clients, TimedReturn(c), UNCHANGED kind
    PROVE  StoresInv'
<1> DEFINE sid == call[c].sid
           op == call[c].op
<1>1. /\ call[c].phase = "done" /\ UNCHANGED <<db, ttl, kind>>
      /\ age' = [age EXCEPT ![c] = 0]
      /\ call' = [call EXCEPT ![c] = NoCall]
      /\ unused' = IF call[c].ok /\ op # "delete" /\ age[c] < unused[sid]
                   THEN [unused EXCEPT ![sid] = age[c]] ELSE unused
  BY DEF TimedReturn, Return
<1>2. /\ life \in [SessionIds -> Life] /\ age \in [Clients -> Duration]
      /\ unused \in [SessionIds -> Duration] /\ call \in [Clients -> Call]
      /\ 0 \in Duration /\ sid \in SessionIds /\ op \in {"save", "get", "delete"}
  BY CallTypes, DurationIsPositive DEF StoresInv, TimedTypeOK, StoreTypeOK, Duration, Call
<1>3. /\ op = "save" => life[sid] = "saving"
      /\ op = "get" => life[sid] \in {"given", "ending", "ended"}
      /\ op = "delete" => life[sid] \in {"ending", "ended"}
  BY <1>1, CallTypes DEF GoodCall, Busy
<1>4. \/ life' = life /\ (call[c].ok => op = "get")
      \/ call[c].ok /\ op = "save" /\ life' = [life EXCEPT ![sid] = "given"]
      \/ call[c].ok /\ op = "delete" /\ life' = [life EXCEPT ![sid] = "ended"]
  <2>1. CASE call[c].ok /\ op = "get"
    BY <1>1, <1>2, <2>1 DEF TimedReturn, Return
  <2>2. CASE call[c].ok /\ op = "save"
    BY <1>1, <2>2 DEF TimedReturn, Return
  <2>3. CASE call[c].ok /\ op = "delete"
    BY <1>1, <2>3 DEF TimedReturn, Return
  <2>4. CASE ~call[c].ok
    BY <1>1, <2>4 DEF TimedReturn, Return
  <2> QED
    BY <1>2, <2>1, <2>2, <2>3, <2>4
<1>5. {"given", "ended"} \subseteq Life
  BY DEF Life
<1>6. call' \in [Clients -> Call] /\ Bystanders(c) /\ call'[c] = NoCall
  BY <1>1, <1>2, NoCallIsCall DEF Bystanders
<1>7. life' \in [SessionIds -> Life] /\ age' \in [Clients -> Duration]
      /\ unused' \in [SessionIds -> Duration]
  BY <1>1, <1>2, <1>4, <1>5
<1>8. TimedTypeOK' /\ kind' \in {"redis", "mem"}
  BY <1>1, <1>6, <1>7 DEF StoresInv, TimedTypeOK, StoreTypeOK
<1>9. \A s \in SessionIds :
        \/ life'[s] = life[s]
        \/ s = sid /\ op = "save" /\ life[s] = "saving" /\ life'[s] = "given"
        \/ s = sid /\ life[s] \in {"ending", "ended"} /\ life'[s] = "ended"
  BY <1>2, <1>3, <1>4
<1>10. ASSUME NEW b \in Clients \ {c} PROVE GoodCall(b)' /\ GoodEffect(b)'
  <2>1. call'[b] = call[b] /\ age'[b] = age[b]
    BY <1>1, <1>2, <1>6 DEF Bystanders
  <2>2. GoodCall(b) /\ GoodEffect(b) /\ call[b].sid \in SessionIds
        /\ call[b].op \in {"save", "get", "delete"}
    BY CallTypes DEF Call
  <2>3. Busy(b, "save") /\ call[b].sid = sid => op # "save"
    BY <1>1 DEF StoresInv, OneSaver, Busy
  <2>4. GoodCall(b)'
    BY <1>1, <1>9, <2>1, <2>2, <2>3 DEF GoodCall, Busy, InCall
  <2>5. Renewed(b) => Renewed(b)'
    BY <1>1, <2>1 DEF Renewed
  <2>6. GoodEffect(b)'
    BY <1>1, <1>9, <2>1, <2>2, <2>5 DEF GoodCall, GoodEffect, Busy, InCall
  <2> QED
    BY <2>4, <2>6
<1>11. GoodCall(c)' /\ GoodEffect(c)'
  <2>1. call'[c].phase = "idle"
    BY <1>6 DEF NoCall
  <2> QED
    BY <2>1 DEF GoodCall, GoodEffect, Busy, InCall
<1>12. OneSaver'
  <2>1. ASSUME NEW b \in Clients, Busy(b, "save")'
        PROVE  Busy(b, "save") /\ call'[b].sid = call[b].sid
    BY <1>6, <2>1 DEF Bystanders, Busy, NoCall
  <2> QED
    BY <2>1 DEF StoresInv, OneSaver
<1>13. ASSUME NEW s \in SessionIds PROVE GoodSession(s)'
  <2>1. GoodSession(s)
    BY DEF StoresInv
  <2>2. s # sid => unused'[s] = unused[s] /\ life'[s] = life[s]
    BY <1>1, <1>2, <1>9
  <2>3. life'[sid] \in {"free", "saving"} => unused'[sid] = unused[sid]
    BY <1>1, <1>2, <1>3, <1>4
  <2>4. life'[s] \in {"free", "saving"} => unused'[s] = SessionDuration
    BY <1>9, <2>1, <2>2, <2>3 DEF GoodSession
  <2>5. life'[s] = "given" => SessionDuration - unused'[s] <= ttl'[s]
    <3> SUFFICES ASSUME s = sid, life'[sid] = "given"
                 PROVE  SessionDuration - unused'[sid] <= ttl'[sid]
      BY <1>1, <2>1, <2>2 DEF GoodSession
    <3>1. CASE call[c].ok /\ op # "delete"
      <4>1. Renewed(c)
        BY <1>1, <1>9, <3>1, CallTypes DEF GoodEffect
      <4>2. unused'[sid] = IF age[c] < unused[sid] THEN age[c] ELSE unused[sid]
        BY <1>1, <1>2, <3>1
      <4>3. unused[sid] \in 0 .. SessionDuration /\ age[c] \in 0 .. SessionDuration
            /\ SessionDuration \in Nat /\ ttl[sid] \in 0 .. SessionDuration
        BY <1>2, CallTypes DEF Duration
      <4>4. SessionDuration - unused[sid] <= ttl[sid]
        BY <1>9, <2>1, <4>3 DEF GoodSession
      <4> QED
        BY <1>1, <4>1, <4>2, <4>3, <4>4 DEF Renewed
    <3>2. CASE ~(call[c].ok /\ op # "delete")
      <4>1. unused' = unused
        BY <1>1, <3>2
      <4>2. life'[sid] = life[sid]
        BY <1>2, <1>4, <3>2
      <4> QED
        BY <1>1, <2>1, <4>1, <4>2 DEF GoodSession
    <3> QED
      BY <3>1, <3>2
  <2>6. life'[s] = "ended" /\ kind' = "redis" => db'[s] = NoState
    <3>1. CASE life[s] = "ended"
      BY <1>1, <2>1, <3>1 DEF GoodSession
    <3>2. CASE life[s] # "ended" /\ life'[s] = "ended"
      <4>1. s = sid /\ call[c].ok /\ op = "delete"
        BY <1>2, <1>4, <3>2
      <4> QED
        BY <1>1, <4>1, CallTypes DEF GoodEffect, InCall
    <3> QED
      BY <3>1, <3>2
  <2> QED
    BY <2>4, <2>5, <2>6 DEF GoodSession
<1> QED
  BY <1>8, <1>10, <1>11, <1>12, <1>13 DEF StoresInv

LEMMA TickKeepsInv ==
    ASSUME StoresInv, Tick, UNCHANGED kind
    PROVE  StoresInv'
<1>1. /\ \A sid \in SessionIds :
           /\ ttl[sid] \in 0 .. SessionDuration /\ unused[sid] \in 0 .. SessionDuration
           /\ db[sid] \in SessionStates \cup {NoState}
           /\ db[sid] = NoState <=> ttl[sid] = 0
      /\ \A c \in Clients : age[c] \in 0 .. SessionDuration /\ call[c].sid \in SessionIds
      /\ SessionDuration \in Nat /\ SessionDuration > 0
  BY DurationIsPositive, CallTypes DEF StoresInv, TimedTypeOK, StoreTypeOK, Duration
<1>2. /\ ttl' = [sid \in SessionIds |-> IF ttl[sid] > 0 THEN ttl[sid] - 1 ELSE 0]
      /\ db' = [sid \in SessionIds |-> IF ttl[sid] > 1 THEN db[sid] ELSE NoState]
      /\ age' = [c \in Clients |-> IF call[c].phase = "idle" THEN 0
                                   ELSE IF age[c] < SessionDuration THEN age[c] + 1 ELSE age[c]]
      /\ unused' = [sid \in SessionIds |->
                      IF unused[sid] < SessionDuration THEN unused[sid] + 1 ELSE unused[sid]]
      /\ UNCHANGED <<call, life, kind>>
  BY DEF Tick
<1>3. \A sid \in SessionIds :
        /\ ttl'[sid] \in 0 .. SessionDuration
        /\ unused'[sid] \in 0 .. SessionDuration
        /\ db'[sid] \in SessionStates \cup {NoState}
        /\ db'[sid] = NoState <=> ttl'[sid] = 0
  BY <1>1, <1>2
<1>4. \A c \in Clients : age'[c] \in 0 .. SessionDuration
  BY <1>1, <1>2
<1>5. TimedTypeOK' /\ kind' \in {"redis", "mem"}
  BY <1>2, <1>3, <1>4 DEF StoresInv, TimedTypeOK, StoreTypeOK, Duration
<1>6. \A sid \in SessionIds : db[sid] = NoState => db'[sid] = NoState
  BY <1>1, <1>2
<1>7. ASSUME NEW c \in Clients PROVE GoodCall(c)' /\ GoodEffect(c)'
  <2>1. GoodCall(c) /\ GoodEffect(c) /\ call[c].sid \in SessionIds
    BY CallTypes
  <2>2. GoodCall(c)'
    BY <1>2, <2>1 DEF GoodCall, Busy, InCall
  <2>3. call[c].phase # "idle" /\ Renewed(c) => Renewed(c)'
    BY <1>1, <1>2, <2>1 DEF Renewed
  <2>4. GoodEffect(c)'
    BY <1>2, <1>6, <2>1, <2>3 DEF GoodEffect, InCall
  <2> QED
    BY <2>2, <2>4
<1>8. OneSaver'
  BY <1>2 DEF StoresInv, OneSaver, Busy
<1>9. ASSUME NEW sid \in SessionIds PROVE GoodSession(sid)'
  <2>1. GoodSession(sid)
    BY DEF StoresInv
  <2> QED
    BY <1>1, <1>2, <1>6, <2>1 DEF GoodSession
<1> QED
  BY <1>5, <1>7, <1>8, <1>9 DEF StoresInv

-----------------------------------------------------------------------------
LEMMA InvHoldsInitially ==
    ASSUME StoresInit
    PROVE  StoresInv
<1>1. 0 \in Duration /\ SessionDuration \in Duration
  BY DurationIsPositive DEF Duration
<1>2. db \in [SessionIds -> {NoState}] /\ life \in [SessionIds -> {"free"}]
      /\ call \in [Clients -> {NoCall}] /\ kind \in {"redis", "mem"}
      /\ ttl = [sid \in SessionIds |-> 0]
      /\ age = [c \in Clients |-> 0]
      /\ unused = [sid \in SessionIds |-> SessionDuration]
  BY DEF StoresInit, TimedInit, StoreInit
<1>3. TimedTypeOK
  BY <1>1, <1>2, NoCallIsCall DEF TimedTypeOK, StoreTypeOK, Life
<1>4. \A c \in Clients : call[c].phase = "idle"
  <2>1. \A c \in Clients : call[c] = NoCall
    BY <1>2
  <2>2. NoCall.phase = "idle"
    BY DEF NoCall
  <2> QED
    BY <2>1, <2>2
<1>5. \A c \in Clients : GoodCall(c) /\ GoodEffect(c)
  BY <1>4 DEF GoodCall, GoodEffect, Busy, InCall
<1>6. OneSaver
  BY <1>4 DEF OneSaver, Busy
<1>7. \A sid \in SessionIds : GoodSession(sid)
  BY <1>2 DEF GoodSession
<1> QED
  BY <1>2, <1>3, <1>5, <1>6, <1>7 DEF StoresInv

LEMMA StepKeepsInv == StoresInv /\ [StoresNext]_storesVars => StoresInv'
<1> SUFFICES ASSUME StoresInv, [StoresNext]_storesVars
             PROVE  StoresInv'
  OBVIOUS
<1>1. CASE UNCHANGED storesVars
  <2>1. UNCHANGED <<db, call, life, ttl, age, unused, kind>>
    BY <1>1 DEF storesVars, timedVars, storeVars, times
  <2>2. TimedTypeOK'
    BY <2>1 DEF StoresInv, TimedTypeOK, StoreTypeOK
  <2>3. \A c \in Clients : GoodCall(c)' /\ GoodEffect(c)'
    BY <2>1 DEF StoresInv, GoodCall, GoodEffect, Renewed, Busy, InCall
  <2>4. OneSaver' /\ \A sid \in SessionIds : GoodSession(sid)'
    BY <2>1 DEF StoresInv, OneSaver, Busy, GoodSession
  <2> QED
    BY <2>1, <2>2, <2>3, <2>4 DEF StoresInv
<1>2. ASSUME NEW c \in Clients, TimedInvoke(c), UNCHANGED kind PROVE StoresInv'
  BY <1>2, InvokeKeepsInv
<1>3. ASSUME NEW c \in Clients, TimedReturn(c), UNCHANGED kind PROVE StoresInv'
  BY <1>3, ReturnKeepsInv
<1>4. ASSUME Tick, UNCHANGED kind PROVE StoresInv'
  BY <1>4, TickKeepsInv
<1>5. ASSUME NEW c \in Clients, RedisCommand(c), kind = "redis", UNCHANGED kind PROVE StoresInv'
  BY <1>5, RedisSaveKeepsInv, RedisGetExpireKeepsInv, RedisGetGetKeepsInv,
     RedisDeleteKeepsInv DEF RedisCommand
<1>6. ASSUME NEW c \in Clients, MemStep(c), kind = "mem", UNCHANGED kind PROVE StoresInv'
  BY <1>6, MemSaveKeepsInv, MemGetReadKeepsInv, MemGetRenewKeepsInv, MemDeleteKeepsInv
     DEF MemStep
<1> QED
  BY <1>1, <1>2, <1>3, <1>4, <1>5, <1>6 DEF StoresNext, RedisNext, MemNext

-----------------------------------------------------------------------------
(***************************************************************************)
(* What both stores keep, whatever their clients call (redisstore.go,      *)
(* memstore.go).                                                           *)
(***************************************************************************)
THEOREM StoresInvariant == StoresSpec => []StoresInv
BY InvHoldsInitially, StepKeepsInv, PTL DEF StoresSpec

(***************************************************************************)
(* Every variable keeps its type, and a session is there exactly as long   *)
(* as it has time left.                                                    *)
(***************************************************************************)
THEOREM StoresTypes == StoresSpec => []TimedTypeOK
<1>1. StoresInv => TimedTypeOK
  BY DEF StoresInv
<1> QED
  BY <1>1, StoresInvariant, PTL

(***************************************************************************)
(* In both stores a session that was used less than SessionDuration ago,   *)
(* and that nobody has begun to delete, is live: Save sets its time, and   *)
(* Get sets it again between its call and its return.                      *)
(***************************************************************************)
THEOREM StoresUsedSessionsLive == StoresSpec => []UsedSessionsLive
<1>1. StoresInv => UsedSessionsLive
  <2> SUFFICES ASSUME StoresInv, NEW sid \in SessionIds,
                      life[sid] = "given", unused[sid] < SessionDuration
               PROVE  db[sid] # NoState
    BY DEF UsedSessionsLive
  <2>1. SessionDuration - unused[sid] <= ttl[sid]
    BY DEF StoresInv, GoodSession
  <2>2. unused[sid] \in 0 .. SessionDuration /\ SessionDuration \in Nat
        /\ ttl[sid] \in 0 .. SessionDuration
    BY DurationIsPositive DEF StoresInv, TimedTypeOK, Duration
  <2>3. ttl[sid] # 0
    BY <2>1, <2>2
  <2> QED
    BY <2>3 DEF StoresInv, TimedTypeOK
<1> QED
  BY <1>1, StoresInvariant, PTL

(***************************************************************************)
(* In Redis no Get brings back a session whose Delete has returned: DEL    *)
(* removes it and EXPIRE gives no life to a key that is not there.         *)
(***************************************************************************)
THEOREM StoresEndedIsGoneInRedis == StoresSpec => []EndedIsGoneInRedis
<1>1. StoresInv => EndedIsGoneInRedis
  BY DEF StoresInv, GoodSession, EndedIsGoneInRedis, EndedIsGone
<1> QED
  BY <1>1, StoresInvariant, PTL

-----------------------------------------------------------------------------
(***************************************************************************)
(* The refinement, step by step.  A Get between its two commands has not   *)
(* begun for Store: its GET is the moment it takes effect.                 *)
(***************************************************************************)
LEMMA AbstractFields ==
    ASSUME StoreTypeOK, NEW c \in Clients
    PROVE  /\ AbstractCall[c].op = call[c].op /\ AbstractCall[c].sid = call[c].sid
           /\ AbstractCall[c].state = call[c].state /\ AbstractCall[c].ok = call[c].ok
           /\ AbstractCall[c].phase =
                IF call[c].phase = "between" THEN "called" ELSE call[c].phase
<1>1. call[c] \in Call
  BY DEF StoreTypeOK
<1>2. AbstractCall[c] =
        [call[c] EXCEPT !.phase = IF @ = "between" THEN "called" ELSE @]
  BY DEF AbstractCall
<1> QED
  BY <1>1, <1>2 DEF Call

LEMMA AbstractStep ==
    ASSUME StoreTypeOK, NEW c \in Clients, NEW r \in Call,
           call' = [call EXCEPT ![c] = r]
    PROVE  AbstractCall' = [AbstractCall EXCEPT ![c] =
               [r EXCEPT !.phase = IF @ = "between" THEN "called" ELSE @]]
<1> DEFINE Image(q) == [q EXCEPT !.phase = IF @ = "between" THEN "called" ELSE @]
<1>1. call \in [Clients -> Call]
  BY DEF StoreTypeOK
<1>2. \A b \in Clients : call'[b] = IF b = c THEN r ELSE call[b]
  BY <1>1
<1>3. /\ AbstractCall = [b \in Clients |-> Image(call[b])]
      /\ AbstractCall' = [b \in Clients |-> Image(call'[b])]
  BY DEF AbstractCall
<1> HIDE DEF Image
<1>4. AbstractCall' = [AbstractCall EXCEPT ![c] = Image(r)]
  BY <1>2, <1>3
<1> QED
  BY <1>4 DEF Image

LEMMA AbstractCallIs ==
    ASSUME StoreTypeOK, NEW c \in Clients, NEW r \in Call, r.phase # "between",
           call' = [call EXCEPT ![c] = r]
    PROVE  AbstractCall' = [AbstractCall EXCEPT ![c] = r]
<1>1. [r EXCEPT !.phase = IF @ = "between" THEN "called" ELSE @] = r
  BY DEF Call
<1> QED
  BY <1>1, AbstractStep

LEMMA FinishImplementsFinish ==
    ASSUME StoreTypeOK, NEW c \in Clients, NEW ok \in BOOLEAN,
           NEW state \in SessionStates \cup {NoState}, Finish(c, ok, state)
    PROVE  Store!Finish(c, ok, state)
<1> DEFINE r == [call[c] EXCEPT !.phase = "done", !.ok = ok, !.state = state]
<1>1. call[c] \in Call /\ call \in [Clients -> Call]
  BY DEF StoreTypeOK
<1>2. call' = [call EXCEPT ![c] = r] /\ r \in Call /\ r.phase # "between"
  BY <1>1 DEF Finish, Call
<1>3. AbstractCall' = [AbstractCall EXCEPT ![c] = r]
  BY <1>2, AbstractCallIs
<1>4. AbstractCall[c] =
        [call[c] EXCEPT !.phase = IF @ = "between" THEN "called" ELSE @]
  BY DEF AbstractCall
<1>5. r = [AbstractCall[c] EXCEPT !.phase = "done", !.ok = ok, !.state = state]
  BY <1>1, <1>4 DEF Call
<1>6. AbstractCall \in [Clients -> Call]
  <2>1. ASSUME NEW b \in Clients
        PROVE  [call[b] EXCEPT !.phase = IF @ = "between" THEN "called" ELSE @] \in Call
    BY <1>1 DEF Call
  <2> QED
    BY <2>1 DEF AbstractCall
<1> HIDE DEF r
<1> QED
  BY <1>3, <1>5, <1>6 DEF Store!Finish, Call

LEMMA InvokeImplementsInvoke ==
    ASSUME StoreTypeOK, NEW c \in Clients, Invoke(c)
    PROVE  Store!Invoke(c)
<1>1. AbstractCall[c].phase = "idle"
  BY AbstractFields DEF Invoke
<1>2. ASSUME NEW sid \in SessionIds, NEW op \in {"save", "get", "delete"},
             NEW state \in SessionStates \cup {NoState}, Begin(c, op, sid, state)
      PROVE  Store!Begin(c, op, sid, state)
  <2> DEFINE r == [op |-> op, sid |-> sid, state |-> state, phase |-> "called", ok |-> FALSE]
  <2>1. r \in Call /\ r.phase # "between"
    BY DEF Call
  <2>2. call' = [call EXCEPT ![c] = r]
    BY <1>2 DEF Begin
  <2>3. AbstractCall' = [AbstractCall EXCEPT ![c] = r]
    BY <2>1, <2>2, AbstractCallIs
  <2> QED
    BY <2>3 DEF Store!Begin
<1>3. ASSUME NEW sid \in SessionIds, NEW state \in SessionStates, CallSave(c, sid, state)
      PROVE  Store!CallSave(c, sid, state)
  BY <1>2, <1>3 DEF CallSave, Store!CallSave
<1>4. ASSUME NEW sid \in SessionIds, CallGet(c, sid) PROVE Store!CallGet(c, sid)
  BY <1>2, <1>4 DEF CallGet, Store!CallGet
<1>5. ASSUME NEW sid \in SessionIds, CallDelete(c, sid) PROVE Store!CallDelete(c, sid)
  BY <1>2, <1>5 DEF CallDelete, Store!CallDelete
<1> QED
  BY <1>1, <1>3, <1>4, <1>5 DEF Invoke, Store!Invoke

LEMMA ReturnImplementsReturn ==
    ASSUME StoreTypeOK, NEW c \in Clients, Return(c)
    PROVE  Store!Return(c)
<1>1. NoCall.phase # "between" /\ Store!NoCall = NoCall
  BY DEF NoCall, Store!NoCall
<1>2. AbstractCall' = [AbstractCall EXCEPT ![c] = NoCall]
  BY <1>1, NoCallIsCall, AbstractCallIs DEF Return
<1>3. call[c].phase = "done" /\ UNCHANGED db
  BY DEF Return
<1>4. /\ AbstractCall[c].op = call[c].op /\ AbstractCall[c].sid = call[c].sid
      /\ AbstractCall[c].ok = call[c].ok /\ AbstractCall[c].phase = "done"
  BY <1>3, AbstractFields
<1> QED
  BY <1>1, <1>2, <1>3, <1>4 DEF Return, Store!Return

LEMMA CommandImplementsCommit ==
    ASSUME StoresInv, NEW c \in Clients, RedisCommand(c)
    PROVE  \/ Store!CommitSave(c) \/ Store!CommitGet(c) \/ Store!CommitDelete(c)
           \/ UNCHANGED <<db, AbstractCall>>
<1>1. StoreTypeOK /\ call[c] \in Call /\ call[c].sid \in SessionIds
      /\ db[call[c].sid] \in SessionStates \cup {NoState}
  BY CallTypes
<1>2. /\ AbstractCall[c].op = call[c].op /\ AbstractCall[c].sid = call[c].sid
      /\ AbstractCall[c].state = call[c].state
      /\ AbstractCall[c].phase = IF call[c].phase = "between" THEN "called" ELSE call[c].phase
  BY <1>1, AbstractFields
<1>3. \A ok \in BOOLEAN : Finish(c, ok, NoState) => Store!Finish(c, ok, NoState)
  BY <1>1, FinishImplementsFinish
<1>4. CASE RedisSave(c)
  <2>1. Store!InCall(c, "save", "called")
    BY <1>2, <1>4 DEF RedisSave, InCall, Store!InCall
  <2>2. Put(call[c].sid, call[c].state) => Store!Saved(c)
    BY <1>2 DEF Put, Store!Saved
  <2> QED
    BY <1>3, <1>4, <2>1, <2>2 DEF RedisSave, Store!CommitSave
<1>5. CASE RedisDelete(c)
  <2>1. Store!InCall(c, "delete", "called")
    BY <1>2, <1>5 DEF RedisDelete, InCall, Store!InCall
  <2>2. Remove(call[c].sid) => Store!Deleted(c)
    BY <1>2 DEF Remove, Store!Deleted
  <2> QED
    BY <1>3, <1>5, <2>1, <2>2 DEF RedisDelete, Store!CommitDelete
<1>6. CASE RedisGetExpire(c)
  <2>1. Store!InCall(c, "get", "called") /\ call[c].phase = "called"
    BY <1>2, <1>6 DEF RedisGetExpire, InCall, Store!InCall
  <2>2. CASE Finish(c, FALSE, NoState)
    BY <1>3, <1>6, <2>1, <2>2 DEF RedisGetExpire, Store!CommitGet
  <2>3. CASE call' = [call EXCEPT ![c].phase = "between"]
    <3> DEFINE Image(q) == [q EXCEPT !.phase = IF @ = "between" THEN "called" ELSE @]
               r == [call[c] EXCEPT !.phase = "between"]
    <3>1. call \in [Clients -> Call]
      BY <1>1 DEF StoreTypeOK
    <3>2. call' = [call EXCEPT ![c] = r] /\ Image(r) = Image(call[c])
      BY <1>1, <2>1, <2>3 DEF Call
    <3>3. /\ AbstractCall = [b \in Clients |-> Image(call[b])]
          /\ AbstractCall' = [b \in Clients |-> Image(call'[b])]
      BY DEF AbstractCall
    <3> HIDE DEF Image, r
    <3>4. \A b \in Clients : Image(call'[b]) = Image(call[b])
      BY <3>1, <3>2
    <3>5. AbstractCall' = AbstractCall
      BY <3>3, <3>4
    <3> QED
      BY <1>6, <3>5 DEF RedisGetExpire
  <2> QED
    BY <1>6, <2>2, <2>3 DEF RedisGetExpire
<1>7. CASE RedisGetGet(c)
  <2>1. Store!InCall(c, "get", "called")
    BY <1>2, <1>7 DEF RedisGetGet, InCall, Store!InCall
  <2>2. Finish(c, TRUE, db[call[c].sid]) => Store!Finish(c, TRUE, db[AbstractCall[c].sid])
    BY <1>1, <1>2, FinishImplementsFinish
  <2> QED
    BY <1>2, <1>3, <1>7, <2>1, <2>2 DEF RedisGetGet, Store!CommitGet
<1> QED
  BY <1>4, <1>5, <1>6, <1>7 DEF RedisCommand

LEMMA TickImplementsExpire ==
    ASSUME StoresInv, Tick
    PROVE  Store!Expire
<1> DEFINE old == {sid \in SessionIds : ~(ttl[sid] > 1)}
<1>1. old \in SUBSET SessionIds
  OBVIOUS
<1>2. db' = [sid \in SessionIds |-> IF sid \in old THEN NoState ELSE db[sid]]
  BY DEF Tick
<1>3. AbstractCall' = AbstractCall /\ UNCHANGED life
  BY DEF Tick, AbstractCall
<1> HIDE DEF old
<1> QED
  BY <1>1, <1>2, <1>3 DEF Store!Expire

LEMMA StepImplementsStep ==
    StoresInv /\ kind = "redis" /\ [StoresNext]_storesVars
      => Store!StoreNext \/ UNCHANGED Store!storeVars
<1> SUFFICES ASSUME StoresInv, kind = "redis", [StoresNext]_storesVars
             PROVE  Store!StoreNext \/ UNCHANGED Store!storeVars
  OBVIOUS
<1>1. StoreTypeOK
  BY DEF StoresInv, TimedTypeOK
<1>2. CASE UNCHANGED storesVars
  <2>1. UNCHANGED <<db, call, life>>
    BY <1>2 DEF storesVars, timedVars, storeVars
  <2>2. AbstractCall' = AbstractCall
    BY <2>1 DEF AbstractCall
  <2> QED
    BY <2>1, <2>2 DEF Store!storeVars
<1>3. ASSUME NEW c \in Clients, TimedInvoke(c) PROVE Store!StoreNext
  BY <1>1, <1>3, InvokeImplementsInvoke DEF TimedInvoke, Store!StoreNext
<1>4. ASSUME NEW c \in Clients, TimedReturn(c) PROVE Store!StoreNext
  BY <1>1, <1>4, ReturnImplementsReturn DEF TimedReturn, Store!StoreNext
<1>5. ASSUME NEW c \in Clients, RedisCommand(c)
      PROVE  Store!StoreNext \/ UNCHANGED Store!storeVars
  <2>1. UNCHANGED life
    BY <1>5 DEF RedisCommand
  <2> QED
    BY <1>5, <2>1, CommandImplementsCommit DEF Store!StoreNext, Store!storeVars
<1>6. ASSUME Tick PROVE Store!StoreNext
  BY <1>6, TickImplementsExpire DEF Store!StoreNext
<1> QED
  BY <1>2, <1>3, <1>4, <1>5, <1>6 DEF StoresNext, RedisNext

(***************************************************************************)
(* Every step of RedisStore is a step of Store or changes nothing that     *)
(* Store tells of: its two commands and its time are within what the       *)
(* interface promises.                                                     *)
(***************************************************************************)
THEOREM StoresRedisImplements == StoresSpec => RedisImplementsStore
<1>1. StoresInv /\ [StoresNext]_storesVars
      => [kind = "redis" => Store!StoreNext \/ UNCHANGED Store!storeVars]_storesVars
  BY StepImplementsStep
<1> QED
  BY <1>1, StoresInvariant, PTL DEF StoresSpec, RedisImplementsStore

(***************************************************************************)
(* A gateway that was given RedisStore has, to its handlers, a Store: the  *)
(* initial states, which the runs do not compare, and every step.          *)
(***************************************************************************)
THEOREM StoresRedisIsStore == StoresSpec /\ kind = "redis" => Store!StoreSpec
<1>1. StoresInit => Store!StoreInit
  <2> SUFFICES ASSUME StoresInit
               PROVE  Store!StoreInit
    OBVIOUS
  <2>1. NoCall.phase # "between" /\ Store!NoCall = NoCall
    BY DEF NoCall, Store!NoCall
  <2>2. call = [c \in Clients |-> NoCall]
    BY DEF StoresInit, TimedInit, StoreInit
  <2>3. [NoCall EXCEPT !.phase = IF @ = "between" THEN "called" ELSE @] = NoCall
    BY <2>1 DEF NoCall
  <2>4. AbstractCall = [c \in Clients |-> NoCall]
    BY <2>2, <2>3 DEF AbstractCall
  <2> QED
    BY <2>1, <2>4 DEF StoresInit, TimedInit, StoreInit, Store!StoreInit
<1>2. kind = "redis" /\ [StoresNext]_storesVars => (kind = "redis")'
  BY DEF StoresNext, storesVars
<1>3. StoresInv /\ kind = "redis" /\ [StoresNext]_storesVars
      => [Store!StoreNext]_(Store!storeVars)
  BY StepImplementsStep
<1> QED
  BY <1>1, <1>2, <1>3, StoresInvariant, PTL DEF StoresSpec, Store!StoreSpec

=============================================================================
