------------------------------ MODULE WebClient ------------------------------
(***************************************************************************)
(* The session of the web client (441-clients/src/App.js and the           *)
(* components under Auth and Main): who is signed in according to the      *)
(* React state of a tab, to the localStorage all tabs of a browser share,  *)
(* and to the gateway.                                                     *)
(*                                                                         *)
(* An event handler that fetches is a job: the gateway handles its request *)
(* in one step, the page its answer in another, and anything else may      *)
(* happen in between, a reload of the tab included, which ends its jobs.   *)
(* A fetch that gets no answer is rejected, and no handler catches that.   *)
(*                                                                         *)
(* A session id is the number of the session.  In storage, 0 stands for an *)
(* entry that is missing or empty, and Null for the text "null" a null is  *)
(* stored as.                                                              *)
(***************************************************************************)
EXTENDS Naturals

CONSTANTS
    Tabs,
    Jobs,         \* room for jobs in flight
    Users, NoUser,
    MaxSessions,  \* bound on sessions begun
    MaxFaults     \* bound on answers lost or refused without a reason

ASSUME NobodyIsNoUser == NoUser \notin Users
ASSUME BoundsAreNumbers == MaxSessions \in Nat /\ MaxFaults \in Nat

VARIABLES
    storage,    \* localStorage.Authorization
    page,       \* state of App, per tab: the page,
    token,      \* authToken, 0 for null and "",
    user,       \* and the user it shows
    job,        \* the jobs in flight
    owner,      \* the gateway: the user each session was begun for, or NoUser
    live,       \* its sessions that have not ended
    synced,     \* history: the tabs that loaded or wrote what is in storage
    disturbed,  \* history, per tab: since it was loaded, a job was begun while
                \* another was in flight or on another tab's session, or the
                \* page never got the user of a session
    faults

vars == <<storage, synced, page, token, user, job, owner, live, disturbed, faults>>
local == <<storage, synced>>
shown == <<page, token, user>>
server == <<owner, live, faults>>

Session == 1 .. MaxSessions
Null == MaxSessions + 1
Page == {"signIn", "forgotPassword", "main", "updateName"}
Kind == {"startUp", "signIn", "resetCode", "signOut", "update"}

(***************************************************************************)
(* `token' is the session the request presents and, once a sign-in is      *)
(* answered, the one it was given.  `user' is the user the form was filled *)
(* in by, and then the one in the body of the answer.                      *)
(***************************************************************************)
Job == [kind : Kind, tab : Tabs, at : {"sent", "refused", "ok", "body"},
        token : 0 .. Null, user : Users \cup {NoUser}]

Idle == [kind |-> "none"]

TypeOK ==
    /\ storage \in 0 .. Null
    /\ synced \subseteq Tabs
    /\ page \in [Tabs -> Page]
    /\ token \in [Tabs -> 0 .. Null]
    /\ user \in [Tabs -> Users \cup {NoUser}]
    /\ job \in [Jobs -> Job \cup {Idle}]
    /\ owner \in [Session -> Users \cup {NoUser}]
    /\ live \subseteq {s \in Session : owner[s] # NoUser}
    /\ disturbed \in [Tabs -> BOOLEAN]
    /\ faults \in 0 .. MaxFaults

Init ==
    /\ storage = 0 /\ synced = Tabs
    /\ page = [t \in Tabs |-> "signIn"]
    /\ token = [t \in Tabs |-> 0]
    /\ user = [t \in Tabs |-> NoUser]
    /\ job = [j \in Jobs |-> Idle]
    /\ owner = [s \in Session |-> NoUser]
    /\ live = {}
    /\ disturbed = [t \in Tabs |-> FALSE]
    /\ faults = 0

-----------------------------------------------------------------------------
InTab(j, t) == job[j] # Idle /\ job[j].tab = t

InFlight(t) == \E j \in Jobs : InTab(j, t)

Fault == faults < MaxFaults /\ faults' = faults + 1

\* A handler sends its request; `own' says that its session is the tab's.
Begin(j, kind, t, tok, u, own) ==
    /\ job[j] = Idle
    /\ job' = [job EXCEPT ![j] = [kind |-> kind, tab |-> t, at |-> "sent",
                                  token |-> tok, user |-> u]]
    /\ disturbed' = [disturbed EXCEPT ![t] = @ \/ InFlight(t) \/ ~own]
    /\ UNCHANGED <<local, shown, server>>

At(j, kind, stage) == job[j] # Idle /\ job[j].kind = kind /\ job[j].at = stage

End(j) == job' = [job EXCEPT ![j] = Idle]

-----------------------------------------------------------------------------
(***************************************************************************)
(* Loading a tab: the constructor of App, and getCurrentUser if there is a *)
(* token.                                                                  *)
(***************************************************************************)
Load(t) ==
    LET stay == [j \in Jobs |-> IF InTab(j, t) THEN Idle ELSE job[j]]
    IN  /\ page' = [page EXCEPT ![t] = IF storage # 0 THEN "main" ELSE "signIn"]
        /\ token' = [token EXCEPT ![t] = storage]
        /\ user' = [user EXCEPT ![t] = NoUser]
        /\ disturbed' = [disturbed EXCEPT ![t] = FALSE]
        /\ synced' = synced \cup {t}
        /\ \/ storage = 0 /\ job' = stay
           \/ storage # 0 /\ \E j \in Jobs :
                 /\ stay[j] = Idle
                 /\ job' = [stay EXCEPT ![j] =
                              [kind |-> "startUp", tab |-> t, at |-> "sent",
                               token |-> storage, user |-> NoUser]]
        /\ UNCHANGED <<storage, server>>

\* Mutant: a signed-out page is left without the token going with it.
SetAuthTokenPageOnly(t, tok) ==
    /\ page' = [page EXCEPT ![t] = IF tok = 0 THEN "signIn" ELSE "main"]
    /\ UNCHANGED token

\* setAuthToken; a null is stored as text, and is no token in the state.
SetAuthToken(t, tok) ==
    /\ token' = [token EXCEPT ![t] = IF tok = Null THEN 0 ELSE tok]
    /\ page' = [page EXCEPT ![t] = IF tok = 0 THEN "signIn" ELSE "main"]

ShowUser(t, u) == user' = [user EXCEPT ![t] = u]

\* The tab writes localStorage.
Keep(t, tok) == storage' = tok /\ synced' = {t}

ForgetSession(t) == Keep(t, 0) /\ SetAuthToken(t, 0) /\ ShowUser(t, NoUser)

\* getCurrentUser: who is the owner of the token the tab was loaded with?
StartUpDone(j) ==
    LET t == job[j].tab
    IN  /\ \/ At(j, "startUp", "refused") /\ ForgetSession(t)
           \/ At(j, "startUp", "ok") /\ ShowUser(t, job[j].user)
              /\ UNCHANGED <<local, page, token>>
        /\ End(j)
        /\ UNCHANGED <<server, disturbed>>

(***************************************************************************)
(* The buttons.  Main is shown while there is a user, Auth while there is  *)
(* none; Auth shows the form to sign in on every page it does not know.    *)
(***************************************************************************)
Buttons(t) == IF user[t] # NoUser THEN {"main", "updateName"}
              ELSE {"signIn", "forgotPassword"}

SetPage(t, p) ==
    /\ p \in Buttons(t)
    /\ page' = [page EXCEPT ![t] = p]
    /\ UNCHANGED <<local, token, user, job, disturbed, server>>

-----------------------------------------------------------------------------
(***************************************************************************)
(* SignIn and SignUp: the token is stored as soon as the header is there,  *)
(* the user shown once the body is.                                        *)
(***************************************************************************)
SignIn(j, t, u) ==
    /\ user[t] = NoUser /\ page[t] # "forgotPassword"
    /\ Begin(j, "signIn", t, 0, u, TRUE)

\* Mutant: the token is kept in the state and not in storage.
SignInDoneUnstored(j) ==
    LET t == job[j].tab
    IN  \/ /\ At(j, "signIn", "ok")
           /\ Keep(t, 0)
           /\ SetAuthToken(t, job[j].token)
           /\ job' = [job EXCEPT ![j].at = "body"]
           /\ UNCHANGED <<user, server, disturbed>>
        \/ /\ At(j, "signIn", "body") /\ job[j].user # NoUser
           /\ ShowUser(t, job[j].user)
           /\ End(j)
           /\ UNCHANGED <<local, page, token, server, disturbed>>

SignInDone(j) ==
    LET t == job[j].tab
    IN  \/ /\ At(j, "signIn", "refused")
           /\ End(j)
           /\ UNCHANGED <<local, shown, server, disturbed>>
        \/ /\ At(j, "signIn", "ok")
           /\ Keep(t, job[j].token)
           /\ SetAuthToken(t, job[j].token)
           /\ job' = [job EXCEPT ![j].at = "body"]
           /\ UNCHANGED <<user, server, disturbed>>
        \/ /\ At(j, "signIn", "body") /\ job[j].user # NoUser
           /\ ShowUser(t, job[j].user)
           /\ End(j)
           /\ UNCHANGED <<local, page, token, server, disturbed>>
        \/ /\ At(j, "signIn", "body") /\ job[j].user = NoUser
           /\ End(j)
           /\ disturbed' = [disturbed EXCEPT ![t] = TRUE]
           /\ UNCHANGED <<local, shown, server>>

\* ForgotPassword fetches from an address that is not configured.
ResetCode(j, t) ==
    /\ user[t] = NoUser /\ page[t] = "forgotPassword"
    /\ Begin(j, "resetCode", t, 0, NoUser, TRUE)

\* SignOutButton presents no session.
SignOut(j, t) ==
    /\ user[t] # NoUser
    /\ Begin(j, "signOut", t, 0, NoUser, TRUE)

\* Mutant: localStorage is forgotten, the state is not.
SignOutDoneInStorage(j) ==
    /\ At(j, "signOut", "ok")
    /\ Keep(job[j].tab, 0)
    /\ ShowUser(job[j].tab, NoUser)
    /\ End(j)
    /\ UNCHANGED <<page, token, server, disturbed>>

SignOutDone(j) ==
    /\ At(j, "signOut", "ok")
    /\ ForgetSession(job[j].tab)
    /\ End(j)
    /\ UNCHANGED <<server, disturbed>>

\* UpdateName presents the session in storage, whoever the page shows.
Update(j, t) ==
    /\ user[t] # NoUser /\ page[t] = "updateName"
    /\ Begin(j, "update", t, storage, user[t], t \in synced)

UpdateDone(j) ==
    LET t == job[j].tab
    IN  /\ \/ At(j, "update", "refused") /\ UNCHANGED shown
           \/ At(j, "update", "ok") /\ ShowUser(t, job[j].user)
              /\ page' = [page EXCEPT ![t] = "main"] /\ UNCHANGED token
        /\ End(j)
        /\ UNCHANGED <<local, server, disturbed>>

-----------------------------------------------------------------------------
(***************************************************************************)
(* The gateway (module Gateway) answers.  It refuses a wrong password, an  *)
(* update that changes nothing, and when a call of its own fails.          *)
(***************************************************************************)
Answered(j, stage, tok, u) ==
    job' = [job EXCEPT ![j].at = stage, ![j].token = tok, ![j].user = u]

Unstarted == {s \in Session : owner[s] = NoUser}

Grant(j) ==
    /\ \/ /\ At(j, "startUp", "sent") \/ At(j, "update", "sent")
          /\ job[j].token \in live
          /\ Answered(j, "ok", job[j].token, owner[job[j].token])
          /\ UNCHANGED server
       \/ /\ At(j, "signIn", "sent")
          /\ \E s \in Unstarted :
                /\ \A r \in Unstarted : s <= r
                /\ owner' = [owner EXCEPT ![s] = job[j].user]
                /\ live' = live \cup {s}
                /\ Answered(j, "ok", s, job[j].user)
          /\ UNCHANGED faults
       \/ /\ At(j, "signIn", "sent")
          /\ Fault  \* no session could be saved: 200 without a header or a body
          /\ Answered(j, "ok", Null, NoUser)
          /\ UNCHANGED <<owner, live>>
       \/ /\ At(j, "signOut", "sent")
          /\ Answered(j, "ok", 0, NoUser)
          /\ UNCHANGED server
    /\ UNCHANGED <<local, shown, disturbed>>

Refuse(j) ==
    /\ \/ At(j, "signIn", "sent") /\ UNCHANGED faults
       \/ At(j, "update", "sent") /\ UNCHANGED faults
       \/ At(j, "startUp", "sent") /\ job[j].token \notin live /\ UNCHANGED faults
       \/ At(j, "startUp", "sent") /\ job[j].token \in live /\ Fault
    /\ Answered(j, "refused", 0, NoUser)
    /\ UNCHANGED <<local, shown, disturbed, owner, live>>

\* The fetch is rejected, its request handled or not, or the reading of the
\* body is, after the token was stored.
Reject(j) ==
    /\ \/ At(j, "resetCode", "sent") /\ UNCHANGED <<faults, disturbed>>
       \/ /\ job[j] # Idle /\ job[j].kind # "resetCode"
          /\ Fault
          /\ disturbed' = [disturbed EXCEPT ![job[j].tab] =
                             @ \/ job[j].kind = "startUp" \/ job[j].at = "body"]
    /\ End(j)
    /\ UNCHANGED <<local, shown, owner, live>>

\* Nobody used it for its duration, or the gateway is deployed anew.
SessionEnds(s) ==
    /\ s \in live
    /\ live' = live \ {s}
    /\ UNCHANGED <<local, shown, job, owner, disturbed, faults>>

Next ==
    \/ \E t \in Tabs : Load(t) \/ \E p \in Page : SetPage(t, p)
    \/ \E j \in Jobs, t \in Tabs :
          ResetCode(j, t) \/ SignOut(j, t) \/ Update(j, t) \/ \E u \in Users : SignIn(j, t, u)
    \/ \E j \in Jobs : StartUpDone(j) \/ SignInDone(j) \/ SignOutDone(j) \/ UpdateDone(j)
    \/ \E j \in Jobs : Grant(j) \/ Refuse(j) \/ Reject(j)
    \/ \E s \in Session : SessionEnds(s)

Spec == Init /\ [][Next]_vars

-----------------------------------------------------------------------------
(***************************************************************************)
(* The user a tab shows is the owner of the token it sends with requests   *)
(* for schedules and teams (MainPageContent gets both as properties): an   *)
(* answer never leaves one user's name over another's data, unless the     *)
(* tab was disturbed, and a reload heals that.                             *)
(***************************************************************************)
ShownUserOwnsToken ==
    \A t \in Tabs : ~disturbed[t] /\ user[t] # NoUser =>
        token[t] \in Session /\ owner[token[t]] = user[t]

(***************************************************************************)
(* At rest a tab is signed in or signed out and never in between, although *)
(* three setStates and two awaits take it from one to the other: a user is *)
(* shown exactly if there is a token, and no page of a signed-in user is   *)
(* left to one who is not.                                                 *)
(***************************************************************************)
AtRestInOrOut ==
    \A t \in Tabs : ~disturbed[t] /\ ~InFlight(t) =>
        /\ user[t] # NoUser <=> token[t] # 0
        /\ page[t] \in {"main", "updateName"} => user[t] # NoUser

(***************************************************************************)
(* The name that is edited is that of the user the form was shown to: the  *)
(* session UpdateName takes from storage is the one of the tab's state,    *)
(* unless another tab wrote to storage after this one.                     *)
(***************************************************************************)
UpdatesOwnProfile ==
    [][\A j \in Jobs :
          job[j] = Idle /\ job'[j] # Idle /\ job'[j].kind = "update" =>
             LET new == job'[j]
             IN  ~disturbed'[new.tab] => new.token \in Session /\ owner[new.token] = new.user]_vars

=============================================================================
