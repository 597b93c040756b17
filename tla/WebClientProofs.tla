---------------------------- MODULE WebClientProofs ----------------------------
(***************************************************************************)
(* The session of the web client, for any tabs, users and room for jobs,   *)
(* any number of sessions and any faults.                                  *)
(***************************************************************************)
EXTENDS WebClient, TLAPS

Owned(s, u) == s \in Session /\ u # NoUser /\ owner[s] = u

(***************************************************************************)
(* What a job in flight knows of the gateway, whatever becomes of its tab: *)
(* an answer names a session and its owner, or neither.                    *)
(***************************************************************************)
GoodJob(j) ==
    /\ At(j, "signIn", "sent") => job[j].user # NoUser
    /\ At(j, "signIn", "ok") \/ At(j, "signIn", "body") =>
          \/ Owned(job[j].token, job[j].user)
          \/ job[j].token = Null /\ job[j].user = NoUser
    /\ At(j, "startUp", "ok") \/ At(j, "update", "ok") => Owned(job[j].token, job[j].user)

(***************************************************************************)
(* A tab that loaded or wrote what is in storage has it in its state, but  *)
(* for the null that is stored as text.                                    *)
(***************************************************************************)
InSync == \A t \in synced : token[t] = storage \/ (storage = Null /\ token[t] = 0)

\* Jobs that are about to show a user, whose token the state has already.
Entering(j) == job[j].kind = "startUp" \/ At(j, "signIn", "body")

InOrOut(t) ==
    /\ user[t] # NoUser <=> token[t] # 0
    /\ page[t] \in {"main", "updateName"} => user[t] # NoUser

(***************************************************************************)
(* What the one job of a tab that was not disturbed finds in its state:    *)
(* nobody but it changes the token or the user.                            *)
(***************************************************************************)
Fits(j, t) ==
    /\ job[j].kind \in {"startUp", "signIn"} => user[t] = NoUser
    /\ job[j].kind \in {"startUp", "update"} /\ job[j].at \in {"sent", "ok"} =>
          job[j].token = token[t]
    /\ At(j, "signIn", "body") =>
          token[t] = IF job[j].token = Null THEN 0 ELSE job[j].token
    /\ job[j].kind = "update" => user[t] # NoUser
    /\ ~Entering(j) => InOrOut(t)

GoodTab(t) ==
    ~disturbed[t] =>
        /\ user[t] # NoUser => Owned(token[t], user[t])
        /\ \A j, k \in Jobs : InTab(j, t) /\ InTab(k, t) => j = k
        /\ \A j \in Jobs : InTab(j, t) => Fits(j, t)
        /\ ~InFlight(t) => InOrOut(t)

Inv ==
    /\ TypeOK
    /\ InSync
    /\ \A j \in Jobs : GoodJob(j)
    /\ \A t \in Tabs : GoodTab(t)

-----------------------------------------------------------------------------
LEMMA Numbers ==
    /\ MaxSessions \in Nat /\ Null \in Nat /\ Null # 0 /\ Null \notin Session
    /\ 0 \notin Session /\ Session \subseteq 0 .. Null /\ 0 \in 0 .. Null /\ Null \in 0 .. Null
BY BoundsAreNumbers DEF Null, Session

LEMMA IdleIsNoJob == Idle \notin Job
<1> SUFFICES ASSUME Idle \in Job
             PROVE  FALSE
  OBVIOUS
<1>1. Idle.kind \in Kind
  BY DEF Job
<1>2. Idle.kind = "none"
  BY DEF Idle
<1> QED
  BY <1>1, <1>2 DEF Kind

LEMMA JobFields ==
    ASSUME TypeOK, NEW j \in Jobs, job[j] # Idle
    PROVE  /\ job[j] \in Job
           /\ job[j].kind \in Kind /\ job[j].tab \in Tabs
           /\ job[j].at \in {"sent", "refused", "ok", "body"}
           /\ job[j].token \in 0 .. Null /\ job[j].user \in Users \cup {NoUser}
<1>1. job[j] \in Job
  BY DEF TypeOK
<1> QED
  BY <1>1 DEF Job

(***************************************************************************)
(* A session that was begun stays its owner's.                             *)
(***************************************************************************)
OwnersStay == \A s \in Session : owner[s] # NoUser => owner'[s] = owner[s]

LEMMA OwnedStays ==
    ASSUME OwnersStay, NEW s, NEW u, Owned(s, u)
    PROVE  Owned(s, u)'
BY DEF OwnersStay, Owned

LEMMA GoodJobStays ==
    ASSUME OwnersStay, NEW j \in Jobs, GoodJob(j), job'[j] = job[j]
    PROVE  GoodJob(j)'
<1>1. Owned(job[j].token, job[j].user) => Owned(job[j].token, job[j].user)'
  BY DEF OwnersStay, Owned
<1> QED
  BY <1>1 DEF GoodJob, At

(***************************************************************************)
(* A step concerns one tab: the state of the others is left alone, and so  *)
(* are their jobs.                                                         *)
(***************************************************************************)
TabIsLeft(t) ==
    /\ page'[t] = page[t] /\ token'[t] = token[t] /\ user'[t] = user[t]
    /\ disturbed'[t] = disturbed[t]

JobIsOf(j, t) == job[j] = Idle \/ job[j].tab = t

Concerns(t) ==
    /\ \A u \in Tabs \ {t} : TabIsLeft(u)
    /\ \A j \in Jobs : job'[j] = job[j] \/ (JobIsOf(j, t) /\ JobIsOf(j, t)' /\ GoodJob(j)')

LEMMA GoodTabStays ==
    ASSUME Inv, OwnersStay, NEW t \in Tabs, GoodTab(t), TabIsLeft(t),
           \A j \in Jobs : job'[j] = job[j] \/ (~InTab(j, t) /\ ~InTab(j, t)')
    PROVE  GoodTab(t)'
<1>1. \A j \in Jobs : /\ InTab(j, t)' <=> InTab(j, t)
                      /\ InTab(j, t) => job'[j] = job[j]
  BY DEF InTab
<1>2. InFlight(t)' <=> InFlight(t)
  BY <1>1 DEF InFlight
<1>3. InOrOut(t)' <=> InOrOut(t)
  BY DEF InOrOut, TabIsLeft
<1>4. ASSUME NEW j \in Jobs, InTab(j, t), Fits(j, t)
      PROVE  Fits(j, t)'
  BY <1>1, <1>3, <1>4 DEF Fits, Entering, At, TabIsLeft
<1>5. Owned(token[t], user[t]) => Owned(token[t], user[t])'
  BY DEF OwnersStay, Owned, TabIsLeft
<1> QED
  BY <1>1, <1>2, <1>3, <1>4, <1>5 DEF GoodTab, TabIsLeft

LEMMA TabStepKeepsInv ==
    ASSUME Inv, TypeOK', InSync', OwnersStay, NEW t \in Tabs, Concerns(t), GoodTab(t)'
    PROVE  Inv'
<1>1. ASSUME NEW j \in Jobs PROVE GoodJob(j)'
  BY GoodJobStays DEF Inv, Concerns
<1>2. ASSUME NEW u \in Tabs \ {t} PROVE GoodTab(u)'
  <2>1. \A j \in Jobs : job'[j] = job[j] \/ (~InTab(j, u) /\ ~InTab(j, u)')
    BY DEF Concerns, JobIsOf, InTab, Idle
  <2> QED
    BY <2>1, GoodTabStays DEF Inv, Concerns
<1> QED
  BY <1>1, <1>2 DEF Inv

-----------------------------------------------------------------------------
(***************************************************************************)
(* What a step does to the job it is of.                                   *)
(***************************************************************************)
OthersStay(j) == \A k \in Jobs \ {j} : job'[k] = job[k]

LEMMA BegunJob ==
    ASSUME TypeOK, NEW j \in Jobs, NEW kind \in Kind, NEW t \in Tabs,
           NEW tok \in 0 .. Null, NEW u \in Users \cup {NoUser}, NEW own \in BOOLEAN,
           Begin(j, kind, t, tok, u, own)
    PROVE  /\ job[j] = Idle /\ OthersStay(j)
           /\ job' \in [Jobs -> Job \cup {Idle}]
           /\ job'[j] # Idle /\ job'[j].kind = kind /\ job'[j].tab = t
           /\ job'[j].at = "sent" /\ job'[j].token = tok /\ job'[j].user = u
           /\ disturbed' \in [Tabs -> BOOLEAN]
           /\ \A v \in Tabs \ {t} : disturbed'[v] = disturbed[v]
           /\ ~disturbed'[t] => ~disturbed[t] /\ ~InFlight(t) /\ own
           /\ UNCHANGED <<storage, synced, page, token, user, owner, live, faults>>
<1> DEFINE r == [kind |-> kind, tab |-> t, at |-> "sent", token |-> tok, user |-> u]
<1>1. r \in Job /\ r # Idle
  BY IdleIsNoJob DEF Job
<1>2. job[j] = Idle /\ job' = [job EXCEPT ![j] = r]
  BY DEF Begin
<1>3. job \in [Jobs -> Job \cup {Idle}] /\ disturbed \in [Tabs -> BOOLEAN]
  BY DEF TypeOK
<1>4. job'[j] = r /\ OthersStay(j) /\ job' \in [Jobs -> Job \cup {Idle}]
  BY <1>1, <1>2, <1>3 DEF OthersStay
<1>5. disturbed' = [disturbed EXCEPT ![t] = disturbed[t] \/ InFlight(t) \/ ~own]
  BY DEF Begin
<1>6. (disturbed[t] \/ InFlight(t) \/ ~own) \in BOOLEAN
  BY Zenon
<1>7. disturbed' \in [Tabs -> BOOLEAN] /\ \A v \in Tabs \ {t} : disturbed'[v] = disturbed[v]
  BY <1>3, <1>5, <1>6
<1>8. disturbed'[t] = (disturbed[t] \/ InFlight(t) \/ ~own)
  BY <1>3, <1>5
<1>9. UNCHANGED <<storage, synced, page, token, user, owner, live, faults>>
  BY DEF Begin, local, shown, server
<1> QED
  BY <1>1, <1>2, <1>4, <1>7, <1>8, <1>9

LEMMA EndedJob ==
    ASSUME TypeOK, NEW j \in Jobs, End(j)
    PROVE  job' \in [Jobs -> Job \cup {Idle}] /\ job'[j] = Idle /\ OthersStay(j)
BY DEF TypeOK, End, OthersStay, Idle

LEMMA AnsweredJob ==
    ASSUME TypeOK, NEW j \in Jobs, job[j] # Idle, NEW stage \in {"sent", "refused", "ok", "body"},
           NEW tok \in 0 .. Null, NEW u \in Users \cup {NoUser}, Answered(j, stage, tok, u)
    PROVE  /\ job' \in [Jobs -> Job \cup {Idle}] /\ OthersStay(j)
           /\ job'[j] # Idle /\ job'[j].kind = job[j].kind /\ job'[j].tab = job[j].tab
           /\ job'[j].at = stage /\ job'[j].token = tok /\ job'[j].user = u
<1> DEFINE r == [job[j] EXCEPT !.at = stage, !.token = tok, !.user = u]
<1>1. job[j] \in Job /\ job \in [Jobs -> Job \cup {Idle}]
  BY JobFields DEF TypeOK
<1>2. job' = [job EXCEPT ![j] = r]
  BY <1>1 DEF Answered, Job
<1>3. /\ r \in Job /\ r.kind = job[j].kind /\ r.tab = job[j].tab
      /\ r.at = stage /\ r.token = tok /\ r.user = u
  BY <1>1 DEF Job
<1>4. r # Idle
  BY <1>3, IdleIsNoJob
<1> HIDE DEF r
<1> QED
  BY <1>1, <1>2, <1>3, <1>4 DEF OthersStay

\* A tab whose one job is over has nothing in flight.
LEMMA NothingLeft ==
    ASSUME Inv, NEW t \in Tabs, NEW j \in Jobs, InTab(j, t), job'[j] = Idle, OthersStay(j),
           ~disturbed[t]
    PROVE  \A k \in Jobs : ~InTab(k, t)'
<1>1. \A k \in Jobs : InTab(k, t) => k = j
  BY DEF Inv, GoodTab
<1>2. ASSUME NEW k \in Jobs, InTab(k, t)' PROVE FALSE
  <2>1. k # j
    BY <1>2 DEF InTab, Idle
  <2>2. InTab(k, t)
    BY <1>2, <2>1 DEF OthersStay, InTab, Idle
  <2> QED
    BY <1>1, <2>1, <2>2
<1> QED
  BY <1>2

(***************************************************************************)
(* The end of a job: it leaves its tab signed in or signed out, or         *)
(* disturbed.                                                              *)
(***************************************************************************)
LEMMA EndKeepsInv ==
    ASSUME Inv, TypeOK', InSync', UNCHANGED owner,
           NEW t \in Tabs, NEW j \in Jobs, InTab(j, t), End(j),
           \A u \in Tabs \ {t} : TabIsLeft(u),
           ~disturbed'[t] =>
              /\ ~disturbed[t]
              /\ InOrOut(t)'
              /\ user'[t] # NoUser => Owned(token[t], user[t])'
    PROVE  Inv'
<1>1. job'[j] = Idle /\ OthersStay(j)
  BY EndedJob DEF Inv
<1>2. OwnersStay
  BY DEF OwnersStay
<1>3. GoodJob(j)'
  BY <1>1 DEF GoodJob, At, Idle
<1>4. Concerns(t)
  BY <1>1, <1>3 DEF Concerns, OthersStay, JobIsOf, InTab, Idle
<1>5. GoodTab(t)'
  <2>1. ASSUME ~disturbed'[t] PROVE \A k \in Jobs : ~InTab(k, t)'
    BY <1>1, <2>1, NothingLeft
  <2> QED
    BY <2>1 DEF GoodTab, InFlight
<1> QED
  BY <1>2, <1>4, <1>5, TabStepKeepsInv

-----------------------------------------------------------------------------
(***************************************************************************)
(* What the user does: handlers that send a request, pages, and loading.   *)
(***************************************************************************)
LEMMA BeginKeepsInv ==
    ASSUME Inv, NEW j \in Jobs, NEW kind \in Kind \ {"startUp"}, NEW t \in Tabs,
           NEW tok \in 0 .. Null, NEW u \in Users \cup {NoUser}, NEW own \in BOOLEAN,
           Begin(j, kind, t, tok, u, own),
           kind = "signIn" => user[t] = NoUser /\ u # NoUser,
           kind = "update" => user[t] # NoUser,
           kind = "update" /\ own /\ ~disturbed[t] => tok = token[t]
    PROVE  Inv'
<1>1. /\ job[j] = Idle /\ OthersStay(j)
      /\ job' \in [Jobs -> Job \cup {Idle}]
      /\ job'[j] # Idle /\ job'[j].kind = kind /\ job'[j].tab = t
      /\ job'[j].at = "sent" /\ job'[j].token = tok /\ job'[j].user = u
      /\ disturbed' \in [Tabs -> BOOLEAN]
      /\ \A v \in Tabs \ {t} : disturbed'[v] = disturbed[v]
      /\ ~disturbed'[t] => ~disturbed[t] /\ ~InFlight(t) /\ own
      /\ UNCHANGED <<storage, synced, page, token, user, owner, live, faults>>
  BY BegunJob DEF Inv
<1>2. TypeOK'
  BY <1>1 DEF Inv, TypeOK
<1>3. InSync' /\ OwnersStay
  BY <1>1 DEF Inv, InSync, OwnersStay
<1>4. GoodJob(j)'
  BY <1>1 DEF GoodJob, At
<1>5. Concerns(t)
  BY <1>1, <1>4 DEF Concerns, TabIsLeft, OthersStay, JobIsOf, Idle
<1>6. GoodTab(t)'
  <2> SUFFICES ASSUME ~disturbed'[t]
               PROVE  GoodTab(t)'
    BY DEF GoodTab
  <2>1. GoodTab(t) /\ ~disturbed[t] /\ ~InFlight(t) /\ own
    BY <1>1 DEF Inv
  <2>2. InOrOut(t) /\ (user[t] # NoUser => Owned(token[t], user[t]))
    BY <2>1 DEF GoodTab
  <2>3. InTab(j, t)' /\ \A k \in Jobs : InTab(k, t)' => k = j
    <3>1. InTab(j, t)'
      BY <1>1 DEF InTab, Idle
    <3>2. ASSUME NEW k \in Jobs \ {j} PROVE ~InTab(k, t)'
      BY <1>1, <2>1 DEF InFlight, InTab, OthersStay, Idle
    <3> QED
      BY <3>1, <3>2
  <2>4. InOrOut(t)' /\ (user'[t] # NoUser => Owned(token[t], user[t])')
    BY <1>1, <2>2 DEF InOrOut, Owned
  <2>5. Fits(j, t)'
    BY <1>1, <2>1, <2>4 DEF Fits, Entering, At
  <2>6. InFlight(t)'
    BY <2>3 DEF InFlight
  <2> QED
    BY <2>3, <2>4, <2>5, <2>6 DEF GoodTab
<1> QED
  BY <1>2, <1>3, <1>5, <1>6, TabStepKeepsInv

LEMMA SignInKeepsInv ==
    ASSUME Inv, NEW j \in Jobs, NEW t \in Tabs, NEW u \in Users, SignIn(j, t, u)
    PROVE  Inv'
<1>1. u # NoUser
  BY NobodyIsNoUser
<1> QED
  BY <1>1, Numbers, BeginKeepsInv DEF SignIn, Kind

LEMMA ResetCodeKeepsInv ==
    ASSUME Inv, NEW j \in Jobs, NEW t \in Tabs, ResetCode(j, t)
    PROVE  Inv'
BY Numbers, BeginKeepsInv DEF ResetCode, Kind

LEMMA SignOutKeepsInv ==
    ASSUME Inv, NEW j \in Jobs, NEW t \in Tabs, SignOut(j, t)
    PROVE  Inv'
BY Numbers, BeginKeepsInv DEF SignOut, Kind

\* The session in storage is that of a tab in sync with it that shows a user.
LEMMA StoredIsShown ==
    ASSUME Inv, NEW t \in Tabs, t \in synced, Owned(token[t], user[t])
    PROVE  storage = token[t]
BY Numbers DEF Inv, InSync, Owned

LEMMA UpdateKeepsInv ==
    ASSUME Inv, NEW j \in Jobs, NEW t \in Tabs, Update(j, t)
    PROVE  Inv'
<1>1. user[t] # NoUser /\ Begin(j, "update", t, storage, user[t], t \in synced)
  BY DEF Update
<1>2. t \in synced /\ ~disturbed[t] => storage = token[t]
  BY <1>1, StoredIsShown DEF Inv, GoodTab
<1>3. storage \in 0 .. Null /\ user[t] \in Users \cup {NoUser}
  BY DEF Inv, TypeOK
<1>4. (t \in synced) \in BOOLEAN
  BY SMT
<1>5. "update" \in Kind \ {"startUp"}
  BY DEF Kind
<1> QED
  BY <1>1, <1>2, <1>3, <1>4, <1>5, BeginKeepsInv

LEMMA SetPageKeepsInv ==
    ASSUME Inv, NEW t \in Tabs, NEW p \in Page, SetPage(t, p)
    PROVE  Inv'
<1>1. /\ page' = [page EXCEPT ![t] = p] /\ p \in Buttons(t)
      /\ UNCHANGED <<storage, synced, token, user, job, disturbed, owner, live, faults>>
  BY DEF SetPage, local, server
<1>2. TypeOK'
  BY <1>1 DEF Inv, TypeOK
<1>3. InSync' /\ OwnersStay
  BY <1>1 DEF Inv, InSync, OwnersStay
<1>4. Concerns(t)
  BY <1>1 DEF Inv, TypeOK, Concerns, TabIsLeft
<1>5. page'[t] = p
  BY <1>1 DEF Inv, TypeOK
<1>6. InOrOut(t) => InOrOut(t)'
  BY <1>1, <1>5 DEF InOrOut, Buttons
<1>7. ASSUME NEW j \in Jobs, Fits(j, t) PROVE Fits(j, t)'
  BY <1>1, <1>6, <1>7 DEF Fits, Entering, At
<1>8. \A j \in Jobs : InTab(j, t)' <=> InTab(j, t)
  BY <1>1 DEF InTab
<1>9. GoodTab(t)'
  BY <1>1, <1>6, <1>7, <1>8 DEF Inv, GoodTab, InFlight, Owned
<1> QED
  BY <1>2, <1>3, <1>4, <1>9, TabStepKeepsInv

LEMMA LoadKeepsInv ==
    ASSUME Inv, NEW t \in Tabs, Load(t)
    PROVE  Inv'
<1> DEFINE stay == [j \in Jobs |-> IF InTab(j, t) THEN Idle ELSE job[j]]
           start == [kind |-> "startUp", tab |-> t, at |-> "sent",
                     token |-> storage, user |-> NoUser]
<1>1. /\ page' = [page EXCEPT ![t] = IF storage # 0 THEN "main" ELSE "signIn"]
      /\ token' = [token EXCEPT ![t] = storage]
      /\ user' = [user EXCEPT ![t] = NoUser]
      /\ disturbed' = [disturbed EXCEPT ![t] = FALSE]
      /\ synced' = synced \cup {t}
      /\ UNCHANGED <<storage, owner, live, faults>>
      /\ \/ storage = 0 /\ job' = stay
         \/ storage # 0 /\ \E j \in Jobs : stay[j] = Idle /\ job' = [stay EXCEPT ![j] = start]
  BY DEF Load, server
<1>2. /\ page \in [Tabs -> Page] /\ token \in [Tabs -> 0 .. Null]
      /\ user \in [Tabs -> Users \cup {NoUser}] /\ disturbed \in [Tabs -> BOOLEAN]
      /\ job \in [Jobs -> Job \cup {Idle}] /\ storage \in 0 .. Null /\ synced \subseteq Tabs
  BY DEF Inv, TypeOK
<1>3. /\ start \in Job /\ start # Idle /\ start.tab = t
      /\ start.kind = "startUp" /\ start.at = "sent" /\ start.token = storage
  BY <1>2, IdleIsNoJob DEF Job, Kind
<1>4. stay \in [Jobs -> Job \cup {Idle}]
  BY <1>2
<1> HIDE DEF start
<1>5. \/ storage = 0 /\ \A k \in Jobs : job'[k] = stay[k]
      \/ storage # 0 /\ \E j \in Jobs : /\ job'[j] = start
                                        /\ \A k \in Jobs \ {j} : job'[k] = stay[k]
  BY <1>1, <1>4
<1>6. \A k \in Jobs : \/ job'[k] = job[k] /\ ~InTab(k, t)
                      \/ JobIsOf(k, t) /\ job'[k] \in {Idle, start}
  <2> SUFFICES ASSUME NEW k \in Jobs
               PROVE  \/ job'[k] = job[k] /\ ~InTab(k, t)
                      \/ JobIsOf(k, t) /\ job'[k] \in {Idle, start}
    OBVIOUS
  <2>1. stay[k] = IF InTab(k, t) THEN Idle ELSE job[k]
    OBVIOUS
  <2>2. stay[k] = Idle => JobIsOf(k, t)
    BY <2>1 DEF InTab, JobIsOf
  <2>3. job'[k] = stay[k] \/ (stay[k] = Idle /\ job'[k] = start)
    BY <1>1, <1>4
  <2> HIDE DEF stay
  <2> QED
    BY <2>1, <2>2, <2>3
<1>7. TypeOK'
  <2>1. page' \in [Tabs -> Page] /\ disturbed' \in [Tabs -> BOOLEAN]
        /\ user' \in [Tabs -> Users \cup {NoUser}] /\ token' \in [Tabs -> 0 .. Null]
    BY <1>1, <1>2 DEF Page
  <2>2. job' \in [Jobs -> Job \cup {Idle}]
    BY <1>1, <1>3, <1>4
  <2> QED
    BY <1>1, <1>2, <2>1, <2>2 DEF Inv, TypeOK
<1>8. /\ page'[t] = IF storage # 0 THEN "main" ELSE "signIn"
      /\ token'[t] = storage /\ user'[t] = NoUser
      /\ \A u \in Tabs \ {t} : TabIsLeft(u)
  BY <1>1, <1>2 DEF TabIsLeft
<1>9. InSync' /\ OwnersStay
  BY <1>1, <1>2, <1>8 DEF Inv, InSync, OwnersStay, TabIsLeft
<1>10. Concerns(t)
  <2>1. ASSUME NEW k \in Jobs, job'[k] \in {Idle, start}
        PROVE  JobIsOf(k, t)' /\ GoodJob(k)'
    BY <1>3, <2>1 DEF JobIsOf, GoodJob, At, Idle
  <2> QED
    BY <1>6, <1>8, <2>1 DEF Concerns
<1>11. GoodTab(t)'
  <2>1. CASE storage = 0
    <3>1. \A k \in Jobs : ~InTab(k, t)'
      BY <1>5, <2>1 DEF InTab, Idle
    <3>2. InOrOut(t)'
      BY <1>8, <2>1 DEF InOrOut
    <3> QED
      BY <1>8, <3>1, <3>2 DEF GoodTab, InFlight
  <2>2. CASE storage # 0
    <3>1. PICK j \in Jobs : job'[j] = start /\ \A k \in Jobs \ {j} : job'[k] = stay[k]
      BY <1>5, <2>2
    <3>2. InTab(j, t)' /\ \A k \in Jobs : InTab(k, t)' => k = j
      BY <1>3, <3>1 DEF InTab, Idle
    <3>3. Fits(j, t)'
      BY <1>3, <1>8, <3>1 DEF Fits, Entering, At
    <3> QED
      BY <1>8, <3>2, <3>3 DEF GoodTab, InFlight
  <2> QED
    BY <2>1, <2>2
<1> QED
  BY <1>7, <1>9, <1>10, <1>11, TabStepKeepsInv

-----------------------------------------------------------------------------
(***************************************************************************)
(* Answers that reach the page.                                            *)
(***************************************************************************)
\* A tab that is left signed out, with storage to match.
LEMMA Forgotten ==
    ASSUME Inv, NEW t \in Tabs, ForgetSession(t)
    PROVE  /\ page' \in [Tabs -> Page] /\ token' \in [Tabs -> 0 .. Null]
           /\ user' \in [Tabs -> Users \cup {NoUser}]
           /\ storage' = 0 /\ synced' = {t}
           /\ page'[t] = "signIn" /\ token'[t] = 0 /\ user'[t] = NoUser
           /\ \A u \in Tabs \ {t} :
                 page'[u] = page[u] /\ token'[u] = token[u] /\ user'[u] = user[u]
<1>1. "signIn" \in Page
  BY DEF Page
<1> QED
  BY <1>1, Numbers DEF Inv, TypeOK, ForgetSession, Keep, SetAuthToken, ShowUser

LEMMA ForgettingKeepsInv ==
    ASSUME Inv, NEW t \in Tabs, NEW j \in Jobs, InTab(j, t), ForgetSession(t), End(j),
           UNCHANGED <<owner, live, faults, disturbed>>
    PROVE  Inv'
<1>1. /\ page' \in [Tabs -> Page] /\ token' \in [Tabs -> 0 .. Null]
      /\ user' \in [Tabs -> Users \cup {NoUser}]
      /\ storage' = 0 /\ synced' = {t}
      /\ page'[t] = "signIn" /\ token'[t] = 0 /\ user'[t] = NoUser
      /\ \A u \in Tabs \ {t} : page'[u] = page[u] /\ token'[u] = token[u] /\ user'[u] = user[u]
  BY Forgotten
<1>2. TypeOK'
  BY <1>1, EndedJob, Numbers DEF Inv, TypeOK
<1>3. InSync'
  BY <1>1 DEF InSync
<1>4. InOrOut(t)'
  BY <1>1 DEF InOrOut
<1>5. \A u \in Tabs \ {t} : TabIsLeft(u)
  BY <1>1 DEF TabIsLeft
<1> QED
  BY <1>1, <1>2, <1>3, <1>4, <1>5, EndKeepsInv

LEMMA StartUpDoneKeepsInv ==
    ASSUME Inv, NEW j \in Jobs, StartUpDone(j)
    PROVE  Inv'
<1>1. job[j] # Idle /\ End(j) /\ UNCHANGED <<owner, live, faults, disturbed>>
  BY DEF StartUpDone, At, server
<1>2. PICK t \in Tabs : t = job[j].tab
  BY <1>1, JobFields DEF Inv
<1>3. InTab(j, t)
  BY <1>1, <1>2 DEF InTab
<1>4. CASE ForgetSession(t)
  BY <1>1, <1>3, <1>4, ForgettingKeepsInv
<1>5. CASE At(j, "startUp", "ok") /\ ShowUser(t, job[j].user) /\ UNCHANGED <<local, page, token>>
  <2>1. Owned(job[j].token, job[j].user) /\ job[j].user \in Users \cup {NoUser}
    BY <1>1, <1>5, JobFields DEF Inv, GoodJob
  <2>2. /\ user' \in [Tabs -> Users \cup {NoUser}] /\ user'[t] = job[j].user
        /\ \A u \in Tabs \ {t} : user'[u] = user[u]
    BY <1>5, <2>1 DEF Inv, TypeOK, ShowUser
  <2>3. UNCHANGED <<storage, synced, page, token>>
    BY <1>5 DEF local
  <2>4. TypeOK' /\ InSync'
    BY <1>1, <2>2, <2>3, EndedJob DEF Inv, TypeOK, InSync
  <2>5. ~disturbed[t] => Fits(j, t)
    BY <1>3 DEF Inv, GoodTab
  <2>6. ~disturbed[t] => token[t] = job[j].token
    BY <1>5, <2>5 DEF Fits, At
  <2>7. ~disturbed[t] => InOrOut(t)' /\ Owned(token[t], user[t])'
    BY <1>1, <2>1, <2>2, <2>3, <2>6, Numbers DEF InOrOut, Owned
  <2>8. \A u \in Tabs \ {t} : TabIsLeft(u)
    BY <1>1, <2>2, <2>3 DEF TabIsLeft
  <2> QED
    BY <1>1, <1>3, <2>4, <2>7, <2>8, EndKeepsInv
<1> QED
  BY <1>2, <1>4, <1>5 DEF StartUpDone

LEMMA SignOutDoneKeepsInv ==
    ASSUME Inv, NEW j \in Jobs, SignOutDone(j)
    PROVE  Inv'
<1>1. job[j] # Idle /\ End(j) /\ UNCHANGED <<owner, live, faults, disturbed>>
  BY DEF SignOutDone, At, server
<1>2. PICK t \in Tabs : t = job[j].tab
  BY <1>1, JobFields DEF Inv
<1>3. InTab(j, t) /\ ForgetSession(t)
  BY <1>1, <1>2 DEF InTab, SignOutDone
<1> QED
  BY <1>1, <1>3, ForgettingKeepsInv

\* A job that ends without a word to the page, or with its tab disturbed.
LEMMA QuietEndKeepsInv ==
    ASSUME Inv, NEW t \in Tabs, NEW j \in Jobs, InTab(j, t), End(j),
           UNCHANGED <<storage, synced, page, token, user, owner, live>>,
           faults' \in 0 .. MaxFaults,
           disturbed' \in [Tabs -> BOOLEAN],
           \A u \in Tabs \ {t} : disturbed'[u] = disturbed[u],
           ~disturbed'[t] => ~disturbed[t] /\ ~Entering(j)
    PROVE  Inv'
<1>1. TypeOK' /\ InSync'
  BY EndedJob DEF Inv, TypeOK, InSync
<1>2. \A u \in Tabs \ {t} : TabIsLeft(u)
  BY DEF TabIsLeft
<1>3. ASSUME ~disturbed'[t]
      PROVE  InOrOut(t)' /\ (user'[t] # NoUser => Owned(token[t], user[t])')
  <2>1. GoodTab(t) /\ Fits(j, t)
    BY <1>3 DEF Inv, GoodTab
  <2>2. InOrOut(t)
    BY <1>3, <2>1 DEF Fits
  <2> QED
    BY <1>3, <2>1, <2>2 DEF InOrOut, GoodTab, Owned
<1> QED
  BY <1>1, <1>2, <1>3, EndKeepsInv

LEMMA SignInOkKeepsInv ==
    ASSUME Inv, NEW t \in Tabs, NEW j \in Jobs, InTab(j, t), At(j, "signIn", "ok"),
           Keep(t, job[j].token), SetAuthToken(t, job[j].token),
           job' = [job EXCEPT ![j].at = "body"],
           UNCHANGED <<user, owner, live, faults, disturbed>>
    PROVE  Inv'
<1> DEFINE tok == job[j].token
           r == [job[j] EXCEPT !.at = "body"]
<1>1. job[j] \in Job /\ job \in [Jobs -> Job \cup {Idle}] /\ tok \in 0 .. Null
      /\ job[j].tab = t /\ job[j].kind = "signIn"
      /\ page \in [Tabs -> Page] /\ token \in [Tabs -> 0 .. Null]
  BY JobFields DEF Inv, TypeOK, InTab, At
<1>2. /\ r \in Job /\ r # Idle /\ r.kind = "signIn" /\ r.tab = t
      /\ r.at = "body" /\ r.token = tok /\ r.user = job[j].user
  BY <1>1, IdleIsNoJob DEF Job
<1>3. job' = [job EXCEPT ![j] = r]
  BY <1>1
<1> HIDE DEF r
<1>4. job' \in [Jobs -> Job \cup {Idle}] /\ job'[j] = r /\ OthersStay(j)
  BY <1>1, <1>2, <1>3 DEF OthersStay
<1>5. /\ token' = [token EXCEPT ![t] = IF tok = Null THEN 0 ELSE tok]
      /\ page' = [page EXCEPT ![t] = IF tok = 0 THEN "signIn" ELSE "main"]
      /\ storage' = tok /\ synced' = {t}
  BY DEF Keep, SetAuthToken
<1>6. TypeOK'
  <2>1. token' \in [Tabs -> 0 .. Null] /\ page' \in [Tabs -> Page]
    BY <1>1, <1>5, Numbers DEF Page
  <2> QED
    BY <1>1, <1>4, <1>5, <2>1 DEF Inv, TypeOK
<1>7. token'[t] = IF tok = Null THEN 0 ELSE tok
  BY <1>1, <1>5
<1>8. InSync' /\ OwnersStay
  BY <1>5, <1>7 DEF InSync, OwnersStay
<1>9. GoodJob(j)
  BY DEF Inv
<1>10. GoodJob(j)'
  BY <1>2, <1>4, <1>9 DEF GoodJob, At, Owned
<1>11. Concerns(t)
  BY <1>1, <1>2, <1>4, <1>5, <1>10 DEF Concerns, OthersStay, TabIsLeft, JobIsOf
<1>12. GoodTab(t)'
  <2> SUFFICES ASSUME ~disturbed[t]
               PROVE  GoodTab(t)'
    BY DEF GoodTab
  <2>1. Fits(j, t) /\ \A k \in Jobs : InTab(k, t) => k = j
    BY DEF Inv, GoodTab
  <2>2. user'[t] = NoUser
    BY <1>1, <2>1 DEF Fits
  <2>3. InTab(j, t)' /\ \A k \in Jobs : InTab(k, t)' => k = j
    BY <1>2, <1>4, <2>1 DEF InTab, OthersStay, Idle
  <2>4. Fits(j, t)'
    BY <1>2, <1>4, <1>7, <2>2 DEF Fits, Entering, At, Idle
  <2> QED
    BY <2>2, <2>3, <2>4 DEF GoodTab, InFlight
<1> QED
  BY <1>6, <1>8, <1>11, <1>12, TabStepKeepsInv

LEMMA SignInShownKeepsInv ==
    ASSUME Inv, NEW t \in Tabs, NEW j \in Jobs, InTab(j, t), At(j, "signIn", "body"),
           job[j].user # NoUser, ShowUser(t, job[j].user), End(j),
           UNCHANGED <<storage, synced, page, token, owner, live, faults, disturbed>>
    PROVE  Inv'
<1>1. Owned(job[j].token, job[j].user) /\ job[j].user \in Users \cup {NoUser}
  BY JobFields DEF Inv, GoodJob, InTab
<1>2. /\ user' \in [Tabs -> Users \cup {NoUser}] /\ user'[t] = job[j].user
      /\ \A u \in Tabs \ {t} : user'[u] = user[u]
  BY <1>1 DEF Inv, TypeOK, ShowUser
<1>3. TypeOK' /\ InSync'
  BY <1>2, EndedJob DEF Inv, TypeOK, InSync
<1>4. ASSUME ~disturbed[t] PROVE InOrOut(t)' /\ Owned(token[t], user[t])'
  <2>1. Fits(j, t)
    BY <1>4 DEF Inv, GoodTab
  <2>2. token[t] = job[j].token
    BY <1>1, <2>1, Numbers DEF Fits, Owned
  <2> QED
    BY <1>1, <1>2, <2>2, Numbers DEF InOrOut, Owned
<1>5. \A u \in Tabs \ {t} : TabIsLeft(u)
  BY <1>2 DEF TabIsLeft
<1> QED
  BY <1>3, <1>4, <1>5, EndKeepsInv

LEMMA SignInDoneKeepsInv ==
    ASSUME Inv, NEW j \in Jobs, SignInDone(j)
    PROVE  Inv'
<1>1. job[j] # Idle /\ job[j].kind = "signIn"
  BY DEF SignInDone, At
<1>2. PICK t \in Tabs : t = job[j].tab
  BY <1>1, JobFields DEF Inv
<1>3. InTab(j, t) /\ faults \in 0 .. MaxFaults /\ disturbed \in [Tabs -> BOOLEAN]
  BY <1>1, <1>2 DEF InTab, Inv, TypeOK
<1>4. CASE At(j, "signIn", "refused") /\ End(j) /\ UNCHANGED <<local, shown, server, disturbed>>
  <2>1. ~Entering(j)
    BY <1>4 DEF Entering, At
  <2> QED
    BY <1>3, <1>4, <2>1, QuietEndKeepsInv DEF local, shown, server
<1>5. CASE /\ At(j, "signIn", "ok") /\ Keep(t, job[j].token) /\ SetAuthToken(t, job[j].token)
           /\ job' = [job EXCEPT ![j].at = "body"] /\ UNCHANGED <<user, server, disturbed>>
  BY <1>3, <1>5, SignInOkKeepsInv DEF server
<1>6. CASE /\ At(j, "signIn", "body") /\ job[j].user # NoUser /\ ShowUser(t, job[j].user)
           /\ End(j) /\ UNCHANGED <<local, page, token, server, disturbed>>
  BY <1>3, <1>6, SignInShownKeepsInv DEF local, server
<1>7. CASE End(j) /\ disturbed' = [disturbed EXCEPT ![t] = TRUE]
           /\ UNCHANGED <<local, shown, server>>
  BY <1>3, <1>7, QuietEndKeepsInv DEF local, shown, server
<1> QED
  BY <1>2, <1>4, <1>5, <1>6, <1>7 DEF SignInDone

LEMMA UpdateDoneKeepsInv ==
    ASSUME Inv, NEW j \in Jobs, UpdateDone(j)
    PROVE  Inv'
<1>1. /\ job[j] # Idle /\ job[j].kind = "update" /\ End(j)
      /\ UNCHANGED <<storage, synced, owner, live, faults, disturbed>>
  BY DEF UpdateDone, At, local, server
<1>2. PICK t \in Tabs : t = job[j].tab
  BY <1>1, JobFields DEF Inv
<1>3. InTab(j, t) /\ faults \in 0 .. MaxFaults /\ disturbed \in [Tabs -> BOOLEAN]
  BY <1>1, <1>2 DEF InTab, Inv, TypeOK
<1>4. CASE UNCHANGED shown
  <2>1. ~Entering(j)
    BY <1>1 DEF Entering, At
  <2> QED
    BY <1>1, <1>3, <1>4, <2>1, QuietEndKeepsInv DEF shown
<1>5. CASE /\ At(j, "update", "ok") /\ ShowUser(t, job[j].user)
           /\ page' = [page EXCEPT ![t] = "main"] /\ UNCHANGED token
  <2>1. Owned(job[j].token, job[j].user) /\ job[j].user \in Users \cup {NoUser}
    BY <1>1, <1>5, JobFields DEF Inv, GoodJob
  <2>2. /\ user' \in [Tabs -> Users \cup {NoUser}] /\ user'[t] = job[j].user
        /\ page' \in [Tabs -> Page]
        /\ \A u \in Tabs \ {t} : user'[u] = user[u] /\ page'[u] = page[u]
    BY <1>5, <2>1 DEF Inv, TypeOK, ShowUser, Page
  <2>3. TypeOK' /\ InSync'
    BY <1>1, <1>5, <2>2, EndedJob DEF Inv, TypeOK, InSync
  <2>4. ASSUME ~disturbed[t] PROVE InOrOut(t)' /\ Owned(token[t], user[t])'
    <3>1. Fits(j, t)
      BY <1>3, <2>4 DEF Inv, GoodTab
    <3>2. token[t] = job[j].token
      BY <1>5, <3>1 DEF Fits, At
    <3> QED
      BY <1>1, <1>5, <2>1, <2>2, <3>2, Numbers DEF InOrOut, Owned
  <2>5. \A u \in Tabs \ {t} : TabIsLeft(u)
    BY <1>1, <1>5, <2>2 DEF TabIsLeft
  <2> QED
    BY <1>1, <1>3, <2>3, <2>4, <2>5, EndKeepsInv
<1> QED
  BY <1>2, <1>4, <1>5 DEF UpdateDone

-----------------------------------------------------------------------------
(***************************************************************************)
(* What the gateway does.                                                  *)
(***************************************************************************)
LEMMA AnswerKeepsInv ==
    ASSUME Inv, NEW j \in Jobs, job[j] # Idle, job[j].at = "sent",
           NEW stage \in {"refused", "ok"}, NEW tok \in 0 .. Null,
           NEW u \in Users \cup {NoUser}, Answered(j, stage, tok, u),
           UNCHANGED <<storage, synced, page, token, user, disturbed>>,
           owner' \in [Session -> Users \cup {NoUser}],
           live' \subseteq {s \in Session : owner'[s] # NoUser},
           faults' \in 0 .. MaxFaults,
           OwnersStay, GoodJob(j)',
           job[j].kind \in {"startUp", "update"} /\ stage = "ok" => tok = job[j].token
    PROVE  Inv'
<1>1. PICK t \in Tabs : t = job[j].tab
  BY JobFields DEF Inv
<1>2. /\ job' \in [Jobs -> Job \cup {Idle}] /\ OthersStay(j)
      /\ job'[j] # Idle /\ job'[j].kind = job[j].kind /\ job'[j].tab = t
      /\ job'[j].at = stage /\ job'[j].token = tok /\ job'[j].user = u
  BY <1>1, AnsweredJob DEF Inv
<1>3. TypeOK' /\ InSync'
  BY <1>2 DEF Inv, TypeOK, InSync
<1>4. Concerns(t)
  BY <1>1, <1>2 DEF Concerns, OthersStay, TabIsLeft, JobIsOf
<1>5. GoodTab(t)'
  <2> SUFFICES ASSUME ~disturbed[t]
               PROVE  GoodTab(t)'
    BY DEF GoodTab
  <2>1. InTab(j, t) /\ GoodTab(t)
    BY <1>1 DEF InTab, Inv
  <2>2. Fits(j, t) /\ \A k \in Jobs : InTab(k, t) => k = j
    BY <2>1 DEF GoodTab
  <2>3. InTab(j, t)' /\ \A k \in Jobs : InTab(k, t)' => k = j
    BY <1>2, <2>2 DEF InTab, OthersStay, Idle
  <2>4. InOrOut(t) => InOrOut(t)'
    BY DEF InOrOut
  <2>5. Entering(j)' <=> Entering(j)
    BY <1>2 DEF Entering, At
  <2>6. Fits(j, t)'
    BY <1>2, <2>2, <2>4, <2>5 DEF Fits, At
  <2>7. user'[t] # NoUser => Owned(token[t], user[t])'
    BY <2>1, OwnedStays DEF GoodTab, Owned, OwnersStay
  <2> QED
    BY <2>3, <2>6, <2>7 DEF GoodTab, InFlight
<1> QED
  BY <1>1, <1>3, <1>4, <1>5, TabStepKeepsInv

LEMMA FaultCounted ==
    ASSUME TypeOK, Fault
    PROVE  faults' \in 0 .. MaxFaults
BY BoundsAreNumbers DEF TypeOK, Fault

LEMMA GrantKeepsInv ==
    ASSUME Inv, NEW j \in Jobs, Grant(j)
    PROVE  Inv'
<1>1. /\ job[j] # Idle /\ job[j].at = "sent"
      /\ UNCHANGED <<storage, synced, page, token, user, disturbed>>
  BY DEF Grant, At, local, shown
<1>2. /\ job[j].token \in 0 .. Null /\ job[j].user \in Users \cup {NoUser}
      /\ owner \in [Session -> Users \cup {NoUser}]
      /\ live \subseteq {s \in Session : owner[s] # NoUser} /\ faults \in 0 .. MaxFaults
  BY <1>1, JobFields DEF Inv, TypeOK
<1>3. CASE /\ At(j, "startUp", "sent") \/ At(j, "update", "sent")
           /\ job[j].token \in live
           /\ Answered(j, "ok", job[j].token, owner[job[j].token])
           /\ UNCHANGED server
  <2>1. Owned(job[j].token, owner[job[j].token]) /\ UNCHANGED <<owner, live, faults>>
    BY <1>2, <1>3 DEF Owned, server
  <2>2. owner[job[j].token] \in Users \cup {NoUser}
    BY <1>2, <2>1 DEF Owned
  <2>3. /\ job'[j].kind = job[j].kind /\ job'[j].at = "ok"
        /\ job'[j].token = job[j].token /\ job'[j].user = owner[job[j].token]
    BY <1>1, <1>2, <1>3, <2>2, AnsweredJob DEF Inv
  <2>4. GoodJob(j)'
    BY <1>3, <2>1, <2>3 DEF GoodJob, At, Owned
  <2> QED
    BY <1>1, <1>2, <1>3, <2>1, <2>2, <2>4, AnswerKeepsInv DEF OwnersStay
<1>4. CASE /\ At(j, "signIn", "sent")
           /\ \E s \in Unstarted :
                 /\ \A r \in Unstarted : s <= r
                 /\ owner' = [owner EXCEPT ![s] = job[j].user]
                 /\ live' = live \cup {s}
                 /\ Answered(j, "ok", s, job[j].user)
           /\ UNCHANGED faults
  <2>1. PICK s \in Unstarted : /\ owner' = [owner EXCEPT ![s] = job[j].user]
                               /\ live' = live \cup {s}
                               /\ Answered(j, "ok", s, job[j].user)
    BY <1>4
  <2>2. s \in Session /\ owner[s] = NoUser /\ s \in 0 .. Null
    BY Numbers DEF Unstarted
  <2>3. job[j].user # NoUser
    BY <1>4 DEF Inv, GoodJob
  <2>4. /\ job'[j].kind = "signIn" /\ job'[j].at = "ok"
        /\ job'[j].token = s /\ job'[j].user = job[j].user
    BY <1>1, <1>2, <1>4, <2>1, <2>2, AnsweredJob DEF Inv, At
  <2>5. /\ owner' \in [Session -> Users \cup {NoUser}] /\ owner'[s] = job[j].user
        /\ \A r \in Session : r # s => owner'[r] = owner[r]
    BY <1>2, <2>1, <2>2
  <2>6. GoodJob(j)'
    BY <2>2, <2>3, <2>4, <2>5 DEF GoodJob, At, Owned
  <2>7. OwnersStay /\ live' \subseteq {r \in Session : owner'[r] # NoUser}
    BY <1>2, <2>1, <2>2, <2>3, <2>5 DEF OwnersStay
  <2>8. faults' \in 0 .. MaxFaults /\ job[j].kind = "signIn"
    BY <1>2, <1>4 DEF At
  <2> QED
    BY <1>1, <1>2, <2>1, <2>2, <2>5, <2>6, <2>7, <2>8, AnswerKeepsInv
<1>5. CASE /\ At(j, "signIn", "sent") /\ Fault
           /\ Answered(j, "ok", Null, NoUser) /\ UNCHANGED <<owner, live>>
  <2>1. /\ job'[j].kind = "signIn" /\ job'[j].at = "ok"
        /\ job'[j].token = Null /\ job'[j].user = NoUser
    BY <1>1, <1>5, Numbers, AnsweredJob DEF Inv, At
  <2>2. GoodJob(j)'
    BY <2>1 DEF GoodJob, At, Null
  <2>3. faults' \in 0 .. MaxFaults /\ job[j].kind = "signIn"
    BY <1>5, FaultCounted DEF Inv, At
  <2> QED
    BY <1>1, <1>2, <1>5, <2>2, <2>3, Numbers, AnswerKeepsInv DEF OwnersStay
<1>6. CASE /\ At(j, "signOut", "sent") /\ Answered(j, "ok", 0, NoUser) /\ UNCHANGED server
  <2>1. job'[j].kind = "signOut" /\ job[j].kind = "signOut"
    BY <1>1, <1>6, Numbers, AnsweredJob DEF Inv, At
  <2>2. GoodJob(j)'
    BY <2>1 DEF GoodJob, At
  <2> QED
    BY <1>1, <1>2, <1>6, <2>1, <2>2, Numbers, AnswerKeepsInv DEF OwnersStay, server
<1> QED
  BY <1>3, <1>4, <1>5, <1>6 DEF Grant

LEMMA RefuseKeepsInv ==
    ASSUME Inv, NEW j \in Jobs, Refuse(j)
    PROVE  Inv'
<1>1. /\ job[j] # Idle /\ job[j].at = "sent" /\ Answered(j, "refused", 0, NoUser)
      /\ UNCHANGED <<storage, synced, page, token, user, disturbed, owner, live>>
      /\ faults' \in 0 .. MaxFaults
  BY FaultCounted DEF Refuse, At, local, shown, Inv, TypeOK
<1>2. job'[j].at = "refused"
  BY <1>1, Numbers, AnsweredJob DEF Inv
<1>3. GoodJob(j)'
  BY <1>2 DEF GoodJob, At
<1> QED
  BY <1>1, <1>3, Numbers, AnswerKeepsInv DEF Inv, TypeOK, OwnersStay

LEMMA RejectKeepsInv ==
    ASSUME Inv, NEW j \in Jobs, Reject(j)
    PROVE  Inv'
<1>1. job[j] # Idle /\ End(j) /\ UNCHANGED <<storage, synced, page, token, user, owner, live>>
  BY DEF Reject, At, local, shown
<1>2. PICK t \in Tabs : t = job[j].tab
  BY <1>1, JobFields DEF Inv
<1>3. InTab(j, t) /\ faults \in 0 .. MaxFaults /\ disturbed \in [Tabs -> BOOLEAN]
  BY <1>1, <1>2 DEF InTab, Inv, TypeOK
<1>4. CASE At(j, "resetCode", "sent") /\ UNCHANGED <<faults, disturbed>>
  <2>1. ~Entering(j)
    BY <1>4 DEF Entering, At
  <2> QED
    BY <1>1, <1>3, <1>4, <2>1, QuietEndKeepsInv
<1>5. CASE /\ job[j].kind # "resetCode" /\ Fault
           /\ disturbed' = [disturbed EXCEPT ![t] =
                              @ \/ job[j].kind = "startUp" \/ job[j].at = "body"]
  <2>1. (disturbed[t] \/ job[j].kind = "startUp" \/ job[j].at = "body") \in BOOLEAN
    BY Zenon
  <2>2. disturbed' \in [Tabs -> BOOLEAN]
        /\ disturbed'[t] = (disturbed[t] \/ job[j].kind = "startUp" \/ job[j].at = "body")
        /\ \A u \in Tabs \ {t} : disturbed'[u] = disturbed[u]
    BY <1>3, <1>5, <2>1
  <2>3. ~disturbed'[t] => ~disturbed[t] /\ ~Entering(j)
    BY <1>5, <2>2 DEF Entering, At
  <2> QED
    BY <1>1, <1>3, <1>5, <2>2, <2>3, FaultCounted, QuietEndKeepsInv DEF Inv
<1> QED
  BY <1>2, <1>4, <1>5 DEF Reject

LEMMA SessionEndsKeepsInv ==
    ASSUME Inv, NEW s \in Session, SessionEnds(s)
    PROVE  Inv'
<1>1. /\ live' = live \ {s}
      /\ UNCHANGED <<storage, synced, page, token, user, job, owner, disturbed, faults>>
  BY DEF SessionEnds, local, shown
<1>2. TypeOK' /\ InSync'
  BY <1>1 DEF Inv, TypeOK, InSync
<1>3. \A j \in Jobs : GoodJob(j)'
  BY <1>1 DEF Inv, GoodJob, At, Owned
<1>4. OwnersStay /\ \A t \in Tabs : TabIsLeft(t)
  BY <1>1 DEF OwnersStay, TabIsLeft
<1>5. \A t \in Tabs : GoodTab(t)'
  BY <1>1, <1>4, GoodTabStays DEF Inv
<1> QED
  BY <1>2, <1>3, <1>5 DEF Inv

-----------------------------------------------------------------------------
LEMMA InitIsGood ==
    ASSUME Init
    PROVE  Inv
<1>1. TypeOK
  BY Numbers, BoundsAreNumbers DEF Init, TypeOK, Page
<1>2. InSync
  BY DEF Init, InSync
<1>3. \A j \in Jobs : job[j] = Idle
  BY DEF Init
<1>4. \A j \in Jobs : GoodJob(j)
  BY <1>3 DEF GoodJob, At
<1>5. \A t \in Tabs : GoodTab(t)
  BY <1>3 DEF Init, GoodTab, InTab, InFlight, InOrOut
<1> QED
  BY <1>1, <1>2, <1>4, <1>5 DEF Inv

LEMMA StepKeepsInv ==
    ASSUME Inv, [Next]_vars
    PROVE  Inv'
<1>1. CASE UNCHANGED vars
  BY <1>1 DEF vars, Inv, TypeOK, InSync, GoodJob, At, Owned, GoodTab, InTab, InFlight,
              Fits, Entering, InOrOut
<1>2. ASSUME NEW t \in Tabs, Load(t) \/ \E p \in Page : SetPage(t, p) PROVE Inv'
  BY <1>2, LoadKeepsInv, SetPageKeepsInv
<1>3. ASSUME NEW j \in Jobs, NEW t \in Tabs,
             ResetCode(j, t) \/ SignOut(j, t) \/ Update(j, t) \/ \E u \in Users : SignIn(j, t, u)
      PROVE  Inv'
  BY <1>3, ResetCodeKeepsInv, SignOutKeepsInv, UpdateKeepsInv, SignInKeepsInv
<1>4. ASSUME NEW j \in Jobs,
             StartUpDone(j) \/ SignInDone(j) \/ SignOutDone(j) \/ UpdateDone(j)
      PROVE  Inv'
  BY <1>4, StartUpDoneKeepsInv, SignInDoneKeepsInv, SignOutDoneKeepsInv, UpdateDoneKeepsInv
<1>5. ASSUME NEW j \in Jobs, Grant(j) \/ Refuse(j) \/ Reject(j) PROVE Inv'
  BY <1>5, GrantKeepsInv, RefuseKeepsInv, RejectKeepsInv
<1>6. ASSUME NEW s \in Session, SessionEnds(s) PROVE Inv'
  BY <1>6, SessionEndsKeepsInv
<1> QED
  BY <1>1, <1>2, <1>3, <1>4, <1>5, <1>6 DEF Next

(***************************************************************************)
(* The inductive invariant holds throughout, however handlers, answers,    *)
(* reloads and the tabs of a browser interleave.                           *)
(***************************************************************************)
THEOREM WebClientInvariant == Spec => []Inv
<1> QED
  BY InitIsGood, StepKeepsInv, PTL DEF Spec

(***************************************************************************)
(* A tab that was not disturbed shows the user whose session it sends with *)
(* its requests (MainPageContent gets both from App).                      *)
(***************************************************************************)
THEOREM WebClientShownUserOwnsToken == Spec => []ShownUserOwnsToken
<1>1. Inv => ShownUserOwnsToken
  BY DEF Inv, GoodTab, Owned, ShownUserOwnsToken
<1> QED
  BY <1>1, WebClientInvariant, PTL

(***************************************************************************)
(* Once its fetches are over, such a tab is signed in or signed out.       *)
(***************************************************************************)
THEOREM WebClientAtRestInOrOut == Spec => []AtRestInOrOut
<1>1. Inv => AtRestInOrOut
  BY DEF Inv, GoodTab, InOrOut, AtRestInOrOut
<1> QED
  BY <1>1, WebClientInvariant, PTL

-----------------------------------------------------------------------------
LEMMA UpdateBegun ==
    ASSUME Inv, NEW j \in Jobs, NEW t \in Tabs, Update(j, t)
    PROVE  /\ OthersStay(j)
           /\ job'[j].tab = t /\ job'[j].token = storage /\ job'[j].user = user[t]
           /\ ~disturbed'[t] => ~disturbed[t] /\ t \in synced
<1> DEFINE own == t \in synced
<1>1. own \in BOOLEAN
  BY SMT
<1>2. Begin(j, "update", t, storage, user[t], own)
  BY DEF Update
<1>3. storage \in 0 .. Null /\ user[t] \in Users \cup {NoUser} /\ "update" \in Kind /\ TypeOK
  BY DEF Inv, TypeOK, Kind
<1>4. ~disturbed'[t] => ~disturbed[t] /\ own
  <2> HIDE DEF own
  <2> QED
    BY <1>1, <1>2, <1>3, BegunJob
<1>5. /\ OthersStay(j)
      /\ job'[j].tab = t /\ job'[j].token = storage /\ job'[j].user = user[t]
  <2> HIDE DEF own
  <2> QED
    BY <1>1, <1>2, <1>3, BegunJob
<1> QED
  BY <1>4, <1>5

\* Only UpdateName sends a request to update a user.
LEMMA OnlyUpdateUpdates ==
    ASSUME Inv, Next, NEW j \in Jobs,
           job[j] = Idle, job'[j] # Idle, job'[j].kind = "update"
    PROVE  \E t \in Tabs : Update(j, t)
<1>1. job \in [Jobs -> Job \cup {Idle}]
  BY DEF Inv, TypeOK
<1>2. ASSUME NEW k \in Jobs, job[k] # Idle, OthersStay(k)
      PROVE  FALSE
  BY <1>2 DEF OthersStay
<1>3. ASSUME NEW t \in Tabs, Load(t) PROVE FALSE
  <2> DEFINE stay == [k \in Jobs |-> IF InTab(k, t) THEN Idle ELSE job[k]]
             start == [kind |-> "startUp", tab |-> t, at |-> "sent",
                       token |-> storage, user |-> NoUser]
  <2>1. \/ job' = stay
        \/ \E k \in Jobs : job' = [stay EXCEPT ![k] = start]
    BY <1>3 DEF Load
  <2>2. stay[j] = Idle /\ start.kind = "startUp"
    OBVIOUS
  <2> HIDE DEF start
  <2>3. job'[j] = Idle \/ job'[j] = start
    BY <2>1, <2>2
  <2> QED
    BY <2>2, <2>3
<1>4. ASSUME NEW t \in Tabs, NEW p \in Page, SetPage(t, p) PROVE FALSE
  BY <1>4 DEF SetPage
<1>5. ASSUME NEW k \in Jobs, NEW t \in Tabs, NEW kind \in Kind, NEW u \in Users \cup {NoUser},
             kind # "update", Begin(k, kind, t, 0, u, TRUE)
      PROVE  FALSE
  <2>1. job'[k].kind = kind /\ OthersStay(k)
    BY <1>5, Numbers, BegunJob DEF Inv
  <2> QED
    BY <1>5, <2>1 DEF OthersStay
<1>6. ASSUME NEW k \in Jobs, NEW t \in Tabs,
             ResetCode(k, t) \/ SignOut(k, t) \/ \E u \in Users : SignIn(k, t, u)
      PROVE  FALSE
  BY <1>5, <1>6 DEF ResetCode, SignOut, SignIn, Kind
<1>7. ASSUME NEW k \in Jobs, NEW t \in Tabs, Update(k, t) PROVE k = j
  BY <1>7, UpdateBegun DEF OthersStay
<1>8. ASSUME NEW k \in Jobs,
             \/ StartUpDone(k) \/ SignInDone(k) \/ SignOutDone(k) \/ UpdateDone(k)
             \/ Grant(k) \/ Refuse(k) \/ Reject(k)
      PROVE  FALSE
  <2>1. \E to : job' = [job EXCEPT ![k] = to]
    BY <1>8 DEF StartUpDone, SignInDone, SignOutDone, UpdateDone, Grant, Refuse, Reject,
                End, Answered
  <2>2. OthersStay(k)
    BY <1>1, <2>1 DEF OthersStay
  <2>3. job[k] # Idle
    BY <1>8 DEF StartUpDone, SignInDone, SignOutDone, UpdateDone, Grant, Refuse, Reject, At
  <2> QED
    BY <1>2, <2>2, <2>3
<1>9. ASSUME NEW s \in Session, SessionEnds(s) PROVE FALSE
  BY <1>9 DEF SessionEnds
<1> QED
  BY <1>3, <1>4, <1>6, <1>7, <1>8, <1>9 DEF Next

(***************************************************************************)
(* The session UpdateName takes from storage is that of the user its form  *)
(* was shown to, unless the tab was disturbed.                             *)
(***************************************************************************)
THEOREM WebClientUpdatesOwnProfile == Spec => UpdatesOwnProfile
<1> DEFINE Own ==
      \A j \in Jobs :
          job[j] = Idle /\ job'[j] # Idle /\ job'[j].kind = "update" =>
             LET new == job'[j]
             IN  ~disturbed'[new.tab] => new.token \in Session /\ owner[new.token] = new.user
<1>1. Inv /\ [Next]_vars => [Own]_vars
  <2> SUFFICES ASSUME Inv, Next, NEW j \in Jobs,
                      job[j] = Idle, job'[j] # Idle, job'[j].kind = "update",
                      ~disturbed'[job'[j].tab]
               PROVE  job'[j].token \in Session /\ owner[job'[j].token] = job'[j].user
    OBVIOUS
  <2>1. PICK t \in Tabs : Update(j, t)
    BY OnlyUpdateUpdates
  <2>2. /\ user[t] # NoUser /\ job'[j].token = storage /\ job'[j].user = user[t]
        /\ ~disturbed[t] /\ t \in synced
    BY <2>1, UpdateBegun DEF Update
  <2>3. Owned(token[t], user[t])
    BY <2>2 DEF Inv, GoodTab
  <2>4. storage = token[t]
    BY <2>2, <2>3, StoredIsShown
  <2> QED
    BY <2>2, <2>3, <2>4 DEF Owned
<1> QED
  BY <1>1, WebClientInvariant, PTL DEF Spec, UpdatesOwnProfile

=============================================================================
