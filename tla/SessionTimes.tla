----------------------------- MODULE SessionTimes -----------------------------
(***************************************************************************)
(* Time, as the session stores keep it: every session has a time to live,  *)
(* which saving it and getting it set to SessionDuration.  `age' and       *)
(* `unused' are history: what a client could read off its own clock.       *)
(* They stop at SessionDuration.                                           *)
(***************************************************************************)
EXTENDS SessionStore

CONSTANT SessionDuration

ASSUME DurationIsPositive == SessionDuration \in Nat \ {0}

VARIABLES
    ttl,    \* time left to each session
    age,    \* time since each client's call began
    unused  \* time since the last use of each session that succeeded began

times == <<ttl, age, unused>>
timedVars == <<storeVars, times>>

Duration == 0 .. SessionDuration

TimedTypeOK ==
    /\ StoreTypeOK
    /\ ttl \in [SessionIds -> Duration]
    /\ age \in [Clients -> Duration]
    /\ unused \in [SessionIds -> Duration]
    /\ \A sid \in SessionIds : db[sid] = NoState <=> ttl[sid] = 0

TimedInit ==
    /\ StoreInit
    /\ ttl = [sid \in SessionIds |-> 0]
    /\ age = [c \in Clients |-> 0]
    /\ unused = [sid \in SessionIds |-> SessionDuration]

TimedInvoke(c) ==
    /\ Invoke(c)
    /\ age' = [age EXCEPT ![c] = 0]
    /\ UNCHANGED <<ttl, unused>>

TimedReturn(c) ==
    LET sid == call[c].sid
    IN  /\ Return(c)
        /\ unused' = IF call[c].ok /\ call[c].op # "delete" /\ age[c] < unused[sid]
                     THEN [unused EXCEPT ![sid] = age[c]] ELSE unused
        /\ age' = [age EXCEPT ![c] = 0]
        /\ UNCHANGED ttl

\* Mutant: a session is saved without a duration, that is for ever.
PutForever(sid, state) ==
    /\ db' = [db EXCEPT ![sid] = state]
    /\ UNCHANGED ttl

\* A session is put under its id for SessionDuration from now on.
Put(sid, state) ==
    /\ db' = [db EXCEPT ![sid] = state]
    /\ ttl' = [ttl EXCEPT ![sid] = SessionDuration]

Remove(sid) ==
    /\ db' = [db EXCEPT ![sid] = NoState]
    /\ ttl' = [ttl EXCEPT ![sid] = 0]

Tick ==
    LET older(n) == IF n < SessionDuration THEN n + 1 ELSE n
    IN  /\ ttl' = [sid \in SessionIds |-> IF ttl[sid] > 0 THEN ttl[sid] - 1 ELSE 0]
        /\ db' = [sid \in SessionIds |-> IF ttl[sid] > 1 THEN db[sid] ELSE NoState]
        /\ age' = [c \in Clients |-> IF call[c].phase = "idle" THEN 0 ELSE older(age[c])]
        /\ unused' = [sid \in SessionIds |-> older(unused[sid])]
        /\ UNCHANGED <<call, life>>

-----------------------------------------------------------------------------
(***************************************************************************)
(* A session that was used less than SessionDuration ago, and that nobody  *)
(* has begun to delete, is live.                                           *)
(***************************************************************************)
UsedSessionsLive ==
    \A sid \in SessionIds :
        life[sid] = "given" /\ unused[sid] < SessionDuration => db[sid] # NoState

=============================================================================
