------------------------------- MODULE Director -------------------------------
(***************************************************************************)
(* The reverse proxy of the gateway (servers/gateway/directors/            *)
(* directors.go): which of the targets gets a request for schedules and    *)
(* teams, and the header X-User that tells it who the user is.  A mutex    *)
(* lets one request at a time through the director, the calls of the       *)
(* session store and of MySQL included.                                    *)
(***************************************************************************)
EXTENDS Integers, FiniteSets

CONSTANTS
    Workload,    \* the requests clients send
    SessionIds,
    Users,
    Owner,       \* the user of each session
    NoUser,      \* no header X-User
    Forged,      \* a header X-User a client sent itself
    Targets,     \* how many addresses SCHEDULESADDR lists
    Half,        \* half as many values as the counter has: 2^31 in the code
    MaxFaults    \* bound on failed calls of the session store and of MySQL

(***************************************************************************)
(* `credential' is as in Gateway: none that is valid, a session id that    *)
(* was cut short, or the id of session `session'.                          *)
(***************************************************************************)
Request == [id : Nat, credential : {"missing", "truncated", "session"},
            session : SessionIds, xUser : {NoUser, Forged}]

ASSUME WorkloadIsRequests == Workload \subseteq Request /\ IsFiniteSet(Workload)
ASSUME SessionsHaveOwners == Owner \in [SessionIds -> Users]
ASSUME HeadersDiffer == NoUser # Forged /\ {NoUser, Forged} \cap Users = {}
ASSUME TargetsArePositive == Targets \in Nat \ {0}
ASSUME HalfIsPositive == Half \in Nat \ {0}
ASSUME FaultsAreBounded == MaxFaults \in Nat

VARIABLES
    sessions,  \* the session store: the sessions that have not ended
    counter,
    holder,    \* the requests that hold the mutex
    pc,        \* what each request is at
    target,    \* the index of the target a request was given; -1 for none
    xUser,     \* the header X-User of each request
    late,      \* history: requests that came after the end of their session
    faults     \* how many calls have failed

vars == <<sessions, counter, holder, pc, target, xUser, late, faults>>

Stage == {"waiting", "lock", "getState", "getUser", "forwarded", "dropped"}

Headers == Users \cup {NoUser, Forged}

\* The values of the counter.
IntMin == -Half
IntMax == Half - 1

TypeOK ==
    /\ sessions \subseteq SessionIds
    /\ counter \in IntMin .. IntMax
    /\ holder \subseteq Workload /\ Cardinality(holder) <= 1
    /\ pc \in [Workload -> Stage]
    /\ \A r \in Workload : pc[r] \in {"getState", "getUser"} <=> r \in holder
    /\ target \in [Workload -> -1 .. (Targets - 1)]
    /\ xUser \in [Workload -> Headers]
    /\ late \subseteq Workload
    /\ faults \in 0 .. MaxFaults

Init ==
    /\ sessions = SessionIds
    /\ counter = 0
    /\ holder = {}
    /\ pc = [r \in Workload |-> "waiting"]
    /\ target = [r \in Workload |-> -1]
    /\ xUser = [r \in Workload |-> r.xUser]
    /\ late = {}
    /\ faults = 0

-----------------------------------------------------------------------------
At(r, stage) == pc' = [pc EXCEPT ![r] = stage]

Unlock == holder' = {}

Works == UNCHANGED faults

Fails == faults < MaxFaults /\ faults' = faults + 1

Receive(r) ==
    /\ pc[r] = "waiting"
    /\ At(r, "lock")
    /\ late' = IF r.credential = "session" /\ r.session \notin sessions
               THEN late \cup {r} ELSE late
    /\ UNCHANGED <<sessions, counter, holder, target, xUser, faults>>

\* The remainder of Go has the sign of the dividend.
Remainder(n, d) == IF n >= 0 THEN n % d ELSE -((-n) % d)

TargetOf(n) == Remainder(n, Targets)

\* Mutant: the counter is not incremented.
NotIncremented(n) == n

\* AddInt32 wraps around.
Incremented(n) == IF n = IntMax THEN IntMin ELSE n + 1

\* Mutant: the header of the client stays.
KeepHeader(r) == xUser' = xUser

DropHeader(r) == xUser' = [xUser EXCEPT ![r] = NoUser]

(***************************************************************************)
(* The stretch from Lock to the call of the session store.  A negative     *)
(* index panics before the counter is incremented; the deferred Unlock     *)
(* runs and net/http closes the connection.                                *)
(***************************************************************************)
Choose(r) ==
    /\ TargetOf(counter) >= 0
    /\ target' = [target EXCEPT ![r] = TargetOf(counter)]
    /\ counter' = Incremented(counter)
    /\ DropHeader(r)

IndexPanic(r) ==
    /\ TargetOf(counter) < 0
    /\ At(r, "dropped")
    /\ UNCHANGED <<counter, holder, target, xUser>>

\* Mutant: the mutex stays locked when slicing a short session id panics.
AuthorizeUndeferred(r) ==
    CASE r.credential = "missing"   -> At(r, "forwarded") /\ UNCHANGED holder
      [] r.credential = "truncated" -> At(r, "dropped") /\ holder' = {r}
      [] r.credential = "session"   -> At(r, "getState") /\ holder' = {r}

Authorize(r) ==
    CASE r.credential = "missing"   -> At(r, "forwarded") /\ UNCHANGED holder
      [] r.credential = "truncated" -> At(r, "dropped") /\ UNCHANGED holder
      [] r.credential = "session"   -> At(r, "getState") /\ holder' = {r}

Lock(r) ==
    /\ pc[r] = "lock"
    /\ holder = {}
    /\ \/ Choose(r) /\ Authorize(r)
       \/ IndexPanic(r)
    /\ UNCHANGED <<sessions, late, faults>>

GetState(r) ==
    /\ pc[r] = "getState"
    /\ \/ Works /\ r.session \in sessions /\ At(r, "getUser") /\ UNCHANGED holder
       \/ Works /\ r.session \notin sessions /\ At(r, "forwarded") /\ Unlock
       \/ Fails /\ At(r, "forwarded") /\ Unlock
    /\ UNCHANGED <<sessions, counter, target, xUser, late>>

(***************************************************************************)
(* The user's ID is logged before the error of GetByID is looked at: when  *)
(* there is one, the user is nil.                                          *)
(***************************************************************************)
GetUser(r) ==
    /\ pc[r] = "getUser"
    /\ \/ Works /\ xUser' = [xUser EXCEPT ![r] = Owner[r.session]] /\ At(r, "forwarded")
       \/ Fails /\ UNCHANGED xUser /\ At(r, "dropped")
    /\ Unlock
    /\ UNCHANGED <<sessions, counter, target, late>>

\* Its user signs out, or nobody uses it for an hour.
SessionEnds(sid) ==
    /\ sid \in sessions
    /\ sessions' = sessions \ {sid}
    /\ UNCHANGED <<counter, holder, pc, target, xUser, late, faults>>

Next ==
    \/ \E r \in Workload : Receive(r) \/ Lock(r) \/ GetState(r) \/ GetUser(r)
    \/ \E sid \in SessionIds : SessionEnds(sid)

Spec == Init /\ [][Next]_vars

(***************************************************************************)
(* The calls return, if only with an error, and sync.Mutex gives itself to *)
(* whoever has waited for a millisecond: nobody waits for ever.            *)
(***************************************************************************)
FairSpec ==
    /\ Spec
    /\ \A r \in Workload : WF_vars(GetState(r) \/ GetUser(r)) /\ SF_vars(Lock(r))

-----------------------------------------------------------------------------
(***************************************************************************)
(* A request reaches a target in the name of the owner of the session it   *)
(* came with, or in nobody's: whatever header it brought along, and not in *)
(* the owner's if the session had ended before it came.                    *)
(***************************************************************************)
ForwardedAsOwner ==
    \A r \in Workload : pc[r] = "forwarded" /\ xUser[r] # NoUser =>
        /\ r.credential = "session" /\ r \notin late
        /\ xUser[r] = Owner[r.session]

(***************************************************************************)
(* Until the counter has wrapped around, no target was given two requests  *)
(* more than another.                                                      *)
(***************************************************************************)
Given(t) == Cardinality({r \in Workload : target[r] = t})

Balanced ==
    Cardinality({r \in Workload : target[r] # -1}) <= IntMax + 1 =>
        \A t, u \in 0 .. (Targets - 1) : Given(t) <= Given(u) + 1

(***************************************************************************)
(* In the end every request received is forwarded: the mutex is given back *)
(* on every path, those of a panic too.  Dropped are only requests that    *)
(* panic: of a session id that was cut short, of a failed look-up of the   *)
(* user, or of a counter that has wrapped around.                          *)
(***************************************************************************)
EveryRequestForwarded ==
    <>[](\A r \in Workload :
            \/ pc[r] \in {"waiting", "forwarded"}
            \/ pc[r] = "dropped" /\ (r.credential = "truncated" \/ faults > 0 \/ counter < 0))

=============================================================================
