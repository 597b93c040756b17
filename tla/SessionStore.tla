----------------------------- MODULE SessionStore -----------------------------
(***************************************************************************)
(* What the interface Store of servers/gateway/sessions/store.go promises  *)
(* to the goroutines that share one: each call of Save, Get and Delete     *)
(* takes effect in one step between the call and its return.               *)
(*                                                                         *)
(* The handlers save one state under a new session id, and a client learns *)
(* the id from the answer: only ids whose Save has returned are looked up  *)
(* or deleted.                                                             *)
(***************************************************************************)
EXTENDS Naturals

CONSTANTS
    Clients,        \* the goroutines that call the store
    SessionIds,
    SessionStates,  \* what is saved with a session
    NoState         \* there is no session of that id

ASSUME NoStateIsNoState == NoState \notin SessionStates
ASSUME ThereAreSessionIds == SessionIds # {}

VARIABLES
    db,    \* the state saved for each session id
    call,  \* the call each client is in
    life   \* history: what clients have done with each session id

storeVars == <<db, call, life>>

Call == [op : {"save", "get", "delete"}, sid : SessionIds, state : SessionStates \cup {NoState},
         phase : {"idle", "called", "between", "done"}, ok : BOOLEAN]

Life == {"free", "saving", "given", "ending", "ended"}

StoreTypeOK ==
    /\ db \in [SessionIds -> SessionStates \cup {NoState}]
    /\ call \in [Clients -> Call]
    /\ life \in [SessionIds -> Life]

NoCall == [op |-> "get", sid |-> CHOOSE sid \in SessionIds : TRUE, state |-> NoState,
           phase |-> "idle", ok |-> FALSE]

StoreInit ==
    /\ db = [sid \in SessionIds |-> NoState]
    /\ call = [c \in Clients |-> NoCall]
    /\ life = [sid \in SessionIds |-> "free"]

-----------------------------------------------------------------------------
Begin(c, op, sid, state) ==
    call' = [call EXCEPT ![c] = [op |-> op, sid |-> sid, state |-> state,
                                 phase |-> "called", ok |-> FALSE]]

CallSave(c, sid, state) ==
    /\ life[sid] = "free"
    /\ life' = [life EXCEPT ![sid] = "saving"]
    /\ Begin(c, "save", sid, state)

CallGet(c, sid) ==
    /\ life[sid] \in {"given", "ending", "ended"}
    /\ UNCHANGED life
    /\ Begin(c, "get", sid, NoState)

CallDelete(c, sid) ==
    /\ life[sid] \in {"given", "ending", "ended"}
    /\ life' = [life EXCEPT ![sid] = IF @ = "given" THEN "ending" ELSE @]
    /\ Begin(c, "delete", sid, NoState)

Invoke(c) ==
    /\ call[c].phase = "idle"
    /\ \E sid \in SessionIds :
          \/ \E state \in SessionStates : CallSave(c, sid, state)
          \/ CallGet(c, sid)
          \/ CallDelete(c, sid)
    /\ UNCHANGED db

Return(c) ==
    LET lifeAfter == CASE call[c].op = "save" -> "given"
                       [] call[c].op = "get" -> life[call[c].sid]
                       [] call[c].op = "delete" -> "ended"
    IN  /\ call[c].phase = "done"
        /\ life' = IF call[c].ok THEN [life EXCEPT ![call[c].sid] = lifeAfter] ELSE life
        /\ call' = [call EXCEPT ![c] = NoCall]
        /\ UNCHANGED db

-----------------------------------------------------------------------------
InCall(c, op, phase) == call[c].op = op /\ call[c].phase = phase

Finish(c, ok, state) ==
    call' = [call EXCEPT ![c].phase = "done", ![c].ok = ok, ![c].state = state]

Saved(c) == db' = [db EXCEPT ![call[c].sid] = call[c].state]

Deleted(c) == db' = [db EXCEPT ![call[c].sid] = NoState]

CommitSave(c) ==
    /\ InCall(c, "save", "called")
    /\ \/ Saved(c) /\ Finish(c, TRUE, NoState)
       \/ (Saved(c) \/ UNCHANGED db) /\ Finish(c, FALSE, NoState)

CommitGet(c) ==
    /\ InCall(c, "get", "called")
    /\ \/ db[call[c].sid] # NoState /\ Finish(c, TRUE, db[call[c].sid])
       \/ Finish(c, FALSE, NoState)
    /\ UNCHANGED db

CommitDelete(c) ==
    /\ InCall(c, "delete", "called")
    /\ \/ Deleted(c) /\ Finish(c, TRUE, NoState)
       \/ (Deleted(c) \/ UNCHANGED db) /\ Finish(c, FALSE, NoState)

\* Sessions that were not used for long enough are forgotten.
Expire ==
    /\ \E old \in SUBSET SessionIds :
          db' = [sid \in SessionIds |-> IF sid \in old THEN NoState ELSE db[sid]]
    /\ UNCHANGED <<call, life>>

StoreNext ==
    \/ \E c \in Clients : \/ Invoke(c) \/ Return(c)
                          \/ (CommitSave(c) \/ CommitGet(c) \/ CommitDelete(c)) /\ UNCHANGED life
    \/ Expire

StoreSpec == StoreInit /\ [][StoreNext]_storeVars

-----------------------------------------------------------------------------
(***************************************************************************)
(* A session whose Delete has returned without an error is gone for good.  *)
(***************************************************************************)
EndedIsGone == \A sid \in SessionIds : life[sid] = "ended" => db[sid] = NoState

=============================================================================
