------------------------------- MODULE MemStore -------------------------------
(***************************************************************************)
(* The in-process session store (memstore.go), over a cache that locks     *)
(* every call.  Get looks a session up and puts it back to renew it: two   *)
(* calls of the cache.  The gateway's main does not use this store.        *)
(***************************************************************************)
EXTENDS SessionTimes

MemSave(c) ==
    /\ InCall(c, "save", "called")
    /\ Put(call[c].sid, call[c].state)
    /\ Finish(c, TRUE, NoState)

MemGetRead(c) ==
    LET state == db[call[c].sid]
    IN  /\ InCall(c, "get", "called")
        /\ \/ /\ state # NoState
              /\ call' = [call EXCEPT ![c].phase = "between", ![c].state = state]
           \/ state = NoState /\ Finish(c, FALSE, NoState)
        /\ UNCHANGED <<db, ttl>>

MemGetRenew(c) ==
    /\ InCall(c, "get", "between")
    /\ Put(call[c].sid, call[c].state)
    /\ Finish(c, TRUE, call[c].state)

MemDelete(c) ==
    /\ InCall(c, "delete", "called")
    /\ Remove(call[c].sid)
    /\ Finish(c, TRUE, NoState)

MemStep(c) ==
    /\ MemSave(c) \/ MemGetRead(c) \/ MemGetRenew(c) \/ MemDelete(c)
    /\ UNCHANGED <<life, age, unused>>

MemNext ==
    \/ \E c \in Clients : TimedInvoke(c) \/ MemStep(c) \/ TimedReturn(c)
    \/ Tick

=============================================================================
