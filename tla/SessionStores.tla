---------------------------- MODULE SessionStores -----------------------------
(***************************************************************************)
(* The two implementations of Store, with the same callers.                *)
(***************************************************************************)
EXTENDS RedisStore, MemStore

VARIABLE kind  \* which of the two the gateway was given

storesVars == <<timedVars, kind>>

StoresInit == TimedInit /\ kind \in {"redis", "mem"}

StoresNext ==
    /\ \/ kind = "redis" /\ RedisNext
       \/ kind = "mem" /\ MemNext
    /\ UNCHANGED kind

StoresSpec == StoresInit /\ [][StoresNext]_storesVars

-----------------------------------------------------------------------------
(***************************************************************************)
(* RedisStore keeps the promise of Store: a Get takes effect at its GET.   *)
(***************************************************************************)
AbstractCall ==
    [c \in Clients |-> [call[c] EXCEPT !.phase = IF @ = "between" THEN "called" ELSE @]]

Store == INSTANCE SessionStore WITH call <- AbstractCall

RedisImplementsStore ==
    [][kind = "redis" => Store!StoreNext \/ UNCHANGED Store!storeVars]_storesVars

(***************************************************************************)
(* In RedisStore a session whose Delete has returned is gone for good.  In *)
(* MemStore a Get that had read it before brings it back.                  *)
(***************************************************************************)
EndedIsGoneInRedis == kind = "redis" => EndedIsGone

=============================================================================
