------------------------------ MODULE RedisStore ------------------------------
(***************************************************************************)
(* The session store the gateway uses (redisstore.go).  Get sends EXPIRE   *)
(* and GET in one pipeline, which is no transaction: Redis may run the     *)
(* commands of other connections between the two.                          *)
(***************************************************************************)
EXTENDS SessionTimes

-----------------------------------------------------------------------------
(***************************************************************************)
(* A command may fail before or after Redis has executed it.               *)
(***************************************************************************)
RedisSave(c) ==
    /\ InCall(c, "save", "called")
    /\ \/ Put(call[c].sid, call[c].state) /\ Finish(c, TRUE, NoState)
       \/ Put(call[c].sid, call[c].state) /\ Finish(c, FALSE, NoState)
       \/ UNCHANGED <<db, ttl>> /\ Finish(c, FALSE, NoState)

\* Mutant: the pipeline has no EXPIRE.
ExpireCommandMissing(sid) == UNCHANGED ttl

ExpireCommand(sid) ==
    ttl' = IF db[sid] = NoState THEN ttl ELSE [ttl EXCEPT ![sid] = SessionDuration]

RedisGetExpire(c) ==
    /\ InCall(c, "get", "called")
    /\ \/ /\ ExpireCommand(call[c].sid)
          /\ call' = [call EXCEPT ![c].phase = "between"]
       \/ (ExpireCommand(call[c].sid) \/ UNCHANGED ttl) /\ Finish(c, FALSE, NoState)
    /\ UNCHANGED db

\* Mutant: redis.Nil, the answer for a missing key, is taken for a success.
RedisGetGetUnchecked(c) ==
    /\ InCall(c, "get", "between")
    /\ Finish(c, TRUE, db[call[c].sid])
    /\ UNCHANGED <<db, ttl>>

RedisGetGet(c) ==
    LET state == db[call[c].sid]
    IN  /\ InCall(c, "get", "between")
        /\ \/ state # NoState /\ Finish(c, TRUE, state)
           \/ Finish(c, FALSE, NoState)
        /\ UNCHANGED <<db, ttl>>

\* Mutant: the error of DEL is not looked at.
RedisDeleteUnchecked(c) ==
    /\ InCall(c, "delete", "called")
    /\ Remove(call[c].sid) \/ UNCHANGED <<db, ttl>>
    /\ Finish(c, TRUE, NoState)

RedisDelete(c) ==
    /\ InCall(c, "delete", "called")
    /\ \/ Remove(call[c].sid) /\ Finish(c, TRUE, NoState)
       \/ Remove(call[c].sid) /\ Finish(c, FALSE, NoState)
       \/ UNCHANGED <<db, ttl>> /\ Finish(c, FALSE, NoState)

RedisCommand(c) ==
    /\ RedisSave(c) \/ RedisGetExpire(c) \/ RedisGetGet(c) \/ RedisDelete(c)
    /\ UNCHANGED <<life, age, unused>>

RedisNext ==
    \/ \E c \in Clients : TimedInvoke(c) \/ RedisCommand(c) \/ TimedReturn(c)
    \/ Tick

=============================================================================
