CONSTANTS
    Clients = {c1, c2}
    SessionIds = {s1, s2}
    SessionStates = {ann, bob}
    NoState = NoState
    SessionDuration = 2
SPECIFICATION StoresSpec
INVARIANTS
    TimedTypeOK
    UsedSessionsLive
    EndedIsGoneInRedis
PROPERTIES
    RedisImplementsStore
