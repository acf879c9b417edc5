\* Three threads that share one connection, two chunks; no symmetry, because
\* of the liveness properties.
SPECIFICATION FairSpec
CONSTANTS
    Thread = {t1, t2, t3}
    Conn = {c1}
    MaxChunks = 2
INVARIANTS
    HandlersDoNotOverlap
    OneAtATime
    AcceptChainHolds
    ReplyFitsRequest
PROPERTIES
    SignalEndsServer
    GoneClientsAreDropped
CHECK_DEADLOCK FALSE
