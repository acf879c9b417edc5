\* No symmetry: the run checks liveness, and the clients' bounds differ.
SPECIFICATION FairSpec
CONSTANTS
    Conn = {1, 2}
    MaxChunks <- MCMaxChunks
INVARIANTS
    AcceptIsOutstanding
    ManagedAreOpen
    ReplyFitsRequest
PROPERTIES
    SignalEndsServer
    GoneClientsAreDropped
CHECK_DEADLOCK FALSE
