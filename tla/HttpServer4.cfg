\* No symmetry: the run checks liveness, and the clients' bounds differ.
SPECIFICATION Spec
CONSTANTS
    Conn = {1, 2}
    MaxChunks <- MCMaxChunks
INVARIANT
    ReplyFitsRequest
PROPERTIES
    ClientsAreServed
    SocketsAreDestroyed
CHECK_DEADLOCK FALSE
