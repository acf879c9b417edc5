\* Pools of one to four io_contexts, one connection, two failing accepts.
SPECIFICATION Spec
CONSTANTS
    MaxPool = 4
    Conn = {c1}
    MaxChunks = 2
    MaxFails = 2
INVARIANT
    IoContextsAreSpread
PROPERTIES
    AcceptedAreServed
    SignalEndsServer
CHECK_DEADLOCK FALSE
