\* Two clients, two frames each, a replay buffer shorter than the conversation.
\* No symmetry: it is not sound for liveness.
SPECIFICATION FairSpec
CONSTANTS
    Client = {c1, c2}
    MaxSends = 2
    MaxRecent = 2
INVARIANTS
    WriteInProgress
    ParticipantsAreReading
    StreamIsStretchOfLog
    SendersInOrder
PROPERTIES
    ImplementsFeed
    ParticipantsAreServed
    GoneClientsAreReleased
    LeavingIsFinal
CHECK_DEADLOCK FALSE
