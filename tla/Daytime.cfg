\* Two clients of each kind, three datagrams, one failure.
SPECIFICATION Spec
CONSTANTS
    Client = {c1, c2}
    Peer = {p1, p2}
    MaxDatagrams = 3
    MaxFails = 1
INVARIANT
    RepliesGoToSenders
PROPERTY
    EveryoneIsAnswered
CHECK_DEADLOCK FALSE
