\* What the comment in do_accept says of the stopped server.
SPECIFICATION Spec
CONSTANTS
    Thread = {t1, t2}
    Conn = {c1}
    MaxChunks = 1
PROPERTY
    NoneStartedWhenStopped
CHECK_DEADLOCK FALSE
