\* Two threads, two operations, without symmetry.
SPECIFICATION Spec
CONSTANTS
    Thread = {t1, t2}
    Op = {o1, o2}
    Desc = {d1}
    MaxData = 2
PROPERTIES
    HandlersRun
    RunReturns
CHECK_DEADLOCK FALSE
