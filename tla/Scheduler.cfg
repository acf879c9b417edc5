\* Three threads, three operations that read from one descriptor or are posted.
SPECIFICATION Spec
CONSTANTS
    Thread = {t1, t2, t3}
    Op = {o1, o2, o3}
    Desc = {d1}
    MaxData = 2
SYMMETRY Symmetry
INVARIANTS
    NoLostWakeup
    WorkIsCounted
    ReadyIsNoticed
    DescriptorsDequeued
CHECK_DEADLOCK FALSE
