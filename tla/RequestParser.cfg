\* Every text that departs from a plain one in at most two bytes.
SPECIFICATION Spec
CONSTANT
    MaxDetours = 2
INVARIANTS
    GoodIsValid
    VerdictIsTimely
    RequestIsMeaning
CHECK_DEADLOCK FALSE
