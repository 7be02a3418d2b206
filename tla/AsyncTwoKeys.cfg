\* Two submissions under one key and a third, of a tool the worker does not know,
\* under its own; one worker.
SPECIFICATION Spec
CONSTANTS
    j1 = j1
    j2 = j2
    j3 = j3
    k1 = k1
    k2 = k2
    w1 = w1
    w2 = w2
    Jobs = {j1, j2, j3}
    Keys = {k1, k2}
    KeyOf <- TwoKeys
    Workers = {w1}
    Registered = {j1, j2}
    NoJob = NoJob
    MaxDelivery = 2
    BatchSize = 2
    RowLocks = TRUE
INVARIANTS
    SameKeySameJob
    SuccessIsReal
    GivingUpIsFinal
PROPERTIES
    ImplementsJobContract
CHECK_DEADLOCK FALSE
