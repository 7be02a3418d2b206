\* Two submissions under one key, two workers; liveness, so no symmetry.
SPECIFICATION FairSpec
CONSTANTS
    j1 = j1
    j2 = j2
    j3 = j3
    k1 = k1
    k2 = k2
    w1 = w1
    w2 = w2
    Jobs = {j1, j2}
    Keys = {k1}
    KeyOf <- OneKey
    Workers = {w1, w2}
    Registered = {j1, j2}
    NoJob = NoJob
    MaxDelivery = 2
    BatchSize = 2
    RowLocks = TRUE
INVARIANTS
    TypeOK
    AtMostOneRunPerMessage
    GivingUpIsFinal
    SettledRunIsAudited
PROPERTIES
    ImplementsJobContract
    UsesTheQueue
    MessagesDrain
CHECK_DEADLOCK FALSE
