\* Two workers on a broker that redelivers; liveness, so no symmetry.
SPECIFICATION FairBrokerSpec
CONSTANTS
    j1 = j1
    k1 = k1
    w1 = w1
    w2 = w2
    Jobs = {j1}
    Keys = {k1}
    KeyOf <- OneKey
    Workers = {w1, w2}
    Registered = {j1}
    NoJob = NoJob
    MaxDelivery = 3
    BatchSize = 2
    RowLocks = TRUE
    Uncounted = {0, 1}
INVARIANTS
    SuccessIsReal
    
PROPERTIES
    NoRunAfterSuccess
    OnlyOverlapsTakeBack
    
    EveryMessageSettles
CHECK_DEADLOCK FALSE
