\* Two workers on a database without SELECT ... FOR UPDATE SKIP LOCKED.
SPECIFICATION QueueSpec
CONSTANTS
    Jobs = {j1}
    Workers = {w1, w2}
    MaxDelivery = 2
    BatchSize = 1
    RowLocks = FALSE
INVARIANTS
    SingleHolder
CHECK_DEADLOCK FALSE
