\* A lapsed lock is expected to put the message back in reach of receive.
SPECIFICATION FairQueueSpec
CONSTANTS
    Jobs = {j1}
    Workers = {w1, w2}
    MaxDelivery = 2
    BatchSize = 1
    RowLocks = TRUE
PROPERTIES
    LapsedIsRedelivered
CHECK_DEADLOCK FALSE
