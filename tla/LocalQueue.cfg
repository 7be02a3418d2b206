\* Two workers, three messages, batches of two, PostgreSQL row locks; and the abstract
\* queue they implement.
SPECIFICATION QueueSpec
CONSTANTS
    Jobs = {j1, j2, j3}
    Workers = {w1, w2}
    MaxDelivery = 2
    BatchSize = 2
    RowLocks = TRUE
SYMMETRY Symmetry
INVARIANTS
    QueueTypeOK
    SingleHolder
    ClaimsMatchRows
    DeliveryBudget
PROPERTIES
    SettledIsFinal
    ImplementsWorkQueue
CHECK_DEADLOCK FALSE
