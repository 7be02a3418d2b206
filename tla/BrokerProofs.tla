---------------------------- MODULE BrokerProofs ----------------------------
(***************************************************************************)
(* Theorems about BrokerPipeline, for any requests, keys, workers, batch   *)
(* size and delivery limit.  A lock may lapse under a worker at any step,  *)
(* so little is known of what a worker does late: the invariants say what  *)
(* is true of the last delivery of a message, and of a message no two      *)
(* workers ever had at a time.                                             *)
(***************************************************************************)
EXTENDS BrokerPipeline, SuccessProofs

-----------------------------------------------------------------------------
(* What the broker keeps. *)

\* A message as a worker has it.
Delivery == [id: Nat, count: Nat, lock: Nat]

BrokerTypes ==
    /\ rows \in Seq(Row)
    /\ reading = [w \in Workers |-> {}]
    /\ held \in [Workers -> SUBSET Delivery]
    /\ overlapped \subseteq Jobs

\* A delivery is of a row, and no younger than the broker's count of it; the worker was
\* told that count or one less, so it gives up at the last delivery only.
DeliveriesKnown ==
    \A w \in Workers : \A m \in held[w] :
        /\ m.id \in DOMAIN rows
        /\ m.count <= m.lock
        /\ m.lock <= rows[m.id].count

\* A lock is one delivery's, and a worker has one delivery of a message at a time.
LocksDiffer ==
    \A v, w \in Workers : \A m \in held[v], n \in held[w] :
        m.id = n.id /\ (m.lock = n.lock \/ v = w) => v = w /\ m = n

\* While a worker has the last delivery of a message, nobody has completed it.
LastIsOpen ==
    \A w \in Workers : \A m \in held[w] :
        m.lock = rows[m.id].count => rows[m.id].status # "completed"

\* A message two workers have is counted among the overlapped; any other is held by
\* nobody but the one it was delivered to last.
OverlapsNoticed ==
    /\ \A v, w \in Workers : \A m \in held[v], n \in held[w] :
         m.id = n.id /\ v # w => rows[m.id].body \in overlapped
    /\ \A w \in Workers : \A m \in held[w] :
         rows[m.id].body \notin overlapped => m.lock = rows[m.id].count

\* What azure_bus.py keeps, whatever gateway and worker do with it.
BrokerQueueInv ==
    /\ BrokerTypes
    /\ UniqueBodies
    /\ DeliveryBudget
    /\ DeliveriesKnown
    /\ LocksDiffer
    /\ LastIsOpen
    /\ OverlapsNoticed

BrokerBase == BrokerQueueInv /\ PipelineTypes /\ UnpublishedYet /\ SkippingKnown

LEMMA BrokerIsShared == BrokerBase => SharedInv
BY DEF BrokerBase, BrokerQueueInv, BrokerTypes, DeliveriesKnown, Delivery, SharedInv

\* What is known of the messages in memory.
LEMMA DeliveryTypes ==
    ASSUME BrokerQueueInv, NEW w \in Workers, NEW m \in held[w]
    PROVE  /\ m.id \in Nat /\ m.count \in Nat /\ m.lock \in Nat
           /\ m.id \in DOMAIN rows
           /\ rows[m.id] \in Row
           /\ rows[m.id].body \in Jobs /\ rows[m.id].count \in Nat
<1>1. m \in Delivery /\ m.id \in DOMAIN rows /\ rows \in Seq(Row)
  BY DEF BrokerQueueInv, BrokerTypes, DeliveriesKnown
<1>2. rows[m.id] \in Row
  BY <1>1, TableRows
<1> QED
  BY <1>1, <1>2 DEF Delivery, Row

LEMMA BrokerRows ==
    ASSUME BrokerQueueInv, NEW i \in DOMAIN rows
    PROVE  /\ rows[i] \in Row
           /\ rows[i].body \in Jobs /\ rows[i].count \in Nat /\ i \in Nat
BY TableRows DEF BrokerQueueInv, BrokerTypes, Row

-----------------------------------------------------------------------------
(* The steps. *)

\* A worker goes on with a message: a settlement takes effect under a good lock only.
Proceeds(w, m) ==
    /\ Process(w, m)
    /\ UNCHANGED queueVars \/ (Live(m) /\ Settle(w, m))
    /\ UNCHANGED overlapped

\* A step of the broker's pipeline is one of the shared steps, or the broker's own.
LEMMA BrokerSteps ==
    ASSUME [BrokerNext]_brokerVars
    PROVE  \/ \E r \in Jobs : (GatewayStep(r) \/ GatewayAbort(r)) /\ UNCHANGED overlapped
           \/ \E w \in Workers : (SkipCommit(w) \/ WorkerAbort(w)) /\ UNCHANGED overlapped
           \/ \E w \in Workers : \E m \in held[w] : Proceeds(w, m)
           \/ \E w \in Workers : BrokerReceive(w)
           \/ \E i \in DOMAIN rows : BrokerLapse(i)
           \/ UNCHANGED brokerVars
<1>1. ASSUME NEW w \in Workers, NEW m \in held[w], Work(w, m)
      PROVE  Proceeds(w, m)
  <2>1. Process(w, m)
    BY <1>1 DEF Work, Process
  <2>2. UNCHANGED queueVars
    BY <1>1 DEF Work, Guard, GuardDuplicate, UnknownTool, Start, RunOk, RunFails,
                SettleRead, SettleCommit, Failure
  <2> QED
    BY <1>1, <2>1, <2>2 DEF Work, Proceeds
<1>2. ASSUME NEW w \in Workers, NEW m \in held[w], BrokerSettle(w, m)
      PROVE  Proceeds(w, m)
  BY <1>2 DEF BrokerSettle, SkipComplete, DeadLetterUnknown, CompleteMessage,
              AbandonMessage, Settle, Process, Proceeds
<1>3. ASSUME NEW w \in Workers, NEW m \in held[w], BrokerRefuses(w, m)
      PROVE  WorkerAbort(w) /\ UNCHANGED overlapped
  BY <1>3 DEF BrokerRefuses
<1> QED
  BY <1>1, <1>2, <1>3 DEF BrokerNext, BrokerGateway, BrokerWorker

\* The same, as far as the messages are concerned.
LEMMA BrokerMoves ==
    ASSUME [BrokerNext]_brokerVars
    PROVE  \/ \E r \in Jobs : PublishJob(r) /\ UNCHANGED overlapped
           \/ \E w \in Workers : \E m \in held[w] :
                Live(m) /\ Settle(w, m) /\ UNCHANGED overlapped
           \/ \E w \in Workers : Drop(w) /\ UNCHANGED overlapped
           \/ \E w \in Workers : BrokerReceive(w)
           \/ \E i \in DOMAIN rows : BrokerLapse(i)
           \/ UNCHANGED <<queueVars, overlapped>>
<1>1. ASSUME NEW r \in Jobs, GatewayStep(r) \/ GatewayAbort(r)
      PROVE  PublishJob(r) \/ UNCHANGED queueVars
  BY <1>1 DEF GatewayStep, GatewayAbort, Lookup, Reserve, PublishFails, Commit,
              CommitConflict, CommitDuplicate
<1>2. ASSUME NEW w \in Workers, SkipCommit(w) \/ WorkerAbort(w)
      PROVE  Drop(w) \/ UNCHANGED queueVars
  BY <1>2 DEF SkipCommit, WorkerAbort
<1>3. ASSUME NEW w \in Workers, NEW m \in held[w], Proceeds(w, m)
      PROVE  \/ Live(m) /\ Settle(w, m) /\ UNCHANGED overlapped
             \/ UNCHANGED <<queueVars, overlapped>>
  BY <1>3 DEF Proceeds
<1>4. CASE UNCHANGED brokerVars
  BY <1>4 DEF brokerVars, vars
<1> QED
  BY <1>1, <1>2, <1>3, <1>4, BrokerSteps

\* What a receive does, row by row and worker by worker.
Receives(w, S) ==
    /\ S # {} /\ S \subseteq Unlocked /\ Cardinality(S) <= BatchSize
    /\ DOMAIN rows' = DOMAIN rows
    /\ \A i \in DOMAIN rows \ S : rows'[i] = rows[i]
    /\ \A i \in S : /\ i \in DOMAIN rows
                    /\ rows[i].status = "available"
                    /\ rows'[i].body = rows[i].body
                    /\ rows'[i].status = "locked"
                    /\ rows'[i].count = rows[i].count + 1
    /\ \A v \in Workers \ {w} : held'[v] = held[v]
    /\ \A i \in S : \E m \in held'[w] : m.id = i
    /\ \A m \in held'[w] :
         /\ m.id \in S
         /\ m.lock = rows[m.id].count + 1
         /\ m.count <= m.lock
         /\ m \in Delivery
    /\ \A m, n \in held'[w] : m.id = n.id => m = n
    /\ overlapped' = overlapped \cup {rows[i].body : i \in S \cap HeldIds}

LEMMA ReceiveMoves ==
    ASSUME BrokerQueueInv, NEW w \in Workers, BrokerReceive(w)
    PROVE  /\ \E S \in SUBSET DOMAIN rows : Receives(w, S)
           /\ BrokerTypes'
<1>1. PICK S \in SUBSET Unlocked, u \in Uncounted :
        /\ S # {} /\ Cardinality(S) <= BatchSize
        /\ held' = [held EXCEPT ![w] = {Delivered(i, u) : i \in S}]
        /\ rows' = [i \in DOMAIN rows |->
               IF i \in S THEN [rows[i] EXCEPT !.status = "locked", !.count = @ + 1]
               ELSE rows[i]]
        /\ overlapped' = overlapped \cup {rows[i].body : i \in S \cap HeldIds}
  BY DEF BrokerReceive
<1>2. S \subseteq DOMAIN rows /\ \A i \in S : rows[i].status = "available"
  BY DEF Unlocked
<1>3. \A i \in DOMAIN rows : rows[i] \in Row /\ rows[i].count \in Nat /\ i \in Nat
  BY BrokerRows
<1>4. \A i \in S : [rows[i] EXCEPT !.status = "locked", !.count = @ + 1] \in Row
  <2> SUFFICES ASSUME NEW i \in S
               PROVE  [rows[i] EXCEPT !.status = "locked", !.count = @ + 1] \in Row
    OBVIOUS
  <2>1. rows[i] \in Row /\ rows[i].count + 1 \in Nat /\ "locked" \in Status
    BY <1>2, <1>3 DEF Status
  <2> QED
    BY <2>1 DEF Row
<1>5. held'[w] = {Delivered(i, u) : i \in S} /\ \A v \in Workers \ {w} : held'[v] = held[v]
  BY <1>1 DEF BrokerQueueInv, BrokerTypes
<1>6. \A i \in S : LET m == Delivered(i, u) IN
        m.id = i /\ m.lock = rows[i].count + 1 /\ m.count <= m.lock /\ m \in Delivery
  <2> SUFFICES ASSUME NEW i \in S
               PROVE  LET m == Delivered(i, u) IN
                      /\ m.id = i /\ m.lock = rows[i].count + 1
                      /\ m.count <= m.lock /\ m \in Delivery
    OBVIOUS
  <2>1. rows[i].count \in Nat /\ i \in Nat /\ u \in {0, 1}
    BY <1>2, <1>3, UncountedAssumption
  <2>2. /\ Reported(rows[i].count + 1 - u) \in Nat
        /\ Reported(rows[i].count + 1 - u) <= rows[i].count + 1
    BY <2>1 DEF Reported
  <2> QED
    BY <2>1, <2>2 DEF Delivered, Delivery
<1>7. rows' \in Seq(Row)
  <2>1. rows \in Seq(Row)
    BY DEF BrokerQueueInv, BrokerTypes
  <2>2. rows' \in [DOMAIN rows -> Row]
    BY <1>1, <1>3, <1>4
  <2>3. DOMAIN rows = 1 .. Len(rows) /\ Len(rows) \in Nat
    BY <2>1
  <2> QED
    BY <2>2, <2>3
<1>8. Receives(w, S)
  <2>1. \A i \in S : /\ rows'[i].body = rows[i].body
                     /\ rows'[i].status = "locked"
                     /\ rows'[i].count = rows[i].count + 1
    BY <1>1, <1>2, <1>3 DEF Row
  <2>2. DOMAIN rows' = DOMAIN rows /\ \A i \in DOMAIN rows \ S : rows'[i] = rows[i]
    BY <1>1
  <2>3. /\ \A i \in S : \E m \in held'[w] : m.id = i
        /\ \A m \in held'[w] : /\ m.id \in S
                               /\ m.lock = rows[m.id].count + 1
                               /\ m.count <= m.lock
                               /\ m \in Delivery
        /\ \A m, n \in held'[w] : m.id = n.id => m = n
    <3>1. \A m \in held'[w] : \E i \in S : m = Delivered(i, u)
      BY <1>5
    <3>2. \A i \in S : Delivered(i, u) \in held'[w]
      BY <1>5
    <3> QED
      BY <1>6, <3>1, <3>2
  <2> QED
    BY <1>1, <1>2, <1>5, <2>1, <2>2, <2>3 DEF Receives
<1>9. held' \in [Workers -> SUBSET Delivery]
  <2>1. held \in [Workers -> SUBSET Delivery]
    BY DEF BrokerQueueInv, BrokerTypes
  <2>2. {Delivered(i, u) : i \in S} \in SUBSET Delivery
    BY <1>6
  <2> QED
    BY <1>1, <2>1, <2>2
<1>10. overlapped' \subseteq Jobs
  BY <1>1, <1>2, BrokerRows DEF BrokerQueueInv, BrokerTypes
<1>11. reading' = reading
  BY DEF BrokerReceive
<1> QED
  BY <1>2, <1>7, <1>8, <1>9, <1>10, <1>11 DEF BrokerQueueInv, BrokerTypes

\* A settlement changes the status of one row, and takes the message from its worker.
LEMMA SettleMoves ==
    ASSUME BrokerBase, NEW w \in Workers, NEW m \in held[w], Settle(w, m)
    PROVE  /\ rows' \in Seq(Row)
           /\ DOMAIN rows' = DOMAIN rows
           /\ \A i \in DOMAIN rows : /\ rows'[i].body = rows[i].body
                                     /\ rows'[i].count = rows[i].count
                                     /\ i # m.id => rows'[i] = rows[i]
           /\ \/ rows'[m.id].status \in {"completed", "dead_letter"}
              \/ rows'[m.id].status = "available" /\ rows[m.id].count < MaxDelivery
           /\ held'[w] = held[w] \ {m}
           /\ \A v \in Workers \ {w} : held'[v] = held[v]
           /\ held' = [held EXCEPT ![w] = @ \ {m}]
           /\ reading' = reading
<1>1. m.id \in DOMAIN rows /\ rows[m.id] \in Row
  BY DeliveryTypes DEF BrokerBase
<1>2. \/ rows'[m.id].status \in {"completed", "dead_letter"}
      \/ rows'[m.id].status = "available" /\ rows[m.id].count < MaxDelivery
  BY <1>1 DEF Settle, Complete, Abandon, DeadLetter, Row
<1>3. held' = [held EXCEPT ![w] = @ \ {m}] /\ reading' = reading
  BY DEF Settle, Complete, Abandon, DeadLetter, Unhold
<1>4. held'[w] = held[w] \ {m} /\ \A v \in Workers \ {w} : held'[v] = held[v]
  BY <1>3 DEF BrokerBase, BrokerQueueInv, BrokerTypes
<1> QED
  BY <1>2, <1>3, <1>4, SettleRows, BrokerIsShared

\* Where no worker gets a message and rows keep their bodies and counts, what is known
\* of the deliveries stays.
LEMMA DeliveriesStay ==
    ASSUME BrokerQueueInv, \A w \in Workers : held'[w] \subseteq held[w],
           overlapped' = overlapped,
           \A i \in DOMAIN rows : /\ i \in DOMAIN rows'
                                  /\ rows'[i].body = rows[i].body
                                  /\ rows'[i].count = rows[i].count
    PROVE  DeliveriesKnown' /\ LocksDiffer' /\ OverlapsNoticed'
<1>1. \A w \in Workers : \A m \in held'[w] : m \in held[w] /\ m.id \in DOMAIN rows
  BY DEF BrokerQueueInv, DeliveriesKnown
<1>2. DeliveriesKnown'
  BY <1>1 DEF BrokerQueueInv, DeliveriesKnown
<1>3. LocksDiffer'
  BY <1>1 DEF BrokerQueueInv, LocksDiffer
<1>4. OverlapsNoticed'
  BY <1>1 DEF BrokerQueueInv, OverlapsNoticed
<1> QED
  BY <1>2, <1>3, <1>4

LEMMA PublishKeeps ==
    ASSUME BrokerBase, NEW r \in Jobs, PublishJob(r), overlapped' = overlapped
    PROVE  BrokerQueueInv'
<1> DEFINE row == [body |-> r, status |-> "available", count |-> 0, visible |-> TRUE]
<1>1. /\ rows \in Seq(Row) /\ row \in Row
      /\ r \notin Published
      /\ BrokerQueueInv
  BY DEF BrokerBase, BrokerQueueInv, BrokerTypes, Row, Status, PublishJob, UnpublishedYet,
         Early
<1>2. rows' = Append(rows, row) /\ held' = held /\ reading' = reading
  BY DEF PublishJob, Publish
<1> HIDE DEF row
<1>3. /\ rows' \in Seq(Row)
      /\ \A i \in DOMAIN rows : i \in DOMAIN rows' /\ rows'[i] = rows[i]
      /\ \A i \in DOMAIN rows' : i \in DOMAIN rows \/ (i = Len(rows) + 1 /\ rows'[i] = row)
  BY <1>1, <1>2
<1>4. BrokerTypes'
  BY <1>1, <1>2, <1>3 DEF BrokerQueueInv, BrokerTypes
<1>5. \A i \in DOMAIN rows : rows[i].body # r
  BY <1>1 DEF Published
<1>6. UniqueBodies'
  BY <1>1, <1>3, <1>5 DEF row, BrokerQueueInv, UniqueBodies
<1>7. DeliveryBudget'
  BY <1>1, <1>3, QueueAssumption DEF row, BrokerQueueInv, DeliveryBudget
<1>8. DeliveriesKnown' /\ LocksDiffer' /\ OverlapsNoticed'
  BY <1>1, <1>2, <1>3, DeliveriesStay
<1>9. LastIsOpen'
  BY <1>1, <1>2, <1>3 DEF BrokerQueueInv, LastIsOpen, DeliveriesKnown
<1> QED
  BY <1>4, <1>6, <1>7, <1>8, <1>9 DEF BrokerQueueInv

LEMMA SettleKeeps ==
    ASSUME BrokerBase, NEW w \in Workers, NEW m \in held[w], Live(m), Settle(w, m),
           overlapped' = overlapped
    PROVE  BrokerQueueInv'
<1> DEFINE i == m.id
<1>1. BrokerQueueInv
  BY DEF BrokerBase
<1>2. /\ rows' \in Seq(Row) /\ DOMAIN rows' = DOMAIN rows
      /\ \A k \in DOMAIN rows : /\ rows'[k].body = rows[k].body
                                /\ rows'[k].count = rows[k].count
                                /\ k # i => rows'[k] = rows[k]
      /\ \/ rows'[i].status \in {"completed", "dead_letter"}
         \/ rows'[i].status = "available" /\ rows[i].count < MaxDelivery
      /\ held'[w] = held[w] \ {m} /\ reading' = reading
      /\ \A v \in Workers \ {w} : held'[v] = held[v]
      /\ held' = [held EXCEPT ![w] = @ \ {m}]
  BY SettleMoves
<1>3. \A v \in Workers : held'[v] \subseteq held[v]
  BY <1>2
<1>4. BrokerTypes'
  <2>1. held \in [Workers -> SUBSET Delivery]
    BY <1>1 DEF BrokerQueueInv, BrokerTypes
  <2>2. held' \in [Workers -> SUBSET Delivery]
    BY <1>2, <2>1
  <2> QED
    BY <1>1, <1>2, <2>2 DEF BrokerQueueInv, BrokerTypes
<1>5. UniqueBodies'
  BY <1>1, <1>2 DEF BrokerQueueInv, UniqueBodies
<1>6. DeliveryBudget'
  BY <1>1, <1>2 DEF BrokerQueueInv, DeliveryBudget
<1>7. DeliveriesKnown' /\ LocksDiffer' /\ OverlapsNoticed'
  BY <1>1, <1>2, <1>3, DeliveriesStay
<1>8. ASSUME NEW v \in Workers, NEW n \in held'[v], n.lock = rows'[n.id].count
      PROVE  rows'[n.id].status # "completed"
  <2>1. n \in held[v] /\ n.id \in DOMAIN rows
    BY <1>1, <1>3 DEF BrokerQueueInv, DeliveriesKnown
  <2>2. n.id # i
    <3>1. m.lock = rows[i].count
      BY DEF Live
    <3> QED
      BY <1>1, <1>2, <1>8, <2>1, <3>1 DEF BrokerQueueInv, LocksDiffer
  <2> QED
    BY <1>1, <1>2, <1>8, <2>1, <2>2 DEF BrokerQueueInv, LastIsOpen
<1>9. LastIsOpen'
  BY <1>8 DEF LastIsOpen
<1> QED
  BY <1>4, <1>5, <1>6, <1>7, <1>9 DEF BrokerQueueInv

LEMMA DropKeeps ==
    ASSUME BrokerBase, NEW w \in Workers, Drop(w), overlapped' = overlapped
    PROVE  BrokerQueueInv'
<1>1. BrokerQueueInv
  BY DEF BrokerBase
<1>2. /\ rows' = rows
      /\ held' = [held EXCEPT ![w] = {}]
      /\ reading' = [reading EXCEPT ![w] = {}]
  BY DEF Drop
<1>3. BrokerTypes' /\ \A v \in Workers : held'[v] \subseteq held[v]
  BY <1>1, <1>2 DEF BrokerQueueInv, BrokerTypes
<1>4. UniqueBodies' /\ DeliveryBudget'
  BY <1>1, <1>2 DEF BrokerQueueInv, UniqueBodies, DeliveryBudget
<1>5. DeliveriesKnown' /\ LocksDiffer' /\ OverlapsNoticed'
  BY <1>1, <1>2, <1>3, DeliveriesStay
<1>6. LastIsOpen'
  BY <1>1, <1>2, <1>3 DEF BrokerQueueInv, LastIsOpen
<1> QED
  BY <1>3, <1>4, <1>5, <1>6 DEF BrokerQueueInv

LEMMA LapseKeeps ==
    ASSUME BrokerBase, NEW i \in DOMAIN rows, BrokerLapse(i)
    PROVE  BrokerQueueInv'
<1> DEFINE st == IF rows[i].count < MaxDelivery THEN "available" ELSE "dead_letter"
<1>1. BrokerQueueInv /\ \A k \in DOMAIN rows : rows[k] \in Row
  BY BrokerRows DEF BrokerBase
<1>2. /\ rows' = [rows EXCEPT ![i].status = st]
      /\ UNCHANGED <<held, reading, overlapped>>
  BY DEF BrokerLapse
<1>3. st \in Status
  BY DEF Status
<1>4. /\ DOMAIN rows' = DOMAIN rows
      /\ \A k \in DOMAIN rows : /\ rows'[k].body = rows[k].body
                                /\ rows'[k].count = rows[k].count
                                /\ k # i => rows'[k] = rows[k]
      /\ rows'[i].status = st
  BY <1>1, <1>2 DEF Row
<1>5. rows' \in Seq(Row)
  <2>1. [rows[i] EXCEPT !.status = st] \in Row /\ rows \in Seq(Row)
    BY <1>1, <1>3 DEF Row, BrokerQueueInv, BrokerTypes
  <2>2. rows' = [rows EXCEPT ![i] = [rows[i] EXCEPT !.status = st]]
    BY <1>2
  <2> HIDE DEF st
  <2> QED
    BY <2>1, <2>2, UpdateRow
<1>6. BrokerTypes' /\ \A v \in Workers : held'[v] \subseteq held[v]
  BY <1>1, <1>2, <1>5 DEF BrokerQueueInv, BrokerTypes
<1>7. UniqueBodies' /\ DeliveryBudget'
  BY <1>1, <1>4 DEF BrokerQueueInv, UniqueBodies, DeliveryBudget
<1>8. DeliveriesKnown' /\ LocksDiffer' /\ OverlapsNoticed'
  BY <1>1, <1>2, <1>4, <1>6, DeliveriesStay
<1>9. LastIsOpen'
  BY <1>1, <1>2, <1>4 DEF BrokerQueueInv, LastIsOpen, DeliveriesKnown
<1> QED
  BY <1>6, <1>7, <1>8, <1>9 DEF BrokerQueueInv

\* A new delivery's lock is above all earlier ones of its message; whoever still has one
\* of those makes the two overlap.
LEMMA ReceiveKeeps ==
    ASSUME BrokerBase, NEW w \in Workers, BrokerReceive(w)
    PROVE  BrokerQueueInv'
<1>1. BrokerQueueInv /\ BrokerTypes' /\ held[w] = {}
  BY ReceiveMoves DEF BrokerBase, BrokerReceive
<1>2. PICK S \in SUBSET DOMAIN rows : Receives(w, S)
  BY <1>1, ReceiveMoves
<1>3. \A i \in DOMAIN rows : /\ rows[i].count \in Nat
                             /\ rows'[i].count = rows[i].count
                                  \/ (i \in S /\ rows'[i].count = rows[i].count + 1)
                             /\ rows'[i].body = rows[i].body
  BY <1>1, <1>2, BrokerRows DEF Receives
<1>4. \A v \in Workers : \A m \in held[v] :
        m.id \in DOMAIN rows /\ m.lock \in Nat /\ m.lock <= rows[m.id].count
  BY <1>1, DeliveryTypes DEF BrokerQueueInv, DeliveriesKnown
<1>5. UniqueBodies'
  BY <1>1, <1>2, <1>3 DEF Receives, BrokerQueueInv, UniqueBodies
<1>6. DeliveryBudget'
  <2>1. \A i \in S : rows'[i].count <= MaxDelivery /\ rows'[i].status = "locked"
    BY <1>1, <1>2, <1>3, QueueAssumption DEF Receives, BrokerQueueInv, DeliveryBudget
  <2> QED
    BY <1>1, <1>2, <2>1 DEF Receives, BrokerQueueInv, DeliveryBudget
<1>7. DeliveriesKnown'
  <2>1. \A m \in held'[w] : /\ m.id \in DOMAIN rows'
                            /\ m.count <= m.lock
                            /\ m.lock <= rows'[m.id].count
    BY <1>2, <1>3 DEF Receives
  <2>2. \A v \in Workers \ {w} : \A m \in held'[v] :
          /\ m.id \in DOMAIN rows'
          /\ m.count <= m.lock
          /\ m.lock <= rows'[m.id].count
    <3> SUFFICES ASSUME NEW v \in Workers \ {w}, NEW m \in held'[v]
                 PROVE  /\ m.id \in DOMAIN rows'
                        /\ m.count <= m.lock
                        /\ m.lock <= rows'[m.id].count
      OBVIOUS
    <3>1. m \in held[v] /\ DOMAIN rows' = DOMAIN rows
      BY <1>2 DEF Receives
    <3>2. m.count <= m.lock
      BY <1>1, <3>1 DEF BrokerQueueInv, DeliveriesKnown
    <3> QED
      BY <1>3, <1>4, <3>1, <3>2
  <2> QED
    BY <2>1, <2>2 DEF DeliveriesKnown
<1>8. \A v \in Workers \ {w} : \A m \in held'[w], n \in held'[v] :
        m.id = n.id => n.lock < m.lock
  <2>1. \A v \in Workers \ {w} : held'[v] = held[v]
    BY <1>2 DEF Receives
  <2>2. \A m \in held'[w] : m.id \in DOMAIN rows /\ m.lock = rows[m.id].count + 1
    BY <1>2 DEF Receives
  <2> QED
    BY <1>3, <1>4, <2>1, <2>2
<1>9. LocksDiffer'
  <2> SUFFICES ASSUME NEW v \in Workers, NEW x \in Workers,
                      NEW m \in held'[v], NEW n \in held'[x],
                      m.id = n.id, m.lock = n.lock \/ v = x
               PROVE  v = x /\ m = n
    BY DEF LocksDiffer
  <2>0. m.lock \in Nat /\ n.lock \in Nat
    BY <1>1 DEF BrokerTypes, Delivery
  <2>1. CASE v = w /\ x = w
    BY <1>2, <2>1 DEF Receives
  <2>2. CASE v = w /\ x # w
    BY <1>8, <2>0, <2>2
  <2>3. CASE v # w /\ x = w
    BY <1>8, <2>0, <2>3
  <2>4. CASE v # w /\ x # w
    BY <1>1, <1>2, <2>4 DEF Receives, BrokerQueueInv, LocksDiffer
  <2> QED
    BY <2>1, <2>2, <2>3, <2>4
<1>10. LastIsOpen'
  <2> SUFFICES ASSUME NEW v \in Workers, NEW m \in held'[v], m.lock = rows'[m.id].count
               PROVE  rows'[m.id].status # "completed"
    BY DEF LastIsOpen
  <2>1. CASE m.id \in S
    BY <1>2, <2>1 DEF Receives
  <2>2. CASE m.id \notin S
    <3>1. v # w /\ m \in held[v] /\ m.id \in DOMAIN rows
      BY <1>2, <1>4, <2>2 DEF Receives
    <3> QED
      BY <1>1, <1>2, <2>2, <3>1 DEF Receives, BrokerQueueInv, LastIsOpen
  <2> QED
    BY <2>1, <2>2
<1>11. \A v \in Workers : \A m \in held[v] :
         m.id \in S => rows[m.id].body \in overlapped'
  BY <1>2 DEF Receives, HeldIds
<1>12. OverlapsNoticed'
  <2>1. \A v \in Workers \ {w} : \A m \in held'[v] :
          /\ m \in held[v] /\ m.id \in DOMAIN rows
          /\ m.id \in S => rows'[m.id].body \in overlapped'
          /\ m.id \notin S => rows'[m.id] = rows[m.id]
    BY <1>2, <1>3, <1>4, <1>11 DEF Receives
  <2>2. \A m \in held'[w] : m.id \in S /\ m.lock = rows'[m.id].count
    BY <1>2 DEF Receives
  <2>3. overlapped \subseteq overlapped'
    BY <1>2 DEF Receives
  <2>4. ASSUME NEW v \in Workers, NEW x \in Workers, NEW m \in held'[v], NEW n \in held'[x],
               m.id = n.id, v # x
        PROVE  rows'[m.id].body \in overlapped'
    <3>1. CASE v = w \/ x = w
      BY <2>1, <2>2, <2>4, <3>1
    <3>2. CASE v # w /\ x # w
      BY <1>1, <2>1, <2>3, <2>4, <3>2 DEF BrokerQueueInv, OverlapsNoticed
    <3> QED
      BY <3>1, <3>2
  <2>5. ASSUME NEW v \in Workers, NEW m \in held'[v], rows'[m.id].body \notin overlapped'
        PROVE  m.lock = rows'[m.id].count
    <3>1. CASE v = w
      BY <2>2, <3>1
    <3>2. CASE v # w
      BY <1>1, <2>1, <2>3, <2>5, <3>2 DEF BrokerQueueInv, OverlapsNoticed
    <3> QED
      BY <3>1, <3>2
  <2> QED
    BY <2>4, <2>5 DEF OverlapsNoticed
<1> QED
  BY <1>1, <1>5, <1>6, <1>7, <1>9, <1>10, <1>12 DEF BrokerQueueInv

-----------------------------------------------------------------------------
(* The base invariant. *)

LEMMA BrokerBaseInit == BrokerInit => BrokerBase
<1> SUFFICES ASSUME BrokerInit PROVE BrokerBase
  OBVIOUS
<1>1. BaseInv
  BY BaseInit DEF BrokerInit
<1>2. rows = <<>> /\ (\A w \in Workers : held[w] = {}) /\ overlapped = {}
  BY DEF BrokerInit, Init, QueueInit
<1>3. BrokerQueueInv
  BY <1>2 DEF BrokerInit, Init, QueueInit, BrokerQueueInv, BrokerTypes, UniqueBodies,
              DeliveryBudget, DeliveriesKnown, LocksDiffer, LastIsOpen, OverlapsNoticed
<1> QED
  BY <1>1, <1>3 DEF BaseInv, BrokerBase

\* The broker's own steps leave gateway and worker as they are.
LEMMA BrokerAlone ==
    ASSUME (\E w \in Workers : BrokerReceive(w)) \/ (\E i \in DOMAIN rows : BrokerLapse(i))
           \/ UNCHANGED brokerVars
    PROVE  UNCHANGED <<tables, gatewayVars, workerVars>>
BY DEF BrokerReceive, BrokerLapse, brokerVars, vars

\* A step is shared, or the broker's alone.
LEMMA BrokerIsSharedStep ==
    ASSUME [BrokerNext]_brokerVars
    PROVE  \/ SharedNext
           \/ /\ \/ \E w \in Workers : BrokerReceive(w)
                 \/ \E i \in DOMAIN rows : BrokerLapse(i)
                 \/ UNCHANGED brokerVars
              /\ UNCHANGED <<tables, gatewayVars, workerVars>>
BY BrokerSteps, BrokerAlone DEF SharedNext, Proceeds

\* The broker publishes nothing of its own.
LEMMA BrokerAddsNothing ==
    ASSUME BrokerBase,
           (\E w \in Workers : BrokerReceive(w)) \/ (\E i \in DOMAIN rows : BrokerLapse(i))
           \/ UNCHANGED brokerVars
    PROVE  /\ DOMAIN rows' = DOMAIN rows
           /\ \A i \in DOMAIN rows : rows'[i].body = rows[i].body
           /\ Published' = Published
<1>1. \A i \in DOMAIN rows : rows[i] \in Row
  BY BrokerRows DEF BrokerBase
<1>2. ASSUME NEW w \in Workers, BrokerReceive(w)
      PROVE  /\ DOMAIN rows' = DOMAIN rows
             /\ \A i \in DOMAIN rows : rows'[i].body = rows[i].body
  BY <1>2, ReceiveMoves DEF BrokerBase, Receives
<1>3. ASSUME NEW k \in DOMAIN rows, BrokerLapse(k)
      PROVE  /\ DOMAIN rows' = DOMAIN rows
             /\ \A i \in DOMAIN rows : rows'[i].body = rows[i].body
  BY <1>1, <1>3 DEF BrokerLapse, Row
<1>4. DOMAIN rows' = DOMAIN rows /\ \A i \in DOMAIN rows : rows'[i].body = rows[i].body
  BY <1>2, <1>3 DEF brokerVars, vars, queueVars
<1> QED
  BY <1>4 DEF Published

LEMMA BrokerBaseStep == BrokerBase /\ [BrokerNext]_brokerVars => BrokerBase'
<1> SUFFICES ASSUME BrokerBase, [BrokerNext]_brokerVars
             PROVE  BrokerBase'
  OBVIOUS
<1>1. BrokerQueueInv'
  <2>1. CASE UNCHANGED <<queueVars, overlapped>>
    BY <2>1 DEF queueVars, BrokerBase, BrokerQueueInv, BrokerTypes, UniqueBodies,
                DeliveryBudget, DeliveriesKnown, LocksDiffer, LastIsOpen, OverlapsNoticed
  <2> QED
    BY <2>1, BrokerMoves, PublishKeeps, SettleKeeps, DropKeeps, ReceiveKeeps, LapseKeeps
<1>2. SharedInv
  BY BrokerIsShared
<1>3. PipelineTypes' /\ UnpublishedYet' /\ SkippingKnown'
  <2>1. CASE SharedNext
    BY <1>2, <2>1, SharedTypes, SharedRows, SharedSkipping
  <2>2. CASE ~SharedNext
    <3>1. UNCHANGED <<tables, gatewayVars, workerVars>> /\ Published' = Published
      BY <2>2, BrokerIsSharedStep, BrokerAddsNothing
    <3> QED
      BY <1>2, <3>1, QueueAlone DEF BrokerBase, UnpublishedYet, gatewayVars
  <2> QED
    BY <2>1, <2>2
<1> QED
  BY <1>1, <1>3 DEF BrokerBase

-----------------------------------------------------------------------------
(* Success is real with this queue too. *)

BrokerSuccess == BrokerBase /\ SuccessRest

LEMMA BrokerSuccessInit == BrokerInit => BrokerSuccess
BY BrokerBaseInit, SuccessInit DEF BrokerInit, BrokerSuccess, SuccessInv

\* The broker's own steps give messages to a worker between batches only.
LEMMA BrokerSuccessStep == BrokerSuccess /\ [BrokerNext]_brokerVars => BrokerSuccess'
<1> SUFFICES ASSUME BrokerSuccess, [BrokerNext]_brokerVars
             PROVE  BrokerSuccess'
  OBVIOUS
<1>1. BrokerBase' /\ SharedInv
  BY BrokerBaseStep, BrokerIsShared DEF BrokerSuccess
<1>2. CASE SharedNext
  BY <1>1, <1>2, SharedSuccess DEF BrokerSuccess
<1>3. CASE ~SharedNext
  <2>1. /\ \/ \E w \in Workers : BrokerReceive(w)
           \/ \E i \in DOMAIN rows : BrokerLapse(i)
           \/ UNCHANGED brokerVars
        /\ UNCHANGED <<tables, gatewayVars, workerVars>>
    BY <1>3, BrokerIsSharedStep
  <2>2. KeepsBodies
    BY <2>1, BrokerAddsNothing DEF BrokerSuccess, KeepsBodies
  <2>3. reading' = reading /\ \A w \in Workers : reading[w] = {}
    BY <2>1 DEF BrokerReceive, BrokerLapse, brokerVars, vars, queueVars,
                BrokerSuccess, BrokerBase, BrokerQueueInv, BrokerTypes
  <2>4. \A w \in Workers : held'[w] = held[w] \/ wpc[w] = "idle"
    <3>1. ASSUME NEW v \in Workers, BrokerReceive(v)
          PROVE  wpc[v] = "idle" /\ \A w \in Workers \ {v} : held'[w] = held[w]
      BY <3>1, ReceiveMoves DEF BrokerReceive, Receives, BrokerSuccess, BrokerBase
    <3> QED
      BY <2>1, <3>1 DEF BrokerLapse, brokerVars, vars, queueVars
  <2> QED
    BY <1>1, <2>1, <2>2, <2>3, <2>4, QueueSuccess DEF BrokerSuccess
<1> QED
  BY <1>1, <1>2, <1>3 DEF BrokerSuccess

\* Over a broker whose locks lapse under a worker, a job reported succeeded and a
\* completed key still hold the output of a run that really happened, for that very key.
THEOREM BrokerSuccessReal == BrokerSpec => []SuccessIsReal
<1>1. BrokerSuccess => SuccessIsReal
  BY DEF BrokerSuccess, SuccessRest, JobsReal, KeysReal, Real, SuccessIsReal
<1> QED
  BY <1>1, BrokerSuccessInit, BrokerSuccessStep, PTL DEF BrokerSpec

-----------------------------------------------------------------------------
(***************************************************************************)
(* The broker implements the abstract queue.  A row is seen through its    *)
(* status and the workers whose lock on it is good: a delivery whose lock  *)
(* has lapsed is invisible, whatever its worker still does with it.        *)
(***************************************************************************)
GoodLock(w, i) == \E m \in held[w] : m.id = i /\ Live(m)

\* What the abstract queue sees, row by row.
BrokerAsMapped ==
    /\ \A i \in DOMAIN rows :
         LET j == rows[i].body IN
         /\ j \in Jobs /\ j \in Published
         /\ brokerPlace[j] = BrokerPlaceOf(i)
         /\ lockHolders[j] = {w \in Workers : GoodLock(w, i)}
         /\ taken[j] = rows[i].count
    /\ \A j \in Jobs \ Published :
         brokerPlace[j] = "unsent" /\ lockHolders[j] = {} /\ taken[j] = 0

LEMMA BrokerMapped == BrokerQueueInv => BrokerAsMapped
<1> SUFFICES ASSUME BrokerQueueInv PROVE BrokerAsMapped
  OBVIOUS
<1>1. ASSUME NEW i \in DOMAIN rows
      PROVE  LET j == rows[i].body IN
             /\ j \in Jobs /\ j \in Published
             /\ brokerPlace[j] = BrokerPlaceOf(i)
             /\ lockHolders[j] = {w \in Workers : GoodLock(w, i)}
             /\ taken[j] = rows[i].count
  <2> DEFINE j == rows[i].body
  <2>1. j \in Jobs /\ j \in Published
    BY BrokerRows DEF Published
  <2>2. RowOf(j) = i
    BY DEF RowOf, BrokerQueueInv, UniqueBodies
  <2> QED
    BY <2>1, <2>2 DEF brokerPlace, lockHolders, LockHolders, GoodLock, taken
<1>2. \A j \in Jobs \ Published :
        brokerPlace[j] = "unsent" /\ lockHolders[j] = {} /\ taken[j] = 0
  BY DEF brokerPlace, lockHolders, taken
<1> QED
  BY <1>1, <1>2 DEF BrokerAsMapped

\* A row is seen where it was if its status and its good locks are what they were.
LEMMA BrokerPlaceStays ==
    ASSUME NEW i, rows'[i].status = rows[i].status,
           \A w \in Workers : GoodLock(w, i)' <=> GoodLock(w, i)
    PROVE  BrokerPlaceOf(i)' = BrokerPlaceOf(i)
BY DEF BrokerPlaceOf, LockHolders, GoodLock

\* One lock of a message is good, at most.
LEMMA OneGoodLock ==
    ASSUME BrokerQueueInv, NEW v \in Workers, NEW w \in Workers,
           NEW m \in held[v], NEW n \in held[w], m.id = n.id, Live(m), Live(n)
    PROVE  v = w /\ m = n
BY DEF Live, BrokerQueueInv, LocksDiffer

\* Rows of I lose their good locks and are seen at the place p, all else stays: the
\* abstract Put.  With no row in I it is a stutter.
LEMMA BrokerPutRows ==
    ASSUME BrokerQueueInv, BrokerQueueInv', NEW I \in SUBSET DOMAIN rows, NEW p,
           DOMAIN rows' = DOMAIN rows,
           \A i \in DOMAIN rows : /\ rows'[i].body = rows[i].body
                                  /\ rows'[i].count = rows[i].count,
           \A i \in DOMAIN rows \ I :
               /\ rows'[i].status = rows[i].status
               /\ \A w \in Workers : GoodLock(w, i)' <=> GoodLock(w, i),
           \A i \in I : BrokerPlaceOf(i)' = p /\ \A w \in Workers : ~GoodLock(w, i)'
    PROVE  BrokerQueue!Put({rows[i].body : i \in I}, p)
<1> DEFINE S == {rows[i].body : i \in I}
<1>1. BrokerAsMapped
  BY BrokerMapped
<1>2. BrokerAsMapped'
  BY BrokerMapped, PTL
<1>3. Published' = Published
  BY DEF Published
<1>4. \A i \in DOMAIN rows \ I : BrokerPlaceOf(i)' = BrokerPlaceOf(i)
  BY BrokerPlaceStays
<1>5. ASSUME NEW j \in Jobs
      PROVE  /\ brokerPlace'[j] = IF j \in S THEN p ELSE brokerPlace[j]
             /\ lockHolders'[j] = IF j \in S THEN {} ELSE lockHolders[j]
             /\ taken'[j] = taken[j]
  <2>1. CASE j \notin Published
    <3>1. j \notin S
      BY <2>1 DEF Published
    <3>2. /\ brokerPlace[j] = "unsent" /\ lockHolders[j] = {} /\ taken[j] = 0
          /\ brokerPlace'[j] = "unsent" /\ lockHolders'[j] = {} /\ taken'[j] = 0
      BY <1>1, <1>2, <1>3, <2>1 DEF BrokerAsMapped
    <3> QED
      BY <3>1, <3>2
  <2>2. CASE j \in Published
    <3>1. PICK i \in DOMAIN rows : rows[i].body = j
      BY <2>2, HasRow
    <3>2. j \in S <=> i \in I
      BY <3>1 DEF BrokerQueueInv, UniqueBodies
    <3>3. /\ brokerPlace[j] = BrokerPlaceOf(i) /\ brokerPlace'[j] = BrokerPlaceOf(i)'
          /\ lockHolders[j] = {w \in Workers : GoodLock(w, i)}
          /\ lockHolders'[j] = {w \in Workers : GoodLock(w, i)'}
          /\ taken[j] = rows[i].count /\ taken'[j] = rows'[i].count
      BY <1>1, <1>2, <3>1 DEF BrokerAsMapped
    <3>4. CASE i \in I
      BY <3>2, <3>3, <3>4
    <3>5. CASE i \notin I
      BY <1>4, <3>2, <3>3, <3>5
    <3> QED
      BY <3>4, <3>5
  <2> QED
    BY <2>1, <2>2
<1> HIDE DEF S
<1>6. brokerPlace' = [j \in Jobs |-> IF j \in S THEN p ELSE brokerPlace[j]]
  BY <1>5 DEF brokerPlace
<1>7. lockHolders' = [j \in Jobs |-> IF j \in S THEN {} ELSE lockHolders[j]]
  BY <1>5 DEF lockHolders
<1>8. taken' = taken
  BY <1>5 DEF taken
<1> QED
  BY <1>6, <1>7, <1>8 DEF BrokerQueue!Put, S

\* One row goes to p.
LEMMA BrokerPutRow ==
    ASSUME BrokerQueueInv, BrokerQueueInv', NEW i \in DOMAIN rows, NEW p,
           DOMAIN rows' = DOMAIN rows,
           \A k \in DOMAIN rows : /\ rows'[k].body = rows[k].body
                                  /\ rows'[k].count = rows[k].count,
           \A k \in DOMAIN rows \ {i} :
               /\ rows'[k].status = rows[k].status
               /\ \A w \in Workers : GoodLock(w, k)' <=> GoodLock(w, k),
           BrokerPlaceOf(i)' = p, \A w \in Workers : ~GoodLock(w, i)'
    PROVE  BrokerQueue!Put({rows[i].body}, p)
<1>1. BrokerQueue!Put({rows[k].body : k \in {i}}, p)
  <2>1. /\ {i} \in SUBSET DOMAIN rows
        /\ \A k \in {i} : BrokerPlaceOf(k)' = p /\ \A w \in Workers : ~GoodLock(w, k)'
    OBVIOUS
  <2> QED
    BY <2>1, BrokerPutRows
<1>2. {rows[k].body : k \in {i}} = {rows[i].body}
  OBVIOUS
<1> QED
  BY <1>1, <1>2

\* publish is Enqueue.
LEMMA BrokerPublishMaps ==
    ASSUME BrokerQueueInv, BrokerQueueInv', NEW b \in Jobs \ Published, Publish(b)
    PROVE  BrokerQueue!Enqueue(b)
<1> DEFINE r == [body |-> b, status |-> "available", count |-> 0, visible |-> TRUE]
<1>1. BrokerAsMapped /\ brokerPlace[b] = "unsent" /\ lockHolders[b] = {} /\ taken[b] = 0
  BY BrokerMapped DEF BrokerAsMapped
<1>2. BrokerAsMapped'
  BY BrokerMapped, PTL
<1>3. PICK n \in Nat :
        /\ n \in DOMAIN rows' \ DOMAIN rows
        /\ DOMAIN rows' = DOMAIN rows \cup {n}
        /\ \A i \in DOMAIN rows : rows'[i] = rows[i]
        /\ rows'[n] = r
        /\ held' = held
  <2>1. r \in Row /\ rows \in Seq(Row)
    BY DEF Row, Status, BrokerQueueInv, BrokerTypes
  <2> HIDE DEF r
  <2>2. rows' = Append(rows, r) /\ held' = held
    BY DEF Publish, r
  <2> WITNESS Len(rows) + 1 \in Nat
  <2> QED
    BY <2>1, <2>2
<1>4. \A i \in DOMAIN rows : \A w \in Workers : GoodLock(w, i)' <=> GoodLock(w, i)
  BY <1>3 DEF GoodLock, Live
<1>5. \A w \in Workers : ~GoodLock(w, n)'
  BY <1>3 DEF GoodLock, BrokerQueueInv, DeliveriesKnown
<1>6. brokerPlace'[b] = "waiting" /\ lockHolders'[b] = {} /\ taken'[b] = 0
  <2>1. BrokerPlaceOf(n)' = "waiting"
    BY <1>3 DEF BrokerPlaceOf
  <2>2. /\ brokerPlace'[b] = BrokerPlaceOf(n)'
        /\ lockHolders'[b] = {w \in Workers : GoodLock(w, n)'}
        /\ taken'[b] = rows'[n].count
    BY <1>2, <1>3 DEF BrokerAsMapped
  <2> QED
    BY <1>3, <1>5, <2>1, <2>2
<1>7. ASSUME NEW j \in Jobs, j # b
      PROVE  /\ brokerPlace'[j] = brokerPlace[j]
             /\ lockHolders'[j] = lockHolders[j]
             /\ taken'[j] = taken[j]
  <2>1. CASE j \in Published
    <3>1. PICK i \in DOMAIN rows : rows[i].body = j
      BY <2>1, HasRow
    <3>2. rows'[i].body = j /\ rows'[i] = rows[i] /\ i \in DOMAIN rows'
      BY <1>3, <3>1
    <3>3. /\ brokerPlace[j] = BrokerPlaceOf(i) /\ brokerPlace'[j] = BrokerPlaceOf(i)'
          /\ lockHolders[j] = {w \in Workers : GoodLock(w, i)}
          /\ lockHolders'[j] = {w \in Workers : GoodLock(w, i)'}
          /\ taken[j] = rows[i].count /\ taken'[j] = rows'[i].count
      BY <1>1, <1>2, <3>1, <3>2 DEF BrokerAsMapped
    <3>4. BrokerPlaceOf(i)' = BrokerPlaceOf(i)
      BY <1>4, <3>2, BrokerPlaceStays
    <3> QED
      BY <1>4, <3>2, <3>3, <3>4
  <2>2. CASE j \notin Published
    <3>1. j \notin Published'
      BY <1>3, <1>7, <2>2 DEF Published
    <3> QED
      BY <1>1, <1>2, <2>2, <3>1 DEF BrokerAsMapped
  <2> QED
    BY <2>1, <2>2
<1>8. brokerPlace' = [j \in Jobs |-> IF j \in {b} THEN "waiting" ELSE brokerPlace[j]]
  BY <1>6, <1>7 DEF brokerPlace
<1>9. lockHolders' = [j \in Jobs |-> IF j \in {b} THEN {} ELSE lockHolders[j]]
  BY <1>6, <1>7 DEF lockHolders
<1>10. taken' = taken
  BY <1>1, <1>6, <1>7 DEF taken
<1> QED
  BY <1>1, <1>8, <1>9, <1>10 DEF BrokerQueue!Enqueue, BrokerQueue!Put

\* A receive is Take: the messages go from "waiting" to this worker alone, and whoever
\* had one of them before has no good lock on it.
LEMMA BrokerReceiveMaps ==
    ASSUME BrokerQueueInv, BrokerQueueInv', NEW w \in Workers, BrokerReceive(w)
    PROVE  \E T \in SUBSET Jobs : BrokerQueue!Take(w, T)
<1>1. BrokerAsMapped
  BY BrokerMapped
<1>2. BrokerAsMapped'
  BY BrokerMapped, PTL
<1>3. PICK S \in SUBSET DOMAIN rows : Receives(w, S)
  BY ReceiveMoves
<1> DEFINE T == {rows[i].body : i \in S}
<1>4. /\ DOMAIN rows' = DOMAIN rows
      /\ \A i \in DOMAIN rows \ S : rows'[i] = rows[i]
      /\ \A i \in S : /\ rows[i].status = "available"
                      /\ rows'[i].body = rows[i].body
                      /\ rows'[i].status = "locked"
                      /\ rows'[i].count = rows[i].count + 1
      /\ \A v \in Workers \ {w} : held'[v] = held[v]
      /\ \A m \in held'[w] : m.id \in S /\ m.lock = rows[m.id].count + 1
      /\ \A i \in S : \E m \in held'[w] : m.id = i
      /\ held[w] = {}
  BY <1>3 DEF Receives, BrokerReceive
<1>5. ASSUME NEW i \in S, NEW v \in Workers
      PROVE  ~GoodLock(v, i) /\ (GoodLock(v, i)' <=> v = w)
  <2>1. ~GoodLock(v, i)
    BY <1>4 DEF GoodLock, Live
  <2>2. GoodLock(w, i)'
    BY <1>4 DEF GoodLock, Live
  <2>3. ASSUME v # w
        PROVE  ~GoodLock(v, i)'
    <3>1. \A m \in held[v] : m.id = i => m.lock \in Nat /\ m.lock <= rows[i].count
      BY DeliveryTypes DEF BrokerQueueInv, DeliveriesKnown
    <3>2. rows[i].count \in Nat /\ rows'[i].count = rows[i].count + 1
      BY <1>4, BrokerRows
    <3> QED
      BY <1>4, <2>3, <3>1, <3>2 DEF GoodLock, Live
  <2> QED
    BY <2>1, <2>2, <2>3
<1>6. ASSUME NEW i \in DOMAIN rows \ S, NEW v \in Workers
      PROVE  GoodLock(v, i)' <=> GoodLock(v, i)
  BY <1>4 DEF GoodLock, Live
<1>7. \A i \in S : BrokerPlaceOf(i) = "waiting" /\ BrokerPlaceOf(i)' = "held"
  BY <1>4, <1>5 DEF BrokerPlaceOf, LockHolders, GoodLock
<1>8. \A i \in DOMAIN rows \ S : BrokerPlaceOf(i)' = BrokerPlaceOf(i)
  BY <1>4, <1>6, BrokerPlaceStays
<1>9. \A i \in DOMAIN rows : rows[i].body \in T <=> i \in S
  BY DEF BrokerQueueInv, UniqueBodies
<1>10. T # {} /\ T \in SUBSET Jobs /\ \A j \in T : brokerPlace[j] = "waiting"
  <2>1. S # {}
    BY <1>3 DEF Receives
  <2> QED
    BY <1>1, <1>7, <2>1 DEF BrokerAsMapped
<1>11. Cardinality(T) <= BatchSize
  <2> DEFINE f == [j \in T |-> CHOOSE i \in S : rows[i].body = j]
  <2>1. \A j \in T : f[j] \in S /\ rows[f[j]].body = j
    OBVIOUS
  <2>2. f \in [T -> S] /\ \A x, y \in T : f[x] = f[y] => x = y
    BY <2>1
  <2>3. IsFiniteSet(S) /\ Cardinality(S) <= BatchSize
    <3>1. DOMAIN rows = 1 .. Len(rows) /\ Len(rows) \in Nat
      BY DEF BrokerQueueInv, BrokerTypes
    <3>2. IsFiniteSet(DOMAIN rows)
      BY <3>1, FS_Interval
    <3> QED
      BY <1>3, <3>2, FS_Subset DEF Receives
  <2> HIDE DEF f, T
  <2> QED
    BY <2>2, <2>3, NoMore, QueueAssumption
<1>12. ASSUME NEW j \in Jobs
       PROVE  /\ brokerPlace'[j] = IF j \in T THEN "held" ELSE brokerPlace[j]
              /\ lockHolders'[j] = IF j \in T THEN {w} ELSE lockHolders[j]
              /\ taken'[j] = IF j \in T THEN taken[j] + 1 ELSE taken[j]
  <2>1. CASE j \notin Published
    <3>1. \A i \in DOMAIN rows : rows'[i].body = rows[i].body
      BY <1>4
    <3>2. j \notin T /\ j \notin Published'
      BY <1>4, <2>1, <3>1 DEF Published
    <3>3. /\ brokerPlace[j] = "unsent" /\ lockHolders[j] = {} /\ taken[j] = 0
          /\ brokerPlace'[j] = "unsent" /\ lockHolders'[j] = {} /\ taken'[j] = 0
      BY <1>1, <1>2, <2>1, <3>2 DEF BrokerAsMapped
    <3> QED
      BY <3>2, <3>3
  <2>2. CASE j \in Published
    <3>1. PICK i \in DOMAIN rows : rows[i].body = j
      BY <2>2, HasRow
    <3>2. rows'[i].body = j /\ (j \in T <=> i \in S)
      BY <1>4, <1>9, <3>1
    <3>3. /\ brokerPlace[j] = BrokerPlaceOf(i) /\ brokerPlace'[j] = BrokerPlaceOf(i)'
          /\ lockHolders[j] = {v \in Workers : GoodLock(v, i)}
          /\ lockHolders'[j] = {v \in Workers : GoodLock(v, i)'}
          /\ taken[j] = rows[i].count /\ taken'[j] = rows'[i].count
      BY <1>1, <1>2, <1>4, <3>1, <3>2 DEF BrokerAsMapped
    <3>4. CASE i \in S
      <4>1. lockHolders'[j] = {w}
        BY <1>5, <3>3, <3>4
      <4> QED
        BY <1>4, <1>7, <3>2, <3>3, <3>4, <4>1
    <3>5. CASE i \notin S
      <4>1. lockHolders'[j] = lockHolders[j]
        BY <1>6, <3>3, <3>5
      <4> QED
        BY <1>4, <1>8, <3>2, <3>3, <3>5, <4>1
    <3> QED
      BY <3>4, <3>5
  <2> QED
    BY <2>1, <2>2
<1> HIDE DEF T
<1>13. brokerPlace' = [j \in Jobs |-> IF j \in T THEN "held" ELSE brokerPlace[j]]
  BY <1>12 DEF brokerPlace
<1>14. lockHolders' = [j \in Jobs |-> IF j \in T THEN {w} ELSE lockHolders[j]]
  BY <1>12 DEF lockHolders
<1>15. taken' = [j \in Jobs |-> IF j \in T THEN taken[j] + 1 ELSE taken[j]]
  BY <1>12 DEF taken
<1>16. BrokerQueue!Cardinality(T) = Cardinality(T)
  BY DEF BrokerQueue!Cardinality, Cardinality
<1>17. BrokerQueue!Take(w, T)
  BY <1>10, <1>11, <1>13, <1>14, <1>15, <1>16 DEF BrokerQueue!Take
<1> QED
  BY <1>10, <1>17

\* A settlement under a good lock is Finish, GiveBack or Discard by the one holder.
LEMMA BrokerSettleMaps ==
    ASSUME BrokerBase, BrokerQueueInv', NEW w \in Workers, NEW m \in held[w],
           Live(m), Settle(w, m)
    PROVE  \E j \in Jobs : \/ BrokerQueue!Finish(w, j)
                           \/ BrokerQueue!GiveBack(w, j)
                           \/ BrokerQueue!Discard(w, j)
<1> DEFINE i == m.id
           j == rows[i].body
<1>1. BrokerQueueInv /\ i \in DOMAIN rows /\ rows[i] \in Row /\ MaxDelivery \in Nat
  BY DeliveryTypes, QueueAssumption DEF BrokerBase
<1>2. j \in Jobs /\ w \in lockHolders[j] /\ taken[j] = rows[i].count
  BY <1>1, BrokerMapped DEF BrokerAsMapped, GoodLock
<1>3. j \in BrokerQueue!HeldBy(w)
  BY <1>2 DEF BrokerQueue!HeldBy
<1>4. /\ DOMAIN rows' = DOMAIN rows
      /\ \A k \in DOMAIN rows : /\ rows'[k].body = rows[k].body
                                /\ rows'[k].count = rows[k].count
                                /\ k # i => rows'[k] = rows[k]
      /\ rows'[i].status # "locked"
      /\ held'[w] = held[w] \ {m}
      /\ \A v \in Workers \ {w} : held'[v] = held[v]
  BY SettleMoves
<1>5. \A v \in Workers : ~GoodLock(v, i)'
  BY <1>4 DEF GoodLock, Live
<1>6. \A k \in DOMAIN rows \ {i} : \A v \in Workers : GoodLock(v, k)' <=> GoodLock(v, k)
  <2>1. ASSUME NEW k \in DOMAIN rows \ {i}, NEW v \in Workers
        PROVE  GoodLock(v, k)' <=> GoodLock(v, k)
    <3>1. \A n : n.id = k => (n \in held'[v] <=> n \in held[v])
      BY <1>4, <2>1
    <3> QED
      BY <1>4, <2>1, <3>1 DEF GoodLock, Live
  <2> QED
    BY <2>1
<1>7. ASSUME NEW p, BrokerPlaceOf(i)' = p
      PROVE  BrokerQueue!Put({j}, p)
  <2>1. \A k \in DOMAIN rows \ {i} : rows'[k].status = rows[k].status
    BY <1>4
  <2> HIDE DEF i
  <2> QED
    BY <1>1, <1>4, <1>5, <1>6, <1>7, <2>1, BrokerPutRow
<1>8. CASE Complete(w, m)
  <2>1. rows'[i].status = "completed"
    BY <1>1, <1>8 DEF Complete, Row
  <2>2. BrokerPlaceOf(i)' = "done"
    BY <2>1 DEF BrokerPlaceOf
  <2> QED
    BY <1>2, <1>3, <1>7, <2>2 DEF BrokerQueue!Finish
<1>9. CASE DeadLetter(w, m)
  <2>1. rows'[i].status = "dead_letter"
    BY <1>1, <1>9 DEF DeadLetter, Row
  <2>2. BrokerPlaceOf(i)' = "dead"
    BY <2>1 DEF BrokerPlaceOf
  <2> QED
    BY <1>2, <1>3, <1>7, <2>2 DEF BrokerQueue!Discard
<1>10. CASE Abandon(w, m)
  <2>1. rows'[i].status = IF rows[i].count < MaxDelivery THEN "available" ELSE "dead_letter"
    BY <1>1, <1>10 DEF Abandon, Row
  <2>2. BrokerPlaceOf(i)' = IF taken[j] < MaxDelivery THEN "waiting" ELSE "dead"
    BY <1>2, <2>1 DEF BrokerPlaceOf
  <2> QED
    BY <1>2, <1>3, <1>7, <2>2 DEF BrokerQueue!GiveBack
<1> QED
  BY <1>8, <1>9, <1>10 DEF Settle

\* A lock lapses, over a lost message or under a slow worker: the abstract Lapse.
LEMMA BrokerLapseMaps ==
    ASSUME BrokerQueueInv, BrokerQueueInv', NEW i \in DOMAIN rows, BrokerLapse(i)
    PROVE  \E j \in Jobs : BrokerQueue!Lapse(j)
<1> DEFINE j == rows[i].body
           st == IF rows[i].count < MaxDelivery THEN "available" ELSE "dead_letter"
           p == IF rows[i].count < MaxDelivery THEN "waiting" ELSE "dead"
<1>1. \A k \in DOMAIN rows : rows[k] \in Row
  BY BrokerRows
<1>2. /\ j \in Jobs
      /\ taken[j] = rows[i].count
      /\ brokerPlace[j] = BrokerPlaceOf(i)
  BY BrokerMapped DEF BrokerAsMapped
<1>3. brokerPlace[j] \in {"held", "lost"}
  BY <1>2 DEF BrokerLapse, BrokerPlaceOf
<1>4. /\ DOMAIN rows' = DOMAIN rows
      /\ \A k \in DOMAIN rows : /\ rows'[k].body = rows[k].body
                                /\ rows'[k].count = rows[k].count
                                /\ k # i => rows'[k] = rows[k]
      /\ rows'[i].status = st
      /\ held' = held
  BY <1>1 DEF BrokerLapse, Row
<1>5. \A v \in Workers : ~GoodLock(v, i)'
  BY <1>4 DEF GoodLock, Live
<1>6. \A k \in DOMAIN rows \ {i} : \A v \in Workers : GoodLock(v, k)' <=> GoodLock(v, k)
  BY <1>4 DEF GoodLock, Live
<1>7. BrokerPlaceOf(i)' = p
  BY <1>4 DEF BrokerPlaceOf
<1>8. BrokerQueue!Put({j}, p)
  <2>1. \A k \in DOMAIN rows \ {i} : rows'[k].status = rows[k].status
    BY <1>4
  <2> HIDE DEF p
  <2> QED
    BY <1>4, <1>5, <1>6, <1>7, <2>1, BrokerPutRow
<1> QED
  BY <1>2, <1>3, <1>8 DEF BrokerQueue!Lapse

\* A worker that loses its batch is LoseAll of what it had good locks on; if there was
\* nothing, the abstract queue sees nothing.
LEMMA BrokerDropMaps ==
    ASSUME BrokerQueueInv, BrokerQueueInv', NEW w \in Workers, Drop(w)
    PROVE  BrokerQueue!LoseAll(w) \/ UNCHANGED <<brokerPlace, lockHolders, taken>>
<1> DEFINE I == {i \in DOMAIN rows : GoodLock(w, i)}
           S == {rows[i].body : i \in I}
<1>1. rows' = rows /\ held'[w] = {} /\ \A v \in Workers \ {w} : held'[v] = held[v]
  BY DEF Drop, BrokerQueueInv, BrokerTypes
<1>2. \A i \in I : \A v \in Workers : ~GoodLock(v, i)'
  <2>1. \A i \in I : \A v \in Workers \ {w} : ~GoodLock(v, i)
    BY OneGoodLock DEF GoodLock
  <2> QED
    BY <1>1, <2>1 DEF GoodLock, Live
<1>3. \A i \in DOMAIN rows \ I : \A v \in Workers : GoodLock(v, i)' <=> GoodLock(v, i)
  BY <1>1 DEF GoodLock, Live
<1>4. \A i \in I : BrokerPlaceOf(i)' = "lost"
  <2>1. \A i \in I : rows[i].status = "locked"
    BY DEF GoodLock, Live
  <2> QED
    BY <1>1, <1>2, <2>1 DEF BrokerPlaceOf, LockHolders, GoodLock
<1>5. BrokerQueue!Put(S, "lost")
  BY <1>1, <1>2, <1>3, <1>4, BrokerPutRows
<1>6. S = BrokerQueue!HeldBy(w)
  <2>1. BrokerAsMapped
    BY BrokerMapped
  <2>2. ASSUME NEW j \in Jobs
        PROVE  j \in S <=> w \in lockHolders[j]
    <3>1. CASE j \in Published
      <4>1. PICK i \in DOMAIN rows : rows[i].body = j
        BY <3>1, HasRow
      <4>2. j \in S <=> i \in I
        BY <4>1 DEF BrokerQueueInv, UniqueBodies
      <4> QED
        BY <2>1, <4>1, <4>2 DEF BrokerAsMapped
    <3>2. CASE j \notin Published
      BY <2>1, <3>2 DEF BrokerAsMapped, Published
    <3> QED
      BY <3>1, <3>2
  <2>3. S \subseteq Jobs
    BY <2>1 DEF BrokerAsMapped
  <2> HIDE DEF S
  <2> QED
    BY <2>2, <2>3 DEF BrokerQueue!HeldBy
<1> HIDE DEF S
<1>7. CASE S = {}
  BY <1>5, <1>7 DEF BrokerQueue!Put, brokerPlace, lockHolders
<1>8. CASE S # {}
  BY <1>5, <1>6, <1>8 DEF BrokerQueue!LoseAll
<1> QED
  BY <1>7, <1>8

\* Every step over the broker is a step of the abstract queue, or none.
LEMMA BrokerMaps ==
    ASSUME BrokerBase, BrokerBase', [BrokerNext]_brokerVars
    PROVE  [BrokerQueue!Next]_<<brokerPlace, lockHolders, taken>>
<1>1. BrokerQueueInv /\ BrokerQueueInv'
  BY DEF BrokerBase
<1>2. ASSUME NEW r \in Jobs, PublishJob(r)
      PROVE  BrokerQueue!Next
  <2>1. r \notin Published /\ Publish(r)
    BY <1>2 DEF BrokerBase, UnpublishedYet, Early, PublishJob
  <2> QED
    BY <1>1, <2>1, BrokerPublishMaps DEF BrokerQueue!Next
<1>3. ASSUME NEW w \in Workers, NEW m \in held[w], Live(m), Settle(w, m)
      PROVE  BrokerQueue!Next
  BY <1>1, <1>3, BrokerSettleMaps DEF BrokerQueue!Next
<1>4. ASSUME NEW w \in Workers, Drop(w)
      PROVE  BrokerQueue!Next \/ UNCHANGED <<brokerPlace, lockHolders, taken>>
  BY <1>1, <1>4, BrokerDropMaps DEF BrokerQueue!Next
<1>5. ASSUME NEW w \in Workers, BrokerReceive(w)
      PROVE  BrokerQueue!Next
  BY <1>1, <1>5, BrokerReceiveMaps DEF BrokerQueue!Next
<1>6. ASSUME NEW i \in DOMAIN rows, BrokerLapse(i)
      PROVE  BrokerQueue!Next
  BY <1>1, <1>6, BrokerLapseMaps DEF BrokerQueue!Next
<1>7. ASSUME UNCHANGED <<queueVars, overlapped>>
      PROVE  UNCHANGED <<brokerPlace, lockHolders, taken>>
  <2>1. rows' = rows /\ held' = held
    BY <1>7 DEF queueVars
  <2>2. BrokerQueue!Put({rows[i].body : i \in {}}, "lost")
    BY <1>1, <2>1, BrokerPutRows DEF GoodLock, Live
  <2> QED
    BY <2>2 DEF BrokerQueue!Put, brokerPlace, lockHolders
<1> QED
  BY <1>2, <1>3, <1>4, <1>5, <1>6, <1>7, BrokerMoves

LEMMA BrokerEmptyMaps == BrokerInit => BrokerQueue!Init
BY DEF BrokerInit, Init, QueueInit, BrokerQueue!Init, brokerPlace, lockHolders, taken,
       Published

\* The second backend keeps the promises of MessageQueue, for any number of messages and
\* workers, any batch size and delivery limit, with locks that lapse under a worker and
\* settlements that are refused: its behaviours, seen through the good locks, are
\* behaviours of the abstract queue.
THEOREM BrokerKeepsItsPromises == BrokerSpec => BrokerImplementsWorkQueue
<1>1. BrokerInit => BrokerBase /\ BrokerQueue!Init
  BY BrokerBaseInit, BrokerEmptyMaps
<1>2. BrokerBase /\ [BrokerNext]_brokerVars => BrokerBase'
  BY BrokerBaseStep
<1>3. BrokerBase /\ BrokerBase' /\ [BrokerNext]_brokerVars
        => [BrokerQueue!Next]_<<brokerPlace, lockHolders, taken>>
  BY BrokerMaps
<1> QED
  BY <1>1, <1>2, <1>3, PTL
     DEF BrokerSpec, BrokerImplementsWorkQueue, BrokerQueue!Spec,
         BrokerQueue!workQueueVars

-----------------------------------------------------------------------------
(***************************************************************************)
(* No run after a settled one.  Between guard and run a worker relies on   *)
(* what the guard read; only another worker with the same message could    *)
(* settle a run of it meanwhile, and then the two overlap.                 *)
(***************************************************************************)
RunSettled(r) == KeyRowOf(r).status = "completed" /\ KeyRowOf(r).result = r

RunsAreOpen ==
    \A w \in Workers : \A m \in held[w] :
        IsHead(w, m) /\ wpc[w] \in {"start", "run"} /\ rows[m.id].body \notin overlapped
            => ~RunSettled(rows[m.id].body)

\* A worker that neither moves nor gets or loses a message.
Stays(w) == wpc'[w] = wpc[w] /\ held'[w] = held[w] /\ skipping'[w] = skipping[w]

\* Where nobody overlaps, a message is in one pair of hands, once.
LEMMA SoleHolder ==
    ASSUME BrokerQueueInv, NEW v \in Workers, NEW w \in Workers,
           NEW m \in held[v], NEW n \in held[w],
           rows[m.id].body = rows[n.id].body, rows[m.id].body \notin overlapped
    PROVE  v = w /\ m = n
<1>1. m.id = n.id
  BY DeliveryTypes DEF BrokerQueueInv, UniqueBodies
<1> QED
  BY <1>1 DEF BrokerQueueInv, OverlapsNoticed, LocksDiffer

\* Two first messages of a worker are one.
LEMMA OneHead ==
    ASSUME BrokerQueueInv, NEW w \in Workers, NEW m \in held[w], NEW n \in held[w],
           IsHead(w, m), IsHead(w, n)
    PROVE  m = n
<1>1. m.id \in Nat /\ n.id \in Nat /\ m.id <= n.id /\ n.id <= m.id
  BY DeliveryTypes DEF IsHead
<1> QED
  BY <1>1 DEF BrokerQueueInv, LocksDiffer

\* Overlaps are not forgotten, rows are not renamed.
LEMMA BrokerKeeps ==
    ASSUME BrokerBase, [BrokerNext]_brokerVars
    PROVE  /\ overlapped \subseteq overlapped'
           /\ \A i \in DOMAIN rows : i \in DOMAIN rows' /\ rows'[i].body = rows[i].body
<1>1. overlapped \subseteq overlapped'
  <2>1. ASSUME NEW w \in Workers, BrokerReceive(w)
        PROVE  overlapped \subseteq overlapped'
    BY <2>1 DEF BrokerReceive
  <2>2. ASSUME NEW i \in DOMAIN rows, BrokerLapse(i)
        PROVE  overlapped \subseteq overlapped'
    BY <2>2 DEF BrokerLapse
  <2> QED
    BY <2>1, <2>2, BrokerMoves
<1>2. CASE SharedNext
  BY <1>1, <1>2, SharedRows, BrokerIsShared
<1>3. CASE ~SharedNext
  BY <1>1, <1>3, BrokerIsSharedStep, BrokerAddsNothing
<1> QED
  BY <1>2, <1>3

\* A worker between batches, or one that lost its batch.
Rests(w) == wpc'[w] = "idle" /\ (wpc[w] \in {"idle", "skip_commit"} \/ held'[w] = {})

\* A worker stays, rests, or goes on with its first message.
LEMMA WorkerMoves ==
    ASSUME BrokerBase, [BrokerNext]_brokerVars, NEW w \in Workers
    PROVE  \/ Stays(w)
           \/ Rests(w)
           \/ \E m \in held[w] : Proceeds(w, m) /\ IsHead(w, m)
<1> USE DEF BrokerBase, PipelineTypes, BrokerQueueInv, BrokerTypes
<1>1. ASSUME NEW r \in Jobs, GatewayStep(r) \/ GatewayAbort(r)
      PROVE  Stays(w)
  BY <1>1 DEF GatewayStep, GatewayAbort, Lookup, Reserve, PublishJob, Publish,
              PublishFails, Commit, CommitConflict, CommitDuplicate, queueVars,
              workerVars, Stays
<1>2. ASSUME NEW v \in Workers, SkipCommit(v) \/ WorkerAbort(v)
      PROVE  Stays(w) \/ Rests(w)
  <2>1. CASE v = w
    BY <1>2, <2>1 DEF SkipCommit, WorkerAbort, Drop, Become, Rests
  <2>2. CASE v # w
    BY <1>2, <2>2, OthersAlone, BrokerIsShared DEF Stays
  <2> QED
    BY <2>1, <2>2
<1>3. ASSUME NEW v \in Workers, NEW m \in held[v], Proceeds(v, m)
      PROVE  Stays(w) \/ (v = w /\ IsHead(v, m))
  <2>1. CASE v = w
    BY <1>3, <2>1, HeadProcessed DEF Proceeds
  <2>2. CASE v # w
    BY <1>3, <2>2, OthersAlone, BrokerIsShared DEF Proceeds, Stays
  <2> QED
    BY <2>1, <2>2
<1>4. ASSUME NEW v \in Workers, BrokerReceive(v)
      PROVE  Stays(w) \/ Rests(w)
  BY <1>4 DEF BrokerReceive, workerVars, Stays, Rests
<1>5. ASSUME (\E i \in DOMAIN rows : BrokerLapse(i)) \/ UNCHANGED brokerVars
      PROVE  Stays(w)
  BY <1>5 DEF BrokerLapse, brokerVars, vars, queueVars, workerVars, Stays
<1> QED
  BY <1>1, <1>2, <1>3, <1>4, <1>5, BrokerSteps

\* Only the settling of a run writes its output to its key.
LEMMA SettlesRun ==
    ASSUME BrokerBase, [BrokerNext]_brokerVars, NEW r \in Jobs,
           RunSettled(r)', ~RunSettled(r)
    PROVE  \E w \in Workers : \E m \in held[w] :
             SettleCommit(w, m) /\ rows[m.id].body = r
<1>1. KeyOf[r] \in Keys /\ PipelineTypes
  BY PipelineAssumption DEF BrokerBase
<1>2. CASE SharedNext
  <2>1. ASSUME NEW q \in Jobs, GatewayStep(q) \/ GatewayAbort(q)
        PROVE  FALSE
    <3>1. idem' = idem \/ idem' = [idem EXCEPT ![KeyOf[q]] = Key("reserved", q, NoJob)]
      BY <2>1 DEF GatewayStep, GatewayAbort, Lookup, Reserve, PublishJob, PublishFails,
                  Commit, CommitConflict, CommitDuplicate, tables
    <3> QED
      BY <1>1, <3>1 DEF RunSettled, KeyRowOf, Key, PipelineTypes
  <2>2. ASSUME NEW w \in Workers, SkipCommit(w) \/ WorkerAbort(w)
        PROVE  FALSE
    BY <2>2 DEF SkipCommit, WorkerAbort, tables, RunSettled, KeyRowOf
  <2>3. ASSUME NEW w \in Workers, NEW m \in held[w], Process(w, m)
        PROVE  SettleCommit(w, m) /\ rows[m.id].body = r
    <3>1. SettleCommit(w, m)
      BY <2>3 DEF Process, Guard, GuardDuplicate, SkipComplete, UnknownTool,
                  DeadLetterUnknown, Start, RunOk, RunFails, SettleRead, CompleteMessage,
                  Failure, AbandonMessage, tables, RunSettled, KeyRowOf
    <3>2. rows[m.id].body = r
      BY <1>1, <3>1 DEF SettleCommit, Key, RunSettled, KeyRowOf, PipelineTypes
    <3> QED
      BY <3>1, <3>2
  <2> QED
    BY <1>2, <2>1, <2>2, <2>3 DEF SharedNext
<1>3. CASE ~SharedNext
  BY <1>3, BrokerIsSharedStep DEF tables, RunSettled, KeyRowOf
<1> QED
  BY <1>2, <1>3

LEMMA RunsAreOpenStep == BrokerBase /\ RunsAreOpen /\ [BrokerNext]_brokerVars => RunsAreOpen'
<1> SUFFICES ASSUME BrokerBase, RunsAreOpen, [BrokerNext]_brokerVars,
                    NEW w \in Workers, NEW m \in held'[w], IsHead(w, m)',
                    wpc'[w] \in {"start", "run"}, rows'[m.id].body \notin overlapped'
             PROVE  ~RunSettled(rows[m.id].body)'
  BY DEF RunsAreOpen
<1>0. BrokerQueueInv /\ PipelineTypes
  BY DEF BrokerBase
<1>1. CASE Stays(w)
  <2>1. m \in held[w] /\ IsHead(w, m) /\ wpc[w] \in {"start", "run"}
    BY <1>1 DEF Stays, IsHead
  <2>2. m.id \in DOMAIN rows /\ rows[m.id].body \in Jobs
    BY <1>0, <2>1, DeliveryTypes
  <2> PICK r \in Jobs : r = rows[m.id].body
    BY <2>2
  <2>3. rows'[m.id].body = r /\ r \notin overlapped
    BY <2>2, BrokerKeeps
  <2>4. ~RunSettled(r)
    BY <2>1, <2>3 DEF RunsAreOpen
  <2>5. ASSUME NEW v \in Workers, NEW n \in held[v], SettleCommit(v, n), rows[n.id].body = r
        PROVE  FALSE
    <3>1. v = w
      BY <1>0, <2>1, <2>3, <2>5, SoleHolder
    <3> QED
      BY <2>1, <2>5, <3>1 DEF SettleCommit, At
  <2>6. ~RunSettled(r)'
    BY <2>2, <2>4, <2>5, SettlesRun
  <2> QED
    BY <2>3, <2>6 DEF RunSettled, KeyRowOf
<1>2. ASSUME NEW n \in held[w], Proceeds(w, n), IsHead(w, n)
      PROVE  ~RunSettled(rows[m.id].body)'
  <2>1. Guard(w, n) \/ Start(w, n)
    BY <1>0, <1>2 DEF Proceeds, Process, GuardDuplicate, SkipComplete, UnknownTool,
                      DeadLetterUnknown, RunOk, RunFails, SettleRead, SettleCommit,
                      CompleteMessage, Failure, AbandonMessage, Become, PipelineTypes
  <2>2. UNCHANGED <<rows, held, idem>>
    BY <2>1 DEF Guard, Start, queueVars, tables
  <2>3. m = n
    BY <1>0, <1>2, <2>2, OneHead DEF IsHead
  <2>4. rows[m.id].body \notin overlapped
    BY <1>2, <2>2 DEF Proceeds
  <2>5. ~RunSettled(rows[m.id].body)
    <3>1. CASE Guard(w, n)
      BY <2>3, <3>1 DEF Guard, RunSettled
    <3>2. CASE Start(w, n)
      BY <1>2, <2>3, <2>4, <3>2 DEF Start, At, RunsAreOpen
    <3> QED
      BY <2>1, <3>1, <3>2
  <2> QED
    BY <2>2, <2>5 DEF RunSettled, KeyRowOf
<1> QED
  BY <1>1, <1>2, WorkerMoves DEF Rests

\* Only a tool that succeeds is counted.
LEMMA Executes ==
    ASSUME BrokerBase, [BrokerNext]_brokerVars, NEW r \in Jobs, executed'[r] > executed[r]
    PROVE  \E w \in Workers : \E m \in held[w] : RunOk(w, m) /\ rows[m.id].body = r
<1>1. PipelineTypes
  BY DEF BrokerBase
<1>2. ASSUME executed' = executed
      PROVE  FALSE
  BY <1>1, <1>2 DEF PipelineTypes
<1>3. ASSUME NEW q \in Jobs, GatewayStep(q) \/ GatewayAbort(q)
      PROVE  FALSE
  BY <1>2, <1>3 DEF GatewayStep, GatewayAbort, Lookup, Reserve, PublishJob, PublishFails,
                    Commit, CommitConflict, CommitDuplicate, workerVars
<1>4. ASSUME NEW w \in Workers, SkipCommit(w) \/ WorkerAbort(w)
      PROVE  FALSE
  BY <1>2, <1>4 DEF SkipCommit, WorkerAbort
<1>5. ASSUME NEW w \in Workers, NEW m \in held[w], Process(w, m)
      PROVE  RunOk(w, m) /\ rows[m.id].body = r
  <2>1. RunOk(w, m)
    BY <1>2, <1>5 DEF Process, Guard, GuardDuplicate, SkipComplete, UnknownTool,
                      DeadLetterUnknown, Start, RunFails, SettleRead, SettleCommit,
                      CompleteMessage, Failure, AbandonMessage
  <2>2. rows[m.id].body = r
    BY <1>1, <2>1 DEF RunOk, PipelineTypes
  <2> QED
    BY <2>1, <2>2
<1> QED
  BY <1>2, <1>3, <1>4, <1>5, BrokerIsSharedStep DEF SharedNext, workerVars

\* The idempotency guard does what it can on a broker that redelivers, whatever crashes,
\* refused settlements and lapsed locks there are: a tool succeeds again after its success
\* was committed only where two workers had the message at the same time.
THEOREM BrokerNoRunAfterSuccess == BrokerSpec => NoRunAfterSuccess
<1>1. BrokerInit => BrokerBase /\ RunsAreOpen
  BY BrokerBaseInit DEF BrokerInit, Init, QueueInit, RunsAreOpen
<1>2. BrokerBase /\ RunsAreOpen /\ [BrokerNext]_brokerVars => (BrokerBase /\ RunsAreOpen)'
  BY BrokerBaseStep, RunsAreOpenStep
<1> DEFINE Guarded == \A r \in Jobs :
             /\ executed'[r] > executed[r]
             /\ KeyRowOf(r).status = "completed"
             /\ KeyRowOf(r).result = r
             => r \in overlapped
<1>3. BrokerBase /\ RunsAreOpen /\ [BrokerNext]_brokerVars => Guarded
  <2> SUFFICES ASSUME BrokerBase, RunsAreOpen, [BrokerNext]_brokerVars, NEW r \in Jobs,
                      executed'[r] > executed[r], RunSettled(r), r \notin overlapped
               PROVE  FALSE
    BY DEF RunSettled
  <2>1. PICK w \in Workers : \E m \in held[w] : RunOk(w, m) /\ rows[m.id].body = r
    BY Executes
  <2> QED
    BY <2>1 DEF RunOk, At, IsHead, RunsAreOpen
<1> QED
  BY <1>1, <1>2, <1>3, PTL DEF BrokerSpec, NoRunAfterSuccess

-----------------------------------------------------------------------------
(***************************************************************************)
(* End states stay, where the worker knows every tool the gateway lets     *)
(* through.  A job's end agrees with its message: it is dead after the     *)
(* last delivery only, and a worker that may still write its row finds it  *)
(* open, or overlaps with another.                                         *)
(***************************************************************************)

\* The worker has passed the guard, and will write the job's row.
AtWork == {"start", "run", "settle", "settle_found", "settle_missing", "failure"}

\* A job has a row only when its request is answered and its key has one; a succeeded
\* job's key is completed.
JobsHaveKeys ==
    \A r \in Jobs :
        /\ HasJob(r) => gpc[r] = "done" /\ HasKey(r)
        /\ jobs[r].status = "succeeded" => KeyRowOf(r).status = "completed"

\* The message of r is completed, and nobody has it any more, if nobody overlapped.
DoneWith(r) ==
    /\ \E i \in DOMAIN rows : rows[i].body = r /\ rows[i].status = "completed"
    /\ r \notin overlapped => \A w \in Workers : \A m \in held[w] : rows[m.id].body # r

\* A worker with an open guard transaction has found the key completed, for the message
\* it is at or is done with.
SkipsKnow ==
    \A w \in Workers :
        /\ wpc[w] \in {"skip", "skip_commit"} => KeyRowOf(skipping[w].job).status = "completed"
        /\ wpc[w] = "skip" =>
             \A m \in held[w] : IsHead(w, m) => rows[m.id].body = skipping[w].job
        /\ wpc[w] = "skip_commit" => DoneWith(skipping[w].job)

Ended(r) == jobs[r].status \in {"succeeded", "dead_letter"}

\* What a worker relies on between the guard and its verdict.
HeadsAreOpen ==
    \A w \in Workers : \A m \in held[w] : IsHead(w, m) =>
        /\ wpc[w] \notin {"unknown", "dead_letter"}
        /\ wpc[w] = "settle_found" => HasJob(rows[m.id].body)
        /\ wpc[w] \in AtWork /\ rows[m.id].body \notin overlapped => ~Ended(rows[m.id].body)

\* The last delivery of r is over, or its worker is about to give the message back.
GivenUp(r) ==
    /\ \A i \in DOMAIN rows : rows[i].body = r =>
         rows[i].count = MaxDelivery /\ rows[i].status \in {"locked", "dead_letter"}
    /\ \A w \in Workers : \A m \in held[w] :
         rows[m.id].body = r /\ m.lock = MaxDelivery => IsHead(w, m) /\ wpc[w] = "abandon"

DeadWasLast ==
    \A r \in Jobs : jobs[r].status = "dead_letter" =>
        jobs[r].attempts = MaxDelivery /\ GivenUp(r)

EndsRest == JobsHaveKeys /\ SkipsKnow /\ HeadsAreOpen /\ DeadWasLast

EndsInv == BrokerBase /\ EndsRest

\* What a step may write of a key.
LEMMA KeyWrites ==
    ASSUME BrokerBase, [BrokerNext]_brokerVars, NEW k \in Keys, idem'[k] # idem[k]
    PROVE  \/ \E r \in Jobs : /\ Commit(r) /\ KeyOf[r] = k
                              /\ idem'[k].status = "reserved"
           \/ \E w \in Workers : \E m \in held[w] :
                /\ SettleCommit(w, m) /\ KeyOf[rows[m.id].body] = k
                /\ HasKey(rows[m.id].body)
                /\ idem'[k].status = "completed"
<1>1. PipelineTypes /\ \A r \in Jobs : KeyOf[r] \in Keys
  BY PipelineAssumption DEF BrokerBase
<1>2. ASSUME UNCHANGED tables
      PROVE  FALSE
  BY <1>2 DEF tables
<1>3. ASSUME NEW r \in Jobs, GatewayStep(r) \/ GatewayAbort(r)
      PROVE  Commit(r) /\ KeyOf[r] = k /\ idem'[k].status = "reserved"
  <2>1. Commit(r)
    BY <1>3 DEF GatewayStep, GatewayAbort, Lookup, Reserve, PublishJob, PublishFails,
                CommitConflict, CommitDuplicate, tables
  <2> QED
    BY <1>1, <2>1 DEF Commit, Key, PipelineTypes
<1>4. ASSUME NEW w \in Workers, SkipCommit(w) \/ WorkerAbort(w)
      PROVE  FALSE
  BY <1>4 DEF SkipCommit, WorkerAbort, tables
<1>5. ASSUME NEW w \in Workers, NEW m \in held[w], Process(w, m)
      PROVE  /\ SettleCommit(w, m) /\ KeyOf[rows[m.id].body] = k
             /\ HasKey(rows[m.id].body)
             /\ idem'[k].status = "completed"
  <2>1. SettleCommit(w, m)
    BY <1>5 DEF Process, Guard, GuardDuplicate, SkipComplete, UnknownTool,
                DeadLetterUnknown, Start, RunOk, RunFails, SettleRead, CompleteMessage,
                Failure, AbandonMessage, tables
  <2> QED
    BY <1>1, <2>1 DEF SettleCommit, Key, PipelineTypes
<1> QED
  BY <1>2, <1>3, <1>4, <1>5, BrokerIsSharedStep DEF SharedNext

\* A worker writes the row of the job whose message it is at.
WritesJob(w, m, r) ==
    /\ IsHead(w, m)
    /\ rows[m.id].body = r
    /\ HasJob(r) \/ wpc[w] = "settle_found"
    /\ \/ UnknownTool(w, m)
       \/ Start(w, m) /\ jobs'[r].status = "running"
       \/ SettleCommit(w, m) /\ wpc[w] = "settle_found" /\ jobs'[r].status = "succeeded"
       \/ Failure(w, m) /\ m.count < MaxDelivery /\ jobs'[r].status = "failed"
       \/ /\ Failure(w, m) /\ m.count >= MaxDelivery
          /\ jobs'[r].status = "dead_letter" /\ jobs'[r].attempts = m.count

\* What a step may write of a job.
LEMMA JobWrites ==
    ASSUME BrokerBase, [BrokerNext]_brokerVars, NEW r \in Jobs, jobs'[r] # jobs[r]
    PROVE  \/ Commit(r) /\ jobs'[r].status = "queued"
           \/ \E w \in Workers : /\ SkipCommit(w) /\ skipping[w].job = r
                                 /\ HasJob(r) /\ jobs'[r].status = "succeeded"
           \/ \E w \in Workers : \E m \in held[w] : WritesJob(w, m, r)
<1>1. PipelineTypes /\ jobs \in [Jobs -> JobRow]
  BY DEF BrokerBase, PipelineTypes
<1>2. ASSUME UNCHANGED tables
      PROVE  FALSE
  BY <1>2 DEF tables
<1>3. ASSUME NEW q \in Jobs, GatewayStep(q) \/ GatewayAbort(q)
      PROVE  Commit(r) /\ jobs'[r].status = "queued"
  <2>1. Commit(q)
    BY <1>3 DEF GatewayStep, GatewayAbort, Lookup, Reserve, PublishJob, PublishFails,
                CommitConflict, CommitDuplicate, tables
  <2> QED
    BY <1>1, <2>1 DEF Commit, Job
<1>4. ASSUME NEW w \in Workers, SkipCommit(w) \/ WorkerAbort(w)
      PROVE  /\ SkipCommit(w) /\ skipping[w].job = r
             /\ HasJob(r) /\ jobs'[r].status = "succeeded"
  <2>1. SkipCommit(w)
    BY <1>4 DEF WorkerAbort, tables
  <2> QED
    BY <1>1, <2>1 DEF SkipCommit, SetJob, Job
<1>5. ASSUME NEW w \in Workers, NEW m \in held[w], Process(w, m)
      PROVE  WritesJob(w, m, r)
  <2>1. IsHead(w, m) /\ rows[m.id].body \in Jobs /\ m.count \in Nat /\ MaxDelivery \in Nat
    BY <1>5, HeadProcessed, SharedMessage, BrokerIsShared, QueueAssumption
  <2>2. CASE UnknownTool(w, m)
    BY <1>1, <2>1, <2>2 DEF UnknownTool, SetJob, WritesJob
  <2>3. CASE Start(w, m)
    BY <1>1, <2>1, <2>3 DEF Start, SetJob, Job, WritesJob
  <2>4. CASE SettleCommit(w, m)
    BY <1>1, <2>1, <2>4 DEF SettleCommit, At, Job, WritesJob
  <2>5. CASE Failure(w, m)
    BY <1>1, <2>1, <2>5 DEF Failure, SetJob, Job, WritesJob
  <2> QED
    BY <1>5, <2>2, <2>3, <2>4, <2>5
       DEF Process, Guard, GuardDuplicate, SkipComplete, DeadLetterUnknown, RunOk,
           RunFails, SettleRead, CompleteMessage, AbandonMessage, tables
<1> QED
  BY <1>2, <1>3, <1>4, <1>5, BrokerIsSharedStep DEF SharedNext

\* What no step takes away.
LEMMA TablesGrow ==
    ASSUME BrokerBase, [BrokerNext]_brokerVars, NEW r \in Jobs
    PROVE  /\ HasKey(r) => HasKey(r)'
           /\ KeyRowOf(r).status = "completed" => KeyRowOf(r)'.status = "completed"
           /\ HasJob(r) => HasJob(r)'
           /\ gpc[r] = "done" => gpc'[r] = "done"
<1>1. PipelineTypes /\ KeyOf[r] \in Keys
  BY PipelineAssumption DEF BrokerBase
<1>2. HasKey(r) => \/ idem'[KeyOf[r]] = idem[KeyOf[r]]
                   \/ HasKey(r)' /\ idem'[KeyOf[r]].status = "completed"
  <2>1. ASSUME NEW q \in Jobs, Commit(q), KeyOf[q] = KeyOf[r]
        PROVE  ~HasKey(r)
    BY <2>1 DEF Commit, HasKey, KeyRowOf
  <2> QED
    BY <1>1, <2>1, KeyWrites DEF HasKey, KeyRowOf
<1>3. /\ HasKey(r) => HasKey(r)'
      /\ KeyRowOf(r).status = "completed" => KeyRowOf(r)'.status = "completed"
  BY <1>2 DEF HasKey, KeyRowOf
<1>4. HasJob(r) => HasJob(r)'
  <2>1. ASSUME NEW w \in Workers, NEW m \in held[w], UnknownTool(w, m), rows[m.id].body = r
        PROVE  HasJob(r) => HasJob(r)'
    BY <1>1, <2>1 DEF UnknownTool, SetJob, HasJob, Job, PipelineTypes
  <2> QED
    BY <2>1, JobWrites DEF WritesJob, HasJob
<1>5. gpc[r] = "done" => gpc'[r] = "done"
  <2>1. ASSUME NEW q \in Jobs, GatewayStep(q) \/ GatewayAbort(q)
        PROVE  gpc[r] = "done" => gpc'[r] = "done"
    <3>1. gpc[q] # "done" /\ \E pc : gpc' = [gpc EXCEPT ![q] = pc]
      BY <2>1 DEF GatewayStep, GatewayAbort, Lookup, Reserve, PublishJob, PublishFails,
                  Commit, CommitConflict, CommitDuplicate, Tell, GoTo
    <3> QED
      BY <1>1, <3>1 DEF PipelineTypes
  <2> QED
    BY <2>1, WorkerFrame, BrokerIsSharedStep DEF SharedNext, gatewayVars
<1> QED
  BY <1>3, <1>4, <1>5

\* What a worker holds it held before, unless it has just received the message, which
\* was waiting.
LEMMA HeldBefore ==
    ASSUME BrokerBase, [BrokerNext]_brokerVars, NEW w \in Workers, NEW m \in held'[w]
    PROVE  \/ m \in held[w]
           \/ /\ m.id \in DOMAIN rows
              /\ rows[m.id].status = "available"
              /\ BrokerReceive(w)
<1>1. BrokerQueueInv /\ held \in [Workers -> SUBSET Delivery]
  BY DEF BrokerBase, BrokerQueueInv, BrokerTypes
<1>2. ASSUME NEW v \in Workers, NEW n \in held[v], Settle(v, n)
      PROVE  m \in held[w]
  BY <1>2, SettleMoves
<1>3. ASSUME NEW v \in Workers, Drop(v)
      PROVE  m \in held[w]
  BY <1>1, <1>3 DEF Drop
<1>4. ASSUME NEW v \in Workers, BrokerReceive(v)
      PROVE  \/ m \in held[w]
             \/ /\ m.id \in DOMAIN rows
                /\ rows[m.id].status = "available"
                /\ BrokerReceive(w)
  BY <1>1, <1>4, ReceiveMoves DEF Receives
<1>5. ASSUME \/ \E q \in Jobs : PublishJob(q)
             \/ \E i \in DOMAIN rows : BrokerLapse(i)
             \/ UNCHANGED queueVars
      PROVE  m \in held[w]
  BY <1>5 DEF PublishJob, Publish, BrokerLapse, queueVars
<1> QED
  BY <1>2, <1>3, <1>4, <1>5, BrokerMoves

\* A completed row stays completed: settlements need a good lock.
LEMMA CompletedStays ==
    ASSUME BrokerBase, [BrokerNext]_brokerVars, NEW i \in DOMAIN rows,
           rows[i].status = "completed"
    PROVE  rows'[i].status = "completed"
<1>1. BrokerQueueInv /\ rows \in Seq(Row)
  BY DEF BrokerBase, BrokerQueueInv, BrokerTypes
<1>2. ASSUME NEW q \in Jobs, PublishJob(q)
      PROVE  rows'[i].status = "completed"
  BY <1>1, <1>2, PublishAdds DEF PublishJob
<1>3. ASSUME NEW w \in Workers, NEW m \in held[w], Live(m), Settle(w, m)
      PROVE  rows'[i].status = "completed"
  BY <1>3, SettleMoves DEF Live
<1>4. ASSUME NEW w \in Workers, BrokerReceive(w)
      PROVE  rows'[i].status = "completed"
  BY <1>1, <1>4, ReceiveMoves DEF Receives
<1>5. ASSUME NEW k \in DOMAIN rows, BrokerLapse(k)
      PROVE  rows'[i].status = "completed"
  BY <1>5 DEF BrokerLapse
<1>6. ASSUME NEW w \in Workers, Drop(w)
      PROVE  rows'[i].status = "completed"
  BY <1>6 DEF Drop
<1> QED
  BY <1>2, <1>3, <1>4, <1>5, <1>6, BrokerMoves DEF queueVars

\* A message done with stays so.
LEMMA DoneWithStays ==
    ASSUME BrokerBase, [BrokerNext]_brokerVars, NEW r \in Jobs, DoneWith(r)
    PROVE  DoneWith(r)'
<1>1. PICK i \in DOMAIN rows : rows[i].body = r /\ rows[i].status = "completed"
  BY DEF DoneWith
<1>2. i \in DOMAIN rows' /\ rows'[i].body = r /\ rows'[i].status = "completed"
  BY <1>1, BrokerKeeps, CompletedStays
<1>3. ASSUME r \notin overlapped', NEW w \in Workers, NEW m \in held'[w]
      PROVE  rows'[m.id].body # r
  <2>1. CASE m \in held[w]
    <3>1. m.id \in DOMAIN rows /\ rows[m.id].body # r
      BY <1>3, <2>1, BrokerKeeps, DeliveryTypes DEF BrokerBase, DoneWith
    <3> QED
      BY <3>1, BrokerKeeps
  <2>2. CASE m.id \in DOMAIN rows /\ rows[m.id].status = "available"
    <3>1. rows[m.id].body # r
      BY <1>1, <2>2 DEF BrokerBase, BrokerQueueInv, UniqueBodies
    <3> QED
      BY <2>2, <3>1, BrokerKeeps
  <2> QED
    BY <2>1, <2>2, HeldBefore
<1> QED
  BY <1>2, <1>3 DEF DoneWith

\* A worker about to give a message back can only do that.
LEMMA AtAbandon ==
    ASSUME NEW w \in Workers, NEW m \in held[w], Process(w, m), wpc[w] = "abandon"
    PROVE  AbandonMessage(w, m)
BY DEF Process, Guard, GuardDuplicate, SkipComplete, UnknownTool, DeadLetterUnknown,
       Start, RunOk, RunFails, SettleRead, SettleCommit, CompleteMessage, Failure, At

\* A message that was given up stays so: what its last worker has left to do is to
\* abandon it, and everyone else's lock has lapsed.
LEMMA GivenUpStays ==
    ASSUME BrokerBase, [BrokerNext]_brokerVars, NEW r \in Jobs, gpc[r] = "done", GivenUp(r)
    PROVE  GivenUp(r)'
<1>1. BrokerQueueInv /\ rows \in Seq(Row) /\ MaxDelivery \in Nat
  BY QueueAssumption DEF BrokerBase, BrokerQueueInv, BrokerTypes
<1> DEFINE Over(i) == rows[i].count = MaxDelivery /\ rows[i].status \in {"locked", "dead_letter"}
<1>2. ASSUME NEW i \in DOMAIN rows, rows[i].body = r
      PROVE  Over(i)'
  <2>1. Over(i)
    BY <1>2 DEF GivenUp
  <2>2. rows[i] \in Row
    BY <1>1, BrokerRows
  <2>3. ASSUME NEW q \in Jobs, PublishJob(q)
        PROVE  rows'[i] = rows[i]
    BY <1>1, <2>3, PublishAdds DEF PublishJob
  <2>4. ASSUME NEW w \in Workers, NEW m \in held[w], Live(m), Process(w, m), Settle(w, m)
        PROVE  Over(i)'
    <3>1. CASE m.id = i
      <4>1. m.lock = MaxDelivery
        BY <2>1, <2>4, <3>1 DEF Live
      <4>2. wpc[w] = "abandon"
        BY <1>2, <3>1, <4>1 DEF GivenUp
      <4>3. Abandon(w, m)
        BY <2>4, <4>2, AtAbandon DEF AbandonMessage
      <4> QED
        BY <1>1, <2>1, <2>2, <3>1, <4>3 DEF Abandon, Row
    <3>2. CASE m.id # i
      BY <2>1, <2>4, <3>2, SettleMoves
    <3> QED
      BY <3>1, <3>2
  <2>5. ASSUME NEW w \in Workers, BrokerReceive(w)
        PROVE  rows'[i] = rows[i]
    BY <1>1, <2>1, <2>5, ReceiveMoves DEF Receives
  <2>6. ASSUME NEW k \in DOMAIN rows, BrokerLapse(k)
        PROVE  Over(i)'
    BY <1>1, <2>1, <2>2, <2>6 DEF BrokerLapse, Row
  <2>7. ASSUME NEW w \in Workers, SkipCommit(w) \/ WorkerAbort(w)
        PROVE  rows' = rows
    BY <2>7 DEF SkipCommit, WorkerAbort, Drop, queueVars
  <2>8. ASSUME NEW q \in Jobs, GatewayStep(q) \/ GatewayAbort(q)
        PROVE  PublishJob(q) \/ rows' = rows
    BY <2>8 DEF GatewayStep, GatewayAbort, Lookup, Reserve, PublishFails, Commit,
                CommitConflict, CommitDuplicate, queueVars
  <2>9. ASSUME UNCHANGED queueVars
        PROVE  rows' = rows
    BY <2>9 DEF queueVars
  <2>10. ASSUME UNCHANGED brokerVars
         PROVE  rows' = rows
    BY <2>10 DEF brokerVars, vars, queueVars
  <2> QED
    BY <2>1, <2>3, <2>4, <2>5, <2>6, <2>7, <2>8, <2>9, <2>10, BrokerSteps DEF Proceeds
<1>3. ASSUME NEW i \in DOMAIN rows', rows'[i].body = r
      PROVE  i \in DOMAIN rows
  <2>1. r \in Published' => r \in Published
    <3>1. ASSUME NEW q \in Jobs, PublishJob(q)
          PROVE  Published' = Published \cup {q} /\ q # r
      BY <1>1, <3>1, PublishAdds DEF PublishJob
    <3>2. ASSUME NEW w \in Workers, NEW m \in held[w], Settle(w, m)
          PROVE  Published' = Published
      BY <3>2, SettleMoves DEF Published
    <3>3. ASSUME NEW w \in Workers, Drop(w)
          PROVE  Published' = Published
      BY <3>3 DEF Drop, Published
    <3>4. ASSUME UNCHANGED queueVars
          PROVE  Published' = Published
      BY <3>4 DEF queueVars, Published
    <3> QED
      BY <3>1, <3>2, <3>3, <3>4, BrokerMoves, BrokerAddsNothing
  <2>2. r \in Published
    BY <1>3, <2>1 DEF Published
  <2>3. PICK k \in DOMAIN rows : rows[k].body = r
    BY <2>2, HasRow
  <2>4. k \in DOMAIN rows' /\ rows'[k].body = r
    BY <2>3, BrokerKeeps
  <2>5. i = k
    BY <1>3, <2>4, BrokerBaseStep DEF BrokerBase, BrokerQueueInv, UniqueBodies
  <2> QED
    BY <2>3, <2>5
<1>4. ASSUME NEW w \in Workers, NEW m \in held'[w], rows'[m.id].body = r, m.lock = MaxDelivery
      PROVE  IsHead(w, m)' /\ wpc'[w] = "abandon"
  <2>1. m \in held[w] /\ rows[m.id].body = r
    <3>1. CASE m \in held[w]
      BY <1>1, <1>4, <3>1, BrokerKeeps, DeliveryTypes
    <3>2. CASE m.id \in DOMAIN rows /\ rows[m.id].status = "available"
      BY <1>4, <3>2, BrokerKeeps DEF GivenUp
    <3> QED
      BY <3>1, <3>2, HeldBefore
  <2>2. IsHead(w, m) /\ wpc[w] = "abandon"
    BY <1>4, <2>1 DEF GivenUp
  <2>3. CASE Stays(w)
    BY <2>2, <2>3 DEF Stays, IsHead
  <2>4. CASE Rests(w)
    BY <1>4, <2>2, <2>4 DEF Rests
  <2>5. ASSUME NEW n \in held[w], Proceeds(w, n), IsHead(w, n)
        PROVE  FALSE
    <3>1. m = n
      BY <1>1, <2>1, <2>2, <2>5, OneHead
    <3>2. Abandon(w, n)
      BY <2>2, <2>5, AtAbandon DEF Proceeds, AbandonMessage
    <3> QED
      BY <1>4, <3>1, <3>2, SettleMoves DEF Settle
  <2> QED
    BY <2>3, <2>4, <2>5, WorkerMoves
<1>5. \A i \in DOMAIN rows' : rows'[i].body = r => Over(i)'
  BY <1>2, <1>3, BrokerKeeps
<1> QED
  BY <1>4, <1>5 DEF GivenUp

LEMMA JobsHaveKeysStep ==
    ASSUME EndsInv, [BrokerNext]_brokerVars
    PROVE  JobsHaveKeys'
<1> SUFFICES ASSUME NEW r \in Jobs
             PROVE  /\ HasJob(r)' => gpc'[r] = "done" /\ HasKey(r)'
                    /\ jobs'[r].status = "succeeded" => KeyRowOf(r)'.status = "completed"
  BY DEF JobsHaveKeys
<1>1. BrokerBase /\ PipelineTypes /\ KeyOf[r] \in Keys
  BY PipelineAssumption DEF EndsInv, BrokerBase
<1>2. /\ HasJob(r) => gpc[r] = "done" /\ HasKey(r)
      /\ jobs[r].status = "succeeded" => KeyRowOf(r).status = "completed"
  BY DEF EndsInv, EndsRest, JobsHaveKeys
<1>3. HasJob(r) => gpc'[r] = "done" /\ HasKey(r)'
  BY <1>1, <1>2, TablesGrow
<1>4. CASE jobs'[r] = jobs[r]
  BY <1>1, <1>2, <1>3, <1>4, TablesGrow DEF HasJob
<1>5. CASE Commit(r) /\ jobs'[r].status = "queued"
  <2>1. gpc'[r] = "done" /\ idem'[KeyOf[r]].status = "reserved"
    BY <1>1, <1>5 DEF Commit, Tell, GoTo, Key, PipelineTypes
  <2> QED
    BY <1>5, <2>1 DEF HasKey, KeyRowOf
<1>6. ASSUME NEW w \in Workers, SkipCommit(w), skipping[w].job = r, HasJob(r)
      PROVE  KeyRowOf(r)'.status = "completed"
  <2>1. KeyRowOf(r).status = "completed"
    BY <1>6 DEF EndsInv, EndsRest, SkipsKnow, SkipCommit
  <2> QED
    BY <1>1, <2>1, TablesGrow
<1>7. ASSUME NEW w \in Workers, NEW m \in held[w], WritesJob(w, m, r)
      PROVE  HasJob(r) /\ (jobs'[r].status = "succeeded" => KeyRowOf(r)'.status = "completed")
  <2>1. HasJob(r) /\ wpc[w] # "unknown"
    BY <1>7 DEF WritesJob, EndsInv, EndsRest, HeadsAreOpen
  <2>2. CASE SettleCommit(w, m)
    <3>1. idem' = [idem EXCEPT ![KeyOf[r]] = Key("completed", KeyRowOf(r).job, r)]
      BY <1>2, <1>7, <2>1, <2>2 DEF SettleCommit, WritesJob
    <3> QED
      BY <1>1, <2>1, <3>1 DEF KeyRowOf, Key, PipelineTypes
  <2>3. CASE ~SettleCommit(w, m)
    BY <1>7, <2>1, <2>3 DEF WritesJob, UnknownTool, At
  <2> QED
    BY <2>1, <2>2, <2>3
<1> QED
  BY <1>1, <1>3, <1>4, <1>5, <1>6, <1>7, JobWrites

LEMMA SkipsKnowStep ==
    ASSUME EndsInv, [BrokerNext]_brokerVars
    PROVE  SkipsKnow'
<1> DEFINE Knows(w) ==
        /\ wpc[w] \in {"skip", "skip_commit"} => KeyRowOf(skipping[w].job).status = "completed"
        /\ wpc[w] = "skip" =>
             \A m \in held[w] : IsHead(w, m) => rows[m.id].body = skipping[w].job
        /\ wpc[w] = "skip_commit" => DoneWith(skipping[w].job)
<1> SUFFICES ASSUME NEW w \in Workers
             PROVE  Knows(w)'
  BY DEF SkipsKnow
<1>1. BrokerBase /\ BrokerQueueInv /\ PipelineTypes
  BY DEF EndsInv, BrokerBase
<1>2. Knows(w)
  BY DEF EndsInv, EndsRest, SkipsKnow
<1>3. CASE Stays(w) /\ wpc[w] \in {"skip", "skip_commit"}
  <2>1. skipping[w].job \in Jobs
    BY <1>1, <1>3 DEF BrokerBase, SkippingKnown
  <2> PICK r \in Jobs : r = skipping[w].job
    BY <2>1
  <2>2. skipping'[w].job = r /\ wpc'[w] = wpc[w] /\ held'[w] = held[w]
    BY <1>3 DEF Stays
  <2>3. KeyRowOf(r)'.status = "completed"
    BY <1>1, <1>2, <1>3, TablesGrow
  <2>4. wpc[w] = "skip_commit" => DoneWith(r)'
    BY <1>1, <1>2, DoneWithStays
  <2>5. wpc[w] = "skip" => \A m \in held'[w] : IsHead(w, m)' => rows'[m.id].body = r
    <3>1. \A m \in held[w] : m.id \in DOMAIN rows
      BY <1>1, DeliveryTypes
    <3> QED
      BY <1>1, <1>2, <2>2, <3>1, BrokerKeeps DEF IsHead
  <2> QED
    BY <2>2, <2>3, <2>4, <2>5 DEF KeyRowOf, DoneWith
<1>4. CASE (Stays(w) /\ wpc[w] \notin {"skip", "skip_commit"}) \/ Rests(w)
  BY <1>4 DEF Stays, Rests
<1>5. ASSUME NEW n \in held[w], Proceeds(w, n), IsHead(w, n)
      PROVE  Knows(w)'
  <2>1. rows[n.id].body \in Jobs /\ n.id \in DOMAIN rows
    BY <1>1, DeliveryTypes
  <2> PICK r \in Jobs : r = rows[n.id].body
    BY <2>1
  <2>2. CASE GuardDuplicate(w, n)
    <3>1. /\ wpc'[w] = "skip" /\ skipping'[w].job = r
          /\ UNCHANGED <<rows, held, idem>>
          /\ KeyRowOf(r).status = "completed"
      BY <1>1, <2>2 DEF GuardDuplicate, Become, Skip, PipelineTypes, queueVars, tables
    <3>2. \A m \in held[w] : IsHead(w, m) => m = n
      BY <1>1, <1>5, OneHead
    <3> QED
      BY <3>1, <3>2 DEF KeyRowOf, IsHead
  <2>3. CASE SkipComplete(w, n)
    <3>1. /\ wpc[w] = "skip" /\ wpc'[w] = "skip_commit"
          /\ UNCHANGED <<skipping, idem>>
          /\ Complete(w, n)
      BY <1>1, <2>3 DEF SkipComplete, At, Become, PipelineTypes, tables
    <3>2. skipping[w].job = r /\ KeyRowOf(r).status = "completed"
      BY <1>2, <1>5, <3>1
    <3>3. rows'[n.id].status = "completed" /\ rows'[n.id].body = r /\ n.id \in DOMAIN rows'
      <4>1. rows[n.id] \in Row
        BY <1>1, DeliveryTypes
      <4> QED
        BY <2>1, <3>1, <4>1 DEF Complete, Row
    <3>4. ASSUME r \notin overlapped', NEW v \in Workers, NEW m \in held'[v]
          PROVE  rows'[m.id].body # r
      <4>1. /\ held'[w] = held[w] \ {n}
            /\ \A x \in Workers \ {w} : held'[x] = held[x]
        BY <1>1, <3>1, SettleMoves DEF Settle
      <4>2. m \in held[v] /\ (v # w \/ m # n) /\ r \notin overlapped
        BY <1>5, <3>4, <4>1 DEF Proceeds
      <4>3. rows[m.id].body # r /\ m.id \in DOMAIN rows
        BY <1>1, <4>2, SoleHolder, DeliveryTypes
      <4> QED
        BY <1>1, <4>3, BrokerKeeps
    <3>5. DoneWith(r)'
      BY <3>3, <3>4 DEF DoneWith
    <3> QED
      BY <3>1, <3>2, <3>5 DEF KeyRowOf, DoneWith
  <2>4. CASE ~(GuardDuplicate(w, n) \/ SkipComplete(w, n))
    <3>1. wpc'[w] \notin {"skip", "skip_commit"}
      BY <1>1, <1>5, <2>4
         DEF Proceeds, Process, Guard, UnknownTool, DeadLetterUnknown, Start, RunOk,
             RunFails, SettleRead, SettleCommit, CompleteMessage, Failure,
             AbandonMessage, Become, PipelineTypes
    <3> QED
      BY <3>1
  <2> QED
    BY <2>2, <2>3, <2>4
<1> QED
  BY <1>1, <1>3, <1>4, <1>5, WorkerMoves

LEMMA DeadWasLastStep ==
    ASSUME EndsInv, [BrokerNext]_brokerVars
    PROVE  DeadWasLast'
<1> SUFFICES ASSUME NEW r \in Jobs, jobs'[r].status = "dead_letter"
             PROVE  jobs'[r].attempts = MaxDelivery /\ GivenUp(r)'
  BY DEF DeadWasLast
<1>1. BrokerBase /\ BrokerQueueInv /\ PipelineTypes /\ MaxDelivery \in Nat
  BY QueueAssumption DEF EndsInv, BrokerBase
<1>2. CASE jobs'[r] = jobs[r]
  <2>1. jobs[r].attempts = MaxDelivery /\ GivenUp(r) /\ gpc[r] = "done"
    BY <1>2 DEF EndsInv, EndsRest, DeadWasLast, JobsHaveKeys, HasJob
  <2> QED
    BY <1>1, <1>2, <2>1, GivenUpStays
<1>3. ASSUME NEW w \in Workers, NEW m \in held[w], WritesJob(w, m, r)
      PROVE  jobs'[r].attempts = MaxDelivery /\ GivenUp(r)'
  <2>1. /\ Failure(w, m) /\ IsHead(w, m) /\ rows[m.id].body = r
        /\ m.count >= MaxDelivery /\ jobs'[r].attempts = m.count
    BY <1>3 DEF WritesJob, UnknownTool, At, EndsInv, EndsRest, HeadsAreOpen
  <2>2. /\ m.id \in DOMAIN rows
        /\ m.count = MaxDelivery /\ m.lock = MaxDelivery /\ rows[m.id].count = MaxDelivery
    <3>1. /\ m.id \in DOMAIN rows /\ m.count \in Nat /\ m.lock \in Nat
          /\ rows[m.id].count \in Nat
      BY <1>1, DeliveryTypes
    <3>2. m.count <= m.lock /\ m.lock <= rows[m.id].count /\ rows[m.id].count <= MaxDelivery
      BY <1>1, <3>1 DEF BrokerQueueInv, DeliveriesKnown, DeliveryBudget
    <3> QED
      BY <1>1, <2>1, <3>1, <3>2
  <2>3. rows[m.id].status \in {"locked", "dead_letter"}
    <3>1. rows[m.id].status \in Status
      BY <1>1, <2>2, BrokerRows DEF Row
    <3> QED
      BY <1>1, <2>2, <3>1 DEF Status, BrokerQueueInv, DeliveryBudget, LastIsOpen
  <2>4. UNCHANGED <<rows, held>> /\ wpc'[w] = "abandon"
    BY <1>1, <2>1 DEF Failure, Become, PipelineTypes, queueVars
  <2>5. \A i \in DOMAIN rows : rows[i].body = r => i = m.id
    BY <1>1, <2>1, <2>2 DEF BrokerQueueInv, UniqueBodies
  <2>6. ASSUME NEW v \in Workers, NEW n \in held[v], rows[n.id].body = r, n.lock = MaxDelivery
        PROVE  v = w /\ n = m
    <3>1. n.id = m.id
      BY <1>1, <2>5, <2>6, DeliveryTypes
    <3> QED
      BY <1>1, <2>2, <2>6, <3>1 DEF BrokerQueueInv, LocksDiffer
  <2>7. GivenUp(r)'
    BY <2>1, <2>2, <2>3, <2>4, <2>5, <2>6 DEF GivenUp, IsHead
  <2> QED
    BY <2>1, <2>2, <2>7
<1> QED
  BY <1>1, <1>2, <1>3, JobWrites

\* Where nobody overlaps, only the worker that has the message ends its job.
LEMMA WhoEnds ==
    ASSUME EndsInv, [BrokerNext]_brokerVars, NEW w \in Workers, NEW m \in held[w],
           NEW r \in Jobs, rows[m.id].body = r, r \notin overlapped, jobs'[r] # jobs[r]
    PROVE  \/ Commit(r) /\ jobs'[r].status = "queued"
           \/ WritesJob(w, m, r) /\ wpc[w] \in AtWork
<1>1. BrokerBase /\ BrokerQueueInv
  BY DEF EndsInv, BrokerBase
<1>2. ASSUME NEW v \in Workers, SkipCommit(v), skipping[v].job = r
      PROVE  FALSE
  BY <1>2 DEF SkipCommit, EndsInv, EndsRest, SkipsKnow, DoneWith
<1>3. ASSUME NEW v \in Workers, NEW n \in held[v], WritesJob(v, n, r)
      PROVE  WritesJob(w, m, r) /\ wpc[w] \in AtWork
  <2>1. v = w /\ n = m
    BY <1>1, <1>3, SoleHolder DEF WritesJob
  <2>2. wpc[w] \in AtWork
    BY <1>3, <2>1 DEF WritesJob, UnknownTool, Start, SettleCommit, Failure, At, AtWork,
                      EndsInv, EndsRest, HeadsAreOpen
  <2> QED
    BY <1>3, <2>1, <2>2
<1> QED
  BY <1>1, <1>2, <1>3, JobWrites

LEMMA HeadsAreOpenStep ==
    ASSUME EndsInv, Registered = Jobs, [BrokerNext]_brokerVars
    PROVE  HeadsAreOpen'
<1> SUFFICES ASSUME NEW w \in Workers, NEW m \in held'[w], IsHead(w, m)'
             PROVE  /\ wpc'[w] \notin {"unknown", "dead_letter"}
                    /\ wpc'[w] = "settle_found" => HasJob(rows[m.id].body)'
                    /\ wpc'[w] \in AtWork /\ rows'[m.id].body \notin overlapped' =>
                         ~Ended(rows[m.id].body)'
  BY DEF HeadsAreOpen
<1>1. BrokerBase /\ BrokerQueueInv /\ PipelineTypes
  BY DEF EndsInv, BrokerBase
<1>2. CASE Rests(w)
  BY <1>2 DEF Rests, AtWork
<1>3. ASSUME NEW r \in Jobs, m \in held[w], IsHead(w, m), m.id \in DOMAIN rows,
             rows[m.id].body = r,
             wpc'[w] \notin {"unknown", "dead_letter"},
             wpc'[w] = "settle_found" => HasJob(r)',
             wpc'[w] \in AtWork /\ r \notin overlapped' => ~Ended(r)'
      PROVE  /\ wpc'[w] \notin {"unknown", "dead_letter"}
             /\ wpc'[w] = "settle_found" => HasJob(rows[m.id].body)'
             /\ wpc'[w] \in AtWork /\ rows'[m.id].body \notin overlapped' =>
                  ~Ended(rows[m.id].body)'
  <2>1. rows'[m.id].body = r
    BY <1>1, <1>3, BrokerKeeps
  <2> QED
    BY <1>3, <2>1 DEF HasJob, Ended
<1>4. CASE Stays(w)
  <2>1. m \in held[w] /\ IsHead(w, m) /\ wpc'[w] = wpc[w]
    BY <1>4 DEF Stays, IsHead
  <2>2. m.id \in DOMAIN rows /\ rows[m.id].body \in Jobs
    BY <1>1, <2>1, DeliveryTypes
  <2> PICK r \in Jobs : r = rows[m.id].body
    BY <2>2
  <2>3. /\ wpc[w] \notin {"unknown", "dead_letter"}
        /\ wpc[w] = "settle_found" => HasJob(r)
        /\ wpc[w] \in AtWork /\ r \notin overlapped => ~Ended(r)
    BY <2>1 DEF EndsInv, EndsRest, HeadsAreOpen
  <2>4. ASSUME r \notin overlapped', wpc[w] \in AtWork
        PROVE  ~Ended(r)'
    <3>1. r \notin overlapped /\ ~Ended(r)
      BY <1>1, <2>3, <2>4, BrokerKeeps
    <3>2. CASE jobs'[r] = jobs[r]
      BY <3>1, <3>2 DEF Ended
    <3>3. CASE jobs'[r].status = "queued"
      BY <3>3 DEF Ended
    <3>4. CASE WritesJob(w, m, r)
      BY <1>1, <2>1, <3>4 DEF WritesJob, UnknownTool, Start, SettleCommit, Failure, At,
                              Become, PipelineTypes
    <3> QED
      BY <2>1, <3>1, <3>2, <3>3, <3>4, WhoEnds
  <2>5. HasJob(r) => HasJob(r)'
    BY <1>1, TablesGrow
  <2> QED
    BY <1>3, <2>1, <2>2, <2>3, <2>4, <2>5
<1>5. ASSUME NEW n \in held[w], Proceeds(w, n), IsHead(w, n)
      PROVE  /\ wpc'[w] \notin {"unknown", "dead_letter"}
             /\ wpc'[w] = "settle_found" => HasJob(rows[m.id].body)'
             /\ wpc'[w] \in AtWork /\ rows'[m.id].body \notin overlapped' =>
                  ~Ended(rows[m.id].body)'
  <2>1. n.id \in DOMAIN rows /\ rows[n.id].body \in Jobs /\ n.lock \in Nat
    BY <1>1, DeliveryTypes
  <2> PICK r \in Jobs : r = rows[n.id].body
    BY <2>1
  <2>2. wpc[w] \notin {"unknown", "dead_letter"}
    BY <1>5 DEF EndsInv, EndsRest, HeadsAreOpen
  <2>3. CASE UNCHANGED held
    <3>1. m = n
      BY <1>1, <1>5, <2>3, OneHead DEF IsHead
    <3>2. CASE Guard(w, n)
      <4>1. wpc[w] = "idle" /\ wpc'[w] = "start" /\ jobs' = jobs
        BY <1>1, <3>2 DEF Guard, At, Become, PipelineTypes, tables
      <4>2. ASSUME r \notin overlapped
            PROVE  ~Ended(r)
        <5>1. jobs[r].status # "succeeded"
          BY <3>2 DEF Guard, EndsInv, EndsRest, JobsHaveKeys
        <5>2. ASSUME jobs[r].status = "dead_letter"
              PROVE  FALSE
          <6>1. GivenUp(r)
            BY <5>2 DEF EndsInv, EndsRest, DeadWasLast
          <6>2. n.lock = MaxDelivery
            BY <1>1, <2>1, <4>2, <6>1 DEF GivenUp, BrokerQueueInv, OverlapsNoticed
          <6> QED
            BY <4>1, <6>1, <6>2 DEF GivenUp
        <5> QED
          BY <5>1, <5>2 DEF Ended
      <4>3. r \notin overlapped' => ~Ended(r)'
        BY <1>5, <4>1, <4>2 DEF Proceeds, Ended
      <4> QED
        BY <1>3, <1>5, <2>1, <3>1, <4>1, <4>3
    <3>3. CASE Start(w, n)
      <4>1. wpc'[w] = "run" /\ ~Ended(r)'
        <5>1. \/ HasJob(r) /\ jobs'[r].status = "running"
              \/ ~HasJob(r) /\ jobs' = jobs
          BY <1>1, <3>3 DEF Start, SetJob, Job, PipelineTypes
        <5> QED
          BY <1>1, <3>3, <5>1 DEF Start, Become, HasJob, Ended, PipelineTypes
      <4> QED
        BY <1>3, <1>5, <2>1, <3>1, <4>1
    <3>4. CASE RunOk(w, n) \/ RunFails(w, n) \/ SettleRead(w, n)
      <4>1. /\ jobs' = jobs
            /\ wpc[w] \in AtWork
            /\ wpc'[w] \notin {"unknown", "dead_letter"}
            /\ wpc'[w] = "settle_found" => HasJob(r)
        BY <1>1, <3>4 DEF RunOk, RunFails, SettleRead, At, Become, PipelineTypes, tables,
                          AtWork
      <4>2. r \notin overlapped => ~Ended(r)
        BY <1>5, <4>1 DEF EndsInv, EndsRest, HeadsAreOpen
      <4>3. r \notin overlapped' => ~Ended(r)'
        BY <1>5, <4>1, <4>2 DEF Proceeds, Ended
      <4>4. wpc'[w] = "settle_found" => HasJob(r)'
        BY <4>1 DEF HasJob
      <4> QED
        BY <1>3, <1>5, <2>1, <3>1, <4>1, <4>3, <4>4
    <3>5. CASE ~(Guard(w, n) \/ Start(w, n) \/ RunOk(w, n) \/ RunFails(w, n)
                 \/ SettleRead(w, n))
      <4>1. wpc'[w] \in {"skip", "skip_commit", "complete", "idle", "abandon"}
        BY <1>1, <1>5, <2>2, <3>5
           DEF Proceeds, Process, GuardDuplicate, SkipComplete, UnknownTool,
               DeadLetterUnknown, SettleCommit, CompleteMessage, Failure,
               AbandonMessage, At, Become, PipelineTypes
      <4> QED
        BY <4>1 DEF AtWork
    <3> QED
      BY <3>2, <3>3, <3>4, <3>5
  <2>4. CASE ~UNCHANGED held
    <3>1. wpc'[w] \in {"skip_commit", "idle"}
      BY <1>1, <1>5, <2>4
         DEF Proceeds, Process, Guard, GuardDuplicate, SkipComplete, UnknownTool,
             DeadLetterUnknown, Start, RunOk, RunFails, SettleRead, SettleCommit,
             CompleteMessage, Failure, AbandonMessage, Become, PipelineTypes, queueVars
    <3> QED
      BY <3>1 DEF AtWork
  <2> QED
    BY <2>3, <2>4
<1> QED
  BY <1>1, <1>2, <1>4, <1>5, WorkerMoves

LEMMA EndsInit == BrokerInit => EndsInv
BY BrokerBaseInit, PipelineAssumption
   DEF BrokerInit, Init, QueueInit, Job, Key, EndsInv, EndsRest, JobsHaveKeys, HasJob,
       SkipsKnow, HeadsAreOpen, DeadWasLast

LEMMA EndsStep == Registered = Jobs /\ EndsInv /\ [BrokerNext]_brokerVars => EndsInv'
BY BrokerBaseStep, JobsHaveKeysStep, SkipsKnowStep, HeadsAreOpenStep, DeadWasLastStep
   DEF EndsInv, EndsRest

\* An end state of a job nobody overlaps on is never rewritten.
LEMMA EndsStay ==
    ASSUME EndsInv, [BrokerNext]_brokerVars, NEW r \in Jobs, r \notin overlapped, Ended(r)
    PROVE  jobs'[r].status = jobs[r].status
<1>1. BrokerBase
  BY DEF EndsInv
<1>2. gpc[r] = "done"
  BY DEF EndsInv, EndsRest, JobsHaveKeys, HasJob, Ended
<1>3. ~Commit(r)
  BY <1>2 DEF Commit
<1>4. ASSUME NEW w \in Workers, SkipCommit(w), skipping[w].job = r,
             jobs'[r].status = "succeeded"
      PROVE  jobs'[r].status = jobs[r].status
  <2>1. PICK i \in DOMAIN rows : rows[i].body = r /\ rows[i].status = "completed"
    BY <1>4 DEF SkipCommit, EndsInv, EndsRest, SkipsKnow, DoneWith
  <2>2. jobs[r].status # "dead_letter"
    BY <2>1 DEF EndsInv, EndsRest, DeadWasLast, GivenUp
  <2> QED
    BY <1>4, <2>2 DEF Ended
<1>5. ASSUME NEW w \in Workers, NEW m \in held[w], WritesJob(w, m, r)
      PROVE  FALSE
  BY <1>5 DEF WritesJob, UnknownTool, Start, SettleCommit, Failure, At, AtWork,
              EndsInv, EndsRest, HeadsAreOpen
<1> QED
  BY <1>1, <1>3, <1>4, <1>5, JobWrites

\* Over the broker too, a job is reported dead for a failing tool after its last delivery
\* only, and its message is never handed out again; where the worker's registry has every
\* tool the gateway lets through.
THEOREM BrokerGivesUpForGood ==
    ASSUME Registered = Jobs
    PROVE  BrokerSpec => []GivingUpIsFinal
<1>1. EndsInv => GivingUpIsFinal
  BY DEF EndsInv, EndsRest, DeadWasLast, GivenUp, GivingUpIsFinal, RowsOf
<1> QED
  BY <1>1, EndsInit, EndsStep, PTL DEF BrokerSpec

\* No crash, redelivery or refused settlement takes an end state back: only a worker whose
\* message was delivered to another meanwhile can; where the worker's registry has every
\* tool the gateway lets through.
THEOREM BrokerEndsStay ==
    ASSUME Registered = Jobs
    PROVE  BrokerSpec => OnlyOverlapsTakeBack
<1> DEFINE Stay == \A r \in Jobs \ overlapped :
             jobs[r].status \in {"succeeded", "dead_letter"} =>
                 jobs'[r].status = jobs[r].status
<1>1. EndsInv /\ [BrokerNext]_brokerVars => Stay
  BY EndsStay DEF Ended
<1> QED
  BY <1>1, EndsInit, EndsStep, PTL DEF BrokerSpec, OnlyOverlapsTakeBack
=============================================================================
