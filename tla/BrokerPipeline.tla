--------------------------- MODULE BrokerPipeline ---------------------------
(***************************************************************************)
(* The asynchronous route over Azure Service Bus: the gateway and the      *)
(* worker of AsyncPipeline with the queue of packages/servicebus/          *)
(* azure_bus.py.  The broker is outside the repository; it is modelled     *)
(* from what azure_bus.py asks of it (peek-lock, redelivery, dead-letter   *)
(* beyond MaxDeliveryCount) and from infra/terraform/main.tf (locks of 30  *)
(* seconds that nothing renews).                                           *)
(*                                                                         *)
(* rows is the broker's queue.  A lock lapses whether or not the worker    *)
(* that has the message is still at it; the worker finds out when it       *)
(* settles.  The receiver was closed before the worker got its messages,   *)
(* so the SDK may refuse any settlement.                                   *)
(***************************************************************************)
EXTENDS AsyncPipeline

CONSTANT Uncounted  \* deliveries the SDK's delivery_count may leave out

ASSUME UncountedAssumption == Uncounted \subseteq {0, 1} /\ Uncounted # {}

VARIABLE overlapped  \* messages delivered while another worker had them

brokerVars == <<vars, overlapped>>

BrokerInit == Init /\ overlapped = {}

Unlocked == {i \in DOMAIN rows : rows[i].status = "available"}

\* delivery_count or 1
Reported(n) == IF n = 0 THEN 1 ELSE n

\* A message as receive returns it; lock is the token of this delivery.
Delivered(i, u) == [id |-> i, count |-> Reported(rows[i].count + 1 - u),
                    lock |-> rows[i].count + 1]

\* The lock of a delivery is good until it lapses or the message is settled.
Live(m) == rows[m.id].status = "locked" /\ rows[m.id].count = m.lock

\* receive_messages: some waiting messages, locked and counted by the broker.
BrokerReceive(w) ==
    /\ wpc[w] = "idle"
    /\ held[w] = {}
    /\ \E S \in SUBSET Unlocked, u \in Uncounted :
         /\ S # {} /\ Cardinality(S) <= BatchSize
         /\ held' = [held EXCEPT ![w] = {Delivered(i, u) : i \in S}]
         /\ rows' = [i \in DOMAIN rows |->
                IF i \in S THEN [rows[i] EXCEPT !.status = "locked", !.count = @ + 1]
                ELSE rows[i]]
         /\ overlapped' = overlapped \cup {rows[i].body : i \in S \cap HeldIds}
    /\ UNCHANGED <<reading, tables, gatewayVars, workerVars>>

\* Wrong: a settlement takes effect though its lock has lapsed.
BrokerSettleLapsed(w, m) ==
    /\ SkipComplete(w, m) \/ DeadLetterUnknown(w, m)
       \/ CompleteMessage(w, m) \/ AbandonMessage(w, m)
    /\ UNCHANGED overlapped

\* A settlement under a good lock; abandon leaves the count to the broker.
BrokerSettle(w, m) ==
    /\ Live(m)
    /\ SkipComplete(w, m) \/ DeadLetterUnknown(w, m)
       \/ CompleteMessage(w, m) \/ AbandonMessage(w, m)
    /\ UNCHANGED overlapped

\* The SDK raises: the lock is gone or the receiver is closed.  The exception
\* leaves the batch, and an open guard transaction rolls back.
BrokerRefuses(w, m) ==
    /\ \E pc \in {"skip", "dead_letter", "complete", "abandon"} : At(w, m, pc)
    /\ WorkerAbort(w)
    /\ UNCHANGED overlapped

\* The steps of _process that do not touch the queue.
Work(w, m) ==
    /\ \/ Guard(w, m)
       \/ GuardDuplicate(w, m)
       \/ UnknownTool(w, m)
       \/ Start(w, m)
       \/ RunOk(w, m)
       \/ RunFails(w, m)
       \/ SettleRead(w, m)
       \/ SettleCommit(w, m)
       \/ Failure(w, m)
    /\ UNCHANGED overlapped

\* Wrong: the last delivery's lock is never released.
BrokerLapseBelowLimit(i) ==
    /\ rows[i].status = "locked"
    /\ rows[i].count < MaxDelivery
    /\ rows' = [rows EXCEPT ![i].status = "available"]
    /\ UNCHANGED <<reading, held, tables, gatewayVars, workerVars, overlapped>>

\* The broker releases a lock nobody settled in time: redelivery, or the
\* dead-letter queue when the deliveries are used up.
BrokerLapse(i) ==
    /\ rows[i].status = "locked"
    /\ rows' = [rows EXCEPT ![i].status =
           IF rows[i].count < MaxDelivery THEN "available" ELSE "dead_letter"]
    /\ UNCHANGED <<reading, held, tables, gatewayVars, workerVars, overlapped>>

BrokerGateway(r) == (GatewayStep(r) \/ GatewayAbort(r)) /\ UNCHANGED overlapped

BrokerWorker(w) ==
    \/ SkipCommit(w) /\ UNCHANGED overlapped
    \/ \E m \in held[w] : Work(w, m) \/ BrokerSettle(w, m) \/ BrokerRefuses(w, m)

BrokerNext ==
    \/ \E r \in Jobs : BrokerGateway(r)
    \/ \E w \in Workers :
         \/ BrokerReceive(w)
         \/ BrokerWorker(w)
         \/ WorkerAbort(w) /\ UNCHANGED overlapped
    \/ \E i \in DOMAIN rows : BrokerLapse(i)

\* The worker polls and goes on with its batch; the broker's clock runs.
BrokerFairness ==
    /\ \A w \in Workers : WF_brokerVars(BrokerReceive(w)) /\ WF_brokerVars(BrokerWorker(w))
    /\ WF_brokerVars(\E i \in DOMAIN rows : BrokerLapse(i))

BrokerSpec == BrokerInit /\ [][BrokerNext]_brokerVars
FairBrokerSpec == BrokerSpec /\ BrokerFairness

-----------------------------------------------------------------------------
\* The idempotency guard on a broker that redelivers: once the success of a
\* message is committed to its key, its tool does not succeed again, unless a
\* lapsed lock had put the message in two workers' hands at the same time.
NoRunAfterSuccess ==
    [][\A r \in Jobs :
         /\ executed'[r] > executed[r]
         /\ KeyRowOf(r).status = "completed"
         /\ KeyRowOf(r).result = r
         => r \in overlapped]_brokerVars

\* A job leaves succeeded or dead_letter only by the late write of a worker
\* whose message was delivered to another meanwhile; crashes, redeliveries and
\* refused settlements alone never take an end state back.
OnlyOverlapsTakeBack ==
    [][\A r \in Jobs \ overlapped :
         jobs[r].status \in {"succeeded", "dead_letter"} =>
             jobs'[r].status = jobs[r].status]_brokerVars

\* Every published message ends completed or dead in the broker, whatever
\* workers die or settle too late: locks lapse, and deliveries run out.
EveryMessageSettles ==
    \A r \in Jobs :
        r \in Published ~>
            \E i \in RowsOf(r) : rows[i].status \in {"completed", "dead_letter"}

\* How the abstract queue sees the broker: a consumer has a message as long as its
\* lock is good, whatever it still has in memory.
LockHolders(i) == {w \in Workers : \E m \in held[w] : m.id = i /\ Live(m)}

BrokerPlaceOf(i) ==
    CASE rows[i].status = "available"   -> "waiting"
      [] rows[i].status = "completed"   -> "done"
      [] rows[i].status = "dead_letter" -> "dead"
      [] OTHER -> IF LockHolders(i) = {} THEN "lost" ELSE "held"

brokerPlace ==
    [j \in Jobs |-> IF j \in Published THEN BrokerPlaceOf(RowOf(j)) ELSE "unsent"]

lockHolders == [j \in Jobs |-> IF j \in Published THEN LockHolders(RowOf(j)) ELSE {}]

BrokerQueue == INSTANCE WorkQueue WITH
    place <- brokerPlace, holders <- lockHolders, taken <- taken

\* Under worker and gateway, the second backend keeps the promises of
\* MessageQueue: one consumer with a good lock, bounded deliveries, and nothing
\* a late worker does disturbs a message that is another's or settled.
BrokerImplementsWorkQueue == BrokerQueue!Spec
=============================================================================
