----------------------------- MODULE LocalQueue -----------------------------
(***************************************************************************)
(* The table-backed message queue of packages/servicebus/local.py: the     *)
(* queue_messages table, the receive transaction of each worker and the    *)
(* messages each worker has claimed and not settled yet.                   *)
(*                                                                         *)
(* Every method but receive is one short transaction, hence one action.    *)
(* receive selects rows and writes them back at commit; what other         *)
(* sessions may do in between depends on the database, so it is two        *)
(* actions.  RowLocks says whether SELECT ... FOR UPDATE SKIP LOCKED locks *)
(* rows (PostgreSQL) or is dropped by the dialect (SQLite).                *)
(*                                                                         *)
(* A message body is identified with the job it carries: the gateway       *)
(* publishes a body once, under a job id made for that publish.            *)
(***************************************************************************)
EXTENDS Integers, Sequences, FiniteSets

CONSTANTS
    Jobs,         \* message bodies, one per job id
    Workers,      \* the worker processes that call receive
    MaxDelivery,  \* max_delivery_count
    BatchSize,    \* max_messages of one receive
    RowLocks      \* TRUE: PostgreSQL, FALSE: SQLite

ASSUME QueueAssumption ==
    /\ MaxDelivery \in Nat \ {0}
    /\ BatchSize \in Nat \ {0}
    /\ RowLocks \in BOOLEAN

VARIABLES
    rows,     \* the queue_messages table in id order; a row's id is its index
    reading,  \* per worker: rows its open receive transaction has selected
    held      \* per worker: claimed messages it has not settled

queueVars == <<rows, reading, held>>

Status == {"available", "locked", "completed", "dead_letter"}

Row == [body: Jobs, status: Status, count: Nat, visible: BOOLEAN]

\* What receive returns for a row: its id (the handle) and delivery count.
Message == [id: Nat \ {0}, count: Nat]

QueueInit ==
    /\ rows = <<>>
    /\ reading = [w \in Workers |-> {}]
    /\ held = [w \in Workers |-> {}]

-----------------------------------------------------------------------------
\* publish: insert an available row, visible from now on.
Publish(b) ==
    /\ rows' = Append(rows, [body |-> b, status |-> "available",
                             count |-> 0, visible |-> TRUE])
    /\ UNCHANGED <<reading, held>>

\* Wrong: a lapsed lock puts the row in reach of receive again, as in a broker,
\* though its holder may still be at work.
LapsedIsReceivable(i) == rows[i].status \in {"available", "locked"} /\ rows[i].visible

Receivable(i) == rows[i].status = "available" /\ rows[i].visible

\* Wrong: the rows of other receive transactions are not passed over.
NothingSkipped(w) == {}

\* Rows that SKIP LOCKED passes over: another receive transaction has them.
SkipLocked(w) ==
    IF RowLocks
    THEN {m.id : m \in UNION {reading[v] : v \in Workers \ {w}}}
    ELSE {}

Candidates(w) == {i \in DOMAIN rows : Receivable(i)} \ SkipLocked(w)

\* Wrong: one row more than the limit.
FirstAndOneMore(S) == {i \in S : Cardinality({j \in S : j < i}) <= BatchSize}

\* ORDER BY id LIMIT max_messages
FirstOf(S) == {i \in S : Cardinality({j \in S : j < i}) < BatchSize}

\* The SELECT of receive: the oldest eligible rows, as they are now.  An empty
\* result changes nothing and is not a step.
ReceiveSelect(w) ==
    /\ reading[w] = {}
    /\ Candidates(w) # {}
    /\ reading' = [reading EXCEPT ![w] =
           {[id |-> i, count |-> rows[i].count] : i \in FirstOf(Candidates(w))}]
    /\ UNCHANGED <<rows, held>>

\* Wrong: the delivery is not counted in the table.
ClaimedUncounted(row, m) ==
    [body |-> row.body, status |-> "locked", count |-> m.count, visible |-> FALSE]

\* A row as receive writes it, having read message m from it.
Claimed(row, m) ==
    [body |-> row.body, status |-> "locked", count |-> m.count + 1, visible |-> FALSE]

\* The commit of receive: every selected row is written back as locked, with
\* the count that was READ plus one, and its message handed to the caller.
ReceiveCommit(w) ==
    /\ reading[w] # {}
    /\ rows' = [i \in DOMAIN rows |->
           IF \E m \in reading[w] : m.id = i
           THEN Claimed(rows[i], CHOOSE m \in reading[w] : m.id = i)
           ELSE rows[i]]
    /\ held' = [held EXCEPT ![w] =
           @ \cup {[m EXCEPT !.count = @ + 1] : m \in reading[w]}]
    /\ reading' = [reading EXCEPT ![w] = {}]

Unhold(w, m) == held' = [held EXCEPT ![w] = @ \ {m}]

Complete(w, m) ==
    /\ rows' = [rows EXCEPT ![m.id].status = "completed"]
    /\ Unhold(w, m)
    /\ UNCHANGED reading

\* Wrong: one delivery too many before the message is dead.
AbandonLate(w, m) ==
    /\ \/ /\ rows[m.id].count > MaxDelivery
          /\ rows' = [rows EXCEPT ![m.id].status = "dead_letter"]
       \/ /\ rows[m.id].count <= MaxDelivery
          /\ rows' = [rows EXCEPT ![m.id].status = "available",
                                  ![m.id].visible = TRUE]
    /\ Unhold(w, m)
    /\ UNCHANGED reading

\* abandon decides on the count in the TABLE, not on the one in the message.
Abandon(w, m) ==
    /\ \/ /\ rows[m.id].count >= MaxDelivery
          /\ rows' = [rows EXCEPT ![m.id].status = "dead_letter"]
       \/ /\ rows[m.id].count < MaxDelivery
          /\ rows' = [rows EXCEPT ![m.id].status = "available",
                                  ![m.id].visible = TRUE]
    /\ Unhold(w, m)
    /\ UNCHANGED reading

\* Wrong: a status no query looks for.
DeadLetterMisspelt(w, m) ==
    /\ rows' = [rows EXCEPT ![m.id].status = "dead-letter"]
    /\ Unhold(w, m)
    /\ UNCHANGED reading

DeadLetter(w, m) ==
    /\ rows' = [rows EXCEPT ![m.id].status = "dead_letter"]
    /\ Unhold(w, m)
    /\ UNCHANGED reading

\* The worker loses what it had in memory: the process dies, or an exception
\* leaves its loop over the batch.  An open receive transaction rolls back.
Drop(w) ==
    /\ held[w] # {} \/ reading[w] # {}
    /\ held' = [held EXCEPT ![w] = {}]
    /\ reading' = [reading EXCEPT ![w] = {}]
    /\ UNCHANGED rows

\* Time passes visible_at of a locked row.
LockLapse(i) ==
    /\ rows[i].status = "locked"
    /\ ~rows[i].visible
    /\ rows' = [rows EXCEPT ![i].visible = TRUE]
    /\ UNCHANGED <<reading, held>>

-----------------------------------------------------------------------------
Published == {rows[i].body : i \in DOMAIN rows}

Settle(w, m) == Complete(w, m) \/ Abandon(w, m) \/ DeadLetter(w, m)

QueueNext ==
    \/ \E b \in Jobs \ Published : Publish(b)
    \/ \E w \in Workers :
         \/ ReceiveSelect(w)
         \/ ReceiveCommit(w)
         \/ \E m \in held[w] : Settle(w, m)
         \/ Drop(w)
    \/ \E i \in DOMAIN rows : LockLapse(i)

QueueSpec == QueueInit /\ [][QueueNext]_queueVars

\* A worker that can receive does (run_forever polls again after an empty or a
\* failed poll), and settles what it holds; time passes.  Receive commits if it
\* is tried for ever: crashes do not always fall inside its transaction.
QueueFairness ==
    /\ \A w \in Workers :
         /\ WF_queueVars(ReceiveSelect(w))
         /\ SF_queueVars(ReceiveCommit(w))
         /\ WF_queueVars(\E m \in held[w] : Settle(w, m))
    /\ WF_queueVars(\E i \in DOMAIN rows : LockLapse(i))

FairQueueSpec == QueueSpec /\ QueueFairness

-----------------------------------------------------------------------------
\* Type correctness of the table, the open transactions and the claims.
QueueTypeOK ==
    /\ rows \in Seq(Row)
    /\ reading \in [Workers -> SUBSET Message]
    /\ held \in [Workers -> SUBSET Message]

\* A claimed message is in the hands of one worker, once (the "atomically
\* claims" of receive): two workers never process one row at the same time.
SingleHolder ==
    \A v, w \in Workers : \A m \in held[v], n \in held[w] :
        m.id = n.id => v = w /\ m = n

\* A claim and its row agree: whatever a worker still holds is locked in the
\* table, under the delivery count the worker was told.  The worker's verdict
\* (by message.delivery_count) and abandon's (by row.delivery_count) rely on it.
ClaimsMatchRows ==
    \A w \in Workers : \A m \in held[w] :
        /\ m.id \in DOMAIN rows
        /\ rows[m.id].status = "locked"
        /\ rows[m.id].count = m.count

\* No row is handed out more than max_delivery_count times, and a row that can
\* be handed out again has a delivery left.
DeliveryBudget ==
    \A i \in DOMAIN rows :
        /\ rows[i].count <= MaxDelivery
        /\ rows[i].status = "available" => rows[i].count < MaxDelivery

\* A settled row is never claimed, released or settled otherwise again, and no
\* row is ever removed or renumbered.
SettledIsFinal ==
    [][\A i \in DOMAIN rows :
         /\ i \in DOMAIN rows'
         /\ rows'[i].body = rows[i].body
         /\ rows[i].status \in {"completed", "dead_letter"} =>
              rows'[i].status = rows[i].status]_queueVars

HeldIds == {m.id : m \in UNION {held[w] : w \in Workers}}

\* Every published message ends settled, or locked with no worker behind it:
\* retries and competing workers starve no message.
MessagesDrain ==
    \A b \in Jobs :
        b \in Published ~>
            \E i \in DOMAIN rows :
                /\ rows[i].body = b
                /\ \/ rows[i].status \in {"completed", "dead_letter"}
                   \/ rows[i].status = "locked" /\ i \notin HeldIds

\* docs/observability.md: when a worker dies mid-process "the lock lapses and
\* the message is redelivered".
LapsedIsRedelivered ==
    \A b \in Jobs :
        (\E i \in DOMAIN rows :
            /\ rows[i].body = b
            /\ rows[i].status = "locked"
            /\ rows[i].visible
            /\ i \notin HeldIds)
        ~> (\E i \in DOMAIN rows : rows[i].body = b /\ rows[i].status # "locked")

-----------------------------------------------------------------------------
\* How the abstract queue sees the table: the row of a message, where a row's
\* status and its holders put the message, who has it, how often it was taken.
RowOf(j) == CHOOSE i \in DOMAIN rows : rows[i].body = j

PlaceOf(i) ==
    CASE rows[i].status = "available"   -> "waiting"
      [] rows[i].status = "completed"   -> "done"
      [] rows[i].status = "dead_letter" -> "dead"
      [] OTHER -> IF i \in HeldIds THEN "held" ELSE "lost"

place == [j \in Jobs |-> IF j \in Published THEN PlaceOf(RowOf(j)) ELSE "unsent"]

holders ==
    [j \in Jobs |-> {w \in Workers : \E m \in held[w] : rows[m.id].body = j}]

taken == [j \in Jobs |-> IF j \in Published THEN rows[RowOf(j)].count ELSE 0]

AbstractQueue == INSTANCE WorkQueue WITH
    place <- place, holders <- holders, taken <- taken

\* The table-backed queue implements the abstract one: batches, open receive
\* transactions and abandon's two outcomes are its steps or invisible to it.
ImplementsWorkQueue == AbstractQueue!Spec
=============================================================================
