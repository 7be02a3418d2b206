------------------------- MODULE AsyncPipelineProofs -------------------------
(***************************************************************************)
(* Theorems about AsyncPipeline, for any requests, keys, workers, batch    *)
(* size and delivery limit, with every crash and race the module allows.   *)
(***************************************************************************)
EXTENDS AsyncPipeline, LocalQueueProofs

Early == {"start", "reserve", "publish"}

\* The gateway publishes a body once: it has not before it does.
UnpublishedYet ==
    \A r \in Jobs : gpc[r] \in Early => r \notin Published

PipelineTypes ==
    /\ idem \in [Keys -> KeyRow]
    /\ jobs \in [Jobs -> JobRow]
    /\ gpc \in [Jobs -> GatewayPc]
    /\ answer \in [Jobs -> [decision: Decision, job: JobOrNone]]
    /\ wpc \in [Workers -> WorkerPc]
    /\ skipping \in [Workers -> [job: JobOrNone, result: JobOrNone]]
    /\ executed \in [Jobs -> Nat]
    /\ audited \subseteq Jobs

\* The guard's transaction is about some job.
SkippingKnown ==
    \A w \in Workers : wpc[w] \in {"skip", "skip_commit"} => skipping[w].job \in Jobs

BaseInv == TypeInv /\ PipelineTypes /\ UnpublishedYet /\ SkippingKnown

\* The message a worker processes, if it processes any.
IsHead(w, m) == \A n \in held[w] : m.id <= n.id

\* What is true over either queue, the database's or the broker's: the messages a
\* worker has are of rows.
SharedInv ==
    /\ rows \in Seq(Row)
    /\ reading = [w \in Workers |-> reading[w]]
    /\ held = [w \in Workers |-> held[w]]
    /\ \A w \in Workers : \A m \in held[w] : m.id \in DOMAIN rows /\ m.count \in Nat
    /\ PipelineTypes
    /\ UnpublishedYet
    /\ SkippingKnown

LEMMA BaseIsShared == BaseInv => SharedInv
BY DEF BaseInv, TypeInv, QueueTypeOK, HandlesExist, Message, SharedInv

\* The steps of the gateway and the worker that are the same over either queue.
SharedNext ==
    \/ \E r \in Jobs : GatewayStep(r) \/ GatewayAbort(r)
    \/ \E w \in Workers :
         \/ SkipCommit(w)
         \/ WorkerAbort(w)
         \/ \E m \in held[w] : Process(w, m)

-----------------------------------------------------------------------------
(* The pipeline's steps, seen from the queue. *)

\* A step of a worker on a message it is processing.
LEMMA ProcessIsQueueStep ==
    ASSUME NEW w \in Workers, NEW m \in held[w], Process(w, m)
    PROVE  Settle(w, m) \/ UNCHANGED queueVars
BY DEF Process, Guard, GuardDuplicate, SkipComplete, UnknownTool, DeadLetterUnknown,
       Start, RunOk, RunFails, SettleRead, SettleCommit, CompleteMessage, Failure,
       AbandonMessage, Settle

\* A worker processes the first message it holds.
LEMMA HeadProcessed ==
    ASSUME NEW w \in Workers, NEW m \in held[w], Process(w, m)
    PROVE  IsHead(w, m)
BY DEF Process, Guard, GuardDuplicate, SkipComplete, UnknownTool, DeadLetterUnknown,
       Start, RunOk, RunFails, SettleRead, SettleCommit, CompleteMessage, Failure,
       AbandonMessage, At, IsHead

\* A step of the queue that publishes nothing.
QuietNext ==
    \/ \E w \in Workers :
         \/ ReceiveSelect(w)
         \/ ReceiveCommit(w)
         \/ \E m \in held[w] : Settle(w, m)
         \/ Drop(w)
    \/ \E i \in DOMAIN rows : LockLapse(i)

\* A step of the pipeline publishes, or is a quiet step of the queue or none.
LEMMA PipelineStep ==
    ASSUME [Next]_vars
    PROVE  (\E r \in Jobs : PublishJob(r)) \/ [QuietNext]_queueVars
<1>1. ASSUME NEW r \in Jobs, GatewayStep(r) \/ GatewayAbort(r)
      PROVE  PublishJob(r) \/ UNCHANGED queueVars
  BY <1>1 DEF GatewayStep, GatewayAbort, Lookup, Reserve, PublishFails, Commit,
              CommitConflict, CommitDuplicate
<1>2. ASSUME NEW w \in Workers, Poll(w) \/ Claim(w) \/ SkipCommit(w) \/ WorkerAbort(w)
      PROVE  [QuietNext]_queueVars
  BY <1>2 DEF Poll, Claim, SkipCommit, WorkerAbort, QuietNext
<1>3. ASSUME NEW w \in Workers, NEW m \in held[w], Process(w, m)
      PROVE  [QuietNext]_queueVars
  BY <1>3, ProcessIsQueueStep DEF QuietNext
<1>4. ASSUME NEW i \in DOMAIN rows, Lapse(i)
      PROVE  [QuietNext]_queueVars
  BY <1>4 DEF Lapse, QuietNext
<1>5. ASSUME UNCHANGED vars
      PROVE  [QuietNext]_queueVars
  BY <1>5 DEF vars
<1> QED
  BY <1>1, <1>2, <1>3, <1>4, <1>5 DEF Next

\* A step of the pipeline is shared, or the queue's alone.
LEMMA NextIsShared ==
    ASSUME [Next]_vars
    PROVE  \/ SharedNext
           \/ [QuietNext]_queueVars /\ UNCHANGED <<tables, gatewayVars, workerVars>>
<1>1. ASSUME NEW w \in Workers, Poll(w) \/ Claim(w)
      PROVE  QuietNext /\ UNCHANGED <<tables, gatewayVars, workerVars>>
  BY <1>1 DEF Poll, Claim, QuietNext
<1>2. ASSUME NEW i \in DOMAIN rows, Lapse(i)
      PROVE  QuietNext /\ UNCHANGED <<tables, gatewayVars, workerVars>>
  BY <1>2 DEF Lapse, QuietNext
<1>3. CASE UNCHANGED vars
  BY <1>3 DEF vars
<1> QED
  BY <1>1, <1>2, <1>3 DEF Next, SharedNext

\* A step of the pipeline is a step of the queue or leaves it alone.
LEMMA QueueStep ==
    ASSUME UnpublishedYet, [Next]_vars
    PROVE  [QueueNext]_queueVars
<1>1. ASSUME NEW r \in Jobs, PublishJob(r)
      PROVE  QueueNext
  BY <1>1 DEF PublishJob, UnpublishedYet, QueueNext, Early
<1> QED
  BY <1>1, PipelineStep DEF QuietNext, QueueNext

\* Bodies never change, and only Publish adds one.
LEMMA PublishAdds ==
    ASSUME rows \in Seq(Row), NEW b \in Jobs, Publish(b)
    PROVE  /\ rows' \in Seq(Row)
           /\ DOMAIN rows \subseteq DOMAIN rows'
           /\ \A i \in DOMAIN rows : rows'[i] = rows[i]
           /\ Published' = Published \cup {b}
<1> DEFINE r == [body |-> b, status |-> "available", count |-> 0, visible |-> TRUE]
<1>1. r \in Row
  BY DEF Row, Status
<1>2. rows' = Append(rows, r)
  BY DEF Publish
<1>3. /\ DOMAIN rows' = DOMAIN rows \cup {Len(rows) + 1}
      /\ \A i \in DOMAIN rows : rows'[i] = rows[i]
      /\ rows'[Len(rows) + 1] = r
      /\ rows' \in Seq(Row)
  BY <1>1, <1>2
<1> QED
  BY <1>3 DEF Published

\* A quiet step inserts no row and changes no body.
LEMMA QuietAddsNothing ==
    ASSUME TypeInv, [QuietNext]_queueVars
    PROVE  /\ DOMAIN rows' = DOMAIN rows
           /\ \A i \in DOMAIN rows : rows'[i].body = rows[i].body
           /\ Published' = Published
<1>1. \A i \in DOMAIN rows : rows[i] \in Row
  BY TableRows DEF TypeInv, QueueTypeOK
<1>2. ASSUME NEW w \in Workers, ReceiveCommit(w)
      PROVE  /\ DOMAIN rows' = DOMAIN rows
             /\ \A i \in DOMAIN rows : rows'[i].body = rows[i].body
  <2>1. \A i \in DOMAIN rows :
           \/ rows'[i] = rows[i]
           \/ \E m \in reading[w] : rows'[i] = Claimed(rows[i], m)
    BY <1>2, ReceiveCommitRows
  <2>2. DOMAIN rows' = DOMAIN rows
    BY <1>2, ReceiveCommitRows
  <2> QED
    BY <2>1, <2>2 DEF Claimed
<1>3. ASSUME NEW w \in Workers, NEW m \in held[w], Settle(w, m)
      PROVE  /\ DOMAIN rows' = DOMAIN rows
             /\ \A i \in DOMAIN rows : rows'[i].body = rows[i].body
  BY <1>1, <1>3 DEF Settle, Complete, Abandon, DeadLetter, Row
<1>4. ASSUME NEW k \in DOMAIN rows, LockLapse(k)
      PROVE  /\ DOMAIN rows' = DOMAIN rows
             /\ \A i \in DOMAIN rows : rows'[i].body = rows[i].body
  BY <1>1, <1>4 DEF LockLapse, Row
<1>5. DOMAIN rows' = DOMAIN rows /\ \A i \in DOMAIN rows : rows'[i].body = rows[i].body
  BY <1>2, <1>3, <1>4 DEF QuietNext, ReceiveSelect, Drop, queueVars
<1> QED
  BY <1>5 DEF Published

\* A settlement replaces one row by one of the same body and count.
LEMMA SettleRows ==
    ASSUME SharedInv, NEW w \in Workers, NEW m \in held[w], Settle(w, m)
    PROVE  /\ rows' \in Seq(Row)
           /\ DOMAIN rows' = DOMAIN rows
           /\ \A i \in DOMAIN rows : /\ rows'[i].body = rows[i].body
                                     /\ rows'[i].count = rows[i].count
                                     /\ i # m.id => rows'[i] = rows[i]
<1>1. /\ m.id \in DOMAIN rows
      /\ \A i \in DOMAIN rows : rows[i] \in Row
  BY TableRows DEF SharedInv
<1>2. \E st \in Status, v \in BOOLEAN :
        rows' = [rows EXCEPT ![m.id] = [@ EXCEPT !.status = st, !.visible = v]]
  <2>1. rows[m.id] \in Row
    BY <1>1
  <2>2. CASE \E st \in Status : rows' = [rows EXCEPT ![m.id].status = st]
    <3>1. PICK st \in Status : rows' = [rows EXCEPT ![m.id].status = st]
      BY <2>2
    <3> DEFINE v == rows[m.id].visible
    <3>2. v \in BOOLEAN /\ [rows[m.id] EXCEPT !.status = st, !.visible = v]
                              = [rows[m.id] EXCEPT !.status = st]
      BY <2>1 DEF Row
    <3> QED
      BY <3>1, <3>2
  <2>3. CASE rows' = [rows EXCEPT ![m.id].status = "available", ![m.id].visible = TRUE]
    BY <1>1, <2>1, <2>3 DEF Row, Status
  <2> QED
    BY <2>2, <2>3 DEF Settle, Complete, Abandon, DeadLetter, Status
<1>3. PICK st \in Status, v \in BOOLEAN :
        rows' = [rows EXCEPT ![m.id] = [@ EXCEPT !.status = st, !.visible = v]]
  BY <1>2
<1> DEFINE row == [rows[m.id] EXCEPT !.status = st, !.visible = v]
<1>4. row \in Row /\ row.body = rows[m.id].body /\ row.count = rows[m.id].count
  BY <1>1 DEF Row
<1>5. rows' = [rows EXCEPT ![m.id] = row]
  BY <1>3
<1> HIDE DEF row
<1> QED
  BY <1>1, <1>4, <1>5, UpdateRow DEF SharedInv

\* Workers and time leave the gateway alone.
LEMMA WorkerFrame ==
    ASSUME NEW w \in Workers,
           \/ Poll(w) \/ Claim(w) \/ SkipCommit(w) \/ WorkerAbort(w)
           \/ \E m \in held[w] : Process(w, m)
    PROVE  UNCHANGED gatewayVars
BY DEF Poll, Claim, SkipCommit, WorkerAbort, Process, Guard, GuardDuplicate,
       SkipComplete, UnknownTool, DeadLetterUnknown, Start, RunOk, RunFails,
       SettleRead, SettleCommit, CompleteMessage, Failure, AbandonMessage

\* Only the gateway moves requests and answers clients.
LEMMA GatewayOrNot ==
    ASSUME [Next]_vars
    PROVE  \/ \E r \in Jobs : GatewayStep(r) \/ GatewayAbort(r)
           \/ UNCHANGED gatewayVars
<1>1. ASSUME NEW i \in DOMAIN rows, Lapse(i)
      PROVE  UNCHANGED gatewayVars
  BY <1>1 DEF Lapse
<1>2. ASSUME UNCHANGED vars
      PROVE  UNCHANGED gatewayVars
  BY <1>2 DEF vars
<1> QED
  BY <1>1, <1>2, WorkerFrame DEF Next

\* A request that may still publish was one that might before.
LEMMA GatewayForward ==
    ASSUME PipelineTypes, NEW r \in Jobs, gpc'[r] \in Early,
           \/ \E q \in Jobs : GatewayStep(q) \/ GatewayAbort(q)
           \/ UNCHANGED gatewayVars
    PROVE  gpc[r] \in Early
<1>1. ASSUME NEW q \in Jobs, GatewayStep(q) \/ GatewayAbort(q)
      PROVE  gpc[r] \in Early
  <2>1. \E pc \in GatewayPc :
          /\ gpc' = [gpc EXCEPT ![q] = pc]
          /\ pc \in Early => gpc[q] \in Early
    BY <1>1 DEF GatewayStep, GatewayAbort, Lookup, Reserve, PublishJob, PublishFails,
                Commit, CommitConflict, CommitDuplicate, Tell, GoTo, GatewayPc, Early
  <2> QED
    BY <2>1 DEF PipelineTypes
<1>2. CASE UNCHANGED gatewayVars
  BY <1>2 DEF gatewayVars
<1> QED
  BY <1>1, <1>2

\* A shared step keeps the rows with their bodies, and publishes what was not.
LEMMA SharedRows ==
    ASSUME SharedInv, SharedNext
    PROVE  /\ rows' \in Seq(Row)
           /\ \A i \in DOMAIN rows : i \in DOMAIN rows' /\ rows'[i].body = rows[i].body
           /\ UnpublishedYet'
<1>1. \A r \in Jobs : gpc'[r] \in Early => gpc[r] \in Early
  BY GatewayForward, WorkerFrame DEF SharedInv, SharedNext
<1>2. ASSUME NEW r \in Jobs, PublishJob(r)
      PROVE  /\ rows' \in Seq(Row)
             /\ \A i \in DOMAIN rows : i \in DOMAIN rows' /\ rows'[i].body = rows[i].body
             /\ UnpublishedYet'
  <2>1. /\ rows' \in Seq(Row)
        /\ \A i \in DOMAIN rows : i \in DOMAIN rows' /\ rows'[i] = rows[i]
        /\ Published' = Published \cup {r}
    BY <1>2, PublishAdds DEF PublishJob, SharedInv
  <2>2. gpc' = [gpc EXCEPT ![r] = "commit"]
    BY <1>2 DEF PublishJob, GoTo
  <2> QED
    BY <2>1, <2>2 DEF SharedInv, PipelineTypes, UnpublishedYet, Early
<1>3. ASSUME rows' \in Seq(Row), DOMAIN rows' = DOMAIN rows,
             \A i \in DOMAIN rows : rows'[i].body = rows[i].body
      PROVE  /\ rows' \in Seq(Row)
             /\ \A i \in DOMAIN rows : i \in DOMAIN rows' /\ rows'[i].body = rows[i].body
             /\ UnpublishedYet'
  BY <1>1, <1>3 DEF Published, SharedInv, UnpublishedYet
<1>4. ASSUME NEW r \in Jobs, GatewayStep(r) \/ GatewayAbort(r)
      PROVE  PublishJob(r) \/ UNCHANGED rows
  BY <1>4 DEF GatewayStep, GatewayAbort, Lookup, Reserve, PublishFails, Commit,
              CommitConflict, CommitDuplicate, queueVars
<1>5. ASSUME NEW w \in Workers, SkipCommit(w) \/ WorkerAbort(w)
      PROVE  UNCHANGED rows
  BY <1>5 DEF SkipCommit, WorkerAbort, Drop, queueVars
<1>6. ASSUME NEW w \in Workers, NEW m \in held[w], Process(w, m)
      PROVE  Settle(w, m) \/ UNCHANGED rows
  BY <1>6, ProcessIsQueueStep DEF queueVars
<1>7. CASE UNCHANGED rows
  BY <1>3, <1>7 DEF SharedInv
<1> QED
  BY <1>2, <1>3, <1>4, <1>5, <1>6, <1>7, SettleRows DEF SharedNext

-----------------------------------------------------------------------------
(* Type correctness. *)

\* The initial state is typed, with nothing published.
LEMMA BaseInit == Init => BaseInv
<1> SUFFICES ASSUME Init PROVE BaseInv
  OBVIOUS
<1>1. TypeInv
  BY TypeInit DEF Init
<1>2. Published = {}
  BY DEF Init, QueueInit, Published
<1> QED
  BY <1>1, <1>2 DEF Init, BaseInv, PipelineTypes, UnpublishedYet, SkippingKnown,
                    KeyRow, JobRow, Key, Job, Skip, JobOrNone, JobStatus, KeyStatus,
                    GatewayPc, WorkerPc, Decision

\* set_job_status keeps the table typed, with or without the row.
LEMMA SetJobTypes ==
    ASSUME PipelineTypes, NEW r \in Jobs, NEW row \in JobRow, SetJob(r, row)
    PROVE  jobs' \in [Jobs -> JobRow]
BY DEF SetJob, PipelineTypes

\* What a worker knows of the message it processes.
LEMMA MessageTypes ==
    ASSUME TypeInv, NEW w \in Workers, NEW m \in held[w]
    PROVE  /\ m.count \in Nat
           /\ m.id \in DOMAIN rows
           /\ rows[m.id] \in Row
           /\ rows[m.id].body \in Jobs
<1>1. m.id \in DOMAIN rows /\ m \in Message
  BY DEF TypeInv, HandlesExist, QueueTypeOK
<1> QED
  BY <1>1, TableRows DEF TypeInv, QueueTypeOK, Message, Row

LEMMA SharedMessage ==
    ASSUME SharedInv, NEW w \in Workers, NEW m \in held[w]
    PROVE  /\ m.count \in Nat
           /\ m.id \in DOMAIN rows /\ m.id \in Nat
           /\ rows[m.id] \in Row
           /\ rows[m.id].body \in Jobs
BY TableRows DEF SharedInv, Row

\* The gateway keeps the types.
LEMMA GatewayTypes ==
    ASSUME PipelineTypes, NEW r \in Jobs, GatewayStep(r) \/ GatewayAbort(r)
    PROVE  PipelineTypes'
<1>1. /\ KeyOf[r] \in Keys
      /\ KeyRowOf(r) \in KeyRow
      /\ Key("reserved", r, NoJob) \in KeyRow
      /\ Job("queued", 0, NoJob) \in JobRow
  BY PipelineAssumption DEF PipelineTypes, KeyRowOf, Key, Job, KeyRow, JobRow,
                            KeyStatus, JobStatus, JobOrNone
<1>2. CASE Lookup(r) \/ Reserve(r) \/ PublishJob(r) \/ PublishFails(r)
  BY <1>2 DEF Lookup, Reserve, PublishJob, PublishFails, GoTo, GatewayPc,
              PipelineTypes, tables, workerVars
<1>3. CASE CommitConflict(r) \/ GatewayAbort(r) \/ CommitDuplicate(r) \/ Commit(r)
  <2>1. \E d \in Decision, j \in JobOrNone : Tell(r, d, j)
    BY <1>1, <1>3 DEF CommitConflict, GatewayAbort, CommitDuplicate, Commit, Decision,
                      JobOrNone, KeyRow
  <2>2. /\ gpc' \in [Jobs -> GatewayPc]
        /\ answer' \in [Jobs -> [decision: Decision, job: JobOrNone]]
    BY <2>1 DEF Tell, GoTo, PipelineTypes, GatewayPc
  <2>3. /\ idem' \in [Keys -> KeyRow]
        /\ jobs' \in [Jobs -> JobRow]
        /\ audited' \subseteq Jobs
    BY <1>1, <1>3 DEF CommitConflict, GatewayAbort, CommitDuplicate, Commit, tables,
                      PipelineTypes
  <2>4. UNCHANGED workerVars
    BY <1>3 DEF CommitConflict, GatewayAbort, CommitDuplicate, Commit
  <2> QED
    BY <2>2, <2>3, <2>4 DEF PipelineTypes, workerVars
<1> QED
  BY <1>2, <1>3 DEF GatewayStep

\* The steps of _process keep the types.
LEMMA ProcessTypes ==
    ASSUME SharedInv, NEW w \in Workers, NEW m \in held[w], Process(w, m)
    PROVE  PipelineTypes'
<1> DEFINE r == rows[m.id].body
<1>0. PipelineTypes
  BY DEF SharedInv
<1>1. r \in Jobs /\ m.count \in Nat
  BY SharedMessage
<1>2. /\ KeyOf[r] \in Keys
      /\ KeyRowOf(r) \in KeyRow
      /\ jobs[r] \in JobRow
  BY <1>0, <1>1, PipelineAssumption DEF PipelineTypes, KeyRowOf
<1>3. UNCHANGED gatewayVars
  BY WorkerFrame
<1>4. wpc' \in [Workers -> WorkerPc]
  <2>1. \E pc \in WorkerPc : wpc' = [wpc EXCEPT ![w] = pc]
    BY DEF Process, Guard, GuardDuplicate, SkipComplete, UnknownTool,
           DeadLetterUnknown, Start, RunOk, RunFails, SettleRead, SettleCommit,
           CompleteMessage, Failure, AbandonMessage, Become, WorkerPc
  <2> QED
    BY <1>0, <2>1 DEF PipelineTypes
<1>5. skipping' \in [Workers -> [job: JobOrNone, result: JobOrNone]]
  BY <1>0, <1>1, <1>2 DEF Skip, KeyRow, Process, Guard, GuardDuplicate, SkipComplete,
                    UnknownTool, DeadLetterUnknown, Start, RunOk, RunFails,
                    SettleRead, SettleCommit, CompleteMessage, Failure,
                    AbandonMessage, PipelineTypes, JobOrNone
<1>6. executed' \in [Jobs -> Nat]
  BY <1>0, <1>1 DEF Process, Guard, GuardDuplicate, SkipComplete, UnknownTool,
              DeadLetterUnknown, Start, RunOk, RunFails, SettleRead, SettleCommit,
              CompleteMessage, Failure, AbandonMessage, PipelineTypes
<1>7. audited' \subseteq Jobs
  BY <1>0, <1>1 DEF Process, Guard, GuardDuplicate, SkipComplete, UnknownTool,
              DeadLetterUnknown, Start, RunOk, RunFails, SettleRead, SettleCommit,
              CompleteMessage, Failure, AbandonMessage, PipelineTypes, tables
<1>8. idem' \in [Keys -> KeyRow] /\ jobs' \in [Jobs -> JobRow]
  <2>1. CASE UnknownTool(w, m)
    <3>1. Job("dead_letter", jobs[r].attempts, jobs[r].result) \in JobRow
      BY <1>2 DEF Job, JobRow, JobStatus
    <3> QED
      BY <1>0, <1>1, <2>1, <3>1, SetJobTypes DEF UnknownTool, PipelineTypes
  <2>2. CASE Start(w, m)
    <3>1. Job("running", m.count, jobs[r].result) \in JobRow
      BY <1>1, <1>2 DEF Job, JobRow, JobStatus
    <3> QED
      BY <1>0, <1>1, <2>2, <3>1, SetJobTypes DEF Start, PipelineTypes
  <2>3. CASE Failure(w, m)
    <3>1. Job(IF m.count >= MaxDelivery THEN "dead_letter" ELSE "failed",
              m.count, jobs[r].result) \in JobRow
      BY <1>1, <1>2 DEF Job, JobRow, JobStatus
    <3> QED
      BY <1>0, <1>1, <2>3, <3>1, SetJobTypes DEF Failure, PipelineTypes
  <2>4. CASE SettleCommit(w, m)
    <3>1. /\ Job("succeeded", m.count, r) \in JobRow
          /\ Key("completed", KeyRowOf(r).job, r) \in KeyRow
      BY <1>1, <1>2 DEF Job, JobRow, JobStatus, Key, KeyRow, KeyStatus, JobOrNone
    <3> QED
      BY <1>0, <1>1, <1>2, <2>4, <3>1 DEF SettleCommit, PipelineTypes
  <2>5. CASE UNCHANGED <<idem, jobs>>
    BY <1>0, <2>5 DEF PipelineTypes
  <2> QED
    BY <2>1, <2>2, <2>3, <2>4, <2>5
       DEF Process, Guard, GuardDuplicate, SkipComplete, DeadLetterUnknown, RunOk,
           RunFails, SettleRead, CompleteMessage, AbandonMessage, tables
<1> QED
  BY <1>0, <1>3, <1>4, <1>5, <1>6, <1>7, <1>8 DEF PipelineTypes, gatewayVars

\* So do the commit of the guard's transaction and the loss of a batch.
LEMMA BetweenTypes ==
    ASSUME SharedInv, NEW w \in Workers, SkipCommit(w) \/ WorkerAbort(w)
    PROVE  PipelineTypes'
<1>1. CASE SkipCommit(w)
  <2> DEFINE r == skipping[w].job
  <2>1. r \in Jobs /\ PipelineTypes
    BY <1>1 DEF SkipCommit, SharedInv, SkippingKnown
  <2>2. Job("succeeded", jobs[r].attempts, skipping[w].result) \in JobRow
    BY <2>1 DEF PipelineTypes, Job, JobRow, JobStatus
  <2>3. jobs' \in [Jobs -> JobRow]
    BY <1>1, <2>1, <2>2, SetJobTypes DEF SkipCommit
  <2> QED
    BY <1>1, <2>1, <2>3 DEF SkipCommit, PipelineTypes, Become, WorkerPc, Skip, JobOrNone,
                            gatewayVars
<1>2. CASE WorkerAbort(w)
  BY <1>2 DEF WorkerAbort, SharedInv, PipelineTypes, tables, gatewayVars, Become, WorkerPc,
              Skip, JobOrNone
<1> QED
  BY <1>1, <1>2

\* Every shared step keeps the types.
LEMMA SharedTypes ==
    ASSUME SharedInv, SharedNext
    PROVE  PipelineTypes'
BY GatewayTypes, ProcessTypes, BetweenTypes DEF SharedNext, SharedInv

\* A guard transaction that is open is about the job of a message.
LEMMA SharedSkipping ==
    ASSUME SharedInv, SharedNext
    PROVE  SkippingKnown'
<1>0. PipelineTypes /\ SkippingKnown
  BY DEF SharedInv
<1>1. ASSUME NEW w \in Workers, NEW m \in held[w], Process(w, m)
      PROVE  SkippingKnown'
  <2>1. rows[m.id].body \in Jobs
    BY SharedMessage
  <2>2. CASE SkipComplete(w, m)
    BY <1>0, <2>2 DEF At, SkipComplete, Become, PipelineTypes, SkippingKnown
  <2>3. CASE GuardDuplicate(w, m)
    BY <1>0, <2>1, <2>3 DEF GuardDuplicate, Skip, Become, PipelineTypes, SkippingKnown
  <2>4. CASE ~SkipComplete(w, m) /\ ~GuardDuplicate(w, m)
    <3>1. /\ skipping' = skipping
          /\ \E pc \in WorkerPc \ {"skip", "skip_commit"} : wpc' = [wpc EXCEPT ![w] = pc]
      BY <1>1, <2>4 DEF Process, Guard, UnknownTool, DeadLetterUnknown, Start, RunOk,
                        RunFails, SettleRead, SettleCommit, CompleteMessage, Failure,
                        AbandonMessage, Become, WorkerPc
    <3> QED
      BY <1>0, <3>1 DEF PipelineTypes, SkippingKnown
  <2> QED
    BY <2>2, <2>3, <2>4
<1>2. ASSUME NEW w \in Workers, SkipCommit(w) \/ WorkerAbort(w)
      PROVE  SkippingKnown'
  <2>1. /\ skipping' = [skipping EXCEPT ![w] = Skip(NoJob, NoJob)]
        /\ wpc' = [wpc EXCEPT ![w] = "idle"]
    BY <1>2 DEF SkipCommit, WorkerAbort, Become
  <2> QED
    BY <1>0, <2>1 DEF PipelineTypes, SkippingKnown
<1>3. ASSUME NEW r \in Jobs, GatewayStep(r) \/ GatewayAbort(r)
      PROVE  SkippingKnown'
  <2>1. UNCHANGED <<wpc, skipping>>
    BY <1>3 DEF GatewayStep, GatewayAbort, Lookup, Reserve, PublishJob, PublishFails,
                Commit, CommitConflict, CommitDuplicate, workerVars
  <2> QED
    BY <1>0, <2>1 DEF SkippingKnown
<1> QED
  BY <1>1, <1>2, <1>3 DEF SharedNext

\* A step of the queue alone leaves gateway and worker as they are.
LEMMA QueueAlone ==
    ASSUME SharedInv, UNCHANGED <<tables, gatewayVars, workerVars>>
    PROVE  PipelineTypes' /\ SkippingKnown'
BY DEF SharedInv, PipelineTypes, SkippingKnown, tables, gatewayVars, workerVars

LEMMA PipelineTypesStep ==
    ASSUME BaseInv, [Next]_vars
    PROVE  PipelineTypes'
BY BaseIsShared, NextIsShared, SharedTypes, QueueAlone

\* What was not published before the publish point still is not.
LEMMA UnpublishedStep ==
    ASSUME BaseInv, [Next]_vars
    PROVE  UnpublishedYet'
<1>1. ASSUME [QuietNext]_queueVars, UNCHANGED gatewayVars
      PROVE  UnpublishedYet'
  BY <1>1, QuietAddsNothing DEF BaseInv, UnpublishedYet, gatewayVars
<1> QED
  BY <1>1, BaseIsShared, NextIsShared, SharedRows

\* The base invariant is inductive.
LEMMA BaseStep == BaseInv /\ [Next]_vars => BaseInv'
<1> SUFFICES ASSUME BaseInv, [Next]_vars
             PROVE  BaseInv'
  OBVIOUS
<1>1. TypeInv'
  BY QueueStep, TypeStep DEF BaseInv
<1>2. SkippingKnown'
  BY BaseIsShared, NextIsShared, SharedSkipping, QueueAlone
<1> QED
  BY <1>1, <1>2, UnpublishedStep, PipelineTypesStep DEF BaseInv

\* Every variable of the pipeline keeps its type.
THEOREM TypeCorrect == Spec => []TypeOK
<1>1. BaseInv => TypeOK
  BY DEF BaseInv, TypeInv, PipelineTypes, TypeOK
<1> QED
  BY <1>1, BaseInit, BaseStep, PTL DEF Spec

\* The gateway and the workers together are a legal use of the queue, so what
\* LocalQueueProofs proves of the queue holds inside the pipeline.
THEOREM PipelineUsesQueue == Spec => UsesTheQueue
<1>1. Init => QueueInit
  BY DEF Init
<1>2. BaseInv /\ [Next]_vars => [QueueNext]_queueVars
  BY QueueStep DEF BaseInv
<1> QED
  BY <1>1, <1>2, BaseInit, BaseStep, PTL DEF Spec, QueueSpec, UsesTheQueue

\* So, with row locks or a single worker, what the interface of the queue promises holds
\* under the gateway and the worker, whatever dies between two steps.
THEOREM PipelineKeepsTheQueue == ASSUME OneReaderPerRow PROVE Spec => ImplementsWorkQueue
<1> QED
  BY PipelineUsesQueue, QueueKeepsItsPromises, PTL DEF UsesTheQueue

-----------------------------------------------------------------------------
(***************************************************************************)
(* One key, one job.  SameKeySameJob speaks of answers only; it is kept    *)
(* because an answer "queued" repeats the key's row, rows of keys and jobs *)
(* are never removed, and a key's row never changes its job.               *)
(***************************************************************************)
KeysNameJobs ==
    \A k \in Keys : idem[k].status # "absent" =>
        /\ idem[k].job \in Jobs
        /\ HasJob(idem[k].job)

DuplicatesHaveKeys == \A r \in Jobs : gpc[r] = "duplicate" => HasKey(r)

AnswersRepeatKeys ==
    \A r \in Jobs : answer[r].decision = "queued" =>
        HasKey(r) /\ answer[r].job = KeyRowOf(r).job

KeyInv == BaseInv /\ KeysNameJobs /\ DuplicatesHaveKeys /\ AnswersRepeatKeys

\* Clients told "queued" for one key were given what the row of the key names.
LEMMA KeyInvImplies == KeyInv => SameKeySameJob
BY PipelineAssumption DEF KeyInv, KeysNameJobs, AnswersRepeatKeys, SameKeySameJob,
                          HasKey, KeyRowOf

\* No key and no answer exists initially.
LEMMA KeyInit == Init => KeyInv
<1> SUFFICES ASSUME Init PROVE KeyInv
  OBVIOUS
<1>1. BaseInv
  BY BaseInit
<1> QED
  BY <1>1 DEF Init, KeyInv, KeysNameJobs, DuplicatesHaveKeys, AnswersRepeatKeys, Key

\* What no step takes away from the tables.
Kept ==
    /\ \A k \in Keys : idem[k].status # "absent" =>
         idem'[k].status # "absent" /\ idem'[k].job = idem[k].job
    /\ \A r \in Jobs : jobs[r].status # "absent" => jobs'[r].status # "absent"

\* set_job_status removes no job.
LEMMA SetJobKeeps ==
    ASSUME PipelineTypes, NEW r \in Jobs, NEW row \in JobRow, row.status # "absent",
           SetJob(r, row), idem' = idem
    PROVE  Kept
BY DEF SetJob, Kept, PipelineTypes

\* The steps of _process remove no job and no key, and change no owner.
LEMMA ProcessKeeps ==
    ASSUME BaseInv, NEW w \in Workers, NEW m \in held[w], Process(w, m)
    PROVE  Kept
<1> DEFINE r == rows[m.id].body
<1>1. r \in Jobs /\ m.count \in Nat
  BY MessageTypes DEF BaseInv
<1>2. KeyOf[r] \in Keys /\ jobs[r] \in JobRow
  BY <1>1, PipelineAssumption DEF BaseInv, PipelineTypes
<1>3. CASE UnknownTool(w, m)
  <2>1. Job("dead_letter", jobs[r].attempts, jobs[r].result) \in JobRow
    BY <1>2 DEF Job, JobRow, JobStatus
  <2> QED
    BY <1>1, <1>3, <2>1, SetJobKeeps DEF UnknownTool, BaseInv, Job
<1>4. CASE Start(w, m)
  <2>1. Job("running", m.count, jobs[r].result) \in JobRow
    BY <1>1, <1>2 DEF Job, JobRow, JobStatus
  <2> QED
    BY <1>1, <1>4, <2>1, SetJobKeeps DEF Start, BaseInv, Job
<1>5. CASE Failure(w, m)
  <2>1. Job(IF m.count >= MaxDelivery THEN "dead_letter" ELSE "failed",
            m.count, jobs[r].result) \in JobRow
    BY <1>1, <1>2 DEF Job, JobRow, JobStatus
  <2> QED
    BY <1>1, <1>5, <2>1, SetJobKeeps DEF Failure, BaseInv, Job
<1>6. CASE SettleCommit(w, m)
  <2>1. jobs' = jobs \/ jobs' = [jobs EXCEPT ![r] = Job("succeeded", m.count, r)]
    BY <1>6 DEF SettleCommit
  <2>2. \/ idem' = idem
        \/ idem' = [idem EXCEPT ![KeyOf[r]] = Key("completed", idem[KeyOf[r]].job, r)]
    BY <1>6 DEF SettleCommit, KeyRowOf
  <2> QED
    BY <1>1, <1>2, <2>1, <2>2 DEF Kept, Job, Key, BaseInv, PipelineTypes
<1>7. CASE UNCHANGED <<idem, jobs>>
  BY <1>7 DEF Kept
<1> QED
  BY <1>3, <1>4, <1>5, <1>6, <1>7
     DEF Process, Guard, GuardDuplicate, SkipComplete, DeadLetterUnknown, RunOk,
         RunFails, SettleRead, CompleteMessage, AbandonMessage, tables

\* Nor does anything else a worker does.
LEMMA WorkerKeeps ==
    ASSUME BaseInv, NEW w \in Workers,
           \/ Poll(w) \/ Claim(w) \/ SkipCommit(w) \/ WorkerAbort(w)
           \/ \E m \in held[w] : Process(w, m)
    PROVE  Kept
<1>1. CASE SkipCommit(w)
  <2> DEFINE r == skipping[w].job
  <2>1. r \in Jobs
    BY <1>1 DEF SkipCommit, BaseInv, SkippingKnown
  <2>2. Job("succeeded", jobs[r].attempts, skipping[w].result) \in JobRow
    BY <2>1 DEF BaseInv, PipelineTypes, Job, JobRow, JobStatus
  <2> QED
    BY <1>1, <2>1, <2>2, SetJobKeeps DEF SkipCommit, BaseInv, Job
<1>2. CASE Poll(w) \/ Claim(w) \/ WorkerAbort(w)
  BY <1>2 DEF Poll, Claim, WorkerAbort, tables, Kept
<1> QED
  BY <1>1, <1>2, ProcessKeeps

\* Nor does the gateway.
LEMMA GatewayKeeps ==
    ASSUME BaseInv, NEW r \in Jobs, GatewayStep(r) \/ GatewayAbort(r)
    PROVE  Kept
<1>1. KeyOf[r] \in Keys
  BY PipelineAssumption
<1>2. CASE Commit(r)
  BY <1>1, <1>2 DEF Commit, HasKey, KeyRowOf, Kept, Job, BaseInv, PipelineTypes
<1>3. CASE ~Commit(r)
  BY <1>3 DEF GatewayStep, GatewayAbort, Lookup, Reserve, PublishJob, PublishFails,
              CommitConflict, CommitDuplicate, tables, Kept
<1> QED
  BY <1>2, <1>3

\* Jobs and keys are never removed, and the owner of a key never changes.
LEMMA NextKeeps ==
    ASSUME BaseInv, [Next]_vars
    PROVE  Kept
<1>1. ASSUME NEW i \in DOMAIN rows, Lapse(i)
      PROVE  Kept
  BY <1>1 DEF Lapse, tables, Kept
<1>2. ASSUME UNCHANGED vars
      PROVE  Kept
  BY <1>2 DEF vars, tables, Kept
<1> QED
  BY <1>1, <1>2, WorkerKeeps, GatewayKeeps DEF Next

\* Only the gateway adds a key, and it adds its own job with it.
LEMMA KeysNameJobsStep ==
    ASSUME KeyInv, [Next]_vars
    PROVE  KeysNameJobs'
<1>1. Kept
  BY NextKeeps DEF KeyInv
<1> SUFFICES ASSUME NEW k \in Keys, idem'[k].status # "absent"
             PROVE  idem'[k].job \in Jobs /\ jobs'[idem'[k].job].status # "absent"
  BY DEF KeysNameJobs, HasJob
<1>2. CASE idem[k].status # "absent"
  BY <1>1, <1>2 DEF KeyInv, KeysNameJobs, HasJob, Kept
<1>3. CASE idem[k].status = "absent"
  <2>1. ASSUME NEW r \in Jobs, Commit(r)
        PROVE  idem'[k].job \in Jobs /\ jobs'[idem'[k].job].status # "absent"
    <3>1. /\ idem' = [idem EXCEPT ![KeyOf[r]] = Key("reserved", r, NoJob)]
          /\ jobs' = [jobs EXCEPT ![r] = Job("queued", 0, NoJob)]
      BY <2>1 DEF Commit
    <3>2. k = KeyOf[r]
      BY <1>3, <3>1 DEF KeyInv, BaseInv, PipelineTypes
    <3> QED
      BY <3>1, <3>2 DEF Key, Job, KeyInv, BaseInv, PipelineTypes
  <2>2. ASSUME NEW r \in Jobs, GatewayStep(r) \/ GatewayAbort(r), ~Commit(r)
        PROVE  idem' = idem
    BY <2>2 DEF GatewayStep, GatewayAbort, Lookup, Reserve, PublishJob, PublishFails,
                CommitConflict, CommitDuplicate, tables
  <2>3. ASSUME NEW w \in Workers, NEW m \in held[w], Process(w, m)
        PROVE  idem'[k].status = "absent"
    <3>1. rows[m.id].body \in Jobs
      BY MessageTypes DEF KeyInv, BaseInv
    <3>2. CASE SettleCommit(w, m)
      BY <1>3, <3>1, <3>2, PipelineAssumption
         DEF SettleCommit, HasKey, KeyRowOf, KeyInv, BaseInv, PipelineTypes
    <3>3. CASE ~SettleCommit(w, m)
      BY <1>3, <2>3, <3>3 DEF Process, Guard, GuardDuplicate, SkipComplete,
                              UnknownTool, DeadLetterUnknown, Start, RunOk, RunFails,
                              SettleRead, CompleteMessage, Failure, AbandonMessage,
                              tables
    <3> QED
      BY <3>2, <3>3
  <2>4. ASSUME NEW w \in Workers, Poll(w) \/ Claim(w) \/ SkipCommit(w) \/ WorkerAbort(w)
        PROVE  idem' = idem
    BY <2>4 DEF Poll, Claim, SkipCommit, WorkerAbort, tables
  <2>5. ASSUME NEW i \in DOMAIN rows, Lapse(i)
        PROVE  idem' = idem
    BY <2>5 DEF Lapse, tables
  <2>6. ASSUME UNCHANGED vars
        PROVE  idem' = idem
    BY <2>6 DEF vars, tables
  <2> QED
    BY <1>3, <2>1, <2>2, <2>3, <2>4, <2>5, <2>6 DEF Next
<1> QED
  BY <1>2, <1>3

\* An answer "queued" is given by the commit that adds the key, or repeats the
\* row of a key that was found.
LEMMA AnswersStep ==
    ASSUME KeyInv, [Next]_vars
    PROVE  AnswersRepeatKeys' /\ DuplicatesHaveKeys'
<1>1. Kept
  BY NextKeeps DEF KeyInv
<1>2. \A r \in Jobs : KeyOf[r] \in Keys
  BY PipelineAssumption
<1>3. \A r \in Jobs : HasKey(r) => HasKey(r)' /\ KeyRowOf(r)'.job = KeyRowOf(r).job
  BY <1>1, <1>2 DEF Kept, HasKey, KeyRowOf
<1>4. ASSUME UNCHANGED gatewayVars
      PROVE  AnswersRepeatKeys' /\ DuplicatesHaveKeys'
  BY <1>3, <1>4 DEF gatewayVars, KeyInv, AnswersRepeatKeys, DuplicatesHaveKeys
<1>5. ASSUME NEW r \in Jobs, GatewayStep(r) \/ GatewayAbort(r)
      PROVE  AnswersRepeatKeys' /\ DuplicatesHaveKeys'
  <2>1. \A q \in Jobs \ {r} : gpc'[q] = gpc[q] /\ answer'[q] = answer[q]
    <3>1. \E pc : gpc' = [gpc EXCEPT ![r] = pc]
      BY <1>5 DEF GatewayStep, GatewayAbort, Lookup, Reserve, PublishJob,
                  PublishFails, Commit, CommitConflict, CommitDuplicate, Tell, GoTo
    <3>2. answer' = answer \/ \E a : answer' = [answer EXCEPT ![r] = a]
      BY <1>5 DEF GatewayStep, GatewayAbort, Lookup, Reserve, PublishJob,
                  PublishFails, Commit, CommitConflict, CommitDuplicate, Tell
    <3>3. \A q \in Jobs \ {r} : gpc'[q] = gpc[q]
      BY <3>1 DEF KeyInv, BaseInv, PipelineTypes
    <3>4. \A q \in Jobs \ {r} : answer'[q] = answer[q]
      BY <3>2 DEF KeyInv, BaseInv, PipelineTypes
    <3> QED
      BY <3>3, <3>4
  <2>2. gpc'[r] = "duplicate" => HasKey(r)
    <3>1. \E pc \in GatewayPc : /\ gpc' = [gpc EXCEPT ![r] = pc]
                                /\ pc = "duplicate" => HasKey(r)
      BY <1>5 DEF GatewayStep, GatewayAbort, Lookup, Reserve, PublishJob,
                  PublishFails, Commit, CommitConflict, CommitDuplicate, Tell, GoTo,
                  GatewayPc
    <3> QED
      BY <3>1 DEF KeyInv, BaseInv, PipelineTypes
  <2>3. answer'[r].decision = "queued" =>
           HasKey(r)' /\ answer'[r].job = KeyRowOf(r)'.job
    <3>1. CASE Commit(r)
      BY <3>1, <1>2 DEF Commit, Tell, HasKey, KeyRowOf, Key, KeyInv, BaseInv,
                        PipelineTypes
    <3>2. CASE CommitDuplicate(r)
      BY <3>2, <1>3 DEF CommitDuplicate, Tell, KeyInv, DuplicatesHaveKeys, BaseInv,
                        PipelineTypes
    <3>3. CASE CommitConflict(r) \/ GatewayAbort(r)
      BY <3>3 DEF CommitConflict, GatewayAbort, Tell, KeyInv, BaseInv, PipelineTypes
    <3>4. CASE answer' = answer
      BY <3>4, <1>3 DEF KeyInv, AnswersRepeatKeys
    <3> QED
      BY <1>5, <3>1, <3>2, <3>3, <3>4
         DEF GatewayStep, Lookup, Reserve, PublishJob, PublishFails
  <2>4. AnswersRepeatKeys'
    BY <1>3, <2>1, <2>3 DEF KeyInv, AnswersRepeatKeys
  <2>5. DuplicatesHaveKeys'
    BY <1>3, <2>1, <2>2 DEF KeyInv, DuplicatesHaveKeys
  <2> QED
    BY <2>4, <2>5
<1> QED
  BY <1>4, <1>5, GatewayOrNot

\* The invariant of keys and answers is inductive.
LEMMA KeyStep == KeyInv /\ [Next]_vars => KeyInv'
BY BaseStep, KeysNameJobsStep, AnswersStep DEF KeyInv

\* However submissions race, fail and are repeated, clients told "queued" for
\* one key were given one job, and it is in the table.
THEOREM OneJobPerKey == Spec => []SameKeySameJob
BY KeyInit, KeyStep, KeyInvImplies, PTL DEF Spec
=============================================================================
