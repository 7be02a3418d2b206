---------------------------- MODULE ClientProofs ----------------------------
(***************************************************************************)
(* What a client may rely on, where no two receives read one row.  The     *)
(* pipeline implements JobContract, and the demo agent, a client that      *)
(* polls and resubmits, sees what the contract makes it expect.  Both rest *)
(* on one fact: every write to the job table is a step of the job's        *)
(* lifecycle, though the worker writes what it concluded from a message    *)
(* several steps before.                                                   *)
(***************************************************************************)
EXTENDS AgentSession, WorkerProofs, SuccessProofs

\* The ends of the lifecycle.
Ends == {"succeeded", "dead_letter"}

\* A request that is not answered has accepted no job and been told of none.
OpenIsFresh ==
    \A r \in Jobs : gpc[r] # "done" => ~HasJob(r) /\ answer[r].job = NoJob

FreeKeysNameNothing ==
    \A k \in Keys : idem[k].status = "absent" => idem[k].job = NoJob

\* What a worker relies on when it writes the row of a job: the guard's transaction is
\* about the message it skips, which is completed when it commits, and the settling
\* transaction found a row that is still there.
WriterKnows(w) ==
    /\ wpc[w] = "skip_commit" =>
         \E i \in DOMAIN rows :
             rows[i].body = skipping[w].job /\ rows[i].status = "completed"
    /\ \A m \in held[w] : IsHead(w, m) =>
         /\ wpc[w] = "skip" => rows[m.id].body = skipping[w].job
         /\ wpc[w] = "settle_found" => HasJob(rows[m.id].body)

WritersKnow == \A w \in Workers : WriterKnows(w)

\* The message of a succeeded job is out of the reach of receive, and who holds it is
\* about to complete it.
SucceededIsBehind ==
    \A i \in DOMAIN rows : jobs[rows[i].body].status = "succeeded" =>
        /\ rows[i].status \in {"locked", "completed"}
        /\ \A w \in Workers : \A m \in held[w] : m.id = i =>
             IsHead(w, m) /\ wpc[w] = "complete"

SucceededIsPublished ==
    \A r \in Jobs : jobs[r].status = "succeeded" => r \in Published

\* The attempts of a job never exceed the deliveries of its message.
AttemptsAreDeliveries ==
    \A r \in Jobs :
        /\ ~HasJob(r) \/ r \notin Published => jobs[r].attempts = 0
        /\ \A i \in RowsOf(r) : jobs[r].attempts <= rows[i].count

ContractRest ==
    /\ OpenIsFresh
    /\ FreeKeysNameNothing
    /\ WritersKnow
    /\ SucceededIsBehind
    /\ SucceededIsPublished
    /\ AttemptsAreDeliveries

ContractInv == VerdictInv /\ KeyInv /\ ContractRest

\* There are no rows, no jobs and no keys initially.
LEMMA ContractInit == Init => ContractInv
<1> SUFFICES ASSUME Init PROVE ContractInv
  OBVIOUS
<1>1. VerdictInv /\ KeyInv
  BY VerdictInit, KeyInit
<1>2. /\ rows = <<>>
      /\ \A w \in Workers : held[w] = {} /\ wpc[w] = "idle"
      /\ \A r \in Jobs : jobs[r] = Job("absent", 0, NoJob) /\ answer[r].job = NoJob
      /\ \A k \in Keys : idem[k].job = NoJob
  BY DEF Init, QueueInit, Key
<1> QED
  BY <1>1, <1>2 DEF ContractInv, ContractRest, OpenIsFresh, FreeKeysNameNothing, HasJob,
                    WritersKnow, WriterKnows, SucceededIsBehind, SucceededIsPublished,
                    AttemptsAreDeliveries, RowsOf, Job

-----------------------------------------------------------------------------
(* Every write to the job table is a step of the lifecycle. *)

\* The row of a job moves along its lifecycle, or is written with the status it had;
\* its attempts grow with the deliveries, and not at all once it has ended.
Follows(old, new) ==
    /\ new.status = old.status \/ new.status \in Contract!Lifecycle[old.status]
    /\ new.attempts >= old.attempts
    /\ old.status \in Ends => new.attempts = old.attempts

Counted(r, row) == \E i \in RowsOf(r) : row.attempts <= rows[i].count

\* One job's row is written, to a row it may have.
JobMoves(r, row) ==
    /\ HasJob(r)
    /\ Follows(jobs[r], row)
    /\ Counted(r, row)
    /\ jobs' = [jobs EXCEPT ![r] = row]

\* What is known of the job of the message a worker is processing.
LEMMA HeadIsOpen ==
    ASSUME ContractInv, NEW w \in Workers, NEW m \in held[w]
    PROVE  /\ m.id \in RowsOf(rows[m.id].body)
           /\ rows[m.id].body \in Jobs
           /\ jobs[rows[m.id].body] \in JobRow
           /\ m.count \in Nat
           /\ m.count = rows[m.id].count
           /\ jobs[rows[m.id].body].attempts <= m.count
           /\ jobs[rows[m.id].body].status = "succeeded" => wpc[w] = "complete"
           /\ jobs[rows[m.id].body].status = "dead_letter" =>
                wpc[w] \in {"dead_letter", "abandon"}
<1> DEFINE r == rows[m.id].body
<1>1. /\ m.id \in DOMAIN rows
      /\ m.id \in RowsOf(r)
      /\ r \in Jobs
      /\ m.count \in Nat
      /\ m.count = rows[m.id].count
  BY MessageTypes DEF ContractInv, VerdictInv, RunInv, BaseInv, LockInv, ClaimsMatchRows,
                      RowsOf
<1>2. jobs[r] \in JobRow
  BY <1>1 DEF ContractInv, KeyInv, BaseInv, PipelineTypes
<1>3. jobs[r].attempts <= m.count
  BY <1>1 DEF ContractInv, ContractRest, AttemptsAreDeliveries
<1>4. jobs[r].status = "succeeded" => wpc[w] = "complete"
  BY <1>1 DEF ContractInv, ContractRest, SucceededIsBehind
<1>5. jobs[r].status = "dead_letter" => wpc[w] \in {"dead_letter", "abandon"}
  BY <1>1 DEF ContractInv, VerdictInv, VerdictRest, DeadIsBehind, BeingGivenUp
<1> QED
  BY <1>1, <1>2, <1>3, <1>4, <1>5

\* A job with a row that has not ended may be started, end either way, or fail.
LEMMA OpenMayMove ==
    ASSUME NEW old \in JobRow, old.status # "absent", old.status \notin Ends,
           NEW s \in {"running", "succeeded", "failed", "dead_letter"}
    PROVE  s = old.status \/ s \in Contract!Lifecycle[old.status]
<1>1. old.status \in {"queued", "running", "failed"}
  BY DEF JobRow, JobStatus, Ends
<1> QED
  BY <1>1 DEF Contract!Lifecycle

\* What a worker writes of the job of its message, before it has settled it.
LEMMA OpenWrite ==
    ASSUME ContractInv, NEW w \in Workers, NEW m \in held[w],
           wpc[w] \notin {"complete", "dead_letter", "abandon"},
           HasJob(rows[m.id].body),
           NEW s \in {"running", "succeeded", "failed", "dead_letter"},
           NEW n \in {jobs[rows[m.id].body].attempts, m.count}, NEW x,
           jobs' = [jobs EXCEPT ![rows[m.id].body] = Job(s, n, x)]
    PROVE  JobMoves(rows[m.id].body, Job(s, n, x))
<1> DEFINE r == rows[m.id].body
<1>1. /\ jobs[r] \in JobRow
      /\ m.id \in RowsOf(r)
      /\ m.count = rows[m.id].count
      /\ m.count \in Nat
      /\ jobs[r].attempts <= m.count
      /\ jobs[r].status \notin Ends
      /\ jobs[r].status # "absent"
  BY HeadIsOpen DEF Ends, HasJob
<1>2. jobs[r].attempts \in Nat
  BY <1>1 DEF JobRow
<1>3. s = jobs[r].status \/ s \in Contract!Lifecycle[jobs[r].status]
  BY <1>1, OpenMayMove
<1>4. /\ Job(s, n, x).status = s
      /\ Job(s, n, x).attempts = n
      /\ n >= jobs[r].attempts
      /\ n <= m.count
  BY <1>1, <1>2 DEF Job
<1>5. Follows(jobs[r], Job(s, n, x))
  BY <1>1, <1>3, <1>4 DEF Follows
<1>6. Counted(r, Job(s, n, x))
  BY <1>1, <1>4 DEF Counted
<1> QED
  BY <1>5, <1>6 DEF JobMoves

\* A worker processing a message writes no job's row, or that of the message.
LEMMA ProcessMovesJob ==
    ASSUME ContractInv, NEW w \in Workers, NEW m \in held[w], Process(w, m)
    PROVE  UNCHANGED jobs \/ \E row : JobMoves(rows[m.id].body, row)
<1> DEFINE r == rows[m.id].body
<1>1. CASE UnknownTool(w, m)
  BY <1>1, OpenWrite DEF UnknownTool, At, SetJob
<1>2. CASE Start(w, m)
  BY <1>2, OpenWrite DEF Start, At, SetJob
<1>3. CASE Failure(w, m)
  <2>1. PICK s \in {"failed", "dead_letter"} : SetJob(r, Job(s, m.count, jobs[r].result))
    BY <1>3 DEF Failure
  <2> QED
    BY <1>3, <2>1, OpenWrite DEF Failure, At, SetJob
<1>4. CASE SettleCommit(w, m)
  <2>1. CASE wpc[w] = "settle_missing"
    BY <1>4, <2>1 DEF SettleCommit
  <2>2. CASE wpc[w] # "settle_missing"
    <3>1. /\ wpc[w] = "settle_found"
          /\ IsHead(w, m)
          /\ jobs' = [jobs EXCEPT ![r] = Job("succeeded", m.count, r)]
      BY <1>4, <2>2 DEF SettleCommit, At, IsHead
    <3>2. HasJob(r)
      BY <3>1 DEF ContractInv, ContractRest, WritersKnow, WriterKnows
    <3> QED
      BY <3>1, <3>2, OpenWrite
  <2> QED
    BY <2>1, <2>2
<1>5. CASE UNCHANGED jobs
  BY <1>5
<1> QED
  BY <1>1, <1>2, <1>3, <1>4, <1>5
     DEF Process, Guard, GuardDuplicate, SkipComplete, DeadLetterUnknown, RunOk,
         RunFails, SettleRead, CompleteMessage, AbandonMessage, tables

\* The guard's transaction marks a job that is not dead: its message is completed.
LEMMA SkipMovesJob ==
    ASSUME ContractInv, NEW w \in Workers, SkipCommit(w)
    PROVE  UNCHANGED jobs \/ \E row : JobMoves(skipping[w].job, row)
<1> DEFINE r == skipping[w].job
           row == Job("succeeded", jobs[r].attempts, skipping[w].result)
<1>1. PICK i \in RowsOf(r) : rows[i].status = "completed"
  BY DEF SkipCommit, ContractInv, ContractRest, WritersKnow, WriterKnows, RowsOf
<1>2. r \in Jobs
  BY DEF SkipCommit, ContractInv, KeyInv, BaseInv, SkippingKnown
<1>3. jobs[r] \in JobRow /\ jobs[r].attempts \in Nat
  BY <1>2 DEF ContractInv, KeyInv, BaseInv, PipelineTypes, JobRow
<1>4. jobs[r].status # "dead_letter"
  BY <1>1 DEF ContractInv, VerdictInv, VerdictRest, DeadIsBehind, RowsOf
<1>5. jobs[r].attempts <= rows[i].count
  BY <1>1, <1>2 DEF ContractInv, ContractRest, AttemptsAreDeliveries
<1>6. ASSUME HasJob(r)
      PROVE  Follows(jobs[r], row)
  <2>1. row.status = "succeeded" /\ row.attempts = jobs[r].attempts
    BY DEF Job
  <2>2. "succeeded" = jobs[r].status \/ "succeeded" \in Contract!Lifecycle[jobs[r].status]
    BY <1>3, <1>4, <1>6, OpenMayMove DEF Ends, HasJob
  <2> QED
    BY <1>3, <2>1, <2>2 DEF Follows
<1>7. Counted(r, row)
  BY <1>1, <1>5 DEF Counted, Job
<1>8. SetJob(r, row)
  BY DEF SkipCommit
<1> QED
  BY <1>6, <1>7, <1>8 DEF SetJob, JobMoves

\* A step accepts a job, moves one job along, or leaves the job table alone.
LEMMA NextMovesJob ==
    ASSUME ContractInv, [Next]_vars
    PROVE  \/ \E r \in Jobs : Commit(r)
           \/ \E r \in Jobs : \E row : JobMoves(r, row) /\ UNCHANGED gatewayVars
           \/ UNCHANGED jobs
<1>1. ASSUME NEW r \in Jobs, GatewayStep(r) \/ GatewayAbort(r), ~Commit(r)
      PROVE  UNCHANGED jobs
  BY <1>1 DEF GatewayStep, GatewayAbort, Lookup, Reserve, PublishJob, PublishFails,
              CommitConflict, CommitDuplicate, tables
<1>2. ASSUME NEW w \in Workers, NEW m \in held[w], Process(w, m)
      PROVE  \/ \E r \in Jobs : \E row : JobMoves(r, row) /\ UNCHANGED gatewayVars
             \/ UNCHANGED jobs
  <2>1. rows[m.id].body \in Jobs
    BY HeadIsOpen
  <2> QED
    BY <1>2, <2>1, ProcessMovesJob, WorkerFrame
<1>3. ASSUME NEW w \in Workers, SkipCommit(w)
      PROVE  \/ \E r \in Jobs : \E row : JobMoves(r, row) /\ UNCHANGED gatewayVars
             \/ UNCHANGED jobs
  <2>1. skipping[w].job \in Jobs
    BY <1>3 DEF SkipCommit, ContractInv, KeyInv, BaseInv, SkippingKnown
  <2> QED
    BY <1>3, <2>1, SkipMovesJob, WorkerFrame
<1>4. ASSUME NEW w \in Workers, Poll(w) \/ Claim(w) \/ WorkerAbort(w)
      PROVE  UNCHANGED jobs
  BY <1>4 DEF Poll, Claim, WorkerAbort, tables
<1>5. ASSUME NEW i \in DOMAIN rows, Lapse(i)
      PROVE  UNCHANGED jobs
  BY <1>5 DEF Lapse, tables
<1>6. CASE UNCHANGED vars
  BY <1>6 DEF vars, tables
<1> QED
  BY <1>1, <1>2, <1>3, <1>4, <1>5, <1>6 DEF Next

-----------------------------------------------------------------------------
(* What a step does to the rows of the queue. *)

\* The delivery count of a row never goes down.
LEMMA CountsGrow ==
    ASSUME LockInv, [QueueNext]_queueVars, NEW i \in DOMAIN rows
    PROVE  rows'[i].count >= rows[i].count
<1>1. rows \in Seq(Row) /\ rows[i] \in Row /\ rows[i].count \in Nat
  BY TableRows DEF LockInv, TypeInv, QueueTypeOK, Row
<1>2. ASSUME NEW b \in Jobs, Publish(b)
      PROVE  rows'[i] = rows[i]
  <2>1. [body |-> b, status |-> "available", count |-> 0, visible |-> TRUE] \in Row
    BY DEF Row, Status
  <2> QED
    BY <1>1, <1>2, <2>1, InsertRow DEF Publish
<1>3. ASSUME NEW w \in Workers, ReceiveCommit(w)
      PROVE  rows'[i].count >= rows[i].count
  <2>1. \/ rows'[i] = rows[i]
        \/ \E m \in reading[w] : m.id = i /\ rows'[i] = Claimed(rows[i], m)
    BY <1>3, ReceiveCommitRows DEF LockInv
  <2>2. \A m \in reading[w] : m.id = i => Claimed(rows[i], m).count = rows[i].count + 1
    BY DEF LockInv, ReadingIsFresh, Claimed
  <2>3. rows'[i].count \in {rows[i].count, rows[i].count + 1}
    BY <2>1, <2>2
  <2> QED
    BY <1>1, <2>3
<1>4. ASSUME NEW w \in Workers, NEW m \in held[w], Settle(w, m)
      PROVE  rows'[i].count = rows[i].count
  BY <1>1, <1>4 DEF Settle, Complete, Abandon, DeadLetter, Row
<1>5. ASSUME NEW k \in DOMAIN rows, LockLapse(k)
      PROVE  rows'[i].count = rows[i].count
  BY <1>1, <1>5 DEF LockLapse, Row
<1> QED
  BY <1>1, <1>2, <1>3, <1>4, <1>5 DEF QueueNext, ReceiveSelect, Drop, queueVars

\* A row that is new carries a job never published before, and was never delivered.
LEMMA NewRow ==
    ASSUME BaseInv, [Next]_vars, NEW i \in DOMAIN rows', i \notin DOMAIN rows
    PROVE  /\ rows'[i].body \in Jobs
           /\ rows'[i].body \notin Published
           /\ rows'[i].count = 0
<1>1. PICK r \in Jobs : PublishJob(r)
  BY PipelineStep, QuietAddsNothing DEF BaseInv
<1> DEFINE row == [body |-> r, status |-> "available", count |-> 0, visible |-> TRUE]
<1>2. row \in Row /\ rows \in Seq(Row)
  BY DEF Row, Status, BaseInv, TypeInv, QueueTypeOK
<1>3. rows'[i] = row
  BY <1>1, <1>2, InsertRow DEF PublishJob, Publish
<1>4. r \notin Published
  BY <1>1 DEF PublishJob, BaseInv, UnpublishedYet, Early
<1> QED
  BY <1>3, <1>4

\* What was published stays so.
LEMMA PublishedStays ==
    ASSUME BaseInv, [Next]_vars
    PROVE  Published \subseteq Published'
BY BodiesStay DEF Published

\* The attempts of a job keep within the deliveries of its message, and a job that is
\* not published has none.
LEMMA AttemptsStep ==
    ASSUME ContractInv, [Next]_vars
    PROVE  AttemptsAreDeliveries' /\ SucceededIsPublished'
<1>1. /\ BaseInv /\ LockInv /\ UniqueBodies
      /\ [QueueNext]_queueVars
      /\ AttemptsAreDeliveries
  BY QueueStep DEF ContractInv, VerdictInv, RunInv, BaseInv, ContractRest
<1>2. ASSUME NEW r \in Jobs
      PROVE  \/ jobs'[r] = jobs[r]
             \/ jobs'[r] = Job("queued", 0, NoJob)
             \/ HasJob(r) /\ Counted(r, jobs'[r])
  <2>1. CASE \E q \in Jobs : Commit(q)
    BY <2>1 DEF Commit, BaseInv, PipelineTypes, ContractInv, KeyInv
  <2>2. CASE \E q \in Jobs : \E row : JobMoves(q, row)
    BY <2>2 DEF JobMoves, BaseInv, PipelineTypes, ContractInv, KeyInv
  <2> QED
    BY <2>1, <2>2, NextMovesJob
<1>3. \A r \in Jobs : r \in Published <=> RowsOf(r) # {}
  BY DEF Published, RowsOf
<1>4. \A r \in Jobs : r \notin Published => jobs'[r].attempts = 0
  BY <1>1, <1>2, <1>3 DEF AttemptsAreDeliveries, Counted, Job
<1>5. \A r \in Jobs : jobs'[r].status = "absent" => jobs'[r].attempts = 0
  <2>1. Kept
    BY <1>1, NextKeeps
  <2> QED
    BY <1>1, <1>2, <2>1 DEF AttemptsAreDeliveries, HasJob, Job, Kept
<1>6. ASSUME NEW r \in Jobs, NEW i \in DOMAIN rows', rows'[i].body = r
      PROVE  jobs'[r].attempts <= rows'[i].count
  <2>1. CASE i \notin DOMAIN rows
    <3>1. r \notin Published /\ rows'[i].count = 0
      BY <1>1, <1>6, <2>1, NewRow
    <3> QED
      BY <1>4, <3>1
  <2>2. CASE i \in DOMAIN rows
    <3>1. /\ i \in RowsOf(r)
          /\ rows'[i].count >= rows[i].count
          /\ \A k \in RowsOf(r) : k = i
      BY <1>1, <1>6, <2>2, BodiesStay, CountsGrow DEF RowsOf, UniqueBodies
    <3>2. rows[i].count \in Nat /\ rows'[i].count \in Nat
      <4>1. rows \in Seq(Row) /\ rows' \in Seq(Row)
        BY <1>1, TypeStep DEF BaseInv, TypeInv, QueueTypeOK
      <4> QED
        BY <2>2, <4>1, TableRows DEF Row
    <3>3. jobs'[r].attempts <= rows[i].count
      <4>1. jobs[r].attempts <= rows[i].count
        BY <1>1, <3>1 DEF AttemptsAreDeliveries
      <4> QED
        BY <1>2, <3>1, <3>2, <4>1 DEF Counted, Job
    <3>4. jobs'[r].attempts \in Nat
      BY PipelineTypesStep, <1>1 DEF PipelineTypes, JobRow
    <3> QED
      BY <3>1, <3>2, <3>3, <3>4
  <2> QED
    BY <2>1, <2>2
<1>7. Published \subseteq Published'
  BY <1>1, PublishedStays
<1>8. AttemptsAreDeliveries'
  BY <1>4, <1>5, <1>6, <1>7 DEF AttemptsAreDeliveries, HasJob, RowsOf
<1>9. SucceededIsPublished'
  BY <1>2, <1>3, <1>7 DEF SucceededIsPublished, ContractInv, ContractRest, Counted, Job
<1> QED
  BY <1>8, <1>9

-----------------------------------------------------------------------------
(* What is known of workers and messages stays true. *)

Behind(i) ==
    /\ rows[i].status \in {"locked", "completed"}
    /\ \A w \in Workers : \A m \in held[w] : m.id = i =>
         IsHead(w, m) /\ wpc[w] = "complete"

\* A worker that processes a message leaves alone the row and the claim of a message
\* that others hold, or nobody.
LEMMA ProcessBehind ==
    ASSUME ContractInv, NEW w \in Workers, NEW m \in held[w], Process(w, m),
           NEW i \in DOMAIN rows, Behind(i)
    PROVE  Behind(i)'
<1>1. /\ LockInv /\ BaseInv /\ SingleHolder
      /\ IsHead(w, m)
      /\ m.id \in DOMAIN rows
      /\ rows[m.id] \in Row
  BY LockInvImplies, MessageTypes, HeadProcessed DEF ContractInv, VerdictInv, RunInv, BaseInv
<1>2. \A v \in Workers : v # w => held'[v] = held[v] /\ wpc'[v] = wpc[v]
  BY <1>1, OthersAlone, BaseIsShared
<1>3. \/ UNCHANGED <<rows, held>>
      \/ /\ Settle(w, m)
         /\ held'[w] = held[w] \ {m}
         /\ \A k \in DOMAIN rows : k # m.id => rows'[k] = rows[k]
  <2>1. Settle(w, m) \/ UNCHANGED queueVars
    BY ProcessIsQueueStep
  <2> QED
    BY <1>1, <2>1 DEF Settle, Complete, Abandon, DeadLetter, Unhold, queueVars, BaseInv,
                      TypeInv, QueueTypeOK
<1>4. CASE m.id = i
  <2>1. wpc[w] = "complete"
    BY <1>4 DEF Behind
  <2>2. CompleteMessage(w, m)
    BY <2>1 DEF Process, Guard, GuardDuplicate, SkipComplete, UnknownTool,
                DeadLetterUnknown, Start, RunOk, RunFails, SettleRead, SettleCommit,
                Failure, AbandonMessage, At
  <2>3. /\ rows'[i].status = "completed"
        /\ held'[w] = held[w] \ {m}
    BY <1>1, <1>4, <2>2 DEF CompleteMessage, Complete, Unhold, Row, BaseInv, TypeInv,
                            QueueTypeOK
  <2>4. \A v \in Workers : \A n \in held'[v] : n.id # i
    BY <1>1, <1>2, <1>4, <2>3 DEF SingleHolder
  <2> QED
    BY <2>3, <2>4 DEF Behind
<1>5. CASE m.id # i
  <2>1. \A n \in held[w] : n.id \in Nat
    BY <1>1 DEF BaseInv, TypeInv, QueueTypeOK, Message
  <2>2. \A n \in held[w] : n.id # i
    BY <1>1, <1>5, <2>1 DEF Behind, IsHead
  <2>3. rows'[i] = rows[i] /\ held'[w] \subseteq held[w]
    BY <1>3, <1>5
  <2> QED
    BY <1>2, <2>2, <2>3 DEF Behind, IsHead
<1> QED
  BY <1>4, <1>5

\* Once a message is behind, it stays so: receive takes available rows only.
LEMMA BehindStays ==
    ASSUME ContractInv, [Next]_vars, NEW i \in DOMAIN rows, Behind(i)
    PROVE  Behind(i)'
<1>1. LockInv /\ BaseInv /\ ReceiveWhenIdle /\ rows \in Seq(Row) /\ rows[i] \in Row
  BY TableRows DEF ContractInv, VerdictInv, RunInv, BaseInv, TypeInv, QueueTypeOK
<1>2. ASSUME NEW r \in Jobs, PublishJob(r)
      PROVE  Behind(i)'
  <2>1. [body |-> r, status |-> "available", count |-> 0, visible |-> TRUE] \in Row
    BY DEF Row, Status
  <2>2. rows'[i] = rows[i] /\ UNCHANGED <<held, wpc>>
    BY <1>1, <1>2, <2>1, InsertRow DEF PublishJob, Publish, workerVars
  <2> QED
    BY <2>2 DEF Behind, IsHead
<1>3. ASSUME NEW r \in Jobs, GatewayStep(r) \/ GatewayAbort(r), ~PublishJob(r)
      PROVE  Behind(i)'
  <2>1. UNCHANGED <<rows, held, wpc>>
    BY <1>3 DEF GatewayStep, GatewayAbort, Lookup, Reserve, PublishFails, Commit,
                CommitConflict, CommitDuplicate, queueVars, workerVars
  <2> QED
    BY <2>1 DEF Behind, IsHead
<1>4. ASSUME NEW w \in Workers, Poll(w)
      PROVE  Behind(i)'
  <2>1. UNCHANGED <<rows, held, wpc>>
    BY <1>4 DEF Poll, ReceiveSelect, workerVars
  <2> QED
    BY <2>1 DEF Behind, IsHead
<1>5. ASSUME NEW w \in Workers, Claim(w)
      PROVE  Behind(i)'
  <2>1. ReceiveCommit(w) /\ UNCHANGED wpc
    BY <1>5 DEF Claim, workerVars
  <2>2. \A m \in reading[w] : m.id # i
    BY <1>1 DEF LockInv, ReadingIsFresh, Behind
  <2>3. rows'[i] = rows[i]
    BY <1>1, <2>1, <2>2, ReceiveCommitRows DEF BaseInv
  <2>4. /\ \A v \in Workers : v # w => held'[v] = held[v]
        /\ \A m \in held'[w] : \E n \in reading[w] : m.id = n.id
    BY <1>1, <2>1 DEF ReceiveCommit, ReceiveWhenIdle, BaseInv, TypeInv, QueueTypeOK, Message
  <2> QED
    BY <2>1, <2>2, <2>3, <2>4 DEF Behind, IsHead
<1>6. ASSUME NEW w \in Workers, SkipCommit(w)
      PROVE  Behind(i)'
  <2>1. /\ UNCHANGED <<rows, held>>
        /\ wpc[w] = "skip_commit"
        /\ \A v \in Workers : v # w => wpc'[v] = wpc[v]
    BY <1>1, <1>6 DEF SkipCommit, Become, queueVars, BaseInv, PipelineTypes
  <2> QED
    BY <2>1 DEF Behind, IsHead
<1>7. ASSUME NEW w \in Workers, WorkerAbort(w)
      PROVE  Behind(i)'
  <2>1. /\ UNCHANGED rows
        /\ held'[w] = {}
        /\ \A v \in Workers : v # w => held'[v] = held[v] /\ wpc'[v] = wpc[v]
    BY <1>1, <1>7 DEF WorkerAbort, Drop, Become, queueVars, BaseInv, TypeInv, QueueTypeOK,
                      PipelineTypes
  <2> QED
    BY <2>1 DEF Behind, IsHead
<1>8. ASSUME NEW k \in DOMAIN rows, Lapse(k)
      PROVE  Behind(i)'
  <2>1. rows'[i].status = rows[i].status /\ UNCHANGED <<held, wpc>>
    BY <1>1, <1>8 DEF Lapse, LockLapse, Row, workerVars
  <2> QED
    BY <2>1 DEF Behind, IsHead
<1>9. CASE UNCHANGED vars
  <2>1. UNCHANGED <<rows, held, wpc>>
    BY <1>9 DEF vars, queueVars, workerVars
  <2> QED
    BY <2>1 DEF Behind, IsHead
<1> QED
  BY <1>2, <1>3, <1>4, <1>5, <1>6, <1>7, <1>8, <1>9, ProcessBehind DEF Next

\* A job succeeds when its run is settled or its duplicate skipped, and by then its
\* message is behind.
LEMMA SucceededStep ==
    ASSUME ContractInv, [Next]_vars
    PROVE  SucceededIsBehind'
<1>1. /\ BaseInv /\ LockInv /\ SingleHolder /\ UniqueBodies /\ PipelineTypes
      /\ SucceededIsBehind /\ SucceededIsPublished
  BY LockInvImplies DEF ContractInv, VerdictInv, RunInv, BaseInv, ContractRest
<1>2. ASSUME NEW w \in Workers, NEW m \in held[w], SettleCommit(w, m)
      PROVE  /\ Behind(m.id)'
             /\ \A r \in Jobs : r # rows[m.id].body => jobs'[r] = jobs[r]
  <2>1. /\ rows[m.id].status = "locked"
        /\ \A v \in Workers : \A n \in held[v] : n.id = m.id => v = w /\ n = m
    BY <1>1 DEF LockInv, ClaimsMatchRows, SingleHolder
  <2>2. UNCHANGED <<rows, held>> /\ IsHead(w, m) /\ wpc'[w] = "complete"
    BY <1>1, <1>2 DEF SettleCommit, At, IsHead, Become, queueVars, PipelineTypes
  <2>3. \A r \in Jobs : r # rows[m.id].body => jobs'[r] = jobs[r]
    BY <1>1, <1>2 DEF SettleCommit, PipelineTypes
  <2> QED
    BY <2>1, <2>2, <2>3 DEF Behind, IsHead
<1>3. ASSUME NEW w \in Workers, SkipCommit(w)
      PROVE  /\ \A r \in Jobs : r # skipping[w].job => jobs'[r] = jobs[r]
             /\ \A i \in DOMAIN rows : rows[i].body = skipping[w].job => Behind(i)
  <2>1. \A r \in Jobs : r # skipping[w].job => jobs'[r] = jobs[r]
    BY <1>1, <1>3 DEF SkipCommit, SetJob, PipelineTypes
  <2>2. PICK i \in DOMAIN rows :
          rows[i].body = skipping[w].job /\ rows[i].status = "completed"
    BY <1>3 DEF SkipCommit, ContractInv, ContractRest, WritersKnow, WriterKnows
  <2>3. Behind(i)
    BY <1>1, <2>2 DEF LockInv, ClaimsMatchRows, Behind
  <2> QED
    BY <1>1, <2>1, <2>2, <2>3 DEF UniqueBodies
<1>4. ASSUME ~\E w \in Workers : SkipCommit(w) \/ \E m \in held[w] : SettleCommit(w, m)
      PROVE  \A r \in Jobs : jobs'[r] = jobs[r] \/ jobs'[r].status # "succeeded"
  <2>1. ASSUME NEW w \in Workers, NEW m \in held[w], Process(w, m)
        PROVE  \A r \in Jobs : jobs'[r] = jobs[r] \/ jobs'[r].status # "succeeded"
    <3>1. \/ UNCHANGED jobs
          \/ \E s \in {"running", "failed", "dead_letter"} : \E n, x, r :
               SetJob(r, Job(s, n, x))
      BY <1>4, <2>1 DEF Process, Guard, GuardDuplicate, SkipComplete, UnknownTool,
                        DeadLetterUnknown, Start, RunOk, RunFails, SettleRead,
                        CompleteMessage, Failure, AbandonMessage, tables
    <3> QED
      BY <1>1, <3>1 DEF SetJob, Job, PipelineTypes
  <2>2. ASSUME NEW r \in Jobs, GatewayStep(r) \/ GatewayAbort(r)
        PROVE  \A q \in Jobs : jobs'[q] = jobs[q] \/ jobs'[q].status # "succeeded"
    <3>1. jobs' = jobs \/ jobs' = [jobs EXCEPT ![r] = Job("queued", 0, NoJob)]
      BY <2>2 DEF GatewayStep, GatewayAbort, Lookup, Reserve, PublishJob, PublishFails,
                  Commit, CommitConflict, CommitDuplicate, tables
    <3> QED
      BY <1>1, <3>1 DEF Job, PipelineTypes
  <2>3. ASSUME NEW w \in Workers, Poll(w) \/ Claim(w) \/ WorkerAbort(w)
        PROVE  UNCHANGED jobs
    BY <2>3 DEF Poll, Claim, WorkerAbort, tables
  <2>4. ASSUME NEW i \in DOMAIN rows, Lapse(i)
        PROVE  UNCHANGED jobs
    BY <2>4 DEF Lapse, tables
  <2>5. CASE UNCHANGED vars
    BY <2>5 DEF vars, tables
  <2> QED
    BY <1>4, <2>1, <2>2, <2>3, <2>4, <2>5 DEF Next
<1>5. ASSUME NEW i \in DOMAIN rows', jobs'[rows'[i].body].status = "succeeded"
      PROVE  Behind(i)'
  <2>1. i \in DOMAIN rows /\ rows'[i].body = rows[i].body /\ rows[i].body \in Jobs
    <3>1. CASE i \in DOMAIN rows
      BY <1>1, <3>1, BodiesStay, TableRows DEF BaseInv, TypeInv, QueueTypeOK, Row
    <3>2. CASE i \notin DOMAIN rows
      <4>1. /\ rows'[i].body \in Jobs \ Published
            /\ \A w \in Workers : ~SkipCommit(w) /\ \A m \in held[w] : ~SettleCommit(w, m)
        <5>1. rows'[i].body \in Jobs \ Published
          BY <1>1, <3>2, NewRow
        <5>2. rows' # rows
          BY <3>2
        <5> QED
          BY <5>1, <5>2 DEF SkipCommit, SettleCommit, queueVars
      <4> QED
        BY <1>1, <1>4, <1>5, <4>1 DEF SucceededIsPublished
    <3> QED
      BY <3>1, <3>2
  <2>2. CASE jobs[rows[i].body].status = "succeeded"
    <3>1. Behind(i)
      BY <1>1, <2>1, <2>2 DEF SucceededIsBehind, Behind
    <3> QED
      BY <2>1, <3>1, BehindStays
  <2>3. CASE jobs[rows[i].body].status # "succeeded"
    <3>1. jobs'[rows[i].body] # jobs[rows[i].body]
      BY <1>5, <2>1, <2>3
    <3>2. ASSUME NEW w \in Workers, NEW m \in held[w], SettleCommit(w, m)
          PROVE  Behind(i)'
      <4>1. rows[i].body = rows[m.id].body
        BY <1>2, <2>1, <3>1, <3>2
      <4>2. i = m.id
        BY <1>1, <2>1, <4>1 DEF UniqueBodies, LockInv, ClaimsMatchRows
      <4> QED
        BY <1>2, <3>2, <4>2
    <3>3. ASSUME NEW w \in Workers, SkipCommit(w)
          PROVE  Behind(i)'
      BY <1>3, <2>1, <3>1, <3>3, BehindStays
    <3>4. \E w \in Workers : SkipCommit(w) \/ \E m \in held[w] : SettleCommit(w, m)
      BY <1>4, <1>5, <2>1, <3>1
    <3> QED
      BY <3>2, <3>3, <3>4
  <2> QED
    BY <2>2, <2>3
<1> QED
  BY <1>5 DEF SucceededIsBehind, Behind

\* What a worker relies on outlives the steps of others.
LEMMA WriterStays ==
    ASSUME ContractInv, [Next]_vars, NEW w \in Workers,
           wpc'[w] = wpc[w], skipping'[w] = skipping[w], held'[w] = held[w]
    PROVE  WriterKnows(w)'
<1>1. /\ BaseInv /\ LockInv /\ WriterKnows(w)
      /\ [QueueNext]_queueVars
      /\ Kept
  BY QueueStep, NextKeeps DEF ContractInv, VerdictInv, RunInv, BaseInv, ContractRest,
                              WritersKnow
<1>2. ASSUME wpc[w] = "skip_commit"
      PROVE  \E i \in DOMAIN rows' :
               rows'[i].body = skipping[w].job /\ rows'[i].status = "completed"
  <2>1. PICK i \in DOMAIN rows :
          rows[i].body = skipping[w].job /\ rows[i].status = "completed"
    BY <1>1, <1>2 DEF WriterKnows
  <2>2. RowKept(i)
    BY <1>1, KeptStep
  <2> QED
    BY <2>1, <2>2 DEF RowKept
<1>3. \A m \in held[w] : /\ rows[m.id].body \in Jobs
                         /\ rows'[m.id].body = rows[m.id].body
  BY <1>1, MessageTypes, BodiesStay DEF BaseInv
<1> QED
  BY <1>1, <1>2, <1>3 DEF WriterKnows, IsHead, HasJob, Kept

\* A worker comes to rely on what it has just seen.
LEMMA ProcessWrites ==
    ASSUME ContractInv, NEW w \in Workers, NEW m \in held[w], Process(w, m)
    PROVE  WriterKnows(w)'
<1>1. /\ BaseInv /\ PipelineTypes /\ WriterKnows(w)
      /\ IsHead(w, m)
      /\ m.id \in DOMAIN rows /\ rows[m.id] \in Row
      /\ \A n \in held[w] : n.id \in Nat
  BY HeadProcessed, MessageTypes DEF ContractInv, VerdictInv, RunInv, BaseInv, ContractRest,
     WritersKnow, TypeInv, QueueTypeOK, Message
<1>2. \A n \in held[w] : IsHead(w, n) => n.id = m.id
  BY <1>1 DEF IsHead
<1>3. CASE GuardDuplicate(w, m)
  <2>1. /\ UNCHANGED <<rows, held>>
        /\ wpc'[w] = "skip"
        /\ skipping'[w].job = rows[m.id].body
    BY <1>1, <1>3 DEF GuardDuplicate, Become, Skip, PipelineTypes, queueVars
  <2> QED
    BY <1>2, <2>1 DEF WriterKnows, IsHead
<1>4. CASE SkipComplete(w, m)
  <2>1. rows[m.id].body = skipping[w].job
    BY <1>1, <1>4 DEF SkipComplete, At, WriterKnows
  <2>2. /\ rows'[m.id].body = rows[m.id].body
        /\ rows'[m.id].status = "completed"
        /\ m.id \in DOMAIN rows'
        /\ skipping' = skipping
        /\ wpc'[w] = "skip_commit"
    BY <1>1, <1>4 DEF SkipComplete, Complete, Become, PipelineTypes, Row
  <2> QED
    BY <2>1, <2>2 DEF WriterKnows
<1>5. CASE SettleRead(w, m)
  <2>1. /\ UNCHANGED <<rows, held, jobs>>
        /\ wpc'[w] = IF HasJob(rows[m.id].body) THEN "settle_found" ELSE "settle_missing"
    BY <1>1, <1>5 DEF SettleRead, Become, PipelineTypes, queueVars, tables
  <2> QED
    BY <1>2, <2>1 DEF WriterKnows, IsHead, HasJob
<1>6. CASE ~(GuardDuplicate(w, m) \/ SkipComplete(w, m) \/ SettleRead(w, m))
  <2>1. \E pc : /\ wpc' = [wpc EXCEPT ![w] = pc]
                /\ pc \notin {"skip", "skip_commit", "settle_found"}
    BY <1>6 DEF Process, Guard, UnknownTool, DeadLetterUnknown, Start, RunOk, RunFails,
                SettleCommit, CompleteMessage, Failure, AbandonMessage, Become
  <2> QED
    BY <1>1, <2>1 DEF WriterKnows, PipelineTypes
<1> QED
  BY <1>3, <1>4, <1>5, <1>6

LEMMA WritersStep ==
    ASSUME ContractInv, [Next]_vars
    PROVE  WritersKnow'
<1>1. BaseInv /\ PipelineTypes /\ ReceiveWhenIdle
  BY DEF ContractInv, VerdictInv, RunInv, BaseInv
<1>2. ASSUME UNCHANGED <<wpc, skipping, held>>
      PROVE  WritersKnow'
  BY <1>2, WriterStays DEF WritersKnow
<1>3. ASSUME NEW w \in Workers, WriterKnows(w)',
             \/ Poll(w) \/ Claim(w) \/ SkipCommit(w) \/ WorkerAbort(w)
             \/ \E m \in held[w] : Process(w, m)
      PROVE  WritersKnow'
  <2>1. \A v \in Workers : v # w =>
          wpc'[v] = wpc[v] /\ skipping'[v] = skipping[v] /\ held'[v] = held[v]
    BY <1>1, <1>3, OthersAlone, BaseIsShared
  <2> QED
    BY <1>3, <2>1, WriterStays DEF WritersKnow
<1>4. ASSUME NEW w \in Workers, Poll(w)
      PROVE  UNCHANGED <<wpc, skipping, held>>
  BY <1>4 DEF Poll, ReceiveSelect, workerVars
<1>5. ASSUME NEW w \in Workers, Claim(w) \/ SkipCommit(w) \/ WorkerAbort(w)
      PROVE  WriterKnows(w)'
  <2>1. wpc'[w] = "idle"
    BY <1>1, <1>5 DEF Claim, ReceiveCommit, ReceiveWhenIdle, SkipCommit, WorkerAbort,
                      Become, PipelineTypes, workerVars
  <2> QED
    BY <2>1 DEF WriterKnows
<1>6. ASSUME NEW r \in Jobs, GatewayStep(r) \/ GatewayAbort(r)
      PROVE  UNCHANGED <<wpc, skipping, held>>
  BY <1>6 DEF GatewayStep, GatewayAbort, Lookup, Reserve, PublishJob, Publish, PublishFails,
              Commit, CommitConflict, CommitDuplicate, queueVars, workerVars
<1>7. ASSUME NEW i \in DOMAIN rows, Lapse(i)
      PROVE  UNCHANGED <<wpc, skipping, held>>
  BY <1>7 DEF Lapse, LockLapse, workerVars
<1>8. CASE UNCHANGED vars
  BY <1>2, <1>8 DEF vars, queueVars, workerVars
<1> QED
  BY <1>2, <1>3, <1>4, <1>5, <1>6, <1>7, <1>8, ProcessWrites DEF Next

\* A worker writes the row of a key it finds, and leaves its owner.
KeyMoves(k, row) ==
    /\ row.status # "absent"
    /\ row.job = idem[k].job
    /\ idem' = [idem EXCEPT ![k] = row]

\* A step accepts a job under a key, moves one key along, or leaves the keys alone.
LEMMA NextMovesKey ==
    ASSUME BaseInv, [Next]_vars
    PROVE  \/ \E r \in Jobs : Commit(r)
           \/ \E k \in Keys : \E row : KeyMoves(k, row)
           \/ UNCHANGED idem
<1>1. ASSUME NEW r \in Jobs, GatewayStep(r) \/ GatewayAbort(r), ~Commit(r)
      PROVE  UNCHANGED idem
  BY <1>1 DEF GatewayStep, GatewayAbort, Lookup, Reserve, PublishJob, PublishFails,
              CommitConflict, CommitDuplicate, tables
<1>2. ASSUME NEW w \in Workers, NEW m \in held[w], Process(w, m)
      PROVE  UNCHANGED idem \/ \E k \in Keys : \E row : KeyMoves(k, row)
  <2> DEFINE r == rows[m.id].body
  <2>1. \/ idem' = idem
        \/ idem' = [idem EXCEPT ![KeyOf[r]] = Key("completed", KeyRowOf(r).job, r)]
    BY <1>2 DEF Process, Guard, GuardDuplicate, SkipComplete, UnknownTool,
                DeadLetterUnknown, Start, RunOk, RunFails, SettleRead, SettleCommit,
                CompleteMessage, Failure, AbandonMessage, tables
  <2>2. KeyOf[r] \in Keys
    BY MessageTypes, PipelineAssumption DEF BaseInv
  <2> QED
    BY <2>1, <2>2 DEF KeyMoves, Key, KeyRowOf
<1>3. ASSUME NEW w \in Workers, Poll(w) \/ Claim(w) \/ SkipCommit(w) \/ WorkerAbort(w)
      PROVE  UNCHANGED idem
  BY <1>3 DEF Poll, Claim, SkipCommit, WorkerAbort, tables
<1>4. ASSUME NEW i \in DOMAIN rows, Lapse(i)
      PROVE  UNCHANGED idem
  BY <1>4 DEF Lapse, tables
<1>5. CASE UNCHANGED vars
  BY <1>5 DEF vars, tables
<1> QED
  BY <1>1, <1>2, <1>3, <1>4, <1>5 DEF Next

\* A request accepts its job, or is told of one, in the step that answers it.
LEMMA FreshStep ==
    ASSUME ContractInv, [Next]_vars
    PROVE  OpenIsFresh' /\ FreeKeysNameNothing'
<1>1. /\ BaseInv /\ PipelineTypes /\ OpenIsFresh /\ FreeKeysNameNothing
  BY DEF ContractInv, KeyInv, BaseInv, ContractRest
<1>2. FreeKeysNameNothing'
  <2>1. ASSUME NEW r \in Jobs, Commit(r)
        PROVE  FreeKeysNameNothing'
    BY <1>1, <2>1 DEF Commit, Key, FreeKeysNameNothing, PipelineTypes
  <2> QED
    BY <1>1, <2>1, NextMovesKey DEF KeyMoves, FreeKeysNameNothing, PipelineTypes
<1>3. ASSUME NEW r \in Jobs, GatewayStep(r) \/ GatewayAbort(r)
      PROVE  OpenIsFresh'
  <2>1. \/ UNCHANGED <<answer, jobs>> /\ gpc[r] # "done" /\ \E pc : GoTo(r, pc)
        \/ /\ \E d, j : Tell(r, d, j)
           /\ jobs' = jobs \/ jobs' = [jobs EXCEPT ![r] = Job("queued", 0, NoJob)]
    BY <1>3 DEF GatewayStep, GatewayAbort, Lookup, Reserve, PublishJob, PublishFails, Commit,
                CommitConflict, CommitDuplicate, tables
  <2>2. ASSUME UNCHANGED <<answer, jobs>>, gpc[r] # "done", NEW pc, GoTo(r, pc)
        PROVE  OpenIsFresh'
    BY <1>1, <2>2 DEF OpenIsFresh, HasJob, GoTo, PipelineTypes
  <2>3. ASSUME NEW d, NEW j, Tell(r, d, j),
               jobs' = jobs \/ jobs' = [jobs EXCEPT ![r] = Job("queued", 0, NoJob)]
        PROVE  OpenIsFresh'
    <3>1. gpc'[r] = "done"
      BY <1>1, <2>3 DEF Tell, GoTo, PipelineTypes
    <3>2. \A q \in Jobs : q # r => gpc'[q] = gpc[q] /\ answer'[q] = answer[q]
      BY <1>1, <2>3 DEF Tell, GoTo, PipelineTypes
    <3>3. \A q \in Jobs : q # r => jobs'[q] = jobs[q]
      BY <1>1, <2>3 DEF PipelineTypes
    <3> QED
      BY <1>1, <3>1, <3>2, <3>3 DEF OpenIsFresh, HasJob
  <2> QED
    BY <2>1, <2>2, <2>3
<1>4. ASSUME UNCHANGED gatewayVars, ~\E r \in Jobs : GatewayStep(r) \/ GatewayAbort(r)
      PROVE  OpenIsFresh'
  <2>1. \A r \in Jobs : ~Commit(r)
    BY <1>4 DEF GatewayStep
  <2>2. \A r \in Jobs : ~HasJob(r) => jobs'[r] = jobs[r]
    BY <1>1, <2>1, NextMovesJob DEF JobMoves, PipelineTypes
  <2> QED
    BY <1>1, <1>4, <2>2 DEF OpenIsFresh, HasJob, gatewayVars
<1> QED
  BY <1>2, <1>3, <1>4, GatewayOrNot

\* The invariant is inductive, given one reader per row.
LEMMA ContractStep == OneReaderPerRow /\ ContractInv /\ [Next]_vars => ContractInv'
<1> SUFFICES ASSUME OneReaderPerRow, ContractInv, [Next]_vars
             PROVE  ContractInv'
  OBVIOUS
<1>1. VerdictInv' /\ KeyInv'
  BY VerdictStep, KeyStep DEF ContractInv
<1>2. ContractRest'
  BY FreshStep, WritersStep, SucceededStep, AttemptsStep DEF ContractRest
<1> QED
  BY <1>1, <1>2 DEF ContractInv

-----------------------------------------------------------------------------
(* The pipeline implements the contract. *)

LEMMA ContractStarts == Init => Contract!Init
BY DEF Init, Contract!Init, Key, Job

\* The commit that adds the key accepts the job, whatever the client hears of it.
LEMMA CommitAccepts ==
    ASSUME ContractInv, NEW r \in Jobs, Commit(r)
    PROVE  Contract!Accept(r)
<1>1. PipelineTypes /\ KeyOf[r] \in Keys /\ OpenIsFresh /\ FreeKeysNameNothing
  BY PipelineAssumption DEF ContractInv, KeyInv, BaseInv, ContractRest
<1>2. /\ idem[KeyOf[r]].job = NoJob
      /\ jobs[r].status = "absent"
      /\ answer[r].job = NoJob
  BY <1>1 DEF Commit, OpenIsFresh, FreeKeysNameNothing, HasKey, HasJob, KeyRowOf
<1>3. /\ idem' = [idem EXCEPT ![KeyOf[r]] = Key("reserved", r, NoJob)]
      /\ jobs' = [jobs EXCEPT ![r] = Job("queued", 0, NoJob)]
      /\ Tell(r, "queued", r) \/ Tell(r, "failed", NoJob)
  BY DEF Commit
<1>4. [k \in Keys |-> idem'[k].job] =
        [[k \in Keys |-> idem[k].job] EXCEPT ![KeyOf[r]] = r]
  BY <1>1, <1>3 DEF Key, PipelineTypes
<1>5. [q \in Jobs |-> jobs'[q].status] =
        [[q \in Jobs |-> jobs[q].status] EXCEPT ![r] = "queued"]
  BY <1>1, <1>3 DEF Job, PipelineTypes
<1>6. \/ [q \in Jobs |-> answer'[q].job] = [q \in Jobs |-> answer[q].job]
      \/ [q \in Jobs |-> answer'[q].job] = [[q \in Jobs |-> answer[q].job] EXCEPT ![r] = r]
  <2>1. CASE Tell(r, "queued", r)
    BY <1>1, <2>1 DEF Tell, PipelineTypes
  <2>2. CASE Tell(r, "failed", NoJob)
    BY <1>1, <1>2, <2>2 DEF Tell, PipelineTypes
  <2> QED
    BY <1>3, <2>1, <2>2
<1> QED
  BY <1>1, <1>2, <1>4, <1>5, <1>6 DEF Contract!Accept

\* The other steps of the gateway tell one client of the job that owns its key, or none.
LEMMA GatewayAnswers ==
    ASSUME ContractInv, NEW r \in Jobs, GatewayStep(r) \/ GatewayAbort(r), ~Commit(r)
    PROVE  Contract!AnswerDuplicate(r) \/ UNCHANGED Contract!contractVars
<1>1. /\ PipelineTypes /\ KeyOf[r] \in Keys
      /\ OpenIsFresh /\ DuplicatesHaveKeys /\ KeysNameJobs
  BY PipelineAssumption DEF ContractInv, KeyInv, BaseInv, ContractRest
<1>2. UNCHANGED <<idem, jobs>>
  BY DEF GatewayStep, GatewayAbort, Lookup, Reserve, PublishJob, PublishFails,
         CommitConflict, CommitDuplicate, tables
<1>3. /\ [k \in Keys |-> idem'[k].job] = [k \in Keys |-> idem[k].job]
      /\ [q \in Jobs |-> jobs'[q].status] = [q \in Jobs |-> jobs[q].status]
  BY <1>2
<1>4. CASE CommitDuplicate(r)
  <2>1. answer[r].job = NoJob /\ idem[KeyOf[r]].job \in Jobs
    BY <1>1, <1>4 DEF CommitDuplicate, OpenIsFresh, DuplicatesHaveKeys, KeysNameJobs, HasKey,
                      KeyRowOf
  <2>2. [q \in Jobs |-> answer'[q].job] =
          [[q \in Jobs |-> answer[q].job] EXCEPT ![r] = idem[KeyOf[r]].job]
    BY <1>1, <1>4 DEF CommitDuplicate, Tell, KeyRowOf, PipelineTypes
  <2> QED
    BY <1>1, <1>3, <2>1, <2>2, PipelineAssumption DEF Contract!AnswerDuplicate
<1>5. CASE answer' = answer
  BY <1>3, <1>5 DEF Contract!contractVars
<1>6. CASE CommitConflict(r) \/ GatewayAbort(r)
  <2>1. answer[r].job = NoJob /\ Tell(r, "error", NoJob)
    BY <1>1, <1>6 DEF CommitConflict, GatewayAbort, OpenIsFresh
  <2>2. [q \in Jobs |-> answer'[q].job] = [q \in Jobs |-> answer[q].job]
    BY <1>1, <2>1 DEF Tell, PipelineTypes
  <2> QED
    BY <1>3, <2>2 DEF Contract!contractVars
<1> QED
  BY <1>4, <1>5, <1>6 DEF GatewayStep, Lookup, Reserve, PublishJob, PublishFails

\* The owner of a key is written once, by the gateway.
LEMMA OwnersStay ==
    ASSUME ContractInv, [Next]_vars, UNCHANGED gatewayVars
    PROVE  /\ \A r \in Jobs : ~Commit(r)
           /\ [k \in Keys |-> idem'[k].job] = [k \in Keys |-> idem[k].job]
<1>1. BaseInv /\ PipelineTypes
  BY DEF ContractInv, KeyInv, BaseInv
<1>2. \A r \in Jobs : ~Commit(r)
  BY <1>1 DEF Commit, Tell, GoTo, gatewayVars, PipelineTypes
<1>3. \A k \in Keys : idem'[k].job = idem[k].job
  BY <1>1, <1>2, NextMovesKey DEF KeyMoves, PipelineTypes
<1> QED
  BY <1>2, <1>3

\* Everything else moves one job along its lifecycle, or is invisible.
LEMMA OthersAdvance ==
    ASSUME ContractInv, [Next]_vars, UNCHANGED gatewayVars
    PROVE  (\E r \in Jobs : Contract!Advance(r)) \/ UNCHANGED Contract!contractVars
<1>1. PipelineTypes
  BY DEF ContractInv, KeyInv, BaseInv
<1>2. /\ [k \in Keys |-> idem'[k].job] = [k \in Keys |-> idem[k].job]
      /\ [q \in Jobs |-> answer'[q].job] = [q \in Jobs |-> answer[q].job]
  BY OwnersStay DEF gatewayVars
<1>3. \A r \in Jobs : ~Commit(r)
  BY OwnersStay
<1>4. CASE UNCHANGED jobs
  BY <1>2, <1>4 DEF Contract!contractVars
<1>5. ASSUME NEW r \in Jobs, NEW row, JobMoves(r, row)
      PROVE  Contract!Advance(r) \/ UNCHANGED Contract!contractVars
  <2>1. [q \in Jobs |-> jobs'[q].status] =
          [[q \in Jobs |-> jobs[q].status] EXCEPT ![r] = row.status]
    BY <1>1, <1>5 DEF JobMoves, PipelineTypes
  <2>2. CASE row.status = jobs[r].status
    <3>1. [q \in Jobs |-> jobs'[q].status] = [q \in Jobs |-> jobs[q].status]
      BY <2>1, <2>2
    <3> QED
      BY <1>2, <3>1 DEF Contract!contractVars
  <2>3. CASE row.status \in Contract!Lifecycle[jobs[r].status]
    BY <1>2, <1>5, <2>1, <2>3 DEF Contract!Advance, JobMoves, HasJob
  <2> QED
    BY <1>5, <2>2, <2>3 DEF JobMoves, Follows
<1> QED
  BY <1>3, <1>4, <1>5, NextMovesJob

\* A step of the pipeline is a step of the contract or invisible to clients.
LEMMA ContractMoves ==
    ASSUME ContractInv, [Next]_vars
    PROVE  [Contract!Next]_(Contract!contractVars)
<1>1. ASSUME NEW r \in Jobs, GatewayStep(r) \/ GatewayAbort(r)
      PROVE  [Contract!Next]_(Contract!contractVars)
  BY <1>1, CommitAccepts, GatewayAnswers DEF Contract!Next
<1>2. CASE UNCHANGED gatewayVars
  BY <1>2, OthersAdvance DEF Contract!Next
<1> QED
  BY <1>1, <1>2, GatewayOrNot

\* Whatever crashes, races or comes late: the owner of a key never changes, a client told
\* of a job is given the owner of its key, and a job that has ended never leaves its end.
THEOREM ContractKept ==
    ASSUME OneReaderPerRow
    PROVE  Spec => ImplementsJobContract
<1>1. Init => ContractInv /\ Contract!Init
  BY ContractInit, ContractStarts
<1>2. ContractInv /\ [Next]_vars => ContractInv'
  BY ContractStep
<1>3. ContractInv /\ [Next]_vars => [Contract!Next]_(Contract!contractVars)
  BY ContractMoves
<1> QED
  BY <1>1, <1>2, <1>3, PTL DEF Spec, ImplementsJobContract, Contract!Spec

-----------------------------------------------------------------------------
(* What a client may conclude from a status and from an answer. *)

\* A job that has ended keeps its end, and the attempts it took.
LEMMA EndsStay ==
    ASSUME ContractInv, [Next]_vars, NEW r \in Jobs, jobs[r].status \in Ends
    PROVE  jobs'[r].status = jobs[r].status /\ jobs'[r].attempts = jobs[r].attempts
<1>1. PipelineTypes /\ HasJob(r)
  BY DEF ContractInv, KeyInv, BaseInv, Ends, HasJob
<1>2. ASSUME NEW q \in Jobs, Commit(q)
      PROVE  jobs'[r] = jobs[r]
  BY <1>1, <1>2 DEF Commit, ContractInv, ContractRest, OpenIsFresh, PipelineTypes
<1>3. ASSUME NEW q \in Jobs, NEW row, JobMoves(q, row)
      PROVE  jobs'[r].status = jobs[r].status /\ jobs'[r].attempts = jobs[r].attempts
  <2>1. Contract!Lifecycle[jobs[r].status] = {}
    BY DEF Ends, Contract!Lifecycle
  <2> QED
    BY <1>1, <1>3, <2>1 DEF JobMoves, Follows, PipelineTypes
<1> QED
  BY <1>2, <1>3, NextMovesJob

\* A job that has left "queued" never returns to it, and its attempts never go down.
LEMMA JobsForward ==
    ASSUME ContractInv, [Next]_vars, NEW r \in Jobs, HasJob(r)
    PROVE  /\ jobs'[r].attempts >= jobs[r].attempts
           /\ jobs'[r].status = "queued" => jobs[r].status = "queued"
<1>1. PipelineTypes /\ jobs[r] \in JobRow
  BY DEF ContractInv, KeyInv, BaseInv, PipelineTypes
<1>2. ASSUME NEW q \in Jobs, Commit(q)
      PROVE  jobs'[r] = jobs[r]
  BY <1>1, <1>2 DEF Commit, ContractInv, ContractRest, OpenIsFresh, PipelineTypes
<1>3. ASSUME NEW q \in Jobs, NEW row, JobMoves(q, row)
      PROVE  jobs'[r] = jobs[r] \/ Follows(jobs[r], jobs'[r])
  BY <1>1, <1>3 DEF JobMoves, PipelineTypes
<1>4. "queued" \notin Contract!Lifecycle[jobs[r].status]
  <2>1. jobs[r].status \in {"queued", "running", "failed", "succeeded", "dead_letter"}
    BY <1>1 DEF HasJob, JobRow, JobStatus
  <2> QED
    BY <2>1 DEF Contract!Lifecycle
<1>5. jobs[r].attempts \in Nat
  BY <1>1 DEF JobRow
<1>6. jobs'[r] = jobs[r] \/ Follows(jobs[r], jobs'[r])
  BY <1>2, <1>3, NextMovesJob
<1>7. CASE jobs'[r] = jobs[r]
  BY <1>5, <1>7
<1>8. CASE Follows(jobs[r], jobs'[r])
  BY <1>4, <1>8 DEF Follows
<1> QED
  BY <1>6, <1>7, <1>8

\* An answer other than an error means that the key is taken, and names a job only if
\* it is "queued".
AnswersMean ==
    \A r \in Jobs :
        /\ gpc[r] = "done" /\ answer[r].decision # "error" => HasKey(r)
        /\ answer[r].job # NoJob => answer[r].decision = "queued"

\* An answer is given once.
LEMMA AnsweredOnce ==
    ASSUME PipelineTypes, [Next]_vars, NEW r \in Jobs, gpc[r] = "done"
    PROVE  gpc'[r] = "done" /\ answer'[r] = answer[r]
<1>1. ASSUME NEW q \in Jobs, GatewayStep(q) \/ GatewayAbort(q)
      PROVE  gpc'[r] = gpc[r] /\ answer'[r] = answer[r]
  <2>1. /\ gpc[q] # "done"
        /\ \E pc : gpc' = [gpc EXCEPT ![q] = pc]
        /\ answer' = answer \/ \E a : answer' = [answer EXCEPT ![q] = a]
    BY <1>1 DEF GatewayStep, GatewayAbort, Lookup, Reserve, PublishJob, PublishFails, Commit,
                CommitConflict, CommitDuplicate, Tell, GoTo
  <2> QED
    BY <2>1 DEF PipelineTypes
<1> QED
  BY <1>1, GatewayOrNot DEF gatewayVars

LEMMA AnswersMeanStep ==
    ASSUME KeyInv, AnswersMean, [Next]_vars
    PROVE  AnswersMean'
<1>1. PipelineTypes /\ \A r \in Jobs : KeyOf[r] \in Keys
  BY PipelineAssumption DEF KeyInv, BaseInv
<1>2. \A r \in Jobs : HasKey(r) => HasKey(r)'
  BY <1>1, NextKeeps DEF KeyInv, Kept, HasKey, KeyRowOf
<1>3. ASSUME NEW r \in Jobs, GatewayStep(r) \/ GatewayAbort(r)
      PROVE  AnswersMean'
  <2>1. \/ UNCHANGED answer /\ \E pc : pc # "done" /\ GoTo(r, pc)
        \/ Commit(r) /\ Tell(r, "queued", r)
        \/ Commit(r) /\ Tell(r, "failed", NoJob)
        \/ Tell(r, "error", NoJob)
        \/ gpc[r] = "duplicate" /\ \E j : Tell(r, "queued", j)
    BY <1>3 DEF GatewayStep, GatewayAbort, Lookup, Reserve, PublishJob, PublishFails, Commit,
                CommitConflict, CommitDuplicate
  <2>2. Commit(r) => HasKey(r)'
    BY <1>1 DEF Commit, HasKey, KeyRowOf, Key, PipelineTypes
  <2>3. gpc[r] = "duplicate" => HasKey(r)
    BY DEF KeyInv, DuplicatesHaveKeys
  <2>4. ASSUME UNCHANGED answer, NEW pc, pc # "done", GoTo(r, pc)
        PROVE  AnswersMean'
    BY <1>1, <1>2, <2>4 DEF AnswersMean, GoTo, PipelineTypes
  <2>5. ASSUME NEW d, NEW j, Tell(r, d, j), d # "error" => HasKey(r)',
               j # NoJob => d = "queued"
        PROVE  AnswersMean'
    BY <1>1, <1>2, <2>5 DEF AnswersMean, Tell, GoTo, PipelineTypes
  <2> QED
    BY <1>2, <2>1, <2>2, <2>3, <2>4, <2>5
<1>4. CASE UNCHANGED gatewayVars
  BY <1>2, <1>4 DEF AnswersMean, gatewayVars
<1> QED
  BY <1>3, <1>4, GatewayOrNot

\* A request that found its key taken publishes nothing.
LEMMA TakenPublishesNothing ==
    ASSUME KeyInv, [Next]_vars, NEW r \in Jobs, HasKey(r),
           gpc[r] \in {"start", "duplicate", "done"}, r \notin Published
    PROVE  gpc'[r] \in {"start", "duplicate", "done"} /\ r \notin Published'
<1>1. BaseInv /\ PipelineTypes
  BY DEF KeyInv, BaseInv
<1>2. gpc'[r] \in {"start", "duplicate", "done"}
  <2>1. ASSUME NEW q \in Jobs, GatewayStep(q) \/ GatewayAbort(q)
        PROVE  \E pc : /\ gpc' = [gpc EXCEPT ![q] = pc]
                       /\ q = r => pc \in {"start", "duplicate", "done"}
    BY <2>1 DEF GatewayStep, GatewayAbort, Lookup, Reserve, PublishJob, PublishFails, Commit,
                CommitConflict, CommitDuplicate, Tell, GoTo
  <2> QED
    BY <1>1, <2>1, GatewayOrNot DEF PipelineTypes, gatewayVars
<1>3. ASSUME NEW q \in Jobs, PublishJob(q)
      PROVE  r \notin Published'
  <2>1. Published' = Published \cup {q} /\ q # r
    BY <1>1, <1>3, PublishAdds DEF PublishJob, BaseInv, TypeInv, QueueTypeOK
  <2> QED
    BY <2>1
<1> QED
  BY <1>1, <1>2, <1>3, PipelineStep, QuietAddsNothing DEF BaseInv

-----------------------------------------------------------------------------
(***************************************************************************)
(* The agent.  Its requests share a key, so from its first answer on the   *)
(* key is taken: what it polls is the owner of the key, and what it        *)
(* submits again finds the key.                                            *)
(***************************************************************************)
SessionTypes ==
    /\ at \in {"submit", "poll", "stop", "again", "end", "failed"}
    /\ call \in 1 .. Len(Script)
    /\ polls \in Nat
    /\ seen \in [job: JobOrNone, status: JobStatus, attempts: Nat]

UnsentAreFresh == \A r \in Unsent : gpc[r] = "start"

\* What is known of the request the agent is at.
CallKnown ==
    /\ at \in {"poll", "stop", "again", "end"} => HasKey(Current)
    /\ at = "poll" => gpc[Current] = "done" /\ answer[Current].job \in Jobs
    /\ at \in {"again", "end"} =>
         /\ gpc[Current] \in {"start", "duplicate", "done"}
         /\ Current \notin Published

SeenIsOwner ==
    seen # NothingSeen =>
        /\ seen.job \in Jobs
        /\ HasJob(seen.job)
        /\ HasKey(Current)
        /\ seen.job = KeyRowOf(Current).job

SeenIsPast ==
    seen # NothingSeen =>
        /\ seen.attempts <= jobs[seen.job].attempts
        /\ seen.status = "running" => jobs[seen.job].status # "queued"

SessionRest ==
    /\ UnsentAreFresh
    /\ CallKnown
    /\ SeenIsOwner
    /\ SeenIsPast
    /\ WhatEndedStays

SessionInv == ContractInv /\ AnswersMean /\ SessionTypes /\ SessionRest

\* A step of the session is a step of the pipeline, or invisible to it.
LEMMA SessionStep == [Agent \/ Others]_sessionVars => [Next]_vars
BY DEF Agent, Others, FirstAnswer, PollJob, Resubmit, SecondAnswer, CallFails, StartAgain,
       sessionVars

\* The requests of the script are requests under one key.
LEMMA ScriptKnown ==
    /\ Len(Script) \in Nat \ {0}
    /\ \A n \in 1 .. Len(Script) : Script[n] \in Jobs
    /\ \A a, b \in 1 .. Len(Script) : KeyOf[Script[a]] = KeyOf[Script[b]]
BY ScriptAssumption

LEMMA CurrentKnown ==
    ASSUME SessionTypes
    PROVE  /\ Current \in Jobs
           /\ KeyOf[Current] \in Keys
           /\ call < Len(Script) =>
                /\ call + 1 \in 1 .. Len(Script)
                /\ Script[call + 1] \in Jobs
                /\ Script[call + 1] \in Unsent
                /\ KeyOf[Script[call + 1]] = KeyOf[Current]
<1>1. call \in 1 .. Len(Script) /\ Len(Script) \in Nat
  BY ScriptKnown DEF SessionTypes
<1>2. call < Len(Script) => call + 1 \in 1 .. Len(Script) /\ call + 1 \in call + 1 .. Len(Script)
  BY <1>1
<1> QED
  BY <1>1, <1>2, ScriptKnown, PipelineAssumption DEF Current, Unsent

\* The session starts with nothing asked and nothing seen.
LEMMA SessionStarts == SessionInit => SessionInv
<1> SUFFICES ASSUME SessionInit PROVE SessionInv
  OBVIOUS
<1>1. ContractInv
  BY ContractInit DEF SessionInit
<1>2. AnswersMean
  BY DEF SessionInit, Init, AnswersMean
<1>3. SessionTypes
  BY ScriptKnown DEF SessionInit, SessionTypes, NothingSeen, View, JobOrNone, JobStatus
<1>4. \A r \in Unsent : r \in Jobs
  BY <1>3, ScriptKnown DEF Unsent, SessionTypes
<1>5. SessionRest
  BY <1>4 DEF SessionInit, Init, SessionRest, UnsentAreFresh, CallKnown, SeenIsOwner,
              SeenIsPast, WhatEndedStays, NothingSeen, View
<1> QED
  BY <1>1, <1>2, <1>3, <1>5 DEF SessionInv

\* Whatever the others do, what the agent knows stays true.
LEMMA OthersKeepSession ==
    ASSUME SessionInv, [Next]_vars, UNCHANGED agentVars,
           \A r \in Unsent : gpc'[r] = gpc[r]
    PROVE  SessionTypes' /\ SessionRest'
<1>1. /\ ContractInv /\ KeyInv /\ PipelineTypes /\ SessionTypes /\ Kept
      /\ Current \in Jobs
      /\ KeyOf[Current] \in Keys
  BY CurrentKnown, NextKeeps DEF SessionInv, ContractInv, KeyInv, BaseInv
<1>2. /\ at' = at /\ call' = call /\ polls' = polls /\ seen' = seen
      /\ Current' = Current /\ Unsent' = Unsent
  BY DEF agentVars, Current, Unsent
<1>3. HasKey(Current) => HasKey(Current)' /\ KeyRowOf(Current)'.job = KeyRowOf(Current).job
  BY <1>1, <1>2 DEF Kept, HasKey, KeyRowOf
<1>4. SessionTypes'
  BY <1>1, <1>2 DEF SessionTypes
<1>5. UnsentAreFresh'
  BY <1>2 DEF SessionInv, SessionRest, UnsentAreFresh
<1>6. CallKnown'
  <2>1. CallKnown
    BY DEF SessionInv, SessionRest
  <2>2. at = "poll" => gpc'[Current] = "done" /\ answer'[Current].job \in Jobs
    BY <1>1, <2>1, AnsweredOnce DEF CallKnown
  <2>3. at \in {"again", "end"} =>
          gpc'[Current] \in {"start", "duplicate", "done"} /\ Current \notin Published'
    BY <1>1, <2>1, TakenPublishesNothing DEF CallKnown
  <2> QED
    BY <1>2, <1>3, <2>1, <2>2, <2>3 DEF CallKnown
<1>7. SeenIsOwner'
  BY <1>1, <1>2, <1>3 DEF SessionInv, SessionRest, SeenIsOwner, Kept, HasJob, NothingSeen, View
<1>8. ASSUME seen # NothingSeen
      PROVE  /\ seen.attempts <= jobs'[seen.job].attempts
             /\ seen.status = "running" => jobs'[seen.job].status # "queued"
  <2>1. /\ seen.job \in Jobs /\ HasJob(seen.job)
        /\ seen.attempts <= jobs[seen.job].attempts
        /\ seen.status = "running" => jobs[seen.job].status # "queued"
    BY <1>8 DEF SessionInv, SessionRest, SeenIsOwner, SeenIsPast
  <2>2. /\ jobs'[seen.job].attempts >= jobs[seen.job].attempts
        /\ jobs'[seen.job].status = "queued" => jobs[seen.job].status = "queued"
    BY <1>1, <2>1, JobsForward
  <2>3. /\ seen.attempts \in Nat
        /\ jobs[seen.job].attempts \in Nat
        /\ jobs'[seen.job].attempts \in Nat
    <3>1. PipelineTypes'
      BY <1>1, PipelineTypesStep DEF KeyInv
    <3> QED
      BY <1>1, <2>1, <3>1 DEF SessionTypes, PipelineTypes, JobRow
  <2> QED
    BY <2>1, <2>2, <2>3
<1>9. SeenIsPast'
  BY <1>2, <1>8 DEF SeenIsPast, NothingSeen, View
<1>10. WhatEndedStays'
  <2>1. seen.status \in Ends => seen # NothingSeen
    BY DEF NothingSeen, View, Ends
  <2>2. seen.status \in Ends => seen.job \in Jobs /\ jobs[seen.job].status = seen.status
                                /\ jobs[seen.job].attempts = seen.attempts
    BY <2>1 DEF SessionInv, SessionRest, SeenIsOwner, WhatEndedStays, Ends
  <2>3. seen.status \in Ends => /\ jobs'[seen.job].status = seen.status
                                /\ jobs'[seen.job].attempts = seen.attempts
    BY <1>1, <2>2, EndsStay
  <2> QED
    BY <1>2, <2>3 DEF WhatEndedStays, Ends
<1> QED
  BY <1>4, <1>5, <1>6, <1>7, <1>9, <1>10 DEF SessionRest

\* The job the agent polls is the owner of its key, and in the table.
LEMMA PolledIsOwner ==
    ASSUME SessionInv, at = "poll"
    PROVE  /\ answer[Current].job \in Jobs
           /\ HasJob(answer[Current].job)
           /\ HasKey(Current)
           /\ answer[Current].job = KeyRowOf(Current).job
<1>1. Current \in Jobs /\ KeyOf[Current] \in Keys
  BY CurrentKnown DEF SessionInv
<1>2. answer[Current].job \in Jobs
  BY DEF SessionInv, SessionRest, CallKnown
<1>3. answer[Current].decision = "queued"
  BY <1>1, <1>2, PipelineAssumption DEF SessionInv, AnswersMean
<1>4. HasKey(Current) /\ answer[Current].job = KeyRowOf(Current).job
  BY <1>1, <1>3 DEF SessionInv, ContractInv, KeyInv, AnswersRepeatKeys
<1> QED
  BY <1>1, <1>2, <1>4 DEF SessionInv, ContractInv, KeyInv, KeysNameJobs, HasKey, KeyRowOf

\* The first answer: if it names a job, the key is taken by it.
LEMMA FirstAnswerKeeps ==
    ASSUME SessionInv, FirstAnswer
    PROVE  SessionTypes' /\ SessionRest'
<1>1. /\ UNCHANGED <<vars, call, polls, seen>>
      /\ at = "submit"
      /\ at' = IF answer[Current].job = NoJob THEN "stop" ELSE "poll"
      /\ gpc[Current] = "done" /\ answer[Current].decision # "error"
      /\ Current \in Jobs
  BY CurrentKnown DEF FirstAnswer, Heard, Failed, SessionInv
<1>2. UNCHANGED <<rows, idem, jobs, gpc, answer, call, polls, seen>>
  BY <1>1 DEF vars, queueVars, tables, gatewayVars
<1>3. HasKey(Current)
  BY <1>1 DEF SessionInv, AnswersMean
<1>4. answer[Current].job \in JobOrNone
  BY <1>1 DEF SessionInv, ContractInv, KeyInv, BaseInv, PipelineTypes
<1>5. CallKnown'
  BY <1>1, <1>2, <1>3, <1>4 DEF CallKnown, Current, HasKey, KeyRowOf, JobOrNone
<1>6. SessionTypes'
  BY <1>1, <1>2 DEF SessionInv, SessionTypes
<1> QED
  BY <1>2, <1>5, <1>6 DEF SessionInv, SessionRest, UnsentAreFresh, Unsent, SeenIsOwner,
                          SeenIsPast, WhatEndedStays, Current, HasKey, KeyRowOf, HasJob

\* A poll shows the job that owns the key, as it is now.
LEMMA PollKeeps ==
    ASSUME SessionInv, PollJob
    PROVE  SessionTypes' /\ SessionRest' /\ at' # "lost"
<1> DEFINE j == answer[Current].job
<1>1. /\ UNCHANGED <<rows, idem, jobs, gpc, answer, call>>
      /\ at = "poll"
      /\ seen' = View(j, jobs[j].status, jobs[j].attempts)
      /\ polls' = polls + 1
  BY DEF PollJob, vars, queueVars, tables, gatewayVars
<1>2. /\ j \in Jobs /\ HasJob(j)
      /\ HasKey(Current) /\ j = KeyRowOf(Current).job
      /\ jobs[j] \in JobRow
  BY <1>1, PolledIsOwner DEF SessionInv, ContractInv, KeyInv, BaseInv, PipelineTypes
<1>3. /\ seen'.job = j
      /\ seen'.status = jobs[j].status
      /\ seen'.attempts = jobs[j].attempts
      /\ seen' \in [job: JobOrNone, status: JobStatus, attempts: Nat]
  BY <1>1, <1>2 DEF View, JobRow, JobOrNone
<1>4. at' \in {"stop", "poll"}
  BY <1>2 DEF PollJob, HasJob
<1>5. SessionTypes'
  BY <1>1, <1>3, <1>4 DEF SessionInv, SessionTypes
<1>6. CallKnown'
  BY <1>1, <1>4 DEF SessionInv, SessionRest, CallKnown, Current, HasKey, KeyRowOf
<1>7. Current' = Current /\ (HasKey(Current) <=> HasKey(Current)')
      /\ KeyRowOf(Current)' = KeyRowOf(Current)
  BY <1>1 DEF Current, HasKey, KeyRowOf
<1>8. SeenIsOwner'
  BY <1>1, <1>2, <1>3, <1>7 DEF SeenIsOwner, HasJob
<1>9. SeenIsPast'
  <2>1. jobs[j].attempts \in Nat
    BY <1>2 DEF JobRow
  <2> QED
    BY <1>1, <1>3, <2>1 DEF SeenIsPast
<1>10. WhatEndedStays'
  BY <1>1, <1>3 DEF WhatEndedStays
<1> QED
  BY <1>1, <1>4, <1>5, <1>6, <1>8, <1>9, <1>10
     DEF SessionInv, SessionRest, UnsentAreFresh, Unsent

\* The next request of the script has not been made, so it has published nothing; if the
\* key is taken by then, it never will.
LEMMA ResubmitKeeps ==
    ASSUME SessionInv, Resubmit
    PROVE  SessionTypes' /\ SessionRest'
<1>1. /\ UNCHANGED <<rows, idem, jobs, gpc, answer, polls, seen>>
      /\ at = "stop" /\ at' = "again"
      /\ call < Len(Script) /\ call' = call + 1
  BY DEF Resubmit, vars, queueVars, tables, gatewayVars
<1>2. /\ Current' = Script[call + 1]
      /\ Current' \in Jobs
      /\ Current' \in Unsent
      /\ KeyOf[Current'] = KeyOf[Current]
      /\ call' \in 1 .. Len(Script)
  BY <1>1, CurrentKnown DEF SessionInv, Current
<1>3. gpc[Current'] = "start" /\ Current' \notin Published
  BY <1>2 DEF SessionInv, SessionRest, UnsentAreFresh, ContractInv, KeyInv, BaseInv,
              UnpublishedYet, Early
<1>4. HasKey(Current)' = HasKey(Current) /\ KeyRowOf(Current)' = KeyRowOf(Current)
  BY <1>1, <1>2 DEF HasKey, KeyRowOf
<1>5. HasKey(Current)
  BY <1>1 DEF SessionInv, SessionRest, CallKnown
<1>6. UnsentAreFresh'
  <2>1. call \in Int /\ Len(Script) \in Int
    BY ScriptKnown DEF SessionInv, SessionTypes
  <2>2. Unsent' \subseteq Unsent
    BY <1>1, <2>1 DEF Unsent
  <2> QED
    BY <1>1, <2>2 DEF SessionInv, SessionRest, UnsentAreFresh
<1>7. CallKnown'
  BY <1>1, <1>3, <1>4, <1>5 DEF CallKnown, Published
<1>8. SeenIsOwner' /\ SeenIsPast' /\ WhatEndedStays'
  BY <1>1, <1>4 DEF SessionInv, SessionRest, SeenIsOwner, SeenIsPast, WhatEndedStays, HasJob,
                    NothingSeen, View
<1>9. SessionTypes'
  BY <1>1, <1>2 DEF SessionInv, SessionTypes
<1> QED
  BY <1>6, <1>7, <1>8, <1>9 DEF SessionRest

\* Started again, the script makes its next request and has seen nothing.
LEMMA StartAgainKeeps ==
    ASSUME SessionInv, StartAgain
    PROVE  SessionTypes' /\ SessionRest'
<1>1. /\ UNCHANGED <<gpc>>
      /\ at' = "submit" /\ seen' = NothingSeen /\ polls' = 0
      /\ call < Len(Script) /\ call' = call + 1
  BY DEF StartAgain, vars, gatewayVars
<1>2. call \in 1 .. Len(Script) /\ Len(Script) \in Nat
  BY ScriptKnown DEF SessionInv, SessionTypes
<1>3. Unsent' \subseteq Unsent
  BY <1>1, <1>2 DEF Unsent
<1>4. SessionTypes'
  BY <1>1, <1>2 DEF SessionTypes, NothingSeen, View, JobOrNone, JobStatus
<1> QED
  BY <1>1, <1>3, <1>4 DEF SessionInv, SessionRest, UnsentAreFresh, CallKnown, SeenIsOwner,
                          SeenIsPast, WhatEndedStays, NothingSeen, View

\* The second answer, and the failure of a call, end the script.
LEMMA EndingKeeps ==
    ASSUME SessionInv, SecondAnswer \/ CallFails
    PROVE  SessionTypes' /\ SessionRest'
<1>1. /\ UNCHANGED <<rows, idem, jobs, gpc, answer, call, polls, seen>>
      /\ \/ at = "again" /\ at' = "end"
         \/ at' = "failed"
  BY DEF SecondAnswer, CallFails, vars, queueVars, tables, gatewayVars
<1>2. SessionTypes'
  BY <1>1 DEF SessionInv, SessionTypes
<1>3. CallKnown'
  BY <1>1 DEF SessionInv, SessionRest, CallKnown, Current, HasKey, KeyRowOf, Published
<1> QED
  BY <1>1, <1>2, <1>3 DEF SessionInv, SessionRest, UnsentAreFresh, Unsent, SeenIsOwner,
                          SeenIsPast, WhatEndedStays, Current, HasKey, KeyRowOf, HasJob

\* The session's invariant is inductive, given one reader per row.
LEMMA SessionInvStep ==
    OneReaderPerRow /\ SessionInv /\ [Agent \/ Others]_sessionVars => SessionInv'
<1> SUFFICES ASSUME OneReaderPerRow, SessionInv, [Agent \/ Others]_sessionVars
             PROVE  SessionInv'
  OBVIOUS
<1>1. [Next]_vars
  BY SessionStep
<1>2. ContractInv'
  BY <1>1, ContractStep DEF SessionInv
<1>3. AnswersMean'
  BY <1>1, AnswersMeanStep DEF SessionInv, ContractInv
<1>4. ASSUME Agent PROVE SessionTypes' /\ SessionRest'
  BY <1>4, FirstAnswerKeeps, PollKeeps, ResubmitKeeps, StartAgainKeeps, EndingKeeps DEF Agent
<1>5. ASSUME Others PROVE SessionTypes' /\ SessionRest'
  BY <1>1, <1>5, OthersKeepSession DEF Others
<1>6. ASSUME UNCHANGED sessionVars PROVE SessionTypes' /\ SessionRest'
  BY <1>1, <1>6, OthersKeepSession DEF sessionVars, vars, gatewayVars
<1> QED
  BY <1>2, <1>3, <1>4, <1>5, <1>6 DEF SessionInv

\* What is known of the request made again, and of what was polled, is the property.
LEMMA SessionInvImplies == SessionInv => WhatEndedStays /\ ResubmissionIsFree
<1> SUFFICES ASSUME SessionInv PROVE ResubmissionIsFree
  BY DEF SessionInv, SessionRest
<1>1. Current \in Jobs
  BY CurrentKnown DEF SessionInv
<1>2. ASSUME at \in {"again", "end"}
      PROVE  Current \notin Published /\ executed[Current] = 0
  BY <1>1, <1>2 DEF SessionInv, SessionRest, CallKnown, ContractInv, VerdictInv, RunInv,
                    UnpublishedNotRun
<1>3. ASSUME answer[Current].decision = "queued", seen # NothingSeen
      PROVE  answer[Current].job = seen.job
  BY <1>1, <1>3 DEF SessionInv, SessionRest, SeenIsOwner, ContractInv, KeyInv,
                    AnswersRepeatKeys
<1> QED
  BY <1>2, <1>3 DEF ResubmissionIsFree

\* A poll finds the job, and finds it no earlier than the poll before did.
LEMMA PollsStep ==
    ASSUME SessionInv, [Agent \/ Others]_sessionVars
    PROVE  /\ at' # "lost"
           /\ polls' > polls /\ polls > 0 =>
                /\ seen'.attempts >= seen.attempts
                /\ seen.status = "running" => seen'.status # "queued"
<1>1. polls \in Nat /\ at # "lost"
  BY DEF SessionInv, SessionTypes
<1>2. CASE PollJob
  <2> DEFINE j == answer[Current].job
  <2>1. /\ j \in Jobs /\ at' # "lost"
        /\ seen # NothingSeen => seen.job = j
    BY <1>2, PollKeeps, PolledIsOwner DEF PollJob, SessionInv, SessionRest, SeenIsOwner
  <2>2. seen' = View(j, jobs[j].status, jobs[j].attempts)
    BY <1>2 DEF PollJob
  <2>3. /\ seen.attempts \in Nat
        /\ jobs[j].attempts \in Nat
    BY <2>1 DEF SessionInv, SessionTypes, ContractInv, KeyInv, BaseInv, PipelineTypes, JobRow
  <2>4. CASE seen = NothingSeen
    BY <2>1, <2>2, <2>3, <2>4 DEF NothingSeen, View
  <2>5. CASE seen # NothingSeen
    <3>1. seen.attempts <= jobs[j].attempts
          /\ (seen.status = "running" => jobs[j].status # "queued")
      BY <2>1, <2>5 DEF SessionInv, SessionRest, SeenIsPast
    <3> QED
      BY <2>1, <2>2, <2>3, <3>1 DEF View
  <2> QED
    BY <2>4, <2>5
<1>3. CASE ~PollJob
  <2>1. polls' = polls \/ polls' = 0
    BY <1>3 DEF Agent, Others, FirstAnswer, Resubmit, SecondAnswer, CallFails, StartAgain,
                agentVars, sessionVars
  <2>2. at' # "lost"
    BY <1>1, <1>3 DEF Agent, Others, FirstAnswer, Resubmit, SecondAnswer, CallFails,
                      StartAgain, agentVars, sessionVars
  <2> QED
    BY <1>1, <2>1, <2>2
<1> QED
  BY <1>2, <1>3

\* The client is one of the pipeline's environments: a session, seen without the
\* agent's own variables, is a behaviour of the pipeline, so all that is proved of
\* the pipeline holds of it.
THEOREM SessionIsPipeline == SessionSpec => Spec
<1>1. SessionInit => Init
  BY DEF SessionInit
<1>2. [Agent \/ Others]_sessionVars => [Next]_vars
  BY SessionStep
<1> QED
  BY <1>1, <1>2, PTL DEF SessionSpec, Spec

\* The session's invariant holds throughout, given one reader per row.
LEMMA SessionInvHolds == ASSUME OneReaderPerRow PROVE SessionSpec => []SessionInv
<1>1. SessionInv /\ [Agent \/ Others]_sessionVars => SessionInv'
  BY SessionInvStep
<1> QED
  BY <1>1, SessionStarts, PTL DEF SessionSpec

\* With row locks or a single worker, the "succeeded" or "dead_letter" at which run_demo
\* stopped polling is what the job's row shows ever after, with the same attempts.
THEOREM WhatEndedKept == ASSUME OneReaderPerRow PROVE SessionSpec => []WhatEndedStays
<1> QED
  BY SessionInvHolds, SessionInvImplies, PTL

\* With row locks or a single worker, "re-submit with the same key -> same job, no new
\* work" of agent.py:
\* the request made again publishes and runs nothing, and is told the job polled.
THEOREM ResubmissionKept == ASSUME OneReaderPerRow PROVE SessionSpec => []ResubmissionIsFree
<1> QED
  BY SessionInvHolds, SessionInvImplies, PTL

\* With row locks or a single worker, no poll of run_demo misses the job, and from one
\* poll to the next the job never goes back to "queued" nor to fewer attempts.
THEOREM PollsKept == ASSUME OneReaderPerRow PROVE SessionSpec => PollsMoveForward
<1> QED
  BY SessionInvHolds, PollsStep, PTL DEF SessionSpec, PollsMoveForward
=============================================================================
