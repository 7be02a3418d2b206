---------------------------- MODULE SuccessProofs ----------------------------
(***************************************************************************)
(* Success is real, with or without row locks.  What is written as the     *)
(* output of a run has been through a worker's memory or an open guard     *)
(* transaction, so the invariant says what is true of both.  What the      *)
(* steps shared by both queues keep is stated without the queue.           *)
(***************************************************************************)
EXTENDS AsyncPipelineProofs

\* The tool succeeded for message j, which carries the key k.
Real(j, k) == j \in Jobs /\ executed[j] > 0 /\ KeyOf[j] = k

JobsReal == \A r \in Jobs : jobs[r].status = "succeeded" => Real(jobs[r].result, KeyOf[r])

KeysReal == \A k \in Keys : idem[k].status = "completed" => Real(idem[k].result, k)

\* A worker receives only between two batches; the output its open guard transaction
\* will write is real; and the tool of the message it is about to settle has run.
WorkerKnows(w) ==
    /\ reading[w] # {} => wpc[w] = "idle" /\ held[w] = {}
    /\ wpc[w] \in {"skip", "skip_commit"} =>
         Real(skipping[w].result, KeyOf[skipping[w].job])
    /\ wpc[w] \in {"settle", "settle_found", "settle_missing"} =>
         \A m \in held[w] : (\A n \in held[w] : m.id <= n.id) =>
             executed[rows[m.id].body] > 0

WorkersKnow == \A w \in Workers : WorkerKnows(w)

SuccessRest == JobsReal /\ KeysReal /\ WorkersKnow

SuccessInv == BaseInv /\ SuccessRest

LEMMA SuccessInvImplies == SuccessInv => SuccessIsReal
BY DEF SuccessInv, SuccessRest, JobsReal, KeysReal, Real, SuccessIsReal

\* Nothing has succeeded initially.
LEMMA SuccessInit == Init => SuccessInv
<1> SUFFICES ASSUME Init PROVE SuccessInv
  OBVIOUS
<1>1. BaseInv
  BY BaseInit
<1> QED
  BY <1>1, PipelineAssumption
     DEF Init, QueueInit, Job, Key, SuccessInv, SuccessRest, JobsReal, KeysReal,
         WorkersKnow, WorkerKnows

-----------------------------------------------------------------------------
(* What every step keeps. *)

\* A row stays, with its body.
LEMMA BodiesStay ==
    ASSUME BaseInv, [Next]_vars, NEW i \in DOMAIN rows
    PROVE  i \in DOMAIN rows' /\ rows'[i].body = rows[i].body
<1>1. ASSUME NEW r \in Jobs, PublishJob(r)
      PROVE  i \in DOMAIN rows' /\ rows'[i].body = rows[i].body
  <2> DEFINE row == [body |-> r, status |-> "available", count |-> 0, visible |-> TRUE]
  <2>1. row \in Row
    BY DEF Row, Status
  <2>2. rows' = Append(rows, row)
    BY <1>1 DEF PublishJob, Publish
  <2> QED
    BY <2>1, <2>2 DEF BaseInv, TypeInv, QueueTypeOK
<1> QED
  BY <1>1, PipelineStep, QuietAddsNothing DEF BaseInv

\* What has run stays so, and rows keep their bodies.
KeepsRuns == \A j \in Jobs : executed[j] > 0 => executed'[j] > 0
KeepsBodies == \A i \in DOMAIN rows : i \in DOMAIN rows' /\ rows'[i].body = rows[i].body

LEMMA SharedKeeps ==
    ASSUME SharedInv, SharedNext
    PROVE  KeepsRuns /\ KeepsBodies
<1>1. executed \in [Jobs -> Nat]
  BY DEF SharedInv, PipelineTypes
<1>2. ASSUME NEW w \in Workers, NEW m \in held[w], RunOk(w, m)
      PROVE  KeepsRuns
  BY <1>1, <1>2 DEF RunOk, KeepsRuns
<1>3. ASSUME NEW w \in Workers, NEW m \in held[w], Process(w, m)
      PROVE  RunOk(w, m) \/ UNCHANGED executed
  <2>1. CASE Guard(w, m) \/ GuardDuplicate(w, m) \/ SkipComplete(w, m) \/ UnknownTool(w, m)
             \/ DeadLetterUnknown(w, m) \/ Start(w, m) \/ RunFails(w, m)
    BY <2>1 DEF Guard, GuardDuplicate, SkipComplete, UnknownTool, DeadLetterUnknown,
                Start, RunFails
  <2>2. CASE SettleRead(w, m) \/ SettleCommit(w, m) \/ CompleteMessage(w, m)
             \/ Failure(w, m) \/ AbandonMessage(w, m)
    BY <2>2 DEF SettleRead, SettleCommit, CompleteMessage, Failure, AbandonMessage
  <2> QED
    BY <1>3, <2>1, <2>2 DEF Process
<1>4. ASSUME NEW w \in Workers, SkipCommit(w) \/ WorkerAbort(w)
      PROVE  UNCHANGED executed
  BY <1>4 DEF SkipCommit, WorkerAbort
<1>5. ASSUME NEW r \in Jobs, GatewayStep(r) \/ GatewayAbort(r)
      PROVE  UNCHANGED executed
  BY <1>5 DEF GatewayStep, GatewayAbort, Lookup, Reserve, PublishJob, PublishFails, Commit,
              CommitConflict, CommitDuplicate, workerVars
<1>6. ASSUME UNCHANGED executed
      PROVE  KeepsRuns
  BY <1>6 DEF KeepsRuns
<1> QED
  BY <1>2, <1>3, <1>4, <1>5, <1>6, SharedRows DEF SharedNext, KeepsBodies

\* So what was real stays real.
LEMMA RealStays ==
    ASSUME KeepsRuns, NEW j, NEW k, Real(j, k)
    PROVE  Real(j, k)'
BY DEF Real, KeepsRuns

\* A step that leaves a worker where it is, with what it has, keeps what is known
\* of it.
LEMMA WorkerStays ==
    ASSUME SharedInv, SuccessRest, KeepsRuns, KeepsBodies, NEW w \in Workers,
           wpc'[w] = wpc[w], skipping'[w] = skipping[w],
           held'[w] = held[w], reading'[w] = reading[w]
    PROVE  WorkerKnows(w)'
<1>1. WorkerKnows(w)
  BY DEF SuccessRest, WorkersKnow
<1>2. ASSUME wpc[w] \in {"skip", "skip_commit"}
      PROVE  Real(skipping[w].result, KeyOf[skipping[w].job])'
  <2>1. Real(skipping[w].result, KeyOf[skipping[w].job])
    BY <1>1, <1>2 DEF WorkerKnows
  <2>2. executed'[skipping[w].result] > 0
    BY <2>1 DEF Real, KeepsRuns
  <2> QED
    BY <2>1, <2>2 DEF Real
<1>3. ASSUME wpc[w] \in {"settle", "settle_found", "settle_missing"},
             NEW m \in held[w], \A n \in held[w] : m.id <= n.id
      PROVE  executed'[rows'[m.id].body] > 0
  <2>1. m.id \in DOMAIN rows /\ rows[m.id].body \in Jobs
    BY SharedMessage
  <2>2. executed[rows[m.id].body] > 0
    BY <1>1, <1>3 DEF WorkerKnows
  <2> QED
    BY <2>1, <2>2 DEF KeepsBodies, KeepsRuns
<1> QED
  BY <1>1, <1>2, <1>3 DEF WorkerKnows

\* A step that writes no success keeps the tables.
LEMMA TablesStay ==
    ASSUME SuccessRest, KeepsRuns,
           \A r \in Jobs : jobs'[r] = jobs[r] \/ jobs'[r].status # "succeeded",
           \A k \in Keys : idem'[k] = idem[k] \/ idem'[k].status # "completed"
    PROVE  JobsReal' /\ KeysReal'
<1>1. JobsReal'
  BY RealStays DEF SuccessRest, JobsReal
<1>2. KeysReal'
  BY RealStays DEF SuccessRest, KeysReal
<1> QED
  BY <1>1, <1>2

-----------------------------------------------------------------------------
(* The steps. *)

LEMMA GatewaySuccess ==
    ASSUME SharedInv, SuccessRest, NEW r \in Jobs, GatewayStep(r) \/ GatewayAbort(r)
    PROVE  SuccessRest'
<1>1. UNCHANGED <<wpc, skipping, held, reading>>
  BY DEF GatewayStep, GatewayAbort, Lookup, Reserve, PublishJob, Publish, PublishFails,
         Commit, CommitConflict, CommitDuplicate, queueVars, workerVars
<1>2. /\ jobs' = jobs \/ jobs' = [jobs EXCEPT ![r] = Job("queued", 0, NoJob)]
      /\ idem' = idem \/ idem' = [idem EXCEPT ![KeyOf[r]] = Key("reserved", r, NoJob)]
  BY DEF GatewayStep, GatewayAbort, Lookup, Reserve, PublishJob, PublishFails, Commit,
         CommitConflict, CommitDuplicate, tables
<1>3. /\ \A q \in Jobs : jobs'[q] = jobs[q] \/ jobs'[q].status # "succeeded"
      /\ \A k \in Keys : idem'[k] = idem[k] \/ idem'[k].status # "completed"
  BY <1>2 DEF Job, Key, SharedInv, PipelineTypes
<1>4. KeepsRuns /\ KeepsBodies
  BY SharedKeeps DEF SharedNext
<1> QED
  BY <1>1, <1>3, <1>4, WorkerStays, TablesStay DEF SuccessRest, WorkersKnow

\* The steps of a worker leave the other workers where they are.
LEMMA OthersAlone ==
    ASSUME SharedInv, NEW w \in Workers,
           \/ Poll(w) \/ Claim(w) \/ SkipCommit(w) \/ WorkerAbort(w)
           \/ \E m \in held[w] : Process(w, m),
           NEW v \in Workers, v # w
    PROVE  /\ wpc'[v] = wpc[v]
           /\ skipping'[v] = skipping[v]
           /\ held'[v] = held[v]
           /\ reading'[v] = reading[v]
<1>1. wpc' = wpc \/ \E pc : wpc' = [wpc EXCEPT ![w] = pc]
  BY DEF Poll, Claim, SkipCommit, WorkerAbort, Process, Guard, GuardDuplicate,
         SkipComplete, UnknownTool, DeadLetterUnknown, Start, RunOk, RunFails,
         SettleRead, SettleCommit, CompleteMessage, Failure, AbandonMessage, Become,
         workerVars
<1>2. skipping' = skipping \/ \E x : skipping' = [skipping EXCEPT ![w] = x]
  BY DEF Poll, Claim, SkipCommit, WorkerAbort, Process, Guard, GuardDuplicate,
         SkipComplete, UnknownTool, DeadLetterUnknown, Start, RunOk, RunFails,
         SettleRead, SettleCommit, CompleteMessage, Failure, AbandonMessage, workerVars
<1>3. /\ held' = held \/ \E x : held' = [held EXCEPT ![w] = x]
      /\ reading' = reading \/ \E x : reading' = [reading EXCEPT ![w] = x]
  <2>1. ASSUME NEW m \in held[w], Process(w, m)
        PROVE  <1>3!1 /\ <1>3!2
    BY <2>1, ProcessIsQueueStep DEF Settle, Complete, Abandon, DeadLetter, Unhold,
                                    queueVars
  <2>2. ASSUME Poll(w) \/ Claim(w) \/ SkipCommit(w) \/ WorkerAbort(w)
        PROVE  <1>3!1 /\ <1>3!2
    BY <2>2 DEF Poll, Claim, SkipCommit, WorkerAbort, ReceiveSelect, ReceiveCommit,
                Drop, queueVars
  <2> QED
    BY <2>1, <2>2
<1>4. wpc'[v] = wpc[v]
  BY <1>1 DEF SharedInv, PipelineTypes
<1>5. skipping'[v] = skipping[v]
  BY <1>2 DEF SharedInv, PipelineTypes
<1>6. held'[v] = held[v] /\ reading'[v] = reading[v]
  BY <1>3 DEF SharedInv
<1> QED
  BY <1>4, <1>5, <1>6

\* So what is known of the workers follows from what is known of the one that moved.
LEMMA OneMoves ==
    ASSUME SharedInv, SuccessRest, KeepsRuns, KeepsBodies, NEW w \in Workers,
           \/ Poll(w) \/ Claim(w) \/ SkipCommit(w) \/ WorkerAbort(w)
           \/ \E m \in held[w] : Process(w, m),
           WorkerKnows(w)'
    PROVE  WorkersKnow'
BY OthersAlone, WorkerStays DEF WorkersKnow

\* Committing the guard's transaction writes no output but the one the guard found;
\* losing a batch writes none.
LEMMA BetweenSuccess ==
    ASSUME SharedInv, SuccessRest, NEW w \in Workers, SkipCommit(w) \/ WorkerAbort(w)
    PROVE  SuccessRest'
<1>1. WorkerKnows(w) /\ KeepsRuns /\ KeepsBodies
  BY SharedKeeps DEF SuccessRest, WorkersKnow, SharedNext
<1>2. WorkerKnows(w)'
  <2>1. wpc'[w] = "idle"
    BY DEF SkipCommit, WorkerAbort, Become, SharedInv, PipelineTypes
  <2>2. reading'[w] # {} => held'[w] = {}
    BY <1>1 DEF SkipCommit, WorkerAbort, Drop, queueVars, WorkerKnows, SharedInv
  <2> QED
    BY <2>1, <2>2 DEF WorkerKnows
<1>3. JobsReal' /\ KeysReal'
  <2>1. CASE SkipCommit(w)
    <3> DEFINE r == skipping[w].job
    <3>1. Real(skipping[w].result, KeyOf[r])
      BY <1>1, <2>1 DEF SkipCommit, WorkerKnows
    <3>2. r \in Jobs
      BY <2>1 DEF SkipCommit, SharedInv, SkippingKnown
    <3>3. \A q \in Jobs : jobs'[q] = jobs[q] \/ (q = r /\ jobs'[q].result = skipping[w].result)
      BY <2>1, <3>2 DEF SkipCommit, SetJob, Job, SharedInv, PipelineTypes
    <3>4. JobsReal'
      BY <1>1, <3>1, <3>3, RealStays DEF SuccessRest, JobsReal
    <3>5. KeysReal'
      BY <1>1, <2>1, RealStays DEF SkipCommit, SuccessRest, KeysReal
    <3> QED
      BY <3>4, <3>5
  <2>2. CASE WorkerAbort(w)
    BY <1>1, <2>2, TablesStay DEF WorkerAbort, tables
  <2> QED
    BY <2>1, <2>2
<1> QED
  BY <1>1, <1>2, <1>3, OneMoves DEF SuccessRest

\* What a worker knows while it processes a message.
LEMMA ProcessKnows ==
    ASSUME SharedInv, SuccessRest, NEW w \in Workers, NEW m \in held[w], Process(w, m)
    PROVE  WorkerKnows(w)'
<1> DEFINE r == rows[m.id].body
<1>1. WorkerKnows(w) /\ PipelineTypes
  BY DEF SuccessRest, WorkersKnow, SharedInv
<1>2. r \in Jobs /\ \A n \in held[w] : n.id \in Nat
  BY SharedMessage
<1>3. reading[w] = {} /\ reading'[w] = {}
  BY <1>1, ProcessIsQueueStep DEF WorkerKnows, Settle, Complete, Abandon, DeadLetter,
                                  queueVars
<1>4. CASE GuardDuplicate(w, m)
  <2>1. Real(KeyRowOf(r).result, KeyOf[r])
    BY <1>2, <1>4, PipelineAssumption
       DEF GuardDuplicate, KeyRowOf, SuccessRest, KeysReal
  <2>2. skipping'[w] = Skip(r, KeyRowOf(r).result) /\ wpc'[w] = "skip"
    BY <1>1, <1>4 DEF GuardDuplicate, Become, PipelineTypes
  <2>3. executed' = executed
    BY <1>4 DEF GuardDuplicate
  <2>4. Real(skipping[w].result, KeyOf[skipping[w].job])'
    BY <2>1, <2>2, <2>3 DEF Skip, Real
  <2> QED
    BY <1>3, <2>2, <2>4 DEF WorkerKnows
<1>5. CASE SkipComplete(w, m)
  <2>1. Real(skipping[w].result, KeyOf[skipping[w].job])
    BY <1>1, <1>5 DEF SkipComplete, At, WorkerKnows
  <2>2. UNCHANGED <<skipping, executed>> /\ wpc'[w] = "skip_commit"
    BY <1>1, <1>5 DEF SkipComplete, Become, PipelineTypes
  <2> QED
    BY <1>3, <2>1, <2>2 DEF WorkerKnows, Real
<1>6. CASE RunOk(w, m)
  <2>1. executed'[r] > 0
    BY <1>1, <1>2, <1>6 DEF RunOk, PipelineTypes
  <2>2. \A n \in held[w] : (\A l \in held[w] : n.id <= l.id) => n.id = m.id
    BY <1>2, <1>6 DEF RunOk, At
  <2>3. UNCHANGED <<rows, held>> /\ wpc'[w] = "settle"
    BY <1>1, <1>6 DEF RunOk, Become, PipelineTypes, queueVars
  <2> QED
    BY <1>3, <2>1, <2>2, <2>3 DEF WorkerKnows
<1>7. CASE SettleRead(w, m)
  <2>1. /\ UNCHANGED <<rows, held, executed>>
        /\ wpc[w] = "settle"
        /\ wpc'[w] \in {"settle_found", "settle_missing"}
    BY <1>1, <1>7 DEF SettleRead, At, Become, PipelineTypes, queueVars
  <2> QED
    BY <1>1, <1>3, <2>1 DEF WorkerKnows
<1>8. CASE ~(GuardDuplicate(w, m) \/ SkipComplete(w, m) \/ RunOk(w, m) \/ SettleRead(w, m))
  <2>1. \E pc \in {"idle", "unknown", "dead_letter", "start", "run", "complete", "failure",
                   "abandon"} : wpc' = [wpc EXCEPT ![w] = pc]
    BY <1>8 DEF Process, Guard, UnknownTool, DeadLetterUnknown, Start, RunFails,
                SettleCommit, CompleteMessage, Failure, AbandonMessage, Become
  <2> QED
    BY <1>1, <1>3, <2>1 DEF WorkerKnows, PipelineTypes
<1> QED
  BY <1>4, <1>5, <1>6, <1>7, <1>8

\* Processing a message writes one output, that of the run it settles.
LEMMA ProcessSuccess ==
    ASSUME SharedInv, SuccessRest, NEW w \in Workers, NEW m \in held[w], Process(w, m)
    PROVE  SuccessRest'
<1> DEFINE r == rows[m.id].body
<1>1. WorkerKnows(w) /\ PipelineTypes
  BY DEF SuccessRest, WorkersKnow, SharedInv
<1>2. r \in Jobs /\ KeyOf[r] \in Keys
  BY SharedMessage, PipelineAssumption
<1>0. KeepsRuns /\ KeepsBodies
  BY SharedKeeps DEF SharedNext
<1>3. CASE SettleCommit(w, m)
  <2>1. executed[r] > 0
    BY <1>1, <1>3 DEF SettleCommit, At, WorkerKnows
  <2>2. executed'[r] > 0
    BY <1>3, <2>1 DEF SettleCommit
  <2>3. \A q \in Jobs : jobs'[q] = jobs[q] \/ (q = r /\ jobs'[q].result = r)
    BY <1>1, <1>2, <1>3 DEF SettleCommit, Job, PipelineTypes
  <2>4. \A k \in Keys : idem'[k] = idem[k] \/ (k = KeyOf[r] /\ idem'[k].result = r)
    BY <1>1, <1>2, <1>3 DEF SettleCommit, Key, PipelineTypes
  <2>5. JobsReal'
    BY <1>0, <1>2, <2>2, <2>3, RealStays DEF SuccessRest, JobsReal, Real
  <2>6. KeysReal'
    BY <1>0, <1>2, <2>2, <2>4, RealStays DEF SuccessRest, KeysReal, Real
  <2> QED
    BY <1>0, <2>5, <2>6, ProcessKnows, OneMoves DEF SuccessRest
<1>4. CASE ~SettleCommit(w, m)
  <2>1. idem' = idem
    BY <1>4 DEF Process, Guard, GuardDuplicate, SkipComplete, UnknownTool,
                DeadLetterUnknown, Start, RunOk, RunFails, SettleRead, CompleteMessage,
                Failure, AbandonMessage, tables
  <2>2. \/ jobs' = jobs
        \/ \E row : row.status # "succeeded" /\ SetJob(r, row)
    BY <1>4 DEF Process, Guard, GuardDuplicate, SkipComplete, UnknownTool,
                DeadLetterUnknown, Start, RunOk, RunFails, SettleRead, CompleteMessage,
                Failure, AbandonMessage, tables, Job
  <2>3. \A q \in Jobs : jobs'[q] = jobs[q] \/ jobs'[q].status # "succeeded"
    BY <1>1, <1>2, <2>2 DEF SetJob, PipelineTypes
  <2>4. JobsReal' /\ KeysReal'
    BY <1>0, <2>1, <2>3, TablesStay
  <2> QED
    BY <1>0, <2>4, ProcessKnows, OneMoves DEF SuccessRest
<1> QED
  BY <1>3, <1>4

\* So no step that both queues share takes success back.
LEMMA SharedSuccess ==
    ASSUME SharedInv, SuccessRest, SharedNext
    PROVE  SuccessRest'
BY GatewaySuccess, BetweenSuccess, ProcessSuccess DEF SharedNext

\* Nor does a step that only moves messages: a worker that moves is between batches.
LEMMA QueueSuccess ==
    ASSUME SharedInv, SuccessRest, KeepsBodies, UNCHANGED <<tables, gatewayVars, workerVars>>,
           \A w \in Workers : \/ held'[w] = held[w] /\ reading'[w] = reading[w]
                              \/ wpc[w] = "idle" /\ (reading'[w] = {} \/ held'[w] = {})
    PROVE  SuccessRest'
<1>1. KeepsRuns
  BY DEF workerVars, KeepsRuns
<1>2. JobsReal' /\ KeysReal'
  BY <1>1, TablesStay DEF tables
<1>3. ASSUME NEW w \in Workers
      PROVE  WorkerKnows(w)'
  <2>1. CASE held'[w] = held[w] /\ reading'[w] = reading[w]
    BY <1>1, <2>1, WorkerStays DEF workerVars
  <2>2. CASE wpc[w] = "idle" /\ (reading'[w] = {} \/ held'[w] = {})
    BY <2>2 DEF workerVars, WorkerKnows
  <2> QED
    BY <2>1, <2>2
<1> QED
  BY <1>2, <1>3 DEF SuccessRest, WorkersKnow

\* The invariant of success is inductive.
LEMMA SuccessStep == SuccessInv /\ [Next]_vars => SuccessInv'
<1> SUFFICES ASSUME SuccessInv, [Next]_vars
             PROVE  SuccessInv'
  OBVIOUS
<1>1. BaseInv'
  BY BaseStep DEF SuccessInv
<1>2. SharedInv /\ SuccessRest
  BY BaseIsShared DEF SuccessInv
<1>3. KeepsBodies
  BY BodiesStay DEF SuccessInv, KeepsBodies
<1>4. ASSUME NEW v \in Workers, Poll(v) \/ Claim(v)
      PROVE  SuccessRest'
  <2>1. wpc[v] = "idle" /\ UNCHANGED <<tables, gatewayVars, workerVars>>
    BY <1>2, <1>4 DEF Poll, Claim, ReceiveCommit, SuccessRest, WorkersKnow, WorkerKnows
  <2>2. reading'[v] = {} \/ held'[v] = {}
    BY <1>2, <1>4 DEF Poll, Claim, ReceiveSelect, ReceiveCommit, SharedInv
  <2>3. \A w \in Workers \ {v} : held'[w] = held[w] /\ reading'[w] = reading[w]
    BY <1>2, <1>4, OthersAlone
  <2> QED
    BY <1>2, <1>3, <2>1, <2>2, <2>3, QueueSuccess
<1>5. ASSUME UNCHANGED <<tables, gatewayVars, workerVars, held, reading>>
      PROVE  SuccessRest'
  BY <1>2, <1>3, <1>5, QueueSuccess
<1>6. ASSUME NEW i \in DOMAIN rows, Lapse(i)
      PROVE  UNCHANGED <<tables, gatewayVars, workerVars, held, reading>>
  BY <1>6 DEF Lapse, LockLapse
<1>7. ASSUME UNCHANGED vars
      PROVE  UNCHANGED <<tables, gatewayVars, workerVars, held, reading>>
  BY <1>7 DEF vars, queueVars
<1>8. SuccessRest'
  BY <1>2, <1>4, <1>5, <1>6, <1>7, SharedSuccess DEF Next, SharedNext
<1> QED
  BY <1>1, <1>8 DEF SuccessInv

\* However submissions, workers, crashes and lapsing locks interleave, with row locks or
\* without, a job reported succeeded and a completed key hold the output of a run that
\* really happened, for that very key.
THEOREM SuccessReal == Spec => []SuccessIsReal
BY SuccessInit, SuccessStep, SuccessInvImplies, PTL DEF Spec
=============================================================================
