---------------------------- MODULE AsyncPipeline ----------------------------
(***************************************************************************)
(* An asynchronous tool call from the gateway to the worker: the gateway's *)
(* _handle_async and the transaction around it (apps/mcp-gateway/app/      *)
(* executor.py), the queue (LocalQueue), and the worker's loop over a      *)
(* batch (apps/worker/worker.py), on one shared database.                  *)
(*                                                                         *)
(* A request is identified with the job id it would create, so requests    *)
(* are the elements of Jobs; KeyOf gives the idempotency key of each.      *)
(* Requests with one key are resubmissions or concurrent replays.          *)
(*                                                                         *)
(* The gateway writes its rows when its session commits, at the very end;  *)
(* publish commits in a session of its own, before that.  Either process   *)
(* may die between any two steps.                                          *)
(***************************************************************************)
EXTENDS LocalQueue

CONSTANTS
    Keys,        \* idempotency keys
    KeyOf,       \* the key of each request
    Registered,  \* requests whose tool the worker's registry knows
    NoJob        \* the absence of a job id

ASSUME PipelineAssumption ==
    /\ KeyOf \in [Jobs -> Keys]
    /\ Registered \subseteq Jobs
    /\ NoJob \notin Jobs

VARIABLES
    idem,      \* the idempotency_keys table
    jobs,      \* the async_jobs table
    gpc,       \* where the gateway is with each request
    answer,    \* what the client of each request was told
    wpc,       \* where each worker is in _process
    skipping,  \* what the guard transaction a worker has open will write
    executed,  \* how often the tool ran to completion for each message
    audited    \* requests with a committed audit event

tables == <<idem, jobs, audited>>
gatewayVars == <<gpc, answer>>
workerVars == <<wpc, skipping, executed>>
vars == <<queueVars, tables, gatewayVars, workerVars>>

JobStatus == {"absent", "queued", "running", "succeeded", "failed", "dead_letter"}
KeyStatus == {"absent", "reserved", "completed"}
GatewayPc == {"start", "reserve", "publish", "commit", "commit_failed",
              "duplicate", "done"}
WorkerPc == {"idle", "skip", "skip_commit", "unknown", "dead_letter", "start",
             "run", "settle", "settle_found", "settle_missing", "complete",
             "failure", "abandon"}
Decision == {"none", "queued", "failed", "error"}

JobOrNone == Jobs \cup {NoJob}

\* result: the job whose run produced the stored output, if any.
JobRow == [status: JobStatus, attempts: Nat, result: JobOrNone]
KeyRow == [status: KeyStatus, job: JobOrNone, result: JobOrNone]

Job(status, attempts, result) ==
    [status |-> status, attempts |-> attempts, result |-> result]
Key(status, job, result) == [status |-> status, job |-> job, result |-> result]

\* A guard transaction found the key completed: the job it will mark succeeded,
\* and the output it read from the key's row.
Skip(job, result) == [job |-> job, result |-> result]

Init ==
    /\ QueueInit
    /\ idem = [k \in Keys |-> Key("absent", NoJob, NoJob)]
    /\ jobs = [r \in Jobs |-> Job("absent", 0, NoJob)]
    /\ gpc = [r \in Jobs |-> "start"]
    /\ answer = [r \in Jobs |-> [decision |-> "none", job |-> NoJob]]
    /\ wpc = [w \in Workers |-> "idle"]
    /\ skipping = [w \in Workers |-> Skip(NoJob, NoJob)]
    /\ executed = [r \in Jobs |-> 0]
    /\ audited = {}

KeyRowOf(r) == idem[KeyOf[r]]
HasKey(r) == KeyRowOf(r).status # "absent"
HasJob(r) == jobs[r].status # "absent"

-----------------------------------------------------------------------------
\* The gateway: one request, one session.

GoTo(r, pc) == gpc' = [gpc EXCEPT ![r] = pc]

Tell(r, decision, job) ==
    /\ GoTo(r, "done")
    /\ answer' = [answer EXCEPT ![r] = [decision |-> decision, job |-> job]]

\* get_idempotency, then reserve_idempotency, which reads the key once more and
\* raises IdempotencyConflict if it is there by now.  The new row stays pending.
Lookup(r) ==
    /\ gpc[r] = "start"
    /\ GoTo(r, IF HasKey(r) THEN "duplicate" ELSE "reserve")
    /\ UNCHANGED <<queueVars, tables, answer, workerVars>>

Reserve(r) ==
    /\ gpc[r] = "reserve"
    /\ GoTo(r, IF HasKey(r) THEN "duplicate" ELSE "publish")
    /\ UNCHANGED <<queueVars, tables, answer, workerVars>>

\* queue.publish commits on its own; the key and job rows are still pending.
PublishJob(r) ==
    /\ gpc[r] = "publish"
    /\ Publish(r)
    /\ GoTo(r, "commit")
    /\ UNCHANGED <<tables, answer, workerVars>>

\* Wrong: the publish is repeated because its answer was lost.
PublishRetried(r) ==
    /\ gpc[r] = "publish"
    /\ Publish(r)
    /\ UNCHANGED <<tables, gpc, answer, workerVars>>

\* queue.publish raises: invoke answers INTERNAL_ERROR, but the session still
\* commits the key and the job that were added to it.
PublishFails(r) ==
    /\ gpc[r] = "publish"
    /\ GoTo(r, "commit_failed")
    /\ UNCHANGED <<queueVars, tables, answer, workerVars>>

\* Wrong: the key's row is merged instead of inserted, so nothing conflicts.
CommitMerges(r) ==
    /\ gpc[r] \in {"commit", "commit_failed"}
    /\ idem' = [idem EXCEPT ![KeyOf[r]] = Key("reserved", r, NoJob)]
    /\ jobs' = [jobs EXCEPT ![r] = Job("queued", 0, NoJob)]
    /\ audited' = audited \cup {r}
    /\ IF gpc[r] = "commit" THEN Tell(r, "queued", r) ELSE Tell(r, "failed", NoJob)
    /\ UNCHANGED <<queueVars, workerVars>>

\* Wrong: after a failed publish only the audit rows are kept.
CommitWithoutKey(r) ==
    /\ gpc[r] \in {"commit", "commit_failed"}
    /\ ~HasKey(r)
    /\ audited' = audited \cup {r}
    /\ IF gpc[r] = "commit"
       THEN /\ idem' = [idem EXCEPT ![KeyOf[r]] = Key("reserved", r, NoJob)]
            /\ jobs' = [jobs EXCEPT ![r] = Job("queued", 0, NoJob)]
            /\ Tell(r, "queued", r)
       ELSE /\ Tell(r, "failed", NoJob)
            /\ UNCHANGED <<idem, jobs>>
    /\ UNCHANGED <<queueVars, workerVars>>

\* The session commits: key, job, tool call and audit event become visible.
Commit(r) ==
    /\ gpc[r] \in {"commit", "commit_failed"}
    /\ ~HasKey(r)
    /\ idem' = [idem EXCEPT ![KeyOf[r]] = Key("reserved", r, NoJob)]
    /\ jobs' = [jobs EXCEPT ![r] = Job("queued", 0, NoJob)]
    /\ audited' = audited \cup {r}
    /\ IF gpc[r] = "commit" THEN Tell(r, "queued", r) ELSE Tell(r, "failed", NoJob)
    /\ UNCHANGED <<queueVars, workerVars>>

\* Another request committed the key first: the unique key makes the commit
\* fail, everything rolls back and the client gets an error.
CommitConflict(r) ==
    /\ gpc[r] \in {"commit", "commit_failed"}
    /\ HasKey(r)
    /\ Tell(r, "error", NoJob)
    /\ UNCHANGED <<queueVars, tables, workerVars>>

\* Wrong: a duplicate is answered with the job id of its own request.
CommitDuplicateOwn(r) ==
    /\ gpc[r] = "duplicate"
    /\ Tell(r, "queued", r)
    /\ audited' = audited \cup {r}
    /\ UNCHANGED <<queueVars, idem, jobs, workerVars>>

\* A duplicate is answered with the job of the key's row.
CommitDuplicate(r) ==
    /\ gpc[r] = "duplicate"
    /\ Tell(r, "queued", KeyRowOf(r).job)
    /\ audited' = audited \cup {r}
    /\ UNCHANGED <<queueVars, idem, jobs, workerVars>>

\* The gateway dies, or its database session fails: nothing is committed.
GatewayAbort(r) ==
    /\ gpc[r] # "done"
    /\ Tell(r, "error", NoJob)
    /\ UNCHANGED <<queueVars, tables, workerVars>>

GatewayStep(r) ==
    \/ Lookup(r)
    \/ Reserve(r)
    \/ PublishJob(r)
    \/ PublishFails(r)
    \/ Commit(r)
    \/ CommitConflict(r)
    \/ CommitDuplicate(r)
-----------------------------------------------------------------------------
\* The worker: poll_once receives a batch and processes its messages in order.

At(w, m, pc) ==
    /\ wpc[w] = pc
    /\ m \in held[w]
    /\ \A n \in held[w] : m.id <= n.id

Become(w, pc) == wpc' = [wpc EXCEPT ![w] = pc]

\* set_job_status: nothing happens, and nothing is reported, without a row.
SetJob(r, row) == jobs' = IF HasJob(r) THEN [jobs EXCEPT ![r] = row] ELSE jobs

Poll(w) ==
    /\ wpc[w] = "idle"
    /\ held[w] = {}
    /\ ReceiveSelect(w)
    /\ UNCHANGED <<tables, gatewayVars, workerVars>>

Claim(w) ==
    /\ ReceiveCommit(w)
    /\ UNCHANGED <<tables, gatewayVars, workerVars>>

\* Wrong: the status of the key is not looked at.
GuardAlways(w, m) ==
    /\ At(w, m, "idle")
    /\ Become(w, IF rows[m.id].body \in Registered THEN "start" ELSE "unknown")
    /\ UNCHANGED <<queueVars, tables, gatewayVars, skipping, executed>>

\* The idempotency guard lets the message pass; the registry lookup.
Guard(w, m) ==
    /\ At(w, m, "idle")
    /\ LET r == rows[m.id].body IN
       /\ KeyRowOf(r).status # "completed"
       /\ Become(w, IF r \in Registered THEN "start" ELSE "unknown")
    /\ UNCHANGED <<queueVars, tables, gatewayVars, skipping, executed>>

\* Wrong: a key that is only reserved counts as a duplicate.
GuardReserved(w, m) ==
    /\ At(w, m, "idle")
    /\ LET r == rows[m.id].body IN
       /\ HasKey(r)
       /\ skipping' = [skipping EXCEPT ![w] = Skip(r, KeyRowOf(r).result)]
    /\ Become(w, "skip")
    /\ UNCHANGED <<queueVars, tables, gatewayVars, executed>>

\* The key is completed already: a duplicate.  Its transaction stays open ...
GuardDuplicate(w, m) ==
    /\ At(w, m, "idle")
    /\ LET r == rows[m.id].body IN
       /\ KeyRowOf(r).status = "completed"
       /\ skipping' = [skipping EXCEPT ![w] = Skip(r, KeyRowOf(r).result)]
    /\ Become(w, "skip")
    /\ UNCHANGED <<queueVars, tables, gatewayVars, executed>>

\* ... while the message is completed, in a session of its own ...
SkipComplete(w, m) ==
    /\ At(w, m, "skip")
    /\ Complete(w, m)
    /\ Become(w, "skip_commit")
    /\ UNCHANGED <<tables, gatewayVars, skipping, executed>>

\* ... and then commits the job's status and the event.
SkipCommit(w) ==
    /\ wpc[w] = "skip_commit"
    /\ LET r == skipping[w].job IN
       /\ SetJob(r, Job("succeeded", jobs[r].attempts, skipping[w].result))
       /\ audited' = audited \cup {r}
    /\ Become(w, "idle")
    /\ skipping' = [skipping EXCEPT ![w] = Skip(NoJob, NoJob)]
    /\ UNCHANGED <<queueVars, idem, gatewayVars, executed>>

\* A tool the worker does not know: the job, then the message, is dead.
UnknownTool(w, m) ==
    /\ At(w, m, "unknown")
    /\ LET r == rows[m.id].body IN
       /\ SetJob(r, Job("dead_letter", jobs[r].attempts, jobs[r].result))
       /\ audited' = audited \cup {r}
    /\ Become(w, "dead_letter")
    /\ UNCHANGED <<queueVars, idem, gatewayVars, skipping, executed>>

\* Wrong: the message goes back to the queue, the job being dead.
AbandonUnknown(w, m) ==
    /\ At(w, m, "dead_letter")
    /\ Abandon(w, m)
    /\ Become(w, "idle")
    /\ UNCHANGED <<tables, gatewayVars, skipping, executed>>

DeadLetterUnknown(w, m) ==
    /\ At(w, m, "dead_letter")
    /\ DeadLetter(w, m)
    /\ Become(w, "idle")
    /\ UNCHANGED <<tables, gatewayVars, skipping, executed>>

Start(w, m) ==
    /\ At(w, m, "start")
    /\ LET r == rows[m.id].body IN
       SetJob(r, Job("running", m.count, jobs[r].result))
    /\ Become(w, "run")
    /\ UNCHANGED <<queueVars, idem, audited, gatewayVars, skipping, executed>>

\* spec.run: the tool's side effect happens, or it raises.
RunOk(w, m) ==
    /\ At(w, m, "run")
    /\ executed' = [executed EXCEPT ![rows[m.id].body] = @ + 1]
    /\ Become(w, "settle")
    /\ UNCHANGED <<queueVars, tables, gatewayVars, skipping>>

RunFails(w, m) ==
    /\ At(w, m, "run")
    /\ Become(w, "failure")
    /\ UNCHANGED <<queueVars, tables, gatewayVars, skipping, executed>>

\* The settling transaction reads the job row first ...
SettleRead(w, m) ==
    /\ At(w, m, "settle")
    /\ Become(w, IF HasJob(rows[m.id].body) THEN "settle_found" ELSE "settle_missing")
    /\ UNCHANGED <<queueVars, tables, gatewayVars, skipping, executed>>

\* Wrong: the event is recorded only for a job that has a row.
SettleCommitForJob(w, m) ==
    /\ \/ At(w, m, "settle_found")
       \/ At(w, m, "settle_missing")
    /\ LET r == rows[m.id].body IN
       /\ jobs' = IF wpc[w] = "settle_missing" THEN jobs
                  ELSE [jobs EXCEPT ![r] = Job("succeeded", m.count, r)]
       /\ idem' = IF ~HasKey(r) THEN idem
                  ELSE [idem EXCEPT ![KeyOf[r]] =
                            Key("completed", KeyRowOf(r).job, r)]
       /\ audited' = IF wpc[w] = "settle_missing" THEN audited ELSE audited \cup {r}
    /\ Become(w, "complete")
    /\ UNCHANGED <<queueVars, gatewayVars, skipping, executed>>

\* Wrong: the key is left for the guard to complete.
SettleCommitJobOnly(w, m) ==
    /\ \/ At(w, m, "settle_found")
       \/ At(w, m, "settle_missing")
    /\ LET r == rows[m.id].body IN
       /\ jobs' = IF wpc[w] = "settle_missing" THEN jobs
                  ELSE [jobs EXCEPT ![r] = Job("succeeded", m.count, r)]
       /\ audited' = audited \cup {r}
    /\ Become(w, "complete")
    /\ UNCHANGED <<queueVars, idem, gatewayVars, skipping, executed>>

\* ... and the key's row afterwards; a row it did not find, it does not write.
SettleCommit(w, m) ==
    /\ \/ At(w, m, "settle_found")
       \/ At(w, m, "settle_missing")
    /\ LET r == rows[m.id].body IN
       /\ jobs' = IF wpc[w] = "settle_missing" THEN jobs
                  ELSE [jobs EXCEPT ![r] = Job("succeeded", m.count, r)]
       /\ idem' = IF ~HasKey(r) THEN idem
                  ELSE [idem EXCEPT ![KeyOf[r]] =
                            Key("completed", KeyRowOf(r).job, r)]
       /\ audited' = audited \cup {r}
    /\ Become(w, "complete")
    /\ UNCHANGED <<queueVars, gatewayVars, skipping, executed>>

CompleteMessage(w, m) ==
    /\ At(w, m, "complete")
    /\ Complete(w, m)
    /\ Become(w, "idle")
    /\ UNCHANGED <<tables, gatewayVars, skipping, executed>>

\* Wrong: the job is given up one delivery before the message is.
FailureEarly(w, m) ==
    /\ At(w, m, "failure")
    /\ LET r == rows[m.id].body IN
       /\ SetJob(r, Job(IF m.count + 1 >= MaxDelivery THEN "dead_letter" ELSE "failed",
                        m.count, jobs[r].result))
       /\ audited' = audited \cup {r}
    /\ Become(w, "abandon")
    /\ UNCHANGED <<queueVars, idem, gatewayVars, skipping, executed>>

\* Wrong: the name of the event (job.retry) is taken for the status.
FailureRetry(w, m) ==
    /\ At(w, m, "failure")
    /\ LET r == rows[m.id].body IN
       /\ SetJob(r, Job(IF m.count >= MaxDelivery THEN "dead_letter" ELSE "retry",
                        m.count, jobs[r].result))
       /\ audited' = audited \cup {r}
    /\ Become(w, "abandon")
    /\ UNCHANGED <<queueVars, idem, gatewayVars, skipping, executed>>

\* Wrong: a job that will be retried is queued again.
FailureQueued(w, m) ==
    /\ At(w, m, "failure")
    /\ LET r == rows[m.id].body IN
       /\ SetJob(r, Job(IF m.count >= MaxDelivery THEN "dead_letter" ELSE "queued",
                        m.count, jobs[r].result))
       /\ audited' = audited \cup {r}
    /\ Become(w, "abandon")
    /\ UNCHANGED <<queueVars, idem, gatewayVars, skipping, executed>>

\* _handle_failure decides by the delivery count in the MESSAGE ...
Failure(w, m) ==
    /\ At(w, m, "failure")
    /\ LET r == rows[m.id].body IN
       /\ SetJob(r, Job(IF m.count >= MaxDelivery THEN "dead_letter" ELSE "failed",
                        m.count, jobs[r].result))
       /\ audited' = audited \cup {r}
    /\ Become(w, "abandon")
    /\ UNCHANGED <<queueVars, idem, gatewayVars, skipping, executed>>

\* ... and leaves the message to abandon, which decides by the row's.
AbandonMessage(w, m) ==
    /\ At(w, m, "abandon")
    /\ Abandon(w, m)
    /\ Become(w, "idle")
    /\ UNCHANGED <<tables, gatewayVars, skipping, executed>>

\* The worker dies and is restarted, or an exception leaves _process and the
\* batch: run_forever swallows it and polls again.  Open transactions roll
\* back; what was claimed stays locked in the table.
WorkerAbort(w) ==
    /\ \/ Drop(w)
       \/ wpc[w] = "skip_commit" /\ held[w] = {} /\ UNCHANGED queueVars
    /\ Become(w, "idle")
    /\ skipping' = [skipping EXCEPT ![w] = Skip(NoJob, NoJob)]
    /\ UNCHANGED <<tables, gatewayVars, executed>>

Process(w, m) ==
    \/ Guard(w, m)
    \/ GuardDuplicate(w, m)
    \/ SkipComplete(w, m)
    \/ UnknownTool(w, m)
    \/ DeadLetterUnknown(w, m)
    \/ Start(w, m)
    \/ RunOk(w, m)
    \/ RunFails(w, m)
    \/ SettleRead(w, m)
    \/ SettleCommit(w, m)
    \/ CompleteMessage(w, m)
    \/ Failure(w, m)
    \/ AbandonMessage(w, m)

Lapse(i) == LockLapse(i) /\ UNCHANGED <<tables, gatewayVars, workerVars>>

Next ==
    \/ \E r \in Jobs : GatewayStep(r) \/ GatewayAbort(r)
    \/ \E w \in Workers :
         \/ Poll(w)
         \/ Claim(w)
         \/ SkipCommit(w)
         \/ \E m \in held[w] : Process(w, m)
         \/ WorkerAbort(w)
    \/ \E i \in DOMAIN rows : Lapse(i)

Spec == Init /\ [][Next]_vars

\* Requests and batches that are begun go on, run_forever polls for ever, and a
\* receive that is tried for ever commits.  Nothing obliges anything to fail.
Fairness ==
    /\ \A r \in Jobs : WF_vars(GatewayStep(r))
    /\ \A w \in Workers :
         /\ WF_vars(Poll(w))
         /\ SF_vars(Claim(w))
         /\ WF_vars(SkipCommit(w) \/ \E m \in held[w] : Process(w, m))

FairSpec == Spec /\ Fairness

-----------------------------------------------------------------------------
TypeOK ==
    /\ QueueTypeOK
    /\ idem \in [Keys -> KeyRow]
    /\ jobs \in [Jobs -> JobRow]
    /\ gpc \in [Jobs -> GatewayPc]
    /\ answer \in [Jobs -> [decision: Decision, job: JobOrNone]]
    /\ wpc \in [Workers -> WorkerPc]
    /\ skipping \in [Workers -> [job: JobOrNone, result: JobOrNone]]
    /\ executed \in [Jobs -> Nat]
    /\ audited \subseteq Jobs

\* Two clients that were told "queued" for one key were given one job, and that
\* job is in the table: replays of a call never fork it, whoever races whom.
SameKeySameJob ==
    \A q, r \in Jobs :
        answer[q].decision = "queued" =>
            /\ answer[q].job \in Jobs
            /\ HasJob(answer[q].job)
            /\ answer[r].decision = "queued" /\ KeyOf[q] = KeyOf[r] =>
                 answer[q].job = answer[r].job

\* One message makes the tool succeed once at most, over retries, crashes of the
\* worker at any point, competing workers and late gateway commits.
AtMostOneRunPerMessage == \A r \in Jobs : executed[r] <= 1

\* Success is earned: a succeeded job, and a completed key, hold the output of a
\* run that really happened, for that very key.
SuccessIsReal ==
    /\ \A r \in Jobs : jobs[r].status = "succeeded" =>
         /\ jobs[r].result \in Jobs
         /\ executed[jobs[r].result] > 0
         /\ KeyOf[jobs[r].result] = KeyOf[r]
    /\ \A k \in Keys : idem[k].status = "completed" =>
         /\ idem[k].result \in Jobs
         /\ executed[idem[k].result] > 0
         /\ KeyOf[idem[k].result] = k

RowsOf(r) == {i \in DOMAIN rows : rows[i].body = r}

\* The job's status and its message agree on giving up: a job reported dead for
\* a failing tool used up every delivery, and its message is never handed out
\* again (the worker's verdict and abandon's are two computations).
GivingUpIsFinal ==
    \A r \in Jobs : jobs[r].status = "dead_letter" =>
        /\ r \in Registered => jobs[r].attempts = MaxDelivery
        /\ \A i \in RowsOf(r) : rows[i].status \in {"locked", "dead_letter"}

\* A run whose message was settled left an audit event: no crash between the
\* tables and the queue loses the trace of a side effect that was settled.
SettledRunIsAudited ==
    \A i \in DOMAIN rows :
        rows[i].status \in {"completed", "dead_letter"} /\ executed[rows[i].body] > 0
            => rows[i].body \in audited

Contract == INSTANCE JobContract WITH
    owner <- [k \in Keys |-> idem[k].job],
    status <- [r \in Jobs |-> jobs[r].status],
    told <- [r \in Jobs |-> answer[r].job]

\* The pipeline implements the contract its clients rely on: no crash, race or
\* late write takes a job back from an end state or changes a key's owner.
ImplementsJobContract == Contract!Spec

\* The worker uses the queue only as its interface allows: it settles what it
\* holds and the gateway publishes a body once.
UsesTheQueue == QueueSpec

-----------------------------------------------------------------------------
\* Claims of the documentation that runs refute.

\* docs/security-model.md: the key "prevents double-triggering a Databricks
\* workflow on retries or client replays".
OneRunPerKey ==
    \A q, r \in Jobs :
        KeyOf[q] = KeyOf[r] /\ executed[q] > 0 /\ executed[r] > 0 => q = r

\* worker.py: success is "job succeeded, idempotency key completed, message
\* completed".
CompletedMeansSucceeded ==
    \A r \in Jobs : \A i \in RowsOf(r) :
        rows[i].status = "completed" /\ HasJob(r) =>
            jobs[r].status = "succeeded"

\* README.md: an asynchronous call is answered "202" after "publish to the
\* queue".  A client told "queued" has a job whose message was published.
QueuedJobIsPublished ==
    \A r \in Jobs :
        answer[r].decision = "queued" => answer[r].job \in Published
=============================================================================
