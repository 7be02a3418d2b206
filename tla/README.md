# Verification of the Nervora gateway

TLA+ specifications of the Nervora tool gateway, model-checked with TLC, and theorems about them
checked by TLAPS. Paths below are relative to the repository.

## The system

Agents call tools over HTTP through a **gateway**, which authorises, validates, routes and audits
every call. Long-running tools are not run by the gateway: it puts a job on a **queue**, and a
separate **worker** process runs it. Gateway and worker share one database and nothing else.

| part | state | operations | hard because |
|---|---|---|---|
| local queue, `packages/servicebus/local.py` | `queue_messages` rows: status, delivery count, `visible_at` | publish, receive, complete, abandon, dead_letter | several workers; crashes while a message is locked; row locks exist only on some databases |
| queue interface, `interface.py` | — | the contract of both backends | — |
| asynchronous route, `executor.py` `_handle_async` | `idempotency_keys`, `async_jobs` rows, uncommitted until the session ends | look up, reserve, create job, publish | publish commits first, in a session of its own; replays under one key |
| worker, `apps/worker/worker.py` | the batch in memory | guard, start, run, settle, fail, then complete or abandon | four transactions and two queue calls for one message, a crash between any two |
| Azure queue, `packages/servicebus/azure_bus.py` | none of its own; the broker's messages and locks | receive, complete, abandon, dead_letter | locks lapse under a worker that is still at it; the receiver is closed before its messages are settled |
| executor, `executor.py` `invoke` | one session for each call | registry, RBAC, validation, route; sync, dry-run and destructive handlers | order of the checks; executions racing on one approval; an outcome decided before its audit rows commit |
| approve endpoint, `main.py` `approve` | `approvals` rows | approve | races with executions and with itself |
| authentication, `packages/auth`, `deps.py` | fixed at startup | bearer token to principal | two verifiers that check different claims; two claims that may carry the role |
| redactor, `packages/pii`, `_redact_output` | — | walk over a tool's output | nested outputs; patterns that run on what others left |
| RBAC, `packages/rbac`; registry, `packages/tool_registry` | fixed at startup | evaluate, get, validate; the handlers | configuration of nine tools |
| demo agent, `apps/demo-agent/agent.py` | its script and what it polled | submit, poll, submit again | polls race with retries and late commits; timeouts |
| audit repository, `packages/audit` | all tables | the reads and writes of the above; a session commits or rolls back | silent no-op when a row is missing |
| Databricks connector, telemetry, policy snapshot, listings, deployment | see `PROJECT.json` | | not modelled, see below |

They interact by calls (agent to gateway, gateway to queue, worker to queue, both to the repository)
and through the tables. What makes each part correct:

* queue: a message is with one worker, is delivered a bounded number of times, stays settled once
  settled, and does not starve;
* asynchronous route and worker: a key has one job, whoever asks; a message makes the tool succeed
  once; a job never leaves an end state; success stands on a run; job and message agree on giving up;
* the same worker on a broker that redelivers: no run after a committed success, nothing taken back but
  by overlapping deliveries, and every message settles;
* agent: an end state it saw stays true, its polls do not go backwards, its resubmission is free;
* executor and approvals: nothing is done that role, configuration and approval do not allow, and no
  change is applied before an audited approval;
* the exchange around them: the role is the token's, who is answered is audited and nobody else is, and
  nothing personal is sent.

`PROJECT.json` lists, under "hazards", where in the code each of these could go wrong, and under
"map" the lines every definition stands for.

## Modules

| module | models | state and actions |
|---|---|---|
| `LocalQueue` | `local.py`, the loss of a worker, the passing of time | `rows` is the table in id order, `reading` the rows each open receive has selected, `held` the messages each worker has. One action for each method; `receive` is `ReceiveSelect` and `ReceiveCommit`, because another session can act between them. The refinement mapping to `WorkQueue` is here too |
| `WorkQueue` | what `MessageQueue` promises | where each message is, who has it, how often it was taken |
| `MCLocalQueue` | instance of `LocalQueue` | |
| `AsyncPipeline` | `_handle_async` and its session, `Worker`, over `LocalQueue` | `idem`, `jobs`, `audited` are the committed tables; `gpc` and `wpc` are program counters; one action for each transaction or queue call; the settling transaction is two, because it reads two tables |
| `JobContract` | what clients of asynchronous tools rely on | owner of each key, status of each job, the job each client was told |
| `Policy` | registry, `evaluate`, order of the checks in `invoke` | operators only |
| `GatewayCalls` | `invoke`, its handlers, `approve` | concurrent calls around `approvals`; what a session writes appears at `Record`, its commit |
| `BrokerPipeline` | `azure_bus.py` under the gateway and worker of `AsyncPipeline` | `rows` is the broker's queue; `BrokerReceive`, `BrokerSettle`, `BrokerRefuses`, `BrokerLapse` in place of the local queue's actions; `overlapped` remembers which messages were with two workers at a time |
| `AgentSession` | `run_demo`'s asynchronous call, as a client of `AsyncPipeline` | `at`, `call`, `polls` are where the script is, `seen` the last poll; one action for each answer, poll, resubmission and restart |
| `Exchange` | token to principal, call, response, around `GatewayCalls` | `bearer` the header of each call, `output` what its tool returned; `Refuse` and `Enter`, then the actions of `GatewayCalls` |
| `Redactor` | `redactor.py`: what becomes of a leaf, and of a value | operators only. What the walk does to a leaf depends on the leaf and on the closest key above it, so a JSON value is the set of its leaves, each with that key |
| `RedactorWalk` | `_walk` | the recursion over a tree, and the value a tree is. Apart from `Redactor`, because nothing can be proved in a module that is recursive |
| `Replies` | the outputs of the handlers and their redaction, in the exchanges of `Exchange` | operators only |
| `MCAsyncPipeline`, `MCBrokerPipeline`, `MCAgentSession`, `MCExchange`, `MCGatewayCalls` | instances | `MCExchange` also checks that the walk of `RedactorWalk` does to a tree what `Redactor` says of its value |
| `LocalQueueProofs`, `AsyncPipelineProofs`, `WorkerProofs`, `SuccessProofs`, `ClientProofs`, `BrokerProofs`, `GatewayProofs`, `ExchangeProofs` | | the theorems |

`AsyncPipeline` composes `LocalQueue` (by EXTENDS) with gateway and worker. `BrokerPipeline` and
`AgentSession` EXTEND it, the first with another queue, the second with a client. `GatewayCalls` takes
the asynchronous route as one step, which `AsyncPipeline` details; `Exchange` puts authentication and
the response around it, and `Replies` what is in the response. An operator commented "Wrong:" is a
plausible bug of the definition it precedes, kept to show that a property notices it; no
specification uses one.

### How the code becomes steps

* A request is identified with the job id it would make, and a message body with that job. The code
  makes a fresh job id for each request and publishes a body once, so nothing is lost.
* Rows a session has added are invisible to others until it commits: they are not in the tables
  before `Commit` (pipeline) or `Record` (calls). A crash, or an exception that leaves
  `session_scope`, rolls them back: `GatewayAbort`, `Abort`, `ApproveAbort`, `WorkerAbort`.
* Two sessions that insert one key: the second commit fails on the primary key
  (`CommitConflict`), with everything the session wrote.
* SQLAlchemy writes only attributes that changed: an approve that found `approved` does not write
  the status back (`ApproveCommit`), and a job that was not found is not written (`SettleCommit`).
* A worker settles its batch in id order. An exception leaves the loop over the batch and
  `run_forever` polls again: for the queue that is the same as a crash, `Drop`.
* `RowLocks` is TRUE for PostgreSQL, where `FOR UPDATE SKIP LOCKED` keeps other receives off the
  selected rows, and FALSE for SQLite, whose dialect drops the clause without an error.
* `ToolError` stands for a tool failing by `ToolError` or by another exception, which differ in the
  error code only. `executed` counts runs that came to their end: a tool that raises is taken to have
  done nothing, and a crash inside the tool is a crash before or after it.
* An approval is identified with the dry run that made it, and `applied` counts the executions let
  through on it. The gate compares neither tool nor resource with the approved change; nor does the model.
* On the broker, a lock lapses at any time (30 seconds, which nothing renews, while a tool may take
  longer), whether or not its worker lives. The token of a delivery is its number; a settlement takes
  effect only under the token of the current delivery, and may be refused in any case, because
  `receive` closes the receiver before it returns. An exception from it leaves the batch like any other.
  A lapse beyond the last delivery puts the message in the broker's dead-letter queue.
* `delivery_count or 1`: the SDK may count deliveries from 0, so what the worker is told (`Reported`) may
  be one less than what the broker counts (`Uncounted`), except where that would be 0.
* The agent's requests are requests like any other, but reach the gateway only when its script makes them.
  A response that is an error, or does not come in time, ends the script; the person who runs it may
  start it again, with its next request. `get_job` reads a committed row.
* An exchange is one step from header to principal (`Enter`, or `Refuse` for a 401), then the steps of the
  call. A token is what the verifiers can tell of it: scheme, signature, audience, issuer, expiry and the
  two claims that may carry the role, where "" is absent or empty. Subject, agent id and scopes decide
  nothing in the code. A body that is not an `InvokeRequest` (422) does not reach `invoke`.
* A text is the set of what can be found in it: something personal of a kind, digits that look like a
  phone number (a date, a long id), a mask. The sweep applies the patterns in their order, each to
  what is left; the phone pattern comes third and also takes dates, long ids, SSNs and card numbers, so
  the two patterns after it find nothing. Keys of a dict are names: the walk does not sweep them.
  The outputs are those of the handlers on the records in `tools.py` and on what a caller may put in
  the arguments (`proposed_changes`, `description`, ids). They have a name in `Exchange` and a
  value in `Replies`. A value is the set of its leaves: an empty dict or list, which has none, and the
  order of a list are left out.
* The delivery limit is settings' `queue_max_delivery_count`, the same for gateway and worker.

## Runs

`tlc -config X.cfg M`, with M the module `PROJECT.json` names for run X.

| run | distinct states | shows |
|---|---|---|
| LocalQueue | 10,414 | exclusive claims, claims that agree with the table, bounded deliveries, final settlement; `LocalQueue` implements `WorkQueue` |
| AsyncOneKey | 176,793 | two workers, replays of one key: one successful run for a message, agreement on giving up, settled runs are audited; `AsyncPipeline` implements `JobContract`, uses the queue as it may, and starves no published message |
| AsyncTwoKeys | 2.4 million | replays of a key get one job, success stands on a run of the same key, and the contract holds, with two keys and a tool the worker does not know |
| AgentSession | 831,350 | two requests of the agent under one key, timeouts and a rerun, two workers: its polls move forward, the end it saw stays, what it submits again publishes nothing, with the contract of `JobContract` |
| Broker | 39,862 | one message, three deliveries, locks that lapse, refused settlements: `BrokerPipeline` implements `WorkQueue`; success is real and not repeated after its commit, end states are only taken back by overlapping deliveries, giving up is final, and every message settles |
| Exchange | 340,894 | every kind of token, an approval with two admins, one call of any other tool: no change without an audited approval, what is done was allowed to the token, what is answered is audited, what is sent is redacted and reported as such |

The other runs each refute a sentence of the documentation; the counterexamples are what the code
does (`PROJECT.json`, "findings", quotes the sentences):

| run | what happens |
|---|---|
| LocalQueueLapse | a worker dies; its message stays `locked` for ever, lapsed or not: `receive` looks for `available` only |
| LocalQueueSqlite | two workers claim one message on SQLite, the default database |
| AsyncOneRunPerKey | two requests with one key both find it free, both publish, one commits; both messages run |
| AsyncCompleted | the worker finishes before the gateway commits; the job stays `queued` for ever |
| AsyncPublished | publish fails, the session commits; a retry is told 202 with a job nobody will run |
| ApprovedTwice | two changes are applied on one approval: both executions pass the gate before either consumes it, or the first dies before its commit, or the approval is approved again after it was consumed |

Deadlock checking is off in every run: a queue whose messages are settled, requests that are answered
and a call that is done have nothing left to do.

### Bounds

Two workers give every race between consumers: all sharing is over a row, a row is shared by pairs,
and a third worker would only repeat the second. Two messages under one key give the races of
replays; the third in `AsyncTwoKeys`, under a key of its own, shows that a key keeps out of another's
business, with one worker to keep the run short. The broker's locks make its queue a state space of
its own, so `Broker` has one message, but three deliveries: with two, the first overlap is the last
delivery, and nothing is left to go wrong after it; the code's 5 would repeat the middle one. `LocalQueue` has three messages, one more than
`BatchSize`, so a batch can leave something behind. `MaxDelivery` is 2, where the code's default is
5: the first delivery, the last and the boundary between. The batch is 2 where the code's is 10. The
agent polls at most 3 times where `run_demo` polls 20 times: two polls to compare, and one that is cut off.
In `Exchange` one dry run, two other calls and two admins meet at one approval; `OneOtherCall` allows one
call that is refused or has nothing to do with the approval, because such calls share nothing with each
other, and `SomeInputs` and `SomeBearers` have one for every tool, every outcome and every defect of a
token. The run is outside demo mode and with Entra ID; `AuthorisedOnly` and `AuthorityIsTheTokens` hold
in every mode. `WalkRedactsTheValue`, an assumption TLC evaluates in that run,
walks trees of three levels over two keys (a dict or a list in a dict and in a list, below a declared key and
not) and a deeper one, and compares the value of what comes out with `Redact` of the value that went in. Nothing else is bounded: each body
is published once, so the tables are finite by themselves. Theorems hold for all of these.

Symmetry is used for messages, workers, calls and admins where the constants treat them alike, and only
in runs of safety properties (LocalQueue, Exchange).

### Fairness

`run_forever` polls again after an empty poll and after any exception, so a worker that can receive
does (WF), and continues a batch it has (WF). The commit of a receive is taken if tried for ever
(SF): a process that crashes inside every receive for ever is excluded, one that crashes any number
of times is not. Time passes (WF, queue only). A gateway request that was begun goes on (WF). Nothing
makes a publish succeed, a tool succeed, or a crash happen. On the broker, workers poll and go on the
same way and the broker's clock runs (WF of a lapse): `BrokerFairness`. No settlement is assumed to be
accepted, and crashes may come in every delivery, so what settles a message in the end is that deliveries run out.

`MessagesDrain` accepts a message left locked with no worker behind it: that is what a crash leaves
(run LocalQueueLapse), so the stronger statement, that every message is settled, is false of the local
queue. On the broker it is true, and `EveryMessageSettles` states it.

## Proofs

`tlapm M.tla`, with no step left out. Beside the assumptions on constants (`MaxDelivery` and `BatchSize` positive, every
request has a key), the theorems below marked * assume one reader for each row, `OneReaderPerRow`: row locks, or a
single worker. SQLite with one worker is covered; with two, claims are not exclusive (run LocalQueueSqlite). Those marked + assume `Registered = Jobs`, see `BrokerProofs`. Every
inductive invariant was an invariant of a run before it was proved.

* `LocalQueueProofs`: `QueueTypeCorrect`, `AtomicClaims`*, `DeliveriesAreBounded`*, `SettledStaysSettled`*.
  None of the last three is inductive: the commit of receive writes what its SELECT has read. The
  inductive invariant `LockInv` adds that what an open receive read is still true of the table
  (`ReadingIsFresh`), that no two have read one row (`ReadingIsDisjoint`), and the same of claims.
  `QueueKeepsItsPromises`*: every step of the table's queue is a step of `WorkQueue` or none. The invariant
  `MapInv` adds what the mapping needs: that a body is in one row, so a message has one place, and that
  nobody holds more than a batch, since a batch is taken in one step of the abstract queue.
* `AsyncPipelineProofs`: `TypeCorrect`; `PipelineUsesQueue`, that every behaviour of the pipeline is one of
  the queue, for which it must be known that a request that has not published yet has no row
  (`UnpublishedYet`), and so `PipelineKeepsTheQueue`*; `OneJobPerKey`, whose invariant says that an answer "queued" repeats the row of its
  key, that rows never go, and that a key's row never changes its job. The steps that gateway and worker
  take whatever the queue is are `SharedNext`, and what those keep is proved once (`SharedInv`, and
  `SharedSuccess` in `SuccessProofs`), for the local queue and for the broker.
* `WorkerProofs`: `OneRunPerMessage`*. A message whose tool came to its end is either with the one
  worker that is past the run (`RunIsBehind`), or not available: it cannot be received again. This uses
  `LockInv`, that bodies are unique, and that a worker receives only when idle.
  `SettledRunsAreAudited`*, `GivingUpIsForGood`*: both relate tables to a queue that is
  written in another transaction, so both need an invariant for the time between: a message about to be
  completed is audited (`HeadsKnown`), and the row of a dead job is out of the reach of `receive`,
  and whoever holds it is about to settle it as dead (`DeadIsBehind`, `DeadIsSpent`). That the count in
  the worker's hand is the row's comes from `LockInv`.
* `SuccessProofs`: `SuccessReal`. A succeeded job and a completed key hold the output of a run for
  that key. What a worker is about to write is decided before it writes it, so the invariant adds that
  the output in an open guard transaction is real, and that the tool of a message at its settlement
  has run (`WorkerKnows`). It needs no row locks: whoever settles a message has run it.
* `ClientProofs`: `ContractKept`*, the refinement of `JobContract`: a key gets an owner once, an answer is the owner,
  and no job leaves an end state. A worker writes a job's row long after it took the message, so the
  invariant `ContractInv` adds to those of `WorkerProofs` what it knows when it writes (`WritersKnow`), that the
  message of a succeeded job is out of the reach of `receive` and about to be completed by whoever has it
  (`SucceededIsBehind`), and that a job has no more attempts than its message has deliveries.
  `SessionIsPipeline`: the agent's script is a client like any other, so all theorems about the pipeline hold with it.
  `WhatEndedKept`*, `ResubmissionKept`* and `PollsKept`* are what the script relies on: what it
  saw is of the owner of its key (`SeenIsOwner`), which is never taken back, and is past (`SeenIsPast`).
* `BrokerProofs`: a lock may lapse under a worker at any step, so little is known of what a worker does late.
  `BrokerBase` is what there is: a delivery is of a row, under a number of its own, no younger than the
  broker's count; while a worker has the last delivery nobody has completed the message; and a message
  that was never with two workers at a time is held by the one it was delivered to last.
  From it follow `BrokerKeepsItsPromises` (a worker holds, for `WorkQueue`, what it has under the current
  number; a lapse is the abstract queue's return of the message) and `BrokerSuccessReal`, with the invariant of `SuccessProofs`.
  `BrokerNoRunAfterSuccess` adds that a message which is to be run, and was not with two workers, is not the
  result in its key (`RunsAreOpen`): its success and its completed key are one transaction.
  `BrokerGivesUpForGood`+ and `BrokerEndsStay`+ are about end states that only an overlap takes back.
  Their invariant `EndsInv` says that whoever is to start, run or settle a message, which no other
  had at that time, finds its job open (`HeadsAreOpen`), that a dead job's message was delivered for
  the last time (`DeadWasLast`), and that whoever skips a duplicate knows of the completed key (`SkipsKnow`).
  They assume that the worker has every tool the gateway lets through, `Registered = Jobs`: `main.py:71` and
  `worker.py:40` both build the same default registry. Without it they are false: the job of an unknown tool is
  marked dead, the lock lapses before `dead_letter`, and the message is available again; or a success under the
  same key lets its redelivery be skipped as a duplicate, and the dead job succeeds. `EndsInv` was also
  checked once with two jobs under one key and two deliveries, 8.6 million states.
* `GatewayProofs`: `TypeCorrect`; `ApprovalComesFirst`, with the invariant that whatever passed the gate was
  audited as approved, which nothing takes back, though the approval's status may have changed
  since; `AuthorisedOnly`, from the configuration of the registry and from what each place in `invoke` knows.
* `ExchangeProofs`: `ExchangeUsesCalls`, that every behaviour of the exchange is one of `GatewayCalls`, so
  that its theorems hold here; `AnsweredAreAudited`, with the invariant that a call is recorded
  exactly when it is done with a decision other than an error; `AuthorityIsTheTokens`, with the invariant that a
  call that has arrived came with a header that authenticates and asked in the role it claims, and `AuthorisedOnly`.
  `ValuesAreRedacted` is about the redactor alone: of any value, with any declared keys, nothing personal
  stays in a text, a declared field becomes a mask, what is harmless passes, and "redacted" is reported exactly if
  a mask was put in. No pattern puts back what an earlier one took, which is all it needs of their order.
  With it, `NothingPersonalIsSent` and `RedactionsAreReported` are about what is sent: their invariant
  `ReturnsKnown` says that a call whose tool ran, for real or dry, has an output of that tool, and that the tool is not
  the asynchronous one. That nobody sees raw values rests on the registry, which grants them to no role.

What `AtMostOneRunPerMessage` rests on deserves a word: a message is not run twice after a crash
because the code never redelivers a lapsed lock. If `receive` selected lapsed rows as well, as the
documentation describes, both it and `ClaimsMatchRows` would fail (mutant `LapsedIsReceivable`), and
the idempotency guard alone would not restore them.

Only model-checked: that the recursive walk does to a tree what `Redactor` does to its value
(`WalkRedactsTheValue`; recursion over data is out of the prover's reach); liveness, `MessagesDrain` and
`EveryMessageSettles` (out of its reach too); and the refuted claims.

## Not modelled

* The policy snapshot: `_sync_policies` writes a copy of the registry that no decision reads. That two
  gateways starting together may both insert it is listed under "hazards" without a property.
* The Databricks connector, whose calls are inside a tool run that succeeds or fails; telemetry and
  request logging, which nothing depends on; schemas, health, listings, the admin page, deployment.
* `error_code` and `error_detail` of a job, which a later success does not clear.
* The output of an asynchronous tool, which the worker stores without the redaction the executor applies:
  the only such tool returns nothing personal.
* A run that no audit row tells of, by a gateway that rolls back after its publish and a worker that dies after
  its run: it can happen, and `SettledRunIsAudited` says how far it cannot.
* A publish whose commit succeeds and whose answer is lost.
* In `redactor.py`, where in a text a match lies, and an exception after the tool ran.

## Plan

Done, in this order: `LocalQueue` with `WorkQueue`; `AsyncPipeline` with `JobContract`; `Policy` and
`GatewayCalls`; their theorems; `AgentSession`; `BrokerPipeline`; `Exchange`, `Redactor` and `Replies`; the theorems about
success, verdicts and the exchange; the refinements of both abstract specifications; the theorems about the
agent, the broker and the redaction of a value, and those about what is sent; the theorems about workers and
clients on a database without row locks, for a single worker. Left:

1. The policy snapshot, written at startup while another gateway may be running.
2. The audit events of the worker on the broker. `SettledRunIsAudited` is false there: a worker dies between
   the run and its settling transaction, in the last delivery, and the broker dead-letters the message of a
   run that no event tells of. What a completed message still guarantees, when another message under
   its key may have let it be skipped as a duplicate, is not stated yet.
