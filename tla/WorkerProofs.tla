---------------------------- MODULE WorkerProofs ----------------------------
(***************************************************************************)
(* What the worker keeps on the database's queue, one reader per row: a    *)
(* message makes the tool succeed once at most, and the tables and the     *)
(* queue agree on how it ended.  None of this is inductive, because the    *)
(* worker runs, writes the tables and settles the message in steps of      *)
(* their own: the invariants say what is known of a message between them.  *)
(***************************************************************************)
EXTENDS AsyncPipelineProofs

-----------------------------------------------------------------------------
(* One run per message. *)

\* The tool has run, and the message is not settled yet.
AfterRun == {"settle", "settle_found", "settle_missing", "complete"}

UnpublishedNotRun == \A r \in Jobs : r \notin Published => executed[r] = 0

\* A worker receives only between two batches.
ReceiveWhenIdle ==
    \A w \in Workers : reading[w] # {} => wpc[w] = "idle" /\ held[w] = {}

\* A message whose tool has run is out of reach of receive for ever: its row is
\* locked or completed, and who holds it, if anyone, is on the way to complete.
RunIsBehind ==
    \A i \in DOMAIN rows : executed[rows[i].body] # 0 =>
        /\ executed[rows[i].body] = 1
        /\ rows[i].status \in {"locked", "completed"}
        /\ \A w \in Workers : \A m \in held[w] : m.id = i =>
             /\ wpc[w] \in AfterRun
             /\ \A n \in held[w] : m.id <= n.id

RunInv ==
    /\ LockInv
    /\ BaseInv
    /\ UniqueBodies
    /\ UnpublishedNotRun
    /\ ReceiveWhenIdle
    /\ RunIsBehind

\* The part of the invariant beside those of the other modules.
RunRest == UniqueBodies /\ UnpublishedNotRun /\ ReceiveWhenIdle /\ RunIsBehind

\* A body that is published has a row, which bounds its runs.
LEMMA RunInvImplies == RunInv => AtMostOneRunPerMessage
<1> SUFFICES ASSUME RunInv, NEW r \in Jobs
             PROVE  executed[r] <= 1
  BY DEF AtMostOneRunPerMessage
<1>1. CASE r \notin Published
  BY <1>1 DEF RunInv, UnpublishedNotRun
<1>2. CASE r \in Published
  <2>1. PICK i \in DOMAIN rows : rows[i].body = r
    BY <1>2 DEF Published
  <2> QED
    BY <2>1 DEF RunInv, RunIsBehind
<1> QED
  BY <1>1, <1>2

\* Nothing has run initially.
LEMMA RunInit == Init => RunInv
<1> SUFFICES ASSUME Init PROVE RunInv
  OBVIOUS
<1>1. LockInv /\ BaseInv
  BY LockInit, BaseInit DEF Init
<1>2. /\ rows = <<>>
      /\ \A w \in Workers : reading[w] = {}
      /\ \A r \in Jobs : executed[r] = 0
  BY DEF Init, QueueInit
<1> QED
  BY <1>1, <1>2 DEF RunInv, UniqueBodies, UnpublishedNotRun, ReceiveWhenIdle,
                    RunIsBehind

-----------------------------------------------------------------------------
(* The steps that publish, receive, and let time pass. *)

\* Bodies stay where they are and none is added by a step that is not Publish.
LEMMA BodiesKept ==
    ASSUME BaseInv, UniqueBodies, [QuietNext]_queueVars
    PROVE  UniqueBodies'
BY QuietAddsNothing DEF BaseInv, UniqueBodies

\* A new row carries a body that was never published, hence never run.
LEMMA PublishRuns ==
    ASSUME RunInv, NEW r \in Jobs, PublishJob(r)
    PROVE  RunRest'
<1> DEFINE row == [body |-> r, status |-> "available", count |-> 0, visible |-> TRUE]
<1>1. row \in Row
  BY DEF Row, Status
<1>2. rows \in Seq(Row)
  BY DEF RunInv, LockInv, TypeInv, QueueTypeOK
<1>3. r \notin Published
  BY DEF PublishJob, RunInv, BaseInv, UnpublishedYet, Early
<1>4. /\ UNCHANGED <<reading, held, wpc, executed>>
      /\ rows' = Append(rows, row)
  BY DEF PublishJob, Publish, workerVars
<1>5. /\ DOMAIN rows \subseteq DOMAIN rows'
      /\ \A i \in DOMAIN rows : rows'[i] = rows[i]
      /\ \A i \in DOMAIN rows' \ DOMAIN rows : i = Len(rows) + 1 /\ rows'[i] = row
  BY <1>1, <1>2, <1>4
<1>6. Published' = Published \cup {r}
  BY PublishAdds DEF PublishJob, RunInv, BaseInv, TypeInv, QueueTypeOK
<1>7. UniqueBodies'
  BY <1>3, <1>5 DEF RunInv, UniqueBodies, Published
<1>8. UnpublishedNotRun' /\ ReceiveWhenIdle'
  BY <1>4, <1>6 DEF RunInv, UnpublishedNotRun, ReceiveWhenIdle
<1>9. executed[r] = 0
  BY <1>3 DEF RunInv, UnpublishedNotRun
<1>10. RunIsBehind'
  BY <1>4, <1>5, <1>9 DEF RunInv, RunIsBehind
<1> QED
  BY <1>7, <1>8, <1>10 DEF RunRest

\* What receive has selected was never run.
LEMMA SelectedNotRun ==
    ASSUME RunInv, NEW w \in Workers, NEW m \in reading[w]
    PROVE  m.id \in DOMAIN rows /\ executed[rows[m.id].body] = 0
BY DEF RunInv, LockInv, ReadingIsFresh, RunIsBehind

\* Selecting rows changes no claim.
LEMMA PollRuns ==
    ASSUME RunInv, NEW w \in Workers, Poll(w)
    PROVE  RunRest'
<1>1. UNCHANGED <<rows, held, wpc, executed>>
  BY DEF Poll, ReceiveSelect, workerVars
<1>2. \A v \in Workers : reading'[v] = reading[v] \/ v = w
  BY DEF Poll, ReceiveSelect, RunInv, LockInv, TypeInv, QueueTypeOK
<1>3. ReceiveWhenIdle'
  BY <1>1, <1>2 DEF Poll, RunInv, ReceiveWhenIdle
<1> QED
  BY <1>1, <1>3 DEF RunInv, RunRest, UniqueBodies, UnpublishedNotRun, RunIsBehind,
                    Published

\* Claiming takes only messages whose tool has not run.
LEMMA ClaimRuns ==
    ASSUME RunInv, NEW w \in Workers, Claim(w)
    PROVE  RunRest'
<1>1. ReceiveCommit(w) /\ UNCHANGED <<wpc, executed>>
  BY DEF Claim, workerVars
<1>2. [QuietNext]_queueVars /\ BaseInv /\ TypeInv
  BY <1>1 DEF QuietNext, RunInv, BaseInv
<1>3. /\ DOMAIN rows' = DOMAIN rows
      /\ \A i \in DOMAIN rows : rows'[i].body = rows[i].body
      /\ Published' = Published
  BY <1>2, QuietAddsNothing
<1>4. \A i \in DOMAIN rows : executed[rows[i].body] # 0 => rows'[i] = rows[i]
  BY <1>1, <1>2, ReceiveCommitRows, SelectedNotRun
<1>5. /\ \A v \in Workers : reading'[v] = IF v = w THEN {} ELSE reading[v]
      /\ \A v \in Workers : v # w => held'[v] = held[v]
      /\ \A m \in held'[w] : \E n \in reading[w] : m.id = n.id
  <2>1. wpc[w] = "idle" /\ held[w] = {}
    BY <1>1 DEF ReceiveCommit, RunInv, ReceiveWhenIdle
  <2> QED
    BY <1>1, <1>2, <2>1 DEF ReceiveCommit, TypeInv, QueueTypeOK, Message
<1>6. UniqueBodies' /\ UnpublishedNotRun' /\ ReceiveWhenIdle'
  BY <1>1, <1>2, <1>3, <1>5, BodiesKept DEF RunInv, UnpublishedNotRun, ReceiveWhenIdle
<1>7. RunIsBehind'
  <2> SUFFICES ASSUME NEW i \in DOMAIN rows', (executed[rows[i].body] # 0)
               PROVE  /\ executed[rows[i].body] = 1
                      /\ rows'[i].status \in {"locked", "completed"}
                      /\ \A v \in Workers : \A m \in held'[v] : m.id = i =>
                           /\ wpc[v] \in AfterRun
                           /\ \A n \in held'[v] : m.id <= n.id
    BY <1>1, <1>3 DEF RunIsBehind
  <2>1. \A m \in held'[w] : m.id # i
    BY <1>5, SelectedNotRun
  <2> QED
    BY <1>3, <1>4, <1>5, <2>1 DEF RunInv, RunIsBehind
<1> QED
  BY <1>6, <1>7 DEF RunRest

\* The passing of visible_at changes nothing receive looks at in a locked row.
LEMMA LapseRuns ==
    ASSUME RunInv, NEW k \in DOMAIN rows, Lapse(k)
    PROVE  RunRest'
<1>1. LockLapse(k) /\ UNCHANGED <<reading, held, wpc, executed>>
  BY DEF Lapse, LockLapse, workerVars
<1>2. [QuietNext]_queueVars /\ BaseInv /\ TypeInv
  BY <1>1 DEF QuietNext, RunInv, BaseInv
<1>3. /\ DOMAIN rows' = DOMAIN rows
      /\ \A i \in DOMAIN rows : rows'[i].body = rows[i].body
      /\ Published' = Published
  BY <1>2, QuietAddsNothing
<1>4. \A i \in DOMAIN rows : rows'[i].status = rows[i].status
  <2>1. rows[k] \in Row
    BY <1>2, TableRows DEF TypeInv, QueueTypeOK
  <2> QED
    BY <1>1, <2>1 DEF LockLapse, Row
<1>5. UniqueBodies' /\ UnpublishedNotRun' /\ ReceiveWhenIdle'
  BY <1>1, <1>2, <1>3, BodiesKept DEF RunInv, UnpublishedNotRun, ReceiveWhenIdle
<1>6. RunIsBehind'
  BY <1>1, <1>3, <1>4 DEF RunInv, RunIsBehind
<1> QED
  BY <1>5, <1>6 DEF RunRest

-----------------------------------------------------------------------------
(* The steps of a worker on a message. *)

\* Before and after a run, the tool has not run for any message of the batch.
LEMMA BatchNotRun ==
    ASSUME RunInv, NEW w \in Workers, NEW m \in held[w], wpc[w] \notin AfterRun
    PROVE  m.id \in DOMAIN rows /\ executed[rows[m.id].body] = 0
BY DEF RunInv, LockInv, TypeInv, HandlesExist, RunIsBehind

\* A step that leaves the queue alone and does not walk back from a run.
LEMMA MoveRuns ==
    ASSUME RunInv, NEW w \in Workers, NEW pc,
           UNCHANGED <<queueVars, executed>>,
           wpc' = [wpc EXCEPT ![w] = pc],
           wpc[w] \in AfterRun => pc \in AfterRun,
           wpc[w] # "idle" \/ held[w] # {}
    PROVE  RunRest'
<1>1. /\ UNCHANGED <<rows, reading, held, executed>>
      /\ wpc'[w] = pc
      /\ \A v \in Workers : v # w => wpc'[v] = wpc[v]
  BY DEF queueVars, RunInv, BaseInv, PipelineTypes
<1>2. reading[w] = {}
  BY DEF RunInv, ReceiveWhenIdle
<1>3. ReceiveWhenIdle'
  BY <1>1, <1>2 DEF RunInv, ReceiveWhenIdle
<1>4. RunIsBehind'
  BY <1>1 DEF RunInv, RunIsBehind
<1> QED
  BY <1>1, <1>3, <1>4 DEF RunInv, RunRest, UniqueBodies, UnpublishedNotRun, Published

\* A message is settled before its tool runs, or it is completed after.
LEMMA SettleRuns ==
    ASSUME RunInv, NEW w \in Workers, NEW m \in held[w], NEW pc,
           Settle(w, m), executed' = executed,
           wpc' = [wpc EXCEPT ![w] = pc],
           \/ wpc[w] \notin AfterRun
           \/ At(w, m, "complete") /\ Complete(w, m)
    PROVE  RunRest'
<1>1. [QuietNext]_queueVars /\ BaseInv /\ TypeInv
  BY DEF QuietNext, RunInv, BaseInv
<1>2. /\ DOMAIN rows' = DOMAIN rows
      /\ \A i \in DOMAIN rows : rows'[i].body = rows[i].body
      /\ Published' = Published
  BY <1>1, QuietAddsNothing
<1>3. /\ reading' = reading
      /\ held'[w] = held[w] \ {m}
      /\ \A v \in Workers : v # w => held'[v] = held[v] /\ wpc'[v] = wpc[v]
      /\ \A i \in DOMAIN rows : i # m.id => rows'[i] = rows[i]
  BY <1>1 DEF Settle, Complete, Abandon, DeadLetter, Unhold, TypeInv, QueueTypeOK,
              BaseInv, PipelineTypes
<1>4. m.id \in DOMAIN rows /\ reading[w] = {}
  BY <1>1 DEF TypeInv, HandlesExist, RunInv, ReceiveWhenIdle
<1>5. UniqueBodies' /\ UnpublishedNotRun' /\ ReceiveWhenIdle'
  BY <1>1, <1>2, <1>3, <1>4, BodiesKept DEF RunInv, UnpublishedNotRun, ReceiveWhenIdle
<1>6. \A v \in Workers : \A n \in held'[v] : n \in held[v] /\ n.id # m.id
  <2>1. SingleHolder
    BY LockInvImplies DEF RunInv
  <2> QED
    BY <1>3, <2>1 DEF SingleHolder
<1>7. CASE wpc[w] \notin AfterRun
  <2>1. \A n \in held[w] : executed[rows[n.id].body] = 0
    BY <1>7, BatchNotRun
  <2> QED
    BY <1>2, <1>3, <1>4, <1>5, <1>6, <2>1 DEF RunInv, RunRest, RunIsBehind
<1>8. CASE At(w, m, "complete") /\ Complete(w, m)
  <2>1. \A n \in held[w] : n.id # m.id => executed[rows[n.id].body] = 0
    <3> SUFFICES ASSUME NEW n \in held[w], n.id # m.id, executed[rows[n.id].body] # 0
                 PROVE  FALSE
      OBVIOUS
    <3>1. n.id <= m.id
      BY <1>1 DEF RunInv, RunIsBehind, TypeInv, HandlesExist
    <3>2. m.id <= n.id /\ m.id \in Nat /\ n.id \in Nat
      BY <1>1, <1>8 DEF At, TypeInv, QueueTypeOK, Message
    <3> QED
      BY <3>1, <3>2
  <2>2. rows'[m.id].status = "completed"
    <3>1. rows[m.id] \in Row
      BY <1>1, <1>4, TableRows DEF TypeInv, QueueTypeOK
    <3> QED
      BY <1>4, <1>8, <3>1 DEF Complete, Row
  <2> QED
    BY <1>2, <1>3, <1>4, <1>5, <1>6, <2>1, <2>2 DEF RunInv, RunRest, RunIsBehind
<1> QED
  BY <1>7, <1>8

\* The run itself: nobody else holds the message, and no other row has its body.
LEMMA RunOkRuns ==
    ASSUME RunInv, NEW w \in Workers, NEW m \in held[w], RunOk(w, m)
    PROVE  RunRest'
<1> DEFINE r == rows[m.id].body
<1>1. /\ UNCHANGED <<rows, reading, held>>
      /\ wpc[w] = "run"
      /\ \A n \in held[w] : m.id <= n.id
      /\ executed' = [executed EXCEPT ![r] = @ + 1]
      /\ wpc' = [wpc EXCEPT ![w] = "settle"]
  BY DEF RunOk, At, Become, queueVars
<1>2. m.id \in DOMAIN rows /\ executed[r] = 0
  BY <1>1, BatchNotRun DEF AfterRun
<1>3. r \in Jobs
  BY MessageTypes DEF RunInv, BaseInv
<1>4. /\ executed'[r] = 1
      /\ \A q \in Jobs : q # r => executed'[q] = executed[q]
      /\ wpc'[w] = "settle"
      /\ \A v \in Workers : v # w => wpc'[v] = wpc[v]
  BY <1>1, <1>2, <1>3 DEF RunInv, BaseInv, PipelineTypes
<1>5. \A i \in DOMAIN rows : rows[i].body \in Jobs /\ (i # m.id => rows[i].body # r)
  BY <1>2, TableRows DEF RunInv, UniqueBodies, LockInv, TypeInv, QueueTypeOK, Row
<1>6. rows[m.id].status = "locked"
  BY DEF RunInv, LockInv, ClaimsMatchRows
<1>7. \A v \in Workers : \A n \in held[v] : n.id = m.id => v = w
  BY DEF RunInv, LockInv, HeldIsDisjoint
<1>8. UniqueBodies' /\ UnpublishedNotRun' /\ ReceiveWhenIdle'
  <2>1. r \in Published
    BY <1>2 DEF Published
  <2> QED
    BY <1>1, <1>4, <2>1 DEF RunInv, UniqueBodies, UnpublishedNotRun, ReceiveWhenIdle,
                            Published
<1>9. RunIsBehind'
  <2>1. ASSUME NEW i \in DOMAIN rows, i # m.id, (executed'[rows[i].body] # 0)
        PROVE  /\ executed'[rows[i].body] = 1
               /\ rows[i].status \in {"locked", "completed"}
               /\ \A v \in Workers : \A n \in held[v] : n.id = i =>
                    wpc'[v] \in AfterRun /\ \A l \in held[v] : n.id <= l.id
    <3>1. executed'[rows[i].body] = executed[rows[i].body]
      BY <1>4, <1>5, <2>1
    <3>2. \A n \in held[w] : n.id # i
      BY <1>1, <2>1, <3>1, BatchNotRun DEF AfterRun
    <3> QED
      BY <1>4, <2>1, <3>1, <3>2 DEF RunInv, RunIsBehind
  <2> QED
    BY <1>1, <1>2, <1>4, <1>6, <1>7, <2>1 DEF RunIsBehind, AfterRun
<1> QED
  BY <1>8, <1>9 DEF RunRest

\* Every step of _process.
LEMMA ProcessRuns ==
    ASSUME RunInv, NEW w \in Workers, NEW m \in held[w], Process(w, m)
    PROVE  RunRest'
<1>1. CASE RunOk(w, m)
  BY <1>1, RunOkRuns
<1>2. CASE \/ Guard(w, m) \/ GuardDuplicate(w, m) \/ UnknownTool(w, m)
           \/ Start(w, m) \/ RunFails(w, m) \/ Failure(w, m)
           \/ SettleRead(w, m) \/ SettleCommit(w, m)
  <2>1. PICK pc : /\ UNCHANGED <<queueVars, executed>>
                  /\ wpc' = [wpc EXCEPT ![w] = pc]
                  /\ wpc[w] \in AfterRun => pc \in AfterRun
    BY <1>2 DEF Guard, GuardDuplicate, UnknownTool, Start, RunFails, Failure,
                SettleRead, SettleCommit, At, Become, AfterRun
  <2> QED
    BY <2>1, MoveRuns
<1>3. CASE SkipComplete(w, m) \/ DeadLetterUnknown(w, m) \/ AbandonMessage(w, m)
  <2>1. PICK pc : /\ Settle(w, m) /\ executed' = executed
                  /\ wpc' = [wpc EXCEPT ![w] = pc]
                  /\ wpc[w] \notin AfterRun
    BY <1>3 DEF SkipComplete, DeadLetterUnknown, AbandonMessage, Settle, At, Become,
                AfterRun
  <2> QED
    BY <2>1, SettleRuns
<1>4. CASE CompleteMessage(w, m)
  BY <1>4, SettleRuns DEF CompleteMessage, Settle, Become
<1> QED
  BY <1>1, <1>2, <1>3, <1>4 DEF Process

\* The commit of the guard transaction does not touch the queue.
LEMMA SkipCommitRuns ==
    ASSUME RunInv, NEW w \in Workers, SkipCommit(w)
    PROVE  RunRest'
BY MoveRuns DEF SkipCommit, Become, AfterRun

\* A worker that loses its batch leaves the rows as they are.
LEMMA AbortRuns ==
    ASSUME RunInv, NEW w \in Workers, WorkerAbort(w)
    PROVE  RunRest'
<1>1. /\ rows' = rows /\ executed' = executed
      /\ \A v \in Workers : held'[v] = IF v = w THEN {} ELSE held[v]
      /\ \A v \in Workers : v # w => reading'[v] = reading[v] /\ wpc'[v] = wpc[v]
      /\ wpc'[w] = "idle"
  BY DEF WorkerAbort, Drop, Become, queueVars, RunInv, LockInv, TypeInv, QueueTypeOK,
         BaseInv, PipelineTypes
<1>2. UniqueBodies' /\ UnpublishedNotRun' /\ ReceiveWhenIdle'
  BY <1>1 DEF RunInv, UniqueBodies, UnpublishedNotRun, ReceiveWhenIdle, Published
<1>3. RunIsBehind'
  BY <1>1 DEF RunInv, RunIsBehind
<1> QED
  BY <1>2, <1>3 DEF RunRest

-----------------------------------------------------------------------------
\* The gateway, apart from publishing, leaves what the invariant speaks of alone.
LEMMA GatewayRuns ==
    ASSUME RunInv, NEW r \in Jobs, GatewayStep(r) \/ GatewayAbort(r), ~PublishJob(r)
    PROVE  RunRest'
<1>1. UNCHANGED <<rows, reading, held, wpc, executed>>
  BY DEF GatewayStep, GatewayAbort, Lookup, Reserve, PublishFails, Commit,
         CommitConflict, CommitDuplicate, queueVars, workerVars
<1> QED
  BY <1>1 DEF RunInv, RunRest, UniqueBodies, UnpublishedNotRun, ReceiveWhenIdle,
              RunIsBehind, Published

\* The invariant is inductive, given one reader per row.
LEMMA RunStep == OneReaderPerRow /\ RunInv /\ [Next]_vars => RunInv'
<1> SUFFICES ASSUME OneReaderPerRow, RunInv, [Next]_vars
             PROVE  RunInv'
  OBVIOUS
<1>1. BaseInv'
  BY BaseStep DEF RunInv
<1>2. LockInv'
  BY LockStep, QueueStep DEF RunInv, BaseInv
<1>3. CASE UNCHANGED vars
  <2>1. UNCHANGED <<rows, reading, held, wpc, executed>>
    BY <1>3 DEF vars, queueVars, workerVars
  <2> QED
    BY <1>1, <1>2, <2>1 DEF RunInv, UniqueBodies, UnpublishedNotRun, ReceiveWhenIdle,
                            RunIsBehind, Published
<1>4. CASE Next
  <2>1. RunRest'
    BY <1>4, PublishRuns, GatewayRuns, PollRuns, ClaimRuns, SkipCommitRuns,
       ProcessRuns, AbortRuns, LapseRuns
       DEF Next
  <2> QED
    BY <1>1, <1>2, <2>1 DEF RunInv, RunRest
<1> QED
  BY <1>3, <1>4

\* Over redeliveries, worker crashes at any point, competing workers and late or
\* failed gateway commits, one message makes its tool succeed once at most.
THEOREM OneRunPerMessage ==
    ASSUME OneReaderPerRow
    PROVE  Spec => []AtMostOneRunPerMessage
<1>1. RunInv => AtMostOneRunPerMessage
  BY RunInvImplies
<1>2. Init => RunInv
  BY RunInit
<1>3. RunInv /\ [Next]_vars => RunInv'
  BY RunStep
<1> QED
  BY <1>1, <1>2, <1>3, PTL DEF Spec

-----------------------------------------------------------------------------
(* The verdict in the tables and the message's own. *)

\* What a worker knows of the message it is about to settle.
HeadsKnown ==
    \A w \in Workers : \A m \in held[w] : IsHead(w, m) =>
        /\ wpc[w] = "complete" => rows[m.id].body \in audited
        /\ wpc[w] = "unknown" => rows[m.id].body \notin Registered

\* The worker has written that the job is dead, and will settle the message so.
BeingGivenUp(w, m) ==
    /\ IsHead(w, m)
    /\ wpc[w] = "dead_letter" \/ (wpc[w] = "abandon" /\ m.count >= MaxDelivery)

\* The row of a dead job is out of the reach of receive, and who holds it is about to
\* settle it as dead.
DeadIsBehind ==
    \A i \in DOMAIN rows : jobs[rows[i].body].status = "dead_letter" =>
        /\ rows[i].status \in {"locked", "dead_letter"}
        /\ \A w \in Workers : \A m \in held[w] : m.id = i => BeingGivenUp(w, m)

DeadIsSpent ==
    \A r \in Jobs : jobs[r].status = "dead_letter" =>
        /\ r \in Published
        /\ r \in Registered => jobs[r].attempts = MaxDelivery

VerdictRest == SettledRunIsAudited /\ HeadsKnown /\ DeadIsBehind /\ DeadIsSpent

VerdictInv == RunInv /\ VerdictRest

\* The row of a dead job is not handed out, under any body.
LEMMA VerdictInvImplies == VerdictInv => SettledRunIsAudited /\ GivingUpIsFinal
BY DEF VerdictInv, VerdictRest, DeadIsBehind, DeadIsSpent, GivingUpIsFinal, RowsOf

\* There are no rows and no jobs initially.
LEMMA VerdictInit == Init => VerdictInv
<1> SUFFICES ASSUME Init PROVE VerdictInv
  OBVIOUS
<1>1. RunInv
  BY RunInit
<1>2. /\ rows = <<>>
      /\ \A w \in Workers : held[w] = {}
      /\ \A r \in Jobs : jobs[r].status = "absent"
  BY DEF Init, QueueInit, Job
<1> QED
  BY <1>1, <1>2 DEF VerdictInv, VerdictRest, SettledRunIsAudited, HeadsKnown,
                    DeadIsBehind, DeadIsSpent

-----------------------------------------------------------------------------
(* Steps that write no verdict. *)

\* A step that leaves the queue and the workers alone, and buries no job.
LEMMA TablesOnlyVerdicts ==
    ASSUME VerdictInv, UNCHANGED <<rows, held, wpc, executed>>, audited \subseteq audited',
           \A r \in Jobs : jobs'[r] = jobs[r] \/ jobs'[r].status # "dead_letter"
    PROVE  VerdictRest'
<1>1. \A i \in DOMAIN rows : rows[i].body \in Jobs
  BY TableRows DEF VerdictInv, RunInv, LockInv, TypeInv, QueueTypeOK, Row
<1>2. SettledRunIsAudited' /\ HeadsKnown'
  BY DEF VerdictInv, VerdictRest, SettledRunIsAudited, HeadsKnown, IsHead
<1>3. DeadIsBehind'
  BY <1>1 DEF VerdictInv, VerdictRest, DeadIsBehind, BeingGivenUp, IsHead
<1>4. DeadIsSpent'
  BY DEF VerdictInv, VerdictRest, DeadIsSpent, Published
<1> QED
  BY <1>2, <1>3, <1>4 DEF VerdictRest

\* The gateway, apart from publishing.
LEMMA GatewayVerdicts ==
    ASSUME VerdictInv, NEW r \in Jobs, GatewayStep(r) \/ GatewayAbort(r), ~PublishJob(r)
    PROVE  VerdictRest'
<1>1. UNCHANGED <<rows, held, wpc, executed>> /\ audited \subseteq audited'
  BY DEF GatewayStep, GatewayAbort, Lookup, Reserve, PublishFails, Commit,
         CommitConflict, CommitDuplicate, queueVars, workerVars, tables
<1>2. jobs' = jobs \/ jobs' = [jobs EXCEPT ![r] = Job("queued", 0, NoJob)]
  BY DEF GatewayStep, GatewayAbort, Lookup, Reserve, PublishFails, Commit,
         CommitConflict, CommitDuplicate, tables
<1>3. \A q \in Jobs : jobs'[q] = jobs[q] \/ jobs'[q].status # "dead_letter"
  BY <1>2 DEF Job, VerdictInv, RunInv, BaseInv, PipelineTypes
<1> QED
  BY <1>1, <1>3, TablesOnlyVerdicts

\* A new row is available, and of a job that no worker has seen.
LEMMA PublishVerdicts ==
    ASSUME VerdictInv, NEW r \in Jobs, PublishJob(r)
    PROVE  VerdictRest'
<1> DEFINE row == [body |-> r, status |-> "available", count |-> 0, visible |-> TRUE]
<1>1. row \in Row
  BY DEF Row, Status
<1>2. rows \in Seq(Row) /\ \A w \in Workers : \A m \in held[w] : m.id \in DOMAIN rows
  BY DEF VerdictInv, RunInv, LockInv, TypeInv, QueueTypeOK, HandlesExist
<1>3. r \notin Published
  BY DEF PublishJob, VerdictInv, RunInv, BaseInv, UnpublishedYet, Early
<1>4. UNCHANGED <<held, wpc, executed, jobs, audited>> /\ rows' = Append(rows, row)
  BY DEF PublishJob, Publish, workerVars, tables
<1>5. /\ DOMAIN rows \subseteq DOMAIN rows'
      /\ \A i \in DOMAIN rows : rows'[i] = rows[i]
      /\ \A i \in DOMAIN rows' : i \notin DOMAIN rows => rows'[i] = row
  BY <1>1, <1>2, <1>4, InsertRow
<1>6. Published' = Published \cup {r}
  BY PublishAdds DEF PublishJob, VerdictInv, RunInv, BaseInv, TypeInv, QueueTypeOK
<1>7. jobs[r].status # "dead_letter"
  BY <1>3 DEF VerdictInv, VerdictRest, DeadIsSpent
<1>8. SettledRunIsAudited'
  BY <1>4, <1>5 DEF VerdictInv, VerdictRest, SettledRunIsAudited
<1>9. HeadsKnown'
  BY <1>2, <1>4, <1>5 DEF VerdictInv, VerdictRest, HeadsKnown, IsHead
<1>10. DeadIsBehind'
  BY <1>4, <1>5, <1>7 DEF VerdictInv, VerdictRest, DeadIsBehind, BeingGivenUp, IsHead
<1>11. DeadIsSpent'
  BY <1>4, <1>6 DEF VerdictInv, VerdictRest, DeadIsSpent
<1> QED
  BY <1>8, <1>9, <1>10, <1>11 DEF VerdictRest

\* Claiming takes available rows only, hence of no dead job.
LEMMA ClaimVerdicts ==
    ASSUME VerdictInv, NEW w \in Workers, Claim(w)
    PROVE  VerdictRest'
<1>1. ReceiveCommit(w) /\ UNCHANGED <<wpc, executed, jobs, audited>>
  BY DEF Claim, workerVars, tables
<1>2. TypeInv /\ [QuietNext]_queueVars
  BY <1>1 DEF QuietNext, VerdictInv, RunInv, LockInv
<1>3. /\ DOMAIN rows' = DOMAIN rows
      /\ \A i \in DOMAIN rows : rows'[i].body = rows[i].body
      /\ Published' = Published
  BY <1>2, QuietAddsNothing
<1>4. \A i \in DOMAIN rows :
         \/ rows'[i] = rows[i] /\ \A m \in reading[w] : m.id # i
         \/ rows[i].status = "available" /\ rows'[i].status = "locked"
  <2>1. \A i \in DOMAIN rows :
          \/ rows'[i] = rows[i] /\ \A m \in reading[w] : m.id # i
          \/ \E m \in reading[w] : m.id = i /\ rows'[i] = Claimed(rows[i], m)
    BY <1>1, <1>2, ReceiveCommitRows
  <2>2. \A m \in reading[w] : rows[m.id].status = "available"
    BY DEF VerdictInv, RunInv, LockInv, ReadingIsFresh
  <2>3. \A i \in DOMAIN rows, m \in reading[w] : Claimed(rows[i], m).status = "locked"
    BY DEF Claimed
  <2> QED
    BY <2>1, <2>2, <2>3
<1>5. wpc[w] = "idle" /\ held[w] = {}
  BY <1>1 DEF ReceiveCommit, VerdictInv, RunInv, ReceiveWhenIdle
<1>6. /\ \A v \in Workers : v # w => held'[v] = held[v]
      /\ \A m \in held'[w] : \E n \in reading[w] : m.id = n.id
  BY <1>1, <1>2, <1>5 DEF ReceiveCommit, TypeInv, QueueTypeOK, Message
<1>7. SettledRunIsAudited'
  BY <1>1, <1>3, <1>4 DEF VerdictInv, VerdictRest, SettledRunIsAudited
<1>8. HeadsKnown'
  <2>1. \A v \in Workers : \A m \in held[v] : m.id \in DOMAIN rows
    BY <1>2 DEF TypeInv, HandlesExist
  <2> QED
    BY <1>1, <1>3, <1>5, <1>6, <2>1 DEF VerdictInv, VerdictRest, HeadsKnown, IsHead
<1>9. DeadIsBehind'
  BY <1>1, <1>3, <1>4, <1>6 DEF VerdictInv, VerdictRest, DeadIsBehind, BeingGivenUp, IsHead
<1>10. DeadIsSpent'
  BY <1>1, <1>3 DEF VerdictInv, VerdictRest, DeadIsSpent
<1> QED
  BY <1>7, <1>8, <1>9, <1>10 DEF VerdictRest

\* The passing of visible_at changes no status.
LEMMA LapseVerdicts ==
    ASSUME VerdictInv, NEW k \in DOMAIN rows, Lapse(k)
    PROVE  VerdictRest'
<1>1. LockLapse(k) /\ UNCHANGED <<held, wpc, executed, jobs, audited>>
  BY DEF Lapse, LockLapse, workerVars, tables
<1>2. TypeInv /\ [QuietNext]_queueVars
  BY <1>1 DEF QuietNext, VerdictInv, RunInv, LockInv
<1>3. /\ DOMAIN rows' = DOMAIN rows
      /\ \A i \in DOMAIN rows : rows'[i].body = rows[i].body
      /\ Published' = Published
  BY <1>2, QuietAddsNothing
<1>4. \A i \in DOMAIN rows : rows'[i].status = rows[i].status
  <2>1. rows[k] \in Row
    BY <1>2, TableRows DEF TypeInv, QueueTypeOK
  <2> QED
    BY <1>1, <2>1 DEF LockLapse, Row
<1>5. \A v \in Workers : \A m \in held[v] : m.id \in DOMAIN rows
  BY <1>2 DEF TypeInv, HandlesExist
<1> QED
  BY <1>1, <1>3, <1>4, <1>5
     DEF VerdictInv, VerdictRest, SettledRunIsAudited, HeadsKnown, DeadIsBehind,
         BeingGivenUp, IsHead, DeadIsSpent

\* The guard transaction commits when its worker holds the message no more.
LEMMA SkipCommitVerdicts ==
    ASSUME VerdictInv, NEW w \in Workers, SkipCommit(w)
    PROVE  VerdictRest'
<1> DEFINE r == skipping[w].job
<1>1. /\ UNCHANGED <<rows, held, executed>>
      /\ audited \subseteq audited'
      /\ wpc[w] = "skip_commit"
      /\ wpc'[w] = "idle"
      /\ \A v \in Workers : v # w => wpc'[v] = wpc[v]
  BY DEF SkipCommit, Become, queueVars, VerdictInv, RunInv, BaseInv, PipelineTypes
<1>2. \A q \in Jobs : jobs'[q] = jobs[q] \/ jobs'[q].status # "dead_letter"
  BY DEF SkipCommit, SetJob, Job, VerdictInv, RunInv, BaseInv, PipelineTypes
<1>3. \A i \in DOMAIN rows : rows[i].body \in Jobs
  BY TableRows DEF VerdictInv, RunInv, LockInv, TypeInv, QueueTypeOK, Row
<1>4. SettledRunIsAudited' /\ HeadsKnown'
  BY <1>1 DEF VerdictInv, VerdictRest, SettledRunIsAudited, HeadsKnown, IsHead
<1>5. DeadIsBehind'
  BY <1>1, <1>2, <1>3 DEF VerdictInv, VerdictRest, DeadIsBehind, BeingGivenUp, IsHead
<1>6. DeadIsSpent'
  BY <1>1, <1>2 DEF VerdictInv, VerdictRest, DeadIsSpent, Published
<1> QED
  BY <1>4, <1>5, <1>6 DEF VerdictRest

\* A worker that loses its batch leaves the rows locked.
LEMMA AbortVerdicts ==
    ASSUME VerdictInv, NEW w \in Workers, WorkerAbort(w)
    PROVE  VerdictRest'
<1>1. /\ UNCHANGED <<rows, executed, jobs, audited>>
      /\ \A v \in Workers : held'[v] = IF v = w THEN {} ELSE held[v]
      /\ \A v \in Workers : v # w => wpc'[v] = wpc[v]
  BY DEF WorkerAbort, Drop, Become, queueVars, tables, VerdictInv, RunInv, LockInv,
         TypeInv, QueueTypeOK, BaseInv, PipelineTypes
<1> QED
  BY <1>1 DEF VerdictInv, VerdictRest, SettledRunIsAudited, HeadsKnown, DeadIsBehind,
              BeingGivenUp, IsHead, DeadIsSpent, Published

-----------------------------------------------------------------------------
(* The steps of a worker on a message. *)

\* A step that moves the worker on and leaves the queue alone.  It may bury the job of
\* the message if the worker will settle the message as dead.
LEMMA MoveVerdicts ==
    ASSUME VerdictInv, NEW w \in Workers, NEW m \in held[w], IsHead(w, m), NEW pc,
           wpc[w] \notin {"dead_letter", "abandon"},
           wpc' = [wpc EXCEPT ![w] = pc],
           UNCHANGED <<rows, held>>,
           audited \subseteq audited',
           \A i \in DOMAIN rows :
               rows[i].status # "locked" => executed'[rows[i].body] = executed[rows[i].body],
           pc = "complete" => rows[m.id].body \in audited',
           pc = "unknown" => rows[m.id].body \notin Registered,
           \A q \in Jobs :
               \/ jobs'[q] = jobs[q]
               \/ jobs'[q].status # "dead_letter"
               \/ /\ q = rows[m.id].body
                  /\ q \in Registered => jobs'[q].attempts = MaxDelivery
                  /\ pc = "dead_letter" \/ (pc = "abandon" /\ m.count >= MaxDelivery)
    PROVE  VerdictRest'
<1> DEFINE r == rows[m.id].body
<1>1. /\ wpc'[w] = pc
      /\ \A v \in Workers : v # w => wpc'[v] = wpc[v]
      /\ m.id \in DOMAIN rows /\ r \in Jobs
  BY MessageTypes DEF VerdictInv, RunInv, BaseInv, PipelineTypes
<1>2. \A i \in DOMAIN rows : rows[i].body \in Jobs /\ (i # m.id => rows[i].body # r)
  BY <1>1, TableRows DEF VerdictInv, RunInv, UniqueBodies, LockInv, TypeInv, QueueTypeOK, Row
<1>3. \A v \in Workers : \A n \in held[v] : n.id = m.id => v = w /\ n = m
  <2>1. SingleHolder
    BY LockInvImplies DEF VerdictInv, RunInv
  <2> QED
    BY <2>1 DEF SingleHolder
<1>4. \A n \in held[w] : IsHead(w, n) => n = m
  <2>1. \A n \in held[w] : n.id \in Nat
    BY DEF VerdictInv, RunInv, LockInv, TypeInv, QueueTypeOK, Message
  <2> QED
    BY <1>3, <2>1 DEF IsHead
<1>5. SettledRunIsAudited'
  BY DEF VerdictInv, VerdictRest, SettledRunIsAudited
<1>6. HeadsKnown'
  BY <1>1, <1>4 DEF VerdictInv, VerdictRest, HeadsKnown, IsHead
<1>7. DeadIsBehind'
  <2> SUFFICES ASSUME NEW i \in DOMAIN rows, jobs'[rows[i].body].status = "dead_letter"
               PROVE  /\ rows[i].status \in {"locked", "dead_letter"}
                      /\ \A v \in Workers : \A n \in held[v] : n.id = i =>
                           BeingGivenUp(v, n)'
    BY DEF DeadIsBehind
  <2>1. CASE jobs[rows[i].body].status = "dead_letter"
    <3>1. \A n \in held[w] : n.id # i
      BY <2>1 DEF VerdictInv, VerdictRest, DeadIsBehind, BeingGivenUp
    <3> QED
      BY <1>1, <2>1, <3>1 DEF VerdictInv, VerdictRest, DeadIsBehind, BeingGivenUp, IsHead
  <2>2. CASE jobs[rows[i].body].status # "dead_letter"
    <3>1. /\ i = m.id
          /\ pc = "dead_letter" \/ (pc = "abandon" /\ m.count >= MaxDelivery)
      BY <1>2, <2>2
    <3>2. rows[i].status = "locked"
      BY <3>1 DEF VerdictInv, RunInv, LockInv, ClaimsMatchRows
    <3> QED
      BY <1>1, <1>3, <3>1, <3>2 DEF BeingGivenUp, IsHead
  <2> QED
    BY <2>1, <2>2
<1>8. DeadIsSpent'
  <2>1. Published' = Published /\ r \in Published
    BY <1>1 DEF Published
  <2> QED
    BY <2>1 DEF VerdictInv, VerdictRest, DeadIsSpent
<1> QED
  BY <1>5, <1>6, <1>7, <1>8 DEF VerdictRest

\* Settling a message ends it as the tables say.
LEMMA SettleVerdicts ==
    ASSUME VerdictInv, NEW w \in Workers, NEW m \in held[w], IsHead(w, m), NEW pc,
           Settle(w, m),
           wpc' = [wpc EXCEPT ![w] = pc],
           pc \notin {"complete", "unknown"},
           UNCHANGED <<executed, jobs, audited>>,
           executed[rows[m.id].body] = 0 \/ rows[m.id].body \in audited,
           jobs[rows[m.id].body].status = "dead_letter" => rows'[m.id].status = "dead_letter"
    PROVE  VerdictRest'
<1>1. TypeInv /\ [QuietNext]_queueVars
  BY DEF QuietNext, VerdictInv, RunInv, LockInv
<1>2. /\ DOMAIN rows' = DOMAIN rows
      /\ \A i \in DOMAIN rows : rows'[i].body = rows[i].body
      /\ Published' = Published
  BY <1>1, QuietAddsNothing
<1>3. /\ held'[w] = held[w] \ {m}
      /\ \A v \in Workers : v # w => held'[v] = held[v] /\ wpc'[v] = wpc[v]
      /\ wpc'[w] = pc
      /\ \A i \in DOMAIN rows : i # m.id => rows'[i] = rows[i]
  BY <1>1 DEF Settle, Complete, Abandon, DeadLetter, Unhold, TypeInv, QueueTypeOK,
              VerdictInv, RunInv, BaseInv, PipelineTypes
<1>4. \A v \in Workers : \A n \in held'[v] : n \in held[v] /\ n.id # m.id /\ n.id \in DOMAIN rows
  <2>1. SingleHolder
    BY LockInvImplies DEF VerdictInv, RunInv
  <2> QED
    BY <1>1, <1>3, <2>1 DEF SingleHolder, TypeInv, HandlesExist
<1>5. SettledRunIsAudited'
  BY <1>2, <1>3 DEF VerdictInv, VerdictRest, SettledRunIsAudited
<1>6. HeadsKnown'
  BY <1>2, <1>3, <1>4 DEF VerdictInv, VerdictRest, HeadsKnown, IsHead
<1>7. DeadIsBehind'
  <2>1. \A n \in held'[w] : jobs[rows[n.id].body].status # "dead_letter"
    <3>1. \A n \in held[w] : m.id <= n.id /\ n.id \in Nat /\ m.id \in Nat
      BY <1>1 DEF IsHead, TypeInv, QueueTypeOK, Message
    <3> QED
      BY <1>3, <1>4, <3>1 DEF VerdictInv, VerdictRest, DeadIsBehind, BeingGivenUp, IsHead
  <2> QED
    BY <1>2, <1>3, <1>4, <2>1
       DEF VerdictInv, VerdictRest, DeadIsBehind, BeingGivenUp, IsHead
<1>8. DeadIsSpent'
  BY <1>2 DEF VerdictInv, VerdictRest, DeadIsSpent
<1> QED
  BY <1>5, <1>6, <1>7, <1>8 DEF VerdictRest

\* Burying the job of a tool that failed for the last time: the count in the message is
\* the row's, which is within the budget.
LEMMA FailureVerdicts ==
    ASSUME VerdictInv, NEW w \in Workers, NEW m \in held[w], Failure(w, m)
    PROVE  VerdictRest'
<1> DEFINE r == rows[m.id].body
<1>1. r \in Jobs /\ m.count \in Nat /\ MaxDelivery \in Nat
  BY MessageTypes, QueueAssumption DEF VerdictInv, RunInv, BaseInv
<1>2. m.count <= MaxDelivery
  BY DEF VerdictInv, RunInv, LockInv, ClaimsMatchRows, DeliveryBudget
<1>3. /\ UNCHANGED <<rows, held, executed>>
      /\ audited \subseteq audited'
      /\ wpc' = [wpc EXCEPT ![w] = "abandon"]
      /\ wpc[w] = "failure"
      /\ IsHead(w, m)
  BY DEF Failure, At, Become, IsHead, queueVars
<1>4. SetJob(r, Job(IF m.count >= MaxDelivery THEN "dead_letter" ELSE "failed",
                    m.count, jobs[r].result))
  BY DEF Failure
<1>5. \A q \in Jobs :
        \/ jobs'[q] = jobs[q]
        \/ jobs'[q].status # "dead_letter"
        \/ /\ q = r
           /\ q \in Registered => jobs'[q].attempts = MaxDelivery
           /\ m.count >= MaxDelivery
  <2>1. CASE m.count >= MaxDelivery
    <3>1. m.count = MaxDelivery
      BY <1>1, <1>2, <2>1
    <3> QED
      BY <1>1, <1>4, <2>1, <3>1
         DEF SetJob, Job, VerdictInv, RunInv, BaseInv, PipelineTypes
  <2>2. CASE ~(m.count >= MaxDelivery)
    BY <1>1, <1>4, <2>2 DEF SetJob, Job, VerdictInv, RunInv, BaseInv, PipelineTypes
  <2> QED
    BY <2>1, <2>2
<1>6. PICK pc : pc = "abandon"
  OBVIOUS
<1>7. /\ wpc' = [wpc EXCEPT ![w] = pc]
      /\ pc # "complete" /\ pc # "unknown"
      /\ wpc[w] \notin {"dead_letter", "abandon"}
      /\ \A i \in DOMAIN rows :
           rows[i].status # "locked" => executed'[rows[i].body] = executed[rows[i].body]
  BY <1>3, <1>6
<1>8. \A q \in Jobs :
        \/ jobs'[q] = jobs[q]
        \/ jobs'[q].status # "dead_letter"
        \/ /\ q = r
           /\ q \in Registered => jobs'[q].attempts = MaxDelivery
           /\ pc = "dead_letter" \/ (pc = "abandon" /\ m.count >= MaxDelivery)
  BY <1>5, <1>6
<1> QED
  BY <1>3, <1>7, <1>8, MoveVerdicts

\* Burying the job of a tool nobody knows.
LEMMA UnknownVerdicts ==
    ASSUME VerdictInv, NEW w \in Workers, NEW m \in held[w], UnknownTool(w, m)
    PROVE  VerdictRest'
<1> DEFINE r == rows[m.id].body
<1>1. r \in Jobs
  BY MessageTypes DEF VerdictInv, RunInv, BaseInv
<1>2. /\ UNCHANGED <<rows, held, executed>>
      /\ audited \subseteq audited'
      /\ wpc' = [wpc EXCEPT ![w] = "dead_letter"]
      /\ wpc[w] = "unknown"
      /\ IsHead(w, m)
  BY DEF UnknownTool, At, Become, IsHead, queueVars
<1>3. r \notin Registered
  BY <1>2 DEF VerdictInv, VerdictRest, HeadsKnown
<1>4. \A q \in Jobs : jobs'[q] = jobs[q] \/ q = r
  BY <1>1 DEF UnknownTool, SetJob, VerdictInv, RunInv, BaseInv, PipelineTypes
<1> QED
  BY <1>2, <1>3, <1>4, MoveVerdicts

\* The run itself: its row is locked, so nothing is claimed of it yet.
LEMMA RunVerdicts ==
    ASSUME VerdictInv, NEW w \in Workers, NEW m \in held[w], RunOk(w, m)
    PROVE  VerdictRest'
<1>1. /\ UNCHANGED <<rows, held, jobs, audited>>
      /\ executed' = [executed EXCEPT ![rows[m.id].body] = @ + 1]
      /\ wpc' = [wpc EXCEPT ![w] = "settle"]
      /\ wpc[w] = "run"
      /\ IsHead(w, m)
  BY DEF RunOk, At, Become, IsHead, queueVars, tables
<1>2. m.id \in DOMAIN rows /\ rows[m.id].status = "locked"
  BY DEF VerdictInv, RunInv, LockInv, ClaimsMatchRows
<1>3. \A i \in DOMAIN rows : rows[i].status # "locked" =>
         executed'[rows[i].body] = executed[rows[i].body]
  <2>1. \A i \in DOMAIN rows : rows[i].status # "locked" => rows[i].body # rows[m.id].body
    BY <1>2 DEF VerdictInv, RunInv, UniqueBodies
  <2>2. \A i \in DOMAIN rows : rows[i].body \in Jobs
    BY TableRows DEF VerdictInv, RunInv, LockInv, TypeInv, QueueTypeOK, Row
  <2> QED
    BY <1>1, <2>1, <2>2 DEF VerdictInv, RunInv, BaseInv, PipelineTypes
<1> QED
  BY <1>1, <1>3, MoveVerdicts

\* The steps that bury no job and leave the queue alone.
LEMMA QuietVerdicts ==
    ASSUME VerdictInv, NEW w \in Workers, NEW m \in held[w],
           \/ Guard(w, m) \/ GuardDuplicate(w, m) \/ Start(w, m) \/ RunFails(w, m)
           \/ SettleRead(w, m) \/ SettleCommit(w, m)
    PROVE  VerdictRest'
<1> DEFINE r == rows[m.id].body
<1>1. r \in Jobs
  BY MessageTypes DEF VerdictInv, RunInv, BaseInv
<1>2. PICK pc : /\ wpc' = [wpc EXCEPT ![w] = pc]
                /\ pc \notin {"dead_letter", "abandon"}
                /\ pc = "complete" => r \in audited'
                /\ pc = "unknown" => r \notin Registered
  BY DEF Guard, GuardDuplicate, Start, RunFails, SettleRead, SettleCommit, Become
<1>3. /\ UNCHANGED <<rows, held, executed>>
      /\ audited \subseteq audited'
      /\ wpc[w] \notin {"dead_letter", "abandon"}
      /\ IsHead(w, m)
  BY DEF Guard, GuardDuplicate, Start, RunFails, SettleRead, SettleCommit, At, IsHead,
         queueVars, tables
<1>4. \/ jobs' = jobs
      \/ jobs' = [jobs EXCEPT ![r] = Job("succeeded", m.count, r)]
      \/ jobs' = [jobs EXCEPT ![r] = Job("running", m.count, jobs[r].result)]
  BY DEF Guard, GuardDuplicate, Start, RunFails, SettleRead, SettleCommit, SetJob, tables
<1>5. \A q \in Jobs : jobs'[q] = jobs[q] \/ jobs'[q].status # "dead_letter"
  BY <1>1, <1>4 DEF Job, VerdictInv, RunInv, BaseInv, PipelineTypes
<1> QED
  BY <1>2, <1>3, <1>5, MoveVerdicts

\* A message is completed for a key that is done, its tool not having run, or after the
\* run is in the tables; it is released or dead when its tool has not run.
LEMMA EndVerdicts ==
    ASSUME VerdictInv, NEW w \in Workers, NEW m \in held[w],
           \/ SkipComplete(w, m) \/ DeadLetterUnknown(w, m)
           \/ CompleteMessage(w, m) \/ AbandonMessage(w, m)
    PROVE  VerdictRest'
<1> DEFINE r == rows[m.id].body
<1>1. m.id \in DOMAIN rows /\ rows[m.id] \in Row /\ m.count = rows[m.id].count
  BY MessageTypes DEF VerdictInv, RunInv, BaseInv, LockInv, ClaimsMatchRows
<1>2. PICK pc : /\ Settle(w, m)
                /\ wpc' = [wpc EXCEPT ![w] = pc]
                /\ pc \notin {"complete", "unknown"}
                /\ UNCHANGED <<executed, jobs, audited>>
                /\ IsHead(w, m)
  BY DEF SkipComplete, DeadLetterUnknown, CompleteMessage, AbandonMessage, Settle, At,
         Become, IsHead, tables
<1>3. executed[r] = 0 \/ r \in audited
  <2>1. CASE wpc[w] = "complete"
    BY <1>2, <2>1 DEF VerdictInv, VerdictRest, HeadsKnown
  <2>2. CASE wpc[w] # "complete"
    <3>1. wpc[w] \notin AfterRun
      BY <2>2 DEF SkipComplete, DeadLetterUnknown, CompleteMessage, AbandonMessage, At,
                  AfterRun
    <3> QED
      BY <3>1, BatchNotRun DEF VerdictInv
  <2> QED
    BY <2>1, <2>2
<1>4. jobs[r].status = "dead_letter" => rows'[m.id].status = "dead_letter"
  <2> SUFFICES ASSUME jobs[r].status = "dead_letter"
               PROVE  rows'[m.id].status = "dead_letter"
    OBVIOUS
  <2>1. BeingGivenUp(w, m)
    BY <1>1 DEF VerdictInv, VerdictRest, DeadIsBehind
  <2>2. CASE DeadLetterUnknown(w, m)
    BY <1>1, <2>2 DEF DeadLetterUnknown, DeadLetter, Row
  <2>3. CASE AbandonMessage(w, m)
    <3>1. wpc[w] = "abandon"
      BY <2>3 DEF AbandonMessage, At
    <3>2. rows[m.id].count >= MaxDelivery
      BY <1>1, <2>1, <3>1 DEF BeingGivenUp
    <3>3. ~(rows[m.id].count < MaxDelivery)
      BY <1>1, <3>2, QueueAssumption DEF Row
    <3> QED
      BY <1>1, <2>3, <3>3 DEF AbandonMessage, Abandon, Row
  <2>4. CASE SkipComplete(w, m) \/ CompleteMessage(w, m)
    BY <2>1, <2>4 DEF SkipComplete, CompleteMessage, At, BeingGivenUp
  <2> QED
    BY <2>2, <2>3, <2>4
<1> QED
  BY <1>2, <1>3, <1>4, SettleVerdicts

\* The invariant is inductive, given one reader per row.
LEMMA VerdictStep == OneReaderPerRow /\ VerdictInv /\ [Next]_vars => VerdictInv'
<1> SUFFICES ASSUME OneReaderPerRow, VerdictInv, [Next]_vars
             PROVE  VerdictInv'
  OBVIOUS
<1>1. RunInv'
  BY RunStep DEF VerdictInv
<1>2. CASE UNCHANGED vars
  <2>1. UNCHANGED <<rows, held, wpc, executed, jobs, audited>>
    BY <1>2 DEF vars, queueVars, workerVars, tables
  <2> QED
    BY <1>1, <2>1, TablesOnlyVerdicts DEF VerdictInv
<1>3. ASSUME NEW w \in Workers, Poll(w)
      PROVE  VerdictRest'
  <2>1. UNCHANGED <<rows, held, wpc, executed, jobs, audited>>
    BY <1>3 DEF Poll, ReceiveSelect, workerVars, tables
  <2> QED
    BY <2>1, TablesOnlyVerdicts
<1>4. ASSUME NEW w \in Workers, NEW m \in held[w], Process(w, m)
      PROVE  VerdictRest'
  BY <1>4, FailureVerdicts, UnknownVerdicts, RunVerdicts, QuietVerdicts, EndVerdicts
     DEF Process
<1>5. CASE Next
  <2>1. VerdictRest'
    BY <1>3, <1>4, <1>5, PublishVerdicts, GatewayVerdicts, ClaimVerdicts,
       SkipCommitVerdicts, AbortVerdicts, LapseVerdicts
       DEF Next
  <2> QED
    BY <1>1, <2>1 DEF VerdictInv
<1> QED
  BY <1>2, <1>5

\* Whatever crashes between the tables and the queue, a run whose message was settled
\* left an audit event.
THEOREM SettledRunsAreAudited ==
    ASSUME OneReaderPerRow
    PROVE  Spec => []SettledRunIsAudited
<1>1. VerdictInv => SettledRunIsAudited
  BY VerdictInvImplies
<1>2. Init => VerdictInv
  BY VerdictInit
<1>3. VerdictInv /\ [Next]_vars => VerdictInv'
  BY VerdictStep
<1> QED
  BY <1>1, <1>2, <1>3, PTL DEF Spec

\* A job reported dead for a failing tool used up every delivery, and its message is
\* never handed out again.
THEOREM GivingUpIsForGood ==
    ASSUME OneReaderPerRow
    PROVE  Spec => []GivingUpIsFinal
<1>1. VerdictInv => GivingUpIsFinal
  BY VerdictInvImplies
<1>2. Init => VerdictInv
  BY VerdictInit
<1>3. VerdictInv /\ [Next]_vars => VerdictInv'
  BY VerdictStep
<1> QED
  BY <1>1, <1>2, <1>3, PTL DEF Spec
=============================================================================
