----------------------------- MODULE JobContract -----------------------------
(***************************************************************************)
(* What a client of the asynchronous tools may rely on, whatever the       *)
(* gateway, the queue and the worker do to each other: a key belongs to    *)
(* the first job accepted under it, every client told "queued" is given    *)
(* the job that owns its key, and a job moves along its lifecycle          *)
(* (packages/audit/models.py, AsyncJob.status), of which success and       *)
(* dead-lettering are the ends.                                            *)
(***************************************************************************)
CONSTANTS Jobs, Keys, KeyOf, NoJob

VARIABLES
    owner,   \* the job that owns each key
    status,  \* the lifecycle state of each job
    told     \* the job each client was given

contractVars == <<owner, status, told>>

Lifecycle == [
    queued      |-> {"running", "succeeded", "failed", "dead_letter"},
    running     |-> {"succeeded", "failed", "dead_letter"},
    failed      |-> {"running", "succeeded", "dead_letter"},
    succeeded   |-> {},
    dead_letter |-> {}]

Init ==
    /\ owner = [k \in Keys |-> NoJob]
    /\ status = [j \in Jobs |-> "absent"]
    /\ told = [j \in Jobs |-> NoJob]

\* A job is accepted under a free key; its client may or may not hear of it.
Accept(j) ==
    /\ owner[KeyOf[j]] = NoJob
    /\ status[j] = "absent"
    /\ owner' = [owner EXCEPT ![KeyOf[j]] = j]
    /\ status' = [status EXCEPT ![j] = "queued"]
    /\ told' \in {told, [told EXCEPT ![j] = j]}

AnswerDuplicate(j) ==
    /\ told[j] = NoJob
    /\ owner[KeyOf[j]] # NoJob
    /\ told' = [told EXCEPT ![j] = owner[KeyOf[j]]]
    /\ UNCHANGED <<owner, status>>

Advance(j) ==
    /\ status[j] # "absent"
    /\ \E s \in Lifecycle[status[j]] : status' = [status EXCEPT ![j] = s]
    /\ UNCHANGED <<owner, told>>

Next == \E j \in Jobs : Accept(j) \/ AnswerDuplicate(j) \/ Advance(j)

Spec == Init /\ [][Next]_contractVars
=============================================================================
