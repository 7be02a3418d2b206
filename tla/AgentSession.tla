---------------------------- MODULE AgentSession ----------------------------
(***************************************************************************)
(* The demo agent (run_demo of apps/demo-agent/agent.py) as a client of    *)
(* the asynchronous route.  It submits a call, polls GET /jobs/{job_id}    *)
(* until a status that it takes for final, or for a limited number of      *)
(* times, and submits the call again under the same key.  Its requests     *)
(* come one after the other; the others are other clients'.                *)
(*                                                                         *)
(* A timeout, or an error response, which is not JSON, ends the script;    *)
(* when it is started again, its first call is its next request.           *)
(***************************************************************************)
EXTENDS AsyncPipeline

CONSTANTS
    Script,   \* the agent's requests in order, all under one key
    MaxPolls  \* how often run_demo polls at most, 20 in the code

ASSUME ScriptAssumption ==
    /\ Script \in Seq(Jobs) \ {<<>>}
    /\ \A a, b \in DOMAIN Script : KeyOf[Script[a]] = KeyOf[Script[b]]
    /\ MaxPolls \in Nat \ {0}

VARIABLES
    at,    \* where the script is
    call,  \* the number of the request it has made last
    polls, \* how often it has polled
    seen   \* the job that the last poll showed

agentVars == <<at, call, polls, seen>>
sessionVars == <<vars, agentVars>>

View(job, status, attempts) == [job |-> job, status |-> status, attempts |-> attempts]

NothingSeen == View(NoJob, "absent", 0)

SessionInit ==
    /\ Init
    /\ at = "submit"
    /\ call = 1
    /\ polls = 0
    /\ seen = NothingSeen

Current == Script[call]

Heard == gpc[Current] = "done"

Failed == Heard /\ answer[Current].decision = "error"

\* The first answer is in: poll if it names a job.
FirstAnswer ==
    /\ at = "submit"
    /\ Heard /\ ~Failed
    /\ at' = IF answer[Current].job = NoJob THEN "stop" ELSE "poll"
    /\ UNCHANGED <<vars, call, polls, seen>>

\* The statuses that end the loop.
Terminal == {"succeeded", "failed", "dead_letter"}

\* One round of the loop.  get_job reads the committed row; its 404 has no
\* status to look at, which ends the script.
PollJob ==
    /\ at = "poll"
    /\ LET row == jobs[answer[Current].job] IN
       /\ seen' = View(answer[Current].job, row.status, row.attempts)
       /\ at' = IF row.status = "absent" THEN "lost"
                ELSE IF row.status \in Terminal \/ polls + 1 = MaxPolls THEN "stop"
                ELSE "poll"
    /\ polls' = polls + 1
    /\ UNCHANGED <<vars, call>>

\* The loop is over: the same call under the same key.
Resubmit ==
    /\ at = "stop"
    /\ call < Len(Script)
    /\ call' = call + 1
    /\ at' = "again"
    /\ UNCHANGED <<vars, polls, seen>>

SecondAnswer ==
    /\ at = "again"
    /\ Heard /\ ~Failed
    /\ at' = "end"
    /\ UNCHANGED <<vars, call, polls, seen>>

\* An error response, or none in time: resp.json or client.post raises.
CallFails ==
    /\ at \in {"submit", "again"}
    /\ Failed \/ ~Heard
    /\ at' = "failed"
    /\ UNCHANGED <<vars, call, polls, seen>>

StartAgain ==
    /\ at = "failed"
    /\ call < Len(Script)
    /\ call' = call + 1
    /\ at' = "submit"
    /\ polls' = 0
    /\ seen' = NothingSeen
    /\ UNCHANGED vars

Agent ==
    \/ FirstAnswer
    \/ PollJob
    \/ Resubmit
    \/ SecondAnswer
    \/ CallFails
    \/ StartAgain

\* A request of the script reaches the gateway only when the agent makes it.
Unsent == {Script[n] : n \in call + 1 .. Len(Script)}

Others ==
    /\ Next
    /\ \A r \in Unsent : gpc'[r] = gpc[r]
    /\ UNCHANGED agentVars

SessionSpec == SessionInit /\ [][Agent \/ Others]_sessionVars

-----------------------------------------------------------------------------
\* The job the agent was told of is found at every poll, and from one poll to
\* the next it never goes backwards: not to "queued", not to fewer attempts.
PollsMoveForward ==
    [][/\ at' # "lost"
       /\ polls' > polls /\ polls > 0 =>
            /\ seen'.attempts >= seen.attempts
            /\ seen.status = "running" => seen'.status # "queued"]_sessionVars

\* An agent that stopped at "succeeded" or "dead_letter" stays right for ever.
\* ("failed" ends its loop too, but the worker may still retry the job.)
WhatEndedStays ==
    seen.status \in {"succeeded", "dead_letter"} =>
        /\ jobs[seen.job].status = seen.status
        /\ jobs[seen.job].attempts = seen.attempts

\* agent.py: "re-submit with the same key -> same job, no new work".  It holds
\* once the first call was answered, were it by "failed": the second publishes
\* nothing, and is given the job that was polled.
ResubmissionIsFree ==
    at \in {"again", "end"} =>
        /\ Current \notin Published
        /\ executed[Current] = 0
        /\ answer[Current].decision = "queued" /\ seen # NothingSeen =>
             answer[Current].job = seen.job
=============================================================================
