---------------------------- MODULE GatewayCalls ----------------------------
(***************************************************************************)
(* Concurrent calls through the gateway's invoke (apps/mcp-gateway/app/    *)
(* executor.py) and the approve endpoint (main.py), around the approvals   *)
(* table.  Each call is one database session: what it reads is committed   *)
(* by others, what it writes is committed at its end, and it may die       *)
(* before that.  A dry run makes an approval under a fresh id; approvals   *)
(* are identified with the dry-run calls that make them.                   *)
(*                                                                         *)
(* The asynchronous route is one step here; AsyncPipeline details it.      *)
(***************************************************************************)
EXTENDS Policy, Naturals

CONSTANTS
    Calls,   \* the calls made to the gateway
    Admins,  \* sessions of the approve endpoint, each by an admin_agent
    Inputs,  \* the calls that may be made, as records (see CallInput)
    NoCall   \* nothing asked yet, or no approval

CallInput == [tool: Tools \cup {"no_such_tool"}, role: Roles \cup {"no_such_role"},
              valid: BOOLEAN, token: BOOLEAN, approval: Calls \cup {NoCall}]

ASSUME CallsAssumption == NoCall \notin Calls /\ Inputs \subseteq CallInput

VARIABLES
    approvals,  \* the approvals table
    recorded,   \* calls with committed tool_calls and audit_events rows
    approvedEv, \* approvals with a committed approval.approved event
    asked,      \* the input of each call
    pc,         \* where the gateway is with each call
    verdict,    \* the outcome of each call, final when its session ends
    approving,  \* per admin session: the approval and the status it loaded
    applied     \* how many changes were applied on the strength of each approval

callVars == <<asked, pc, verdict>>
vars == <<approvals, recorded, approvedEv, callVars, approving, applied>>

ApprovalStatus == {"absent", "pending", "approved", "consumed"}
Pc == {"idle", "sync", "dry_run", "async", "destructive", "execute", "record", "done"}

NotApproving == [approval |-> NoCall, seen |-> "absent"]

Init ==
    /\ approvals = [a \in Calls |-> "absent"]
    /\ recorded = {}
    /\ approvedEv = {}
    /\ asked = [c \in Calls |-> NoCall]
    /\ pc = [c \in Calls |-> "idle"]
    /\ verdict = [c \in Calls |-> NoVerdict]
    /\ approving = [p \in Admins |-> NotApproving]
    /\ applied = [a \in Calls |-> 0]

GoTo(c, l) == pc' = [pc EXCEPT ![c] = l]
Decide(c, v) == verdict' = [verdict EXCEPT ![c] = v]

Finish(c, v) ==
    /\ Decide(c, v)
    /\ GoTo(c, "record")
    /\ UNCHANGED <<approvals, recorded, approvedEv, asked, approving>>

ToolError == Verdict("failed", "TOOL_ERROR")

\* Registry, RBAC and validation, in that order, then the route of the tool.
Arrive(c, input) ==
    /\ pc[c] = "idle"
    /\ asked' = [asked EXCEPT ![c] = input]
    /\ Decide(c, Refusal(input))
    /\ GoTo(c, IF Refusal(input) # NoVerdict THEN "record"
               ELSE Route(Registry[input.tool]))
    /\ UNCHANGED <<approvals, recorded, approvedEv, approving, applied>>

RunSync(c) ==
    /\ pc[c] = "sync"
    /\ \/ Finish(c, Verdict("executed", "none"))
       \/ Finish(c, ToolError)
    /\ UNCHANGED applied

\* The diff is computed; the approval row waits for the commit.
RunDry(c) ==
    /\ pc[c] = "dry_run"
    /\ \/ Finish(c, Verdict("dry_run", "none"))
       \/ Finish(c, ToolError)
    /\ UNCHANGED applied

RunAsync(c) ==
    /\ pc[c] = "async"
    /\ \/ Finish(c, Verdict("queued", "none"))
       \/ Finish(c, Verdict("failed", "INTERNAL_ERROR"))
    /\ UNCHANGED applied

\* Wrong: the approval only has to exist.
ApprovalExists(c) ==
    /\ asked[c].approval # NoCall
    /\ approvals[asked[c].approval] # "absent"

\* The destructive gate: token, then the approval's status as read now.
ApprovedFor(c) ==
    /\ asked[c].approval # NoCall
    /\ approvals[asked[c].approval] = "approved"

GateDenies(c) ==
    /\ pc[c] = "destructive"
    /\ \/ /\ ~asked[c].token
          /\ Finish(c, Verdict("denied", "APPROVAL_REQUIRED"))
       \/ /\ asked[c].token
          /\ ~ApprovedFor(c)
          /\ Finish(c, Verdict("denied", "APPROVAL_NOT_APPROVED"))
    /\ UNCHANGED applied

\* Wrong: the token is not asked for when there is an approval.
GateOpensByApproval(c) ==
    /\ pc[c] = "destructive"
    /\ ApprovedFor(c)
    /\ GoTo(c, "execute")
    /\ UNCHANGED <<approvals, recorded, approvedEv, asked, verdict, approving, applied>>

GateOpens(c) ==
    /\ pc[c] = "destructive"
    /\ asked[c].token
    /\ ApprovedFor(c)
    /\ GoTo(c, "execute")
    /\ UNCHANGED <<approvals, recorded, approvedEv, asked, verdict, approving, applied>>

\* spec.run: the change is applied, or the tool raises and nothing is.
Execute(c) ==
    /\ pc[c] = "execute"
    /\ \/ /\ applied' = [applied EXCEPT ![asked[c].approval] = @ + 1]
          /\ Finish(c, Verdict("executed", "none"))
       \/ /\ Finish(c, ToolError)
          /\ UNCHANGED applied

Destructive(c) == Route(Registry[asked[c].tool]) = "destructive"

\* Wrong: an approval whose execution failed gets a status of its own.
RecordFailed(c) ==
    /\ pc[c] = "record"
    /\ recorded' = recorded \cup {c}
    /\ approvals' =
         CASE verdict[c].decision = "dry_run" ->
                [approvals EXCEPT ![c] = "pending"]
           [] verdict[c] = ToolError /\ Destructive(c) ->
                [approvals EXCEPT ![asked[c].approval] = "failed"]
           [] OTHER -> approvals
    /\ GoTo(c, "done")
    /\ UNCHANGED <<approvedEv, asked, verdict, approving, applied>>

\* The session commits: the rows of finish, and what the handler changed.
Record(c) ==
    /\ pc[c] = "record"
    /\ recorded' = recorded \cup {c}
    /\ approvals' =
         CASE verdict[c].decision = "dry_run" ->
                [approvals EXCEPT ![c] = "pending"]
           [] verdict[c].decision = "executed" /\ Destructive(c) ->
                [approvals EXCEPT ![asked[c].approval] = "consumed"]
           [] OTHER -> approvals
    /\ GoTo(c, "done")
    /\ UNCHANGED <<approvedEv, asked, verdict, approving, applied>>

\* Wrong: the audit rows are committed by themselves.
AbortKeepsRows(c) ==
    /\ pc[c] \notin {"idle", "done"}
    /\ recorded' = IF pc[c] = "record" THEN recorded \cup {c} ELSE recorded
    /\ Decide(c, Verdict("error", "none"))
    /\ GoTo(c, "done")
    /\ UNCHANGED <<approvals, approvedEv, asked, approving, applied>>

\* The gateway dies or its commit fails: nothing of the session remains.
Abort(c) ==
    /\ pc[c] \notin {"idle", "done"}
    /\ Decide(c, Verdict("error", "none"))
    /\ GoTo(c, "done")
    /\ UNCHANGED <<approvals, recorded, approvedEv, asked, approving, applied>>

\* The approve endpoint loads the row ...
ApproveRead(p, a) ==
    /\ approving[p] = NotApproving
    /\ approvals[a] # "absent"
    /\ approving' = [approving EXCEPT ![p] = [approval |-> a, seen |-> approvals[a]]]
    /\ UNCHANGED <<approvals, recorded, approvedEv, callVars, applied>>

\* ... and sets it to approved whatever it was; an attribute that already had
\* that value is not written at commit.
ApproveCommit(p) ==
    /\ approving[p] # NotApproving
    /\ LET a == approving[p].approval IN
       /\ approvals' = IF approving[p].seen = "approved" THEN approvals
                       ELSE [approvals EXCEPT ![a] = "approved"]
       /\ approvedEv' = approvedEv \cup {a}
    /\ approving' = [approving EXCEPT ![p] = NotApproving]
    /\ UNCHANGED <<recorded, callVars, applied>>

ApproveAbort(p) ==
    /\ approving[p] # NotApproving
    /\ approving' = [approving EXCEPT ![p] = NotApproving]
    /\ UNCHANGED <<approvals, recorded, approvedEv, callVars, applied>>

Next ==
    \/ \E c \in Calls :
         \/ \E input \in Inputs : Arrive(c, input)
         \/ RunSync(c)
         \/ RunDry(c)
         \/ RunAsync(c)
         \/ GateDenies(c)
         \/ GateOpens(c)
         \/ Execute(c)
         \/ Record(c)
         \/ Abort(c)
    \/ \E p \in Admins :
         \/ \E a \in Calls : ApproveRead(p, a)
         \/ ApproveCommit(p)
         \/ ApproveAbort(p)

Spec == Init /\ [][Next]_vars

-----------------------------------------------------------------------------
TypeOK ==
    /\ approvals \in [Calls -> ApprovalStatus]
    /\ recorded \subseteq Calls
    /\ approvedEv \subseteq Calls
    /\ asked \in [Calls -> CallInput \cup {NoCall}]
    /\ pc \in [Calls -> Pc]
    /\ verdict \in [Calls -> Outcome]
    /\ approving \in [Admins -> [approval: Calls \cup {NoCall}, seen: ApprovalStatus]]
    /\ applied \in [Calls -> Nat]

\* A change is applied only on an approval that was committed AND audited before,
\* and an approval is consumed only by an execution that applied a change,
\* whatever calls, approvals and crashes interleave.
NoChangeWithoutApproval ==
    \A a \in Calls :
        /\ applied[a] > 0 => a \in approvedEv
        /\ approvals[a] = "consumed" => applied[a] > 0

\* What a caller is told to have been done really was allowed for it: a side
\* effect is reported only to a role of the tool, never in demo mode for the
\* destructive tool, and a synchronous execution is that of a reading tool or
\* of an approved change.  It depends on every registry entry and on the order
\* of the checks.
ExecutionIsAuthorised ==
    \A c \in Calls : verdict[c].decision \in {"executed", "queued", "dry_run"} =>
        LET tool == Registry[asked[c].tool] IN
        /\ asked[c].role \in tool.roles
        /\ tool.enabled
        /\ asked[c].valid
        /\ verdict[c].decision = "executed" =>
             \/ tool.class = "read"
             \/ ~DemoMode /\ asked[c].token /\ applied[asked[c].approval] > 0

-----------------------------------------------------------------------------
\* Claims of the documentation that runs refute.

\* docs/architecture.md: approvals are "created by dry-runs and consumed by
\* destructive executions".
OneExecutionPerApproval == \A a \in Calls : applied[a] <= 1
=============================================================================
