---------------------------- MODULE GatewayProofs ----------------------------
(***************************************************************************)
(* Theorems about GatewayCalls, for any calls, admin sessions, inputs and  *)
(* interleaving, in demo mode and outside it.                              *)
(***************************************************************************)
EXTENDS GatewayCalls, TLAPS

\* An open approve session is about an approval that exists.
ApprovingKnown ==
    \A p \in Admins : approving[p] # NotApproving => approving[p].approval \in Calls

\* What each place in invoke knows: a handler got the call its tool routes to,
\* and past the gate there is an approval of a destructive call.
PlacesKnow ==
    \A c \in Calls :
        /\ pc[c] # "idle" => asked[c] \in CallInput
        /\ pc[c] \in {"sync", "dry_run", "async", "destructive", "execute"} =>
             /\ Refusal(asked[c]) = NoVerdict
             /\ Route(Registry[asked[c].tool]) =
                  IF pc[c] = "execute" THEN "destructive" ELSE pc[c]
        /\ pc[c] = "execute" =>
             asked[c].token /\ asked[c].approval \in Calls

TypeInv == TypeOK /\ PlacesKnow /\ ApprovingKnown

\* No call was made initially.
LEMMA TypeInit == Init => TypeInv
BY DEF Init, TypeInv, TypeOK, PlacesKnow, ApprovingKnown, ApprovalStatus, Pc,
       NoVerdict, Verdict, Outcome, NotApproving

\* Whatever the tool, it is routed to a handler.
LEMMA Routes == \A tool : Route(tool) \in {"destructive", "dry_run", "async", "sync"}
BY DEF Route

\* A refusal names a decision and a code, and is never an execution.
LEMMA Refusals ==
    ASSUME NEW call
    PROVE  /\ Refusal(call) \in Outcome
           /\ Refusal(call).decision \in {"none", "denied", "failed"}
BY DEF Refusal, Verdict, NoVerdict, Evaluate, Outcome

\* The outcomes a handler may finish with.
LEMMA FinishTypes ==
    ASSUME TypeInv, NEW c \in Calls, NEW v \in Outcome,
           pc[c] # "idle", Finish(c, v), applied' \in [Calls -> Nat]
    PROVE  TypeInv'
BY DEF Finish, Decide, GoTo, TypeInv, TypeOK, PlacesKnow, Pc, ApprovingKnown

\* Every step keeps the types and what its place knows.
LEMMA TypeStep == TypeInv /\ [Next]_vars => TypeInv'
<1> SUFFICES ASSUME TypeInv, [Next]_vars
             PROVE  TypeInv'
  OBVIOUS
<1>1. ASSUME NEW c \in Calls, NEW input \in Inputs, Arrive(c, input)
      PROVE  TypeInv'
  <2>1. input \in CallInput
    BY CallsAssumption
  <2>2. /\ asked' = [asked EXCEPT ![c] = input]
        /\ verdict' = [verdict EXCEPT ![c] = Refusal(input)]
        /\ pc' = [pc EXCEPT ![c] = IF Refusal(input) # NoVerdict THEN "record"
                                   ELSE Route(Registry[input.tool])]
        /\ UNCHANGED <<approvals, recorded, approvedEv, approving, applied>>
    BY <1>1 DEF Arrive, Decide, GoTo
  <2>3. TypeOK'
    BY <2>1, <2>2, Refusals, Routes DEF TypeInv, TypeOK, Pc
  <2>4. PlacesKnow'
    BY <2>1, <2>2, Routes DEF TypeInv, TypeOK, PlacesKnow
  <2> QED
    BY <2>2, <2>3, <2>4 DEF TypeInv, ApprovingKnown
<1>2. ASSUME NEW c \in Calls, RunSync(c) \/ RunDry(c) \/ RunAsync(c) \/ GateDenies(c)
      PROVE  TypeInv'
  <2>1. PICK v \in Outcome : Finish(c, v)
    BY <1>2 DEF RunSync, RunDry, RunAsync, GateDenies, Verdict, ToolError, Outcome
  <2>2. applied' = applied /\ pc[c] # "idle"
    BY <1>2 DEF RunSync, RunDry, RunAsync, GateDenies
  <2> QED
    BY <2>1, <2>2, FinishTypes DEF TypeInv, TypeOK
<1>3. ASSUME NEW c \in Calls, GateOpens(c)
      PROVE  TypeInv'
  <2>1. asked[c].approval \in Calls
    BY <1>3 DEF GateOpens, ApprovedFor, TypeInv, PlacesKnow, CallInput
  <2> QED
    BY <1>3, <2>1 DEF GateOpens, GoTo, TypeInv, TypeOK, PlacesKnow, Pc, ApprovingKnown
<1>4. ASSUME NEW c \in Calls, Execute(c)
      PROVE  TypeInv'
  <2>1. PICK v \in Outcome : Finish(c, v)
    BY <1>4 DEF Execute, Verdict, ToolError, Outcome
  <2>2. applied' \in [Calls -> Nat] /\ pc[c] # "idle"
    BY <1>4 DEF Execute, TypeInv, TypeOK, PlacesKnow
  <2> QED
    BY <2>1, <2>2, FinishTypes
<1>5. ASSUME NEW c \in Calls, Record(c)
      PROVE  TypeInv'
  <2>1. approvals' \in [Calls -> ApprovalStatus]
    BY <1>5 DEF Record, TypeInv, TypeOK, ApprovalStatus
  <2> QED
    BY <1>5, <2>1 DEF Record, GoTo, TypeInv, TypeOK, PlacesKnow, Pc, ApprovingKnown
<1>6. ASSUME NEW c \in Calls, Abort(c)
      PROVE  TypeInv'
  BY <1>6 DEF Abort, Decide, GoTo, Verdict, Outcome, TypeInv, TypeOK, PlacesKnow, Pc,
              ApprovingKnown
<1>7. ASSUME NEW p \in Admins,
             (\E a \in Calls : ApproveRead(p, a)) \/ ApproveCommit(p) \/ ApproveAbort(p)
      PROVE  TypeInv'
  <2>1. UNCHANGED <<callVars, applied, recorded>>
    BY <1>7 DEF ApproveRead, ApproveCommit, ApproveAbort
  <2>2. /\ approvals' \in [Calls -> ApprovalStatus]
        /\ approvedEv' \subseteq Calls
        /\ approving' \in [Admins -> [approval: Calls \cup {NoCall},
                                      seen: ApprovalStatus]]
    <3>1. CASE \E a \in Calls : ApproveRead(p, a)
      BY <3>1 DEF ApproveRead, TypeInv, TypeOK
    <3>2. CASE ApproveCommit(p)
      <4>1. approving[p].approval \in Calls \cup {NoCall}
        BY DEF TypeInv, TypeOK
      <4>2. approving[p].approval \in Calls
        BY <3>2, <4>1 DEF ApproveCommit, TypeInv, ApprovingKnown
      <4> QED
        BY <3>2, <4>2 DEF ApproveCommit, NotApproving, TypeInv, TypeOK, ApprovalStatus
    <3>3. CASE ApproveAbort(p)
      BY <3>3 DEF ApproveAbort, NotApproving, TypeInv, TypeOK, ApprovalStatus
    <3> QED
      BY <1>7, <3>1, <3>2, <3>3
  <2>3. TypeOK'
    BY <2>1, <2>2 DEF TypeInv, TypeOK, callVars
  <2> QED
    BY <1>7, <2>1, <2>3 DEF ApproveRead, ApproveCommit, ApproveAbort, NotApproving,
                            TypeInv, TypeOK, PlacesKnow, ApprovingKnown, callVars
<1>8. CASE UNCHANGED vars
  BY <1>8 DEF vars, callVars, TypeInv, TypeOK, PlacesKnow, ApprovingKnown
<1> QED
  BY <1>1, <1>2, <1>3, <1>4, <1>5, <1>6, <1>7, <1>8 DEF Next

\* Every variable of the gateway keeps its type.
THEOREM TypeCorrect == Spec => []TypeOK
<1>1. TypeInv => TypeOK
  BY DEF TypeInv
<1> QED
  BY <1>1, TypeInit, TypeStep, PTL DEF Spec

-----------------------------------------------------------------------------
(***************************************************************************)
(* Approvals.  NoChangeWithoutApproval is not inductive: between the gate  *)
(* and the commit the approval's status may change under the call, so what *)
(* carries over is the audited approve, which nothing takes back.          *)
(***************************************************************************)
ApprovedIsAudited == \A a \in Calls : approvals[a] = "approved" => a \in approvedEv

PastTheGate == \A c \in Calls : pc[c] = "execute" => asked[c].approval \in approvedEv

\* An execution that waits for its commit has applied its change.
ExecutedIsApplied ==
    \A c \in Calls :
      pc[c] = "record" /\ verdict[c].decision = "executed" /\ Destructive(c) =>
        asked[c].approval \in Calls /\ applied[asked[c].approval] > 0

ApprovalParts ==
    NoChangeWithoutApproval /\ ApprovedIsAudited /\ PastTheGate /\ ExecutedIsApplied

ApprovalInv == TypeInv /\ ApprovalParts

\* No approval exists initially.
LEMMA ApprovalInit == Init => ApprovalInv
<1> SUFFICES ASSUME Init PROVE ApprovalInv
  OBVIOUS
<1>1. TypeInv
  BY TypeInit
<1> QED
  BY <1>1 DEF Init, ApprovalInv, ApprovalParts, NoChangeWithoutApproval,
              ApprovedIsAudited, PastTheGate, ExecutedIsApplied

\* A call that ends without having applied a change.
LEMMA FinishApprovals ==
    ASSUME ApprovalInv, NEW c \in Calls, NEW v \in Outcome, Finish(c, v),
           applied' = applied, v.decision = "executed" => ~Destructive(c)
    PROVE  ApprovalParts'
<1>1. /\ UNCHANGED <<approvals, approvedEv, asked>>
      /\ pc'[c] = "record" /\ verdict'[c] = v
      /\ \A d \in Calls : d # c => pc'[d] = pc[d] /\ verdict'[d] = verdict[d]
  BY DEF Finish, GoTo, Decide, ApprovalInv, TypeInv, TypeOK
<1>2. ExecutedIsApplied'
  BY <1>1 DEF ApprovalInv, ApprovalParts, ExecutedIsApplied, Destructive
<1> QED
  BY <1>1, <1>2 DEF ApprovalInv, ApprovalParts, NoChangeWithoutApproval,
                    ApprovedIsAudited, PastTheGate

\* spec.run of an approved change.
LEMMA ExecuteApprovals ==
    ASSUME ApprovalInv, NEW c \in Calls, Execute(c), ~Finish(c, ToolError)
    PROVE  ApprovalParts'
<1> DEFINE a == asked[c].approval
<1>1. a \in Calls /\ a \in approvedEv
  BY DEF Execute, ApprovalInv, TypeInv, PlacesKnow, ApprovalParts, PastTheGate
<1>2. /\ applied' = [applied EXCEPT ![a] = @ + 1]
      /\ UNCHANGED <<approvals, approvedEv, asked>>
      /\ pc' = [pc EXCEPT ![c] = "record"]
      /\ \A d \in Calls : d # c => verdict'[d] = verdict[d]
  BY DEF Execute, Finish, GoTo, Decide, ApprovalInv, TypeInv, TypeOK
<1>3. /\ applied'[a] > 0
      /\ \A b \in Calls : applied[b] > 0 => applied'[b] > 0
      /\ \A b \in Calls : b # a => applied'[b] = applied[b]
  BY <1>1, <1>2 DEF ApprovalInv, TypeInv, TypeOK
<1>4. \A d \in Calls : d # c => pc'[d] = pc[d]
  BY <1>2 DEF ApprovalInv, TypeInv, TypeOK
<1>5. pc'[c] = "record"
  BY <1>2 DEF ApprovalInv, TypeInv, TypeOK
<1>6. NoChangeWithoutApproval'
  BY <1>1, <1>2, <1>3 DEF ApprovalInv, ApprovalParts, NoChangeWithoutApproval
<1>7. ExecutedIsApplied'
  BY <1>1, <1>2, <1>3, <1>4 DEF ApprovalInv, ApprovalParts, ExecutedIsApplied,
                                Destructive
<1> QED
  BY <1>2, <1>4, <1>5, <1>6, <1>7
     DEF ApprovalInv, ApprovalParts, ApprovedIsAudited, PastTheGate

\* The commit of a call: a dry run's approval is pending, an execution's consumed.
LEMMA RecordApprovals ==
    ASSUME ApprovalInv, NEW c \in Calls, Record(c)
    PROVE  ApprovalParts'
<1>1. /\ UNCHANGED <<approvedEv, asked, verdict, applied>>
      /\ pc[c] = "record"
      /\ pc'[c] = "done"
      /\ \A d \in Calls : d # c => pc'[d] = pc[d]
  BY DEF Record, GoTo, ApprovalInv, TypeInv, TypeOK
<1>2. \A a \in Calls :
         \/ approvals'[a] = approvals[a]
         \/ approvals'[a] = "pending"
         \/ /\ approvals'[a] = "consumed"
            /\ verdict[c].decision = "executed"
            /\ Destructive(c)
            /\ a = asked[c].approval
  BY DEF Record, ApprovalInv, TypeInv, TypeOK
<1>3. NoChangeWithoutApproval'
  BY <1>1, <1>2 DEF ApprovalInv, ApprovalParts, NoChangeWithoutApproval,
                    ExecutedIsApplied
<1>4. ApprovedIsAudited'
  BY <1>1, <1>2 DEF ApprovalInv, ApprovalParts, ApprovedIsAudited
<1> QED
  BY <1>1, <1>3, <1>4 DEF ApprovalInv, ApprovalParts, PastTheGate, ExecutedIsApplied,
                          Destructive

\* The approve endpoint never writes "approved" without its event.
LEMMA ApproveApprovals ==
    ASSUME ApprovalInv, NEW p \in Admins,
           (\E a \in Calls : ApproveRead(p, a)) \/ ApproveCommit(p) \/ ApproveAbort(p)
    PROVE  ApprovalParts'
<1>1. UNCHANGED <<asked, pc, verdict, applied>>
  BY DEF ApproveRead, ApproveCommit, ApproveAbort, callVars
<1>2. /\ approvedEv \subseteq approvedEv'
      /\ \A a \in Calls : \/ approvals'[a] = approvals[a]
                          \/ approvals'[a] = "approved" /\ a \in approvedEv'
  <2>1. CASE ApproveCommit(p)
    <3> DEFINE b == approving[p].approval
    <3>1. /\ \/ approvals' = approvals
             \/ approvals' = [approvals EXCEPT ![b] = "approved"]
          /\ approvedEv' = approvedEv \cup {b}
      BY <2>1, Zenon DEF ApproveCommit
    <3>2. approvals \in [Calls -> ApprovalStatus]
      BY DEF ApprovalInv, TypeInv, TypeOK
    <3> HIDE DEF b
    <3> QED
      BY <3>1, <3>2
  <2>2. CASE (\E a \in Calls : ApproveRead(p, a)) \/ ApproveAbort(p)
    <3>1. UNCHANGED <<approvals, approvedEv>>
      BY <2>2 DEF ApproveRead, ApproveAbort
    <3> QED
      BY <3>1
  <2> QED
    BY <2>1, <2>2
<1> QED
  BY <1>1, <1>2 DEF ApprovalInv, ApprovalParts, NoChangeWithoutApproval,
                    ApprovedIsAudited, PastTheGate, ExecutedIsApplied, Destructive

\* The invariant of approvals is inductive.
LEMMA ApprovalStep == ApprovalInv /\ [Next]_vars => ApprovalInv'
<1> SUFFICES ASSUME ApprovalInv, [Next]_vars
             PROVE  ApprovalParts'
  BY TypeStep DEF ApprovalInv
<1>1. ASSUME NEW c \in Calls, NEW input \in Inputs, Arrive(c, input)
      PROVE  ApprovalParts'
  <2>1. /\ UNCHANGED <<approvals, approvedEv, applied>>
        /\ verdict'[c] = Refusal(input)
        /\ pc'[c] # "execute"
        /\ \A d \in Calls : d # c => /\ pc'[d] = pc[d]
                                     /\ verdict'[d] = verdict[d]
                                     /\ asked'[d] = asked[d]
    BY <1>1, Routes DEF Arrive, GoTo, Decide, ApprovalInv, TypeInv, TypeOK
  <2>2. verdict'[c].decision # "executed"
    BY <2>1, Refusals
  <2>3. ExecutedIsApplied'
    BY <2>1, <2>2 DEF ApprovalInv, ApprovalParts, ExecutedIsApplied, Destructive
  <2> QED
    BY <2>1, <2>3 DEF ApprovalInv, ApprovalParts, NoChangeWithoutApproval,
                      ApprovedIsAudited, PastTheGate
<1>2. ASSUME NEW c \in Calls, RunSync(c) \/ RunDry(c) \/ RunAsync(c) \/ GateDenies(c)
      PROVE  ApprovalParts'
  <2>1. PICK v \in Outcome : Finish(c, v) /\ (v.decision = "executed" => RunSync(c))
    BY <1>2 DEF RunSync, RunDry, RunAsync, GateDenies, Verdict, ToolError, Outcome
  <2>2. applied' = applied
    BY <1>2 DEF RunSync, RunDry, RunAsync, GateDenies
  <2>3. RunSync(c) => ~Destructive(c)
    BY DEF RunSync, Destructive, ApprovalInv, TypeInv, PlacesKnow
  <2> QED
    BY <2>1, <2>2, <2>3, FinishApprovals
<1>3. ASSUME NEW c \in Calls, GateOpens(c)
      PROVE  ApprovalParts'
  <2>1. asked[c].approval \in approvedEv
    BY <1>3 DEF GateOpens, ApprovedFor, ApprovalInv, ApprovalParts, ApprovedIsAudited,
                TypeInv, PlacesKnow, CallInput
  <2> QED
    BY <1>3, <2>1 DEF GateOpens, GoTo, ApprovalInv, TypeInv, TypeOK, ApprovalParts,
                      NoChangeWithoutApproval, ApprovedIsAudited, PastTheGate,
                      ExecutedIsApplied, Destructive
<1>4. ASSUME NEW c \in Calls, Execute(c)
      PROVE  ApprovalParts'
  <2>1. ToolError \in Outcome /\ ToolError.decision # "executed"
    BY DEF ToolError, Verdict, Outcome
  <2>2. CASE Finish(c, ToolError) /\ applied' = applied
    BY <2>1, <2>2, FinishApprovals
  <2>3. CASE ~(Finish(c, ToolError) /\ applied' = applied)
    <3>1. verdict'[c].decision = "executed"
      BY <1>4, <2>3 DEF Execute, Finish, Decide, Verdict, ApprovalInv, TypeInv, TypeOK
    <3>2. ~Finish(c, ToolError)
      BY <2>1, <3>1 DEF Finish, Decide, ApprovalInv, TypeInv, TypeOK
    <3> QED
      BY <1>4, <3>2, ExecuteApprovals
  <2> QED
    BY <2>2, <2>3
<1>5. ASSUME NEW c \in Calls, Record(c)
      PROVE  ApprovalParts'
  BY <1>5, RecordApprovals
<1>6. ASSUME NEW c \in Calls, Abort(c)
      PROVE  ApprovalParts'
  BY <1>6 DEF Abort, Decide, GoTo, ApprovalInv, TypeInv, TypeOK, ApprovalParts,
              NoChangeWithoutApproval, ApprovedIsAudited, PastTheGate,
              ExecutedIsApplied, Destructive
<1>7. ASSUME NEW p \in Admins,
             (\E a \in Calls : ApproveRead(p, a)) \/ ApproveCommit(p) \/ ApproveAbort(p)
      PROVE  ApprovalParts'
  BY <1>7, ApproveApprovals
<1>8. CASE UNCHANGED vars
  BY <1>8 DEF vars, callVars, ApprovalInv, ApprovalParts, NoChangeWithoutApproval,
              ApprovedIsAudited, PastTheGate, ExecutedIsApplied, Destructive
<1> QED
  BY <1>1, <1>2, <1>3, <1>4, <1>5, <1>6, <1>7, <1>8 DEF Next

\* No interleaving of calls, approvals and crashes applies a change before an
\* approval of it was committed and audited, or consumes one nothing was applied
\* for.
THEOREM ApprovalComesFirst == Spec => []NoChangeWithoutApproval
<1>1. ApprovalInv => NoChangeWithoutApproval
  BY DEF ApprovalInv, ApprovalParts
<1> QED
  BY <1>1, ApprovalInit, ApprovalStep, PTL DEF Spec

-----------------------------------------------------------------------------
(* Authorisation: what each verdict of success implies about the call. *)

\* The configuration of the tools: what the executor runs at once only reads,
\* and the destructive tool is off in demo mode.
LEMMA Configuration ==
    ASSUME NEW t \in Tools
    PROVE  /\ Route(Registry[t]) = "sync" => Registry[t].class = "read"
           /\ Route(Registry[t]) = "destructive" /\ Registry[t].enabled => ~DemoMode
<1>1. Tools = {"get_employee_profile", "check_leave_balance", "get_invoice_status",
               "run_budget_variance_report", "trigger_databricks_workflow",
               "create_crm_update_dry_run", "execute_crm_update", "crm_lookup_customer",
               "billing_create_invoice_draft"}
  BY DEF Tools, Registry
<1>2. /\ \A u \in Tools : Registry[u].class = "read" \/ Route(Registry[u]) # "sync"
      /\ \A u \in Tools : \/ u = "execute_crm_update"
                          \/ Route(Registry[u]) # "destructive"
  BY <1>1 DEF Registry, Read, Tool, Route
<1>3. Registry["execute_crm_update"].enabled = ~DemoMode
  BY DEF Registry, Tool
<1> QED
  BY <1>2, <1>3

\* A call that is not refused passed every check.
LEMMA NotRefused ==
    ASSUME NEW call, Refusal(call) = NoVerdict
    PROVE  /\ call.tool \in Tools
           /\ call.role \in Registry[call.tool].roles
           /\ Registry[call.tool].enabled
           /\ call.valid
BY DEF Refusal, NoVerdict, Verdict, Evaluate

\* Success comes from a handler, and the handler from the route.
Succeeded == {"executed", "queued", "dry_run"}

Earned ==
    \A c \in Calls : verdict[c].decision \in Succeeded =>
        /\ pc[c] \in {"record", "done"}
        /\ Refusal(asked[c]) = NoVerdict
        /\ verdict[c].decision = "executed" =>
             \/ Route(Registry[asked[c].tool]) = "sync"
             \/ /\ Destructive(c)
                /\ asked[c].token
                /\ asked[c].approval \in Calls
                /\ applied[asked[c].approval] > 0

EarnedInv == TypeInv /\ Earned

\* What is earned is authorised, by the configuration of the tools.
LEMMA EarnedImplies == EarnedInv => ExecutionIsAuthorised
<1> SUFFICES ASSUME EarnedInv, NEW c \in Calls, verdict[c].decision \in Succeeded
             PROVE  LET tool == Registry[asked[c].tool] IN
                    /\ asked[c].role \in tool.roles
                    /\ tool.enabled
                    /\ asked[c].valid
                    /\ verdict[c].decision = "executed" =>
                         \/ tool.class = "read"
                         \/ ~DemoMode /\ asked[c].token /\ applied[asked[c].approval] > 0
  BY DEF ExecutionIsAuthorised, Succeeded
<1>1. Refusal(asked[c]) = NoVerdict
  BY DEF EarnedInv, Earned
<1> QED
  BY <1>1, NotRefused, Configuration DEF EarnedInv, Earned, Destructive

\* Success is earned at every step.
LEMMA EarnedStep == EarnedInv /\ [Next]_vars => EarnedInv'
<1> SUFFICES ASSUME EarnedInv, [Next]_vars
             PROVE  Earned'
  BY TypeStep DEF EarnedInv
<1> USE DEF EarnedInv, Earned, Destructive
<1>1. ASSUME NEW c \in Calls, NEW input \in Inputs, Arrive(c, input)
      PROVE  Earned'
  <2>1. /\ UNCHANGED applied
        /\ verdict'[c] = Refusal(input)
        /\ \A d \in Calls : d # c => /\ pc'[d] = pc[d]
                                     /\ verdict'[d] = verdict[d]
                                     /\ asked'[d] = asked[d]
    BY <1>1 DEF Arrive, GoTo, Decide, TypeInv, TypeOK
  <2>2. verdict'[c].decision \notin Succeeded
    BY <2>1, Refusals DEF Succeeded
  <2> QED
    BY <2>1, <2>2
<1>2. ASSUME NEW c \in Calls, RunSync(c) \/ RunDry(c) \/ RunAsync(c) \/ GateDenies(c)
      PROVE  Earned'
  <2>1. PICK v \in Outcome : /\ Finish(c, v)
                             /\ v.decision \in Succeeded =>
                                  pc[c] \in {"sync", "dry_run", "async"}
                             /\ v.decision = "executed" => pc[c] = "sync"
    BY <1>2 DEF RunSync, RunDry, RunAsync, GateDenies, Verdict, ToolError, Outcome,
                Succeeded
  <2>2. applied' = applied
    BY <1>2 DEF RunSync, RunDry, RunAsync, GateDenies
  <2>3. /\ pc[c] \in {"sync", "dry_run", "async"} =>
             /\ Refusal(asked[c]) = NoVerdict
             /\ Route(Registry[asked[c].tool]) = pc[c]
        /\ UNCHANGED asked
        /\ pc'[c] = "record" /\ verdict'[c] = v
        /\ \A d \in Calls : d # c => pc'[d] = pc[d] /\ verdict'[d] = verdict[d]
    BY <2>1 DEF Finish, GoTo, Decide, TypeInv, TypeOK, PlacesKnow
  <2> QED
    BY <2>1, <2>2, <2>3
<1>3. ASSUME NEW c \in Calls, GateOpens(c)
      PROVE  Earned'
  BY <1>3 DEF GateOpens, GoTo, TypeInv, TypeOK
<1>4. ASSUME NEW c \in Calls, Execute(c)
      PROVE  Earned'
  <2> DEFINE a == asked[c].approval
  <2>1. /\ a \in Calls /\ asked[c].token
        /\ Refusal(asked[c]) = NoVerdict
        /\ Route(Registry[asked[c].tool]) = "destructive"
    BY <1>4 DEF Execute, TypeInv, PlacesKnow
  <2>2. /\ pc'[c] = "record"
        /\ UNCHANGED asked
        /\ \A d \in Calls : d # c => pc'[d] = pc[d] /\ verdict'[d] = verdict[d]
    BY <1>4 DEF Execute, Finish, GoTo, Decide, TypeInv, TypeOK
  <2>3. \A b \in Calls : applied[b] > 0 => applied'[b] > 0
    BY <1>4, <2>1 DEF Execute, TypeInv, TypeOK
  <2>4. verdict'[c].decision \in Succeeded =>
           verdict'[c].decision = "executed" /\ applied'[a] > 0
    BY <1>4, <2>1 DEF Execute, Finish, Decide, Verdict, ToolError, Succeeded, TypeInv,
                      TypeOK
  <2> QED
    BY <2>1, <2>2, <2>3, <2>4
<1>5. ASSUME NEW c \in Calls, Record(c)
      PROVE  Earned'
  BY <1>5 DEF Record, GoTo, TypeInv, TypeOK
<1>6. ASSUME NEW c \in Calls, Abort(c)
      PROVE  Earned'
  BY <1>6 DEF Abort, GoTo, Decide, Verdict, Succeeded, TypeInv, TypeOK
<1>7. ASSUME NEW p \in Admins,
             (\E a \in Calls : ApproveRead(p, a)) \/ ApproveCommit(p) \/ ApproveAbort(p)
      PROVE  Earned'
  BY <1>7 DEF ApproveRead, ApproveCommit, ApproveAbort, callVars
<1>8. CASE UNCHANGED vars
  BY <1>8 DEF vars, callVars
<1> QED
  BY <1>1, <1>2, <1>3, <1>4, <1>5, <1>6, <1>7, <1>8 DEF Next

\* With the registry as it is configured, no call of any role, with any
\* arguments, is told of an effect it was not allowed; in demo mode, none is told
\* of a destructive one.
THEOREM AuthorisedOnly == Spec => []ExecutionIsAuthorised
<1>1. Init => EarnedInv
  BY TypeInit DEF Init, EarnedInv, Earned, NoVerdict, Verdict, Succeeded
<1> QED
  BY <1>1, EarnedImplies, EarnedStep, PTL DEF Spec
=============================================================================
