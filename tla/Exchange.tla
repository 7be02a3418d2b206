------------------------------ MODULE Exchange ------------------------------
(***************************************************************************)
(* One HTTP exchange with POST /tools/{tool_name}/invoke, end to end: the  *)
(* bearer token becomes a principal (apps/mcp-gateway/app/deps.py,         *)
(* packages/auth/tokens.py), the call runs as in GatewayCalls, and the     *)
(* outcome becomes a response (executor.py, main.py).  What is in the      *)
(* response is in Replies.  A body that is not an InvokeRequest (422) does *)
(* not get this far.                                                       *)
(***************************************************************************)
EXTENDS GatewayCalls

CONSTANTS
    AuthMode,  \* settings.auth_mode
    Bearers,   \* the Authorization headers that callers send
    NoBearer

\* What a verifier can tell of a header.  A claim may be absent or empty; the
\* subject, the agent's name and the scopes decide nothing.
BearerFields == {"scheme", "signed", "audience", "issuer", "expiry", "agent_role", "role"}

ASSUME AuthAssumption ==
    /\ AuthMode \in {"dev", "entra"}
    /\ NoBearer \notin Bearers
    /\ \A b \in Bearers : DOMAIN b = BearerFields

VARIABLES
    bearer,  \* the header each call came with
    output   \* what the tool returned for each call: the name of an output

exchangeVars == <<vars, bearer, output>>

NoOutput == "no output"

ExchangeInit ==
    /\ Init
    /\ bearer = [c \in Calls |-> NoBearer]
    /\ output = [c \in Calls |-> NoOutput]

\* jwt.decode: key, audience and a date that is there and past always count; the
\* issuer and the presence of an expiry only with Entra ID.
Decodes(b) ==
    /\ b.signed
    /\ b.audience = "ours"
    /\ b.expiry # "past"
    /\ AuthMode = "entra" => b.issuer = "ours" /\ b.expiry # "absent"

\* Wrong: the generic claim is looked at first.
RoleClaimGeneric(b) == IF b.role = "" THEN b.agent_role ELSE b.role

\* _principal_from_claims: claims.get("agent_role") or claims.get("role").
RoleClaim(b) == IF b.agent_role = "" THEN b.role ELSE b.agent_role

\* get_principal; without a role there is no principal.
Authenticates(b) == b.scheme = "bearer" /\ Decodes(b) /\ RoleClaim(b) # ""

\* 401: executor.invoke is never entered, and nothing is written.
Refuse(c) ==
    /\ pc[c] = "idle"
    /\ bearer[c] = NoBearer
    /\ \E b \in Bearers : ~Authenticates(b) /\ bearer' = [bearer EXCEPT ![c] = b]
    /\ UNCHANGED <<vars, output>>

Enter(c) ==
    /\ bearer[c] = NoBearer
    /\ \E b \in Bearers, input \in Inputs :
         /\ Authenticates(b)
         /\ input.role = RoleClaim(b)
         /\ Arrive(c, input)
         /\ bearer' = [bearer EXCEPT ![c] = b]
    /\ UNCHANGED output

-----------------------------------------------------------------------------
\* What the handlers may return, by name; Replies says what it looks like.
OutputsOf == [
    get_employee_profile |-> {"employee"},
    check_leave_balance |-> {"leave"},
    get_invoice_status |-> {"invoice"},
    run_budget_variance_report |-> {"budget", "budget_digits"},
    create_crm_update_dry_run |-> {"diff", "diff_contact", "diff_card"},
    execute_crm_update |-> {"applied", "applied_digits"},
    crm_lookup_customer |-> {"customer"},
    billing_create_invoice_draft |-> {"draft", "draft_large"}]

\* The handlers: what they return is kept with the call if they succeed.
Returns(c) ==
    IF verdict'[c].decision \in {"executed", "dry_run"}
    THEN \E o \in OutputsOf[asked[c].tool] : output' = [output EXCEPT ![c] = o]
    ELSE UNCHANGED output

Handle(c) ==
    /\ RunSync(c) \/ RunDry(c) \/ Execute(c)
    /\ Returns(c)
    /\ UNCHANGED bearer

Decline(c) ==
    /\ RunAsync(c) \/ GateDenies(c)
    /\ UNCHANGED <<bearer, output>>

Proceed(c) ==
    /\ GateOpens(c) \/ Record(c) \/ Abort(c)
    /\ UNCHANGED <<bearer, output>>

\* approve: the caller is an admin_agent by its token; any other is told 401 or
\* 403 before a row is read.
Approve(p) ==
    /\ \/ /\ \E b \in Bearers : Authenticates(b) /\ RoleClaim(b) = "admin_agent"
          /\ \E a \in Calls : ApproveRead(p, a)
       \/ ApproveCommit(p)
       \/ ApproveAbort(p)
    /\ UNCHANGED <<bearer, output>>

ExchangeNext ==
    \/ \E c \in Calls : Refuse(c) \/ Enter(c) \/ Handle(c) \/ Decline(c) \/ Proceed(c)
    \/ \E p \in Admins : Approve(p)

ExchangeSpec == ExchangeInit /\ [][ExchangeNext]_exchangeVars

-----------------------------------------------------------------------------
\* InvocationOutcome.http_status, by decision.
StatusCode == [denied |-> 403, queued |-> 202, dry_run |-> 200, executed |-> 200, failed |-> 400]

\* The response of a call that has ended; 0 before that.
HttpStatus(c) ==
    IF pc[c] = "idle" THEN IF bearer[c] = NoBearer THEN 0 ELSE 401
    ELSE IF pc[c] # "done" THEN 0
    ELSE IF verdict[c].decision = "error" THEN 500
    ELSE StatusCode[verdict[c].decision]

-----------------------------------------------------------------------------
\* Whoever is answered, with 200, 202, 400 or 403, is in tool_calls and
\* audit_events, and nobody else is: not a call refused by authentication, not
\* one whose session died after its tool ran (it is told 500, if anything).
AnsweredIffAudited ==
    \A c \in Calls : c \in recorded <=> HttpStatus(c) \in {200, 202, 400, 403}

\* Whatever is done is done on the strength of a token: one we signed, for us, in
\* time, whose agent_role, or role for want of an agent_role, may use the tool.
DoneForTheToken ==
    \A c \in Calls : HttpStatus(c) \in {200, 202} =>
        LET b == bearer[c] IN
        /\ b.signed /\ b.audience = "ours" /\ b.expiry # "past"
        /\ AuthMode = "entra" => b.issuer = "ours"
        /\ \/ b.agent_role \in Registry[asked[c].tool].roles
           \/ b.agent_role = "" /\ b.role \in Registry[asked[c].tool].roles
=============================================================================
