------------------------------- MODULE Policy -------------------------------
(***************************************************************************)
(* The tool registry (packages/tool_registry), the RBAC decision           *)
(* (packages/rbac) and the order in which the gateway's executor applies   *)
(* them to a call.  Tool names lose their dots: crm.lookup_customer is     *)
(* crm_lookup_customer here.                                               *)
(***************************************************************************)

CONSTANT DemoMode  \* settings.is_demo

ASSUME DemoModeAssumption == DemoMode \in BOOLEAN

Roles == {"hr_agent", "finance_agent", "sales_agent", "admin_agent"}

HrRoles == {"hr_agent", "admin_agent"}
FinanceRoles == {"finance_agent", "admin_agent"}
SalesRoles == {"sales_agent", "admin_agent"}
AdminOnly == {"admin_agent"}

Tool(roles, class, mode, dryRun, enabled) ==
    [roles |-> roles, class |-> class, mode |-> mode,
     dryRun |-> dryRun, enabled |-> enabled]

Read(roles) == Tool(roles, "read", "sync", FALSE, TRUE)

Registry == [
    get_employee_profile |-> Read(HrRoles),
    check_leave_balance |-> Read(HrRoles),
    get_invoice_status |-> Read(FinanceRoles),
    run_budget_variance_report |-> Read(FinanceRoles),
    trigger_databricks_workflow |-> Tool(FinanceRoles, "write", "async", FALSE, TRUE),
    create_crm_update_dry_run |-> Tool(SalesRoles, "write", "sync", TRUE, TRUE),
    execute_crm_update |-> Tool(AdminOnly, "destructive", "sync", FALSE, ~DemoMode),
    crm_lookup_customer |-> Read(SalesRoles),
    billing_create_invoice_draft |-> Tool(FinanceRoles, "write", "sync", TRUE, TRUE)]

Tools == DOMAIN Registry

\* evaluate: deny by default, the kill switch before the role list.
Evaluate(role, tool) ==
    IF role \notin Roles THEN "unknown_role"
    ELSE IF ~tool.enabled THEN "tool_disabled"
    ELSE IF role \in tool.roles THEN "allowed"
    ELSE "role_not_permitted"

\* Step 3 of invoke: classification first, then dry run, then mode.
Route(tool) ==
    IF tool.class = "destructive" THEN "destructive"
    ELSE IF tool.dryRun THEN "dry_run"
    ELSE IF tool.mode = "async" THEN "async"
    ELSE "sync"

\* The outcome of a call, as the caller and the audit trail see it.
Verdict(decision, code) == [decision |-> decision, code |-> code]

Outcome == [
    decision: {"none", "denied", "failed", "executed", "dry_run", "queued", "error"},
    code: {"none", "UNKNOWN_TOOL", "unknown_role", "tool_disabled",
           "role_not_permitted", "INVALID_ARGUMENTS", "TOOL_ERROR", "INTERNAL_ERROR",
           "APPROVAL_REQUIRED", "APPROVAL_NOT_APPROVED"}]

NoVerdict == Verdict("none", "none")

\* Registry, RBAC, arguments: the first that objects decides.  A call is a
\* record with the fields tool, role and valid (whether its arguments are).
Refusal(call) ==
    IF call.tool \notin Tools THEN Verdict("denied", "UNKNOWN_TOOL")
    ELSE LET reason == Evaluate(call.role, Registry[call.tool]) IN
         IF reason # "allowed" THEN Verdict("denied", reason)
         ELSE IF ~call.valid THEN Verdict("failed", "INVALID_ARGUMENTS")
         ELSE NoVerdict
=============================================================================
