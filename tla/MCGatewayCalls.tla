--------------------------- MODULE MCGatewayCalls ---------------------------
(* GatewayCalls on small instances. *)
EXTENDS GatewayCalls, TLC

CONSTANTS c1, c2, c3

Ask(tool, role, token, approval) ==
    [tool |-> tool, role |-> role, valid |-> TRUE, token |-> token, approval |-> approval]

\* The calls that meet at one approval, and ones that fall short of it.
ApprovalInputs == {
    Ask("create_crm_update_dry_run", "sales_agent", FALSE, NoCall),
    Ask("execute_crm_update", "admin_agent", TRUE, c1),
    Ask("execute_crm_update", "admin_agent", FALSE, c1),
    Ask("execute_crm_update", "sales_agent", TRUE, c1)}
=============================================================================
