----------------------------- MODULE MCExchange -----------------------------
(* Exchange and Replies, and the redactor they use, on small instances. *)
EXTENDS Replies, RedactorWalk, FiniteSets, TLC

CONSTANTS c1, c2, c3

Ask(tool, role, valid, token, approval) ==
    [tool |-> tool, role |-> role, valid |-> valid, token |-> token, approval |-> approval]

Call(tool, role) == Ask(tool, role, TRUE, FALSE, NoCall)

\* The calls that meet at one approval, and one that falls short of it.
ApprovalInputs == {
    Call("create_crm_update_dry_run", "sales_agent"),
    Ask("execute_crm_update", "admin_agent", TRUE, TRUE, c1),
    Ask("execute_crm_update", "admin_agent", TRUE, FALSE, c1)}

\* And one call of every other tool, and one for every other way to be turned down.
SomeInputs == ApprovalInputs \cup {
    Call("get_employee_profile", "hr_agent"),
    Call("get_employee_profile", "sales_agent"),
    Call("check_leave_balance", "hr_agent"),
    Call("get_invoice_status", "finance_agent"),
    Call("run_budget_variance_report", "finance_agent"),
    Call("trigger_databricks_workflow", "finance_agent"),
    Call("crm_lookup_customer", "sales_agent"),
    Call("billing_create_invoice_draft", "finance_agent"),
    Ask("get_invoice_status", "finance_agent", FALSE, FALSE, NoCall),
    Call("no_such_tool", "hr_agent"),
    Call("get_employee_profile", "no_such_role")}

Good(agent_role, role) ==
    [scheme |-> "bearer", signed |-> TRUE, audience |-> "ours", issuer |-> "ours",
     expiry |-> "ahead", agent_role |-> agent_role, role |-> role]

\* A token of every role, one with two roles, one with only the generic claim, and
\* one for every defect.
SomeBearers ==
    {Good(r, "") : r \in Roles \cup {"no_such_role"}} \cup
    {Good("hr_agent", "sales_agent"), Good("", "hr_agent"), Good("", ""),
     [Good("hr_agent", "") EXCEPT !.scheme = "other"],
     [Good("hr_agent", "") EXCEPT !.signed = FALSE],
     [Good("hr_agent", "") EXCEPT !.audience = "other"],
     [Good("hr_agent", "") EXCEPT !.issuer = "other"],
     [Good("hr_agent", "") EXCEPT !.expiry = "past"],
     [Good("hr_agent", "") EXCEPT !.expiry = "absent"]}

\* A bound: of the calls, only one is refused or has nothing to do with the approval.
OneOtherCall ==
    Cardinality({c \in Calls : bearer[c] # NoBearer /\ asked[c] \notin ApprovalInputs}) <= 1

CallSymmetry == Permutations(Calls \ {c1}) \cup Permutations(Admins)

\* Trees of three levels over two keys, one of them declared, and one that is deeper.
SomeLeaves == {NumberLeaf, TextLeaf({}), TextLeaf({"email"}), TextLeaf({"card", "digits"})}
Grown(below) == {DictNode([open |-> x, secret |-> y]) : x \in below, y \in below}
                \cup {ListNode(<<x, y>>) : x \in below, y \in below}
Trees == LET shallow == Grown(SomeLeaves) IN
         {DictNode([open |-> x, secret |-> y]) : x \in shallow, y \in shallow}
         \cup {DictNode([secret |-> ListNode(<<x>>)]) : x \in shallow}
         \cup {ListNode(<<DictNode([open |-> ListNode(<<DictNode([secret |-> x]), x>>)])>>)
                 : x \in shallow}

\* The walk over a tree redacts the value that the tree is, whatever its shape, and
\* the status "none" is that of a tree that comes out as it went in.
ASSUME WalkRedactsTheValue ==
    \A t \in Trees, raw \in BOOLEAN :
        LET r == RedactTree(t, {"secret"}, raw) IN
        /\ ResultOf(r) = Redact(ValueOf(t), {"secret"}, raw)
        /\ Status(r) = "none" <=> r.data = t
=============================================================================
