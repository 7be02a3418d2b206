------------------------------ MODULE Replies ------------------------------
(***************************************************************************)
(* What the gateway sends back: the outputs of the tools' handlers         *)
(* (packages/tool_registry/tools.py) after the executor has redacted them, *)
(* in the exchanges of Exchange.                                           *)
(***************************************************************************)
EXTENDS Exchange, Redactor

\* The outputs of the tools, on the synthetic records of tools.py and on what a
\* caller may put in the arguments.
Employee == Dict([employee_id |-> Plain, name |-> Plain, title |-> Plain,
                  department_id |-> Plain, email |-> Text({"email"}),
                  phone |-> Text({"phone"}), national_id |-> Text({"ssn"}),
                  salary |-> Number, address |-> Plain])

Leave == Dict([employee_id |-> Plain, annual_total |-> Number, annual_taken |-> Number,
               annual_remaining |-> Number, sick_taken |-> Number])

Invoice == Dict([invoice_id |-> Plain, vendor |-> Plain, amount |-> Number,
                 currency |-> Plain, status |-> Plain, due_date |-> Text({"digits"})])

BudgetLine == Dict([line_item |-> Plain, budget |-> Number, actual |-> Number,
                    variance |-> Number, variance_pct |-> Number])

Budget(id) == Dict([department_id |-> Plain, period |-> Plain, statement_id |-> id,
                    line_items |-> List(<<BudgetLine, BudgetLine>>),
                    total_budget |-> Number, total_actual |-> Number,
                    total_variance |-> Number])

\* The diff of a dry run holds the proposed values, whatever they are.
Diff(proposed) ==
    Dict([account_id |-> Plain,
          diff |-> List(<<Dict([field |-> Plain, from |-> Plain, to |-> proposed])>>),
          human_approval_required |-> Number, writes_applied |-> Number,
          message |-> Plain])

Applied(id) == Dict([account_id |-> Plain, approved_change_id |-> id,
                     writes_applied |-> Number, message |-> Plain])

Customer == Dict([customer_id |-> Plain, name |-> Plain, tier |-> Plain,
                  email |-> Text({"email"}), phone |-> Text({"phone"}),
                  billing_currency |-> Plain])

Draft(id, description) ==
    Dict([draft_id |-> id, status |-> Plain, writes_applied |-> Number,
          human_approval_required |-> Number, message |-> Plain,
          invoice |-> Dict([customer_id |-> Plain, customer_name |-> Plain,
                            amount |-> Number, currency |-> Plain,
                            description |-> description])])

Outputs == [
    employee |-> Employee,
    leave |-> Leave,
    invoice |-> Invoice,
    budget |-> Budget(Plain),
    budget_digits |-> Budget(Text({"digits"})),
    diff |-> Diff(Plain),
    diff_contact |-> Diff(Dict([email |-> Text({"email"}), phones |-> List(<<Text({"phone"})>>)])),
    diff_card |-> Diff(Text({"card", "iban"})),
    applied |-> Applied(Plain),
    applied_digits |-> Applied(Text({"digits"})),
    customer |-> Customer,
    draft |-> Draft(Plain, Plain),
    draft_large |-> Draft(Text({"digits"}), Text({"email", "ssn"}))]

SensitiveFields == [
    get_employee_profile |-> {"email", "phone", "national_id", "salary", "address"},
    crm_lookup_customer |-> {"email", "phone"}]

SensitiveOf(tool) ==
    IF tool \in DOMAIN SensitiveFields THEN SensitiveFields[tool] ELSE {}

\* Wrong: whoever may use a tool may see what it returns.
RawPiiRolesOfTool(tool) == Registry[tool].roles

\* raw_pii_roles is empty for every tool.
RawPiiRoles(tool) == {}

-----------------------------------------------------------------------------
\* _redact_output
RedactOutput(tool, role, o) ==
    Redact(Outputs[o], SensitiveOf(tool), role \in RawPiiRoles(tool))

\* It has no state, so one table holds whatever it can return.
Redactions ==
    [tool \in DOMAIN OutputsOf |->
        [role \in Roles |-> [o \in OutputsOf[tool] |-> RedactOutput(tool, role, o)]]]

Redacted(c) == Redactions[asked[c].tool][asked[c].role][output[c]]

\* The payload of the reply; a dry run's approval id, which is random, joins it.
Sent(c) == Redacted(c).data

\* Wrong: what the sweep has taken does not count.
RedactionStatusOfFields(c) ==
    IF output[c] = NoOutput \/ Redacted(c).fields = {} THEN "none" ELSE "redacted"

\* tool_calls.redaction_status; the outcome's default is "none".
RedactionStatus(c) == IF output[c] = NoOutput THEN "none" ELSE Status(Redacted(c))

-----------------------------------------------------------------------------
\* No reply with 200 shows a declared field of its tool, were it a number, or
\* anything personal in any text, however deep in the output it is.
NoPiiLeaves ==
    \A c \in Calls : HttpStatus(c) = 200 => Clean(Sent(c), SensitiveOf(asked[c].tool))

\* The audit trail says "redacted" exactly of the calls whose reply has a mask in
\* it (one that the caller wrote in his arguments apart), and the sweep takes nothing
\* but what it matches: every text outside the declared fields that held nothing
\* personal and no digits is sent as it was.
RedactionIsReported ==
    \A c \in Calls : HttpStatus(c) = 200 =>
        /\ RedactionStatus(c) = "redacted" <=>
             \E x \in Sent(c) : x.leaf.kind = "text" /\ "mask" \in x.leaf.found
        /\ {x \in Outputs[output[c]] : /\ x.key \notin SensitiveOf(asked[c].tool)
                                      /\ x.leaf \in {TextLeaf({}), NumberLeaf}}
             \subseteq Sent(c)
=============================================================================
