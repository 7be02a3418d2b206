------------------------------ MODULE Redactor ------------------------------
(***************************************************************************)
(* What the PII redactor (packages/pii/redactor.py) makes of a JSON value. *)
(* What it does to a leaf depends on the leaf and on the closest key above *)
(* it, so a value is the set of its leaves, each with that key; where in a *)
(* list or how deep in a dict it was is left out.  RedactorWalk has the    *)
(* walk over the tree.  A text is known by what can be found in it: its    *)
(* fragments.                                                              *)
(***************************************************************************)

\* What is personal, what only looks like it (a date, the digits of an id), and
\* the mark of a redaction.
Personal == {"email", "iban", "phone", "ssn", "card"}
Fragments == Personal \cup {"digits", "mask"}

\* A leaf that is no text is a number, a truth value or null.
TextLeaf(found) == [kind |-> "text", found |-> found]
NumberLeaf == [kind |-> "number"]
Mask == TextLeaf({"mask"})

LeafType == {TextLeaf(found) : found \in SUBSET Fragments} \cup {NumberLeaf}

NoKey == "no key"

Leaf(leaf) == {[key |-> NoKey, leaf |-> leaf]}
Text(found) == Leaf(TextLeaf(found))
Number == Leaf(NumberLeaf)
Plain == Text({})

\* The leaves right below a dict go by its keys, those of a list by the list's.
Dict(items) ==
    UNION {{[x EXCEPT !.key = IF @ = NoKey THEN k ELSE @] : x \in items[k]} : k \in DOMAIN items}
List(items) == UNION {items[i] : i \in DOMAIN items}

-----------------------------------------------------------------------------
\* What each of the patterns matches: nine digits with separators are a phone
\* number, whatever they are.
Matches == [email |-> {"email"}, iban |-> {"iban"},
            phone |-> {"phone", "ssn", "card", "digits"},
            ssn_like |-> {"ssn"}, credit_card |-> {"card"}]

\* One pattern, on what the ones before it have left.
Sub(p, swept) ==
    IF swept.found \cap Matches[p] = {} THEN swept
    ELSE [found |-> (swept.found \ Matches[p]) \cup {"mask"},
          matched |-> swept.matched \cup {p}]

\* redact_text: the patterns in the order of _PATTERNS.
RedactText(found) ==
    LET email == Sub("email", [found |-> found, matched |-> {}])
        iban == Sub("iban", email)
        phone == Sub("phone", iban)
        ssn_like == Sub("ssn_like", phone)
    IN Sub("credit_card", ssn_like)

\* A RedactionResult, and its status.
Result(data, fields, matched) == [data |-> data, fields |-> fields, matched |-> matched]

Status(result) ==
    IF result.fields = {} /\ result.matched = {} THEN "none" ELSE "redacted"

\* One leaf: a declared field is masked unless raw values are allowed; any other
\* text is swept, and any other value stays.
WalkLeaf(node, key, sensitive, allowRaw) ==
    IF key \in sensitive /\ ~allowRaw THEN Result(Mask, {key}, {})
    ELSE IF node.kind = "text"
    THEN LET swept == RedactText(node.found)
         IN Result(TextLeaf(swept.found), {}, swept.matched)
    ELSE Result(node, {}, {})

\* redact: every leaf, and what was masked and matched on the way.
Redact(value, sensitive, allowRaw) ==
    LET walked(x) == WalkLeaf(x.leaf, x.key, sensitive, allowRaw) IN
    Result({[key |-> x.key, leaf |-> walked(x).data] : x \in value},
           UNION {walked(x).fields : x \in value},
           UNION {walked(x).matched : x \in value})

-----------------------------------------------------------------------------
\* What may be read in a value that is sent out: nothing personal in any text,
\* nothing at all under a declared key.
Clean(value, sensitive) ==
    \A x \in value :
        /\ x.leaf.kind = "text" => x.leaf.found \cap Personal = {}
        /\ x.key \in sensitive => x.leaf = Mask
=============================================================================
