--------------------------- MODULE ExchangeProofs ---------------------------
(***************************************************************************)
(* Theorems about Exchange and Replies, for any callers, tokens, calls and *)
(* admins, in both authentication modes.                                   *)
(***************************************************************************)
EXTENDS Replies, GatewayProofs

\* The exchange adds the token and the output to a call and takes nothing from
\* it: every step is a step of GatewayCalls or leaves its variables alone.
LEMMA ExchangeIsCalls == [ExchangeNext]_exchangeVars => [Next]_vars
<1> SUFFICES ASSUME [ExchangeNext]_exchangeVars
             PROVE  [Next]_vars
  OBVIOUS
<1>1. ASSUME NEW c \in Calls, Refuse(c) \/ Enter(c)
      PROVE  [Next]_vars
  BY <1>1 DEF Refuse, Enter, Next
<1>2. ASSUME NEW c \in Calls, Handle(c) \/ Decline(c) \/ Proceed(c)
      PROVE  [Next]_vars
  BY <1>2 DEF Handle, Decline, Proceed, Next
<1>3. ASSUME NEW p \in Admins, Approve(p)
      PROVE  [Next]_vars
  BY <1>3 DEF Approve, Next
<1>4. CASE UNCHANGED exchangeVars
  BY <1>4 DEF exchangeVars
<1> QED
  BY <1>1, <1>2, <1>3, <1>4 DEF ExchangeNext

\* The theorems of GatewayProofs hold of the exchanges: authentication, replies and
\* approvals over HTTP make no behaviour that GatewayCalls does not have.
THEOREM ExchangeUsesCalls == ExchangeSpec => Spec
<1>1. ExchangeInit => Init
  BY DEF ExchangeInit
<1> QED
  BY <1>1, ExchangeIsCalls, PTL DEF ExchangeSpec, Spec

-----------------------------------------------------------------------------
\* What the gateway answers.
Answers == {"denied", "failed", "executed", "dry_run", "queued"}

\* A call has its rows when it is done and was answered.
Answered ==
    \A c \in Calls :
        /\ pc[c] = "record" => verdict[c].decision \in Answers
        /\ pc[c] = "done" => verdict[c].decision \in Answers \cup {"error"}
        /\ c \in recorded <=> pc[c] = "done" /\ verdict[c].decision # "error"

LEMMA AnsweredStep == TypeInv /\ Answered /\ [Next]_vars => Answered'
<1> SUFFICES ASSUME TypeInv, Answered, [Next]_vars
             PROVE  Answered'
  OBVIOUS
<1> USE DEF Answered, Answers
<1>0. /\ pc \in [Calls -> Pc]
      /\ verdict \in [Calls -> Outcome]
  BY DEF TypeInv, TypeOK
<1>1. ASSUME NEW c \in Calls, NEW input \in Inputs, Arrive(c, input)
      PROVE  Answered'
  <2>1. /\ pc[c] = "idle"
        /\ verdict' = [verdict EXCEPT ![c] = Refusal(input)]
        /\ recorded' = recorded
        /\ \/ /\ pc' = [pc EXCEPT ![c] = "record"]
              /\ Refusal(input).decision \in {"denied", "failed"}
           \/ /\ pc' = [pc EXCEPT ![c] = Route(Registry[input.tool])]
    BY <1>1 DEF Arrive, GoTo, Decide, Refusal, Verdict, NoVerdict, Evaluate
  <2>2. Route(Registry[input.tool]) \notin {"record", "done"}
    BY DEF Route
  <2> QED
    BY <1>0, <2>1, <2>2
<1>2. ASSUME NEW c \in Calls,
             RunSync(c) \/ RunDry(c) \/ RunAsync(c) \/ GateDenies(c) \/ Execute(c)
      PROVE  Answered'
  <2>1. PICK v \in Outcome : Finish(c, v) /\ v.decision \in Answers
    BY <1>2 DEF RunSync, RunDry, RunAsync, GateDenies, Execute, Verdict, ToolError, Outcome
  <2>2. pc[c] \notin {"record", "done"}
    BY <1>2 DEF RunSync, RunDry, RunAsync, GateDenies, Execute
  <2> QED
    BY <1>0, <2>1, <2>2 DEF Finish, GoTo, Decide
<1>3. ASSUME NEW c \in Calls, GateOpens(c)
      PROVE  Answered'
  BY <1>0, <1>3 DEF GateOpens, GoTo
<1>4. ASSUME NEW c \in Calls, Record(c)
      PROVE  Answered'
  BY <1>0, <1>4 DEF Record, GoTo
<1>5. ASSUME NEW c \in Calls, Abort(c)
      PROVE  Answered'
  BY <1>0, <1>5 DEF Abort, GoTo, Decide, Verdict
<1>6. ASSUME NEW p \in Admins,
             (\E a \in Calls : ApproveRead(p, a)) \/ ApproveCommit(p) \/ ApproveAbort(p)
      PROVE  Answered'
  BY <1>6 DEF ApproveRead, ApproveCommit, ApproveAbort, callVars
<1>7. CASE UNCHANGED vars
  BY <1>7 DEF vars, callVars
<1> QED
  BY <1>1, <1>2, <1>3, <1>4, <1>5, <1>6, <1>7 DEF Next

\* For any callers and crashes: the calls that are answered with a decision are
\* the calls in the audit trail.
THEOREM AnsweredAreAudited == ExchangeSpec => []AnsweredIffAudited
<1>1. Init => TypeInv /\ Answered
  BY TypeInit DEF Init, Answered
<1>2. TypeInv /\ Answered /\ [Next]_vars => (TypeInv /\ Answered)'
  BY TypeStep, AnsweredStep
<1>3. Answered => AnsweredIffAudited
  <2> SUFFICES ASSUME Answered, NEW c \in Calls
               PROVE  c \in recorded <=> HttpStatus(c) \in {200, 202, 400, 403}
    BY DEF AnsweredIffAudited
  <2>1. CASE pc[c] = "done" /\ verdict[c].decision # "error"
    <3>1. verdict[c].decision \in Answers
      BY <2>1 DEF Answered
    <3> QED
      BY <2>1, <3>1 DEF Answered, Answers, HttpStatus, StatusCode
  <2>2. CASE ~(pc[c] = "done" /\ verdict[c].decision # "error")
    BY <2>2 DEF Answered, HttpStatus
  <2> QED
    BY <2>1, <2>2
<1> QED
  BY <1>1, <1>2, <1>3, ExchangeUsesCalls, PTL DEF Spec

-----------------------------------------------------------------------------
\* Past the door every call has a token, and its role is the token's.
AskedForToken ==
    /\ bearer \in [Calls -> Bearers \cup {NoBearer}]
    /\ \A c \in Calls : pc[c] # "idle" =>
         /\ bearer[c] # NoBearer
         /\ Authenticates(bearer[c])
         /\ asked[c].role = RoleClaim(bearer[c])

LEMMA AskedForTokenStep ==
    TypeInv /\ AskedForToken /\ [ExchangeNext]_exchangeVars => AskedForToken'
<1> SUFFICES ASSUME TypeInv, AskedForToken, [ExchangeNext]_exchangeVars
             PROVE  AskedForToken'
  OBVIOUS
<1>0. /\ pc \in [Calls -> Pc]
      /\ asked \in [Calls -> CallInput \cup {NoCall}]
  BY DEF TypeInv, TypeOK
<1>1. ASSUME NEW c \in Calls, Refuse(c)
      PROVE  AskedForToken'
  <2>1. PICK b \in Bearers : bearer' = [bearer EXCEPT ![c] = b]
    BY <1>1 DEF Refuse
  <2>2. pc[c] = "idle" /\ UNCHANGED <<pc, asked>>
    BY <1>1 DEF Refuse, vars, callVars
  <2> QED
    BY <2>1, <2>2 DEF AskedForToken
<1>2. ASSUME NEW c \in Calls, Enter(c)
      PROVE  AskedForToken'
  <2>1. PICK b \in Bearers, input \in Inputs :
          /\ Authenticates(b)
          /\ input.role = RoleClaim(b)
          /\ Arrive(c, input)
          /\ bearer' = [bearer EXCEPT ![c] = b]
    BY <1>2 DEF Enter
  <2>2. /\ asked' = [asked EXCEPT ![c] = input]
        /\ \A d \in Calls \ {c} : pc'[d] = pc[d]
    BY <1>0, <2>1 DEF Arrive, GoTo
  <2>3. b # NoBearer
    BY AuthAssumption
  <2>4. bearer' \in [Calls -> Bearers \cup {NoBearer}]
    BY <2>1 DEF AskedForToken
  <2>5. bearer'[c] = b /\ asked'[c] = input
    BY <1>0, <2>1, <2>2 DEF AskedForToken
  <2>6. ASSUME NEW d \in Calls \ {c}
        PROVE  bearer'[d] = bearer[d] /\ asked'[d] = asked[d] /\ pc'[d] = pc[d]
    BY <1>0, <2>1, <2>2 DEF AskedForToken
  <2> QED
    BY <2>1, <2>3, <2>4, <2>5, <2>6 DEF AskedForToken
<1>3. ASSUME NEW c \in Calls, pc[c] # "idle",
             \E l \in Pc : GoTo(c, l), UNCHANGED <<asked, bearer>>
      PROVE  AskedForToken'
  BY <1>0, <1>3 DEF GoTo, AskedForToken
<1>4. ASSUME NEW c \in Calls, Handle(c) \/ Decline(c) \/ Proceed(c)
      PROVE  AskedForToken'
  <2>1. UNCHANGED bearer
    BY <1>4 DEF Handle, Decline, Proceed
  <2>2. pc[c] # "idle"
    BY <1>4 DEF Handle, Decline, Proceed, RunSync, RunDry, Execute, RunAsync, GateDenies,
                GateOpens, Record, Abort
  <2>3. UNCHANGED asked /\ \E l \in Pc : GoTo(c, l)
    BY <1>4 DEF Handle, Decline, Proceed, RunSync, RunDry, Execute, RunAsync, GateDenies,
                GateOpens, Record, Abort, Finish, Pc
  <2> QED
    BY <1>3, <2>1, <2>2, <2>3
<1>5. ASSUME NEW p \in Admins, Approve(p)
      PROVE  AskedForToken'
  BY <1>5 DEF Approve, ApproveRead, ApproveCommit, ApproveAbort, callVars, AskedForToken
<1>6. CASE UNCHANGED exchangeVars
  BY <1>6 DEF exchangeVars, vars, callVars, AskedForToken
<1> QED
  BY <1>1, <1>2, <1>4, <1>5, <1>6 DEF ExchangeNext

\* For any tokens and both verifiers: nothing is done but for the bearer of a
\* valid token whose own role may use the tool.
THEOREM AuthorityIsTheTokens == ExchangeSpec => []DoneForTheToken
<1>1. ExchangeInit => AskedForToken
  BY DEF ExchangeInit, Init, AskedForToken
<1>2. Init => TypeInv /\ Answered
  BY TypeInit DEF Init, Answered
<1>3. TypeInv /\ Answered /\ [Next]_vars => (TypeInv /\ Answered)'
  BY TypeStep, AnsweredStep
<1>4. ASSUME AskedForToken, Answered, ExecutionIsAuthorised
      PROVE  DoneForTheToken
  <2> SUFFICES ASSUME NEW c \in Calls, HttpStatus(c) \in {200, 202}
               PROVE  LET b == bearer[c] IN
                      /\ b.signed /\ b.audience = "ours" /\ b.expiry # "past"
                      /\ AuthMode = "entra" => b.issuer = "ours"
                      /\ \/ b.agent_role \in Registry[asked[c].tool].roles
                         \/ b.agent_role = "" /\ b.role \in Registry[asked[c].tool].roles
    BY DEF DoneForTheToken
  <2>1. pc[c] = "done"
    BY DEF HttpStatus
  <2>2. verdict[c].decision \in {"executed", "dry_run", "queued"}
    BY <1>4, <2>1 DEF HttpStatus, Answered, Answers, StatusCode
  <2>3. asked[c].role \in Registry[asked[c].tool].roles
    BY <1>4, <2>2 DEF ExecutionIsAuthorised
  <2>4. Authenticates(bearer[c]) /\ asked[c].role = RoleClaim(bearer[c])
    BY <1>4, <2>1 DEF AskedForToken
  <2> QED
    BY <2>3, <2>4 DEF Authenticates, Decodes, RoleClaim
<1>5. AskedForToken /\ TypeInv /\ [ExchangeNext]_exchangeVars => AskedForToken'
  BY AskedForTokenStep
<1> QED
  BY <1>1, <1>2, <1>3, <1>4, <1>5, ExchangeIsCalls, ExchangeUsesCalls, AuthorisedOnly,
     PTL DEF ExchangeSpec, Spec

-----------------------------------------------------------------------------
(* The redactor. *)

\* Nothing a pattern took is in what it leaves, a mask is; and what says that no pattern
\* matched was not changed.
SweptFrom(found, swept) ==
    /\ swept = [found |-> swept.found, matched |-> swept.matched]
    /\ swept.found \subseteq found \cup {"mask"}
    /\ swept.matched = {} => swept.found = found
    /\ swept.matched # {} => "mask" \in swept.found

LEMMA SubSweeps ==
    ASSUME NEW p \in DOMAIN Matches, NEW found, NEW swept, SweptFrom(found, swept)
    PROVE  /\ SweptFrom(found, Sub(p, swept))
           /\ Sub(p, swept).found \subseteq (swept.found \ Matches[p]) \cup {"mask"}
<1>1. "mask" \notin Matches[p]
  BY DEF Matches
<1>2. CASE swept.found \cap Matches[p] = {}
  BY <1>2 DEF Sub, SweptFrom
<1>3. CASE swept.found \cap Matches[p] # {}
  <2>1. Sub(p, swept) = [found |-> (swept.found \ Matches[p]) \cup {"mask"},
                         matched |-> swept.matched \cup {p}]
    BY <1>3 DEF Sub
  <2> QED
    BY <2>1 DEF SweptFrom
<1> QED
  BY <1>2, <1>3

\* The order of the patterns does not matter for this: what one of them takes, none
\* puts back.
LEMMA SweepLeavesNothing ==
    ASSUME NEW found
    PROVE  /\ SweptFrom(found, RedactText(found))
           /\ RedactText(found).found \cap Personal = {}
<1> DEFINE none == [found |-> found, matched |-> {}]
           email == Sub("email", none)
           iban == Sub("iban", email)
           phone == Sub("phone", iban)
           ssn_like == Sub("ssn_like", phone)
           card == Sub("credit_card", ssn_like)
<1>1. SweptFrom(found, none)
  BY DEF SweptFrom
<1>2. DOMAIN Matches = {"email", "iban", "phone", "ssn_like", "credit_card"}
  BY DEF Matches
<1>3. /\ SweptFrom(found, email)
      /\ email.found \subseteq (found \ {"email"}) \cup {"mask"}
  <2> HIDE DEF none
  <2>1. none.found = found
    BY DEF none
  <2> QED
    BY <1>1, <1>2, <2>1, SubSweeps DEF Matches
<1> HIDE DEF email
<1>4. /\ SweptFrom(found, iban)
      /\ iban.found \subseteq (email.found \ {"iban"}) \cup {"mask"}
  BY <1>2, <1>3, SubSweeps DEF Matches
<1> HIDE DEF iban
<1>5. /\ SweptFrom(found, phone)
      /\ phone.found \subseteq (iban.found \ {"phone", "ssn", "card", "digits"}) \cup {"mask"}
  BY <1>2, <1>4, SubSweeps DEF Matches
<1> HIDE DEF phone
<1>6. /\ SweptFrom(found, ssn_like)
      /\ ssn_like.found \subseteq phone.found \cup {"mask"}
  BY <1>2, <1>5, SubSweeps DEF Matches
<1> HIDE DEF ssn_like
<1>7. /\ SweptFrom(found, card)
      /\ card.found \subseteq ssn_like.found \cup {"mask"}
  BY <1>2, <1>6, SubSweeps DEF Matches
<1> HIDE DEF card
<1>8. RedactText(found) = card
  BY DEF RedactText, card, ssn_like, phone, iban, email
<1>9. card.found \cap Personal = {}
  BY <1>3, <1>4, <1>5, <1>6, <1>7 DEF Personal
<1> QED
  BY <1>7, <1>8, <1>9

\* A text in which nothing is found stays as it is.
LEMMA PlainIsKept == RedactText({}) = [found |-> {}, matched |-> {}]
BY DEF RedactText, Sub

Masked(leaf) == leaf.kind = "text" /\ "mask" \in leaf.found

\* What a leaf becomes, whatever it is, whatever its key and whoever asks.
LEMMA LeafIsRedacted ==
    ASSUME NEW node \in LeafType, NEW key, NEW sensitive, NEW allowRaw \in BOOLEAN
    PROVE  LET walked == WalkLeaf(node, key, sensitive, allowRaw) IN
           /\ walked.data.kind = "text" => walked.data.found \cap Personal = {}
           /\ key \in sensitive /\ ~allowRaw => walked.data = Mask
           /\ key \notin sensitive /\ node \in {TextLeaf({}), NumberLeaf} => walked.data = node
           /\ walked.fields = {} /\ walked.matched = {} => walked.data = node
           /\ ~(walked.fields = {} /\ walked.matched = {}) => Masked(walked.data)
<1> DEFINE walked == WalkLeaf(node, key, sensitive, allowRaw)
<1>1. CASE key \in sensitive /\ ~allowRaw
  <2>1. walked = Result(Mask, {key}, {})
    BY <1>1 DEF WalkLeaf
  <2> QED
    BY <1>1, <2>1 DEF Result, Masked, Mask, TextLeaf, Personal
<1>2. CASE ~(key \in sensitive /\ ~allowRaw) /\ node = NumberLeaf
  <2>1. walked = Result(NumberLeaf, {}, {})
    BY <1>2 DEF WalkLeaf, NumberLeaf
  <2> QED
    BY <1>2, <2>1 DEF Result, NumberLeaf
<1>3. ASSUME ~(key \in sensitive /\ ~allowRaw),
             NEW found \in SUBSET Fragments, node = TextLeaf(found)
      PROVE  /\ walked.data.kind = "text" => walked.data.found \cap Personal = {}
             /\ node \in {TextLeaf({}), NumberLeaf} => walked.data = node
             /\ walked.fields = {} /\ walked.matched = {} => walked.data = node
             /\ ~(walked.fields = {} /\ walked.matched = {}) => Masked(walked.data)
  <2>1. walked = Result(TextLeaf(RedactText(found).found), {}, RedactText(found).matched)
    BY <1>3 DEF WalkLeaf, TextLeaf
  <2>2. node \in {TextLeaf({}), NumberLeaf} => found = {}
    BY <1>3 DEF TextLeaf, NumberLeaf
  <2>3. /\ walked.data = TextLeaf(RedactText(found).found)
        /\ walked.fields = {}
        /\ walked.matched = RedactText(found).matched
    BY <2>1 DEF Result
  <2>4. /\ walked.data.kind = "text"
        /\ walked.data.found = RedactText(found).found
    BY <2>3 DEF TextLeaf
  <2> HIDE DEF walked
  <2>5. /\ RedactText(found).found \cap Personal = {}
        /\ RedactText(found).matched = {} => RedactText(found).found = found
        /\ RedactText(found).matched # {} => "mask" \in RedactText(found).found
    BY SweepLeavesNothing DEF SweptFrom
  <2>6. found = {} => RedactText(found).found = found
    BY PlainIsKept
  <2> QED
    BY <1>3, <2>2, <2>3, <2>4, <2>5, <2>6 DEF Masked
<1> QED
  BY <1>1, <1>2, <1>3 DEF LeafType

\* A JSON value, as a set of leaves with their keys.
IsValue(value) ==
    \A x \in value : x.leaf \in LeafType /\ x = [key |-> x.key, leaf |-> x.leaf]

\* Whatever a tool returns, whatever is declared of it and whoever asks: no text that
\* comes out holds anything personal, a declared field is a mask for everybody without
\* the right to raw values, what is not declared and holds nothing passes, and "redacted"
\* is said exactly of what has a mask in it that the redactor put there.
THEOREM ValuesAreRedacted ==
    ASSUME NEW value, IsValue(value), NEW sensitive, NEW allowRaw \in BOOLEAN
    PROVE  LET redacted == Redact(value, sensitive, allowRaw) IN
           /\ \A x \in redacted.data : x.leaf.kind = "text" => x.leaf.found \cap Personal = {}
           /\ ~allowRaw => Clean(redacted.data, sensitive)
           /\ {x \in value : /\ x.key \notin sensitive
                             /\ x.leaf \in {TextLeaf({}), NumberLeaf}} \subseteq redacted.data
           /\ Status(redacted) = "none" => redacted.data = value
           /\ Status(redacted) = "redacted" => \E x \in redacted.data : Masked(x.leaf)
<1> DEFINE walked(x) == WalkLeaf(x.leaf, x.key, sensitive, allowRaw)
           after(x) == [key |-> x.key, leaf |-> walked(x).data]
           redacted == Redact(value, sensitive, allowRaw)
<1>1. /\ redacted.data = {after(x) : x \in value}
      /\ redacted.fields = UNION {walked(x).fields : x \in value}
      /\ redacted.matched = UNION {walked(x).matched : x \in value}
  BY DEF Redact, Result
<1>2. \A x \in value : x.leaf \in LeafType /\ x = [key |-> x.key, leaf |-> x.leaf]
  BY DEF IsValue
<1>3. ASSUME NEW x \in value
      PROVE  /\ walked(x).data.kind = "text" => walked(x).data.found \cap Personal = {}
             /\ x.key \in sensitive /\ ~allowRaw => walked(x).data = Mask
             /\ x.key \notin sensitive /\ x.leaf \in {TextLeaf({}), NumberLeaf}
                  => walked(x).data = x.leaf
             /\ walked(x).fields = {} /\ walked(x).matched = {} => walked(x).data = x.leaf
             /\ ~(walked(x).fields = {} /\ walked(x).matched = {}) => Masked(walked(x).data)
  BY <1>2, <1>3, LeafIsRedacted
<1> HIDE DEF redacted
<1>4. /\ redacted.fields = {} <=> \A x \in value : walked(x).fields = {}
      /\ redacted.matched = {} <=> \A x \in value : walked(x).matched = {}
  <2> HIDE DEF walked
  <2> QED
    BY <1>1
<1> HIDE DEF walked
<1>5. \A x \in redacted.data : x.leaf.kind = "text" => x.leaf.found \cap Personal = {}
  BY <1>1, <1>3
<1>6. ~allowRaw => Clean(redacted.data, sensitive)
  BY <1>1, <1>3 DEF Clean
<1>7. {x \in value : /\ x.key \notin sensitive
                      /\ x.leaf \in {TextLeaf({}), NumberLeaf}} \subseteq redacted.data
  <2> SUFFICES ASSUME NEW x \in value, x.key \notin sensitive, x.leaf \in {TextLeaf({}), NumberLeaf}
               PROVE  x \in redacted.data
    OBVIOUS
  <2>1. after(x) = x
    BY <1>2, <1>3
  <2> QED
    BY <1>1, <2>1
<1>8. Status(redacted) = "none" => redacted.data = value
  <2> SUFFICES ASSUME Status(redacted) = "none"
               PROVE  redacted.data = value
    OBVIOUS
  <2>1. \A x \in value : after(x) = x
    BY <1>2, <1>3, <1>4 DEF Status
  <2> QED
    BY <1>1, <2>1
<1>9. Status(redacted) = "redacted" => \E x \in redacted.data : Masked(x.leaf)
  <2> SUFFICES ASSUME Status(redacted) = "redacted"
               PROVE  \E x \in redacted.data : Masked(x.leaf)
    OBVIOUS
  <2>1. PICK x \in value : ~(walked(x).fields = {} /\ walked(x).matched = {})
    BY <1>4 DEF Status
  <2>2. after(x) \in redacted.data /\ after(x).leaf = walked(x).data
    BY <1>1
  <2> QED
    BY <1>3, <2>1, <2>2
<1> QED
  BY <1>5, <1>6, <1>7, <1>8, <1>9 DEF redacted

-----------------------------------------------------------------------------
(* The outputs of the tools are values, without a mask of their own. *)
IsRaw(value) == IsValue(value) /\ \A x \in value : ~Masked(x.leaf)

LEMMA RawText == ASSUME NEW found \in SUBSET (Fragments \ {"mask"})
                 PROVE  IsRaw(Text(found))
<1>1. TextLeaf(found) \in LeafType /\ ~Masked(TextLeaf(found))
  BY DEF LeafType, Masked, TextLeaf
<1> QED
  BY <1>1 DEF IsRaw, IsValue, Text, Leaf

LEMMA RawPlain == IsRaw(Plain) /\ IsRaw(Number)
<1>1. NumberLeaf \in LeafType /\ ~Masked(NumberLeaf)
  BY DEF LeafType, Masked, NumberLeaf
<1> QED
  BY <1>1, RawText DEF IsRaw, IsValue, Plain, Number, Leaf

LEMMA RawDict ==
    ASSUME NEW items, \A k \in DOMAIN items : IsRaw(items[k])
    PROVE  IsRaw(Dict(items))
<1>1. ASSUME NEW k \in DOMAIN items, NEW x \in items[k], NEW y,
             y = [x EXCEPT !.key = IF @ = NoKey THEN k ELSE @]
      PROVE  y = [key |-> y.key, leaf |-> y.leaf] /\ y.leaf \in LeafType /\ ~Masked(y.leaf)
  <2>1. x = [key |-> x.key, leaf |-> x.leaf] /\ x.leaf \in LeafType /\ ~Masked(x.leaf)
    BY <1>1 DEF IsRaw, IsValue
  <2>2. y = [key |-> IF x.key = NoKey THEN k ELSE x.key, leaf |-> x.leaf]
    BY <1>1, <2>1
  <2> QED
    BY <2>1, <2>2
<1> QED
  BY <1>1 DEF Dict, IsRaw, IsValue

LEMMA RawList ==
    ASSUME NEW items, \A i \in DOMAIN items : IsRaw(items[i])
    PROVE  IsRaw(List(items))
BY DEF List, IsRaw, IsValue

LEMMA RawOutputs == \A o \in DOMAIN Outputs : IsRaw(Outputs[o])
<1> USE RawPlain
<1>1. /\ IsRaw(Text({"email"}))
      /\ IsRaw(Text({"phone"}))
      /\ IsRaw(Text({"ssn"}))
      /\ IsRaw(Text({"digits"}))
      /\ IsRaw(Text({"card", "iban"}))
      /\ IsRaw(Text({"email", "ssn"}))
  BY RawText DEF Fragments, Personal
<1>2. IsRaw(Employee)
  BY <1>1, RawDict DEF Employee
<1>3. IsRaw(Leave)
  BY <1>1, RawDict DEF Leave
<1>4. IsRaw(Invoice)
  BY <1>1, RawDict DEF Invoice
<1>5. ASSUME NEW id, IsRaw(id)
      PROVE  IsRaw(Budget(id))
  <2>1. IsRaw(BudgetLine)
    BY RawDict DEF BudgetLine
  <2>2. IsRaw(List(<<BudgetLine, BudgetLine>>))
    BY <2>1, RawList
  <2> QED
    BY <1>5, <2>2, RawDict DEF Budget
<1>6. ASSUME NEW proposed, IsRaw(proposed)
      PROVE  IsRaw(Diff(proposed))
  <2>1. IsRaw(Dict([field |-> Plain, from |-> Plain, to |-> proposed]))
    BY <1>6, RawDict
  <2>2. IsRaw(List(<<Dict([field |-> Plain, from |-> Plain, to |-> proposed])>>))
    BY <2>1, RawList
  <2> QED
    BY <2>2, RawDict DEF Diff
<1>7. ASSUME NEW id, IsRaw(id)
      PROVE  IsRaw(Applied(id))
  BY <1>7, RawDict DEF Applied
<1>8. IsRaw(Customer)
  BY <1>1, RawDict DEF Customer
<1>9. ASSUME NEW id, IsRaw(id), NEW description, IsRaw(description)
      PROVE  IsRaw(Draft(id, description))
  <2>1. IsRaw(Dict([customer_id |-> Plain, customer_name |-> Plain,
                    amount |-> Number, currency |-> Plain,
                    description |-> description]))
    BY <1>9, RawDict
  <2> QED
    BY <1>9, <2>1, RawDict DEF Draft
<1>10. IsRaw(Dict([email |-> Text({"email"}), phones |-> List(<<Text({"phone"})>>)]))
  <2>1. IsRaw(List(<<Text({"phone"})>>))
    BY <1>1, RawList
  <2> QED
    BY <1>1, <2>1, RawDict
<1> QED
  BY <1>1, <1>2, <1>3, <1>4, <1>5, <1>6, <1>7, <1>8, <1>9, <1>10 DEF Outputs

-----------------------------------------------------------------------------
(***************************************************************************)
(* What is sent.  The output of a handler is kept until the reply is       *)
(* built, while other calls and approvals go on.                           *)
(***************************************************************************)

\* What ran returned an output of its tool, and was not the asynchronous one.
ReturnsKnown ==
    /\ output \in [Calls -> DOMAIN Outputs \cup {NoOutput}]
    /\ \A c \in Calls : verdict[c].decision \in {"executed", "dry_run"} =>
         /\ asked[c].tool \in DOMAIN OutputsOf
         /\ output[c] \in OutputsOf[asked[c].tool]

LEMMA OutputsKnown ==
    /\ DOMAIN OutputsOf \subseteq Tools
    /\ \A t \in Tools : Route(Registry[t]) # "async" => t \in DOMAIN OutputsOf
    /\ \A t \in DOMAIN OutputsOf : OutputsOf[t] \subseteq DOMAIN Outputs
    /\ NoOutput \notin DOMAIN Outputs
<1>1. Tools = {"get_employee_profile", "check_leave_balance", "get_invoice_status",
               "run_budget_variance_report", "trigger_databricks_workflow",
               "create_crm_update_dry_run", "execute_crm_update", "crm_lookup_customer",
               "billing_create_invoice_draft"}
  BY DEF Tools, Registry
<1>2. DOMAIN OutputsOf = {"get_employee_profile", "check_leave_balance", "get_invoice_status",
                          "run_budget_variance_report", "create_crm_update_dry_run",
                          "execute_crm_update", "crm_lookup_customer",
                          "billing_create_invoice_draft"}
  BY DEF OutputsOf
<1>3. DOMAIN Outputs = {"employee", "leave", "invoice", "budget", "budget_digits", "diff",
                        "diff_contact", "diff_card", "applied", "applied_digits", "customer",
                        "draft", "draft_large"}
  BY DEF Outputs
<1>4. Route(Registry["trigger_databricks_workflow"]) = "async"
  BY DEF Registry, Tool, Route
<1>5. \A t \in DOMAIN OutputsOf : OutputsOf[t] \subseteq DOMAIN Outputs
  BY <1>2, <1>3 DEF OutputsOf
<1> QED
  BY <1>1, <1>2, <1>3, <1>4, <1>5 DEF NoOutput

LEMMA ReturnsKnownStep ==
    TypeInv /\ ReturnsKnown /\ [ExchangeNext]_exchangeVars => ReturnsKnown'
<1> SUFFICES ASSUME TypeInv, ReturnsKnown, [ExchangeNext]_exchangeVars
             PROVE  ReturnsKnown'
  OBVIOUS
<1> USE DEF ReturnsKnown
<1>0. /\ pc \in [Calls -> Pc]
      /\ asked \in [Calls -> CallInput \cup {NoCall}]
      /\ verdict \in [Calls -> Outcome]
  BY DEF TypeInv, TypeOK
<1>1. ASSUME NEW c \in Calls, Refuse(c)
      PROVE  ReturnsKnown'
  BY <1>1 DEF Refuse, vars, callVars
<1>2. ASSUME NEW c \in Calls, Enter(c)
      PROVE  ReturnsKnown'
  <2>1. PICK input \in Inputs : Arrive(c, input)
    BY <1>2 DEF Enter
  <2>2. verdict'[c].decision \notin {"executed", "dry_run"}
    BY <1>0, <2>1, Refusals DEF Arrive, Decide
  <2>3. \A d \in Calls \ {c} : verdict'[d] = verdict[d] /\ asked'[d] = asked[d]
    BY <1>0, <2>1 DEF Arrive, Decide
  <2>4. output' = output
    BY <1>2 DEF Enter
  <2> QED
    BY <2>2, <2>3, <2>4
<1>3. ASSUME NEW c \in Calls, Handle(c)
      PROVE  ReturnsKnown'
  <2>1. /\ pc[c] \in {"sync", "dry_run", "execute"}
        /\ \E v : Finish(c, v)
    BY <1>3 DEF Handle, RunSync, RunDry, Execute
  <2>2. UNCHANGED asked /\ \A d \in Calls \ {c} : verdict'[d] = verdict[d]
    BY <1>0, <2>1 DEF Finish, Decide
  <2>3. asked[c].tool \in Tools /\ Route(Registry[asked[c].tool]) # "async"
    BY <2>1, NotRefused DEF TypeInv, PlacesKnow
  <2>4. asked[c].tool \in DOMAIN OutputsOf /\ OutputsOf[asked[c].tool] \subseteq DOMAIN Outputs
    BY <2>3, OutputsKnown
  <2>5. CASE verdict'[c].decision \in {"executed", "dry_run"}
    <3>1. PICK o \in OutputsOf[asked[c].tool] : output' = [output EXCEPT ![c] = o]
      BY <1>3, <2>5 DEF Handle, Returns
    <3> QED
      BY <2>2, <2>4, <3>1
  <2>6. CASE verdict'[c].decision \notin {"executed", "dry_run"}
    <3>1. output' = output
      BY <1>3, <2>6 DEF Handle, Returns
    <3> QED
      BY <2>2, <2>6, <3>1
  <2> QED
    BY <2>5, <2>6
<1>4. ASSUME NEW c \in Calls, Decline(c)
      PROVE  ReturnsKnown'
  <2>1. PICK v : Finish(c, v) /\ v.decision \notin {"executed", "dry_run"}
    BY <1>4 DEF Decline, RunAsync, GateDenies, Verdict
  <2> QED
    BY <1>0, <1>4, <2>1 DEF Decline, Finish, Decide
<1>5. ASSUME NEW c \in Calls, Proceed(c)
      PROVE  ReturnsKnown'
  BY <1>0, <1>5 DEF Proceed, GateOpens, Record, Abort, Decide, Verdict
<1>6. ASSUME NEW p \in Admins, Approve(p)
      PROVE  ReturnsKnown'
  BY <1>6 DEF Approve, ApproveRead, ApproveCommit, ApproveAbort, callVars
<1>7. CASE UNCHANGED exchangeVars
  BY <1>7 DEF exchangeVars, vars, callVars
<1> QED
  BY <1>1, <1>2, <1>3, <1>4, <1>5, <1>6, <1>7 DEF ExchangeNext

\* What is sent with 200 is the redaction of an output of the tool, for its caller's role.
LEMMA SentIsRedacted ==
    ASSUME EarnedInv, Answered, ReturnsKnown, NEW c \in Calls, HttpStatus(c) = 200
    PROVE  /\ output[c] \in DOMAIN Outputs
           /\ output[c] # NoOutput
           /\ \E raw \in BOOLEAN : /\ raw = FALSE
                                  /\ Redacted(c) = Redact(Outputs[output[c]],
                                                          SensitiveOf(asked[c].tool), raw)
<1>1. verdict[c].decision \in {"executed", "dry_run"}
  <2>1. pc[c] = "done" /\ verdict[c].decision # "error"
    BY DEF HttpStatus
  <2>2. verdict[c].decision \in {"denied", "failed", "executed", "dry_run", "queued"}
    BY <2>1 DEF Answered, Answers
  <2>3. StatusCode[verdict[c].decision] = 200
    BY <2>1 DEF HttpStatus
  <2> QED
    BY <2>1, <2>2, <2>3 DEF StatusCode
<1>2. /\ asked[c].tool \in DOMAIN OutputsOf
      /\ output[c] \in OutputsOf[asked[c].tool]
  BY <1>1 DEF ReturnsKnown
<1>3. asked[c].role \in Roles
  <2>1. Refusal(asked[c]) = NoVerdict
    BY <1>1 DEF EarnedInv, Earned, Succeeded
  <2> QED
    BY <2>1 DEF Refusal, NoVerdict, Verdict, Evaluate
<1>4. Redacted(c) = RedactOutput(asked[c].tool, asked[c].role, output[c])
  BY <1>2, <1>3 DEF Redacted, Redactions
<1>5. (asked[c].role \in RawPiiRoles(asked[c].tool)) = FALSE
  BY DEF RawPiiRoles
<1>6. Redacted(c) = Redact(Outputs[output[c]], SensitiveOf(asked[c].tool), FALSE)
  BY <1>4, <1>5 DEF RedactOutput
<1>7. \E raw \in BOOLEAN : /\ raw = FALSE
                            /\ Redacted(c) = Redact(Outputs[output[c]],
                                                    SensitiveOf(asked[c].tool), raw)
  <2> WITNESS FALSE \in BOOLEAN
  <2> QED
    BY <1>6
<1> QED
  BY <1>2, <1>7, OutputsKnown

\* What holds of an exchange at every step.
LEMMA ReplyInv == ExchangeSpec => [](EarnedInv /\ Answered /\ ReturnsKnown)
<1>1. Init => EarnedInv /\ Answered
  BY TypeInit DEF Init, EarnedInv, Earned, Answered, NoVerdict, Verdict, Succeeded
<1>2. ExchangeInit => Init /\ ReturnsKnown
  BY DEF ExchangeInit, Init, ReturnsKnown, NoVerdict, Verdict
<1>3. EarnedInv /\ Answered /\ [Next]_vars => (EarnedInv /\ Answered)'
  BY EarnedStep, AnsweredStep DEF EarnedInv
<1>4. EarnedInv => TypeInv
  BY DEF EarnedInv
<1> QED
  BY <1>1, <1>2, <1>3, <1>4, ExchangeIsCalls, ReturnsKnownStep, PTL DEF ExchangeSpec

\* For any calls, tokens and outputs: nobody who is answered is shown a declared field of
\* the tool, or anything personal that the patterns know, however deep it was.
THEOREM NothingPersonalIsSent == ExchangeSpec => []NoPiiLeaves
<1>1. ASSUME EarnedInv, Answered, ReturnsKnown
      PROVE  NoPiiLeaves
  <2> SUFFICES ASSUME NEW c \in Calls, HttpStatus(c) = 200
               PROVE  Clean(Sent(c), SensitiveOf(asked[c].tool))
    BY DEF NoPiiLeaves
  <2>1. output[c] \in DOMAIN Outputs
    BY <1>1, SentIsRedacted
  <2>2. IsValue(Outputs[output[c]])
    BY <2>1, RawOutputs DEF IsRaw
  <2>3. PICK raw \in BOOLEAN :
          /\ raw = FALSE
          /\ Redacted(c) = Redact(Outputs[output[c]], SensitiveOf(asked[c].tool), raw)
    BY <1>1, SentIsRedacted
  <2>4. Clean(Redact(Outputs[output[c]], SensitiveOf(asked[c].tool), raw).data,
              SensitiveOf(asked[c].tool))
    BY <2>2, <2>3, ValuesAreRedacted
  <2> QED
    BY <2>3, <2>4 DEF Sent
<1> QED
  BY <1>1, ReplyInv, PTL

\* For any calls, tokens and outputs: the audit trail says "redacted" of exactly the
\* replies that are, and what holds nothing personal and no digits is sent as it was.
THEOREM RedactionsAreReported == ExchangeSpec => []RedactionIsReported
<1>1. ASSUME EarnedInv, Answered, ReturnsKnown
      PROVE  RedactionIsReported
  <2> SUFFICES ASSUME NEW c \in Calls, HttpStatus(c) = 200
               PROVE  /\ RedactionStatus(c) = "redacted" <=> \E x \in Sent(c) : Masked(x.leaf)
                      /\ {x \in Outputs[output[c]] :
                            /\ x.key \notin SensitiveOf(asked[c].tool)
                            /\ x.leaf \in {TextLeaf({}), NumberLeaf}} \subseteq Sent(c)
    BY DEF RedactionIsReported, Masked
  <2>1. output[c] \in DOMAIN Outputs /\ output[c] # NoOutput
    BY <1>1, SentIsRedacted
  <2>2. PICK raw \in BOOLEAN :
          /\ raw = FALSE
          /\ Redacted(c) = Redact(Outputs[output[c]], SensitiveOf(asked[c].tool), raw)
    BY <1>1, SentIsRedacted
  <2>3. /\ RedactionStatus(c) = Status(Redacted(c))
        /\ Sent(c) = Redacted(c).data
    BY <2>1 DEF RedactionStatus, Sent
  <2> DEFINE value == Outputs[output[c]]
  <2>4. IsRaw(value)
    BY <2>1, RawOutputs
  <2>5. Redacted(c) = Redact(value, SensitiveOf(asked[c].tool), raw)
    BY <2>2
  <2> HIDE DEF value
  <2>6. /\ {x \in value : /\ x.key \notin SensitiveOf(asked[c].tool)
                          /\ x.leaf \in {TextLeaf({}), NumberLeaf}} \subseteq Sent(c)
        /\ Status(Redacted(c)) = "none" => Sent(c) = value
        /\ Status(Redacted(c)) = "redacted" => \E x \in Sent(c) : Masked(x.leaf)
    <3>1. IsValue(value)
      BY <2>4 DEF IsRaw
    <3> QED
      BY <2>3, <2>5, <3>1, ValuesAreRedacted
  <2>7. Status(Redacted(c)) \in {"none", "redacted"}
    BY DEF Status
  <2> QED
    BY <2>3, <2>6, <2>7, <2>4 DEF IsRaw, value
<1> QED
  BY <1>1, ReplyInv, PTL
=============================================================================
