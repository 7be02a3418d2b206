-------------------------- MODULE LocalQueueProofs --------------------------
(***************************************************************************)
(* Theorems about LocalQueue, for any number of workers and messages, any  *)
(* batch size and any delivery limit.  Those about claims need that no two *)
(* receives read one row; type correctness does not.                       *)
(***************************************************************************)
EXTENDS LocalQueue, FiniteSetTheorems, TLAPS

\* The database locks the rows that a receive reads, or there is only one worker, which
\* is what SQLite, the default database, can serve.
OneReaderPerRow == RowLocks \/ \A v, w \in Workers : v = w

\* The rows of a table are typed, and their ids are positive.
LEMMA TableRows ==
    ASSUME NEW T \in Seq(Row), NEW i \in DOMAIN T
    PROVE  T[i] \in Row /\ i \in Nat \ {0}
OBVIOUS

\* Replacing one row leaves a table with the same ids.
LEMMA UpdateRow ==
    ASSUME NEW T \in Seq(Row), NEW i \in DOMAIN T, NEW r \in Row
    PROVE  /\ [T EXCEPT ![i] = r] \in Seq(Row)
           /\ DOMAIN [T EXCEPT ![i] = r] = DOMAIN T
OBVIOUS

\* Inserting a row keeps the others under their ids.
LEMMA InsertRow ==
    ASSUME NEW T \in Seq(Row), NEW r \in Row
    PROVE  /\ Append(T, r) \in Seq(Row)
           /\ DOMAIN T \subseteq DOMAIN Append(T, r)
           /\ \A i \in DOMAIN T : Append(T, r)[i] = T[i]
           /\ \A i \in DOMAIN Append(T, r) : i \notin DOMAIN T => Append(T, r)[i] = r
OBVIOUS

-----------------------------------------------------------------------------
(* Type correctness. *)

\* Every handle in memory is a row's id: what EXCEPT updates exists.
HandlesExist ==
    \A w \in Workers : \A m \in held[w] \cup reading[w] : m.id \in DOMAIN rows

TypeInv == QueueTypeOK /\ HandlesExist

\* What the commit of receive writes: same ids, each selected row locked under
\* the count some selected message carries plus one, the others untouched.
LEMMA ReceiveCommitRows ==
    ASSUME TypeInv, NEW w \in Workers, ReceiveCommit(w)
    PROVE  /\ rows' \in Seq(Row)
           /\ DOMAIN rows' = DOMAIN rows
           /\ \A i \in DOMAIN rows :
                \/ /\ \A m \in reading[w] : m.id # i
                   /\ rows'[i] = rows[i]
                \/ \E m \in reading[w] :
                     /\ m.id = i
                     /\ rows'[i] = Claimed(rows[i], m)
<1> DEFINE Chosen(i) == CHOOSE m \in reading[w] : m.id = i
           New(i) == IF \E m \in reading[w] : m.id = i
                     THEN Claimed(rows[i], Chosen(i)) ELSE rows[i]
<1>1. rows' = [i \in DOMAIN rows |-> New(i)]
  BY DEF ReceiveCommit
<1>2. \A i \in DOMAIN rows : rows[i] \in Row
  BY TableRows DEF TypeInv, QueueTypeOK
<1>3. reading[w] \subseteq Message
  BY DEF TypeInv, QueueTypeOK
<1>4. \A i \in DOMAIN rows : (\E m \in reading[w] : m.id = i) =>
         Chosen(i) \in reading[w] /\ Chosen(i).id = i
  OBVIOUS
<1> HIDE DEF Chosen
<1>5. \A i \in DOMAIN rows :
         \/ (\A m \in reading[w] : m.id # i) /\ New(i) = rows[i]
         \/ \E m \in reading[w] : m.id = i /\ New(i) = Claimed(rows[i], m)
  BY <1>4
<1>6. \A i \in DOMAIN rows : New(i) \in Row
  <2>1. \A i \in DOMAIN rows : \A m \in reading[w] : Claimed(rows[i], m) \in Row
    BY <1>2, <1>3 DEF Claimed, Row, Message, Status
  <2> QED
    BY <1>2, <1>5, <2>1
<1> HIDE DEF New
<1>7. rows' \in Seq(Row) /\ DOMAIN rows' = DOMAIN rows
  BY <1>1, <1>6 DEF TypeInv, QueueTypeOK
<1>8. \A i \in DOMAIN rows : rows'[i] = New(i)
  BY <1>1
<1> QED
  BY <1>5, <1>7, <1>8

\* A step that rewrites one row and releases one claim keeps the types.
LEMMA SettleType ==
    ASSUME TypeInv, NEW w \in Workers, NEW m \in held[w], Settle(w, m)
    PROVE  TypeInv'
<1>1. PICK r \in Row : rows' = [rows EXCEPT ![m.id] = r]
  <2>1. m.id \in DOMAIN rows /\ rows[m.id] \in Row
    BY TableRows DEF TypeInv, QueueTypeOK, HandlesExist
  <2> QED
    BY <2>1 DEF Settle, Complete, Abandon, DeadLetter, Row, Status
<1>2. rows' \in Seq(Row) /\ DOMAIN rows' = DOMAIN rows
  BY <1>1, UpdateRow DEF TypeInv, QueueTypeOK, HandlesExist
<1>3. reading' = reading /\ held' = [held EXCEPT ![w] = @ \ {m}]
  BY DEF Settle, Complete, Abandon, DeadLetter, Unhold
<1> QED
  BY <1>2, <1>3 DEF TypeInv, QueueTypeOK, HandlesExist

\* The empty queue is typed.
LEMMA TypeInit == QueueInit => TypeInv
  BY DEF QueueInit, TypeInv, QueueTypeOK, HandlesExist

\* Every operation of the queue keeps the types.
LEMMA TypeStep == TypeInv /\ [QueueNext]_queueVars => TypeInv'
<1> SUFFICES ASSUME TypeInv, [QueueNext]_queueVars
             PROVE  TypeInv'
  OBVIOUS
<1>1. ASSUME NEW b \in Jobs, Publish(b)
      PROVE  TypeInv'
  <2> DEFINE r == [body |-> b, status |-> "available", count |-> 0, visible |-> TRUE]
  <2>1. r \in Row
    BY DEF Row, Status
  <2>2. rows' = Append(rows, r) /\ UNCHANGED <<reading, held>>
    BY <1>1 DEF Publish
  <2> QED
    BY <2>1, <2>2, InsertRow DEF TypeInv, QueueTypeOK, HandlesExist
<1>2. ASSUME NEW w \in Workers, ReceiveSelect(w)
      PROVE  TypeInv'
  <2> DEFINE S == FirstOf(Candidates(w))
             read == {[id |-> i, count |-> rows[i].count] : i \in S}
  <2>1. S \subseteq DOMAIN rows
    BY DEF FirstOf, Candidates
  <2>2. \A i \in S : i \in Nat \ {0} /\ rows[i].count \in Nat
    BY <2>1, TableRows DEF TypeInv, QueueTypeOK, Row
  <2>3. read \in SUBSET Message /\ \A m \in read : m.id \in DOMAIN rows
    BY <2>1, <2>2 DEF Message
  <2>4. reading' = [reading EXCEPT ![w] = read] /\ UNCHANGED <<rows, held>>
    BY <1>2 DEF ReceiveSelect
  <2> QED
    BY <2>3, <2>4 DEF TypeInv, QueueTypeOK, HandlesExist
<1>3. ASSUME NEW w \in Workers, ReceiveCommit(w)
      PROVE  TypeInv'
  <2> DEFINE got == {[m EXCEPT !.count = @ + 1] : m \in reading[w]}
  <2>1. got \in SUBSET Message /\ \A m \in got : m.id \in DOMAIN rows
    BY DEF TypeInv, QueueTypeOK, HandlesExist, Message
  <2>2. /\ held' = [held EXCEPT ![w] = @ \cup got]
        /\ reading' = [reading EXCEPT ![w] = {}]
    BY <1>3 DEF ReceiveCommit
  <2>3. rows' \in Seq(Row) /\ DOMAIN rows' = DOMAIN rows
    BY <1>3, ReceiveCommitRows
  <2> QED
    BY <2>1, <2>2, <2>3 DEF TypeInv, QueueTypeOK, HandlesExist
<1>4. ASSUME NEW w \in Workers, NEW m \in held[w], Settle(w, m)
      PROVE  TypeInv'
  BY <1>4, SettleType
<1>5. ASSUME NEW w \in Workers, Drop(w)
      PROVE  TypeInv'
  BY <1>5 DEF Drop, TypeInv, QueueTypeOK, HandlesExist
<1>6. ASSUME NEW i \in DOMAIN rows, LockLapse(i)
      PROVE  TypeInv'
  <2> DEFINE r == [rows[i] EXCEPT !.visible = TRUE]
  <2>1. r \in Row
    BY TableRows DEF TypeInv, QueueTypeOK, Row
  <2>2. rows' = [rows EXCEPT ![i] = r] /\ UNCHANGED <<reading, held>>
    BY <1>6 DEF LockLapse
  <2> QED
    BY <2>1, <2>2, UpdateRow DEF TypeInv, QueueTypeOK, HandlesExist
<1>7. CASE UNCHANGED queueVars
  BY <1>7 DEF queueVars, TypeInv, QueueTypeOK, HandlesExist
<1> QED
  BY <1>1, <1>2, <1>3, <1>4, <1>5, <1>6, <1>7 DEF QueueNext

\* The queue's variables keep their types, on either database.
THEOREM QueueTypeCorrect == QueueSpec => []QueueTypeOK
<1>1. TypeInv => QueueTypeOK
  BY DEF TypeInv
<1> QED
  BY <1>1, TypeInit, TypeStep, PTL DEF QueueSpec

-----------------------------------------------------------------------------
(***************************************************************************)
(* Exclusive claims.  SingleHolder and DeliveryBudget are not inductive:   *)
(* the commit of receive writes what its SELECT read, so what an open      *)
(* receive has read must still be true of the table, and no two may have   *)
(* read one row.  That is what row locks buy, or having one worker.        *)
(***************************************************************************)
ReadingIsFresh ==
    \A w \in Workers : \A m \in reading[w] :
        /\ m.id \in DOMAIN rows
        /\ rows[m.id].status = "available"
        /\ rows[m.id].count = m.count

ReadingIsDisjoint ==
    \A v, w \in Workers : \A m \in reading[v], n \in reading[w] :
        m.id = n.id => v = w

HeldIsDisjoint ==
    \A v, w \in Workers : \A m \in held[v], n \in held[w] : m.id = n.id => v = w

LockInv ==
    /\ TypeInv
    /\ ReadingIsFresh
    /\ ReadingIsDisjoint
    /\ ClaimsMatchRows
    /\ HeldIsDisjoint
    /\ DeliveryBudget

\* The invariant gives the three properties; a claim is unique as a record
\* because both holders were told the count that is in the row.
LEMMA LockInvImplies == LockInv => SingleHolder /\ ClaimsMatchRows /\ DeliveryBudget
<1> SUFFICES ASSUME LockInv,
                    NEW v \in Workers, NEW w \in Workers,
                    NEW m \in held[v], NEW n \in held[w], m.id = n.id
             PROVE  v = w /\ m = n
  BY DEF LockInv, SingleHolder
<1>1. v = w
  BY DEF LockInv, HeldIsDisjoint
<1>2. m.count = n.count
  BY DEF LockInv, ClaimsMatchRows
<1>3. m \in Message /\ n \in Message
  BY DEF LockInv, TypeInv, QueueTypeOK
<1> QED
  BY <1>1, <1>2, <1>3 DEF Message

\* The empty queue satisfies the invariant.
LEMMA LockInit == QueueInit => LockInv
<1> SUFFICES ASSUME QueueInit PROVE LockInv
  OBVIOUS
<1>1. TypeInv
  BY TypeInit
<1>2. /\ rows = <<>>
      /\ \A w \in Workers : reading[w] = {} /\ held[w] = {}
  BY DEF QueueInit
<1> QED
  BY <1>1, <1>2 DEF LockInv, ReadingIsFresh, ReadingIsDisjoint, ClaimsMatchRows,
                    HeldIsDisjoint, DeliveryBudget

\* The part of the invariant beside the types, over primed variables.
LockRest == ReadingIsFresh /\ ReadingIsDisjoint /\ ClaimsMatchRows /\ HeldIsDisjoint
            /\ DeliveryBudget

\* SELECT ... SKIP LOCKED, or a worker by itself: the rows read are available and nobody
\* else has them.
LEMMA SelectLocks ==
    ASSUME LockInv, OneReaderPerRow, NEW w \in Workers, ReceiveSelect(w)
    PROVE  LockRest'
<1> DEFINE S == FirstOf(Candidates(w))
           read == {[id |-> i, count |-> rows[i].count] : i \in S}
<1>1. reading' = [reading EXCEPT ![w] = read] /\ rows' = rows /\ held' = held
  BY DEF ReceiveSelect
<1>2. \A i \in S : /\ i \in DOMAIN rows
                   /\ rows[i].status = "available"
                   /\ \A v \in Workers \ {w} : \A m \in reading[v] : m.id # i
  BY DEF FirstOf, Candidates, Receivable, SkipLocked, OneReaderPerRow
<1>3. \A m \in read : /\ m.id \in S
                      /\ rows[m.id].count = m.count
  OBVIOUS
<1> HIDE DEF S, read
<1>4. /\ reading'[w] = read
      /\ \A v \in Workers \ {w} : reading'[v] = reading[v]
  BY <1>1 DEF LockInv, TypeInv, QueueTypeOK
<1>5. ReadingIsFresh'
  BY <1>1, <1>2, <1>3, <1>4 DEF LockInv, ReadingIsFresh
<1>6. ReadingIsDisjoint'
  BY <1>2, <1>3, <1>4 DEF LockInv, ReadingIsDisjoint
<1> QED
  BY <1>1, <1>5, <1>6 DEF LockInv, LockRest, ClaimsMatchRows, HeldIsDisjoint,
                          DeliveryBudget

\* The commit of receive turns what was read into claims that match the rows.
LEMMA CommitLocks ==
    ASSUME LockInv, NEW w \in Workers, ReceiveCommit(w)
    PROVE  LockRest'
<1> DEFINE got == {[m EXCEPT !.count = @ + 1] : m \in reading[w]}
<1>1. /\ held'[w] = held[w] \cup got
      /\ reading'[w] = {}
      /\ \A v \in Workers \ {w} : held'[v] = held[v] /\ reading'[v] = reading[v]
  BY DEF ReceiveCommit, LockInv, TypeInv, QueueTypeOK
<1>2. \A n \in got : \E m \in reading[w] : n.id = m.id /\ n.count = m.count + 1
  BY DEF LockInv, TypeInv, QueueTypeOK, Message
<1> HIDE DEF got
<1>3. /\ DOMAIN rows' = DOMAIN rows
      /\ \A i \in DOMAIN rows :
           \/ /\ \A m \in reading[w] : m.id # i
              /\ rows'[i] = rows[i]
           \/ \E m \in reading[w] : m.id = i /\ rows'[i] = Claimed(rows[i], m)
  BY ReceiveCommitRows DEF LockInv
\* The count written is the one in the table plus one, for each selected row.
<1>4. \A m \in reading[w] :
         /\ m.id \in DOMAIN rows
         /\ rows[m.id].status = "available"
         /\ rows[m.id].count = m.count
         /\ rows'[m.id].status = "locked"
         /\ rows'[m.id].count = m.count + 1
  BY <1>3 DEF LockInv, ReadingIsFresh, Claimed
<1>5. ReadingIsFresh'
  <2> SUFFICES ASSUME NEW v \in Workers, NEW m \in reading'[v]
               PROVE  /\ m.id \in DOMAIN rows'
                      /\ rows'[m.id].status = "available"
                      /\ rows'[m.id].count = m.count
    BY DEF ReadingIsFresh
  <2>1. v # w /\ m \in reading[v]
    BY <1>1
  <2>2. \A n \in reading[w] : n.id # m.id
    BY <2>1 DEF LockInv, ReadingIsDisjoint
  <2> QED
    BY <1>3, <2>1, <2>2 DEF LockInv, ReadingIsFresh
<1>6. ReadingIsDisjoint'
  BY <1>1 DEF LockInv, ReadingIsDisjoint
\* What is held is locked, what is read is available: no row is both.
<1>7. \A v \in Workers : \A n \in held[v] : \A m \in reading[w] : n.id # m.id
  BY <1>4 DEF LockInv, ClaimsMatchRows
<1>8. ClaimsMatchRows'
  <2> SUFFICES ASSUME NEW v \in Workers, NEW n \in held'[v]
               PROVE  /\ n.id \in DOMAIN rows'
                      /\ rows'[n.id].status = "locked"
                      /\ rows'[n.id].count = n.count
    BY DEF ClaimsMatchRows
  <2>1. CASE n \in held[v]
    BY <1>3, <1>7, <2>1 DEF LockInv, ClaimsMatchRows
  <2>2. CASE n \in got
    BY <1>2, <1>3, <1>4, <2>2
  <2> QED
    BY <1>1, <2>1, <2>2
<1>9. HeldIsDisjoint'
  <2> SUFFICES ASSUME NEW v \in Workers, NEW u \in Workers,
                      NEW m \in held'[v], NEW n \in held'[u], m.id = n.id
               PROVE  v = u
    BY DEF HeldIsDisjoint
  <2>1. CASE m \in held[v] /\ n \in held[u]
    BY <2>1 DEF LockInv, HeldIsDisjoint
  <2>2. CASE m \notin held[v] /\ n \notin held[u]
    BY <1>1, <2>2
  <2>3. CASE m \notin held[v] /\ n \in held[u]
    BY <1>1, <1>2, <1>7, <2>3
  <2>4. CASE m \in held[v] /\ n \notin held[u]
    BY <1>1, <1>2, <1>7, <2>4
  <2> QED
    BY <2>1, <2>2, <2>3, <2>4
<1>10. DeliveryBudget'
  <2> SUFFICES ASSUME NEW i \in DOMAIN rows'
               PROVE  /\ rows'[i].count <= MaxDelivery
                      /\ rows'[i].status = "available" => rows'[i].count < MaxDelivery
    BY DEF DeliveryBudget
  <2>1. CASE rows'[i] = rows[i]
    BY <1>3, <2>1 DEF LockInv, DeliveryBudget
  <2>2. CASE \E m \in reading[w] : m.id = i
    <3>1. PICK m \in reading[w] : m.id = i
      BY <2>2
    <3>2. rows[i].count < MaxDelivery /\ rows[i].count = m.count
      BY <1>4, <3>1 DEF LockInv, DeliveryBudget
    <3>3. m.count \in Nat /\ MaxDelivery \in Nat
      BY QueueAssumption DEF LockInv, TypeInv, QueueTypeOK, Message
    <3> QED
      BY <1>4, <3>1, <3>2, <3>3
  <2> QED
    BY <1>3, <2>1, <2>2
<1> QED
  BY <1>5, <1>6, <1>8, <1>9, <1>10 DEF LockRest

\* Settling one message disturbs no other claim and no open receive.
LEMMA SettleLocks ==
    ASSUME LockInv, NEW w \in Workers, NEW m \in held[w], Settle(w, m)
    PROVE  LockRest'
<1>1. /\ m.id \in DOMAIN rows
      /\ rows[m.id].status = "locked"
  BY DEF LockInv, ClaimsMatchRows
<1>2. /\ reading' = reading
      /\ held'[w] = held[w] \ {m}
      /\ \A v \in Workers \ {w} : held'[v] = held[v]
  BY DEF Settle, Complete, Abandon, DeadLetter, Unhold, LockInv, TypeInv, QueueTypeOK
<1>3. /\ DOMAIN rows' = DOMAIN rows
      /\ \A i \in DOMAIN rows \ {m.id} : rows'[i] = rows[i]
  BY DEF Settle, Complete, Abandon, DeadLetter
<1>4. /\ rows'[m.id].count = rows[m.id].count
      /\ rows'[m.id].status = "available" => rows[m.id].count < MaxDelivery
  <2>1. rows[m.id] \in Row
    BY <1>1, TableRows DEF LockInv, TypeInv, QueueTypeOK
  <2> QED
    BY <1>1, <2>1 DEF Settle, Complete, Abandon, DeadLetter, Row
<1>5. \A v \in Workers : \A n \in held'[v] : n \in held[v] /\ n.id # m.id
  <2> SUFFICES ASSUME NEW v \in Workers, NEW n \in held'[v]
               PROVE  n \in held[v] /\ n.id # m.id
    OBVIOUS
  <2>1. n \in held[v] /\ (v = w => n # m)
    BY <1>2
  <2>2. SingleHolder
    BY LockInvImplies
  <2> QED
    BY <2>1, <2>2 DEF SingleHolder
<1>6. ReadingIsFresh'
  BY <1>1, <1>2, <1>3 DEF LockInv, ReadingIsFresh
<1>7. ReadingIsDisjoint'
  BY <1>2 DEF LockInv, ReadingIsDisjoint
<1>8. ClaimsMatchRows'
  BY <1>3, <1>5 DEF LockInv, ClaimsMatchRows
<1>9. HeldIsDisjoint'
  BY <1>5 DEF LockInv, HeldIsDisjoint
<1>10. DeliveryBudget'
  BY <1>1, <1>3, <1>4 DEF LockInv, DeliveryBudget
<1> QED
  BY <1>6, <1>7, <1>8, <1>9, <1>10 DEF LockRest

\* Every operation keeps the invariant, given one reader per row.
LEMMA LockStep == OneReaderPerRow /\ LockInv /\ [QueueNext]_queueVars => LockInv'
<1> SUFFICES ASSUME OneReaderPerRow, LockInv, [QueueNext]_queueVars
             PROVE  LockInv'
  OBVIOUS
<1>1. TypeInv'
  BY TypeStep DEF LockInv
<1>2. ASSUME NEW b \in Jobs, Publish(b)
      PROVE  LockRest'
  <2> DEFINE r == [body |-> b, status |-> "available", count |-> 0, visible |-> TRUE]
  <2>1. r \in Row
    BY DEF Row, Status
  <2>2. /\ DOMAIN rows \subseteq DOMAIN rows'
        /\ \A i \in DOMAIN rows : rows'[i] = rows[i]
        /\ \A i \in DOMAIN rows' : i \notin DOMAIN rows => rows'[i] = r
    BY <1>2, <2>1, InsertRow DEF Publish, LockInv, TypeInv, QueueTypeOK
  <2>3. reading' = reading /\ held' = held
    BY <1>2 DEF Publish
  <2>4. DeliveryBudget'
    BY <2>2, QueueAssumption DEF LockInv, DeliveryBudget
  <2> QED
    BY <2>2, <2>3, <2>4 DEF LockInv, LockRest, ReadingIsFresh, ReadingIsDisjoint,
                            ClaimsMatchRows, HeldIsDisjoint
<1>3. ASSUME NEW w \in Workers, ReceiveSelect(w)
      PROVE  LockRest'
  BY <1>3, SelectLocks
<1>4. ASSUME NEW w \in Workers, ReceiveCommit(w)
      PROVE  LockRest'
  BY <1>4, CommitLocks
<1>5. ASSUME NEW w \in Workers, NEW m \in held[w], Settle(w, m)
      PROVE  LockRest'
  BY <1>5, SettleLocks
<1>6. ASSUME NEW w \in Workers, Drop(w)
      PROVE  LockRest'
  <2>1. /\ rows' = rows
        /\ \A v \in Workers : /\ held'[v] \subseteq held[v]
                              /\ reading'[v] \subseteq reading[v]
    BY <1>6 DEF Drop, LockInv, TypeInv, QueueTypeOK
  <2> QED
    BY <2>1 DEF LockInv, LockRest, ReadingIsFresh, ReadingIsDisjoint, ClaimsMatchRows,
                HeldIsDisjoint, DeliveryBudget
<1>7. ASSUME NEW i \in DOMAIN rows, LockLapse(i)
      PROVE  LockRest'
  <2>1. rows[i] \in Row
    BY TableRows DEF LockInv, TypeInv, QueueTypeOK
  <2>2. /\ DOMAIN rows' = DOMAIN rows
        /\ \A k \in DOMAIN rows : /\ rows'[k].status = rows[k].status
                                  /\ rows'[k].count = rows[k].count
        /\ reading' = reading /\ held' = held
    BY <1>7, <2>1 DEF LockLapse, Row
  <2> QED
    BY <2>2 DEF LockInv, LockRest, ReadingIsFresh, ReadingIsDisjoint, ClaimsMatchRows,
                HeldIsDisjoint, DeliveryBudget
<1>8. ASSUME UNCHANGED queueVars
      PROVE  LockRest'
  <2>1. rows' = rows /\ reading' = reading /\ held' = held
    BY <1>8 DEF queueVars
  <2> QED
    BY <2>1 DEF LockInv, LockRest, ReadingIsFresh, ReadingIsDisjoint, ClaimsMatchRows,
                HeldIsDisjoint, DeliveryBudget
<1>9. LockRest'
  BY <1>2, <1>3, <1>4, <1>5, <1>6, <1>7, <1>8 DEF QueueNext
<1> QED
  BY <1>1, <1>9 DEF LockInv, LockRest

\* With row locks or a single worker, receive claims atomically: no message is ever
\* in two hands, and the count a worker was told is the one abandon will judge by.
THEOREM AtomicClaims ==
    ASSUME OneReaderPerRow
    PROVE  QueueSpec => [](SingleHolder /\ ClaimsMatchRows)
<1>1. LockInv => SingleHolder /\ ClaimsMatchRows
  BY LockInvImplies
<1>2. QueueInit => LockInv
  BY LockInit
<1>3. LockInv /\ [QueueNext]_queueVars => LockInv'
  BY LockStep
<1> QED
  BY <1>1, <1>2, <1>3, PTL DEF QueueSpec

\* With row locks or a single worker, no message is handed out more than MaxDelivery times.
THEOREM DeliveriesAreBounded ==
    ASSUME OneReaderPerRow
    PROVE  QueueSpec => []DeliveryBudget
<1>1. LockInv => DeliveryBudget
  BY DEF LockInv
<1>2. QueueInit => LockInv
  BY LockInit
<1>3. LockInv /\ [QueueNext]_queueVars => LockInv'
  BY LockStep
<1> QED
  BY <1>1, <1>2, <1>3, PTL DEF QueueSpec

-----------------------------------------------------------------------------
(* What a step may never do to a row. *)

RowKept(i) ==
    /\ i \in DOMAIN rows'
    /\ rows'[i].body = rows[i].body
    /\ rows[i].status \in {"completed", "dead_letter"} =>
         rows'[i].status = rows[i].status

\* No operation reopens a settled row, or changes what a handle stands for.
LEMMA KeptStep ==
    ASSUME LockInv, [QueueNext]_queueVars, NEW i \in DOMAIN rows
    PROVE  RowKept(i)
<1>1. rows \in Seq(Row) /\ rows[i] \in Row
  BY TableRows DEF LockInv, TypeInv, QueueTypeOK
<1>2. ASSUME NEW b \in Jobs, Publish(b)
      PROVE  RowKept(i)
  <2>1. [body |-> b, status |-> "available", count |-> 0, visible |-> TRUE] \in Row
    BY DEF Row, Status
  <2> QED
    BY <1>1, <1>2, <2>1, InsertRow DEF Publish, RowKept
<1>3. ASSUME NEW w \in Workers, ReceiveCommit(w)
      PROVE  RowKept(i)
  <2>1. /\ DOMAIN rows' = DOMAIN rows
        /\ \/ rows'[i] = rows[i]
           \/ \E m \in reading[w] : m.id = i /\ rows'[i] = Claimed(rows[i], m)
    BY <1>3, ReceiveCommitRows DEF LockInv
  <2>2. \A m \in reading[w] : m.id = i => rows[i].status = "available"
    BY DEF LockInv, ReadingIsFresh
  <2> QED
    BY <2>1, <2>2 DEF Claimed, RowKept
<1>4. ASSUME NEW w \in Workers, NEW m \in held[w], Settle(w, m)
      PROVE  RowKept(i)
  <2>1. m.id \in DOMAIN rows /\ rows[m.id].status = "locked"
    BY DEF LockInv, ClaimsMatchRows
  <2>2. DOMAIN rows' = DOMAIN rows /\ (i # m.id => rows'[i] = rows[i])
    BY <1>4 DEF Settle, Complete, Abandon, DeadLetter
  <2>3. i = m.id => rows'[i].body = rows[i].body
    BY <1>1, <1>4 DEF Settle, Complete, Abandon, DeadLetter, Row
  <2> QED
    BY <2>1, <2>2, <2>3 DEF RowKept
<1>5. ASSUME NEW k \in DOMAIN rows, LockLapse(k)
      PROVE  RowKept(i)
  BY <1>1, <1>5 DEF LockLapse, RowKept, Row
<1>6. ASSUME rows' = rows
      PROVE  RowKept(i)
  BY <1>6 DEF RowKept
<1> QED
  BY <1>2, <1>3, <1>4, <1>5, <1>6
     DEF QueueNext, ReceiveSelect, Drop, queueVars

\* With row locks or a single worker, a settled message stays settled whatever the
\* workers do, and the row of a handle is that message for ever.
THEOREM SettledStaysSettled ==
    ASSUME OneReaderPerRow
    PROVE  QueueSpec => SettledIsFinal
<1>1. QueueInit => LockInv
  BY LockInit
<1>2. LockInv /\ [QueueNext]_queueVars => LockInv'
  BY LockStep
<1>3. LockInv /\ [QueueNext]_queueVars =>
        [\A i \in DOMAIN rows :
           /\ i \in DOMAIN rows'
           /\ rows'[i].body = rows[i].body
           /\ rows[i].status \in {"completed", "dead_letter"} =>
                rows'[i].status = rows[i].status]_queueVars
  BY KeptStep DEF RowKept
<1> QED
  BY <1>1, <1>2, <1>3, PTL DEF QueueSpec, SettledIsFinal

-----------------------------------------------------------------------------
(***************************************************************************)
(* The table implements the abstract queue.  The mapping names a message   *)
(* by its body, so each body has one row; and Take is bounded, so an open  *)
(* receive has read no more than BatchSize rows.                           *)
(***************************************************************************)
UniqueBodies ==
    \A i, j \in DOMAIN rows : rows[i].body = rows[j].body => i = j

BatchesAreSmall ==
    \A w \in Workers :
        IsFiniteSet(reading[w]) /\ Cardinality(reading[w]) <= BatchSize

MapInv == LockInv /\ UniqueBodies /\ BatchesAreSmall

\* A set that maps one to one into a small one is small.
LEMMA NoMore ==
    ASSUME NEW S, NEW T, IsFiniteSet(T), NEW n \in Nat, Cardinality(T) <= n,
           NEW f \in [S -> T], \A x, y \in S : f[x] = f[y] => x = y
    PROVE  IsFiniteSet(S) /\ Cardinality(S) <= n
<1>1. f \in Injection(S, T)
  BY DEF Injection, IsInjective
<1>2. IsFiniteSet(S) /\ Cardinality(S) <= Cardinality(T)
  BY <1>1, FS_Injection
<1>3. Cardinality(S) \in Nat /\ Cardinality(T) \in Nat
  BY <1>2, FS_CardinalityType
<1> QED
  BY <1>2, <1>3

\* ORDER BY id LIMIT max_messages selects at most that many rows: each of them has
\* its own number of rows before it, and that number is below the limit.
LEMMA FirstAreFew ==
    ASSUME NEW S \in SUBSET Nat, IsFiniteSet(S)
    PROVE  IsFiniteSet(FirstOf(S)) /\ Cardinality(FirstOf(S)) <= BatchSize
<1> DEFINE Before(i) == {j \in S : j < i}
           f == [i \in FirstOf(S) |-> Cardinality(Before(i))]
<1>1. \A i \in S : IsFiniteSet(Before(i)) /\ Cardinality(Before(i)) \in Nat
  BY FS_Subset, FS_CardinalityType
<1>2. \A i \in FirstOf(S) : i \in S /\ Cardinality(Before(i)) < BatchSize
  BY DEF FirstOf
<1>3. ASSUME NEW i \in S, NEW k \in S, i < k
      PROVE  Cardinality(Before(i)) # Cardinality(Before(k))
  <2>1. i \in Nat /\ k \in Nat /\ \A j \in S : j \in Nat
    OBVIOUS
  <2>2. Before(i) \subseteq Before(k)
    <3>1. \A j \in S : j < i => j < k
      BY <1>3, <2>1
    <3> QED
      BY <3>1, Zenon
  <2>3. i \in Before(k) /\ i \notin Before(i)
    BY <1>3, <2>1
  <2>4. IsFiniteSet(Before(k))
    BY <1>1
  <2> HIDE DEF Before
  <2> QED
    BY <2>2, <2>3, <2>4, FS_Subset
<1> HIDE DEF Before
<1>4. \A i, k \in FirstOf(S) : f[i] = f[k] => i = k
  <2> SUFFICES ASSUME NEW i \in FirstOf(S), NEW k \in FirstOf(S), i # k
               PROVE  Cardinality(Before(i)) # Cardinality(Before(k))
    OBVIOUS
  <2>1. i \in S /\ k \in S
    BY DEF FirstOf
  <2>2. i < k \/ k < i
    BY <2>1
  <2> QED
    BY <1>3, <2>1, <2>2
<1>5. IsFiniteSet(0 .. BatchSize - 1) /\ Cardinality(0 .. BatchSize - 1) <= BatchSize
  BY FS_Interval, QueueAssumption
<1>6. f \in [FirstOf(S) -> 0 .. BatchSize - 1]
  <2>1. \A i \in FirstOf(S) : Cardinality(Before(i)) \in 0 .. BatchSize - 1
    <3> SUFFICES ASSUME NEW i \in FirstOf(S)
                 PROVE  Cardinality(Before(i)) \in 0 .. BatchSize - 1
      OBVIOUS
    <3>1. Cardinality(Before(i)) \in Nat /\ Cardinality(Before(i)) < BatchSize
      BY <1>1, <1>2
    <3> QED
      BY <3>1, QueueAssumption
  <2> QED
    BY <2>1
<1> HIDE DEF f
<1> QED
  BY <1>4, <1>5, <1>6, NoMore, QueueAssumption

\* The empty queue satisfies the invariant.
LEMMA MapInit == QueueInit => MapInv
<1> SUFFICES ASSUME QueueInit PROVE UniqueBodies /\ BatchesAreSmall
  BY LockInit DEF MapInv
<1> QED
  BY FS_EmptySet, QueueAssumption DEF QueueInit, UniqueBodies, BatchesAreSmall

\* Only publish adds a row, and only for a body that has none.
LEMMA BodiesStep ==
    ASSUME LockInv, UniqueBodies, [QueueNext]_queueVars
    PROVE  UniqueBodies'
<1>1. rows \in Seq(Row)
  BY DEF LockInv, TypeInv, QueueTypeOK
<1>2. ASSUME NEW b \in Jobs \ Published, Publish(b)
      PROVE  UniqueBodies'
  <2> DEFINE r == [body |-> b, status |-> "available", count |-> 0, visible |-> TRUE]
  <2>1. /\ \A i \in DOMAIN rows : rows'[i] = rows[i]
        /\ \A i \in DOMAIN rows' \ DOMAIN rows : i = Len(rows) + 1 /\ rows'[i] = r
    BY <1>1, <1>2 DEF Publish
  <2> QED
    BY <1>2, <2>1 DEF UniqueBodies, Published
<1>3. ASSUME NEW w \in Workers, ReceiveCommit(w)
      PROVE  DOMAIN rows' = DOMAIN rows
  BY <1>3, ReceiveCommitRows DEF LockInv
<1>4. ASSUME NEW w \in Workers, NEW m \in held[w], Settle(w, m)
      PROVE  DOMAIN rows' = DOMAIN rows
  BY <1>4 DEF Settle, Complete, Abandon, DeadLetter
<1>5. ASSUME ~\E b \in Jobs \ Published : Publish(b)
      PROVE  DOMAIN rows' = DOMAIN rows
  BY <1>3, <1>4, <1>5 DEF QueueNext, ReceiveSelect, Drop, LockLapse, queueVars
<1>6. \A i \in DOMAIN rows : rows'[i].body = rows[i].body
  BY KeptStep DEF RowKept
<1> QED
  BY <1>2, <1>5, <1>6 DEF UniqueBodies

\* An open receive has read the first of the rows it could have.
LEMMA BatchesStep ==
    ASSUME LockInv, BatchesAreSmall, [QueueNext]_queueVars
    PROVE  BatchesAreSmall'
<1>1. /\ reading \in [Workers -> SUBSET Message]
      /\ DOMAIN rows \in SUBSET Nat /\ IsFiniteSet(DOMAIN rows)
  BY FS_Interval DEF LockInv, TypeInv, QueueTypeOK
<1>2. ASSUME NEW w \in Workers, ReceiveSelect(w)
      PROVE  IsFiniteSet(reading'[w]) /\ Cardinality(reading'[w]) <= BatchSize
  <2> DEFINE S == FirstOf(Candidates(w))
             f == [m \in reading'[w] |-> m.id]
  <2>1. Candidates(w) \in SUBSET Nat /\ IsFiniteSet(Candidates(w))
    BY <1>1, FS_Subset DEF Candidates
  <2>2. IsFiniteSet(S) /\ Cardinality(S) <= BatchSize
    BY <2>1, FirstAreFew
  <2>3. reading'[w] = {[id |-> i, count |-> rows[i].count] : i \in S}
    BY <1>1, <1>2 DEF ReceiveSelect
  <2> HIDE DEF S
  <2>4. f \in [reading'[w] -> S] /\ \A x, y \in reading'[w] : f[x] = f[y] => x = y
    BY <2>3
  <2> HIDE DEF f
  <2> QED
    BY <2>2, <2>4, NoMore, QueueAssumption
<1>3. ASSUME NEW w \in Workers
      PROVE  \/ reading'[w] = reading[w]
             \/ reading'[w] = {}
             \/ ReceiveSelect(w)
  BY <1>1 DEF QueueNext, Publish, ReceiveSelect, ReceiveCommit, Settle, Complete, Abandon,
              DeadLetter, Drop, LockLapse, queueVars
<1>4. IsFiniteSet({}) /\ Cardinality({}) <= BatchSize
  BY FS_EmptySet, QueueAssumption
<1> QED
  BY <1>2, <1>3, <1>4 DEF BatchesAreSmall

\* The mapping's invariant is inductive, given one reader per row.
LEMMA MapStep == OneReaderPerRow /\ MapInv /\ [QueueNext]_queueVars => MapInv'
  BY LockStep, BodiesStep, BatchesStep DEF MapInv

\* Worker w has a claim on row i.
Claims(w, i) == \E m \in held[w] : m.id = i

\* What the abstract queue sees, row by row.
AsMapped ==
    /\ \A i \in DOMAIN rows :
         LET j == rows[i].body IN
         /\ j \in Jobs /\ j \in Published
         /\ place[j] = PlaceOf(i)
         /\ holders[j] = {w \in Workers : Claims(w, i)}
         /\ taken[j] = rows[i].count
    /\ \A j \in Jobs \ Published :
         place[j] = "unsent" /\ holders[j] = {} /\ taken[j] = 0

\* One row per body, so a message is seen as its row is.
LEMMA Mapped == MapInv => AsMapped
<1> SUFFICES ASSUME MapInv PROVE AsMapped
  OBVIOUS
<1>1. ASSUME NEW w \in Workers, NEW m \in held[w]
      PROVE  m.id \in DOMAIN rows
  BY <1>1 DEF MapInv, LockInv, ClaimsMatchRows
<1>2. ASSUME NEW i \in DOMAIN rows
      PROVE  LET j == rows[i].body IN
             /\ j \in Jobs /\ j \in Published
             /\ place[j] = PlaceOf(i)
             /\ holders[j] = {w \in Workers : Claims(w, i)}
             /\ taken[j] = rows[i].count
  <2> DEFINE j == rows[i].body
  <2>1. j \in Jobs
    BY TableRows DEF MapInv, LockInv, TypeInv, QueueTypeOK, Row
  <2>2. j \in Published
    BY DEF Published
  <2>3. RowOf(j) = i
    BY DEF RowOf, MapInv, UniqueBodies
  <2>4. \A w \in Workers : \A m \in held[w] : rows[m.id].body = j <=> m.id = i
    BY <1>1 DEF MapInv, UniqueBodies
  <2>5. holders[j] = {w \in Workers : Claims(w, i)}
    BY <2>1, <2>4 DEF holders, Claims
  <2> QED
    BY <2>1, <2>2, <2>3, <2>5 DEF place, taken
<1>3. ASSUME NEW j \in Jobs \ Published
      PROVE  place[j] = "unsent" /\ holders[j] = {} /\ taken[j] = 0
  BY <1>1 DEF place, holders, taken, Published
<1> QED
  BY <1>2, <1>3 DEF AsMapped

\* Held is what some worker claims, before and after a step.
LEMMA HeldAreClaimed ==
    ASSUME NEW i
    PROVE  /\ i \in HeldIds <=> \E w \in Workers : Claims(w, i)
           /\ i \in HeldIds' <=> \E w \in Workers : Claims(w, i)'
BY DEF HeldIds, Claims

\* A row is seen where it was if its status and its claims are what they were.
LEMMA PlaceStays ==
    ASSUME NEW i, rows'[i].status = rows[i].status,
           \A w \in Workers : Claims(w, i)' <=> Claims(w, i)
    PROVE  PlaceOf(i)' = PlaceOf(i)
<1>1. i \in HeldIds' <=> i \in HeldIds
  BY HeldAreClaimed
<1> QED
  BY <1>1 DEF PlaceOf

\* A published message has a row.
LEMMA HasRow == ASSUME NEW j \in Published PROVE \E i \in DOMAIN rows : rows[i].body = j
BY DEF Published

\* Rows of I leave their holders for the place p, all else stays: the abstract Put.
\* With no row in I it is a stutter.
LEMMA PutRows ==
    ASSUME MapInv, MapInv', NEW I \in SUBSET DOMAIN rows, NEW p,
           DOMAIN rows' = DOMAIN rows,
           \A i \in DOMAIN rows : /\ rows'[i].body = rows[i].body
                                  /\ rows'[i].count = rows[i].count,
           \A i \in DOMAIN rows \ I : /\ rows'[i].status = rows[i].status
                                      /\ \A w \in Workers : Claims(w, i)' <=> Claims(w, i),
           \A i \in I : PlaceOf(i)' = p /\ \A w \in Workers : ~Claims(w, i)'
    PROVE  AbstractQueue!Put({rows[i].body : i \in I}, p)
<1> DEFINE S == {rows[i].body : i \in I}
<1>1. AsMapped
  BY Mapped
<1>2. AsMapped'
  BY Mapped, PTL
<1>3. Published' = Published
  BY DEF Published
<1>4. \A i \in DOMAIN rows \ I : PlaceOf(i)' = PlaceOf(i)
  BY PlaceStays
<1>5. ASSUME NEW j \in Jobs
      PROVE  /\ place'[j] = IF j \in S THEN p ELSE place[j]
             /\ holders'[j] = IF j \in S THEN {} ELSE holders[j]
             /\ taken'[j] = taken[j]
  <2>1. CASE j \notin Published
    <3>1. j \notin S
      BY <2>1 DEF Published
    <3>2. /\ place[j] = "unsent" /\ holders[j] = {} /\ taken[j] = 0
          /\ place'[j] = "unsent" /\ holders'[j] = {} /\ taken'[j] = 0
      BY <1>1, <1>2, <1>3, <2>1 DEF AsMapped
    <3> QED
      BY <3>1, <3>2
  <2>2. CASE j \in Published
    <3>1. PICK i \in DOMAIN rows : rows[i].body = j
      BY <2>2, HasRow
    <3>2. j \in S <=> i \in I
      BY <3>1 DEF MapInv, UniqueBodies
    <3>3. /\ place[j] = PlaceOf(i) /\ place'[j] = PlaceOf(i)'
          /\ holders[j] = {w \in Workers : Claims(w, i)}
          /\ holders'[j] = {w \in Workers : Claims(w, i)'}
          /\ taken[j] = rows[i].count /\ taken'[j] = rows'[i].count
      BY <1>1, <1>2, <3>1 DEF AsMapped
    <3>4. CASE i \in I
      BY <3>2, <3>3, <3>4
    <3>5. CASE i \notin I
      BY <1>4, <3>2, <3>3, <3>5
    <3> QED
      BY <3>4, <3>5
  <2> QED
    BY <2>1, <2>2
<1> HIDE DEF S
<1>6. place' = [j \in Jobs |-> IF j \in S THEN p ELSE place[j]]
  BY <1>5 DEF place
<1>7. holders' = [j \in Jobs |-> IF j \in S THEN {} ELSE holders[j]]
  BY <1>5 DEF holders
<1>8. taken' = taken
  BY <1>5 DEF taken
<1> QED
  BY <1>6, <1>7, <1>8 DEF AbstractQueue!Put, S

\* publish is Enqueue: the message leaves "unsent" for its new row.
LEMMA PublishMaps ==
    ASSUME MapInv, MapInv', NEW b \in Jobs \ Published, Publish(b)
    PROVE  AbstractQueue!Enqueue(b)
<1> DEFINE r == [body |-> b, status |-> "available", count |-> 0, visible |-> TRUE]
<1>1. AsMapped /\ place[b] = "unsent" /\ holders[b] = {} /\ taken[b] = 0
  BY Mapped DEF AsMapped
<1>2. AsMapped'
  BY Mapped, PTL
<1>3. PICK n \in Nat :
        /\ n \in DOMAIN rows' \ DOMAIN rows
        /\ DOMAIN rows' = DOMAIN rows \cup {n}
        /\ \A i \in DOMAIN rows : rows'[i] = rows[i]
        /\ rows'[n] = r
        /\ held' = held
  <2>1. r \in Row /\ rows \in Seq(Row)
    BY DEF Row, Status, MapInv, LockInv, TypeInv, QueueTypeOK
  <2> HIDE DEF r
  <2>2. rows' = Append(rows, r) /\ held' = held
    BY DEF Publish, r
  <2> WITNESS Len(rows) + 1 \in Nat
  <2> QED
    BY <2>1, <2>2
<1>4. \A i \in DOMAIN rows : PlaceOf(i)' = PlaceOf(i)
  BY <1>3, PlaceStays DEF Claims
<1>5. \A w \in Workers : ~Claims(w, n)'
  BY <1>3 DEF Claims, MapInv, LockInv, ClaimsMatchRows
<1>6. place'[b] = "waiting" /\ holders'[b] = {} /\ taken'[b] = 0
  <2>1. PlaceOf(n)' = "waiting"
    BY <1>3 DEF PlaceOf
  <2>2. /\ place'[b] = PlaceOf(n)'
        /\ holders'[b] = {w \in Workers : Claims(w, n)'}
        /\ taken'[b] = rows'[n].count
    BY <1>2, <1>3 DEF AsMapped
  <2> QED
    BY <1>3, <1>5, <2>1, <2>2
<1>7. ASSUME NEW j \in Jobs, j # b
      PROVE  place'[j] = place[j] /\ holders'[j] = holders[j] /\ taken'[j] = taken[j]
  <2>1. CASE j \in Published
    <3>1. PICK i \in DOMAIN rows : rows[i].body = j
      BY <2>1, HasRow
    <3>2. rows'[i].body = j /\ rows'[i].count = rows[i].count
      BY <1>3, <3>1
    <3>3. \A w \in Workers : Claims(w, i)' <=> Claims(w, i)
      BY <1>3 DEF Claims
    <3>4. /\ place[j] = PlaceOf(i) /\ place'[j] = PlaceOf(i)'
          /\ holders[j] = {w \in Workers : Claims(w, i)}
          /\ holders'[j] = {w \in Workers : Claims(w, i)'}
          /\ taken[j] = rows[i].count /\ taken'[j] = rows'[i].count
      BY <1>1, <1>2, <1>3, <3>1, <3>2 DEF AsMapped
    <3> QED
      BY <1>4, <3>2, <3>3, <3>4
  <2>2. CASE j \notin Published
    <3>1. j \notin Published'
      BY <1>3, <1>7, <2>2 DEF Published
    <3> QED
      BY <1>1, <1>2, <2>2, <3>1 DEF AsMapped
  <2> QED
    BY <2>1, <2>2
<1>8. place' = [j \in Jobs |-> IF j \in {b} THEN "waiting" ELSE place[j]]
  BY <1>6, <1>7 DEF place
<1>9. holders' = [j \in Jobs |-> IF j \in {b} THEN {} ELSE holders[j]]
  BY <1>6, <1>7 DEF holders
<1>10. taken' = taken
  BY <1>1, <1>6, <1>7 DEF taken
<1> QED
  BY <1>1, <1>8, <1>9, <1>10 DEF AbstractQueue!Enqueue, AbstractQueue!Put

\* The commit of receive is Take: the messages of the rows it read, no more than a
\* batch, go from "waiting" to this worker alone.
LEMMA CommitMaps ==
    ASSUME MapInv, MapInv', NEW w \in Workers, ReceiveCommit(w)
    PROVE  \E S \in SUBSET Jobs : AbstractQueue!Take(w, S)
<1> DEFINE Read(i) == \E m \in reading[w] : m.id = i
           S == {rows[m.id].body : m \in reading[w]}
<1>1. AsMapped
  BY Mapped
<1>2. AsMapped'
  BY Mapped, PTL
<1>3. /\ DOMAIN rows' = DOMAIN rows
      /\ \A i \in DOMAIN rows : ~Read(i) => rows'[i] = rows[i]
      /\ \A i \in DOMAIN rows : Read(i) =>
           /\ rows[i].status = "available"
           /\ rows'[i].body = rows[i].body
           /\ rows'[i].status = "locked"
           /\ rows'[i].count = rows[i].count + 1
      /\ \A m \in reading[w] : m.id \in DOMAIN rows
  <2>1. \A m \in reading[w] :
           /\ m.id \in DOMAIN rows
           /\ rows[m.id].status = "available"
           /\ rows[m.id].count = m.count
    BY DEF MapInv, LockInv, ReadingIsFresh
  <2>2. /\ DOMAIN rows' = DOMAIN rows
        /\ \A i \in DOMAIN rows :
             \/ ~Read(i) /\ rows'[i] = rows[i]
             \/ \E m \in reading[w] : m.id = i /\ rows'[i] = Claimed(rows[i], m)
    BY ReceiveCommitRows DEF MapInv, LockInv
  <2> QED
    BY <2>1, <2>2 DEF Claimed
<1>4. /\ held'[w] = held[w] \cup {[m EXCEPT !.count = @ + 1] : m \in reading[w]}
      /\ \A v \in Workers \ {w} : held'[v] = held[v]
  BY DEF ReceiveCommit, MapInv, LockInv, TypeInv, QueueTypeOK
<1>5. \A i \in DOMAIN rows : \A v \in Workers :
        Claims(v, i)' <=> (Claims(v, i) \/ (v = w /\ Read(i)))
  <2>1. \A m \in reading[w] : [m EXCEPT !.count = @ + 1].id = m.id
    BY DEF MapInv, LockInv, TypeInv, QueueTypeOK, Message
  <2>2. \A i \in DOMAIN rows : Claims(w, i)' <=> (Claims(w, i) \/ Read(i))
    BY <1>4, <2>1 DEF Claims
  <2>3. \A i \in DOMAIN rows : \A v \in Workers \ {w} : Claims(v, i)' <=> Claims(v, i)
    BY <1>4 DEF Claims
  <2> QED
    BY <2>2, <2>3
<1>6. \A i \in DOMAIN rows : Read(i) => \A v \in Workers : ~Claims(v, i)
  BY <1>3 DEF Claims, MapInv, LockInv, ClaimsMatchRows
<1> HIDE DEF Read
<1>7. ASSUME NEW i \in DOMAIN rows, Read(i)
      PROVE  PlaceOf(i) = "waiting" /\ PlaceOf(i)' = "held"
  <2>1. i \in HeldIds'
    BY <1>5, <1>7, HeldAreClaimed
  <2> QED
    BY <1>3, <1>7, <2>1 DEF PlaceOf
<1>8. \A i \in DOMAIN rows : ~Read(i) => PlaceOf(i)' = PlaceOf(i)
  BY <1>3, <1>5, PlaceStays
<1>9. \A i \in DOMAIN rows : rows[i].body \in S <=> Read(i)
  BY <1>3 DEF Read, MapInv, UniqueBodies
<1>10. \A j \in S : \E i \in DOMAIN rows : rows[i].body = j /\ Read(i)
  BY <1>3 DEF Read
<1>11. S # {} /\ S \in SUBSET Jobs /\ \A j \in S : place[j] = "waiting"
  <2>1. S # {}
    BY DEF ReceiveCommit
  <2> HIDE DEF S
  <2> QED
    BY <1>1, <1>7, <1>10, <2>1 DEF AsMapped
<1>12. Cardinality(S) <= BatchSize
  <2> DEFINE f == [j \in S |-> CHOOSE m \in reading[w] : rows[m.id].body = j]
  <2>1. \A j \in S : f[j] \in reading[w] /\ rows[f[j].id].body = j
    OBVIOUS
  <2>2. f \in [S -> reading[w]] /\ \A x, y \in S : f[x] = f[y] => x = y
    BY <2>1
  <2>3. IsFiniteSet(reading[w]) /\ Cardinality(reading[w]) <= BatchSize
    BY DEF MapInv, BatchesAreSmall
  <2> HIDE DEF f, S
  <2> QED
    BY <2>2, <2>3, NoMore, QueueAssumption
<1>13. ASSUME NEW j \in Jobs
       PROVE  /\ place'[j] = IF j \in S THEN "held" ELSE place[j]
              /\ holders'[j] = IF j \in S THEN {w} ELSE holders[j]
              /\ taken'[j] = IF j \in S THEN taken[j] + 1 ELSE taken[j]
  <2>1. CASE j \notin Published
    <3>1. j \notin S /\ j \notin Published'
      BY <1>3, <1>10, <2>1 DEF Published
    <3>2. /\ place[j] = "unsent" /\ holders[j] = {} /\ taken[j] = 0
          /\ place'[j] = "unsent" /\ holders'[j] = {} /\ taken'[j] = 0
      BY <1>1, <1>2, <2>1, <3>1 DEF AsMapped
    <3> QED
      BY <3>1, <3>2
  <2>2. CASE j \in Published
    <3>1. PICK i \in DOMAIN rows : rows[i].body = j
      BY <2>2, HasRow
    <3>2. rows'[i].body = j /\ (j \in S <=> Read(i))
      BY <1>3, <1>9, <3>1
    <3>3. /\ place[j] = PlaceOf(i) /\ place'[j] = PlaceOf(i)'
          /\ holders[j] = {v \in Workers : Claims(v, i)}
          /\ holders'[j] = {v \in Workers : Claims(v, i)'}
          /\ taken[j] = rows[i].count /\ taken'[j] = rows'[i].count
      BY <1>1, <1>2, <1>3, <3>1, <3>2 DEF AsMapped
    <3>4. CASE Read(i)
      <4>1. holders'[j] = {w}
        BY <1>5, <1>6, <3>3, <3>4
      <4> QED
        BY <1>3, <1>7, <3>2, <3>3, <3>4, <4>1
    <3>5. CASE ~Read(i)
      <4>1. holders'[j] = holders[j]
        BY <1>5, <3>3, <3>5
      <4> QED
        BY <1>3, <1>8, <3>2, <3>3, <3>5, <4>1
    <3> QED
      BY <3>4, <3>5
  <2> QED
    BY <2>1, <2>2
<1> HIDE DEF S
<1>14. place' = [j \in Jobs |-> IF j \in S THEN "held" ELSE place[j]]
  BY <1>13 DEF place
<1>15. holders' = [j \in Jobs |-> IF j \in S THEN {w} ELSE holders[j]]
  BY <1>13 DEF holders
<1>16. taken' = [j \in Jobs |-> IF j \in S THEN taken[j] + 1 ELSE taken[j]]
  BY <1>13 DEF taken
<1>17. AbstractQueue!Cardinality(S) = Cardinality(S)
  BY DEF AbstractQueue!Cardinality, Cardinality
<1>18. AbstractQueue!Take(w, S)
  BY <1>11, <1>12, <1>14, <1>15, <1>16, <1>17 DEF AbstractQueue!Take
<1> QED
  BY <1>11, <1>18

\* A settlement is Finish, GiveBack or Discard by the message's one holder; abandon's
\* outcome is decided by the deliveries counted.
LEMMA SettleMaps ==
    ASSUME MapInv, MapInv', NEW w \in Workers, NEW m \in held[w], Settle(w, m)
    PROVE  \E j \in Jobs : \/ AbstractQueue!Finish(w, j)
                           \/ AbstractQueue!GiveBack(w, j)
                           \/ AbstractQueue!Discard(w, j)
<1> DEFINE i == m.id
           j == rows[i].body
<1>1. i \in DOMAIN rows /\ rows[i] \in Row /\ MaxDelivery \in Nat
  BY TableRows, QueueAssumption DEF MapInv, LockInv, ClaimsMatchRows, TypeInv, QueueTypeOK
<1>2. /\ j \in Jobs
      /\ w \in holders[j]
      /\ taken[j] = rows[i].count
  BY <1>1, Mapped DEF AsMapped, Claims
<1>3. j \in AbstractQueue!HeldBy(w)
  BY <1>2 DEF AbstractQueue!HeldBy
<1>4. /\ DOMAIN rows' = DOMAIN rows
      /\ \A k \in DOMAIN rows : /\ rows'[k].body = rows[k].body
                                /\ rows'[k].count = rows[k].count
                                /\ k # i => rows'[k].status = rows[k].status
  BY <1>1 DEF Settle, Complete, Abandon, DeadLetter, Row
<1>5. /\ held'[w] = held[w] \ {m}
      /\ \A v \in Workers \ {w} : held'[v] = held[v]
  BY DEF Settle, Complete, Abandon, DeadLetter, Unhold, MapInv, LockInv, TypeInv, QueueTypeOK
<1>6. \A v \in Workers : \A n \in held[v] : n.id = i => v = w /\ n = m
  BY LockInvImplies DEF MapInv, SingleHolder
<1>7. \A v \in Workers : ~Claims(v, i)'
  BY <1>5, <1>6 DEF Claims
<1>8. \A k \in DOMAIN rows \ {i} : \A v \in Workers : Claims(v, k)' <=> Claims(v, k)
  <2>1. \A k \in DOMAIN rows \ {i} : Claims(w, k)' <=> Claims(w, k)
    BY <1>5 DEF Claims
  <2>2. \A k \in DOMAIN rows : \A v \in Workers \ {w} : Claims(v, k)' <=> Claims(v, k)
    BY <1>5 DEF Claims
  <2> QED
    BY <2>1, <2>2
<1>9. ASSUME NEW p, PlaceOf(i)' = p
      PROVE  AbstractQueue!Put({j}, p)
  <2>1. AbstractQueue!Put({rows[k].body : k \in {i}}, p)
    <3>1. {i} \in SUBSET DOMAIN rows
      BY <1>1
    <3>2. \A k \in {i} : PlaceOf(k)' = p /\ \A v \in Workers : ~Claims(v, k)'
      BY <1>7, <1>9
    <3>3. \A k \in DOMAIN rows \ {i} :
            /\ rows'[k].status = rows[k].status
            /\ \A v \in Workers : Claims(v, k)' <=> Claims(v, k)
      BY <1>4, <1>8
    <3> HIDE DEF i
    <3> QED
      BY <1>4, <3>1, <3>2, <3>3, PutRows
  <2>2. {rows[k].body : k \in {i}} = {j}
    OBVIOUS
  <2> QED
    BY <2>1, <2>2
<1>10. CASE Complete(w, m)
  <2>1. rows'[i].status = "completed"
    BY <1>1, <1>10 DEF Complete, Row
  <2>2. PlaceOf(i)' = "done"
    BY <2>1 DEF PlaceOf
  <2> QED
    BY <1>2, <1>3, <1>9, <2>2 DEF AbstractQueue!Finish
<1>11. CASE DeadLetter(w, m)
  <2>1. rows'[i].status = "dead_letter"
    BY <1>1, <1>11 DEF DeadLetter, Row
  <2>2. PlaceOf(i)' = "dead"
    BY <2>1 DEF PlaceOf
  <2> QED
    BY <1>2, <1>3, <1>9, <2>2 DEF AbstractQueue!Discard
<1>12. CASE Abandon(w, m)
  <2>1. rows'[i].status = IF rows[i].count < MaxDelivery THEN "available" ELSE "dead_letter"
    BY <1>1, <1>12 DEF Abandon, Row
  <2>2. PlaceOf(i)' = IF taken[j] < MaxDelivery THEN "waiting" ELSE "dead"
    BY <1>2, <2>1 DEF PlaceOf
  <2> QED
    BY <1>2, <1>3, <1>9, <2>2 DEF AbstractQueue!GiveBack
<1> QED
  BY <1>10, <1>11, <1>12 DEF Settle

\* A step that touches no row's status and no claim is invisible to the abstract queue.
LEMMA NothingMaps ==
    ASSUME MapInv, MapInv', DOMAIN rows' = DOMAIN rows, held' = held,
           \A i \in DOMAIN rows : /\ rows'[i].body = rows[i].body
                                  /\ rows'[i].count = rows[i].count
                                  /\ rows'[i].status = rows[i].status
    PROVE  UNCHANGED <<place, holders, taken>>
<1>1. \A i \in DOMAIN rows : \A w \in Workers : Claims(w, i)' <=> Claims(w, i)
  BY DEF Claims
<1>2. AbstractQueue!Put({rows[i].body : i \in {}}, "lost")
  BY <1>1, PutRows
<1> QED
  BY <1>2 DEF AbstractQueue!Put, place, holders

\* A worker that loses its batch is LoseAll; if it only had a receive open, nothing
\* was taken yet.
LEMMA DropMaps ==
    ASSUME MapInv, MapInv', NEW w \in Workers, Drop(w)
    PROVE  AbstractQueue!LoseAll(w) \/ UNCHANGED <<place, holders, taken>>
<1>1. /\ rows' = rows
      /\ held'[w] = {}
      /\ \A v \in Workers \ {w} : held'[v] = held[v]
      /\ held' = [held EXCEPT ![w] = {}]
      /\ held \in [Workers -> SUBSET Message]
  BY DEF Drop, MapInv, LockInv, TypeInv, QueueTypeOK
<1>2. CASE held[w] = {}
  <2>1. held' = held
    BY <1>1, <1>2
  <2> QED
    BY <1>1, <2>1, NothingMaps
<1>3. CASE held[w] # {}
  <2> DEFINE I == {i \in DOMAIN rows : Claims(w, i)}
             S == {rows[i].body : i \in I}
  <2>1. \A i \in I : \A v \in Workers : ~Claims(v, i)'
    BY <1>1 DEF Claims, MapInv, LockInv, HeldIsDisjoint
  <2>2. \A i \in DOMAIN rows \ I : \A v \in Workers : Claims(v, i)' <=> Claims(v, i)
    BY <1>1 DEF Claims
  <2>3. \A i \in I : rows[i].status = "locked"
    BY DEF Claims, MapInv, LockInv, ClaimsMatchRows
  <2>4. \A i \in I : PlaceOf(i)' = "lost"
    BY <1>1, <2>1, <2>3, HeldAreClaimed DEF PlaceOf
  <2>5. AbstractQueue!Put(S, "lost")
    BY <1>1, <2>1, <2>2, <2>4, PutRows
  <2>6. S = AbstractQueue!HeldBy(w)
    <3>1. AsMapped
      BY Mapped
    <3>2. ASSUME NEW j \in Jobs
          PROVE  j \in S <=> w \in holders[j]
      <4>1. CASE j \in Published
        <5>1. PICK i \in DOMAIN rows : rows[i].body = j
          BY <4>1, HasRow
        <5>2. j \in S <=> i \in I
          BY <5>1 DEF MapInv, UniqueBodies
        <5> QED
          BY <3>1, <5>1, <5>2 DEF AsMapped
      <4>2. CASE j \notin Published
        BY <3>1, <4>2 DEF AsMapped, Published
      <4> QED
        BY <4>1, <4>2
    <3>3. S \subseteq Jobs
      BY <3>1 DEF AsMapped
    <3> HIDE DEF S
    <3> QED
      BY <3>2, <3>3 DEF AbstractQueue!HeldBy
  <2>7. S # {}
    BY <1>3 DEF Claims, MapInv, LockInv, ClaimsMatchRows
  <2> HIDE DEF S
  <2> QED
    BY <2>5, <2>6, <2>7 DEF AbstractQueue!LoseAll
<1> QED
  BY <1>2, <1>3

\* Every step of the table is a step of the abstract queue, or none.
LEMMA QueueMaps ==
    ASSUME MapInv, MapInv', [QueueNext]_queueVars
    PROVE  [AbstractQueue!Next]_<<place, holders, taken>>
<1>1. ASSUME NEW b \in Jobs \ Published, Publish(b)
      PROVE  AbstractQueue!Next
  BY <1>1, PublishMaps DEF AbstractQueue!Next
<1>2. ASSUME NEW w \in Workers, ReceiveCommit(w)
      PROVE  AbstractQueue!Next
  BY <1>2, CommitMaps DEF AbstractQueue!Next
<1>3. ASSUME NEW w \in Workers, NEW m \in held[w], Settle(w, m)
      PROVE  AbstractQueue!Next
  BY <1>3, SettleMaps DEF AbstractQueue!Next
<1>4. ASSUME NEW w \in Workers, Drop(w)
      PROVE  AbstractQueue!Next \/ UNCHANGED <<place, holders, taken>>
  BY <1>4, DropMaps DEF AbstractQueue!Next
<1>5. ASSUME NEW w \in Workers, ReceiveSelect(w)
      PROVE  UNCHANGED <<place, holders, taken>>
  BY <1>5, NothingMaps DEF ReceiveSelect
<1>6. ASSUME NEW i \in DOMAIN rows, LockLapse(i)
      PROVE  UNCHANGED <<place, holders, taken>>
  <2>1. \A k \in DOMAIN rows : rows[k] \in Row
    BY TableRows DEF MapInv, LockInv, TypeInv, QueueTypeOK
  <2>2. /\ DOMAIN rows' = DOMAIN rows
        /\ \A k \in DOMAIN rows : /\ rows'[k].body = rows[k].body
                                  /\ rows'[k].count = rows[k].count
                                  /\ rows'[k].status = rows[k].status
        /\ held' = held
    BY <1>6, <2>1 DEF LockLapse, Row
  <2> QED
    BY <2>2, NothingMaps
<1>7. ASSUME UNCHANGED queueVars
      PROVE  UNCHANGED <<place, holders, taken>>
  <2>1. rows' = rows /\ held' = held
    BY <1>7 DEF queueVars
  <2> QED
    BY <2>1, NothingMaps
<1> QED
  BY <1>1, <1>2, <1>3, <1>4, <1>5, <1>6, <1>7 DEF QueueNext

\* The empty table is the empty queue.
LEMMA EmptyMaps == QueueInit => AbstractQueue!Init
BY DEF QueueInit, AbstractQueue!Init, place, holders, taken, Published

\* With row locks or a single worker, the table keeps the promises of MessageQueue, for
\* any number of messages, any batch size and delivery limit: its behaviours, seen
\* through the mapping, are behaviours of the abstract queue.
THEOREM QueueKeepsItsPromises ==
    ASSUME OneReaderPerRow
    PROVE  QueueSpec => ImplementsWorkQueue
<1>1. QueueInit => MapInv /\ AbstractQueue!Init
  BY MapInit, EmptyMaps
<1>2. MapInv /\ [QueueNext]_queueVars => MapInv'
  BY MapStep
<1>3. MapInv /\ MapInv' /\ [QueueNext]_queueVars
        => [AbstractQueue!Next]_<<place, holders, taken>>
  BY QueueMaps
<1> QED
  BY <1>1, <1>2, <1>3, PTL
     DEF QueueSpec, ImplementsWorkQueue, AbstractQueue!Spec, AbstractQueue!workQueueVars
=============================================================================
