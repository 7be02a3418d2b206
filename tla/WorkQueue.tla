------------------------------ MODULE WorkQueue ------------------------------
(***************************************************************************)
(* What MessageQueue (packages/servicebus/interface.py) promises its       *)
(* callers, whatever the backend: a message is with at most one consumer,  *)
(* is taken at most MaxDelivery times, and once settled stays settled.     *)
(* A message whose consumer is gone is "lost".  A lock may lapse, over a   *)
(* lost message or over a consumer that is too slow: the message is then   *)
(* waiting again, or dead if its deliveries are used up.                   *)
(***************************************************************************)
EXTENDS Integers, FiniteSets

CONSTANTS Jobs, Workers, MaxDelivery, BatchSize

VARIABLES
    place,   \* where each message is
    holders, \* the consumers that have each message: none, or just one
    taken    \* how many times it was received

workQueueVars == <<place, holders, taken>>

Places == {"unsent", "waiting", "held", "lost", "done", "dead"}

Init ==
    /\ place = [j \in Jobs |-> "unsent"]
    /\ holders = [j \in Jobs |-> {}]
    /\ taken = [j \in Jobs |-> 0]

\* Move the messages of S to a place that no consumer holds.
Put(S, p) ==
    /\ place' = [j \in Jobs |-> IF j \in S THEN p ELSE place[j]]
    /\ holders' = [j \in Jobs |-> IF j \in S THEN {} ELSE holders[j]]
    /\ UNCHANGED taken

HeldBy(w) == {j \in Jobs : w \in holders[j]}

Enqueue(j) == place[j] = "unsent" /\ Put({j}, "waiting")

Take(w, S) ==
    /\ S # {}
    /\ Cardinality(S) <= BatchSize
    /\ \A j \in S : place[j] = "waiting"
    /\ place' = [j \in Jobs |-> IF j \in S THEN "held" ELSE place[j]]
    /\ holders' = [j \in Jobs |-> IF j \in S THEN {w} ELSE holders[j]]
    /\ taken' = [j \in Jobs |-> IF j \in S THEN taken[j] + 1 ELSE taken[j]]

Finish(w, j) == j \in HeldBy(w) /\ Put({j}, "done")

GiveBack(w, j) ==
    /\ j \in HeldBy(w)
    /\ Put({j}, IF taken[j] < MaxDelivery THEN "waiting" ELSE "dead")

Discard(w, j) == j \in HeldBy(w) /\ Put({j}, "dead")

LoseAll(w) == HeldBy(w) # {} /\ Put(HeldBy(w), "lost")

Lapse(j) ==
    /\ place[j] \in {"held", "lost"}
    /\ Put({j}, IF taken[j] < MaxDelivery THEN "waiting" ELSE "dead")

Next ==
    \/ \E j \in Jobs : Enqueue(j) \/ Lapse(j)
    \/ \E w \in Workers :
         \/ \E S \in SUBSET Jobs : Take(w, S)
         \/ \E j \in Jobs : Finish(w, j) \/ GiveBack(w, j) \/ Discard(w, j)
         \/ LoseAll(w)

Spec == Init /\ [][Next]_workQueueVars
=============================================================================
