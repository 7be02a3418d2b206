--------------------------- MODULE MCAgentSession ---------------------------
(* AgentSession on a small instance. *)
EXTENDS AgentSession, TLC

CONSTANTS j1, j2, k1, w1, w2

OneKey == (j1 :> k1) @@ (j2 :> k1)

Resubmission == <<j1, j2>>
=============================================================================
