-------------------------- MODULE MCBrokerPipeline --------------------------
(* BrokerPipeline on small instances. *)
EXTENDS BrokerPipeline, TLC

CONSTANTS j1, k1, w1, w2

OneKey == j1 :> k1
=============================================================================
