--------------------------- MODULE MCAsyncPipeline ---------------------------
(* AsyncPipeline on small instances. *)
EXTENDS AsyncPipeline, TLC

CONSTANTS j1, j2, j3, k1, k2, w1, w2

\* j1 and j2 are submissions under one key, j3 is independent.
TwoKeys == (j1 :> k1) @@ (j2 :> k1) @@ (j3 :> k2)
OneKey == (j1 :> k1) @@ (j2 :> k1)
=============================================================================
