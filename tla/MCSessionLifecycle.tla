------------------------- MODULE MCSessionLifecycle -------------------------
(* Instances of SessionLifecycle for TLC; liveness admits no symmetry.      *)
EXTENDS SessionLifecycle
=============================================================================
