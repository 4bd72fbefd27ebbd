----------------------------- MODULE MCLlmLock -----------------------------
(* Instances of LlmLock for TLC: turns and other callers, with more slots    *)
(* than callers so that a dropped generator can outlive the next call.       *)
EXTENDS LlmLock, TLC

LlmSymmetry == Permutations(Streams) \cup Permutations(Turns) \cup Permutations(Others)
=============================================================================
