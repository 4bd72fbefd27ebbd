--------------------------- MODULE MCDaemonStore ---------------------------
(* Instances of DaemonStore for TLC.                                        *)
EXTENDS DaemonStore, TLC

StoreSymmetry == Permutations(Turns) \cup Permutations(Closers)
=============================================================================
