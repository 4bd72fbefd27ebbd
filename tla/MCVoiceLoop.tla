---------------------------- MODULE MCVoiceLoop ----------------------------
(* Instances of VoiceLoop for TLC: one or two connections and two task     *)
(* slots, so that two turns can be alive at once.                           *)
EXTENDS VoiceLoop, TLC

TaskSymmetry == Permutations(Tasks)
=============================================================================
