---------------------------- MODULE MCPageAudio ----------------------------
(* Instances of PageAudio for TLC.                                          *)
EXTENDS PageAudio
=============================================================================
