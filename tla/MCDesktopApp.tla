---------------------------- MODULE MCDesktopApp ----------------------------
(* Instances of DesktopApp for TLC.                                         *)
EXTENDS DesktopApp, TLC
=============================================================================
