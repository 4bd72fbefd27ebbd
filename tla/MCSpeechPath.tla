---------------------------- MODULE MCSpeechPath ----------------------------
(* An instance of SpeechPath for TLC: tags of two and three characters that *)
(* share the first one, as "<think>" and "</think>" do.                     *)
EXTENDS SpeechPath

MCOpen  == <<"<", "t">>
MCClose == <<"<", "/", "t">>
=============================================================================
