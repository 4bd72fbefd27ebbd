----------------------------- MODULE PageAudio -----------------------------
(***************************************************************************)
(* The audio of one page: the replies it plays (TtsTimeline) and the       *)
(* microphone it captures (MicCapture).  Its JavaScript runs to            *)
(* completion: while a microtask is queued no event is handled.            *)
(***************************************************************************)
EXTENDS TtsTimeline, MicCapture

audioVars == <<timelineVars, micVars>>

AudioTypeOK == TimelineTypeOK /\ MicTypeOK

AudioInit == TimelineInit /\ MicInit

Mic(A) == ~drainCheckScheduled /\ A /\ UNCHANGED timelineVars

AudioNext == (TimelineNext /\ UNCHANGED micVars) \/ Mic(MicNext)

AudioSpec == AudioInit /\ [][AudioNext]_audioVars
=============================================================================
