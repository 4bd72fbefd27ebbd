----------------------------- MODULE TtsPlayer -----------------------------
(***************************************************************************)
(* The client's TTS playback queue (frontend/features/voice/ttsPlayer.ts): *)
(* chunks are decoded, scheduled one after the other, end, and the last    *)
(* one to end queues the microtask that reports "playback drained".        *)
(*                                                                         *)
(* JavaScript runs to completion, and a microtask runs before the next     *)
(* event: while drainCheckScheduled, DrainCheck is the only step.          *)
(* A source that cancelPlayback stops still fires onended; by then it is   *)
(* out of `scheduled` and its callback changes nothing.                    *)
(***************************************************************************)
EXTENDS Naturals

CONSTANTS MaxChunks        \* bound: chunks being decoded, and chunks scheduled
ASSUME ChunksAssumption == MaxChunks \in Nat

VARIABLES
    decoding,             \* playWav calls awaiting decodeAudioData
    scheduled,            \* sources scheduled or playing
    hasPendingPlayback,
    drainCheckScheduled

playerVars == <<decoding, scheduled, hasPendingPlayback, drainCheckScheduled>>

PlayerTypeOK ==
    /\ decoding \in Nat /\ scheduled \in Nat
    /\ hasPendingPlayback \in BOOLEAN /\ drainCheckScheduled \in BOOLEAN

PlayerInit ==
    /\ decoding = 0 /\ scheduled = 0
    /\ hasPendingPlayback = FALSE /\ drainCheckScheduled = FALSE

\* The microtask finds an empty queue and a burst not reported yet.
Drained == scheduled = 0 /\ hasPendingPlayback

\* playWav up to its await.
PlayWav ==
    /\ ~drainCheckScheduled
    /\ decoding < MaxChunks
    /\ decoding' = decoding + 1
    /\ UNCHANGED <<scheduled, hasPendingPlayback, drainCheckScheduled>>

\* playWav after its await.
Decoded ==
    /\ ~drainCheckScheduled
    /\ decoding > 0 /\ scheduled < MaxChunks
    /\ decoding' = decoding - 1
    /\ scheduled' = scheduled + 1
    /\ hasPendingPlayback' = TRUE
    /\ UNCHANGED drainCheckScheduled

\* decodeAudioData rejects: the promise is only logged.
DecodeFails ==
    /\ ~drainCheckScheduled
    /\ decoding > 0
    /\ decoding' = decoding - 1
    /\ UNCHANGED <<scheduled, hasPendingPlayback, drainCheckScheduled>>

\* Faulty: a counter in the place of the array, which a stopped source still counts down.
ChunkEndedUnqueued ==
    /\ ~drainCheckScheduled
    /\ scheduled' = scheduled - 1
    /\ drainCheckScheduled' = (scheduled = 1)
    /\ UNCHANGED <<decoding, hasPendingPlayback>>

\* source.onended
ChunkEnded ==
    /\ ~drainCheckScheduled
    /\ scheduled > 0
    /\ scheduled' = scheduled - 1
    /\ drainCheckScheduled' = (scheduled = 1)
    /\ UNCHANGED <<decoding, hasPendingPlayback>>

\* The microtask of maybeFireDrained; the composing module calls the callback.
DrainCheck ==
    /\ drainCheckScheduled
    /\ drainCheckScheduled' = FALSE
    /\ hasPendingPlayback' = (hasPendingPlayback /\ ~Drained)
    /\ UNCHANGED <<decoding, scheduled>>

\* The flag is cleared before the drain check is queued, so that the check reports nothing.
CancelPlayback ==
    /\ ~drainCheckScheduled
    /\ scheduled' = 0
    /\ hasPendingPlayback' = FALSE
    /\ drainCheckScheduled' = hasPendingPlayback
    /\ UNCHANGED decoding

-----------------------------------------------------------------------------
(* The player by itself, as the module with the timeline implements it.    *)

PlayerNext == PlayWav \/ Decoded \/ DecodeFails \/ ChunkEnded \/ DrainCheck \/ CancelPlayback

PlayerSpec == PlayerInit /\ [][PlayerNext]_playerVars
=============================================================================
