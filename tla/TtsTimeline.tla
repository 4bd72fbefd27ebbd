---------------------------- MODULE TtsTimeline ----------------------------
(***************************************************************************)
(* When each TTS chunk is heard (frontend/features/voice/ttsPlayer.ts):    *)
(* TtsPlayer with the chunks told apart and the AudioContext's time.       *)
(*                                                                         *)
(* The browser may finish decoding in another order than it began.  A      *)
(* reply's chunks are numbered from 0; a typed and a voice reply may       *)
(* arrive at the same time.                                                *)
(***************************************************************************)
EXTENDS Integers, FiniteSets

CONSTANTS
    MaxChunks,   \* bound: chunks being decoded, and chunks scheduled
    MaxSeq,      \* bound: the number of a chunk in its reply
    MaxId,       \* bound: chunks received
    MaxTime,     \* bound: currentTime
    Durations    \* of chunks

ASSUME TimelineBounds == /\ MaxChunks \in Nat /\ MaxSeq \in Nat
                         /\ MaxId \in Nat /\ MaxTime \in Nat
ASSUME DurationsAssumption == Durations \subseteq Nat

VARIABLES
    now,                  \* audioCtx.currentTime
    received,             \* chunks received so far; each has its place as identity
    decoding,             \* playWav calls awaiting decodeAudioData
    scheduled,            \* sources scheduled or playing
    nextStartTime,
    lastSeq,
    hasPendingPlayback,
    drainCheckScheduled,
    burst                 \* history: how often the timeline was set back

flagVars == <<hasPendingPlayback, drainCheckScheduled>>
timelineVars == <<now, received, decoding, scheduled, nextStartTime, lastSeq, flagVars, burst>>

Ids  == 1..MaxId
Seqs == 0..MaxSeq

TimelineTypeOK ==
    /\ now \in Nat /\ received \in Nat /\ burst \in Nat
    /\ decoding \in SUBSET [id : Ids, seq : Seqs] /\ IsFiniteSet(decoding)
    /\ scheduled \in SUBSET [id : Ids, burst : Nat, start : Nat, end : Nat]
    /\ IsFiniteSet(scheduled)
    /\ nextStartTime \in Nat /\ lastSeq \in Seqs \cup {-1}
    /\ hasPendingPlayback \in BOOLEAN /\ drainCheckScheduled \in BOOLEAN

TimelineInit ==
    /\ now = 0 /\ received = 0 /\ decoding = {} /\ scheduled = {}
    /\ nextStartTime = 0 /\ lastSeq = -1 /\ burst = 0
    /\ hasPendingPlayback = FALSE /\ drainCheckScheduled = FALSE

-----------------------------------------------------------------------------
\* The context's clock runs by itself, whatever the page does.
Tick ==
    /\ now < MaxTime /\ now' = now + 1
    /\ UNCHANGED <<received, decoding, scheduled, nextStartTime, lastSeq, flagVars, burst>>

\* playWav up to its await.
ReceiveChunk(n) ==
    /\ ~drainCheckScheduled /\ Cardinality(decoding) < MaxChunks /\ received < MaxId
    /\ received' = received + 1
    /\ decoding' = decoding \cup {[id |-> received + 1, seq |-> n]}
    /\ UNCHANGED <<now, scheduled, nextStartTime, lastSeq, flagVars, burst>>

\* A number not above the last one is taken for the start of a new reply.
SetBack(c) == c.seq <= lastSeq

StartTime(c) == IF SetBack(c) \/ nextStartTime < now THEN now ELSE nextStartTime

\* Faulty: the next chunk's start is left where this one's was.
ScheduleOnTop(c, d) ==
    /\ ~drainCheckScheduled /\ Cardinality(scheduled) < MaxChunks
    /\ decoding' = decoding \ {c}
    /\ burst' = IF SetBack(c) THEN burst + 1 ELSE burst
    /\ scheduled' = scheduled \cup
          {[id |-> c.id, burst |-> burst', start |-> StartTime(c), end |-> StartTime(c) + d]}
    /\ nextStartTime' = StartTime(c)
    /\ lastSeq' = c.seq
    /\ hasPendingPlayback' = TRUE
    /\ UNCHANGED <<now, received, drainCheckScheduled>>

\* playWav after its await; the chunk's duration is d.
Schedule(c, d) ==
    /\ ~drainCheckScheduled /\ Cardinality(scheduled) < MaxChunks
    /\ decoding' = decoding \ {c}
    /\ burst' = IF SetBack(c) THEN burst + 1 ELSE burst
    /\ scheduled' = scheduled \cup
          {[id |-> c.id, burst |-> burst', start |-> StartTime(c), end |-> StartTime(c) + d]}
    /\ nextStartTime' = StartTime(c) + d
    /\ lastSeq' = c.seq
    /\ hasPendingPlayback' = TRUE
    /\ UNCHANGED <<now, received, drainCheckScheduled>>

\* decodeAudioData rejects.
Reject(c) ==
    /\ ~drainCheckScheduled
    /\ decoding' = decoding \ {c}
    /\ UNCHANGED <<now, received, scheduled, nextStartTime, lastSeq, flagVars, burst>>

\* Faulty: the end of any chunk has the drain checked.
SourceEndsAny(c) ==
    /\ ~drainCheckScheduled /\ c.end <= now
    /\ scheduled' = scheduled \ {c}
    /\ drainCheckScheduled' = TRUE
    /\ UNCHANGED <<now, received, decoding, nextStartTime, lastSeq, hasPendingPlayback, burst>>

\* source.onended, at the chunk's end or later.
SourceEnds(c) ==
    /\ ~drainCheckScheduled /\ c.end <= now
    /\ scheduled' = scheduled \ {c}
    /\ drainCheckScheduled' = (scheduled' = {})
    /\ UNCHANGED <<now, received, decoding, nextStartTime, lastSeq, hasPendingPlayback, burst>>

\* The microtask of maybeFireDrained.
CheckDrain ==
    /\ drainCheckScheduled
    /\ drainCheckScheduled' = FALSE
    /\ hasPendingPlayback' = (hasPendingPlayback /\ scheduled # {})
    /\ UNCHANGED <<now, received, decoding, scheduled, nextStartTime, lastSeq, burst>>

\* Faulty: the abandoned position is kept.
CancelInPlace ==
    /\ ~drainCheckScheduled
    /\ scheduled' = {}
    /\ lastSeq' = -1
    /\ hasPendingPlayback' = FALSE
    /\ drainCheckScheduled' = hasPendingPlayback
    /\ UNCHANGED <<now, received, decoding, nextStartTime, burst>>

\* cancelPlayback; what is being decoded is not touched.
Cancel ==
    /\ ~drainCheckScheduled
    /\ scheduled' = {}
    /\ nextStartTime' = now /\ lastSeq' = -1
    /\ hasPendingPlayback' = FALSE
    /\ drainCheckScheduled' = hasPendingPlayback
    /\ UNCHANGED <<now, received, decoding, burst>>

TimelineNext ==
    \/ Tick
    \/ \E n \in Seqs : ReceiveChunk(n)
    \/ \E c \in decoding : Reject(c) \/ \E d \in Durations : Schedule(c, d)
    \/ \E c \in scheduled : SourceEnds(c)
    \/ CheckDrain \/ Cancel

-----------------------------------------------------------------------------
(* Properties. *)

\* The next chunk will start where the last one ends, or at once: never in silence
\* (ttsPlayer.ts:10-12, 115-119).
NoGap == nextStartTime <= now \/ \E c \in scheduled : c.end = nextStartTime

\* Chunks are heard one after the other, as long as no chunk with a lower number, of
\* another reply or decoded late, has set the timeline back between them.
Apart(a, b) == a.end <= b.start \/ b.end <= a.start
NoOverlap == \A a, b \in scheduled : a # b /\ a.burst = b.burst => Apart(a, b)

\* The player VoiceLoop uses, which knows neither chunks nor time.
Player == INSTANCE TtsPlayer WITH decoding <- Cardinality(decoding),
                                  scheduled <- Cardinality(scheduled)

ImplementsPlayer == Player!PlayerSpec
=============================================================================
