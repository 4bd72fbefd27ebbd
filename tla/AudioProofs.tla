---------------------------- MODULE AudioProofs ----------------------------
(***************************************************************************)
(* Proofs about PageAudio: the timeline of the played chunks for any       *)
(* number and duration of chunks and any clock, that it implements         *)
(* TtsPlayer, and the microphone capture for any number of pending calls.  *)
(***************************************************************************)
EXTENDS PageAudio, FiniteSetTheorems, TLAPS

-----------------------------------------------------------------------------
(* The timeline. *)

\* A chunk is in one place, and what the current burst has scheduled ends by the time
\* the next chunk may start.
ChunkInv ==
    /\ \A c \in decoding \cup scheduled : c.id <= received
    /\ \A a, b \in decoding : a # b => a.id # b.id
    /\ \A a \in decoding, b \in scheduled : a.id # b.id
    /\ \A c \in scheduled : /\ c.burst <= burst /\ c.start <= c.end
                            /\ c.burst = burst => c.end <= nextStartTime

TimelineInv == TimelineTypeOK /\ ChunkInv /\ NoGap /\ NoOverlap

LEMMA ReceiveKeeps ==
    ASSUME TimelineInv, NEW n \in Seqs, ReceiveChunk(n)
    PROVE  TimelineInv'
  <1> DEFINE c == [id |-> received + 1, seq |-> n]
  <1>1. TimelineTypeOK /\ ChunkInv /\ NoGap /\ NoOverlap
    BY DEF TimelineInv
  <1>2. c \in [id : Ids, seq : Seqs] /\ received' = received + 1
    BY <1>1, TimelineBounds DEF ReceiveChunk, TimelineTypeOK, Ids
  <1>3. decoding' = decoding \cup {c} /\ IsFiniteSet(decoding')
    BY <1>1, FS_AddElement DEF ReceiveChunk, TimelineTypeOK
  <1>4. UNCHANGED <<now, scheduled, nextStartTime, lastSeq, hasPendingPlayback, drainCheckScheduled, burst>>
    BY DEF ReceiveChunk, flagVars
  <1>5. TimelineTypeOK'
    BY <1>1, <1>2, <1>3, <1>4 DEF TimelineTypeOK
  <1>6. ChunkInv'
    <2>1. \A a \in decoding \cup scheduled : a.id \in Nat /\ a.id <= received /\ received \in Nat
      BY <1>1 DEF TimelineTypeOK, ChunkInv, Ids
    <2>2. \A a \in decoding \cup scheduled : a.id # c.id /\ a.id <= received'
      BY <1>2, <2>1
    <2>3. c.id <= received'
      BY <1>2, <2>1, <1>1 DEF TimelineTypeOK
    <2> QED BY <1>1, <1>3, <1>4, <2>2, <2>3 DEF ChunkInv
  <1>7. NoGap' /\ NoOverlap'
    BY <1>1, <1>4 DEF NoGap, NoOverlap, Apart
  <1> QED BY <1>5, <1>6, <1>7 DEF TimelineInv

\* A decoded chunk starts when the ones of its burst have ended.
LEMMA ScheduleKeeps ==
    ASSUME TimelineInv, NEW c \in decoding, NEW d \in Durations, Schedule(c, d)
    PROVE  TimelineInv'
  <1> DEFINE s == [id |-> c.id, burst |-> burst', start |-> StartTime(c), end |-> StartTime(c) + d]
  <1>1. TimelineTypeOK /\ ChunkInv /\ NoGap /\ NoOverlap
    BY DEF TimelineInv
  <1>2. /\ c \in [id : Ids, seq : Seqs] /\ d \in Nat /\ now \in Nat /\ nextStartTime \in Nat
        /\ burst \in Nat
    BY <1>1, DurationsAssumption DEF TimelineTypeOK
  <1>3. StartTime(c) \in Nat /\ burst' \in Nat
    BY <1>2 DEF StartTime, Schedule
  <1>4. /\ decoding' = decoding \ {c} /\ scheduled' = scheduled \cup {s}
        /\ nextStartTime' = StartTime(c) + d /\ lastSeq' = c.seq /\ hasPendingPlayback' = TRUE
        /\ burst' = (IF SetBack(c) THEN burst + 1 ELSE burst)
        /\ UNCHANGED <<now, received, drainCheckScheduled>>
    BY DEF Schedule
  <1>5. s \in [id : Ids, burst : Nat, start : Nat, end : Nat]
    BY <1>2, <1>3
  <1>6. TimelineTypeOK'
    <2>1. IsFiniteSet(decoding) /\ IsFiniteSet(scheduled)
      BY <1>1 DEF TimelineTypeOK
    <2>2. IsFiniteSet(decoding')
      BY <1>4, <2>1, FS_RemoveElement
    <2>3. IsFiniteSet(scheduled')
      <3> HIDE DEF s
      <3> QED BY <1>4, <2>1, FS_AddElement
    <2> QED BY <1>1, <1>2, <1>3, <1>4, <1>5, <2>2, <2>3 DEF TimelineTypeOK
  <1>7. \A a \in scheduled : /\ a.burst \in Nat /\ a.start \in Nat /\ a.end \in Nat
                             /\ a.burst <= burst
                             /\ a.burst = burst' => a.end <= StartTime(c)
    <2> TAKE a \in scheduled
    <2>1. /\ a.burst \in Nat /\ a.start \in Nat /\ a.end \in Nat /\ a.burst <= burst
          /\ a.burst = burst => a.end <= nextStartTime
      BY <1>1 DEF TimelineTypeOK, ChunkInv
    <2>2. CASE SetBack(c)
      BY <1>2, <1>4, <2>1, <2>2
    <2>3. CASE ~SetBack(c)
      BY <1>2, <1>4, <2>1, <2>3 DEF StartTime
    <2> QED BY <2>1, <2>2, <2>3
  <1>8. ChunkInv'
    <2>1. /\ \A a \in decoding' \cup scheduled' : a.id <= received'
          /\ \A a, b \in decoding' : a # b => a.id # b.id
          /\ \A a \in decoding', b \in scheduled' : a.id # b.id
      BY <1>1, <1>4 DEF ChunkInv
    <2>2. \A a \in scheduled' : /\ a.burst <= burst' /\ a.start <= a.end
                                /\ a.burst = burst' => a.end <= nextStartTime'
      <3> TAKE a \in scheduled'
      <3>1. CASE a = s
        BY <1>2, <1>3, <1>4, <3>1
      <3>2. CASE a \in scheduled
        BY <1>1, <1>2, <1>3, <1>4, <1>7, <3>2 DEF ChunkInv
      <3> QED BY <1>4, <3>1, <3>2
    <2> QED BY <2>1, <2>2 DEF ChunkInv
  <1>9. NoGap'
    <2>1. s \in scheduled' /\ s.end = nextStartTime'
      BY <1>4
    <2> QED BY <2>1 DEF NoGap
  <1>10. NoOverlap'
    BY <1>1, <1>4, <1>7 DEF NoOverlap, Apart
  <1> QED BY <1>6, <1>8, <1>9, <1>10 DEF TimelineInv

\* A chunk is over, heard or not.
LEMMA EndsKeeps ==
    ASSUME TimelineInv,
           \/ \E c \in decoding : Reject(c)
           \/ \E c \in scheduled : SourceEnds(c)
           \/ Cancel
    PROVE  TimelineInv'
  <1>1. TimelineTypeOK /\ ChunkInv /\ NoGap /\ NoOverlap
    BY DEF TimelineInv
  <1>2. CASE \E c \in decoding : Reject(c)
    <2> PICK c \in decoding : Reject(c)
      BY <1>2
    <2>1. decoding' = decoding \ {c} /\ IsFiniteSet(decoding')
      BY <1>1, FS_RemoveElement DEF Reject, TimelineTypeOK
    <2>2. UNCHANGED <<now, received, scheduled, nextStartTime, lastSeq, hasPendingPlayback,
                      drainCheckScheduled, burst>>
      BY DEF Reject, flagVars
    <2> QED BY <1>1, <2>1, <2>2 DEF TimelineInv, TimelineTypeOK, ChunkInv, NoGap, NoOverlap, Apart
  <1>3. CASE \E c \in scheduled : SourceEnds(c)
    <2> PICK c \in scheduled : SourceEnds(c)
      BY <1>3
    <2>1. /\ scheduled' = scheduled \ {c} /\ IsFiniteSet(scheduled') /\ c.end <= now
          /\ drainCheckScheduled' \in BOOLEAN
      BY <1>1, FS_RemoveElement DEF SourceEnds, TimelineTypeOK
    <2>2. UNCHANGED <<now, received, decoding, nextStartTime, lastSeq, hasPendingPlayback, burst>>
      BY DEF SourceEnds
    <2>3. TimelineTypeOK'
      BY <1>1, <2>1, <2>2 DEF TimelineTypeOK
    <2> QED BY <1>1, <2>1, <2>2, <2>3 DEF TimelineInv, ChunkInv, NoGap, NoOverlap, Apart
  <1>4. CASE Cancel
    <2>1. /\ scheduled' = {} /\ nextStartTime' = now /\ lastSeq' = -1
          /\ hasPendingPlayback' = FALSE /\ drainCheckScheduled' = hasPendingPlayback
          /\ UNCHANGED <<now, received, decoding, burst>>
      BY <1>4 DEF Cancel
    <2>2. IsFiniteSet(scheduled')
      BY <2>1, FS_EmptySet
    <2>3. TimelineTypeOK'
      BY <1>1, <2>1, <2>2 DEF TimelineTypeOK
    <2>4. ChunkInv' /\ NoOverlap'
      BY <1>1, <2>1 DEF ChunkInv, NoOverlap
    <2>5. NoGap'
      BY <1>1, <2>1 DEF NoGap, TimelineTypeOK
    <2> QED BY <2>3, <2>4, <2>5 DEF TimelineInv
  <1> QED BY <1>2, <1>3, <1>4

LEMMA TimelineKeeps ==
    ASSUME TimelineInv, [TimelineNext]_timelineVars
    PROVE  TimelineInv'
  <1>1. TimelineTypeOK /\ ChunkInv /\ NoGap /\ NoOverlap
    BY DEF TimelineInv
  <1>2. CASE Tick
    BY <1>1, <1>2 DEF TimelineInv, TimelineTypeOK, ChunkInv, NoGap, NoOverlap, Apart, Tick, flagVars
  <1>3. CASE CheckDrain
    BY <1>1, <1>3 DEF TimelineInv, TimelineTypeOK, ChunkInv, NoGap, NoOverlap, Apart, CheckDrain
  <1>4. CASE UNCHANGED timelineVars
    BY <1>1, <1>4 DEF TimelineInv, TimelineTypeOK, ChunkInv, NoGap, NoOverlap, Apart, timelineVars,
                      flagVars
  <1> QED BY <1>2, <1>3, <1>4, ReceiveKeeps, ScheduleKeeps, EndsKeeps DEF TimelineNext

LEMMA TimelineInitInv == TimelineInit => TimelineInv
  <1> SUFFICES ASSUME TimelineInit PROVE TimelineInv
    OBVIOUS
  <1>1. IsFiniteSet(decoding) /\ IsFiniteSet(scheduled)
    BY FS_EmptySet DEF TimelineInit
  <1>2. TimelineTypeOK
    BY <1>1 DEF TimelineInit, TimelineTypeOK
  <1> QED BY <1>2 DEF TimelineInit, TimelineInv, ChunkInv, NoGap, NoOverlap

-----------------------------------------------------------------------------
(* The refinement. *)

\* A chunk more, or a chunk less, in a set of chunks.
LEMMA OneMore ==
    ASSUME NEW S, IsFiniteSet(S), NEW c, c \notin S
    PROVE  Cardinality(S \cup {c}) = Cardinality(S) + 1
  BY FS_AddElement

LEMMA OneLess ==
    ASSUME NEW S, IsFiniteSet(S), NEW c \in S
    PROVE  /\ Cardinality(S) \in Nat /\ Cardinality(S) > 0
           /\ Cardinality(S \ {c}) = Cardinality(S) - 1
           /\ S \ {c} = {} <=> Cardinality(S) = 1
  <1>1. Cardinality(S) \in Nat /\ Cardinality(S \ {c}) \in Nat /\ IsFiniteSet(S \ {c})
    BY FS_CardinalityType, FS_RemoveElement
  <1>2. Cardinality(S) # 0 /\ (Cardinality(S \ {c}) = 0 <=> S \ {c} = {})
    BY <1>1, FS_EmptySet
  <1>3. Cardinality(S \ {c}) = Cardinality(S) - 1
    BY FS_RemoveElement
  <1> QED BY <1>1, <1>2, <1>3

\* Every step of the timeline is a step of the player or none.
LEMMA PlayerStep ==
    ASSUME TimelineInv, [TimelineNext]_timelineVars
    PROVE  [Player!PlayerNext]_(Player!playerVars)
  <1>1. TimelineTypeOK /\ ChunkInv /\ IsFiniteSet(decoding) /\ IsFiniteSet(scheduled)
    BY DEF TimelineInv, TimelineTypeOK
  <1>2. ASSUME NEW n \in Seqs, ReceiveChunk(n)
        PROVE  Player!PlayWav
    <2> DEFINE c == [id |-> received + 1, seq |-> n]
    <2>1. c \notin decoding
      BY <1>1 DEF TimelineTypeOK, ChunkInv
    <2>2. /\ decoding' = decoding \cup {c} /\ ~drainCheckScheduled
          /\ Cardinality(decoding) < MaxChunks
          /\ UNCHANGED <<scheduled, hasPendingPlayback, drainCheckScheduled>>
      BY <1>2 DEF ReceiveChunk, flagVars
    <2>3. Cardinality(decoding') = Cardinality(decoding) + 1
      <3> HIDE DEF c
      <3> QED BY <1>1, <2>1, <2>2, OneMore
    <2> QED BY <2>2, <2>3 DEF Player!PlayWav
  <1>3. ASSUME NEW c \in decoding, NEW d \in Durations, Schedule(c, d)
        PROVE  Player!Decoded
    <2> DEFINE s == [id |-> c.id, burst |-> burst', start |-> StartTime(c), end |-> StartTime(c) + d]
    <2>1. s \notin scheduled
      BY <1>1 DEF ChunkInv
    <2>2. /\ decoding' = decoding \ {c} /\ scheduled' = scheduled \cup {s}
          /\ ~drainCheckScheduled /\ Cardinality(scheduled) < MaxChunks
          /\ hasPendingPlayback' = TRUE /\ UNCHANGED drainCheckScheduled
      BY <1>3 DEF Schedule
    <2>3. Cardinality(scheduled') = Cardinality(scheduled) + 1
      <3> HIDE DEF s
      <3> QED BY <1>1, <2>1, <2>2, OneMore
    <2>4. Cardinality(decoding) > 0 /\ Cardinality(decoding') = Cardinality(decoding) - 1
      BY <1>1, <2>2, OneLess
    <2> QED BY <2>2, <2>3, <2>4 DEF Player!Decoded
  <1>4. ASSUME NEW c \in decoding, Reject(c)
        PROVE  Player!DecodeFails
    <2>1. Cardinality(decoding) > 0 /\ Cardinality(decoding') = Cardinality(decoding) - 1
      BY <1>1, <1>4, OneLess DEF Reject
    <2> QED BY <1>4, <2>1 DEF Reject, Player!DecodeFails, flagVars
  <1>5. ASSUME NEW c \in scheduled, SourceEnds(c)
        PROVE  Player!ChunkEnded
    <2>1. /\ Cardinality(scheduled) > 0 /\ Cardinality(scheduled') = Cardinality(scheduled) - 1
          /\ scheduled' = {} <=> Cardinality(scheduled) = 1
      BY <1>1, <1>5, OneLess DEF SourceEnds
    <2> QED BY <1>5, <2>1 DEF SourceEnds, Player!ChunkEnded
  <1>6. ASSUME CheckDrain
        PROVE  Player!DrainCheck
    <2>1. scheduled = {} <=> Cardinality(scheduled) = 0
      BY <1>1, FS_EmptySet
    <2> QED BY <1>6, <2>1 DEF CheckDrain, Player!DrainCheck, Player!Drained
  <1>7. ASSUME Cancel
        PROVE  Player!CancelPlayback
    <2>1. Cardinality(scheduled') = 0
      BY <1>7, FS_EmptySet DEF Cancel
    <2> QED BY <1>7, <2>1 DEF Cancel, Player!CancelPlayback
  <1>8. ASSUME Tick \/ UNCHANGED timelineVars
        PROVE  UNCHANGED Player!playerVars
    BY <1>8 DEF Tick, timelineVars, flagVars, Player!playerVars
  <1> QED BY <1>2, <1>3, <1>4, <1>5, <1>6, <1>7, <1>8 DEF TimelineNext, Player!PlayerNext

LEMMA PlayerInitial == TimelineInit => Player!PlayerInit
  BY FS_EmptySet DEF TimelineInit, Player!PlayerInit

-----------------------------------------------------------------------------
(* The microphone. *)

\* As long as no click falls into an await, one call is under way at a time.
CalmInv ==
    ~hasty =>
        /\ ~lost /\ asking + closing <= 1
        /\ asking = 1 => recording /\ ~stream /\ ~context
        /\ closing = 1 => ~recording /\ ~stream /\ context
        /\ context => stream \/ closing = 1
        /\ graph => recording /\ stream
        /\ open => (told = "start" <=> recording \/ closing = 1)

MicInv == MicTypeOK /\ CalmInv /\ StopIsComing

LEMMA MicKeeps ==
    ASSUME MicInv, [MicNext]_micVars
    PROVE  MicInv'
  <1>0. MicTypeOK /\ CalmInv /\ StopIsComing
    BY DEF MicInv
  <1>1. CASE Begin
    <2>1. MicTypeOK'
      BY <1>0, <1>1 DEF MicTypeOK, Begin, Click, Awaits, Tell
    <2>2. StopIsComing'
      BY <1>0, <1>1 DEF MicTypeOK, StopIsComing, Begin, Click, Awaits, Tell
    <2>3. CalmInv'
      BY <1>0, <1>1 DEF MicTypeOK, CalmInv, Begin, Click, Awaits, Tell
    <2> QED BY <2>1, <2>2, <2>3 DEF MicInv
  <1>2. CASE Granted
    <2>1. MicTypeOK'
      BY <1>0, <1>2 DEF MicTypeOK, Granted
    <2>2. StopIsComing'
      BY <1>0, <1>2 DEF MicTypeOK, StopIsComing, Granted
    <2>3. CalmInv'
      BY <1>0, <1>2 DEF MicTypeOK, CalmInv, Granted
    <2> QED BY <2>1, <2>2, <2>3 DEF MicInv
  <1>3. CASE GraphFails
    <2>1. MicTypeOK'
      <3>1. asking' \in Nat
        BY <1>0, <1>3 DEF MicTypeOK, GraphFails
      <3>2. told' \in {"start", "stop"}
        BY <1>0, <1>3 DEF MicTypeOK, GraphFails, Tell
      <3> QED BY <1>0, <1>3, <3>1, <3>2 DEF MicTypeOK, GraphFails
    <2>2. StopIsComing'
      BY <1>0, <1>3 DEF MicTypeOK, StopIsComing, GraphFails, Tell
    <2>3. CalmInv'
      BY <1>0, <1>3 DEF MicTypeOK, CalmInv, GraphFails, Tell
    <2> QED BY <2>1, <2>2, <2>3 DEF MicInv
  <1>4. CASE Refused
    <2>1. MicTypeOK'
      <3>1. asking' \in Nat
        BY <1>0, <1>4 DEF MicTypeOK, Refused
      <3>2. told' \in {"start", "stop"}
        BY <1>0, <1>4 DEF MicTypeOK, Refused, Tell
      <3> QED BY <1>0, <1>4, <3>1, <3>2 DEF MicTypeOK, Refused
    <2>2. StopIsComing'
      BY <1>0, <1>4 DEF MicTypeOK, StopIsComing, Refused, Tell
    <2>3. CalmInv'
      BY <1>0, <1>4 DEF MicTypeOK, CalmInv, Refused, Tell
    <2> QED BY <2>1, <2>2, <2>3 DEF MicInv
  <1>5. CASE End
    <2>1. MicTypeOK'
      <3>1. closing' \in Nat
        BY <1>0, <1>5 DEF MicTypeOK, End
      <3>2. told' \in {"start", "stop"}
        BY <1>0, <1>5 DEF MicTypeOK, End, Tell
      <3>3. hasty' \in BOOLEAN
        BY <1>0, <1>5 DEF MicTypeOK, End, Click
      <3> QED BY <1>0, <1>5, <3>1, <3>2, <3>3 DEF MicTypeOK, End
    <2>2. StopIsComing'
      BY <1>0, <1>5 DEF MicTypeOK, StopIsComing, End, Click, Awaits, Tell
    <2>3. CalmInv'
      <3> SUFFICES ASSUME ~hasty' PROVE CalmInv'
        BY DEF CalmInv
      <3>0. ~hasty /\ ~(Awaits > 0) /\ recording /\ open
        BY <1>5, Zenon DEF End, Click
      <3>1. asking = 0 /\ closing = 0 /\ ~lost /\ ~hasty /\ recording /\ open
        BY <1>0, <3>0 DEF MicTypeOK, CalmInv, Awaits
      <3>2. told = "start"
        BY <1>0, <3>1 DEF CalmInv
      <3>3. ~lost' /\ asking' = 0 /\ ~recording' /\ ~stream' /\ ~graph' /\ context' = context /\ open'
        BY <1>5, <3>1 DEF End
      <3>4. CASE context
        BY <1>5, <3>1, <3>2, <3>3, <3>4 DEF CalmInv, End
      <3>5. CASE ~context
        BY <1>5, <3>1, <3>3, <3>5 DEF CalmInv, End, Tell
      <3> QED BY <3>4, <3>5
    <2> QED BY <2>1, <2>2, <2>3 DEF MicInv
  <1>6. CASE Closed
    <2>1. MicTypeOK'
      <3>1. closing' \in Nat
        BY <1>0, <1>6 DEF MicTypeOK, Closed
      <3>2. told' \in {"start", "stop"}
        BY <1>0, <1>6 DEF MicTypeOK, Closed, Tell
      <3> QED BY <1>0, <1>6, <3>1, <3>2 DEF MicTypeOK, Closed
    <2>2. StopIsComing'
      BY <1>0, <1>6 DEF MicTypeOK, StopIsComing, Closed, Tell
    <2>3. CalmInv'
      BY <1>0, <1>6 DEF MicTypeOK, CalmInv, Closed, Tell
    <2> QED BY <2>1, <2>2, <2>3 DEF MicInv
  <1>7. CASE SocketCloses
    <2>1. MicTypeOK'
      BY <1>0, <1>7 DEF MicTypeOK, SocketCloses
    <2>2. StopIsComing'
      BY <1>0, <1>7 DEF MicTypeOK, StopIsComing, SocketCloses
    <2>3. CalmInv'
      BY <1>0, <1>7 DEF MicTypeOK, CalmInv, SocketCloses
    <2> QED BY <2>1, <2>2, <2>3 DEF MicInv
  <1>8. CASE UNCHANGED micVars
    <2>1. MicTypeOK'
      BY <1>0, <1>8 DEF MicTypeOK, micVars
    <2>2. StopIsComing'
      BY <1>0, <1>8 DEF MicTypeOK, StopIsComing, micVars
    <2>3. CalmInv'
      BY <1>0, <1>8 DEF MicTypeOK, CalmInv, micVars
    <2> QED BY <2>1, <2>2, <2>3 DEF MicInv
  <1> QED BY <1>1, <1>2, <1>3, <1>4, <1>5, <1>6, <1>7, <1>8 DEF MicNext

LEMMA MicInitInv == MicInit => MicInv
  <1> SUFFICES ASSUME MicInit PROVE MicInv
    OBVIOUS
  <1>1. MicTypeOK
    BY DEF MicInit, MicTypeOK
  <1>2. CalmInv /\ StopIsComing
    BY DEF MicInit, CalmInv, StopIsComing
  <1> QED BY <1>1, <1>2 DEF MicInv

LEMMA MicHolds == MicInv => OffMeansSilent /\ ShownIsTold
  BY DEF MicInv, MicTypeOK, CalmInv, OffMeansSilent, ShownIsTold

-----------------------------------------------------------------------------
(* Theorems. *)

AudioInv == TimelineInv /\ MicInv

LEMMA AudioNextKeeps ==
    ASSUME AudioInv, [AudioNext]_audioVars
    PROVE  AudioInv' /\ [Player!PlayerNext]_(Player!playerVars)
  <1>1. [TimelineNext]_timelineVars /\ [MicNext]_micVars
    BY DEF AudioNext, Mic, audioVars
  <1> QED BY <1>1, TimelineKeeps, PlayerStep, MicKeeps DEF AudioInv

\* The invariant is inductive.
THEOREM AudioInvariant == AudioSpec => []AudioInv
  <1>1. AudioInit => AudioInv
    BY TimelineInitInv, MicInitInv DEF AudioInit, AudioInv
  <1>2. AudioInv /\ [AudioNext]_audioVars => AudioInv'
    BY AudioNextKeeps
  <1> QED BY <1>1, <1>2, PTL DEF AudioSpec

\* Chunks, clock and pending calls keep their types.
THEOREM AudioTypeCorrect == AudioSpec => []AudioTypeOK
  <1>1. AudioInv => AudioTypeOK
    BY DEF AudioInv, TimelineInv, MicInv, AudioTypeOK
  <1> QED BY AudioInvariant, <1>1, PTL

\* The next chunk starts where the last one ends, or at once, for any chunks and any clock.
THEOREM NoGapHolds == AudioSpec => []NoGap
  <1>1. AudioInv => NoGap
    BY DEF AudioInv, TimelineInv
  <1> QED BY AudioInvariant, <1>1, PTL

\* No two chunks of one burst are heard at once.
THEOREM NoOverlapHolds == AudioSpec => []NoOverlap
  <1>1. AudioInv => NoOverlap
    BY DEF AudioInv, TimelineInv
  <1> QED BY AudioInvariant, <1>1, PTL

\* The timeline implements the player that VoiceLoop composes with the pipeline.
THEOREM ImplementsPlayerHolds == AudioSpec => ImplementsPlayer
  <1>1. AudioInit => Player!PlayerInit
    BY PlayerInitial DEF AudioInit
  <1>2. AudioInv /\ [AudioNext]_audioVars => [Player!PlayerNext]_(Player!playerVars)
    BY AudioNextKeeps
  <1> QED BY AudioInvariant, <1>1, <1>2, PTL DEF AudioSpec, ImplementsPlayer, Player!PlayerSpec

\* With the button off nothing is captured, unless a click fell into an await.
THEOREM OffMeansSilentHolds == AudioSpec => []OffMeansSilent
  <1>1. AudioInv => OffMeansSilent
    BY MicHolds DEF AudioInv
  <1> QED BY AudioInvariant, <1>1, PTL

\* The daemon was told what the button shows, unless a click fell into an await.
THEOREM ShownIsToldHolds == AudioSpec => []ShownIsTold
  <1>1. AudioInv => ShownIsTold
    BY MicHolds DEF AudioInv
  <1> QED BY AudioInvariant, <1>1, PTL

\* However the clicks fall, a daemon that takes the button for on while it is off is
\* about to be told.
THEOREM StopIsComingHolds == AudioSpec => []StopIsComing
  <1>1. AudioInv => StopIsComing
    BY DEF AudioInv, MicInv
  <1> QED BY AudioInvariant, <1>1, PTL
=============================================================================
