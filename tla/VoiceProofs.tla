---------------------------- MODULE VoiceProofs ----------------------------
(***************************************************************************)
(* Theorems about VoiceLoop, for any number of connections, tasks, chunks  *)
(* and frames in flight.                                                   *)
(***************************************************************************)
EXTENDS VoiceLoop, SequenceTheorems, TLAPS

-----------------------------------------------------------------------------
(* Type correctness: the frames first, then one lemma per process. *)

LEMMA ReceiveType ==
    ASSUME VoiceTypeOK, NEW c \in Conns, NEW m, Receive(c, m)
    PROVE  inbox' \in [Conns -> Seq(InMsgs)]
  BY DEF VoiceTypeOK, Receive

LEMMA DeliverType ==
    ASSUME VoiceTypeOK, NEW c, NEW m \in OutMsgs, Deliver(c, m)
    PROVE  outbox' \in Seq(OutMsgs)
  BY DEF VoiceTypeOK, Deliver

LEMMA SendType ==
    ASSUME VoiceTypeOK, NEW m \in InMsgs, peer \in Conns, Send(m)
    PROVE  inbox' \in [Conns -> Seq(InMsgs)]
  BY DEF VoiceTypeOK, Send

LEMMA FinishType ==
    ASSUME VoiceTypeOK, NEW t \in Tasks, Finish(t)
    PROVE  /\ turn' \in [Tasks -> {"done", "new", "running"}]
           /\ tcancel' \in [Tasks -> BOOLEAN]
           /\ tcb' \in [Tasks -> Conns \cup {NoConn}]
           /\ ttts' \in [Tasks -> 0..MaxTts]
  BY BoundsAssumption DEF VoiceTypeOK, Finish

LEMMA HandlerType ==
    ASSUME VoiceTypeOK, NEW c \in Conns, HandlerStep(c)
    PROVE  VoiceTypeOK'
  <1> USE DEF VoiceTypeOK, pipelineVars, sttVars, turnVars, handlerVars
  <1>1. CASE DispatchStart(c)
    BY <1>1, ReceiveType DEF DispatchStart
  <1>2. CASE ConnectOk(c)
    BY <1>2, BoundsAssumption, SMTT(30) DEF ConnectOk
  <1>3. CASE DispatchStopInactive(c)
    BY <1>3, ReceiveType DEF DispatchStopInactive
  <1>4. CASE DispatchStop(c)
    <2>1. CASE CurrentLive
      BY <1>4, <2>1, ReceiveType DEF DispatchStop, CurrentLive
    <2>2. CASE ~CurrentLive
      BY <1>4, <2>2, ReceiveType, ZenonT(60) DEF DispatchStop, SttStop
    <2> QED BY <2>1, <2>2
  <1>5. CASE StopCancelled(c)
    BY <1>5, ZenonT(60) DEF StopCancelled, SttStop
  <1>6. CASE StopDone(c)
    BY <1>6 DEF StopDone
  <1>7. CASE DispatchTtsDone(c)
    BY <1>7, ReceiveType DEF DispatchTtsDone
  <1>8. CASE FeedAudio(c)
    <2>1. inbox' \in [Conns -> Seq(InMsgs)]
      BY <1>8, ReceiveType DEF FeedAudio
    <2>2. heard' \in [Conns -> 0..MaxHeard]
      BY <1>8, BoundsAssumption DEF FeedAudio
    <2> QED BY <1>8, <2>1, <2>2 DEF FeedAudio
  <1>9. CASE DispatchText(c)
    BY <1>9, ReceiveType DEF DispatchText
  <1>10. CASE TextEnd(c)
    BY <1>10 DEF TextEnd
  <1>11. CASE Disconnect(c)
    BY <1>11 DEF Disconnect
  <1> QED
    BY <1>1, <1>2, <1>3, <1>4, <1>5, <1>6, <1>7, <1>8, <1>9, <1>10, <1>11 DEF HandlerStep

LEMMA ReaderType ==
    ASSUME VoiceTypeOK, NEW c \in Conns, ReaderStep(c) \/ SttEvent(c) \/ SttEnds(c)
    PROVE  VoiceTypeOK'
  <1> USE DEF VoiceTypeOK, pipelineVars, sttVars, turnVars, handlerVars
  <1>1. CASE ReaderFinal(c)
    BY <1>1, BoundsAssumption, SMTT(30) DEF ReaderFinal
  <1>2. CASE ReaderSpeech(c)
    BY <1>2 DEF ReaderSpeech, CurrentLive
  <1>3. CASE ReaderSpeechCancelled(c)
    BY <1>3, DeliverType DEF ReaderSpeechCancelled, OutMsgs
  <1>4. ASSUME DispatchUtterance(c)
        PROVE  /\ gate' \in BOOLEAN /\ current' \in Tasks \cup {NoTask}
               /\ tcancel' \in [Tasks -> BOOLEAN]
               /\ rwait' \in [Conns -> Tasks \cup {NoTask}]
               /\ reader' \in [Conns -> {"off", "idle", "partial", "uttCancel", "speechCancel"}]
               /\ turn' \in [Tasks -> {"done", "new", "running"}]
    <2>1. CASE CurrentLive
      <3>1. current \in Tasks
        BY <2>1 DEF CurrentLive
      <3>2. /\ UNCHANGED <<gate, current, turn>>
            /\ tcancel' = [tcancel EXCEPT ![current] = TRUE]
            /\ rwait' = [rwait EXCEPT ![c] = current]
            /\ reader' = [reader EXCEPT ![c] = "uttCancel"]
        BY <1>4, <2>1 DEF DispatchUtterance
      <3> QED BY <3>1, <3>2
    <2>2. CASE ~CurrentLive
      BY <1>4, <2>2 DEF DispatchUtterance, FireTurn
    <2> QED BY <2>1, <2>2
  <1>5. CASE ReaderUtteranceEnd(c)
    BY <1>5, <1>4 DEF ReaderUtteranceEnd
  <1>6. CASE ReaderPartialDone(c)
    BY <1>6, <1>4 DEF ReaderPartialDone
  <1>7. CASE ReaderUttCancelled(c)
    BY <1>7 DEF ReaderUttCancelled, FireTurn
  <1>8. CASE SttEnds(c)
    BY <1>8, BoundsAssumption, SMTT(30) DEF SttEnds
  <1> QED
    BY <1>1, <1>2, <1>3, <1>5, <1>6, <1>7, <1>8 DEF ReaderStep, SttEvent, SttCloses

LEMMA TurnType ==
    ASSUME VoiceTypeOK, NEW t \in Tasks, TurnStep(t) \/ TurnAborts(t)
    PROVE  VoiceTypeOK'
  <1> USE DEF VoiceTypeOK, pipelineVars, sttVars, turnVars, handlerVars
  <1>1. CASE TurnBegin(t)
    BY <1>1, BoundsAssumption DEF TurnBegin
  <1>2. CASE TurnNeverRan(t)
    BY <1>2, FinishType DEF TurnNeverRan
  <1>3. CASE TurnTts(t)
    <2>1. outbox' \in Seq(OutMsgs)
      BY <1>3, DeliverType DEF TurnTts, OutMsgs
    <2>2. ttts' \in [Tasks -> 0..MaxTts]
      BY <1>3, BoundsAssumption DEF TurnTts
    <2> QED BY <1>3, <2>1, <2>2 DEF TurnTts
  <1>4. CASE TurnEnd(t)
    <2>1. gate' \in BOOLEAN
      BY <1>4 DEF TurnEnd
    <2> QED BY <1>4, <2>1, FinishType DEF TurnEnd
  <1>5. CASE TurnAborts(t)
    BY <1>5, FinishType DEF TurnAborts
  <1> QED
    BY <1>1, <1>2, <1>3, <1>4, <1>5 DEF TurnStep, TurnCancelled

LEMMA EnvType ==
    ASSUME VoiceTypeOK, DaemonEnv
    PROVE  VoiceTypeOK'
  <1>1. ASSUME NEW c \in Conns, TextTts(c)
        PROVE  VoiceTypeOK'
    BY <1>1, DeliverType
       DEF TextTts, OutMsgs, VoiceTypeOK, pipelineVars, sttVars, turnVars, handlerVars
  <1>2. ASSUME NEW c \in Conns, StopTimeout(c)
        PROVE  VoiceTypeOK'
    <2>1. reader' \in [Conns -> {"off", "idle", "partial", "uttCancel", "speechCancel"}]
      BY <1>2 DEF StopTimeout, VoiceTypeOK
    <2>2. heard' \in [Conns -> 0..MaxHeard]
      <3>1. 0 \in 0..MaxHeard
        BY BoundsAssumption
      <3> QED BY <1>2, <3>1 DEF StopTimeout, VoiceTypeOK
    <2> QED BY <1>2, <2>1, <2>2
            DEF StopTimeout, VoiceTypeOK, pipelineVars, turnVars, handlerVars
  <1>3. ASSUME NEW c \in Conns, ConnectFail(c) \/ TextFail(c)
        PROVE  VoiceTypeOK'
    BY <1>3 DEF ConnectFail, TextFail, HandlerRaises, VoiceTypeOK, pipelineVars, sttVars, turnVars
  <1> QED
    BY <1>1, <1>2, <1>3, ReaderType, TurnType DEF DaemonEnv

LEMMA PlayerType ==
    ASSUME PlayerTypeOK, PlayWav \/ Decoded \/ DecodeFails \/ ChunkEnded \/ DrainCheck \/ CancelPlayback
    PROVE  PlayerTypeOK'
  <1>1. decoding' \in Nat /\ scheduled' \in Nat
    BY DEF PlayerTypeOK, PlayWav, Decoded, DecodeFails, ChunkEnded, DrainCheck, CancelPlayback
  <1>2. hasPendingPlayback' \in BOOLEAN
    BY DEF PlayerTypeOK, PlayWav, Decoded, DecodeFails, ChunkEnded, DrainCheck, CancelPlayback
  <1>3. drainCheckScheduled' \in BOOLEAN
    BY DEF PlayerTypeOK, PlayWav, Decoded, DecodeFails, ChunkEnded, DrainCheck, CancelPlayback
  <1> QED BY <1>1, <1>2, <1>3 DEF PlayerTypeOK

LEMMA ClientType ==
    ASSUME TypeOK, ClientStep \/ UserStep
    PROVE  TypeOK'
  <1> USE DEF TypeOK, VoiceTypeOK, clientUnchanged, pipelineVars, sttVars, turnVars, handlerVars
  <1>1. CASE ClickStart
    <2>1. inbox' \in [Conns -> Seq(InMsgs)]
      BY <1>1, SendType DEF ClickStart, HasRoom, InMsgs
    <2> QED BY <1>1, <2>1 DEF ClickStart, PlayerTypeOK, playerVars
  <1>2. CASE ClickStop
    <2>1. inbox' \in [Conns -> Seq(InMsgs)]
      BY <1>2, SendType DEF ClickStop, HasRoom, InMsgs
    <2> QED BY <1>2, <2>1, ZenonT(60) DEF ClickStop, PlayerTypeOK, playerVars
  <1>3. CASE MicFrame
    <2>1. inbox' \in [Conns -> Seq(InMsgs)]
      BY <1>3, SendType DEF MicFrame, HasRoom, InMsgs
    <2> QED BY <1>3, <2>1 DEF MicFrame, PlayerTypeOK, playerVars
  <1>4. CASE SendText
    <2>1. inbox' \in [Conns -> Seq(InMsgs)]
      BY <1>4, SendType DEF SendText, HasRoom, InMsgs
    <2> QED BY <1>4, <2>1 DEF SendText, PlayerTypeOK, playerVars
  <1>5. CASE RecvTts
    BY <1>5, PlayerType DEF RecvTts
  <1>6. CASE RecvInterrupt
    BY <1>6, PlayerType DEF RecvInterrupt
  <1>7. CASE ChunkDecoded
    BY <1>7, PlayerType DEF ChunkDecoded, daemonVars
  <1>8. CASE ChunkRejected
    BY <1>8, PlayerType DEF ChunkRejected, daemonVars
  <1>9. CASE PlaybackEnds
    BY <1>9, PlayerType DEF PlaybackEnds, daemonVars
  <1>10. CASE ReportDrain
    <2>1. inbox' \in [Conns -> Seq(InMsgs)]
      BY <1>10, SendType DEF ReportDrain, InMsgs
    <2> QED BY <1>10, <2>1, PlayerType DEF ReportDrain
  <1>11. CASE Reload
    <2>1. peer' \in Conns \cup {NoConn} /\ outbox' \in Seq(OutMsgs)
      BY <1>11 DEF Reload
    <2>2. handler' \in [Conns -> {"none", "idle", "connect", "stopCancel", "stopStt", "text", "closed"}]
      BY <1>11 DEF Reload
    <2>3. PlayerTypeOK' /\ recording' \in BOOLEAN
      BY <1>11 DEF Reload, PlayerTypeOK
    <2> QED BY <1>11, <2>1, <2>2, <2>3 DEF Reload
  <1> QED
    BY <1>1, <1>2, <1>3, <1>4, <1>5, <1>6, <1>7, <1>8, <1>9, <1>10, <1>11 DEF ClientStep, UserStep

\* Every variable keeps its type (all of daemon and client).
THEOREM TypeCorrect == Spec => []TypeOK
  <1>1. Init => TypeOK
    <2> SUFFICES ASSUME Init PROVE TypeOK
      OBVIOUS
    <2>1. PlayerTypeOK /\ recording \in BOOLEAN
      BY DEF Init, PlayerInit, PlayerTypeOK
    <2>2. inbox \in [Conns -> Seq(InMsgs)] /\ outbox \in Seq(OutMsgs)
      BY DEF Init, VoiceInit
    <2>3. handler \in [Conns -> {"none", "idle", "connect", "stopCancel", "stopStt", "text", "closed"}]
      BY DEF Init, VoiceInit
    <2>4. heard \in [Conns -> 0..MaxHeard] /\ ttts \in [Tasks -> 0..MaxTts]
      BY BoundsAssumption DEF Init, VoiceInit
    <2>5. peer \in Conns
      BY DEF Init, VoiceInit
    <2>6. /\ reader \in [Conns -> {"off", "idle", "partial", "uttCancel", "speechCancel"}]
          /\ rwait \in [Conns -> Tasks \cup {NoTask}]
          /\ turn \in [Tasks -> {"done", "new", "running"}]
          /\ tcancel \in [Tasks -> BOOLEAN]
          /\ tcb \in [Tasks -> Conns \cup {NoConn}]
          /\ hwait \in [Conns -> Tasks \cup {NoTask}]
          /\ hstt \in [Conns -> Conns \cup {NoConn}]
      BY DEF Init, VoiceInit
    <2> QED
      BY <2>1, <2>2, <2>3, <2>4, <2>5, <2>6 DEF Init, VoiceInit, TypeOK, VoiceTypeOK
  <1>2. TypeOK /\ [Next]_vars => TypeOK'
    <2> SUFFICES ASSUME TypeOK, [Next]_vars PROVE TypeOK'
      OBVIOUS
    <2>1. CASE ClientStep \/ UserStep
      BY <2>1, ClientType
    <2>2. CASE DaemonStep /\ UNCHANGED <<playerVars, recording>>
      <3>1. VoiceTypeOK'
        BY <2>2, HandlerType, ReaderType, TurnType, EnvType DEF TypeOK, DaemonStep
      <3> QED BY <2>2, <3>1 DEF TypeOK, PlayerTypeOK, playerVars
    <2>3. CASE UNCHANGED vars
      BY <2>3 DEF vars, daemonVars, playerVars, pipelineVars, sttVars, turnVars, handlerVars,
                  TypeOK, VoiceTypeOK, PlayerTypeOK
    <2> QED BY <2>1, <2>2, <2>3 DEF Next
  <1> QED BY <1>1, <1>2, PTL DEF Spec

-----------------------------------------------------------------------------
(* Whoever awaits a turn awaits one that was told to stop. *)

\* Cancelling the current turn and awaiting it.
LEMMA StoppingKept ==
    ASSUME TypeOK, NEW t \in Tasks, Stopping(t),
           \/ UNCHANGED <<turn, tcancel>>
           \/ UNCHANGED turn /\ CurrentLive /\ tcancel' = [tcancel EXCEPT ![current] = TRUE]
           \/ \E s \in Tasks : Finish(s)
           \/ \E s \in Tasks : TurnBegin(s)
           \/ \E s \in Tasks : s # t /\ turn' = [turn EXCEPT ![s] = "new"] /\ UNCHANGED tcancel
    PROVE  Stopping(t)'
  BY DEF TypeOK, VoiceTypeOK, Stopping, TurnBegin, Finish, CurrentLive

LEMMA CurrentIsStopping ==
    ASSUME TypeOK, CurrentLive, tcancel' = [tcancel EXCEPT ![current] = TRUE],
           NEW t, t = current
    PROVE  t \in Tasks /\ Stopping(t)'
  <1>1. t \in Tasks
    BY DEF TypeOK, VoiceTypeOK, CurrentLive
  <1>2. tcancel'[t] = TRUE
    BY <1>1 DEF TypeOK, VoiceTypeOK
  <1> QED BY <1>1, <1>2 DEF Stopping

\* AwaitedIsCancelled with any number of connections and tasks, reloads included:
\* no await in _cancel_current_turn waits out a whole reply.
THEOREM AwaitedIsCancelledHolds == Spec => []AwaitedIsCancelled
  <1>1. Init => AwaitedIsCancelled
    BY DEF Init, VoiceInit, AwaitedIsCancelled
  <1>2. TypeOK /\ AwaitedIsCancelled /\ [Next]_vars => AwaitedIsCancelled'
    <2> SUFFICES ASSUME TypeOK, AwaitedIsCancelled, [Next]_vars PROVE AwaitedIsCancelled'
      OBVIOUS
    <2> USE DEF TypeOK, VoiceTypeOK, pipelineVars, sttVars, turnVars, handlerVars
    <2>1. CASE UNCHANGED <<reader, rwait, handler, hwait, turn, tcancel>>
      BY <2>1 DEF AwaitedIsCancelled, Stopping
    <2>2. ASSUME NEW c \in Conns, HandlerStep(c)
          PROVE  AwaitedIsCancelled'
      <3>1. CASE DispatchStop(c) /\ CurrentLive
        <4>1. /\ tcancel' = [tcancel EXCEPT ![current] = TRUE]
              /\ UNCHANGED <<reader, rwait, turn>>
              /\ hwait' = [hwait EXCEPT ![c] = current]
              /\ handler' = [handler EXCEPT ![c] = "stopCancel"]
          BY <3>1 DEF DispatchStop
        <4>2. \A t \in Tasks : Stopping(t) => Stopping(t)'
          BY <3>1, <4>1, StoppingKept
        <4>3. PICK t : t = current
          OBVIOUS
        <4>4. t \in Tasks /\ Stopping(t)'
          BY <3>1, <4>1, <4>3, CurrentIsStopping
        <4> QED BY <4>1, <4>2, <4>3, <4>4 DEF AwaitedIsCancelled, Stopping
      <3>2. CASE ~(DispatchStop(c) /\ CurrentLive)
        <4>1. UNCHANGED <<reader, rwait, turn, tcancel>> \/ ConnectOk(c)
          BY <2>2, <3>2 DEF HandlerStep, DispatchStart, DispatchStopInactive, DispatchStop,
                StopCancelled, StopDone, DispatchTtsDone, FeedAudio, DispatchText, TextEnd, Disconnect
        <4>2. /\ \A d \in Conns : d # c => handler'[d] = handler[d] /\ hwait'[d] = hwait[d]
              /\ handler'[c] # "stopCancel"
          <5>1. CASE DispatchStop(c) \/ StopCancelled(c)
            BY <3>2, <5>1 DEF DispatchStop, StopCancelled, SttStop
          <5>2. CASE DispatchStart(c) \/ DispatchText(c) \/ TextEnd(c) \/ StopDone(c) \/ Disconnect(c)
            BY <5>2 DEF Receive, DispatchStart, DispatchText, TextEnd, StopDone, Disconnect
          <5>3. CASE ConnectOk(c) \/ DispatchStopInactive(c) \/ DispatchTtsDone(c) \/ FeedAudio(c)
            BY <5>3 DEF Receive, ConnectOk, DispatchStopInactive, DispatchTtsDone, FeedAudio
          <5> QED BY <2>2, <5>1, <5>2, <5>3 DEF HandlerStep
        <4>3. CASE ConnectOk(c)
          BY <4>3 DEF ConnectOk, AwaitedIsCancelled, Stopping
        <4>4. CASE UNCHANGED <<reader, rwait, turn, tcancel>>
          <5>1. \A t : Stopping(t)' <=> Stopping(t)
            BY <4>4 DEF Stopping
          <5>2. \A d \in Conns : handler'[d] = "stopCancel" => handler[d] = "stopCancel" /\ hwait'[d] = hwait[d]
            BY <4>2
          <5>3. \A d \in Conns : reader'[d] = reader[d] /\ rwait'[d] = rwait[d]
            BY <4>4
          <5> QED BY <5>1, <5>2, <5>3 DEF AwaitedIsCancelled
        <4> QED BY <4>1, <4>3, <4>4
      <3> QED BY <3>1, <3>2
    <2>3. ASSUME NEW c \in Conns, ReaderStep(c) \/ SttEvent(c) \/ SttEnds(c)
          PROVE  AwaitedIsCancelled'
      <3>1. CASE ReaderFinal(c)
        BY <2>1, <3>1 DEF ReaderFinal
      <3>2. ASSUME CurrentLive, tcancel' = [tcancel EXCEPT ![current] = TRUE],
                   UNCHANGED <<turn, handler, hwait>>, rwait' = [rwait EXCEPT ![c] = current],
                   NEW w \in {"uttCancel", "speechCancel"}, reader' = [reader EXCEPT ![c] = w]
            PROVE  AwaitedIsCancelled'
        <4>1. \A t \in Tasks : Stopping(t) => Stopping(t)'
          BY <3>2, StoppingKept
        <4>2. PICK t : t = current
          OBVIOUS
        <4>3. t \in Tasks /\ Stopping(t)'
          BY <3>2, <4>2, CurrentIsStopping
        <4> QED BY <3>2, <4>1, <4>2, <4>3 DEF AwaitedIsCancelled, Stopping
      <3>3. ASSUME NEW t \in Tasks, FireTurn(c, t), UNCHANGED <<handler, hwait>>,
                   \A d \in Conns : d # c => rwait'[d] = rwait[d]
            PROVE  AwaitedIsCancelled'
        <4>1. \A s \in Tasks : s # t /\ Stopping(s) => Stopping(s)'
          BY <3>3 DEF FireTurn, Stopping
        <4>2. \A d \in Conns : rwait[d] # t /\ hwait[d] # t
          BY <3>3 DEF FireTurn, FreeTask
        <4>3. reader' = [reader EXCEPT ![c] = "idle"]
          BY <3>3 DEF FireTurn
        <4> QED BY <3>3, <4>1, <4>2, <4>3 DEF AwaitedIsCancelled, Stopping
      <3>4. CASE ReaderSpeech(c)
        BY <3>2, <3>4 DEF ReaderSpeech
      <3>5. CASE ReaderSpeechCancelled(c) \/ SttEnds(c)
        BY <3>5 DEF ReaderSpeechCancelled, SttEnds, AwaitedIsCancelled, Stopping
      <3>6. ASSUME DispatchUtterance(c), UNCHANGED <<handler, hwait>>
            PROVE  AwaitedIsCancelled'
        BY <3>2, <3>3, <3>6 DEF DispatchUtterance
      <3>7. CASE ReaderUtteranceEnd(c)
        <4>1. CASE cbs # NoConn
          BY <3>7, <4>1 DEF ReaderUtteranceEnd, AwaitedIsCancelled, Stopping
        <4>2. CASE cbs = NoConn
          BY <3>6, <3>7, <4>2 DEF ReaderUtteranceEnd
        <4> QED BY <4>1, <4>2
      <3>8. CASE ReaderPartialDone(c)
        BY <3>6, <3>8 DEF ReaderPartialDone
      <3>9. CASE ReaderUttCancelled(c)
        BY <3>3, <3>9 DEF ReaderUttCancelled
      <3> QED BY <2>3, <3>1, <3>4, <3>5, <3>7, <3>8, <3>9 DEF ReaderStep, SttEvent, SttCloses
    <2>4. ASSUME NEW t \in Tasks, TurnStep(t) \/ TurnAborts(t)
          PROVE  AwaitedIsCancelled'
      <3>1. UNCHANGED <<reader, rwait, handler, hwait>>
        BY <2>4 DEF TurnStep, TurnBegin, TurnNeverRan, TurnTts, TurnEnd, TurnCancelled, TurnAborts
      <3>2. \A s \in Tasks : Stopping(s) => Stopping(s)'
        BY <2>4, StoppingKept
           DEF TurnStep, TurnNeverRan, TurnTts, TurnEnd, TurnCancelled, TurnAborts
      <3> QED BY <3>1, <3>2 DEF AwaitedIsCancelled, Stopping
    <2>5. ASSUME NEW c \in Conns, TextTts(c) \/ StopTimeout(c) \/ ConnectFail(c) \/ TextFail(c)
          PROVE  AwaitedIsCancelled'
      <3>1. CASE TextTts(c)
        BY <2>1, <3>1 DEF TextTts
      <3>2. CASE StopTimeout(c)
        <4>1. \A d \in Conns : reader'[d] = reader[d] \/ reader'[d] = "off"
          BY <3>2 DEF StopTimeout
        <4> QED BY <3>2, <4>1 DEF StopTimeout, AwaitedIsCancelled, Stopping
      <3>3. CASE ConnectFail(c) \/ TextFail(c)
        BY <3>3 DEF ConnectFail, TextFail, HandlerRaises, AwaitedIsCancelled, Stopping
      <3> QED BY <2>5, <3>1, <3>2, <3>3
    <2>6. CASE ClientStep \/ UserStep
      <3>1. CASE Reload
        BY <3>1 DEF Reload, AwaitedIsCancelled, Stopping
      <3> QED BY <2>1, <2>6, <3>1
          DEF ClientStep, RecvTts, RecvInterrupt, ChunkDecoded, PlaybackEnds, ReportDrain,
              UserStep, ClickStart, ClickStop, MicFrame, SendText, ChunkRejected,
              clientUnchanged, daemonVars
    <2>7. CASE UNCHANGED vars
      BY <2>1, <2>7 DEF vars, daemonVars
    <2> QED BY <2>2, <2>3, <2>4, <2>5, <2>6, <2>7 DEF Next, DaemonStep, DaemonEnv
  <1> QED BY <1>1, <1>2, TypeCorrect, PTL DEF Spec
-----------------------------------------------------------------------------
(* With one connection, the microphone gate is never engaged with nobody   *)
(* left to release it: MuteInv is inductive and implies NoStrandedMute.    *)

-----------------------------------------------------------------------------
(* Sequences of frames. *)

LEMMA OccursAppend ==
    ASSUME NEW S, NEW q \in Seq(S), NEW m \in S, NEW x
    PROVE  /\ Occurs(x, q) => Occurs(x, Append(q, m))
           /\ Occurs(m, Append(q, m))
           /\ x # m /\ ~Occurs(x, q) => ~Occurs(x, Append(q, m))
           /\ Append(q, m) # <<>>
           /\ Append(q, m)[Len(Append(q, m))] = m
  BY DEF Occurs

LEMMA OccursTail ==
    ASSUME NEW S, NEW q \in Seq(S), q # <<>>, NEW x
    PROVE  /\ Occurs(x, q) /\ Head(q) # x => Occurs(x, Tail(q))
           /\ ~Occurs(x, q) => ~Occurs(x, Tail(q))
  <1>1. ASSUME NEW i \in 1..Len(q), q[i] = x, Head(q) # x
        PROVE  i - 1 \in 1..Len(Tail(q)) /\ Tail(q)[i - 1] = x
    BY <1>1, HeadTailProperties
  <1>2. ASSUME NEW i \in 1..Len(Tail(q)), Tail(q)[i] = x
        PROVE  i + 1 \in 1..Len(q) /\ q[i + 1] = x
    BY <1>2, HeadTailProperties
  <1> QED BY <1>1, <1>2 DEF Occurs

LEMMA LastOfTail ==
    ASSUME NEW S, NEW q \in Seq(S), q # <<>>
    PROVE  \/ Tail(q) = <<>> /\ Head(q) = q[Len(q)]
           \/ Tail(q) # <<>> /\ Tail(q)[Len(Tail(q))] = q[Len(q)]
  <1> DEFINE T == Tail(q)
  <1>1. /\ T \in Seq(S) /\ Len(T) = Len(q) - 1
        /\ \A i \in 1..Len(T) : T[i] = q[i + 1]
    BY HeadTailProperties
  <1>2. Len(q) \in Nat \ {0} /\ Head(q) = q[1]
    BY EmptySeq
  <1>3. T # <<>> => Len(T) \in Nat \ {0}
    BY <1>1, EmptySeq
  <1>4. T = <<>> => Len(T) = 0
    BY EmptySeq
  <1> HIDE DEF T
  <1>5. CASE T = <<>>
    BY <1>1, <1>2, <1>4, <1>5 DEF T
  <1>6. CASE T # <<>>
    <2>1. Len(T) \in 1..Len(T) /\ Len(T) + 1 = Len(q)
      BY <1>1, <1>2, <1>3, <1>6
    <2>2. T[Len(T)] = q[Len(q)]
      BY <1>1, <2>1
    <2> QED BY <1>6, <2>2 DEF T
  <1> QED BY <1>5, <1>6

-----------------------------------------------------------------------------
(* The connection is never opened again, and never used after it is lost. *)

LEMMA ConnectionKept ==
    ASSUME NEW c, Conns = {c}, TypeOK, MuteInv, [Next]_vars
    PROVE  /\ handler'[c] # "none" /\ peer' \in {c, NoConn}
           /\ peer' = c => peer = c /\ handler'[c] # "closed"
  <1> USE DEF TypeOK, VoiceTypeOK, MuteInv, pipelineVars, sttVars, turnVars, handlerVars
  <1>1. CASE UNCHANGED <<handler, peer>>
    BY <1>1
  <1>2. CASE HandlerStep(c)
    BY <1>2, ZenonT(60) DEF HandlerStep, Receive, DispatchStart, ConnectOk, DispatchStopInactive, DispatchStop,
                StopCancelled, StopDone, DispatchTtsDone, FeedAudio, DispatchText, TextEnd,
                Disconnect, SttStop
  <1>3. CASE ReaderStep(c) \/ SttEvent(c) \/ SttEnds(c)
    BY <1>3, <1>1 DEF ReaderStep, ReaderSpeechCancelled, ReaderPartialDone, ReaderUttCancelled,
                SttCloses, SttEnds, SttEvent, ReaderFinal, ReaderSpeech, ReaderUtteranceEnd
  <1>4. ASSUME NEW t \in Tasks, TurnStep(t) \/ TurnAborts(t)
        PROVE  UNCHANGED <<handler, peer>>
    BY <1>4 DEF TurnStep, TurnBegin, TurnNeverRan, TurnTts, TurnEnd, TurnCancelled, TurnAborts
  <1>5. CASE TextTts(c) \/ StopTimeout(c)
    BY <1>5, <1>1 DEF TextTts, StopTimeout
  <1>6. CASE ConnectFail(c) \/ TextFail(c)
    BY <1>6, ConnsAssumption DEF ConnectFail, TextFail, HandlerRaises
  <1>7. CASE ClientStep
    BY <1>7, <1>1 DEF ClientStep, RecvTts, RecvInterrupt, ChunkDecoded, PlaybackEnds, ReportDrain,
                clientUnchanged, daemonVars
  <1>8. CASE UserStep
    BY <1>8, <1>1 DEF UserStep, ClickStart, ClickStop, MicFrame, SendText, ChunkRejected, Reload,
                clientUnchanged, daemonVars
  <1>9. CASE UNCHANGED vars
    BY <1>9, <1>1 DEF vars, daemonVars
  <1> QED
    BY <1>1, <1>2, <1>3, <1>4, <1>5, <1>6, <1>7, <1>8, <1>9 DEF Next, DaemonStep, DaemonEnv

-----------------------------------------------------------------------------
(* Turns are created and begun only with the callbacks installed. *)

LEMMA CallbacksKept ==
    ASSUME NEW c, Conns = {c}, TypeOK, MuteInv, [Next]_vars, peer' = c
    PROVE  CallbacksInstalled(c)'
  <1>1. /\ peer = c /\ handler[c] \notin {"none", "closed"} /\ handler'[c] # "closed"
        /\ CallbacksInstalled(c)
        /\ c # NoConn
    BY ConnectionKept, ConnsAssumption DEF MuteInv
  <1> USE <1>1 DEF CallbacksInstalled, NoNewTurn, TypeOK, VoiceTypeOK,
                   pipelineVars, sttVars, turnVars, handlerVars
  <1>2. CASE UNCHANGED <<active, cbs, sttWs, reader, turn, tcb, handler, hstt>>
    BY <1>2
  <1>3. CASE HandlerStep(c)
    <2>1. CASE DispatchStart(c)
      BY <2>1 DEF DispatchStart, Receive
    <2>2. CASE ConnectOk(c)
      BY <2>2 DEF ConnectOk
    <2>3. CASE DispatchStopInactive(c)
      BY <2>3 DEF DispatchStopInactive, Receive
    <2>4. CASE DispatchStop(c)
      BY <2>4 DEF DispatchStop, Receive, SttStop
    <2>5. CASE StopCancelled(c)
      BY <2>5 DEF StopCancelled, SttStop
    <2>6. CASE StopDone(c)
      BY <2>6 DEF StopDone
    <2>7. CASE DispatchTtsDone(c) \/ FeedAudio(c)
      BY <2>7, <1>2 DEF DispatchTtsDone, FeedAudio
    <2>8. CASE DispatchText(c) \/ TextEnd(c)
      BY <2>8 DEF DispatchText, TextEnd, Receive
    <2>9. CASE Disconnect(c)
      BY <2>9 DEF Disconnect
    <2> QED BY <1>3, <2>1, <2>2, <2>3, <2>4, <2>5, <2>6, <2>7, <2>8, <2>9 DEF HandlerStep
  <1>4. CASE ReaderStep(c) \/ SttEvent(c) \/ SttEnds(c)
    <2>1. CASE ReaderFinal(c)
      BY <2>1, <1>2 DEF ReaderFinal
    <2>2. CASE ReaderSpeech(c) \/ ReaderSpeechCancelled(c)
      BY <2>2 DEF ReaderSpeech, ReaderSpeechCancelled
    <2>3. CASE ReaderUtteranceEnd(c)
      BY <2>3 DEF ReaderUtteranceEnd
    <2>4. CASE ReaderPartialDone(c)
      BY <2>4 DEF ReaderPartialDone, DispatchUtterance, FireTurn
    <2>5. CASE ReaderUttCancelled(c)
      BY <2>5 DEF ReaderUttCancelled, FireTurn
    <2>6. CASE SttEnds(c)
      BY <2>6 DEF SttEnds
    <2> QED BY <1>4, <2>1, <2>2, <2>3, <2>4, <2>5, <2>6 DEF ReaderStep, SttEvent, SttCloses
  <1>5. ASSUME NEW t \in Tasks, TurnStep(t) \/ TurnAborts(t)
        PROVE  CallbacksInstalled(c)'
    <2>1. CASE TurnBegin(t)
      BY <2>1 DEF TurnBegin
    <2>2. CASE TurnTts(t)
      BY <2>2, <1>2 DEF TurnTts
    <2>3. ASSUME Finish(t), UNCHANGED <<active, cbs, sttWs, reader, handler, hstt>>
          PROVE  CallbacksInstalled(c)'
      BY <2>3 DEF Finish
    <2> QED BY <1>5, <2>1, <2>2, <2>3
        DEF TurnStep, TurnNeverRan, TurnEnd, TurnCancelled, TurnAborts
  <1>6. CASE TextTts(c) \/ StopTimeout(c) \/ ConnectFail(c) \/ TextFail(c)
    BY <1>6, <1>2 DEF TextTts, StopTimeout, ConnectFail, TextFail, HandlerRaises
  <1>7. CASE ClientStep
    BY <1>7, <1>2 DEF ClientStep, RecvTts, RecvInterrupt, ChunkDecoded, PlaybackEnds, ReportDrain,
                clientUnchanged, daemonVars
  <1>8. CASE UserStep
    BY <1>8, <1>2 DEF UserStep, ClickStart, ClickStop, MicFrame, SendText, ChunkRejected, Reload,
                clientUnchanged, daemonVars
  <1>9. CASE UNCHANGED vars
    BY <1>9, <1>2 DEF vars, daemonVars
  <1> QED
    BY <1>3, <1>4, <1>5, <1>6, <1>7, <1>8, <1>9 DEF Next, DaemonStep, DaemonEnv

-----------------------------------------------------------------------------
(* The gate always has an owner. *)

LEMMA ReceiveKeepsOthers ==
    ASSUME NEW c \in Conns, TypeOK, NEW m, NEW x, Receive(c, m), m # x, Occurs(x, inbox[c])
    PROVE  Occurs(x, inbox'[c])
  <1>1. inbox[c] \in Seq(InMsgs) /\ inbox'[c] = Tail(inbox[c])
    BY DEF Receive, TypeOK, VoiceTypeOK
  <1> QED BY <1>1, OccursTail DEF Receive

LEMMA SendKeeps ==
    ASSUME TypeOK, peer \in Conns, NEW m \in InMsgs, Send(m)
    PROVE  /\ Occurs(m, inbox'[peer])
           /\ \A x : Occurs(x, inbox[peer]) => Occurs(x, inbox'[peer])
  <1>1. inbox[peer] \in Seq(InMsgs) /\ inbox'[peer] = Append(inbox[peer], m)
    BY DEF Send, TypeOK, VoiceTypeOK
  <1> QED BY <1>1, OccursAppend

\* A step that touches none of the owners, and does not engage the gate.
LEMMA OwnersUntouched ==
    ASSUME NEW c \in Conns, GateHasOwner(c), gate' => gate,
           UNCHANGED <<turn, tcancel, ttts, reader, outbox, playerVars>>,
           Occurs("tts_done", inbox[c]) => Occurs("tts_done", inbox'[c])
    PROVE  GateHasOwner(c)'
  BY DEF GateHasOwner, Releasing, AudioOnItsWay, Occurs, playerVars

LEMMA GateReleased ==
    ASSUME NEW c \in Conns, ~gate'
    PROVE  GateHasOwner(c)'
  BY DEF GateHasOwner

\* A TTS chunk was appended to the frames on their way.
LEMMA ChunkSent ==
    ASSUME NEW c \in Conns, TypeOK, peer = c, Deliver(c, "tts"), GateHasOwner(c),
           UNCHANGED <<gate, reader>>
    PROVE  GateHasOwner(c)'
  <1>1. outbox \in Seq(OutMsgs) /\ outbox' = Append(outbox, "tts")
    BY DEF Deliver, TypeOK, VoiceTypeOK
  <1>2. outbox' # <<>> /\ outbox'[Len(outbox')] = "tts"
    BY <1>1, OccursAppend DEF OutMsgs
  <1> QED BY <1>2 DEF GateHasOwner, AudioOnItsWay

LEMMA HandlerKeepsOwner ==
    ASSUME NEW c, Conns = {c}, TypeOK, GateHasOwner(c), HandlerStep(c), UNCHANGED playerVars
    PROVE  GateHasOwner(c)'
  <1>1. c \in Conns
    OBVIOUS
  <1>2. CASE DispatchStop(c) \/ DispatchTtsDone(c)
    BY <1>1, <1>2, GateReleased DEF DispatchStop, DispatchTtsDone
  <1>3. ASSUME DispatchStart(c) \/ DispatchStopInactive(c) \/ FeedAudio(c) \/ DispatchText(c),
               Occurs("tts_done", inbox[c])
        PROVE  Occurs("tts_done", inbox'[c])
    BY <1>1, <1>3, ReceiveKeepsOthers
       DEF DispatchStart, DispatchStopInactive, FeedAudio, DispatchText
  <1>4. CASE DispatchStart(c) \/ DispatchStopInactive(c) \/ FeedAudio(c) \/ DispatchText(c)
    <2>1. UNCHANGED <<gate, turn, tcancel, ttts, reader, outbox>>
      BY <1>4 DEF DispatchStart, DispatchStopInactive, FeedAudio, DispatchText,
                  pipelineVars, sttVars, turnVars
    <2> QED BY <1>1, <1>3, <1>4, <2>1, OwnersUntouched
  <1>5. CASE ConnectOk(c)
    BY <1>5 DEF ConnectOk, GateHasOwner, Releasing, AudioOnItsWay, Occurs, playerVars,
                pipelineVars, turnVars, TypeOK, VoiceTypeOK
  <1>6. CASE StopCancelled(c) \/ StopDone(c) \/ TextEnd(c) \/ Disconnect(c)
    <2>1. UNCHANGED <<gate, turn, tcancel, ttts, reader, outbox, inbox>>
      BY <1>6 DEF StopCancelled, StopDone, TextEnd, Disconnect, pipelineVars, sttVars, turnVars
    <2> QED BY <1>1, <2>1, OwnersUntouched
  <1> QED BY <1>2, <1>4, <1>5, <1>6 DEF HandlerStep

LEMMA ReaderKeepsOwner ==
    ASSUME NEW c, Conns = {c}, TypeOK, CallbacksInstalled(c), GateHasOwner(c), UNCHANGED playerVars,
           FreeIsClean, ReaderStep(c) \/ SttEvent(c) \/ SttEnds(c)
    PROVE  GateHasOwner(c)'
  <1>1. c \in Conns
    OBVIOUS
  <1>2. CASE ReaderFinal(c)
    BY <1>1, <1>2, OwnersUntouched DEF ReaderFinal, turnVars
  <1>3. CASE ReaderSpeech(c)
    BY <1>1, <1>3, GateReleased DEF ReaderSpeech, pipelineVars
  <1>4. CASE ReaderSpeechCancelled(c)
    BY <1>1, <1>4, GateReleased DEF ReaderSpeechCancelled, GateHasOwner
  <1>5. ASSUME NEW t \in Tasks, FireTurn(c, t)
        PROVE  GateHasOwner(c)'
    <2>1. Releasing(t)' /\ reader'[c] = "idle"
      BY <1>1, <1>5 DEF FireTurn, FreeTask, FreeIsClean, Releasing, TypeOK, VoiceTypeOK
    <2> QED BY <2>1 DEF GateHasOwner
  <1>6. ASSUME DispatchUtterance(c)
        PROVE  GateHasOwner(c)'
    <2>1. CASE CurrentLive
      <3>1. reader'[c] = "uttCancel"
        BY <1>1, <1>6, <2>1 DEF DispatchUtterance, TypeOK, VoiceTypeOK
      <3> QED BY <3>1 DEF GateHasOwner
    <2>2. CASE ~CurrentLive
      BY <1>5, <1>6, <2>2 DEF DispatchUtterance
    <2> QED BY <2>1, <2>2
  <1>7. CASE ReaderUtteranceEnd(c)
    <2>1. cbs # NoConn
      BY <1>7, ConnsAssumption DEF ReaderUtteranceEnd, CallbacksInstalled
    <2>2. /\ UNCHANGED <<gate, turn, tcancel, ttts, outbox, inbox>>
          /\ reader[c] = "idle" /\ reader'[c] = "partial"
      BY <1>1, <1>7, <2>1 DEF ReaderUtteranceEnd, TypeOK, VoiceTypeOK
    <2> QED BY <2>2 DEF GateHasOwner, Releasing, AudioOnItsWay, Occurs, playerVars
  <1>8. CASE ReaderPartialDone(c)
    BY <1>6, <1>8 DEF ReaderPartialDone
  <1>9. CASE ReaderUttCancelled(c)
    BY <1>5, <1>9 DEF ReaderUttCancelled
  <1>10. CASE SttEnds(c)
    <2>1. /\ UNCHANGED <<gate, turn, tcancel, ttts, outbox, inbox>>
          /\ reader[c] = "idle" /\ reader'[c] = "off"
      BY <1>1, <1>10 DEF SttEnds, TypeOK, VoiceTypeOK, pipelineVars, turnVars
    <2> QED BY <2>1 DEF GateHasOwner, Releasing, AudioOnItsWay, Occurs, playerVars
  <1> QED
    BY <1>2, <1>3, <1>4, <1>7, <1>8, <1>9, <1>10 DEF ReaderStep, SttEvent, SttCloses, AudioOnItsWay

LEMMA TurnKeepsOwner ==
    ASSUME NEW c, Conns = {c}, peer = c, TypeOK, CallbacksInstalled(c), GateHasOwner(c),
           UNCHANGED playerVars, NEW t \in Tasks, TurnStep(t) \/ TurnAborts(t)
    PROVE  GateHasOwner(c)'
  <1>1. c \in Conns
    OBVIOUS
  <1>2. CASE TurnBegin(t)
    <2>1. Releasing(t)' /\ UNCHANGED <<gate, reader>>
      BY <1>2 DEF TurnBegin, Releasing, TypeOK, VoiceTypeOK, pipelineVars, sttVars
    <2> QED BY <2>1 DEF GateHasOwner
  <1>3. CASE TurnNeverRan(t)
    <2>1. UNCHANGED <<gate, reader, outbox, inbox>> /\ ~Releasing(t)
      BY <1>3 DEF TurnNeverRan, Releasing, sttVars, pipelineVars
    <2>2. \A s \in Tasks : s # t /\ Releasing(s) => Releasing(s)'
      BY <1>3 DEF TurnNeverRan, Finish, Releasing, TypeOK, VoiceTypeOK
    <2> QED BY <2>1, <2>2 DEF GateHasOwner, AudioOnItsWay, Occurs, playerVars
  <1>4. CASE TurnTts(t)
    <2>1. tcb[t] = c
      BY <1>4 DEF TurnTts, CallbacksInstalled
    <2> QED BY <1>1, <1>4, <2>1, ChunkSent DEF TurnTts, pipelineVars, sttVars
  <1>5. CASE TurnEnd(t) /\ ttts[t] # 0
    <2>1. UNCHANGED <<gate, reader, outbox, inbox>> /\ ~Releasing(t)
      BY <1>5 DEF TurnEnd, Releasing, sttVars
    <2>2. \A s \in Tasks : s # t /\ Releasing(s) => Releasing(s)'
      BY <1>5 DEF TurnEnd, Finish, Releasing, TypeOK, VoiceTypeOK
    <2> QED BY <2>1, <2>2 DEF GateHasOwner, AudioOnItsWay, Occurs, playerVars
  <1>6. CASE TurnEnd(t) /\ ttts[t] = 0
    BY <1>1, <1>6, GateReleased DEF TurnEnd
  <1>7. CASE TurnAborts(t)
    BY <1>1, <1>7, GateReleased DEF TurnAborts
  <1> QED BY <1>2, <1>3, <1>4, <1>5, <1>6, <1>7 DEF TurnStep, TurnCancelled

LEMMA EnvKeepsOwner ==
    ASSUME NEW c, Conns = {c}, peer = c, TypeOK, GateHasOwner(c), UNCHANGED playerVars,
           TextTts(c) \/ StopTimeout(c) \/ ConnectFail(c) \/ TextFail(c),
           handler[c] = "stopStt" => hstt[c] = c
    PROVE  GateHasOwner(c)'
  <1>1. c \in Conns
    OBVIOUS
  <1>2. CASE TextTts(c)
    BY <1>1, <1>2, ChunkSent DEF TextTts, pipelineVars, sttVars
  <1>3. CASE StopTimeout(c)
    <2>1. /\ UNCHANGED <<gate, turn, tcancel, ttts, outbox, inbox>>
          /\ reader[c] \in {"idle", "partial"} /\ reader'[c] = "off"
      BY <1>1, <1>3 DEF StopTimeout, TypeOK, VoiceTypeOK, pipelineVars, turnVars
    <2> QED BY <2>1 DEF GateHasOwner, Releasing, AudioOnItsWay, Occurs, playerVars
  <1>4. CASE ConnectFail(c) \/ TextFail(c)
    <2>1. UNCHANGED <<gate, turn, tcancel, ttts, reader, outbox, inbox>>
      BY <1>4 DEF ConnectFail, TextFail, pipelineVars, sttVars, turnVars
    <2> QED BY <1>1, <2>1, OwnersUntouched
  <1> QED BY <1>2, <1>3, <1>4

LEMMA ClientKeepsOwner ==
    ASSUME NEW c, Conns = {c}, peer = c, handler[c] # "none", TypeOK, GateHasOwner(c),
           ClientStep \/ UserStep
    PROVE  GateHasOwner(c)'
  <1>1. c \in Conns
    OBVIOUS
  <1>2. CASE ClickStart \/ ClickStop \/ MicFrame \/ SendText
    <2>1. PICK m \in InMsgs : Send(m)
      BY <1>2 DEF ClickStart, ClickStop, MicFrame, SendText, InMsgs
    <2>2. UNCHANGED <<gate, turn, tcancel, ttts, reader, outbox, playerVars>>
      BY <1>2 DEF ClickStart, ClickStop, MicFrame, SendText, clientUnchanged,
                  pipelineVars, sttVars, turnVars
    <2> QED BY <1>1, <2>1, <2>2, SendKeeps, OwnersUntouched
  <1>3. CASE RecvTts \/ RecvInterrupt
    <2>1. /\ UNCHANGED <<gate, turn, tcancel, ttts, reader, inbox>>
          /\ outbox \in Seq(OutMsgs) /\ outbox # <<>> /\ outbox' = Tail(outbox)
      BY <1>3 DEF RecvTts, RecvInterrupt, clientUnchanged, pipelineVars, sttVars, turnVars,
                  TypeOK, VoiceTypeOK
    <2>2. ASSUME AudioOnItsWay PROVE AudioOnItsWay'
      <3>1. CASE outbox[Len(outbox)] = "tts" /\ Tail(outbox) # <<>>
        BY <2>1, <3>1, LastOfTail DEF AudioOnItsWay
      <3>2. CASE outbox[Len(outbox)] = "tts" /\ Tail(outbox) = <<>>
        <4>1. Head(outbox) = "tts"
          BY <2>1, <3>2, LastOfTail
        <4>2. decoding' > 0
          BY <1>3, <4>1 DEF RecvTts, RecvInterrupt, PlayWav, TypeOK, PlayerTypeOK
        <4>3. ~Occurs("interrupt", outbox)'
          <5>1. outbox' = <<>> /\ Len(outbox') = 0
            BY <2>1, <3>2, EmptySeq
          <5> QED BY <5>1 DEF Occurs
        <4> QED BY <4>2, <4>3 DEF AudioOnItsWay
      <3>3. CASE outbox[Len(outbox)] # "tts"
        <4>1. (decoding > 0 \/ hasPendingPlayback \/ DecodeMayFail) /\ ~Occurs("interrupt", outbox)
          BY <2>2, <3>3 DEF AudioOnItsWay
        <4>2. ~RecvInterrupt
          BY <2>1, <4>1, EmptySeq DEF RecvInterrupt, Occurs
        <4>3. decoding' > 0 \/ hasPendingPlayback' \/ DecodeMayFail
          BY <1>3, <4>1, <4>2 DEF RecvTts, PlayWav, TypeOK, PlayerTypeOK
        <4>4. ~Occurs("interrupt", outbox)'
          BY <2>1, <4>1, OccursTail DEF Occurs
        <4> QED BY <4>3, <4>4 DEF AudioOnItsWay
      <3> QED BY <3>1, <3>2, <3>3
    <2> QED BY <2>1, <2>2 DEF GateHasOwner, Releasing, Occurs
  <1>4. CASE ChunkDecoded \/ PlaybackEnds
    <2>1. UNCHANGED <<gate, turn, tcancel, ttts, reader, outbox, inbox>>
      BY <1>4 DEF ChunkDecoded, PlaybackEnds, daemonVars, pipelineVars, sttVars, turnVars
    <2>2. decoding > 0 \/ hasPendingPlayback => decoding' > 0 \/ hasPendingPlayback'
      BY <1>4 DEF ChunkDecoded, PlaybackEnds, Decoded, ChunkEnded, TypeOK, PlayerTypeOK
    <2> QED BY <2>1, <2>2 DEF GateHasOwner, Releasing, AudioOnItsWay, Occurs
  <1>5. CASE ReportDrain
    <2>1. UNCHANGED <<gate, turn, tcancel, ttts, reader, outbox, decoding>>
      BY <1>5 DEF ReportDrain, DrainCheck, clientUnchanged, pipelineVars, sttVars, turnVars
    <2>2. CASE Drained
      <3>1. Send("tts_done")
        BY <1>1, <1>5, <2>2, ConnsAssumption DEF ReportDrain
      <3>2. Occurs("tts_done", inbox'[c])
        BY <1>1, <3>1, SendKeeps DEF InMsgs
      <3> QED BY <2>1, <3>2 DEF GateHasOwner
    <2>3. CASE ~Drained
      <3>1. UNCHANGED <<inbox, hasPendingPlayback>>
        BY <1>5, <2>3 DEF ReportDrain, DrainCheck, TypeOK, PlayerTypeOK
      <3> QED BY <2>1, <3>1 DEF GateHasOwner, Releasing, AudioOnItsWay, Occurs
    <2> QED BY <2>2, <2>3
  <1>6. CASE ChunkRejected
    <2>1. DecodeMayFail /\ UNCHANGED <<gate, turn, tcancel, ttts, reader, outbox, inbox>>
      BY <1>6 DEF ChunkRejected, daemonVars, pipelineVars, sttVars, turnVars
    <2> QED BY <2>1 DEF GateHasOwner, Releasing, AudioOnItsWay, Occurs
  <1>7. ~Reload
    BY DEF Reload
  <1> QED BY <1>2, <1>3, <1>4, <1>5, <1>6, <1>7 DEF ClientStep, UserStep

LEMMA FreeIsCleanKept ==
    ASSUME TypeOK, FreeIsClean, [Next]_vars
    PROVE  FreeIsClean'
  <1> USE DEF FreeIsClean, TypeOK, VoiceTypeOK, pipelineVars, sttVars, turnVars, handlerVars
  <1>1. CASE UNCHANGED <<turn, tcancel>>
    BY <1>1
  <1>2. ASSUME NEW c \in Conns, HandlerStep(c)
        PROVE  FreeIsClean'
    BY <1>2, <1>1 DEF HandlerStep, DispatchStart, ConnectOk, DispatchStopInactive, DispatchStop,
                StopCancelled, StopDone, DispatchTtsDone, FeedAudio, DispatchText, TextEnd,
                Disconnect, CurrentLive
  <1>3. ASSUME NEW c \in Conns, ReaderStep(c) \/ SttEvent(c) \/ SttEnds(c)
        PROVE  FreeIsClean'
    <2>1. CASE ReaderFinal(c) \/ ReaderSpeechCancelled(c) \/ SttEnds(c)
      BY <2>1, <1>1 DEF ReaderFinal, ReaderSpeechCancelled, SttEnds
    <2>2. CASE ReaderSpeech(c)
      BY <2>2 DEF ReaderSpeech, CurrentLive
    <2>3. ASSUME DispatchUtterance(c) PROVE FreeIsClean'
      BY <2>3, ZenonT(60) DEF DispatchUtterance, FireTurn, CurrentLive
    <2>4. CASE ReaderUtteranceEnd(c)
      BY <2>4, <2>3, <1>1 DEF ReaderUtteranceEnd
    <2>5. CASE ReaderPartialDone(c)
      BY <2>5, <2>3 DEF ReaderPartialDone
    <2>6. CASE ReaderUttCancelled(c)
      BY <2>6 DEF ReaderUttCancelled, FireTurn
    <2> QED BY <1>3, <2>1, <2>2, <2>4, <2>5, <2>6 DEF ReaderStep, SttEvent, SttCloses
  <1>4. ASSUME NEW t \in Tasks, TurnStep(t) \/ TurnAborts(t)
        PROVE  FreeIsClean'
    BY <1>4, ZenonT(60) DEF TurnStep, TurnBegin, TurnNeverRan, TurnTts, TurnEnd, TurnCancelled, TurnAborts, Finish
  <1>5. ASSUME NEW c \in Conns, TextTts(c) \/ StopTimeout(c) \/ ConnectFail(c) \/ TextFail(c)
        PROVE  FreeIsClean'
    BY <1>5, <1>1 DEF TextTts, StopTimeout, ConnectFail, TextFail
  <1>6. CASE ClientStep \/ UserStep
    BY <1>6, <1>1 DEF ClientStep, RecvTts, RecvInterrupt, ChunkDecoded, PlaybackEnds, ReportDrain,
                UserStep, ClickStart, ClickStop, MicFrame, SendText, ChunkRejected, Reload,
                clientUnchanged, daemonVars
  <1>7. CASE UNCHANGED vars
    BY <1>7, <1>1 DEF vars, daemonVars
  <1> QED
    BY <1>2, <1>3, <1>4, <1>5, <1>6, <1>7 DEF Next, DaemonStep, DaemonEnv

-----------------------------------------------------------------------------
\* The strengthening holds in every state with a single connection (no reload).
THEOREM MuteInvariant ==
    ASSUME NEW c, Conns = {c}
    PROVE  Spec => []MuteInv
  <1>1. Init => MuteInv
    BY DEF Init, VoiceInit, PlayerInit, MuteInv, FreeIsClean, CallbacksInstalled, NoNewTurn, GateHasOwner
  <1>2. TypeOK /\ MuteInv /\ [Next]_vars => MuteInv'
    <2> SUFFICES ASSUME TypeOK, MuteInv, [Next]_vars PROVE MuteInv'
      OBVIOUS
    <2>1. FreeIsClean'
      BY FreeIsCleanKept DEF MuteInv
    <2>2. /\ handler'[c] # "none" /\ peer' \in {c, NoConn}
          /\ peer' = c => peer = c /\ handler'[c] # "closed"
      BY ConnectionKept
    <2>3. ASSUME peer' = c
          PROVE  CallbacksInstalled(c)' /\ GateHasOwner(c)'
      <3>1. CallbacksInstalled(c)'
        BY <2>3, CallbacksKept
      <3> SUFFICES GateHasOwner(c)'
        BY <3>1
      <3>2. /\ peer = c /\ FreeIsClean /\ handler[c] # "none"
            /\ CallbacksInstalled(c) /\ GateHasOwner(c)
        BY <2>2, <2>3 DEF MuteInv
      <3>3. CASE ClientStep \/ UserStep
        BY <3>2, <3>3, ClientKeepsOwner
      <3>4. CASE DaemonStep /\ UNCHANGED <<playerVars, recording>>
        <4>1. UNCHANGED playerVars
          BY <3>4
        <4>2. CASE \E t \in Tasks : TurnStep(t) \/ TurnAborts(t)
          BY <3>2, <4>1, <4>2, TurnKeepsOwner
        <4>3. CASE ReaderStep(c) \/ SttEvent(c) \/ SttEnds(c)
          BY <3>2, <4>1, <4>3, ReaderKeepsOwner
        <4>4. CASE HandlerStep(c)
          BY <3>2, <4>1, <4>4, HandlerKeepsOwner
        <4>5. CASE TextTts(c) \/ StopTimeout(c) \/ ConnectFail(c) \/ TextFail(c)
          BY <3>2, <4>1, <4>5, EnvKeepsOwner DEF CallbacksInstalled
        <4> QED BY <3>4, <4>2, <4>3, <4>4, <4>5 DEF DaemonStep, DaemonEnv
      <3>5. CASE UNCHANGED vars
        BY <3>2, <3>5, OwnersUntouched
           DEF vars, daemonVars, pipelineVars, sttVars, turnVars
      <3> QED BY <3>1, <3>3, <3>4, <3>5 DEF Next
    <2> QED BY <2>1, <2>2, <2>3 DEF MuteInv
  <1> QED BY <1>1, <1>2, TypeCorrect, PTL DEF Spec

\* NoStrandedMute for every number of tasks, chunks and frames in flight: while
\* the client is connected, an engaged gate is still going to be released.  With a single
\* connection and a decoder that accepts every chunk.
THEOREM NoStrandedMuteHolds ==
    ASSUME NEW c, Conns = {c}, ~DecodeMayFail
    PROVE  Spec => []NoStrandedMute
  <1>1. TypeOK /\ MuteInv => NoStrandedMute
    <2> SUFFICES ASSUME TypeOK, MuteInv, gate, peer # NoConn PROVE ReleaseUnderWay
      BY DEF NoStrandedMute
    <2>1. peer = c /\ GateHasOwner(c)
      BY DEF MuteInv
    <2>2. CASE \E t \in Tasks : Releasing(t)
      BY <2>2 DEF Releasing, ReleaseUnderWay, LiveTurns
    <2>3. CASE AudioOnItsWay
      <3>1. outbox # <<>> => Len(outbox) \in 1..Len(outbox)
        BY EmptySeq DEF TypeOK, VoiceTypeOK
      <3> QED BY <2>3, <3>1 DEF AudioOnItsWay, ReleaseUnderWay, Occurs
    <2> QED BY <2>1, <2>2, <2>3 DEF GateHasOwner, ReleaseUnderWay
  <1> QED BY <1>1, TypeCorrect, MuteInvariant, PTL

\* The report that a cancellation does not make is not missed, also if chunks are rejected:
\* while an interrupt is on its way, an engaged gate is released by something that the
\* interrupt does not discard.
THEOREM LostReportNotMissedHolds ==
    ASSUME NEW c, Conns = {c}
    PROVE  Spec => []LostReportNotMissed
  <1>1. MuteInv => LostReportNotMissed
    <2> SUFFICES ASSUME MuteInv, gate, peer # NoConn, Occurs("interrupt", outbox)
                 PROVE  \/ \E t \in Tasks : Releasing(t)
                        \/ \E d \in Conns : reader[d] = "uttCancel"
                        \/ outbox[Len(outbox)] = "tts"
                        \/ Occurs("tts_done", inbox[peer])
      BY DEF LostReportNotMissed
    <2>1. peer = c /\ GateHasOwner(c)
      BY DEF MuteInv
    <2> QED BY <2>1 DEF GateHasOwner, AudioOnItsWay
  <1> QED BY <1>1, MuteInvariant, PTL
=============================================================================
