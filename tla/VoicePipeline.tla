--------------------------- MODULE VoicePipeline ---------------------------
(***************************************************************************)
(* The daemon's half of a voice session: the WebSocket handlers            *)
(* (interface/server.py), the VoicePipeline they share (voice/pipeline.py) *)
(* with its half-duplex gate, the Deepgram reader task                     *)
(* (voice/stt_deepgram.py), and the turn tasks the pipeline fires.         *)
(*                                                                         *)
(* asyncio runs one task at a time, from one await to the next: an action  *)
(* is what a task does between two awaits.  The only state two tasks can   *)
(* see change under them is what they read before an await.  What the LLM  *)
(* and VOICEVOX produce during a turn is reduced to the number of TTS      *)
(* chunks it sends.                                                        *)
(***************************************************************************)
EXTENDS Naturals, Sequences

CONSTANTS
    Conns,      \* WebSocket connections a client ever opens
    NoConn,     \* no connection / callback not set (None)
    Tasks,      \* asyncio.Task slots; a finished task's slot is reused
    NoTask,     \* _current_turn is None
    MaxTts,     \* bound: TTS chunks one turn may send
    MaxHeard,   \* bound: transcripts Deepgram may still owe
    QLen        \* bound: frames in flight before a writer waits

ASSUME ConnsAssumption == NoConn \notin Conns
ASSUME TasksAssumption == NoTask \notin Tasks
ASSUME BoundsAssumption == MaxTts \in Nat /\ MaxHeard \in Nat /\ QLen \in Nat

VARIABLES
    active,     \* pipeline._active
    gate,       \* pipeline._agent_audio_pending
    segs,       \* pipeline._final_segments holds a final transcript
    cbs,        \* the connection the three pipeline callbacks write to
    current,    \* pipeline._current_turn
    sttWs,      \* stt._ws / stt._reader: the connection that opened it
    sttCbs,     \* stt._on_*: the pipeline's handlers are installed
    reader,     \* control point of the reader task each connection opened
    rwait,      \* the task a reader awaits in _cancel_current_turn
    heard,      \* speech on each STT stream not yet turned into a transcript
    turn,       \* control point of each turn task
    tcancel,    \* task.cancel() was called on it
    tcb,        \* the event callback the task captured
    ttts,       \* TTS chunks it has sent
    handler,    \* control point of each connection's WebSocket handler
    hwait,      \* the task a handler awaits in _cancel_current_turn
    hstt,       \* the reader a handler awaits in stt.stop
    peer,       \* the connection whose client is still there
    inbox,      \* frames sent by each client and not yet received
    outbox      \* frames sent to the live client and not yet received

pipelineVars == <<active, gate, segs, cbs, current>>
sttVars      == <<sttWs, sttCbs, reader, rwait, heard>>
turnVars     == <<turn, tcancel, tcb, ttts>>
handlerVars  == <<handler, hwait, hstt>>
daemonVars   == <<pipelineVars, sttVars, turnVars, handlerVars, peer, inbox, outbox>>

InMsgs  == {"start", "stop", "tts_done", "mic", "echo", "text"}
OutMsgs == {"tts", "interrupt"}

VoiceTypeOK ==
    /\ active \in BOOLEAN /\ gate \in BOOLEAN /\ segs \in BOOLEAN
    /\ cbs \in Conns \cup {NoConn}
    /\ current \in Tasks \cup {NoTask}
    /\ sttWs \in Conns \cup {NoConn} /\ sttCbs \in BOOLEAN
    /\ reader \in [Conns -> {"off", "idle", "partial", "uttCancel", "speechCancel"}]
    /\ rwait \in [Conns -> Tasks \cup {NoTask}]
    /\ heard \in [Conns -> 0..MaxHeard]
    /\ turn \in [Tasks -> {"done", "new", "running"}]
    /\ tcancel \in [Tasks -> BOOLEAN]
    /\ tcb \in [Tasks -> Conns \cup {NoConn}]
    /\ ttts \in [Tasks -> 0..MaxTts]
    /\ handler \in [Conns -> {"none", "idle", "connect", "stopCancel", "stopStt", "text", "closed"}]
    /\ hwait \in [Conns -> Tasks \cup {NoTask}]
    /\ hstt \in [Conns -> Conns \cup {NoConn}]
    /\ peer \in Conns \cup {NoConn}
    /\ inbox \in [Conns -> Seq(InMsgs)]
    /\ outbox \in Seq(OutMsgs)

VoiceInit ==
    /\ active = FALSE /\ gate = FALSE /\ segs = FALSE
    /\ cbs = NoConn /\ current = NoTask
    /\ sttWs = NoConn /\ sttCbs = FALSE
    /\ reader = [c \in Conns |-> "off"]
    /\ rwait = [c \in Conns |-> NoTask]
    /\ heard = [c \in Conns |-> 0]
    /\ turn = [t \in Tasks |-> "done"]
    /\ tcancel = [t \in Tasks |-> FALSE]
    /\ tcb = [t \in Tasks |-> NoConn]
    /\ ttts = [t \in Tasks |-> 0]
    /\ peer \in Conns
    /\ handler = [c \in Conns |-> IF c = peer THEN "idle" ELSE "none"]
    /\ hwait = [c \in Conns |-> NoTask]
    /\ hstt = [c \in Conns |-> NoConn]
    /\ inbox = [c \in Conns |-> <<>>]
    /\ outbox = <<>>

-----------------------------------------------------------------------------
(* Helpers. *)

CurrentLive == current # NoTask /\ turn[current] # "done"
LiveTurns   == {t \in Tasks : turn[t] # "done"}

\* A slot no task object lives in any more and nobody awaits.
FreeTask(t) == /\ turn[t] = "done"
               /\ \A c \in Conns : rwait[c] # t /\ hwait[c] # t

\* ws.send_* on connection c: delivered, lost with a dead client, or not sent.
Deliver(c, m) == outbox' = IF c = peer THEN Append(outbox, m) ELSE outbox
CanSend == Len(outbox) < QLen

Receive(c, m) == /\ handler[c] = "idle"
                 /\ inbox[c] # <<>> /\ Head(inbox[c]) = m
                 /\ inbox' = [inbox EXCEPT ![c] = Tail(@)]

-----------------------------------------------------------------------------
(* The WebSocket handler: receive -> _dispatch, one frame at a time. *)

\* voice.start: install the callbacks, start_session up to websockets.connect.
DispatchStart(c) ==
    /\ Receive(c, "start")
    /\ cbs' = c
    /\ active' = TRUE
    /\ segs' = IF active THEN segs ELSE FALSE
    /\ IF active \/ sttWs # NoConn
       THEN UNCHANGED <<sttCbs, handler>>
       ELSE /\ sttCbs' = TRUE
            /\ handler' = [handler EXCEPT ![c] = "connect"]
    /\ UNCHANGED <<gate, current, sttWs, reader, rwait, heard, turnVars, hwait, hstt, peer, outbox>>

\* websockets.connect returned: keep the socket, spawn the reader (bound: one
\* live reader per connection that opened it).
ConnectOk(c) ==
    /\ handler[c] = "connect"
    /\ reader[c] = "off"
    /\ handler' = [handler EXCEPT ![c] = "idle"]
    /\ sttWs' = c
    /\ reader' = [reader EXCEPT ![c] = "idle"]
    /\ heard' = [heard EXCEPT ![c] = 0]
    /\ UNCHANGED <<pipelineVars, sttCbs, rwait, turnVars, hwait, hstt, peer, inbox, outbox>>

\* An exception leaves the handler: the socket is closed under the client.
HandlerRaises(c) ==
    /\ handler' = [handler EXCEPT ![c] = "closed"]
    /\ peer' = IF peer = c THEN NoConn ELSE peer

ConnectFail(c) ==
    /\ handler[c] = "connect"
    /\ HandlerRaises(c)
    /\ UNCHANGED <<pipelineVars, sttVars, turnVars, hwait, hstt, inbox, outbox>>

\* stt.stop up to its first await, then the rest of stop_session if it has none.
SttStop(c) ==
    /\ sttWs' = NoConn
    /\ sttCbs' = FALSE
    /\ hstt' = [hstt EXCEPT ![c] = sttWs]
    /\ IF sttWs = NoConn
       THEN /\ handler' = [handler EXCEPT ![c] = "idle"]
            /\ segs' = FALSE /\ cbs' = NoConn
       ELSE /\ handler' = [handler EXCEPT ![c] = "stopStt"]
            /\ UNCHANGED <<segs, cbs>>

\* voice.stop with no session: only the callbacks are cleared.
DispatchStopInactive(c) ==
    /\ ~active
    /\ Receive(c, "stop")
    /\ cbs' = NoConn
    /\ UNCHANGED <<active, gate, segs, current, sttVars, turnVars, handlerVars, peer, outbox>>

\* voice.stop: release the gate and cancel the current turn, or go on to stt.stop.
DispatchStop(c) ==
    /\ active
    /\ Receive(c, "stop")
    /\ active' = FALSE /\ gate' = FALSE
    /\ IF CurrentLive
       THEN /\ tcancel' = [tcancel EXCEPT ![current] = TRUE]
            /\ hwait' = [hwait EXCEPT ![c] = current]
            /\ handler' = [handler EXCEPT ![c] = "stopCancel"]
            /\ UNCHANGED <<segs, cbs, current, sttWs, sttCbs, hstt>>
       ELSE /\ current' = NoTask
            /\ SttStop(c)
            /\ UNCHANGED <<tcancel, hwait>>
    /\ UNCHANGED <<reader, rwait, heard, turn, tcb, ttts, peer, outbox>>

\* The cancelled turn is over: forget _current_turn, whatever it is by now.
StopCancelled(c) ==
    /\ handler[c] = "stopCancel"
    /\ turn[hwait[c]] = "done"
    /\ current' = NoTask
    /\ hwait' = [hwait EXCEPT ![c] = NoTask]
    /\ SttStop(c)
    /\ UNCHANGED <<active, gate, reader, rwait, heard, turnVars, peer, inbox, outbox>>

\* The awaited reader is over: the rest of stop_session and of voice.stop.  The
\* ready queue is FIFO, so a task created before the reader ended has begun.
StopDone(c) ==
    /\ handler[c] = "stopStt"
    /\ reader[hstt[c]] = "off"
    /\ \A t \in Tasks : turn[t] # "new"
    /\ handler' = [handler EXCEPT ![c] = "idle"]
    /\ hstt' = [hstt EXCEPT ![c] = NoConn]
    /\ segs' = FALSE
    /\ cbs' = NoConn
    /\ UNCHANGED <<active, gate, current, sttVars, turnVars, hwait, peer, inbox, outbox>>

\* wait_for gives up after three seconds: the reader is cancelled where it waits.
StopTimeout(c) ==
    /\ handler[c] = "stopStt"
    /\ reader[hstt[c]] \in {"idle", "partial"}
    /\ reader' = [reader EXCEPT ![hstt[c]] = "off"]
    /\ heard' = [heard EXCEPT ![hstt[c]] = 0]
    /\ UNCHANGED <<pipelineVars, sttWs, sttCbs, rwait, turnVars, handlerVars, peer, inbox, outbox>>

\* Faulty: a voice.tts_done that arrives while the turn still runs is ignored.
DispatchTtsDoneIfIdle(c) ==
    /\ Receive(c, "tts_done")
    /\ gate' = (gate /\ CurrentLive)
    /\ UNCHANGED <<active, segs, cbs, current, sttVars, turnVars, handlerVars, peer, outbox>>

\* voice.tts_done: notify_tts_done.
DispatchTtsDone(c) ==
    /\ Receive(c, "tts_done")
    /\ gate' = FALSE
    /\ UNCHANGED <<active, segs, cbs, current, sttVars, turnVars, handlerVars, peer, outbox>>

\* A binary mic frame: feed_audio.  "echo" is a frame captured while the
\* client was playing the agent's voice.
FeedAudio(c) ==
    /\ \E m \in {"mic", "echo"} :
        /\ Receive(c, m)
        /\ heard' = IF /\ active /\ ~gate
                       /\ sttWs # NoConn /\ reader[sttWs] # "off"
                       /\ heard[sttWs] < MaxHeard
                    THEN [heard EXCEPT ![sttWs] = @ + 1]
                    ELSE heard
    /\ UNCHANGED <<pipelineVars, sttWs, sttCbs, reader, rwait, turnVars, handlerVars, peer, outbox>>

\* session.send_text: the whole turn is streamed before the next frame is read
\* (bound: it sends TTS only while the frames left unread are few).
DispatchText(c) ==
    /\ Receive(c, "text")
    /\ handler' = [handler EXCEPT ![c] = "text"]
    /\ UNCHANGED <<pipelineVars, sttVars, turnVars, hwait, hstt, peer, outbox>>

TextTts(c) ==
    /\ handler[c] = "text"
    /\ CanSend /\ Len(inbox[c]) < QLen
    /\ Deliver(c, "tts")
    /\ UNCHANGED <<pipelineVars, sttVars, turnVars, handlerVars, peer, inbox>>

TextEnd(c) ==
    /\ handler[c] = "text"
    /\ handler' = [handler EXCEPT ![c] = "idle"]
    /\ UNCHANGED <<pipelineVars, sttVars, turnVars, hwait, hstt, peer, inbox, outbox>>

\* An LLM error, or a send to a client that is gone, ends the handler.
TextFail(c) ==
    /\ handler[c] = "text"
    /\ HandlerRaises(c)
    /\ UNCHANGED <<pipelineVars, sttVars, turnVars, hwait, hstt, inbox, outbox>>

\* websocket.disconnect, after every frame the client had sent.
Disconnect(c) ==
    /\ handler[c] = "idle"
    /\ peer # c
    /\ inbox[c] = <<>>
    /\ handler' = [handler EXCEPT ![c] = "closed"]
    /\ UNCHANGED <<pipelineVars, sttVars, turnVars, hwait, hstt, peer, inbox, outbox>>

-----------------------------------------------------------------------------
(* The reader task of the STT stream connection c opened. *)

\* A final transcript (interim ones only reach the caption).
ReaderFinal(c) ==
    /\ reader[c] = "idle" /\ heard[c] > 0
    /\ heard' = [heard EXCEPT ![c] = @ - 1]
    /\ segs' = (segs \/ sttCbs)
    /\ UNCHANGED <<active, gate, cbs, current, sttWs, sttCbs, reader, rwait, turnVars, handlerVars, peer, inbox, outbox>>

\* Faulty: SpeechStarted cancels the turn although the gate is engaged.
ReaderSpeechUngated(c) ==
    /\ reader[c] = "idle" /\ heard[c] > 0
    /\ sttCbs
    /\ CurrentLive
    /\ tcancel' = [tcancel EXCEPT ![current] = TRUE]
    /\ rwait' = [rwait EXCEPT ![c] = current]
    /\ reader' = [reader EXCEPT ![c] = "speechCancel"]
    /\ UNCHANGED <<pipelineVars, sttWs, sttCbs, heard, turn, tcb, ttts, handlerVars, peer, inbox, outbox>>

\* SpeechStarted with the gate open cancels a running turn.
ReaderSpeech(c) ==
    /\ reader[c] = "idle" /\ heard[c] > 0
    /\ sttCbs
    /\ ~gate
    /\ CurrentLive
    /\ tcancel' = [tcancel EXCEPT ![current] = TRUE]
    /\ rwait' = [rwait EXCEPT ![c] = current]
    /\ reader' = [reader EXCEPT ![c] = "speechCancel"]
    /\ UNCHANGED <<pipelineVars, sttWs, sttCbs, heard, turn, tcb, ttts, handlerVars, peer, inbox, outbox>>

ReaderSpeechCancelled(c) ==
    /\ reader[c] = "speechCancel"
    /\ turn[rwait[c]] = "done"
    /\ CanSend
    /\ current' = NoTask
    /\ rwait' = [rwait EXCEPT ![c] = NoTask]
    /\ reader' = [reader EXCEPT ![c] = "idle"]
    /\ IF cbs # NoConn THEN Deliver(cbs, "interrupt") ELSE UNCHANGED outbox
    /\ UNCHANGED <<active, gate, segs, cbs, sttWs, sttCbs, heard, turnVars, handlerVars, peer, inbox>>

\* Engage the gate and create the turn task.
FireTurn(c, t) ==
    /\ FreeTask(t)
    /\ gate' = TRUE
    /\ current' = t
    /\ turn' = [turn EXCEPT ![t] = "new"]
    /\ UNCHANGED tcancel
    /\ reader' = [reader EXCEPT ![c] = "idle"]

\* Faulty: the previous turn is awaited but not cancelled.
DispatchUtteranceWaits(c) ==
    \/ /\ CurrentLive
       /\ UNCHANGED tcancel
       /\ rwait' = [rwait EXCEPT ![c] = current]
       /\ reader' = [reader EXCEPT ![c] = "uttCancel"]
       /\ UNCHANGED <<gate, current, turn>>
    \/ /\ ~CurrentLive
       /\ \E t \in Tasks : FireTurn(c, t)
       /\ UNCHANGED rwait

\* The caption is reset: cancel a turn that still runs, or fire the next one.
DispatchUtterance(c) ==
    \/ /\ CurrentLive
       /\ tcancel' = [tcancel EXCEPT ![current] = TRUE]
       /\ rwait' = [rwait EXCEPT ![c] = current]
       /\ reader' = [reader EXCEPT ![c] = "uttCancel"]
       /\ UNCHANGED <<gate, current, turn>>
    \/ /\ ~CurrentLive
       /\ \E t \in Tasks : FireTurn(c, t)
       /\ UNCHANGED rwait

\* UtteranceEnd with a transcript: the caption is reset first, if anyone listens.
ReaderUtteranceEnd(c) ==
    /\ reader[c] = "idle"
    /\ sttCbs
    /\ segs
    /\ segs' = FALSE
    /\ IF cbs # NoConn
       THEN /\ reader' = [reader EXCEPT ![c] = "partial"]
            /\ UNCHANGED <<gate, current, rwait, turn, tcancel>>
       ELSE DispatchUtterance(c)
    /\ UNCHANGED <<active, cbs, sttWs, sttCbs, heard, tcb, ttts, handlerVars, peer, inbox, outbox>>

ReaderPartialDone(c) ==
    /\ reader[c] = "partial"
    /\ DispatchUtterance(c)
    /\ UNCHANGED <<active, segs, cbs, sttWs, sttCbs, heard, tcb, ttts, handlerVars, peer, inbox, outbox>>

ReaderUttCancelled(c) ==
    /\ reader[c] = "uttCancel"
    /\ turn[rwait[c]] = "done"
    /\ \E t \in Tasks : FireTurn(c, t)
    /\ rwait' = [rwait EXCEPT ![c] = NoTask]
    /\ UNCHANGED <<active, segs, cbs, sttWs, sttCbs, heard, tcb, ttts, handlerVars, peer, inbox, outbox>>

\* The STT stream ends: Deepgram closes it, on CloseStream or on its own.
SttEnds(c) ==
    /\ reader[c] = "idle"
    /\ reader' = [reader EXCEPT ![c] = "off"]
    /\ heard' = [heard EXCEPT ![c] = 0]
    /\ UNCHANGED <<pipelineVars, sttWs, sttCbs, rwait, turnVars, handlerVars, peer, inbox, outbox>>

\* Faulty: nothing makes the stream end (no CloseStream, no timeout).
SttClosesNever(c) == FALSE /\ SttEnds(c)

\* It ends because a handler has sent CloseStream.
SttCloses(c) == (\E h \in Conns : handler[h] = "stopStt" /\ hstt[h] = c) /\ SttEnds(c)

-----------------------------------------------------------------------------
(* A turn task: VoicePipeline._run_turn. *)

TurnBegin(t) ==
    /\ turn[t] = "new" /\ ~tcancel[t]
    /\ turn' = [turn EXCEPT ![t] = "running"]
    /\ tcb' = [tcb EXCEPT ![t] = cbs]
    /\ ttts' = [ttts EXCEPT ![t] = 0]
    /\ UNCHANGED <<pipelineVars, sttVars, tcancel, handlerVars, peer, inbox, outbox>>

\* The task is over and its coroutine's locals are gone.
Finish(t) ==
    /\ turn' = [turn EXCEPT ![t] = "done"]
    /\ tcancel' = [tcancel EXCEPT ![t] = FALSE]
    /\ tcb' = [tcb EXCEPT ![t] = NoConn]
    /\ ttts' = [ttts EXCEPT ![t] = 0]

\* Cancelled before its first step: the coroutine never runs, nor its handlers.
TurnNeverRan(t) ==
    /\ turn[t] = "new" /\ tcancel[t]
    /\ Finish(t)
    /\ UNCHANGED <<pipelineVars, sttVars, handlerVars, peer, inbox, outbox>>

TurnTts(t) ==
    /\ turn[t] = "running" /\ ~tcancel[t]
    /\ ttts[t] < MaxTts
    /\ CanSend
    /\ Deliver(tcb[t], "tts")
    /\ ttts' = [ttts EXCEPT ![t] = @ + 1]
    /\ UNCHANGED <<pipelineVars, sttVars, turn, tcancel, tcb, handlerVars, peer, inbox>>

\* Faulty: a turn that sent no TTS leaves the gate to a voice.tts_done.
TurnEndKeepsGate(t) ==
    /\ turn[t] = "running" /\ ~tcancel[t]
    /\ Finish(t)
    /\ UNCHANGED <<pipelineVars, sttVars, handlerVars, peer, inbox, outbox>>

\* The reply is complete: a turn without TTS clears the gate itself.
TurnEnd(t) ==
    /\ turn[t] = "running" /\ ~tcancel[t]
    /\ Finish(t)
    /\ gate' = IF ttts[t] = 0 THEN FALSE ELSE gate
    /\ UNCHANGED <<active, segs, cbs, current, sttVars, handlerVars, peer, inbox, outbox>>

\* CancelledError or any other exception in the body: the gate is released.
TurnAborts(t) ==
    /\ turn[t] = "running"
    /\ Finish(t)
    /\ gate' = FALSE
    /\ UNCHANGED <<active, segs, cbs, current, sttVars, handlerVars, peer, inbox, outbox>>

TurnCancelled(t) == tcancel[t] /\ TurnAborts(t)

-----------------------------------------------------------------------------
HandlerStep(c) ==
    \/ DispatchStart(c) \/ ConnectOk(c) \/ DispatchStopInactive(c) \/ DispatchStop(c)
    \/ StopCancelled(c) \/ StopDone(c) \/ DispatchTtsDone(c) \/ FeedAudio(c)
    \/ DispatchText(c) \/ TextEnd(c) \/ Disconnect(c)

ReaderStep(c) ==
    \/ ReaderSpeechCancelled(c) \/ ReaderPartialDone(c) \/ ReaderUttCancelled(c)
    \/ SttCloses(c)

TurnStep(t) ==
    \/ TurnBegin(t) \/ TurnNeverRan(t) \/ TurnTts(t) \/ TurnEnd(t) \/ TurnCancelled(t)

\* Deepgram's events: what it hears is up to the user.
SttEvent(c) == ReaderFinal(c) \/ ReaderSpeech(c) \/ ReaderUtteranceEnd(c)

\* What the daemon does without being owed it: optional output and failures.
DaemonEnv ==
    \/ \E c \in Conns : \/ SttEvent(c) \/ TextTts(c) \/ StopTimeout(c)
                        \/ SttEnds(c) \/ ConnectFail(c) \/ TextFail(c)
    \/ \E t \in Tasks : TurnAborts(t)
=============================================================================
