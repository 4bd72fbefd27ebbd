----------------------------- MODULE VoiceLoop -----------------------------
(***************************************************************************)
(* The whole half-duplex loop: the daemon (VoicePipeline), the client's    *)
(* player (TtsPlayer), the voice button and microphone, and the one        *)
(* ordered WebSocket between them.                                         *)
(***************************************************************************)
EXTENDS VoicePipeline, TtsPlayer

CONSTANTS
    AllowText,        \* the user also types (session.send_text)
    DecodeMayFail,    \* decodeAudioData may reject a chunk
    MayReload         \* the page may be reloaded, opening the next connection

VARIABLES recording   \* the voice button is on and the microphone is captured

vars == <<daemonVars, playerVars, recording>>

TypeOK == VoiceTypeOK /\ PlayerTypeOK /\ recording \in BOOLEAN

Init == VoiceInit /\ PlayerInit /\ recording = FALSE

-----------------------------------------------------------------------------
(* Client steps.  JavaScript is single threaded: none of them runs between *)
(* an event and its microtask.                                             *)

Send(m) == inbox' = [inbox EXCEPT ![peer] = Append(@, m)]

\* Bound: the user's messages (never the player's) wait for room.  A microphone
\* frame is sent only when no other is in flight.
HasRoom == peer # NoConn /\ Len(inbox[peer]) < QLen
MicInFlight == \E i \in 1..Len(inbox[peer]) : inbox[peer][i] \in {"mic", "echo"}

clientUnchanged == <<pipelineVars, sttVars, turnVars, handlerVars, peer>>

ClickStart ==
    /\ ~drainCheckScheduled /\ ~recording /\ HasRoom
    /\ recording' = TRUE
    /\ Send("start")
    /\ UNCHANGED <<clientUnchanged, outbox, playerVars>>

ClickStop ==
    /\ ~drainCheckScheduled /\ recording /\ HasRoom
    /\ recording' = FALSE
    /\ Send("stop")
    /\ UNCHANGED <<clientUnchanged, outbox, playerVars>>

\* onaudioprocess: the speakers are in the recording while a chunk plays.
MicFrame ==
    /\ ~drainCheckScheduled /\ recording /\ HasRoom /\ ~MicInFlight
    /\ Send(IF scheduled > 0 THEN "echo" ELSE "mic")
    /\ UNCHANGED <<clientUnchanged, outbox, playerVars, recording>>

SendText ==
    /\ AllowText
    /\ ~drainCheckScheduled /\ HasRoom
    /\ Send("text")
    /\ UNCHANGED <<clientUnchanged, outbox, playerVars, recording>>

RecvTts ==
    /\ outbox # <<>> /\ Head(outbox) = "tts"
    /\ outbox' = Tail(outbox)
    /\ PlayWav
    /\ UNCHANGED <<clientUnchanged, inbox, recording>>

\* agent.interrupt
RecvInterrupt ==
    /\ outbox # <<>> /\ Head(outbox) = "interrupt"
    /\ outbox' = Tail(outbox)
    /\ CancelPlayback
    /\ UNCHANGED <<clientUnchanged, inbox, recording>>

ChunkDecoded == Decoded /\ UNCHANGED <<daemonVars, recording>>

ChunkRejected == DecodeMayFail /\ DecodeFails /\ UNCHANGED <<daemonVars, recording>>

PlaybackEnds == ChunkEnded /\ UNCHANGED <<daemonVars, recording>>

\* The drained callback sends voice.tts_done on the open connection.
ReportDrain ==
    /\ DrainCheck
    /\ IF Drained /\ peer # NoConn THEN Send("tts_done") ELSE UNCHANGED inbox
    /\ UNCHANGED <<clientUnchanged, outbox, recording>>

\* The page is reloaded: its player and button are gone, a new socket opens.
Reload ==
    /\ MayReload
    /\ \E c \in Conns :
        /\ handler[c] = "none"
        /\ peer' = c
        /\ handler' = [handler EXCEPT ![c] = "idle"]
    /\ outbox' = <<>>
    /\ decoding' = 0 /\ scheduled' = 0
    /\ hasPendingPlayback' = FALSE /\ drainCheckScheduled' = FALSE
    /\ recording' = FALSE
    /\ UNCHANGED <<pipelineVars, sttVars, turnVars, hwait, hstt, inbox>>

ClientStep == RecvTts \/ RecvInterrupt \/ ChunkDecoded \/ PlaybackEnds \/ ReportDrain

UserStep == ClickStart \/ ClickStop \/ MicFrame \/ SendText \/ ChunkRejected \/ Reload

DaemonStep ==
    \/ \E c \in Conns : HandlerStep(c) \/ ReaderStep(c)
    \/ \E t \in Tasks : TurnStep(t)
    \/ DaemonEnv

Next == \/ ClientStep
        \/ UserStep
        \/ DaemonStep /\ UNCHANGED <<playerVars, recording>>

Spec == Init /\ [][Next]_vars

\* The event loop runs every ready task, Deepgram answers CloseStream or the
\* three-second timeout does, a reply is finite, and audio plays to its end.
Fairness ==
    /\ \A c \in Conns : WF_vars(HandlerStep(c) /\ UNCHANGED <<playerVars, recording>>)
    /\ \A c \in Conns : WF_vars(ReaderStep(c) /\ UNCHANGED <<playerVars, recording>>)
    /\ \A t \in Tasks : WF_vars(TurnStep(t) /\ UNCHANGED <<playerVars, recording>>)
    /\ WF_vars(RecvTts) /\ WF_vars(RecvInterrupt)
    /\ WF_vars(ChunkDecoded) /\ WF_vars(PlaybackEnds) /\ WF_vars(ReportDrain)

FairSpec == Spec /\ Fairness

-----------------------------------------------------------------------------
(* Properties. *)

Occurs(m, q) == \E i \in 1..Len(q) : q[i] = m

\* Something is still under way that ends with the gate being released: a turn
\* that lives, a turn about to be fired, audio on its way or playing, or a
\* voice.tts_done not yet handled.
ReleaseUnderWay ==
    \/ LiveTurns # {}
    \/ \E c \in Conns : reader[c] = "uttCancel"
    \/ Occurs("tts", outbox)
    \/ decoding > 0
    \/ hasPendingPlayback
    \/ Occurs("tts_done", inbox[peer])

\* While a client is connected the microphone gate is never engaged with nobody
\* left to release it (pipeline.py:193-197, the gate's only other exits being
\* voice.tts_done and voice.stop).
NoStrandedMute == gate /\ peer # NoConn => ReleaseUnderWay

\* The strengthening of NoStrandedMute that every step preserves when the page is
\* never reloaded.  A turn releases the gate itself unless it ends with TTS sent;
\* the audio it sent releases it unless an interrupt sent later discards it, or the
\* decoder rejects it.
Releasing(t) ==
    \/ turn[t] = "new" /\ ~tcancel[t]
    \/ turn[t] = "running" /\ (ttts[t] = 0 \/ tcancel[t])

AudioOnItsWay ==
    \/ outbox # <<>> /\ outbox[Len(outbox)] = "tts"
    \/ (decoding > 0 \/ hasPendingPlayback \/ DecodeMayFail) /\ ~Occurs("interrupt", outbox)

GateHasOwner(c) ==
    /\ gate => \/ \E t \in Tasks : Releasing(t)
               \/ reader[c] = "uttCancel"
               \/ AudioOnItsWay
               \/ Occurs("tts_done", inbox[c])
    /\ reader[c] = "speechCancel" => ~gate

\* A turn is created, and begins, only while the callbacks lead to the client.
NoNewTurn == \A t \in Tasks : turn[t] # "new"

CallbacksInstalled(c) ==
    /\ reader[c] # "off" \/ ~NoNewTurn \/ sttWs = c => cbs = c
    /\ \A t \in Tasks : turn[t] = "running" => tcb[t] = c
    /\ active => sttWs = c \/ handler[c] = "connect"
    /\ ~active /\ handler[c] \in {"idle", "text"} =>
          sttWs = NoConn /\ reader[c] = "off" /\ NoNewTurn
    /\ handler[c] = "connect" => active /\ cbs = c /\ reader[c] = "off" /\ NoNewTurn
    /\ handler[c] = "stopCancel" => ~active /\ sttWs = c
    /\ handler[c] = "stopStt" => ~active /\ sttWs = NoConn /\ hstt[c] = c

\* A slot to be reused carries no cancellation over to its next task.
FreeIsClean == \A t \in Tasks : turn[t] = "done" => ~tcancel[t]

MuteInv ==
    /\ FreeIsClean
    /\ \A c \in Conns :
          /\ handler[c] # "none" /\ peer \in {c, NoConn}
          /\ peer = c => /\ handler[c] # "closed"
                         /\ CallbacksInstalled(c)
                         /\ GateHasOwner(c)

\* Whoever waits for a turn in _cancel_current_turn waits for one that was told
\* to stop (pipeline.py:199-207): no handler or reader waits out a whole reply.
Stopping(t) == t \in Tasks /\ (turn[t] = "done" \/ tcancel[t])

AwaitedIsCancelled ==
    \A c \in Conns :
        /\ reader[c] \in {"uttCancel", "speechCancel"} => Stopping(rwait[c])
        /\ handler[c] = "stopCancel" => Stopping(hwait[c])

\* cancelPlayback discards the chunks before an interrupt and reports no drain
\* (ttsPlayer.ts:104-126, pipeline.py:132-143).  Nobody waits for that report: if the gate is
\* engaged while an interrupt is on its way, it will be released by a turn, by a chunk sent
\* behind the interrupt, or by a report sent before.
LostReportNotMissed ==
    gate /\ peer # NoConn /\ Occurs("interrupt", outbox) =>
        \/ \E t \in Tasks : Releasing(t)
        \/ \E c \in Conns : reader[c] = "uttCancel"
        \/ outbox[Len(outbox)] = "tts"
        \/ Occurs("tts_done", inbox[peer])

\* The gate, once engaged, is released, or the client is lost with its socket
\* (pipeline.py:58-62, 193-197).
MuteReleased == gate ~> ~gate \/ peer = NoConn

\* voice.stop is completed: cancelling the turn and closing the STT stream end.
StopCompletes ==
    \A c \in Conns : handler[c] \in {"stopCancel", "stopStt"} ~> handler[c] = "idle"

\* pipeline.py:158-159, "If a previous turn is somehow still running ..., cancel
\* it before starting a new one": two voice turns never run at once.
OneTurnAtATime == \A s, t \in Tasks : turn[s] = "running" /\ turn[t] = "running" => s = t
=============================================================================
