---------------------------- MODULE ReplyBubble ----------------------------
(***************************************************************************)
(* What the page shows (App.tsx) and those whose words it shows: the turns *)
(* of typed messages, which the WebSocket handler runs one after the       *)
(* other, the turn of the voice session, and proactive runs, which are     *)
(* broadcast.  They run side by side and share one socket and one bubble.  *)
(*                                                                         *)
(* A text is abstracted to whether it has a part said by the voice turn,   *)
(* and whether it has another.  Audio and the gate are VoiceLoop's; that   *)
(* there is one voice turn at a time is assumed here.  The user's own text *)
(* (lastUserText) and the emotion are left out.                            *)
(***************************************************************************)
EXTENDS Naturals, Sequences

CONSTANTS
    Typed,          \* the turn of a typed message
    Voice,          \* the turn of an utterance
    Proactive,      \* a proactive run
    MaxTyped,       \* bound: typed messages not yet taken by the handler
    MaxUnderWay     \* bound: messages on the socket at which nothing new is begun

ASSUME SpeakersAssumption == Typed # Voice /\ Typed # Proactive /\ Voice # Proactive
ASSUME BubbleBounds == MaxTyped \in Nat /\ MaxUnderWay \in Nat

VARIABLES
    reply,          \* replyText: of whom it has text
    replyPending,   \* the mark of a reply still to come
    toolStatus,     \* whether the status line (thinking) has text
    agentState,
    hideTimer,      \* whether it is set
    toPage,         \* the messages on the socket, in order
    waiting,        \* session.send_text messages the handler has not taken
    live,           \* those who speak
    stopping,       \* whether barge-in has cancelled the voice turn among them
    noted,          \* the proactive run has sent its notification
    cut,            \* history: one ended without a word after the last end or interrupt
    interrupted     \* history: an interrupt was sent, and no voice turn begun since

pageVars   == <<reply, replyPending, toolStatus, agentState, hideTimer>>
sourceVars == <<waiting, live, stopping, noted, cut, interrupted>>
bubbleVars == <<pageVars, toPage, sourceVars>>

Speakers == {Typed, Voice, Proactive}
Texts    == {"voice", "other"}
Messages == Texts \cup {"thinking", "end", "note", "interrupt"}

BubbleTypeOK ==
    /\ reply \subseteq Texts
    /\ {replyPending, toolStatus, hideTimer} \subseteq BOOLEAN
    /\ agentState \in {"idle", "thinking", "talking"}
    /\ toPage \in Seq(Messages)
    /\ waiting \in 0..MaxTyped
    /\ live \subseteq Speakers
    /\ {stopping, noted, cut, interrupted} \subseteq BOOLEAN
    /\ (stopping => Voice \in live) /\ (noted => Proactive \in live)

PageInit ==
    /\ reply = {} /\ replyPending = FALSE /\ toolStatus = FALSE
    /\ agentState = "idle" /\ hideTimer = FALSE

BubbleInit ==
    /\ PageInit
    /\ toPage = <<>> /\ waiting = 0
    /\ live = {} /\ stopping = FALSE /\ noted = FALSE
    /\ cut = FALSE /\ interrupted = FALSE

Send(m) == toPage' = Append(toPage, m)
Room == Len(toPage) + waiting < MaxUnderWay

-----------------------------------------------------------------------------
(* Turns and runs, in the daemon. *)

\* The handler takes the next typed message when it is done with the one before.
TakeTyped ==
    /\ waiting > 0 /\ Typed \notin live
    /\ waiting' = waiting - 1
    /\ live' = live \cup {Typed}
    /\ UNCHANGED <<pageVars, toPage, stopping, noted, cut, interrupted>>

\* An utterance ends.  A voice turn that still runs is cancelled and awaited first; no
\* interrupt is sent.
VoiceTurn ==
    /\ Room /\ ~stopping
    /\ live' = live \cup {Voice}
    /\ cut' = (cut \/ Voice \in live)
    /\ interrupted' = FALSE
    /\ UNCHANGED <<pageVars, toPage, waiting, stopping, noted>>

\* Those who may send: not a cancelled turn.
Turns == live \ ({Proactive} \cup (IF stopping THEN {Voice} ELSE {}))

\* A delta, of text or of thinking.
Say(s) ==
    /\ Room /\ s \in Turns
    /\ \E m \in {IF s = Voice THEN "voice" ELSE "other", "thinking"} : Send(m)
    /\ UNCHANGED <<pageVars, sourceVars>>

\* The end event of a turn.
End(s) ==
    /\ s \in Turns
    /\ Send("end")
    /\ live' = live \ {s}
    /\ cut' = FALSE
    /\ UNCHANGED <<pageVars, waiting, stopping, noted, interrupted>>

\* SpeechStarted while a voice turn runs and the gate is open: it is cancelled, ...
BargeIn ==
    /\ Voice \in live /\ ~stopping
    /\ stopping' = TRUE
    /\ UNCHANGED <<pageVars, toPage, waiting, live, noted, cut, interrupted>>

\* Faulty: the turn is not awaited.
InterruptAtOnce ==
    /\ stopping /\ stopping' = FALSE
    /\ Send("interrupt")
    /\ interrupted' = TRUE /\ cut' = FALSE
    /\ UNCHANGED <<pageVars, waiting, live, noted>>

\* ... and when it has ended, the page is told.
Interrupt ==
    /\ stopping /\ stopping' = FALSE
    /\ live' = live \ {Voice}
    /\ Send("interrupt")
    /\ interrupted' = TRUE /\ cut' = FALSE
    /\ UNCHANGED <<pageVars, waiting, noted>>

\* Faulty: voice.stop leaves the cancelled turn marked.
VoiceCutOnly ==
    /\ Voice \in live
    /\ live' = live \ {Voice}
    /\ cut' = TRUE
    /\ UNCHANGED <<pageVars, toPage, waiting, stopping, noted, interrupted>>

\* A voice turn fails, or is cancelled by voice.stop, which also takes the callback the
\* interrupt would use: the page is not told.
VoiceCut ==
    /\ Voice \in live
    /\ live' = live \ {Voice} /\ stopping' = FALSE
    /\ cut' = TRUE
    /\ UNCHANGED <<pageVars, toPage, waiting, noted, interrupted>>

\* A proactive run: fired, its deltas, its whole text again, its end.
Fire ==
    /\ Room /\ Proactive \notin live
    /\ live' = live \cup {Proactive}
    /\ UNCHANGED <<pageVars, toPage, waiting, stopping, noted, cut, interrupted>>

FireSays ==
    /\ Room /\ Proactive \in live /\ ~noted
    /\ Send("other")
    /\ UNCHANGED <<pageVars, sourceVars>>

FireNotes ==
    /\ Proactive \in live /\ ~noted
    /\ noted' = TRUE
    /\ Send("note")
    /\ UNCHANGED <<pageVars, waiting, live, stopping, cut, interrupted>>

\* Faulty: the run is over with its notification.
FireEndsUntold ==
    /\ Proactive \in live /\ noted
    /\ live' = live \ {Proactive} /\ noted' = FALSE
    /\ cut' = FALSE
    /\ UNCHANGED <<pageVars, toPage, waiting, stopping, interrupted>>

FireEnds ==
    /\ Proactive \in live /\ noted
    /\ Send("end")
    /\ live' = live \ {Proactive} /\ noted' = FALSE
    /\ cut' = FALSE
    /\ UNCHANGED <<pageVars, waiting, stopping, interrupted>>

\* The LLM fails, or the set of clients changes under broadcast.
FireFails ==
    /\ Proactive \in live
    /\ live' = live \ {Proactive} /\ noted' = FALSE
    /\ cut' = TRUE
    /\ UNCHANGED <<pageVars, toPage, waiting, stopping, interrupted>>

-----------------------------------------------------------------------------
(* The page. *)

\* send: the bubble is cleared and marked, the message goes off.
Submit ==
    /\ Room /\ waiting < MaxTyped
    /\ reply' = {} /\ toolStatus' = FALSE /\ replyPending' = TRUE /\ hideTimer' = FALSE
    /\ agentState' = "thinking"
    /\ waiting' = waiting + 1
    /\ UNCHANGED <<toPage, live, stopping, noted, cut, interrupted>>

Recv(m) ==
    /\ toPage # <<>> /\ Head(toPage) = m
    /\ toPage' = Tail(toPage)
    /\ UNCHANGED sourceVars

RecvSay ==
    /\ \E text \in Texts : Recv(text) /\ reply' = reply \cup {text}
    /\ agentState' = "talking" /\ hideTimer' = FALSE
    /\ UNCHANGED <<replyPending, toolStatus>>

RecvThinking ==
    /\ Recv("thinking")
    /\ toolStatus' = TRUE
    /\ agentState' = "thinking" /\ hideTimer' = FALSE
    /\ UNCHANGED <<reply, replyPending>>

RecvEnd ==
    /\ Recv("end")
    /\ agentState' = "idle" /\ replyPending' = FALSE /\ toolStatus' = FALSE
    /\ hideTimer' = TRUE
    /\ UNCHANGED reply

RecvInterrupt ==
    /\ Recv("interrupt")
    /\ agentState' = "idle" /\ replyPending' = FALSE /\ toolStatus' = FALSE
    /\ hideTimer' = FALSE
    /\ reply' = {}

RecvNote ==
    /\ Recv("note")
    /\ reply' \in {{"other"}, {}}
    /\ replyPending' = FALSE /\ toolStatus' = FALSE
    /\ hideTimer' = TRUE
    /\ UNCHANGED agentState

\* Twelve seconds after an end or a notification with no delta since.
HideFires ==
    /\ hideTimer /\ hideTimer' = FALSE
    /\ reply' = {} /\ toolStatus' = FALSE
    /\ UNCHANGED <<replyPending, agentState, toPage, sourceVars>>

-----------------------------------------------------------------------------
(* The connection. *)

\* Turns whose client is lost have nobody to tell, and what is under way is lost.
SourcesGone ==
    /\ toPage' = <<>> /\ waiting' = 0 /\ live' = {} /\ stopping' = FALSE
    /\ noted' = FALSE /\ cut' = FALSE /\ interrupted' = FALSE

SourcesLost == SourcesGone /\ UNCHANGED pageVars

Reloaded ==
    /\ SourcesGone
    /\ reply' = {} /\ replyPending' = FALSE /\ toolStatus' = FALSE
    /\ agentState' = "idle" /\ hideTimer' = FALSE

\* A page that connects may come in the middle of a proactive run.
ClientAdded ==
    /\ live' \in {{}, {Proactive}} /\ noted' \in {FALSE, live' # {}}
    /\ UNCHANGED <<pageVars, toPage, waiting, stopping, cut, interrupted>>

-----------------------------------------------------------------------------
Speak == \/ TakeTyped \/ VoiceTurn \/ BargeIn \/ Interrupt \/ VoiceCut
         \/ \E s \in {Typed, Voice} : Say(s) \/ End(s)
         \/ Fire \/ FireSays \/ FireNotes \/ FireEnds \/ FireFails

Receive == RecvSay \/ RecvThinking \/ RecvEnd \/ RecvInterrupt \/ RecvNote

\* Whether anything more is to come.
Quiet == live = {} /\ waiting = 0 /\ toPage = <<>>
=============================================================================
