----------------------------- MODULE MicCapture -----------------------------
(***************************************************************************)
(* The voice button (VoiceButton.tsx) and the microphone capture it starts *)
(* and stops (micCapture.ts).                                              *)
(*                                                                         *)
(* startCapture awaits getUserMedia, which may show a permission prompt,   *)
(* and stopCapture awaits the close of the AudioContext: the user may      *)
(* click, or press Escape, in between.  Frames are sent whenever a graph   *)
(* is connected; they change nothing here.                                 *)
(***************************************************************************)
EXTENDS Naturals

CONSTANT MaxAwaits     \* bound: getUserMedia and close() calls under way
ASSUME AwaitsAssumption == MaxAwaits \in Nat

VARIABLES
    recording,   \* the button is on
    asking,      \* startCapture calls awaiting getUserMedia
    stream,      \* the module's stream is set, its tracks are live
    graph,       \* the module's processor is connected: frames are sent
    context,     \* the module's AudioContext is set
    lost,        \* a live stream was overwritten: nothing can stop it any more
    closing,     \* stopCapture calls awaiting close()
    told,        \* the last voice message the daemon was sent
    open,        \* the socket is open; without it the page shows no button
    hasty        \* history: there was a click during an await

micVars == <<recording, asking, stream, graph, context, lost, closing, told, open, hasty>>

MicTypeOK ==
    /\ asking \in Nat /\ closing \in Nat
    /\ recording \in BOOLEAN /\ stream \in BOOLEAN /\ graph \in BOOLEAN
    /\ context \in BOOLEAN /\ lost \in BOOLEAN
    /\ told \in {"start", "stop"}
    /\ open \in BOOLEAN /\ hasty \in BOOLEAN

MicInit ==
    /\ recording = FALSE /\ asking = 0 /\ closing = 0
    /\ stream = FALSE /\ graph = FALSE /\ context = FALSE /\ lost = FALSE
    /\ told = "stop" /\ open = TRUE /\ hasty = FALSE

\* client.send: nothing is sent on a closed socket.
Tell(m) == told' = IF open THEN m ELSE told

Awaits == asking + closing
Click == /\ open /\ Awaits < MaxAwaits
         /\ hasty' = (hasty \/ Awaits > 0)

-----------------------------------------------------------------------------
\* begin, up to the await in startCapture; a stream that is there is kept.
Begin ==
    /\ Click /\ ~recording
    /\ recording' = TRUE
    /\ Tell("start")
    /\ asking' = IF stream THEN asking ELSE asking + 1
    /\ UNCHANGED <<stream, graph, context, lost, closing, open>>

\* Faulty: the capture is set up by a callback that may come more than once.
GrantedAgain ==
    /\ asking' = asking - 1
    /\ lost' = (lost \/ stream)
    /\ stream' = TRUE /\ context' = TRUE /\ graph' = TRUE
    /\ UNCHANGED <<recording, closing, told, open, hasty>>

\* getUserMedia resolves, the graph is built.
Granted ==
    /\ asking > 0 /\ asking' = asking - 1
    /\ lost' = (lost \/ stream)
    /\ stream' = TRUE /\ context' = TRUE /\ graph' = TRUE
    /\ UNCHANGED <<recording, closing, told, open, hasty>>

\* The context or its source cannot be made: begin's catch, with the stream left as it is.
GraphFails ==
    /\ asking > 0 /\ asking' = asking - 1
    /\ lost' = (lost \/ stream)
    /\ stream' = TRUE /\ context' \in {context, TRUE}
    /\ recording' = FALSE
    /\ Tell("stop")
    /\ UNCHANGED <<graph, closing, open, hasty>>

\* Faulty: begin's catch does not tell the daemon.
RefusedSilently ==
    /\ asking > 0 /\ asking' = asking - 1
    /\ recording' = FALSE
    /\ UNCHANGED <<stream, graph, context, lost, closing, told, open, hasty>>

\* getUserMedia rejects: begin's catch.
Refused ==
    /\ asking > 0 /\ asking' = asking - 1
    /\ recording' = FALSE
    /\ Tell("stop")
    /\ UNCHANGED <<stream, graph, context, lost, closing, open, hasty>>

\* Faulty: stopCapture returns early while there is no context.
EndEarly ==
    /\ Click /\ recording
    /\ recording' = FALSE
    /\ closing' = closing + 1
    /\ UNCHANGED <<asking, stream, graph, context, lost, told, open>>

\* end, up to the await in stopCapture; without a context it has none.
End ==
    /\ Click /\ recording
    /\ recording' = FALSE
    /\ graph' = FALSE /\ stream' = FALSE
    /\ IF context
       THEN closing' = closing + 1 /\ UNCHANGED told
       ELSE Tell("stop") /\ UNCHANGED closing
    /\ UNCHANGED <<asking, context, lost, open>>

\* close() has ended, whichever context the module holds by now.
Closed ==
    /\ closing > 0 /\ closing' = closing - 1
    /\ context' = FALSE
    /\ Tell("stop")
    /\ UNCHANGED <<recording, asking, stream, graph, lost, open, hasty>>

\* The button disappears with the socket; the capture stays as it is.
SocketCloses ==
    /\ open /\ open' = FALSE
    /\ UNCHANGED <<recording, asking, stream, graph, context, lost, closing, told, hasty>>

MicNext == \/ Begin \/ Granted \/ GraphFails \/ Refused
           \/ End \/ Closed \/ SocketCloses

-----------------------------------------------------------------------------
(* Properties. *)

\* With the button off no frame is sent and no stream is out of reach, unless the user
\* has clicked while permission or a close was pending: "a plain click toggles cleanly
\* regardless of when the prompt fires" (VoiceButton.tsx:16-18) is true of no other click.
OffMeansSilent == ~recording /\ ~hasty => ~graph /\ ~lost

\* What the button shows is what the daemon was told last, under the same condition.
ShownIsTold == open /\ ~hasty /\ closing = 0 => (recording <=> told = "start")

\* However the clicks fall: a daemon that takes the button for on while it is off is about
\* to be told (VoiceButton.tsx:47-56).
StopIsComing == open /\ ~recording /\ told = "start" => closing > 0
=============================================================================
