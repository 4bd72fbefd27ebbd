----------------------------- MODULE DesktopApp -----------------------------
(***************************************************************************)
(* The application's processes (AppLifecycle) with what its page shows     *)
(* (ReplyBubble): turns run while the daemon does, and their words arrive  *)
(* while the page's socket is open.                                        *)
(***************************************************************************)
EXTENDS AppLifecycle, ReplyBubble

desktopVars == <<vars, bubbleVars>>

DesktopTypeOK == TypeOK /\ BubbleTypeOK

DesktopInit == Init /\ BubbleInit

\* What a step of the processes does to the page.
Processes(A) ==
    /\ A
    /\ \/ page = "open" /\ page' = "closed" /\ SourcesLost
       \/ page # "loading" /\ page' = "loading" /\ Reloaded
       \/ page = "connecting" /\ page' = "open" /\ ClientAdded
       \/ page' \in {page, "connecting"} /\ UNCHANGED bubbleVars
       \/ page # "open" /\ page' = "closed" /\ UNCHANGED bubbleVars

Up == page = "open" /\ daemon \in {"serve", "drain"}

\* Faulty: the exception is logged and the socket stays open.
HandlerRaisesLogged ==
    /\ Up /\ Typed \in live
    /\ live' = live \ {Typed}
    /\ UNCHANGED <<vars, pageVars, toPage, waiting, stopping, noted, cut, interrupted>>

\* The turn of a typed message fails: the exception ends the handler, and with it the
\* connection.
HandlerRaises ==
    /\ Up /\ Typed \in live
    /\ page' = "closed"
    /\ SourcesLost
    /\ UNCHANGED <<shell, ready, daemon, signal, llama>>

Speaking  == Up /\ Speak /\ UNCHANGED vars
Typing    == page = "open" /\ Submit /\ UNCHANGED vars
Receiving == page = "open" /\ Receive /\ UNCHANGED vars
Hiding    == page # "loading" /\ HideFires /\ UNCHANGED vars

DesktopNext == Processes(Next) \/ Speaking \/ HandlerRaises \/ Typing \/ Receiving \/ Hiding

DesktopSpec == DesktopInit /\ [][DesktopNext]_desktopVars

\* As AppLifecycle; a broken connection is noticed, turns of typed messages are begun
\* and end (TurnLoop), and the browser handles its messages.
DesktopFairSpec ==
    /\ DesktopSpec
    /\ WF_desktopVars(Processes(OwedStep))
    /\ WF_desktopVars(Processes(ReadLine)) /\ WF_desktopVars(Processes(ReadEof))
    /\ WF_desktopVars(Processes(SocketDrops))
    /\ WF_desktopVars(Up /\ TakeTyped /\ UNCHANGED vars)
    /\ WF_desktopVars(Up /\ End(Typed) /\ UNCHANGED vars)
    /\ WF_desktopVars(Receiving)

-----------------------------------------------------------------------------
(* Properties. *)

Rests == /\ agentState = "idle"
         /\ ~replyPending /\ ~toolStatus
         /\ (reply # {} => hideTimer)

\* When nobody speaks and everything sent has arrived, the page rests, however the turns
\* and runs overlapped: it looks idle, expects nothing, and what it still shows will be
\* hidden (App.tsx:154-178).  Except after a voice turn or run that ended without telling.
PageRests == page = "open" /\ Quiet /\ ~cut => Rests

\* Once the page has been told of an interrupt, nothing of the interrupted reply is shown
\* any more: "so the incoming response from the new utterance starts fresh"
\* (App.tsx:163-165, pipeline.py:138-143).
InterruptedIsGone ==
    interrupted /\ "voice" \in reply => \E i \in DOMAIN toPage : toPage[i] = "interrupt"

\* The mark of a pending reply is removed, or the connection is lost (App.tsx:228-239).
PendingEnds == replyPending ~> (~replyPending \/ page # "open")
=============================================================================
