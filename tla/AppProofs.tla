----------------------------- MODULE AppProofs -----------------------------
(***************************************************************************)
(* Proofs about AppLifecycle: its types, that the ready line comes after   *)
(* llama-server's first answer, and that a daemon that ends by itself      *)
(* leaves no llama-server behind; and about DesktopApp, for any number of  *)
(* messages under way: the same of its processes, and that the page comes  *)
(* to rest and forgets what was interrupted.                               *)
(***************************************************************************)
EXTENDS DesktopApp, SequenceTheorems, TLAPS

\* What the two properties need to know of the daemon's progress: llama-server is
\* spawned by the first step only, and main() gets past its wait only with an answer.
Progressed ==
    /\ daemon = "start" => llama \in {"external", "none"}
    /\ daemon \in {"start", "wait"} => ~ready
    /\ daemon \in {"build", "bind", "serve", "drain"} => llama \notin {"none", "loading"}
    /\ daemon # "start" /\ llama = "none" => daemon \in Gone
    /\ daemon = "stop" => llama # "none"

IInv == TypeOK /\ Progressed /\ ReadyMeansAnswered /\ EndsWithModel

LEMMA InitIInv == Init => IInv
BY DEF Init, IInv, TypeOK, Gone, Progressed, ReadyMeansAnswered, EndsWithModel

\* The steps of the daemon.
LEMMA DaemonIInv == IInv /\ DaemonStep => IInv'
<1> SUFFICES ASSUME IInv, DaemonStep PROVE IInv'
  OBVIOUS
<1> USE DEF IInv, TypeOK, Gone, Progressed, ReadyMeansAnswered, EndsWithModel, Goto
<1>1. CASE Start        BY <1>1 DEF Start
<1>2. CASE StartFails   BY <1>2 DEF StartFails
<1>3. CASE Waiting      BY <1>3 DEF Waiting, Answered, FoundDead, GiveUpWaiting
<1>4. CASE Announce     BY <1>4 DEF Announce
<1>5. CASE BuildFails   BY <1>5 DEF BuildFails
<1>6. CASE Bind         BY <1>6 DEF Bind, Reraised
<1>7. CASE BindFails    BY <1>7 DEF BindFails
<1>8. CASE Drained      BY <1>8 DEF Drained, Reraised
<1>9. CASE Terminate    BY <1>9 DEF Terminate
<1>10. CASE Reap        BY <1>10 DEF Reap
<1> QED BY <1>1, <1>2, <1>3, <1>4, <1>5, <1>6, <1>7, <1>8, <1>9, <1>10 DEF DaemonStep, TimelyStep

LEMMA NextIInv == IInv /\ [Next]_vars => IInv'
<1> SUFFICES ASSUME IInv, [Next]_vars PROVE IInv'
  OBVIOUS
<1>1. CASE DaemonStep   BY <1>1, DaemonIInv
<1> USE DEF IInv, TypeOK, Gone, Progressed, ReadyMeansAnswered, EndsWithModel, Goto
<1>2. ASSUME NEW s \in {"TERM", "INT"}, Signal(s) PROVE IInv'
  BY <1>2 DEF Signal
<1>3. CASE LlamaAnswers \/ LlamaEnds     BY <1>3 DEF LlamaAnswers, LlamaEnds
<1>4. CASE ReadLine \/ ReadEof           BY <1>4 DEF ReadLine, ReadEof
<1>5. CASE Exit \/ ShellDies             BY <1>5 DEF Exit, ShellDies
<1>6. CASE AskPort \/ Connect \/ SocketDrops \/ Reload
  BY <1>6 DEF AskPort, Connect, SocketDrops, Reload
<1>7. CASE UNCHANGED vars                BY <1>7 DEF vars
<1> QED BY <1>1, <1>2, <1>3, <1>4, <1>5, <1>6, <1>7 DEF Next

LEMMA Invariant == Spec => []IInv
BY InitIInv, NextIInv, PTL DEF Spec

\* The processes' states keep their types, and stop waits only for a llama-server it
\* has told to end.
THEOREM TypeCorrect == Spec => []TypeOK
<1>1. IInv => TypeOK BY DEF IInv
<1> QED BY <1>1, Invariant, PTL

\* The port is handed out only once llama-server has answered (__main__.py:104-119).
THEOREM ReadyMeansAnsweredHolds == Spec => []ReadyMeansAnswered
<1>1. IInv => ReadyMeansAnswered BY DEF IInv
<1> QED BY <1>1, Invariant, PTL

\* Every way main() has to end by itself takes llama-server with it
\* (__main__.py:128-130, llama_server_process.py:82-124).
THEOREM EndsWithModelHolds == Spec => []EndsWithModel
<1>1. IInv => EndsWithModel BY DEF IInv
<1> QED BY <1>1, Invariant, PTL

-----------------------------------------------------------------------------
(* The messages on the socket. *)

\* A message is added at the end.
LEMMA SendFacts ==
    ASSUME toPage \in Seq(Messages), NEW m \in Messages, Send(m)
    PROVE  /\ toPage' \in Seq(Messages) /\ Len(toPage') = Len(toPage) + 1
           /\ \A i \in 1..Len(toPage) : toPage'[i] = toPage[i]
           /\ toPage'[Len(toPage')] = m
  BY AppendProperties DEF Send

\* The first one is taken, the others move up.
LEMMA RecvFacts ==
    ASSUME toPage \in Seq(Messages), NEW m, Recv(m)
    PROVE  /\ toPage' \in Seq(Messages) /\ Len(toPage') = Len(toPage) - 1
           /\ Len(toPage) > 0 /\ toPage[1] = m
           /\ \A i \in 1..Len(toPage') : toPage'[i] = toPage[i + 1]
  BY HeadTailProperties DEF Recv

\* After an interrupt no voice turn speaks until the next one, and words of the last one
\* are followed by the interrupt.
ForgetInv ==
    /\ interrupted => Voice \notin live
    /\ interrupted => \A i \in 1..Len(toPage) : toPage[i] = "voice" =>
                          \E j \in 1..Len(toPage) : i < j /\ toPage[j] = "interrupt"
    /\ interrupted /\ "voice" \in reply => \E i \in 1..Len(toPage) : toPage[i] = "interrupt"

\* When nobody speaks, the last message on its way puts the page to rest.
SettleInv ==
    ~cut /\ live = {} /\ waiting = 0 =>
        IF toPage = <<>> THEN page = "open" => Rests
        ELSE toPage[Len(toPage)] \in {"end", "interrupt"}

\* Nobody speaks to a page that is not connected.
OfflineInv ==
    /\ page # "open" => toPage = <<>> /\ waiting = 0 /\ live = {} /\ ~stopping
    /\ page \in {"loading", "connecting"} => Rests

BubbleInv == BubbleTypeOK /\ ForgetInv /\ SettleInv /\ OfflineInv

\* Anything but words of the voice turn is sent.
LEMMA ForgetSend ==
    ASSUME toPage \in Seq(Messages), ForgetInv, NEW m \in Messages \ {"voice"}, Send(m),
           live' \subseteq live, UNCHANGED reply, interrupted' => interrupted
    PROVE  ForgetInv'
  <1>1. /\ Len(toPage') = Len(toPage) + 1 /\ Len(toPage) \in Nat
        /\ \A i \in 1..Len(toPage) : toPage'[i] = toPage[i]
        /\ toPage'[Len(toPage')] = m
    BY SendFacts
  <1> QED BY <1>1, SMTT(30) DEF ForgetInv

-----------------------------------------------------------------------------
(* Each step keeps the invariant. *)

\* Turns and runs begin, or are cut off.
LEMMA BeginsKeep ==
    ASSUME BubbleInv, page = "open", UNCHANGED page,
           TakeTyped \/ VoiceTurn \/ BargeIn \/ Fire \/ VoiceCut \/ FireFails
    PROVE  BubbleInv'
  <1> USE SpeakersAssumption, BubbleBounds
  <1>1. BubbleTypeOK /\ ForgetInv /\ SettleInv /\ OfflineInv
    BY DEF BubbleInv
  <1>2. UNCHANGED <<reply, replyPending, toolStatus, agentState, hideTimer, toPage>>
    BY DEF TakeTyped, VoiceTurn, BargeIn, Fire, VoiceCut, FireFails, pageVars
  <1>3. BubbleTypeOK'
    <2>1. waiting' \in 0..MaxTyped
      BY <1>1 DEF BubbleTypeOK, TakeTyped, VoiceTurn, BargeIn, Fire, VoiceCut, FireFails
    <2>2. {cut', interrupted'} \subseteq BOOLEAN
      BY <1>1 DEF BubbleTypeOK, TakeTyped, VoiceTurn, BargeIn, Fire, VoiceCut, FireFails
    <2>3. /\ live' \subseteq Speakers /\ {stopping', noted'} \subseteq BOOLEAN
          /\ (stopping' => Voice \in live') /\ (noted' => Proactive \in live')
      <3>1. CASE TakeTyped \/ VoiceTurn \/ Fire
        <4>1. /\ \E s \in Speakers : live' = live \cup {s}
              /\ UNCHANGED <<stopping, noted>>
          BY <3>1 DEF TakeTyped, VoiceTurn, Fire, Speakers
        <4> QED BY <1>1, <4>1 DEF BubbleTypeOK
      <3>2. CASE BargeIn
        BY <1>1, <3>2 DEF BubbleTypeOK, BargeIn
      <3>3. CASE VoiceCut
        BY <1>1, <3>3 DEF BubbleTypeOK, VoiceCut
      <3>4. CASE FireFails
        BY <1>1, <3>4 DEF BubbleTypeOK, FireFails
      <3> QED BY <3>1, <3>2, <3>3, <3>4
    <2> QED BY <1>1, <1>2, <2>1, <2>2, <2>3 DEF BubbleTypeOK
  <1>4. ForgetInv'
    BY <1>1, <1>2 DEF ForgetInv, TakeTyped, VoiceTurn, BargeIn, Fire, VoiceCut, FireFails
  <1>5. live' # {} \/ cut'
    BY <1>1 DEF TakeTyped, VoiceTurn, BargeIn, Fire, VoiceCut, FireFails
  <1>6. SettleInv' /\ OfflineInv'
    BY <1>5 DEF SettleInv, OfflineInv
  <1> QED BY <1>3, <1>4, <1>6 DEF BubbleInv

\* Something is said, or ends.
LEMMA SendsKeep ==
    ASSUME BubbleInv, page = "open", UNCHANGED page,
           \/ \E s \in {Typed, Voice} : Say(s) \/ End(s)
           \/ Interrupt \/ FireSays \/ FireNotes \/ FireEnds
    PROVE  BubbleInv'
  <1> USE SpeakersAssumption, BubbleBounds
  <1>1. BubbleTypeOK /\ ForgetInv /\ SettleInv /\ OfflineInv /\ toPage \in Seq(Messages)
    BY DEF BubbleInv, BubbleTypeOK
  <1>2. UNCHANGED <<reply, replyPending, toolStatus, agentState, hideTimer, waiting>>
    BY DEF Say, End, Interrupt, FireSays, FireNotes, FireEnds, pageVars, sourceVars
  <1>3. OfflineInv'
    BY DEF OfflineInv
  <1>4. ASSUME NEW s \in {Typed, Voice}, Say(s)
        PROVE  BubbleInv'
    <2>1. PICK m \in {IF s = Voice THEN "voice" ELSE "other", "thinking"} : Send(m)
      BY <1>4 DEF Say
    <2>2. /\ m \in Messages /\ (m = "voice" => s = Voice) /\ s \in live
          /\ UNCHANGED <<live, stopping, noted, cut, interrupted>>
      BY <1>4, <2>1 DEF Say, Messages, Texts, sourceVars, Turns
    <2>3. BubbleTypeOK'
      BY <1>1, <1>2, <2>1, <2>2, SendFacts DEF BubbleTypeOK
    <2>4. ForgetInv'
      <3>1. CASE m = "voice"
        BY <1>1, <2>2, <3>1 DEF ForgetInv
      <3>2. CASE m # "voice"
        BY <1>1, <1>2, <2>1, <2>2, <3>2, ForgetSend
      <3> QED BY <3>1, <3>2
    <2> QED BY <1>3, <2>2, <2>3, <2>4 DEF BubbleInv, SettleInv
  <1>5. ASSUME (\E s \in {Typed, Voice} : End(s)) \/ FireEnds
        PROVE  BubbleInv'
    <2>1. Send("end") /\ live' \subseteq live /\ UNCHANGED interrupted /\ "end" \in Messages
      BY <1>5 DEF End, FireEnds, Messages
    <2>2. BubbleTypeOK'
      <3>1. toPage' \in Seq(Messages)
        BY <1>1, <2>1, SendFacts
      <3>2. /\ live' \subseteq Speakers /\ {stopping', noted', cut'} \subseteq BOOLEAN
            /\ (stopping' => Voice \in live') /\ (noted' => Proactive \in live')
        <4>1. CASE \E s \in {Typed, Voice} : End(s)
          <5> PICK s \in {Typed, Voice} : End(s)
            BY <4>1
          <5>1. live' = live \ {s} /\ cut' = FALSE /\ UNCHANGED <<stopping, noted>>
            BY DEF End
          <5>2. s # Proactive /\ (stopping => s # Voice)
            BY DEF End, Turns
          <5> QED BY <1>1, <5>1, <5>2 DEF BubbleTypeOK
        <4>2. CASE FireEnds
          BY <1>1, <4>2 DEF BubbleTypeOK, FireEnds
        <4> QED BY <1>5, <4>1, <4>2
      <3> QED BY <1>1, <1>2, <2>1, <3>1, <3>2 DEF BubbleTypeOK
    <2>3. ForgetInv'
      BY <1>1, <1>2, <2>1, ForgetSend
    <2>4. SettleInv'
      BY <1>1, <2>1, SendFacts DEF SettleInv
    <2> QED BY <1>3, <2>2, <2>3, <2>4 DEF BubbleInv
  <1>6. ASSUME Interrupt
        PROVE  BubbleInv'
    <2>1. /\ Send("interrupt") /\ live' = live \ {Voice} /\ stopping' = FALSE
          /\ interrupted' = TRUE /\ cut' = FALSE /\ UNCHANGED noted
          /\ "interrupt" \in Messages
      BY <1>6 DEF Interrupt, Messages
    <2>2. /\ toPage' \in Seq(Messages) /\ Len(toPage') = Len(toPage) + 1 /\ Len(toPage) \in Nat
          /\ toPage'[Len(toPage')] = "interrupt"
      BY <1>1, <2>1, SendFacts
    <2>3. BubbleTypeOK'
      BY <1>1, <1>2, <2>1, <2>2 DEF BubbleTypeOK
    <2>4. ForgetInv'
      <3>1. Len(toPage') \in 1..Len(toPage')
        BY <2>2
      <3>2. ASSUME NEW i \in 1..Len(toPage'), toPage'[i] = "voice"
            PROVE  i < Len(toPage')
        BY <2>2, <3>2
      <3> QED BY <2>1, <2>2, <3>1, <3>2 DEF ForgetInv
    <2>5. SettleInv'
      BY <2>2 DEF SettleInv
    <2> QED BY <1>3, <2>3, <2>4, <2>5 DEF BubbleInv
  <1>7. ASSUME FireSays \/ FireNotes
        PROVE  BubbleInv'
    <2>1. PICK m \in {"other", "note"} : Send(m)
      BY <1>7 DEF FireSays, FireNotes
    <2>2. /\ m \in Messages \ {"voice"} /\ Proactive \in live /\ noted' \in {noted, TRUE}
          /\ UNCHANGED <<live, stopping, cut, interrupted>>
      BY <1>7, <2>1 DEF FireSays, FireNotes, Messages, Texts, sourceVars
    <2>3. BubbleTypeOK'
      BY <1>1, <1>2, <2>1, <2>2, SendFacts DEF BubbleTypeOK
    <2>4. ForgetInv'
      BY <1>1, <1>2, <2>1, <2>2, ForgetSend
    <2> QED BY <1>3, <2>2, <2>3, <2>4 DEF BubbleInv, SettleInv
  <1> QED BY <1>4, <1>5, <1>6, <1>7

\* The page takes a message.
LEMMA ReceiveKeeps ==
    ASSUME BubbleInv, page = "open", UNCHANGED page, Receive
    PROVE  BubbleInv'
  <1>1. BubbleTypeOK /\ ForgetInv /\ SettleInv /\ OfflineInv /\ toPage \in Seq(Messages)
    BY DEF BubbleInv, BubbleTypeOK
  <1>2. PICK m \in Messages : Recv(m)
    BY DEF Receive, RecvSay, RecvThinking, RecvEnd, RecvInterrupt, RecvNote, Messages
  <1>3. /\ toPage' \in Seq(Messages) /\ Len(toPage') = Len(toPage) - 1
        /\ Len(toPage) \in Nat /\ Len(toPage) > 0 /\ toPage[1] = m
        /\ \A i \in 1..Len(toPage') : toPage'[i] = toPage[i + 1]
    BY <1>1, <1>2, RecvFacts
  <1>4. UNCHANGED <<waiting, live, stopping, noted, cut, interrupted>>
    BY <1>2 DEF Recv, sourceVars
  <1>5. /\ m \in Texts => /\ reply' = reply \cup {m} /\ agentState' = "talking" /\ hideTimer' = FALSE
                          /\ UNCHANGED <<replyPending, toolStatus>>
        /\ m = "thinking" => /\ toolStatus' = TRUE /\ agentState' = "thinking" /\ hideTimer' = FALSE
                             /\ UNCHANGED <<reply, replyPending>>
        /\ m = "end" => /\ agentState' = "idle" /\ replyPending' = FALSE /\ toolStatus' = FALSE
                        /\ hideTimer' = TRUE /\ UNCHANGED reply
        /\ m = "interrupt" => /\ agentState' = "idle" /\ replyPending' = FALSE
                              /\ toolStatus' = FALSE /\ hideTimer' = FALSE /\ reply' = {}
        /\ m = "note" => /\ reply' \subseteq {"other"} /\ replyPending' = FALSE
                         /\ toolStatus' = FALSE /\ hideTimer' = TRUE /\ UNCHANGED agentState
    BY <1>2 DEF Receive, Recv, RecvSay, RecvThinking, RecvEnd, RecvInterrupt, RecvNote, Texts
  <1>6. BubbleTypeOK'
    <2>1. /\ reply' \subseteq Texts /\ {replyPending', toolStatus', hideTimer'} \subseteq BOOLEAN
          /\ agentState' \in {"idle", "thinking", "talking"}
      BY <1>1, <1>5 DEF BubbleTypeOK, Messages, Texts
    <2> QED BY <1>1, <1>3, <1>4, <2>1 DEF BubbleTypeOK
  <1>7. ForgetInv'
    <2>1. ASSUME NEW j \in 2..Len(toPage), toPage[j] = "interrupt"
          PROVE  j - 1 \in 1..Len(toPage') /\ toPage'[j - 1] = "interrupt"
      BY <1>3, <2>1
    <2>2. ASSUME interrupted, NEW i \in 1..Len(toPage'), toPage'[i] = "voice"
          PROVE  \E j \in 1..Len(toPage') : i < j /\ toPage'[j] = "interrupt"
      <3>1. i + 1 \in 1..Len(toPage) /\ toPage[i + 1] = "voice"
        BY <1>3, <2>2
      <3>2. PICK j \in 1..Len(toPage) : i + 1 < j /\ toPage[j] = "interrupt"
        BY <1>1, <2>2, <3>1 DEF ForgetInv
      <3>3. j \in 2..Len(toPage) /\ i < j - 1
        BY <1>3, <3>2
      <3> QED BY <2>1, <3>2, <3>3
    <2>3. ASSUME interrupted, "voice" \in reply'
          PROVE  \E i \in 1..Len(toPage') : toPage'[i] = "interrupt"
      <3>1. m # "interrupt" /\ ("voice" \in reply \/ m = "voice")
        BY <1>5, <2>3 DEF Messages, Texts
      <3>2. PICK j \in 1..Len(toPage) : toPage[j] = "interrupt"
        <4>1. 1 \in 1..Len(toPage)
          BY <1>3
        <4> QED BY <1>1, <1>3, <2>3, <3>1, <4>1 DEF ForgetInv
      <3>3. j \in 2..Len(toPage)
        BY <1>3, <3>1, <3>2
      <3> QED BY <2>1, <3>2, <3>3
    <2> QED BY <1>1, <1>4, <2>2, <2>3 DEF ForgetInv
  <1>8. SettleInv'
    <2> SUFFICES ASSUME ~cut, live = {}, waiting = 0
                 PROVE  IF toPage' = <<>> THEN Rests'
                        ELSE toPage'[Len(toPage')] \in {"end", "interrupt"}
      BY <1>4 DEF SettleInv
    <2>1. toPage # <<>> /\ toPage[Len(toPage)] \in {"end", "interrupt"}
      BY <1>1, <1>3 DEF SettleInv
    <2>2. CASE toPage' = <<>>
      <3>1. m \in {"end", "interrupt"}
        <4>1. Len(toPage') = 0
          BY <2>2
        <4>2. Len(toPage) = 1
          BY <1>3, <4>1
        <4> QED BY <1>3, <2>1, <4>2
      <3> QED BY <1>5, <2>2, <3>1 DEF Rests
    <2>3. CASE toPage' # <<>>
      <3>1. Len(toPage') \in 1..Len(toPage')
        BY <1>3, <2>3
      <3> QED BY <1>3, <2>1, <2>3, <3>1
    <2> QED BY <2>2, <2>3
  <1>9. OfflineInv'
    BY DEF OfflineInv
  <1> QED BY <1>6, <1>7, <1>8, <1>9 DEF BubbleInv

\* The user types, or what is shown has been shown long enough.
LEMMA ShownKeeps ==
    ASSUME BubbleInv, UNCHANGED page,
           (page = "open" /\ Submit) \/ (page # "loading" /\ HideFires)
    PROVE  BubbleInv'
  <1>1. BubbleTypeOK /\ ForgetInv /\ SettleInv /\ OfflineInv
    BY DEF BubbleInv
  <1>2. CASE page = "open" /\ Submit
    <2>1. /\ reply' = {} /\ waiting' = waiting + 1 /\ waiting < MaxTyped /\ waiting \in Nat
          /\ UNCHANGED <<toPage, live, stopping, noted, cut, interrupted>>
      BY <1>1, <1>2 DEF BubbleTypeOK, Submit
    <2>2. BubbleTypeOK'
      <3>1. waiting' \in 0..MaxTyped
        BY <2>1, BubbleBounds
      <3>2. {replyPending', toolStatus', hideTimer'} \subseteq BOOLEAN /\ agentState' = "thinking"
        BY <1>2 DEF Submit
      <3> QED BY <1>1, <2>1, <3>1, <3>2 DEF BubbleTypeOK
    <2> QED BY <1>1, <1>2, <2>1, <2>2 DEF BubbleInv, ForgetInv, SettleInv, OfflineInv
  <1>3. CASE page # "loading" /\ HideFires
    <2>1. /\ reply' = {} /\ toolStatus' = FALSE /\ hideTimer' = FALSE
          /\ UNCHANGED <<replyPending, agentState, toPage, waiting, live, stopping, noted, cut,
                         interrupted>>
      BY <1>3 DEF HideFires, sourceVars
    <2>2. BubbleTypeOK'
      BY <1>1, <2>1 DEF BubbleTypeOK
    <2>3. Rests => Rests'
      BY <2>1 DEF Rests
    <2> QED BY <1>1, <2>1, <2>2, <2>3 DEF BubbleInv, ForgetInv, SettleInv, OfflineInv
  <1> QED BY <1>2, <1>3

\* Only the page that asks for the port goes on to connect.
LEMMA PageSteps ==
    ASSUME Next
    PROVE  page' = "connecting" => page \in {"loading", "connecting"}
  BY DEF Next, DaemonStep, TimelyStep, Start, StartFails, Waiting, Answered, FoundDead, GiveUpWaiting, Announce,
         BuildFails, Bind, BindFails, Drained, Terminate, Reap, Signal, LlamaAnswers, LlamaEnds,
         ReadLine, ReadEof, Exit, ShellDies, AskPort, Connect, SocketDrops, Reload

\* The socket or the page comes and goes.
LEMMA ConnectionKeeps ==
    ASSUME BubbleInv,
           \/ page = "open" /\ page' = "closed" /\ SourcesLost
           \/ page # "loading" /\ page' = "loading" /\ Reloaded
           \/ page = "connecting" /\ page' = "open" /\ ClientAdded
           \/ /\ page' \in {page, "connecting"} /\ UNCHANGED bubbleVars
              /\ page' = "connecting" => page \in {"loading", "connecting"}
           \/ page # "open" /\ page' = "closed" /\ UNCHANGED bubbleVars
    PROVE  BubbleInv'
  <1> USE SpeakersAssumption, BubbleBounds
  <1>1. BubbleTypeOK /\ ForgetInv /\ SettleInv /\ OfflineInv
    BY DEF BubbleInv
  <1>2. <<>> \in Seq(Messages) /\ 0 \in 0..MaxTyped
    OBVIOUS
  <1>3. CASE SourcesGone /\ page' \in {"closed", "loading"} /\ (UNCHANGED pageVars \/ Reloaded)
             /\ (page' = "loading" => Reloaded)
    <2>1. /\ toPage' = <<>> /\ waiting' = 0 /\ live' = {} /\ stopping' = FALSE /\ noted' = FALSE
          /\ cut' = FALSE /\ interrupted' = FALSE
      BY <1>3 DEF SourcesGone
    <2>2. /\ reply' \subseteq Texts /\ {replyPending', toolStatus', hideTimer'} \subseteq BOOLEAN
          /\ agentState' \in {"idle", "thinking", "talking"}
      BY <1>1, <1>3 DEF BubbleTypeOK, pageVars, Reloaded
    <2>3. BubbleTypeOK'
      BY <1>2, <2>1, <2>2 DEF BubbleTypeOK
    <2>4. Reloaded => Rests'
      BY DEF Reloaded, Rests
    <2>5. ForgetInv' /\ SettleInv' /\ OfflineInv'
      BY <1>3, <2>1, <2>4 DEF ForgetInv, SettleInv, OfflineInv
    <2> QED BY <2>3, <2>5 DEF BubbleInv
  <1>4. CASE page = "connecting" /\ page' = "open" /\ ClientAdded
    <2>1. UNCHANGED <<reply, replyPending, toolStatus, agentState, hideTimer, toPage, waiting,
                      stopping, cut, interrupted>>
      BY <1>4 DEF ClientAdded, pageVars
    <2>2. toPage = <<>> /\ waiting = 0 /\ live = {} /\ ~stopping /\ Rests
      BY <1>1, <1>4 DEF OfflineInv
    <2>3. /\ live' \subseteq {Proactive} /\ {noted'} \subseteq BOOLEAN
          /\ (noted' => Proactive \in live')
      BY <1>4 DEF ClientAdded
    <2>4. BubbleTypeOK'
      BY <1>1, <2>1, <2>2, <2>3 DEF BubbleTypeOK, Speakers
    <2>5. Rests'
      BY <2>1, <2>2 DEF Rests
    <2>6. ForgetInv'
      BY <1>1, <2>1, <2>3 DEF ForgetInv
    <2> QED BY <1>4, <2>1, <2>2, <2>4, <2>5, <2>6 DEF BubbleInv, SettleInv, OfflineInv
  <1>5. CASE UNCHANGED bubbleVars /\ (page' = "open" => page = "open")
             /\ (page' = "loading" => page = "loading")
             /\ (page' = "connecting" => page \in {"loading", "connecting"})
             /\ (page' # "open" => page # "open")
    <2>1. UNCHANGED <<reply, replyPending, toolStatus, agentState, hideTimer, toPage, waiting,
                      live, stopping, noted, cut, interrupted>>
      BY <1>5 DEF bubbleVars, pageVars, sourceVars
    <2>2. BubbleTypeOK' /\ ForgetInv'
      BY <1>1, <2>1 DEF BubbleTypeOK, ForgetInv
    <2>3. Rests => Rests'
      BY <2>1 DEF Rests
    <2>4. SettleInv' /\ OfflineInv'
      BY <1>1, <1>5, <2>1, <2>3 DEF SettleInv, OfflineInv
    <2> QED BY <2>2, <2>4 DEF BubbleInv
  <1> QED BY <1>3, <1>4, <1>5 DEF SourcesLost, Reloaded

\* Every step of the application keeps both invariants.
LEMMA DesktopKeeps ==
    ASSUME IInv, BubbleInv, [DesktopNext]_desktopVars
    PROVE  IInv' /\ BubbleInv'
  <1>1. CASE Processes(Next)
    <2>1. IInv'
      BY <1>1, NextIInv DEF Processes
    <2>2. page' = "connecting" => page \in {"loading", "connecting"}
      BY <1>1, PageSteps DEF Processes
    <2> QED BY <1>1, <2>1, <2>2, ConnectionKeeps DEF Processes
  <1>2. CASE HandlerRaises
    <2>1. /\ page = "open" /\ page' = "closed" /\ SourcesLost
          /\ UNCHANGED <<shell, ready, daemon, signal, llama>>
      BY <1>2 DEF HandlerRaises, Up
    <2>2. IInv'
      BY <2>1 DEF IInv, TypeOK, Progressed, ReadyMeansAnswered, EndsWithModel
    <2> QED BY <2>1, <2>2, ConnectionKeeps
  <1>3. ASSUME UNCHANGED vars
        PROVE  IInv' /\ UNCHANGED page
    BY <1>3, NextIInv DEF vars
  <1>4. CASE Speaking
    BY <1>3, <1>4, BeginsKeep, SendsKeep DEF Speaking, Speak, Up
  <1>5. CASE Receiving
    BY <1>3, <1>5, ReceiveKeeps DEF Receiving
  <1>6. CASE Typing \/ Hiding
    BY <1>3, <1>6, ShownKeeps DEF Typing, Hiding
  <1>7. CASE UNCHANGED desktopVars
    <2>1. UNCHANGED vars /\ UNCHANGED bubbleVars
      BY <1>7 DEF desktopVars
    <2>2. page' = "connecting" => page \in {"loading", "connecting"}
      BY <2>1, <1>3
    <2> QED BY <1>3, <2>1, <2>2, ConnectionKeeps
  <1> QED BY <1>1, <1>2, <1>4, <1>5, <1>6, <1>7 DEF DesktopNext

LEMMA DesktopInitInv == DesktopInit => IInv /\ BubbleInv
  <1> SUFFICES ASSUME DesktopInit PROVE IInv /\ BubbleInv
    OBVIOUS
  <1>1. IInv
    BY InitIInv DEF DesktopInit
  <1>2. BubbleTypeOK
    <2>1. toPage \in Seq(Messages) /\ waiting \in 0..MaxTyped
      BY BubbleBounds DEF DesktopInit, BubbleInit
    <2>2. {replyPending, toolStatus, hideTimer, stopping, noted, cut, interrupted} \subseteq BOOLEAN
      BY DEF DesktopInit, BubbleInit, PageInit
    <2>3. reply = {} /\ live = {} /\ agentState = "idle" /\ ~stopping /\ ~noted
      BY DEF DesktopInit, BubbleInit, PageInit
    <2> QED BY <2>1, <2>2, <2>3 DEF BubbleTypeOK
  <1>3. ForgetInv /\ SettleInv /\ OfflineInv
    BY DEF DesktopInit, BubbleInit, PageInit, ForgetInv, SettleInv, OfflineInv, Rests
  <1> QED BY <1>1, <1>2, <1>3 DEF BubbleInv

-----------------------------------------------------------------------------
(* A reply that is pending. *)

\* What removes the mark of a pending reply is owed to the page: a typed message is not
\* taken yet, or its turn runs, or a message that removes the mark is on its way.
ClosingMessages == {"end", "interrupt", "note"}
Owed == waiting > 0 \/ Typed \in live \/ \E i \in 1..Len(toPage) : toPage[i] \in ClosingMessages
PendingIsOwed == page = "open" /\ replyPending => Owed

\* A message more leaves a debt as it is, and one that closes makes up for any other.
LEMMA SendOwes ==
    ASSUME toPage \in Seq(Messages), NEW m \in Messages, Send(m), UNCHANGED waiting,
           Owed, m \in ClosingMessages \/ live \subseteq live'
    PROVE  Owed'
  <1>1. /\ Len(toPage') = Len(toPage) + 1 /\ Len(toPage) \in Nat
        /\ \A i \in 1..Len(toPage) : toPage'[i] = toPage[i]
        /\ toPage'[Len(toPage')] = m
    BY SendFacts
  <1>2. CASE m \in ClosingMessages
    <2>1. Len(toPage') \in 1..Len(toPage')
      BY <1>1
    <2> QED BY <1>1, <1>2, <2>1 DEF Owed
  <1>3. CASE live \subseteq live'
    <2>1. 1..Len(toPage) \subseteq 1..Len(toPage')
      BY <1>1
    <2> QED BY <1>1, <1>3, <2>1 DEF Owed
  <1> QED BY <1>2, <1>3

\* Turns and runs, the page's input and its timer.
LEMMA SpeakOwes ==
    ASSUME BubbleTypeOK, PendingIsOwed, page = "open", UNCHANGED page,
           Speak \/ Submit \/ HideFires
    PROVE  PendingIsOwed'
  <1> USE SpeakersAssumption
  <1>1. toPage \in Seq(Messages) /\ waiting \in Nat
    BY BubbleBounds DEF BubbleTypeOK
  <1>2. CASE Submit
    BY <1>1, <1>2 DEF Submit, PendingIsOwed, Owed
  <1>3. CASE HideFires
    <2>1. UNCHANGED <<replyPending, toPage, waiting, live>>
      BY <1>3 DEF HideFires, sourceVars
    <2> QED BY <2>1 DEF PendingIsOwed, Owed
  <1>4. CASE Speak
    <2> SUFFICES ASSUME Owed PROVE Owed'
      <3>1. UNCHANGED replyPending
        BY <1>4 DEF Speak, TakeTyped, VoiceTurn, BargeIn, Interrupt, VoiceCut, Say, End, Fire,
                    FireSays, FireNotes, FireEnds, FireFails, pageVars
      <3> QED BY <3>1 DEF PendingIsOwed
    <2>1. CASE TakeTyped
      BY <2>1 DEF TakeTyped, Owed
    <2>2. CASE VoiceTurn \/ BargeIn \/ VoiceCut \/ Fire \/ FireFails
      <3>1. UNCHANGED <<toPage, waiting>> /\ (Typed \in live => Typed \in live')
        BY <2>2 DEF VoiceTurn, BargeIn, VoiceCut, Fire, FireFails
      <3> QED BY <3>1 DEF Owed
    <2>3. CASE (\E s \in {Typed, Voice} : End(s)) \/ Interrupt \/ FireNotes \/ FireEnds
      <3>1. PICK m \in ClosingMessages : Send(m) /\ UNCHANGED waiting
        BY <2>3 DEF End, Interrupt, FireNotes, FireEnds, ClosingMessages
      <3>2. m \in Messages
        BY DEF ClosingMessages, Messages
      <3> QED BY <1>1, <3>1, <3>2, SendOwes
    <2>4. CASE (\E s \in {Typed, Voice} : Say(s)) \/ FireSays
      <3>1. PICK m \in {"voice", "other", "thinking"} : Send(m) /\ UNCHANGED <<waiting, live>>
        BY <2>4 DEF Say, FireSays, sourceVars
      <3>2. m \in Messages
        BY DEF Messages, Texts
      <3> QED BY <1>1, <3>1, <3>2, SendOwes
    <2> QED BY <1>4, <2>1, <2>2, <2>3, <2>4 DEF Speak
  <1> QED BY <1>2, <1>3, <1>4

\* The page takes a message: one that closes removes the mark, of the others none is lost.
LEMMA ReceiveOwes ==
    ASSUME BubbleTypeOK, PendingIsOwed, UNCHANGED page, Receive
    PROVE  PendingIsOwed'
  <1>1. toPage \in Seq(Messages)
    BY DEF BubbleTypeOK
  <1>2. PICK m \in Messages : /\ Recv(m)
                              /\ \/ ~replyPending'
                                 \/ m \notin ClosingMessages /\ UNCHANGED replyPending
    BY DEF Receive, RecvSay, RecvThinking, RecvEnd, RecvInterrupt, RecvNote, Messages, Texts,
           ClosingMessages
  <1>3. /\ Len(toPage') = Len(toPage) - 1 /\ Len(toPage) \in Nat /\ toPage[1] = m
        /\ \A i \in 1..Len(toPage') : toPage'[i] = toPage[i + 1]
    BY <1>1, <1>2, RecvFacts
  <1>4. UNCHANGED <<waiting, live>>
    BY <1>2 DEF Recv, sourceVars
  <1>5. ASSUME m \notin ClosingMessages, NEW i \in 1..Len(toPage), toPage[i] \in ClosingMessages
        PROVE  i - 1 \in 1..Len(toPage') /\ toPage'[i - 1] \in ClosingMessages
    <2>1. i # 1 /\ i - 1 \in 1..Len(toPage') /\ (i - 1) + 1 = i
      BY <1>3, <1>5
    <2> QED BY <1>3, <1>5, <2>1
  <1> QED BY <1>2, <1>4, <1>5 DEF PendingIsOwed, Owed

\* Every step of the application.
LEMMA OwedKeeps ==
    ASSUME IInv, BubbleInv, PendingIsOwed, [DesktopNext]_desktopVars
    PROVE  PendingIsOwed'
  <1>1. BubbleTypeOK /\ OfflineInv
    BY DEF BubbleInv
  <1>2. CASE Processes(Next)
    <2>1. CASE page' # "open"
      BY <2>1 DEF PendingIsOwed
    <2>2. CASE page = "connecting" /\ ClientAdded
      <3>1. ~replyPending'
        BY <1>1, <2>2 DEF OfflineInv, Rests, ClientAdded, pageVars
      <3> QED BY <3>1 DEF PendingIsOwed
    <2>3. CASE UNCHANGED <<page, bubbleVars>>
      BY <2>3 DEF PendingIsOwed, Owed, bubbleVars, pageVars, sourceVars
    <2> QED BY <1>2, <2>1, <2>2, <2>3 DEF Processes
  <1>3. CASE HandlerRaises
    BY <1>3 DEF HandlerRaises, PendingIsOwed
  <1>4. CASE Speaking \/ Typing
    BY <1>1, <1>4, SpeakOwes DEF Speaking, Typing, Up, vars
  <1>5. CASE Hiding
    <2>1. CASE page = "open"
      BY <1>1, <1>5, <2>1, SpeakOwes DEF Hiding, vars
    <2>2. CASE page # "open"
      BY <1>5, <2>2 DEF Hiding, vars, PendingIsOwed
    <2> QED BY <2>1, <2>2
  <1>6. CASE Receiving
    BY <1>1, <1>6, ReceiveOwes DEF Receiving, vars
  <1>7. CASE UNCHANGED desktopVars
    BY <1>7 DEF desktopVars, vars, bubbleVars, pageVars, sourceVars, PendingIsOwed, Owed
  <1> QED BY <1>2, <1>3, <1>4, <1>5, <1>6, <1>7 DEF DesktopNext

-----------------------------------------------------------------------------
(* The daemon's way from its start to its end. *)

\* Every step of main() brings it nearer to its end.
StepsLeft(d) ==
    CASE d = "start" -> 8 [] d = "wait" -> 7 [] d = "build" -> 6 [] d = "bind" -> 5
      [] d = "serve" -> 4 [] d = "drain" -> 3 [] d = "stop"  -> 2 [] d = "reap" -> 1
      [] OTHER -> 0

DaemonGoesOn == daemon' # daemon => StepsLeft(daemon') < StepsLeft(daemon)

\* The shell in its setup has the line to read, or the daemon is before the line or on its
\* way to its end, at a place where it waits for nobody or not for ever; it neither listens
\* nor drains.
SetupIsHeard ==
    shell = "setup" => ready \/ daemon \in {"start", "wait", "build", "stop", "reap"} \cup Gone

LEMMA NextGoesOn == IInv /\ Next => DaemonGoesOn
<1> SUFFICES ASSUME IInv, Next, daemon' # daemon
             PROVE  StepsLeft(daemon') < StepsLeft(daemon)
  BY DEF DaemonGoesOn
<1> USE DEF Goto, StepsLeft, Gone
<1>1. CASE DaemonStep
  BY <1>1 DEF DaemonStep, TimelyStep, Start, StartFails, Waiting, Answered, FoundDead, GiveUpWaiting, Announce,
              BuildFails, Bind, BindFails, Drained, Terminate, Reap, Reraised
<1>2. ASSUME NEW s \in {"TERM", "INT"}, Signal(s) PROVE StepsLeft(daemon') < StepsLeft(daemon)
  BY <1>2 DEF Signal
<1>3. CASE Exit
  BY <1>3 DEF Exit, IInv, TypeOK
<1>4. CASE \/ LlamaAnswers \/ LlamaEnds \/ ReadLine \/ ReadEof \/ ShellDies
           \/ AskPort \/ Connect \/ SocketDrops \/ Reload
  BY <1>4 DEF LlamaAnswers, LlamaEnds, ReadLine, ReadEof, ShellDies, AskPort, Connect, SocketDrops,
              Reload
<1> QED BY <1>1, <1>2, <1>3, <1>4 DEF Next

LEMMA NextHeard == IInv /\ SetupIsHeard /\ Next => SetupIsHeard'
<1> SUFFICES ASSUME IInv, SetupIsHeard, Next PROVE SetupIsHeard'
  OBVIOUS
<1> USE DEF SetupIsHeard, Goto, Gone
<1>1. CASE DaemonStep
  BY <1>1 DEF DaemonStep, TimelyStep, Start, StartFails, Waiting, Answered, FoundDead, GiveUpWaiting, Announce,
              BuildFails, Bind, BindFails, Drained, Terminate, Reap, Reraised
<1>2. ASSUME NEW s \in {"TERM", "INT"}, Signal(s) PROVE SetupIsHeard'
  BY <1>2 DEF Signal
<1>3. CASE \/ LlamaAnswers \/ LlamaEnds \/ ReadLine \/ ReadEof \/ Exit \/ ShellDies
           \/ AskPort \/ Connect \/ SocketDrops \/ Reload
  BY <1>3 DEF LlamaAnswers, LlamaEnds, ReadLine, ReadEof, Exit, ShellDies, AskPort, Connect,
              SocketDrops, Reload
<1> QED BY <1>1, <1>2, <1>3 DEF Next

\* The page's turns do not move the processes, but for the socket that a failed turn ends.
LEMMA DesktopMoves ==
    ASSUME [DesktopNext]_desktopVars
    PROVE  Next \/ UNCHANGED <<shell, ready, daemon, signal, llama>>
  BY DEF DesktopNext, Processes, Speaking, HandlerRaises, Typing, Receiving, Hiding, desktopVars, vars

-----------------------------------------------------------------------------
(* Theorems about the application. *)

\* The two invariants together are inductive.
THEOREM DesktopInvariant == DesktopSpec => [](IInv /\ BubbleInv)
  <1>1. (IInv /\ BubbleInv) /\ [DesktopNext]_desktopVars => (IInv /\ BubbleInv)'
    BY DesktopKeeps
  <1> QED BY DesktopInitInv, <1>1, PTL DEF DesktopSpec

\* Processes, page, socket and those who speak keep their types.
THEOREM DesktopTypeCorrect == DesktopSpec => []DesktopTypeOK
  <1>1. IInv /\ BubbleInv => DesktopTypeOK
    BY DEF IInv, BubbleInv, DesktopTypeOK
  <1> QED BY DesktopInvariant, <1>1, PTL

\* However many messages are under way and however those who speak overlap, the page
\* comes to rest when they are done.
THEOREM PageRestsHolds == DesktopSpec => []PageRests
  <1>1. IInv /\ BubbleInv => PageRests
    BY DEF BubbleInv, SettleInv, PageRests, Quiet
  <1> QED BY DesktopInvariant, <1>1, PTL

\* Words of an interrupted voice turn are gone when the interrupt has arrived.
THEOREM InterruptedIsGoneHolds == DesktopSpec => []InterruptedIsGone
  <1>1. IInv /\ BubbleInv => InterruptedIsGone
    BY DEF BubbleInv, BubbleTypeOK, ForgetInv, InterruptedIsGone
  <1> QED BY DesktopInvariant, <1>1, PTL

\* Also while the page talks to the daemon, and when a turn ends its connection, the port
\* is handed out only once llama-server has answered.
THEOREM DesktopReadyMeansAnswered == DesktopSpec => []ReadyMeansAnswered
  <1>1. IInv /\ BubbleInv => ReadyMeansAnswered
    BY DEF IInv
  <1> QED BY DesktopInvariant, <1>1, PTL

\* Likewise a daemon that ends by itself takes llama-server with it.
THEOREM DesktopEndsWithModel == DesktopSpec => []EndsWithModel
  <1>1. IInv /\ BubbleInv => EndsWithModel
    BY DEF IInv
  <1> QED BY DesktopInvariant, <1>1, PTL

\* However many messages are under way and whoever else speaks, a page that marks a reply
\* as pending has it coming as long as it is connected: its message is yet to be taken, its
\* turn runs, or what removes the mark is on its way (App.tsx:228-239).
THEOREM PendingIsOwedHolds == DesktopSpec => []PendingIsOwed
  <1>1. DesktopInit => PendingIsOwed
    BY DEF DesktopInit, BubbleInit, PageInit, PendingIsOwed
  <1>2. /\ IInv /\ BubbleInv /\ PendingIsOwed
        /\ [DesktopNext]_desktopVars
        => PendingIsOwed'
    BY OwedKeeps
  <1> QED BY DesktopInvariant, <1>1, <1>2, PTL DEF DesktopSpec

\* The daemon never goes back: each of its steps, each signal and the shell's kill bring it
\* nearer to its end, in at most eight steps (__main__.py:82-130).
THEOREM DaemonGoesOnHolds == DesktopSpec => [][DaemonGoesOn]_vars
  <1>1. (IInv /\ BubbleInv) /\ [DesktopNext]_desktopVars => [DaemonGoesOn]_vars
    BY DesktopMoves, NextGoesOn DEF DaemonGoesOn
  <1> QED BY DesktopInvariant, <1>1, PTL DEF DesktopSpec

\* The shell's setup never waits for a line that cannot come: the daemon listens, and with
\* that may come to drain, only when the line is out; at every place it may be at before, a
\* TimelyStep takes it on (lib.rs:86, llama_server_process.py:82-124).  With DaemonGoesOn
\* the safety part of SetupEnds.
THEOREM SetupIsHeardHolds == DesktopSpec => []SetupIsHeard
  <1>1. DesktopInit => SetupIsHeard
    BY DEF DesktopInit, Init, SetupIsHeard
  <1>2. (IInv /\ BubbleInv) /\ SetupIsHeard /\ [DesktopNext]_desktopVars => SetupIsHeard'
    BY DesktopMoves, NextHeard DEF SetupIsHeard
  <1> QED BY DesktopInvariant, <1>1, <1>2, PTL DEF DesktopSpec
=============================================================================
