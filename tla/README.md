# Verification of desktop-ai-agent

desktop-ai-agent is a character that lives on the desktop: a Tauri shell with a React page, a
Python daemon (asyncio, FastAPI) that it spawns, and a llama-server that the daemon spawns. The
user types or speaks, a local LLM answers and calls tools, VOICEVOX speaks the answer.

This directory holds TLA+ models of that program, the TLC configurations that check them on small
instances, and proofs of the main results for every value of the constants, checked by TLAPS. Every
definition is translated from the source; `PROJECT.json` names for each the lines it stands for.

Paths below are short: `pipeline.py` is `agent/src/agent/voice/pipeline.py`, and so on.

## 1. The system

### 1.1 Components

| Component | State it keeps | Operations | Modelled in |
|---|---|---|---|
| Tauri shell (`lib.rs`) | the daemon's port, token and process | spawn and read the ready line, hand out the port, kill on exit | `AppLifecycle` |
| Entry point (`__main__.py`), llama-server process (`llama_server_process.py`) | the child process | start, wait until it answers, build, announce, serve, stop | `AppLifecycle` |
| RPC client and bootstrap (`client.ts`, `bootstrap.ts`) | one WebSocket | connect once, send, receive | `AppLifecycle`, `VoiceLoop` |
| WebSocket server (`server.py`) | the set of clients, one receive loop per connection | `session.send_text`, `voice.start`, `voice.stop`, `voice.tts_done`, microphone frames, turn events, broadcast | `VoicePipeline` (partly) |
| Voice pipeline (`pipeline.py`) | `_active`, the gate `_agent_audio_pending`, final transcripts, three callbacks, `_current_turn` | start, stop, feed, playback done, and the reader's callbacks | `VoicePipeline` |
| Deepgram client (`stt_deepgram.py`) | socket, reader task, callbacks | start, feed, stop with a timeout, read loop | `VoicePipeline` |
| TTS player (`ttsPlayer.ts`) | scheduled sources, pending flag, a queued microtask, the timeline | play, chunk ended, drained report, cancel | `TtsPlayer`, `TtsTimeline`, `VoiceLoop` |
| Voice button, microphone (`VoiceButton.tsx`, `micCapture.ts`) | recording; stream, audio graph and context of the capture | click or Escape, capture granted, refused or failed, context closed | `MicCapture`, `VoiceLoop` |
| Page (`App.tsx`) | draft, bubble, agent state, timers | typed messages, notifications, hide timer, reload | `VoiceLoop`, `ReplyBubble` (partly) |
| LLM lock (`locked.py`) | one `asyncio.Lock` around an async generator | call, resume, stop iterating, cancel, finalizers | `LlmLock`, `SerialLlm` |
| llama-server backend (`llama_server.py`) | one HTTP stream per call, streamed tool calls | content pieces, reasoning, tool calls, end | `LlmLock`, `SpeechPath`, `ToolCallStream` (partly) |
| Thinking parser (`stream_parser.py`) | side of the tag, held-back characters | feed (a generator), flush | `ThinkParser` |
| Sentence splitter (`sentence_splitter.py`) | characters of the current sentence | feed, flush | `SentenceSplitter` |
| Turn loop (`turn_loop.py`) | step, last signature, reply, calls | prompt, stream, tool steps, notices, end | `TurnLoop`, `TurnStream`, `SpeechPath` |
| Session manager (`session.py`), repository (`sessions.py`) | rows, last activity, close tasks, the watcher | join or create, touch, close and summarize, poll | `SessionLifecycle` |
| Proactive driver (`proactive.py`) | one session per run | fire | `SessionLifecycle`, `LlmLock`, `ReplyBubble` (partly) |
| Scheduler (`cron.py`), full-text rows of summaries (`sessions.py`) | rows that survive, jobs that do not; the index | load at start, add, fire, stop; close in three statements | `DaemonStore` |
| Tools, VOICEVOX, memory, prompt builder, configuration, web search, stores, rendering, scripts | little or none | | not modelled beyond what a turn sees of them |

### 1.2 How they interact

* The shell blocks in its setup on the first line of the daemon's output; the daemon prints it after
  llama-server has answered. The page asks the shell for the port and opens one WebSocket.
* Page and daemon exchange ordered frames: JSON-RPC one way, events and WAV chunks the other.
  The handler of a connection processes one frame at a time and awaits a typed turn to its end.
* The voice pipeline and the Deepgram client exist once, for all connections; their callbacks lead
  to the connection that last started voice. A reader task dispatches utterances to turn tasks.
* Turns, close tasks, the idle watcher, the `session.close` tool, the shutdown hook and proactive
  runs share the LLM (through the lock) and the session tables.

### 1.3 What is hard

* **Cooperative interleaving.** Between two awaits a task is alone; across an await everything may
  change. The pipeline's flag and `_current_turn` are read before an await and written after it by
  handlers, readers and turns; closing a session reads messages, waits for the LLM and then writes.
* **Half duplex.** The microphone gate closes when a turn is fired and is opened by the turn, by the
  page's report that playback has drained, by `voice.stop` or by the next utterance's start. Four
  writers on two sides of a network must neither forget it nor open it early.
* **Cancellation and generators.** A cancelled caller leaves two suspended generators, closed later
  by finalizers; a cancelled waiter of the lock may already have been woken.
* **Timeouts.** `stt.stop` gives the reader three seconds; `_wait_ready` two minutes; `stop` five
  seconds before SIGKILL.
* **Failure of a part.** A summary, a synthesis, a tool, a decoder or a process may fail in the middle
  of something, and the daemon may be killed at any time.
* **Cutting text.** Tags and sentences are recognised in text that arrives in arbitrary pieces.

### 1.4 What makes each component correct

* Voice: the gate is never shut with nobody left to open it; whoever waits for a turn waits for one
  that was told to stop; `voice.stop` completes; nobody waits for a report the player does not make.
* LLM lock: one holder, first come first served, no lost wake-up, no generator nobody drives, every
  call served or given up.
* Sessions: every chat left behind is being closed; a later closing never covers fewer messages; an
  idle chat gets closed.
* Turn: bounded, never repeats a step, has shown the LLM every result its history window has room
  for when the LLM ends it, answers every request it announced, always ends.
* Text: what is shown and spoken does not depend on how the stream was cut.
* Stores: what was confirmed is scheduled, and what a search finds is what is stored, over kills.
* Audio: replies are played without gap or overlap; the button, the microphone and what the daemon
  was told agree.
* Application: the port is handed out only for an answering LLM; neither the start nor the stopping
  of llama-server hangs, and nothing is left behind when a part fails.

## 2. Modules

Every definition keeps the source's name where TLA+ allows it. A task's local control is a control
point (`handler`, `reader`, `turn`, `pc`, `at`); an action is the code between two awaits. Bounds
(`MaxTts`, `MaxHeard`, `QLen`, `MaxChunks`, `MaxId`, `MaxSeq`, `MaxTime`, `MaxAwaits`, `MaxSessions`,
`MaxMsgs`, `MaxFaults`, `MaxCalls`, `MaxStored`, `MaxPiece`, `MaxText`) are constants that occur in guards only. Definitions marked "Faulty" are
plausible mistakes in the code, used to show that each property can fail; no specification uses them.

| Module | Models |
|---|---|
| `VoicePipeline` | `VoicePipeline`, `DeepgramSTT`, the WebSocket handlers and the turn tasks: one control point for each connection's handler and reader and for each turn |
| `TtsPlayer` | the page's playback queue and its drain report |
| `VoiceLoop` | both, the button, the microphone, typed messages, reloads and the ordered socket between them; the voice properties |
| `LlmLock` | the locked backend: generators, `asyncio.Lock` as they use it, callers, finalizers |
| `SerialLlm` | abstract: calls are served one at a time, in order, and may be withdrawn while they wait |
| `SessionLifecycle` | sessions and messages tables, turns, close tasks, watcher, close tool, proactive runs, exit hook, kills and restarts |
| `DaemonStore` | what the daemon keeps beside them: `SessionLifecycle` extended by the scheduler's rows and jobs and by the full-text rows of the summaries |
| `TurnLoop` | one turn of `TurnLoop.run` |
| `TurnStream` | abstract: the events of a turn the server and the pipeline may rely on |
| `ThinkParser`, `SentenceSplitter` | the two text automata |
| `ToolCallStream` | the accumulator of streamed tool calls |
| `SpeechPath` | the three composed along a reply: HTTP lines, deltas, sentences, calls |
| `AppLifecycle` | shell, daemon, llama-server and page as processes |
| `ReplyBubble` | what the page shows, and the turns and runs whose words it shows, over the socket |
| `TtsTimeline` | `TtsPlayer` with its chunks told apart and the audio clock: decoding in any order, start times, cancellation |
| `MicCapture` | the voice button and the capture it starts, split at the two awaits |
| `PageAudio` | both, on one JavaScript thread |
| `DesktopApp` | `AppLifecycle` and `ReplyBubble`: turns run while the daemon does, a lost connection or a reload cuts them off |
| `MCVoiceLoop`, `MCLlmLock`, `MCSessionLifecycle`, `MCTurnLoop`, `MCSpeechPath`, `MCAppLifecycle`, `MCDesktopApp`, `MCPageAudio`, `MCDaemonStore` | instances for TLC |
| `VoiceProofs`, `LlmProofs`, `SessionProofs`, `StoreProofs`, `TurnProofs`, `SpeechProofs`, `AudioProofs`, `AppProofs` | theorems and proofs |

The models meet at stated places. `VoicePipeline` reduces a turn to the TTS chunks it sends and to
its end; `TurnLoop` is what happens inside it, and `SpeechPath` what happens inside its stream.
`SessionLifecycle` takes the order in which summaries are served from `SerialLlm` (`ahead`), which
`LlmLock` is shown to implement. `TtsTimeline` is shown to implement `TtsPlayer`, which `VoiceLoop` uses:
its chunks are counted only, its clock is a stutter. `LlmLock`'s callers are the turns and summaries of the others.

How the source maps to actions, where it is not one to one:

* **`_on_utterance_end`** is `ReaderUtteranceEnd` up to the partial callback's await,
  `ReaderPartialDone` up to `_cancel_current_turn`, `ReaderUttCancelled` after it; the gate, the new task and
  `_current_turn` are set together by `FireTurn`. `DispatchUtterance` is the part the two paths share.
* **`_cancel_current_turn`** is inlined in its three callers; `CurrentLive` is its early return, and
  its last line, which clears `_current_turn` whatever is stored there by then, is kept.
* **`stt.stop`** is `SttStop` (callbacks cleared, CloseStream sent), then `StopDone` or
  `StopTimeout`; a cancelled reader goes on from wherever it was.
* **The lock's generator** has states `acquiring`, `streaming`, `spent`, `dropped`, `closing`: the
  last two separate the outer generator's end, which releases the lock, from the inner one's, which
  closes the HTTP stream. `spent` is a generator whose caller left after the `done` chunk.
* **`_close_and_summarize`** is `Ask` (messages read, LLM called) and `Summarized` or `SummaryFails`
  after its await, for whichever of the four callers is closing.
* **`SessionRepository.close`** runs without an await, but in autocommit mode: `CloseIndexed` is all
  of it, `KillInClose` a kill after its first or second statement. `add_task` is `AddTask`, and
  `KillInAddTask` a kill between the row and the job.
* **`playWav`** is `ReceiveChunk` up to its await and `Schedule` or `Reject` after it. `startCapture` is
  in `Begin` up to `getUserMedia` and `Granted`, `GraphFails` or `Refused` after it; `stopCapture` is
  in `End` up to `close()` and `Closed` after it.
* **The parser's `feed`** is a generator; `ScanTag` is a round of its loop, `ScanRest` its return, and
  the turn handles each segment before the next round, as `Say`.

What the models abstract: the text of messages, prompts and results; the samples of audio chunks and frames;
tool calls (values told apart by name and arguments); audio time (small integers); other time (a session is stale or not; a timeout
may fire whenever its wait is on).

## 3. Runs

All runs are exhaustive over the instance. Deadlock is not checked: a turn, a stream and an
application end, and a daemon with nothing to do waits for the user.

| Run | Question | Instance |
|---|---|---|
| `Voice` | Is the gate always on its way to be opened, and opened in the end? Does `voice.stop` complete? | one connection, two turns, one transcript, one chunk, one frame each way, fair |
| `VoiceFaults` | May the report that a cancelled playback does not make be missed, with typed turns, rejected chunks, failing handlers and streams? | as above, two frames each way, safety only |
| `VoicePages` | Do tasks of two connections sharing one pipeline wait only for turns told to stop? | two connections, reloads, turns without audio |
| `VoiceTwoTurns` | (expected violation) Are two voice turns never alive at once? | two transcripts and two frames |
| `Llm` | Lock, generators, order and service | two turns, one other caller, five generators, cancellation everywhere, fair |
| `Store` | May two closings of a session lose messages? Does a kill between two statements lose a job, or let a search find what is not there? | two sessions, two messages, two turns, a close task, two tasks (one whose cron expression is rejected), exit, two failures or kills |
| `SessIdle` | Is every idle chat closed, and every older chat being closed? | three sessions, two messages, one turn at a time, two close tasks, one failure or kill, without exit and proactive runs, fair |
| `Turn` | One turn: limit, repetition, results, events, end | four calls (two plain, one unknown, one with bad arguments), two per reply, limit two, a history window of three messages, other turns that store messages while the chat has fewer than five, fair |
| `Speech` | Does cutting the reply change what is shown, spoken or called? | all texts of up to six characters over an alphabet of six, cut everywhere, tags of two and three characters with a common start; up to three fragments of two tool calls, each in place of two characters |
| `Desktop` | Failures during start, service and shutdown; does the page come to rest? | all of `AppLifecycle`, with one signal; one typed message waiting, one voice turn, one proactive run; nothing is begun while a message is under way (`MaxUnderWay`), but what has been begun may end, so that several are; fair |
| `PageAudio` | Are replies heard one after the other? Do button, microphone and daemon agree? | three chunks received, two being decoded, two scheduled, durations one and two, three units of time, numbers 0 and 1; two calls of `getUserMedia` or `close` under way |
| `AppOrphan` | (expected violation) Does llama-server end with the application? | without signals, fair |

**Why the bounds are enough to be interesting.** Two turn slots are what a lost `_current_turn`
needs; finished slots are reused, so sequences of turns are unbounded. One frame each way makes a
frame cross another one, two put a chunk behind an interrupt; one chunk per turn separates turns that owe a drain from turns that do
not, and chunks of two turns overlap in the player. Two connections suffice for a reader of the one
to meet the handler of the other. With five generators and three callers there are always
generators left behind when a new call is made. Three sessions and two close tasks allow a
chat to be left behind another that is itself left behind (`SessIdle`, with one turn at a time; two
turns meet in `Store`); two messages tell a summary that covers a session from one that
does not; one fault (a failed summary or a kill, at any moment) is what it takes to lose a close
task. Limit two gives a first, a middle and a last step. A window of three is
smaller than what one turn may store (seven messages), and other turns may push a result out of it. Six characters hold an open tag, a close
tag and a sentence end, cut at every place. Three fragments let two calls alternate, and an id be
missing or come twice. Three chunks numbered 0 and 1 give two replies, one of them decoded out of
order while the other plays; two awaits let a click meet a pending capture or a pending close, and
a capture meet the close of the one before.

**What the bounds hide.** A client with more than one frame in flight is not explored for liveness.
`VoicePages` sends no audio: what reloads do to audio is in 6. `Closers` bounds the close tasks alive
at once. A summary reads the last fifty messages of a session
(`_close_and_summarize`); the models take it to read all of them. Sessions are ordered by number: two rows with the
same `started_at` do not occur. A kill between `create` and the first `append_message` is not taken.
The bounds on failures and kills are two and one; the theorems have no such bound.

### 3.1 The properties

* `NoStrandedMute`: while a client is connected, a shut gate has a live turn, a turn about to be
  fired, audio under way, or a report not yet handled. `MuteInv` is its inductive strengthening: a
  turn opens the gate itself unless it ends with audio sent, and then audio or report are under way
  and no interrupt sent later discards them. `MuteReleased`: the gate is opened or the client lost.
* `StopCompletes`: a handler in `voice.stop` returns to its loop, timeouts and cancellation included.
* `AwaitedIsCancelled`: every wait in `_cancel_current_turn` is for a task that was cancelled or is
  done, so that no handler waits out a whole reply.
* `LostReportNotMissed`: `cancelPlayback` never reports (see 6), and `agent.interrupt` makes it run.
  While an interrupt is on its way, a shut gate is going to be opened by a turn, by a chunk behind the
  interrupt or by a report already sent: by nothing that the interrupt discards. It holds with chunks
  that do not decode, since a reader sends an interrupt only after it has found the gate open.
* `LockInv`, `NoOrphanStream`, `ImplementsSerial`, `EveryCallServed`: see 1.4. `EveryCallServed`
  includes the call that `session.close` makes inside a turn whose own generator still has the lock.
* `CoverageGrows` (action property): of two closings of one session the later never stores a
  summary made from fewer messages. It holds because summaries are served in order.
* `OlderIsClosing`: without failure, every open chat older than the newest has its close task.
  `IdleIsClosed`: an idle chat is closed or taken up again, unless the daemon goes down or a failure has
  left the chat behind a newer one (then nothing reaches it; see 6).
* `PageRests`: when nobody speaks and all that was sent has arrived, the page looks idle, expects
  nothing, and what it shows is due to be hidden, in whatever order turns and runs overlapped.
  `InterruptedIsGone`: once the page has handled an interrupt, no text of the interrupted turn comes
  up again. `PendingEnds`: the mark of a pending reply is removed or the connection is lost.
* `NoRepeat`, `ImplementsStream`, `TurnEnds`. `ReplySawResults`: a turn the LLM ends by itself has shown it
  the user's message and every tool result, but for those too old for the window: one is missing from
  the last prompt only if that prompt is full of newer messages, the turn's own or another turn's.
  (That none is missing is false, see 6.)
* `DeltasAreParsed`: the deltas are a prefix of the text parsed at once, and all of it at the end.
  `SpokenAsShown`: the synthesizer gets exactly the sentences of the shown text, as soon as they are
  complete. Both references are recursive functions over the whole text, independent of the
  automata. `CallsAreWhole`: the turn gets the calls of a complete reply as one reading of all their
  fragments would give them, and none of a reply that was cut short.
* `ReadyMeansAnswered`, `EndsWithModel`, `SetupEnds`. `ShutdownEnds`: a daemon that stops its llama-server
  is gone in the end, whatever llama-server does, and so is one that drains once llama-server is dead.
  It does not say that a drain ends while llama-server lives (see 6).
* `RegisteredIsScheduled`: a task whose registration was reported to the agent has its job whenever
  the daemon runs, although `load_tasks` meets rows that it can never register.
  `IndexFollowsRow`: wherever a kill cuts `close`, the index names only ended sessions and no summary
  newer than the stored one.
* `NoGap`: the next chunk starts at once or where the last one ends; a cancellation must give up the
  abandoned position for that. `NoOverlap`: chunks between two set-backs of the timeline are apart.
  `ImplementsPlayer`: the timeline is a `TtsPlayer`.
* `OffMeansSilent`, `ShownIsTold`: with the button off nothing is captured and no stream is out of reach,
  and the button shows what the daemon was told, provided that no click has fallen into one of the
  two awaits (`hasty`; without that they are false, see 6). `StopIsComing` needs no such condition: a
  daemon that takes the button for on while it is off has a stop on its way.

### 3.2 Fairness

* `VoiceLoop`: the event loop runs every ready task; a turn sends finitely many chunks and ends
  (weak fairness of its end while its chunks are bounded); Deepgram answers CloseStream or the
  three-second timeout fires; the page handles frames and plays audio to its end. The user owes
  nothing: no click, frame or reload is fair. That a reader hears anything is not fair either.
* `LlmLock`: ready tasks run, finalizers among them (CPython drops a generator at once when its
  caller leaves it, and the event loop's hook creates a task to close it); a reply is finite.
* `SessionLifecycle`: close tasks run, the LLM answers or fails, the watcher polls. Nobody needs to
  use the application, and nobody quits it (`Goes`).
* `DesktopApp`: `AppLifecycle`'s, and that a broken connection is noticed, the handler takes typed
  messages, their turns end or fail (`TurnEnds`) and the browser handles its messages.
* `TurnLoop`: `Progress`: replies, tools and speech end. For the LLM this is an assumption on
  llama-server, whose context bounds a reply: the client reads without a timeout
  (`llama_server.py:38-43`).
* `AppLifecycle`: the daemon's steps and the shell's read. llama-server owes nothing: it need not
  answer, nor end on SIGTERM. The daemon's drain is therefore not fair: uvicorn waits for running
  handlers without a timeout, `close_current` for its summary (`factory.py:174-191`, `session.py:110`),
  both for a client that reads without one. Only once llama-server is dead, so that every call to it
  fails, is `Drained` fair (`OwedStep`). `Signal`, `Exit` and the page are not fair.

## 4. Proofs

| Theorem | Module | Says, for every value of the constants |
|---|---|---|
| `TypeCorrect`, `AwaitedIsCancelledHolds` | `VoiceProofs` | types; the waits, with any number of connections and tasks and with reloads |
| `MuteInvariant`, `LostReportNotMissedHolds` | `VoiceProofs` | the gate's invariant, and that nobody waits for the report a cancellation does not make, for one connection; chunks may be rejected |
| `NoStrandedMuteHolds` | `VoiceProofs` | the gate, for one connection and a decoder that accepts its chunks |
| `Invariant`, `LockInvHolds`, `NoOrphanStreamHolds` | `LlmProofs` | the lock, for any callers and generators |
| `Refinement` | `LlmProofs` | `LlmLock` implements `SerialLlm` |
| `OneRequestWithoutAbandon` | `LlmProofs` | one HTTP stream at a time if no caller stops while it handles a chunk |
| `WaitersAreNotStuck` | `LlmProofs` | callers never wait for each other in a ring: the safety part of `EveryCallServed` |
| `TypeCorrect`, `OlderIsClosingHolds`, `CoverageGrowsHolds` | `SessionProofs` | sessions, for any number of everything |
| `SomeoneIsServed`, `NobodyIsOvertaken` | `SessionProofs` | the requests for summaries are a queue that never stops by itself: the safety part of `IdleIsClosed` |
| `TypeCorrect`, `NoRepeatHolds`, `ReplySawResultsHolds`, `ImplementsStreamHolds` | `TurnProofs` | the turn, for any tools, any limit and any history window, among other turns |
| `BudgetIsNatural`, `StepsUseUpBudget` | `TurnProofs` | every step of a turn lowers a natural number: the safety part of `TurnEnds` |
| `SpeechTypeCorrect`, `DeltasAreParsedHolds`, `OnlyATagIsHeldBack`, `SpokenAsShownHolds`, `CallsAreWholeHolds` | `SpeechProofs` | the way of a reply's text, sentences and calls, for any alphabet, tags, texts and cuts |
| `StoreInvariant`, `StoreTypeCorrect`, `RegisteredIsScheduledHolds`, `IndexFollowsRowHolds`, `StoreCoverageGrows`, `StoreSomeoneIsServed` | `StoreProofs` | the stores, for any number of tasks, sessions, kills and restarts |
| `AudioInvariant`, `AudioTypeCorrect`, `NoGapHolds`, `NoOverlapHolds` | `AudioProofs` | the timeline, for any chunks and durations |
| `ImplementsPlayerHolds` | `AudioProofs` | `TtsTimeline` implements `TtsPlayer` |
| `OffMeansSilentHolds`, `ShownIsToldHolds`, `StopIsComingHolds` | `AudioProofs` | the button and the microphone |
| `DesktopInvariant`, `DesktopTypeCorrect`, `DesktopReadyMeansAnswered`, `DesktopEndsWithModel` | `AppProofs` | the processes, with the page's turns and runs beside them |
| `PageRestsHolds`, `InterruptedIsGoneHolds` | `AppProofs` | the bubble, for any number of messages under way |
| `PendingIsOwedHolds` | `AppProofs` | what removes the mark of a pending reply is always still to come: the safety part of `PendingEnds` |
| `DaemonGoesOnHolds`, `SetupIsHeardHolds` | `AppProofs` | the daemon never goes back, and the shell never waits for a line that cannot come: the safety parts of `ShutdownEnds` (not that a drain ends) and `SetupEnds` |

The assumptions on constants are the named `ASSUME`s of the modules (distinct identifiers, bounds
that are naturals, tags that are not empty); `MuteInvariant`, `NoStrandedMuteHolds` and `OneRequestWithoutAbandon` state theirs.

**The inductive invariants.**

* *Gate.* `NoStrandedMute` is not inductive: a live turn that is about to end without having sent
  audio must open the gate, a report in the socket must find the pipeline that waits for it, an
  interrupt behind a chunk would discard it. `MuteInv` adds: who releases (`GateHasOwner`: a turn
  that has sent nothing or is cancelled, the last frame to the page is audio, playback, or a decoder that
  may reject it, with no interrupt behind, a report in the socket), that a turn's callback leads to the page
  (`CallbacksInstalled`, which ties `active`, the STT stream, the handler's control point and the
  reader together), and that a reused task slot carries no old cancellation (`FreeIsClean`). With
  two connections a turn may write to a dead page, and the statement is false (see 6).
* *Lock.* `LockInv` needs to know that a calling caller has its own live generator and no other
  caller has it (`RefInv`), since a call takes a free slot and a dropped caller frees one.
* *Sessions.* `CoverageGrows` rests on `RequestInv`: of two requests one is ahead; of two about one
  session the one ahead has read no more; what is stored comes from no more than what is to come.
  `OlderIsClosing` rests on the numbering of sessions and on the fact that a closer that is not
  free has a job (`TaskInv`, `NumberInv`).
* *Turn.* `NoRepeat` needs that `prev` is the last step that ran and that the steps are counted by
  `step` (`CountInv`); `ReplySawResults` that already while the LLM replies its prompt has every own message
  or is full of newer ones (`Shown` in `ReadInv`), which nothing stored later changes.
  The budget of a turn is what its step may still take and `StepCost` for every step left; `SizeInv`
  bounds the calls of a reply. (That the LLM sends finitely many chunks stays an assumption: the model
  takes a text chunk once, since further ones change nothing.)
* *Queue.* `QueueInv`: `ahead` is a strict order on a finite set. Every step is a `QueueStep`, which
  withdraws some requests and puts at most one new one behind those left; the request with the
  smallest set ahead of it is the one served.
* *Speech.* `DeltasAreParsed` and `SpokenAsShown` say nothing of what the buffers hold. The invariants
  are about continuations: for every text x still to come, what has been said and then the reference's
  reading of buffer and x is its reading of the whole text and x (`Continues`; `Speaks` is the same
  for the splitter), so that a step needs only be compared with one unfolding of the reference.
  For the calls: the accumulator is whole of the fragments received so far (`WholeOf`), and a fragment
  disturbs one entry. The references recur over texts of any length; that their equations have a
  solution, and the induction over lengths, are proved in `SpeechProofs` for sets and functions,
  because the library states them for operators.
* *Stores.* The sessions' invariant with: a confirmed task has a row that can be registered, and its
  job while the daemon runs (`AckedInv`); the index of a session with a row for it is no newer than
  what is stored. That `KillInClose` keeps the sessions' invariant is `Summarized` with a kill behind it.
* *Audio.* Chunks scheduled since the last set-back end by `nextStartTime`, every chunk's identity was
  received (`ChunkInv`), and one await at a time is under way until a click falls into it (`CalmInv`).
  The refinement maps sets of chunks to their cardinalities, whence the lemmas on finite sets.
* *Bubble.* `ForgetInv` follows an interrupted text through the wire; `SettleInv` finds, for a page that is
  not at rest, the message or the speaker that will bring it there; `OfflineInv` says that nothing is
  under way to a page without a connection. `PendingIsOwed` is inductive with it: a page that connects
  marks nothing, and the turn of a typed message ends with a message or with the connection.
* *Application.* `Progressed`: main gets past its wait only with an answer, and only its first step
  spawns llama-server. `StepsLeft` counts the steps main has before it; `SetupIsHeard` is inductive.

Every invariant was checked by TLC before it was proved.

**Only model-checked:** liveness (`MuteReleased`, `StopCompletes`, `EveryCallServed`, `IdleIsClosed`,
`TurnEnds`, `SetupEnds`, `ShutdownEnds`, `PendingEnds`), since TLAPS proves no liveness under fairness;
of each the safety part is proved: that something is always left to take the next step, and for the turn
and the daemon that the steps are finitely many. (For `MuteReleased` it is `NoStrandedMute`, for
`StopCompletes` `AwaitedIsCancelled`, for the others what the table names.)

## 5. Expected violations

Two runs check what a comment of the code says and find it false of the code.

* **`VoiceTwoTurns`** (`OneTurnAtATime`, `pipeline.py:158-159` and 207). The handler of `voice.stop`
  or the reader cancels a turn and waits for it; when it goes on it clears `_current_turn`, where
  meanwhile another task may have stored a new turn. That turn is forgotten, and the next utterance
  starts another beside it.
* **`AppOrphan`** (`ModelEndsWithApp`, `__main__.py:13-14`, `App.tsx:244-245`, `lib.rs:139`). The shell
  kills the daemon with SIGKILL, the `finally` that stops llama-server does not run, and
  llama-server lives on.

## 6. Other divergences

Met while modelling and, where a model is named, confirmed with TLC on it; kept here as notes
because each is one behaviour rather than a question to re-check.

Voice (`VoiceLoop`):

* `pipeline.py:18-20` says frames are dropped while TTS plays. A turn that fails or is cancelled
  after it has sent audio opens the gate at once (187, 191), and so does the drain of its first
  burst while it still speaks (101): the agent hears itself.
* `pipeline.py:106-107` says `stop_session` leaves no reply hanging. A reader between its last test
  and `create_task` (161-168) starts a turn after `stop_session` has looked.
* `ttsPlayer.ts:121-122` has a cancelled playback treated "like a clean drain so the daemon releases its
  STT gate". `cancelPlayback` clears `hasPendingPlayback` (123) before it queues the drain check, which
  then returns (49): a cancelled burst is never reported (that a queued check with nothing scheduled
  reports fails on `Voice`). The gate does not need it: `NoStrandedMute` holds without that
  report, and `LostReportNotMissed` says why. Only the comment is wrong.
* `server.py:12-13` says `voice.stop` runs the accumulated transcript; `pipeline.py:115` drops it.
* `pipeline.py:4-5` says the session stays open until it is closed. When Deepgram closes the stream
  (`stt_deepgram.py:160`) nobody is told, and `voice.start` returns early (`pipeline.py:77`).
* `pipeline.py:193-195` speaks of not stranding the user behind a mute. A page reloaded during
  playback never reports the drain, and a new `voice.start` returns early while `_active` is set: with
  `MayReload`, `MuteReleased` fails. The same holds for a turn whose only chunk the decoder rejects
  (`App.tsx:205` logs it and no drain is ever owed): with `DecodeMayFail`, `NoStrandedMute` fails. This is
  why the gate's theorems assume neither happens.

LLM and turns (`LlmLock`, `TurnLoop`):

* `locked.py:3-6` says the wrapper serializes all `chat_stream` calls. A caller cancelled while it
  handles a chunk leaves two generators; the outer one's finalizer releases the lock, and the next
  call may open its HTTP stream before the inner one's has closed the old one (`OneRequestAtATime`
  in `LlmLock` fails). The theorem `OneRequestWithoutAbandon` says that this is the only way.
* `locked.py:6-7` says the proactive driver waits until the current turn finishes. The lock is held
  per call: the driver may be served between two steps of a turn.
* `turn_loop.py:242-243` says the LLM will see the tool results in the message history. A prompt takes the
  last thirty messages of the chat (`turn_loop.py:100, 121`): of a turn with more results, or beside
  another turn of the same chat that stores as many messages, the oldest results and the user's own
  message are missing from it. `ReplySawResults` says that this is the only way.
* `docs/architecture.md:74` allows five tool calls per turn; `range(MAX_TOOL_STEPS + 1)` runs the tools
  of a sixth step before the notice (`turn_loop.py:120`), and a step may have several calls.
* `docs/spec-detailed.md:90` says bad arguments are answered and retried; `json.loads` is evaluated
  outside the `try` (`turn_loop.py:200`) and raises out of the turn, without an end event.
* `turn_loop.py:8-9` says a tool that needs confirmation pauses until it is confirmed; it runs (213).

Sessions (`SessionLifecycle`):

* `docs/spec-detailed.md:213`: on exit every open session is closed. `close_current` closes the newest
  open chat (`session.py:55`); one left behind it by a failed summary or a kill stays open for good.
* `docs/spec-detailed.md:217-218` records `ended_at` before the summary; `session.py:118` after it, and a
  turn may join the session meanwhile.
* `docs/spec-detailed.md:221`: a closed session is not resumed. A turn that closes its own session goes
  on writing to it (`turn_loop.py:221`).
* `docs/spec-detailed.md:211`: an idle proactive session is closed; no query finds one (`sessions.py:103`).

Stores (`DaemonStore`):

* `db.py:105` says "we manage explicit txns"; no statement of the daemon opens one. A kill inside
  `close` leaves a session ended and without its full-text row: no search finds it until it is closed again.
* `add_task` (`cron.py:69-74`) stores the row before it parses the expression. The agent is told of the
  error, and the row fails again at every start. Nothing deletes or disables a row.
* `cron.py:26` gives the scheduler Asia/Tokyo, but a trigger made by `CronTrigger.from_crontab` (41, 74)
  without a timezone takes the machine's (read in the code).

Audio (`PageAudio`):

* `VoiceButton.tsx:16-18` says that a click toggles cleanly "regardless of when the prompt fires". A
  click or Escape while the prompt is pending finds nothing to stop (`micCapture.ts:81-102`): the
  permission given afterwards captures the microphone with the button off. The next click shows on
  and keeps that capture; a second `getUserMedia` under way overwrites its stream, which nothing can
  stop any more. A click while `close()` is pending sends `voice.start` before the `voice.stop` of the click
  before: the button is on and the daemon deaf.
* If the audio graph cannot be built (`micCapture.ts:64-78`), `stream` stays set: the tracks are live
  with the button off, and the next click shows on but sends nothing (48).
* `VoiceButton.tsx:63-64` calls Escape a fallback. The button and its handler are rendered only
  while the socket is open (`App.tsx:431`); the capture goes on without them.
* `ttsPlayer.ts:10-12` promises gap-free sequence. Chunks are scheduled in the order in which decoding
  ends, and a number not above the last sets the timeline back to now: a chunk decoded late, or a
  typed reply during another, is heard over what is playing. A chunk still being decoded when
  `cancelPlayback` runs (99-103) is played after it.

Application (`AppLifecycle`):

* `docs/spec-detailed.md:250`: a shutdown message, then SIGTERM, then SIGKILL. The shell sends SIGKILL
  at once, and nothing of lines 251-252 (restart, heartbeat) exists.
* `docs/spec-detailed.md:250` allows the daemon five seconds and then three. A shutdown begun by a signal has no
  limit: no graceful timeout is given to uvicorn (`__main__.py:121-127`), the client reads without one
  (`llama_server.py:36-43`), and a llama-server that lives and does not answer holds the daemon in
  its drain for ever, with a running handler or in the summary of the shutdown hook.
* uvicorn 0.44, the version `agent/uv.lock` names, raises a caught signal again after its shutdown:
  SIGTERM ends the process before the `finally` of `__main__.py:128-130`, which the comment at
  99-104 relies on, and llama-server stays. A SIGTERM before uvicorn has started, or a SIGINT while
  the daemon waits for llama-server, also leaves it. `EndsWithModel` is therefore about a daemon
  that gets no signal.
* The ready line is printed before the port is bound and the page connects once: a page that is
  quicker stays disconnected until it is reloaded. A port taken in between ends the daemon.

Page (`ReplyBubble`; read in the code, no run):

* `App.tsx:34`: the bubble is "only the final LLM answer". Nothing clears it when a voice turn begins:
  within twelve seconds the next reply is appended to the one before. A message typed during a reply
  clears it, and the rest of that reply then precedes the new one.
* `OneTurnAtATime` being false (5), a second voice turn may write to the bubble at the same time; the
  model has one (`Voice`).
* `docs/spec-detailed.md:370`: the bubble is hidden eight seconds after the speech. It is twelve, and
  a voice turn that fails, or that `voice.stop` or the next utterance cancels, sends neither an end nor
  an interrupt: the bubble and the talking sprite stay until someone else ends. `cut` in `PageRests` is this.

Text (read in the code): the docstring of `sentence_splitter.py` asks for whitespace after an ASCII
terminator; the code does not, and cuts "e.g." and "3.14" once the fragment is five characters long.

## 7. Not modelled

* The fan-out of `broadcast` over the set of clients (`server.py:71-80`; that it may raise is
  `FireFails`), authentication, malformed frames.
* The timers and texts only the page's rendering reads (idle, drag, `lastUserText`); `tool.*`
  notifications, which it ignores.
* `reasoning_content` in `llama_server.py`, and its lines that are not JSON.
* What the tools other than `session.close` and `schedule.register_task` do: single statements on
  tables nothing else writes (`core_memory`, `behavior_config`), or read-only searches and network
  calls. The prompt is a pure function of rows. The messages' full-text rows are written by triggers
  inside the statement that writes the message. VOICEVOX's process is started by nothing in this build.
* When a cron task is due: any time.
* Rendering, window management, configuration, setup scripts: no logic a property would be about.
* `DeepgramSTT`'s parsing of results: which transcripts arrive is nondeterministic.

## 8. State of the plan

The modules the plan named are written: voice loop, LLM lock, sessions, turn, text path, application,
page, timeline, microphone, scheduler and index, each with its theorems. What is left out, and why:

* The set of clients under `broadcast` (`server.py:69-80, 104, 124`): one page exists in this
  application, and what a change of the set does to a run, that it fails, is in the models.
* Voice with audio on two connections and with clicks during the awaits of the capture: `VoiceLoop`
  takes a click to act at once. `MicCapture` shows that the daemon then sees starts and stops that do
  not alternate, and `VoicePipeline` accepts them in any order already (`voice.start` returns early while
  active, `voice.stop` while inactive).
* The link of `SessionLifecycle`'s queue of summaries to `SerialLlm` is by description: the two name callers
  differently, and a composition of `LlmLock` with the sessions is beyond TLC. What is proved of the
  queue (`SomeoneIsServed`, `NobodyIsOvertaken`) is what `SerialLlm` promises.
