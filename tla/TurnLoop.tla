------------------------------ MODULE TurnLoop ------------------------------
(***************************************************************************)
(* TurnLoop.run (orchestrator/turn_loop.py): one turn, from the user's     *)
(* message to the end event.  The LLM streams a reply, possibly with tool  *)
(* calls; the calls run one after the other, their results are stored, and *)
(* the LLM is asked again, until it calls no tool, repeats itself, or the  *)
(* steps are used up.                                                      *)
(*                                                                         *)
(* The turn is an async generator: it may be cancelled at every await and  *)
(* every yield.  Its session is SessionLifecycle's, its place in the LLM's *)
(* queue LlmLock's; here only its own control matters.                     *)
(***************************************************************************)
EXTENDS Naturals, Sequences

CONSTANTS
    Calls,         \* tool calls, told apart by name and arguments
    NoCall,        \* no call under way
    Known,         \* the calls of registered tools
    BadJson,       \* the calls whose arguments json.loads refuses
    Tts,           \* VOICEVOX is there: a phrase is spoken before a tool runs
    MaxToolSteps,  \* MAX_TOOL_STEPS; 5 in the code
    HistoryWindow, \* history_window; 30 in the code
    MaxCalls,      \* bound: tool calls of one reply
    MaxStored      \* bound: messages of the chat when another turn stores one

ASSUME CallsAssumption == /\ NoCall \notin Calls /\ Known \subseteq Calls
                          /\ BadJson \subseteq Calls
ASSUME StepsAssumption == MaxToolSteps \in Nat /\ MaxCalls \in Nat
ASSUME WindowAssumption == HistoryWindow \in Nat /\ MaxStored \in Nat
ASSUME TtsAssumption == Tts \in BOOLEAN

VARIABLES
    pc,        \* where the turn is
    step,      \* _step
    rest,      \* this reply's tool calls that have not run
    calls,     \* all of them
    prev,      \* prev_tool_sig
    text,      \* main_buf: whether this reply has text
    notice,    \* the turn was ended with a notice instead of by the LLM
    reply,     \* the assistant's reply is stored
    batches,   \* history: the calls of each step that ran
    stored,    \* messages of the chat from the turn's user message on, which is 1
    own,       \* those of this turn: the user message and the results
    prompt     \* those in the last prompt

turn == <<pc, step, rest, calls, prev, text, notice, reply, batches>>
chat == <<stored, own, prompt>>
vars == <<turn, chat>>

\* prompt: about to ask the LLM.  stream: reading its reply.  calls: about to run the
\* next call.  phrase: speaking before it.  run: running it.  finish: storing the reply.
Places == {"prompt", "stream", "calls", "phrase", "run", "finish", "ended", "cut"}

Batch == UNION {[1..n -> Calls] : n \in 0..MaxCalls}

TypeOK ==
    /\ pc \in Places
    /\ step \in 0..MaxToolSteps
    /\ rest \in Seq(Calls) /\ calls \in Seq(Calls) /\ prev \in Seq(Calls)
    /\ (pc \in {"phrase", "run"} => rest # <<>>)
    /\ text \in BOOLEAN /\ notice \in BOOLEAN /\ reply \in BOOLEAN
    /\ batches \in Seq(Seq(Calls))
    /\ stored \in Nat /\ own \subseteq 1..stored /\ prompt \subseteq 1..stored

Init ==
    /\ pc = "prompt" /\ step = 0
    /\ rest = <<>> /\ calls = <<>> /\ prev = <<>>
    /\ text = FALSE /\ notice = FALSE /\ reply = FALSE
    /\ batches = <<>>
    /\ stored = 1 /\ own = {1} /\ prompt = {}

-----------------------------------------------------------------------------
(* The LLM. *)

\* Faulty: the first messages instead of the last.
RecentOldest == {i \in 1..stored : i <= HistoryWindow}

\* recent_messages: the last HistoryWindow messages of the chat, whoever stored them.
Recent == {i \in 1..stored : i + HistoryWindow > stored}

\* The recent history is read, the LLM is asked.
Ask ==
    /\ pc = "prompt"
    /\ pc' = "stream"
    /\ prompt' = Recent
    /\ text' = FALSE /\ calls' = <<>>
    /\ UNCHANGED <<step, rest, prev, notice, reply, batches, stored, own>>

\* A text chunk: a delta, and the audio of the sentences it completes.  A thinking
\* chunk leaves no trace.
TextChunk ==
    /\ pc = "stream" /\ ~text
    /\ text' = TRUE
    /\ UNCHANGED <<pc, step, rest, calls, prev, notice, reply, batches, chat>>

\* A chunk with tool calls.
CallsChunk ==
    /\ pc = "stream"
    /\ \E b \in Batch \ {<<>>} : /\ Len(calls) + Len(b) <= MaxCalls
                                 /\ calls' = calls \o b
    /\ UNCHANGED <<pc, step, rest, prev, text, notice, reply, batches, chat>>

\* Faulty: the signature of the step is not remembered.
ReplyForgotten ==
    /\ pc = "stream"
    /\ \/ calls = <<>> /\ pc' = "finish" /\ UNCHANGED <<rest, prev, notice, batches>>
       \/ calls # <<>> /\ calls = prev
          /\ pc' = "finish" /\ notice' = TRUE /\ UNCHANGED <<rest, prev, batches>>
       \/ calls # <<>> /\ calls # prev
          /\ pc' = "calls" /\ rest' = calls
          /\ batches' = Append(batches, calls) /\ UNCHANGED <<prev, notice>>
    /\ UNCHANGED <<step, calls, text, reply, chat>>

\* Faulty: a reply that repeats itself is asked for again.
ReplyRetried ==
    /\ pc = "stream"
    /\ \/ calls = <<>> /\ pc' = "finish" /\ UNCHANGED <<rest, prev, batches>>
       \/ calls # <<>> /\ calls = prev /\ pc' = "prompt" /\ UNCHANGED <<rest, prev, batches>>
       \/ calls # <<>> /\ calls # prev
          /\ pc' = "calls" /\ rest' = calls /\ prev' = calls
          /\ batches' = Append(batches, calls)
    /\ UNCHANGED <<step, calls, text, notice, reply, chat>>

\* The reply is complete: the turn is over, or repeats itself, or has tools to run.
ReplyDone ==
    /\ pc = "stream"
    /\ \/ calls = <<>> /\ pc' = "finish" /\ UNCHANGED <<rest, prev, notice, batches>>
       \/ calls # <<>> /\ calls = prev
          /\ pc' = "finish" /\ notice' = TRUE /\ UNCHANGED <<rest, prev, batches>>
       \/ calls # <<>> /\ calls # prev
          /\ pc' = "calls" /\ rest' = calls /\ prev' = calls
          /\ batches' = Append(batches, calls) /\ UNCHANGED notice
    /\ UNCHANGED <<step, calls, text, reply, chat>>

-----------------------------------------------------------------------------
(* The tools. *)

\* A result becomes the newest message of the chat.
StoreResult ==
    /\ stored' = stored + 1
    /\ own' = own \cup {stored + 1}
    /\ UNCHANGED prompt

\* An unknown tool: the error is stored and announced without a request.
UnknownTool ==
    /\ pc = "calls" /\ rest # <<>> /\ Head(rest) \notin Known
    /\ StoreResult
    /\ rest' = Tail(rest)
    /\ UNCHANGED <<pc, step, calls, prev, text, notice, reply, batches>>

\* The arguments are parsed for the request event, outside the try.
RequestEvent ==
    IF Head(rest) \in BadJson THEN pc' = "cut" ELSE pc' = "run"

KnownTool ==
    /\ pc = "calls" /\ rest # <<>> /\ Head(rest) \in Known
    /\ IF Tts THEN pc' = "phrase" ELSE RequestEvent
    /\ UNCHANGED <<step, rest, calls, prev, text, notice, reply, batches, chat>>

\* The phrase is synthesized, or not.
PhraseDone ==
    /\ pc = "phrase"
    /\ RequestEvent
    /\ UNCHANGED <<step, rest, calls, prev, text, notice, reply, batches, chat>>

\* Faulty: the next tool runs without a request of its own.
ToolDoneRunsOn ==
    /\ pc = "run"
    /\ pc' = IF Len(rest) > 1 THEN "run" ELSE "calls"
    /\ StoreResult
    /\ rest' = Tail(rest)
    /\ UNCHANGED <<step, calls, prev, text, notice, reply, batches>>

\* The tool returns or raises; either way a result is stored and announced.
ToolDone ==
    /\ pc = "run"
    /\ pc' = "calls"
    /\ StoreResult
    /\ rest' = Tail(rest)
    /\ UNCHANGED <<step, calls, prev, text, notice, reply, batches>>

\* Faulty: one step too many.
StepDoneLate ==
    /\ pc = "calls" /\ rest = <<>>
    /\ IF step <= MaxToolSteps
       THEN pc' = "prompt" /\ step' = step + 1 /\ UNCHANGED notice
       ELSE pc' = "finish" /\ notice' = TRUE /\ UNCHANGED step
    /\ UNCHANGED <<rest, calls, prev, text, reply, batches, chat>>

\* The calls of this step have run: ask again, or give up.
StepDone ==
    /\ pc = "calls" /\ rest = <<>>
    /\ IF step < MaxToolSteps
       THEN pc' = "prompt" /\ step' = step + 1 /\ UNCHANGED notice
       ELSE pc' = "finish" /\ notice' = TRUE /\ UNCHANGED step
    /\ UNCHANGED <<rest, calls, prev, text, reply, batches, chat>>

-----------------------------------------------------------------------------
(* The end. *)

\* The text of the last reply is stored, if it has any; then the end event.
Finish ==
    /\ pc = "finish"
    /\ pc' = "ended"
    /\ reply' = text
    /\ stored' = IF text THEN stored + 1 ELSE stored
    /\ UNCHANGED <<step, rest, calls, prev, text, notice, batches, own, prompt>>

\* An LLM error ends the turn without an end event.
LlmFails ==
    /\ pc = "stream"
    /\ pc' = "cut"
    /\ UNCHANGED <<step, rest, calls, prev, text, notice, reply, batches, chat>>

\* The generator waits: for the LLM, a tool, VOICEVOX, or to be asked for the next event.
Suspended == pc \notin {"prompt", "ended", "cut"} /\ (pc = "finish" => notice)

\* Another turn of the same chat stores a message: its user's, a result, its reply.
OthersWrite ==
    /\ Suspended /\ stored < MaxStored
    /\ stored' = stored + 1
    /\ UNCHANGED <<turn, own, prompt>>

\* Barge-in, voice.stop or a lost client cancels or drops the generator.
Cancel ==
    /\ Suspended
    /\ pc' = "cut"
    /\ UNCHANGED <<step, rest, calls, prev, text, notice, reply, batches, chat>>

-----------------------------------------------------------------------------
Progress == \/ Ask \/ ReplyDone \/ UnknownTool \/ KnownTool \/ PhraseDone
            \/ ToolDone \/ StepDone \/ Finish

Next == Progress \/ TextChunk \/ CallsChunk \/ LlmFails \/ Cancel \/ OthersWrite

Spec == Init /\ [][Next]_vars

\* Replies, tools and speech come to an end.
FairSpec == Spec /\ WF_vars(Progress)

-----------------------------------------------------------------------------
(* Properties. *)

\* Spec 3.4.3 (turn_loop.py:167-176): no step runs the very calls the step before it
\* ran, and the LLM gets at most one step more than MAX_TOOL_STEPS to call tools.
NoRepeat ==
    /\ \A i \in 1..(Len(batches) - 1) : batches[i] # batches[i + 1]
    /\ Len(batches) <= MaxToolSteps + 1

\* The prompt is a full window of messages newer than message i.
Crowded(i) == \E n \in i..stored : prompt = (n + 1)..(n + HistoryWindow)

\* The prompt the LLM last answered had all of this turn's own messages that fit in.
Shown == \A i \in own : i \in prompt \/ Crowded(i)

\* A turn the LLM ends by itself has shown it the user's message and every tool result
\* (turn_loop.py:242-243), as far as the window allows (121): one is missing from the last
\* prompt only if history_window newer messages, also of other turns, fill it.
ReplySawResults == pc = "ended" /\ ~notice => Shown

\* The events of the turn are those TurnStream allows.
Open == IF pc = "run" THEN Head(rest) ELSE NoCall
Over == IF pc \in {"ended", "cut"} THEN pc ELSE "no"

Stream == INSTANCE TurnStream WITH open <- Open, over <- Over

ImplementsStream == Stream!Spec

\* Every turn comes to an end, whatever the LLM replies.
TurnEnds == <>(pc \in {"ended", "cut"})
=============================================================================
