------------------------------ MODULE LlmLock ------------------------------
(***************************************************************************)
(* LockedLLMBackend (llm/locked.py): every chat_stream call is an async    *)
(* generator that holds an asyncio.Lock from its first chunk on, around an *)
(* inner generator that holds the HTTP stream to llama-server.             *)
(*                                                                         *)
(* A caller that stops iterating leaves both generators suspended.  They   *)
(* are closed later, each by a task the event loop's finalizer hook        *)
(* creates: the outer one first, which releases the lock and only then     *)
(* lets go of the inner one.                                               *)
(*                                                                         *)
(* Callers: the turns (orchestrator/turn_loop.py), which stream once per   *)
(* tool step and may call session.close between two of them, and the       *)
(* others, which stream once: SessionManager._close_and_summarize and      *)
(* ProactiveDriver._fire_inner.                                            *)
(***************************************************************************)
EXTENDS Naturals, Sequences

CONSTANTS
    Streams,       \* generator objects; a closed one's slot is reused
    NoStream,      \* a caller with no call under way
    Turns,         \* turn tasks
    Others,        \* callers that stream once
    MayAbandon     \* a caller may stop while it handles a chunk

ASSUME StreamsAssumption == NoStream \notin Streams
ASSUME CallersAssumption == Turns \cap Others = {}

Callers == Turns \cup Others

VARIABLES
    gen,       \* each generator: what it is doing
    locked,    \* asyncio.Lock._locked
    waiters,   \* asyncio.Lock._waiters
    woken,     \* waiters whose future has been resolved
    at,        \* each caller: where it is
    ref        \* each caller: the generator it iterates

vars == <<gen, locked, waiters, woken, at, ref>>

\* acquiring: in lock.acquire().  streaming: lock held, HTTP stream open.
\* spent: dropped after its "done" chunk, lock held, HTTP stream closed.
\* dropped: dropped in the middle, lock held, HTTP stream open.
\* closing: lock released, the inner generator still has the HTTP stream.
GenStates == {"free", "acquiring", "streaming", "spent", "dropped", "closing"}

TypeOK ==
    /\ gen \in [Streams -> GenStates]
    /\ locked \in BOOLEAN
    /\ waiters \in Seq(Streams)
    /\ woken \subseteq Streams
    /\ at \in [Callers -> {"idle", "calling", "between"}]
    /\ ref \in [Callers -> Streams \cup {NoStream}]

Init ==
    /\ gen = [g \in Streams |-> "free"]
    /\ locked = FALSE /\ waiters = <<>> /\ woken = {}
    /\ at = [p \in Callers |-> "idle"]
    /\ ref = [p \in Callers |-> NoStream]

-----------------------------------------------------------------------------
(* asyncio.Lock, as the generator uses it. *)

InQueue(g) == \E i \in 1..Len(waiters) : waiters[i] = g
\* q without its first g.
Without(q, g) == LET k == CHOOSE i \in 1..Len(q) : q[i] = g
                 IN  [i \in 1..(Len(q) - 1) |-> IF i < k THEN q[i] ELSE q[i + 1]]

\* Faulty: a call finding the lock free takes it, whoever waits.
AcquireBarging(g) ==
    IF ~locked
    THEN /\ locked' = TRUE
         /\ gen' = [gen EXCEPT ![g] = "streaming"]
         /\ UNCHANGED <<waiters, woken>>
    ELSE /\ waiters' = Append(waiters, g)
         /\ gen' = [gen EXCEPT ![g] = "acquiring"]
         /\ UNCHANGED <<locked, woken>>

\* lock.acquire() up to its await.
Acquire(g) ==
    IF ~locked /\ waiters = <<>>
    THEN /\ locked' = TRUE
         /\ gen' = [gen EXCEPT ![g] = "streaming"]
         /\ UNCHANGED <<waiters, woken>>
    ELSE /\ waiters' = Append(waiters, g)
         /\ gen' = [gen EXCEPT ![g] = "acquiring"]
         /\ UNCHANGED <<locked, woken>>

\* Faulty: nobody looks whether there is a first waiter.
UnlockUnchecked ==
    /\ locked' = FALSE
    /\ woken' = woken \cup {IF waiters = <<>> THEN NoStream ELSE Head(waiters)}
    /\ UNCHANGED waiters

\* lock.release(): the first waiter is woken; the lock is free until it runs.
Unlock ==
    /\ locked' = FALSE
    /\ woken' = IF waiters = <<>> THEN woken ELSE woken \cup {Head(waiters)}
    /\ UNCHANGED waiters

-----------------------------------------------------------------------------
(* Callers. *)

\* chat_stream is called and first iterated.
Call(p, g) ==
    /\ at[p] = "idle" \/ at[p] = "between"
    /\ gen[g] = "free"
    /\ at' = [at EXCEPT ![p] = "calling"]
    /\ ref' = [ref EXCEPT ![p] = g]
    /\ Acquire(g)

\* The woken waiter takes the lock and the HTTP stream is opened.
Resume(g) ==
    /\ g \in woken /\ gen[g] = "acquiring"
    /\ locked' = TRUE
    /\ woken' = woken \ {g}
    /\ waiters' = Without(waiters, g)
    /\ gen' = [gen EXCEPT ![g] = "streaming"]
    /\ UNCHANGED <<at, ref>>

Leave(p, where) ==
    /\ at' = [at EXCEPT ![p] = where]
    /\ ref' = [ref EXCEPT ![p] = NoStream]

\* The "done" chunk: the caller breaks out of its loop.  A turn goes on to its
\* tools, among them session.close, or is over.
Done(p) ==
    /\ at[p] = "calling" /\ gen[ref[p]] = "streaming"
    /\ gen' = [gen EXCEPT ![ref[p]] = "spent"]
    /\ \E where \in IF p \in Turns THEN {"idle", "between"} ELSE {"idle"} : Leave(p, where)
    /\ UNCHANGED <<locked, waiters, woken>>

\* Faulty: a turn is over although it still iterates its generator.
EndTurnAnywhere(p) ==
    /\ at[p] # "idle"
    /\ Leave(p, "idle")
    /\ UNCHANGED <<gen, locked, waiters, woken>>

\* The turn ends, fails or is cancelled in its tools.
EndTurn(p) ==
    /\ at[p] = "between"
    /\ Leave(p, "idle")
    /\ UNCHANGED <<gen, locked, waiters, woken>>

\* An HTTP error, or a cancellation while the caller waits for a chunk: the
\* exception unwinds both generators, the inner one first.
Unwind(p) ==
    /\ at[p] = "calling" /\ gen[ref[p]] = "streaming"
    /\ gen' = [gen EXCEPT ![ref[p]] = "free"]
    /\ Unlock
    /\ Leave(p, "idle")

\* Faulty: a waiter cancelled after it was woken does not pass the wake-up on.
GiveUpSilently(p) ==
    /\ at[p] = "calling" /\ gen[ref[p]] = "acquiring"
    /\ gen' = [gen EXCEPT ![ref[p]] = "free"]
    /\ waiters' = Without(waiters, ref[p])
    /\ woken' = woken \ {ref[p]}
    /\ Leave(p, "idle")
    /\ UNCHANGED locked

\* A cancellation in lock.acquire(); one already woken wakes the next.
GiveUp(p) ==
    /\ at[p] = "calling" /\ gen[ref[p]] = "acquiring"
    /\ gen' = [gen EXCEPT ![ref[p]] = "free"]
    /\ waiters' = Without(waiters, ref[p])
    /\ woken' = IF ref[p] \in woken
                THEN IF waiters' = <<>> THEN woken \ {ref[p]}
                     ELSE (woken \ {ref[p]}) \cup {Head(waiters')}
                ELSE woken
    /\ Leave(p, "idle")
    /\ UNCHANGED locked

\* A cancellation or an error while the caller handles a chunk (a WebSocket
\* send, a TTS request): the generators are dropped as they are.
Abandon(p) ==
    /\ MayAbandon
    /\ at[p] = "calling" /\ gen[ref[p]] = "streaming"
    /\ gen' = [gen EXCEPT ![ref[p]] = "dropped"]
    /\ Leave(p, "idle")
    /\ UNCHANGED <<locked, waiters, woken>>

-----------------------------------------------------------------------------
(* The event loop's finalizer tasks. *)

\* Faulty: the lock is not released by a generator closed in the middle.
FinalizeSpent(g) ==
    /\ gen[g] = "spent"
    /\ gen' = [gen EXCEPT ![g] = "free"]
    /\ Unlock
    /\ UNCHANGED <<at, ref>>

\* aclose() of a dropped outer generator: "async with" releases the lock.
Finalize(g) ==
    /\ gen[g] = "spent" \/ gen[g] = "dropped"
    /\ gen' = [gen EXCEPT ![g] = IF gen[g] = "spent" THEN "free" ELSE "closing"]
    /\ Unlock
    /\ UNCHANGED <<at, ref>>

\* aclose() of the inner one: the HTTP stream is closed.
CloseInner(g) ==
    /\ gen[g] = "closing"
    /\ gen' = [gen EXCEPT ![g] = "free"]
    /\ UNCHANGED <<locked, waiters, woken, at, ref>>

-----------------------------------------------------------------------------
CallerStep(p) ==
    \/ \E g \in Streams : Call(p, g)
    \/ Done(p) \/ EndTurn(p) \/ Unwind(p) \/ GiveUp(p) \/ Abandon(p)

LoopStep(g) == Resume(g) \/ Finalize(g) \/ CloseInner(g)

Next == (\E p \in Callers : CallerStep(p)) \/ (\E g \in Streams : LoopStep(g))

Spec == Init /\ [][Next]_vars

\* Ready tasks run, finalizers among them (reference counting drops a generator
\* when its caller leaves it), and a reply is finite.
Fairness ==
    /\ \A g \in Streams : WF_vars(LoopStep(g))
    /\ \A p \in Callers : WF_vars(Done(p))

FairSpec == Spec /\ Fairness
-----------------------------------------------------------------------------
(* Properties. *)

Holding == {g \in Streams : gen[g] \in {"streaming", "spent", "dropped"}}
HttpOpen == {g \in Streams : gen[g] \in {"streaming", "dropped", "closing"}}

\* The lock is held by exactly one generator, suspended ones included, and a
\* free lock with calls waiting has woken the first of them: no wake-up is lost
\* when a waiter is cancelled (locked.py:32).
LockInv ==
    /\ \A g, h \in Holding : g = h
    /\ locked <=> Holding # {}
    /\ \A g \in Streams : InQueue(g) <=> gen[g] = "acquiring"
    /\ \A i, j \in 1..Len(waiters) : waiters[i] = waiters[j] => i = j
    /\ woken = IF locked \/ waiters = <<>> THEN {} ELSE {Head(waiters)}

\* A generator waiting for the lock or streaming under it is iterated by one
\* caller: the lock is never left to a generator nobody drives or finalizes.
NoOrphanStream ==
    \A g \in Streams : gen[g] \in {"acquiring", "streaming"} =>
        \E p \in Callers : /\ at[p] = "calling" /\ ref[p] = g
                           /\ \A q \in Callers : ref[q] = g => q = p

\* The calls are served one at a time, in the order they were made: SerialLlm,
\* served meaning that the generator holds the lock.
Holder == IF Holding = {} THEN NoStream ELSE CHOOSE g \in Streams : g \in Holding

Serial == INSTANCE SerialLlm WITH holder <- Holder, queue <- waiters

ImplementsSerial == Serial!Spec

\* Every call gets the LLM in the end or is given up, also the one session.close
\* makes inside a turn whose own generator still has the lock (session.py:110).
EveryCallServed == \A g \in Streams : gen[g] = "acquiring" ~> gen[g] # "acquiring"

\* locked.py:3-6, "llama-server handles one request at a time by default ... This
\* wrapper serializes all chat_stream calls": never two HTTP streams at once.
OneRequestAtATime == \A g, h \in HttpOpen : g = h
=============================================================================
