----------------------------- MODULE SerialLlm -----------------------------
(***************************************************************************)
(* What llm/locked.py promises its callers: calls to the LLM are served    *)
(* one at a time, in the order they were made; a call may be withdrawn     *)
(* while it waits.                                                         *)
(***************************************************************************)
EXTENDS Naturals, Sequences

CONSTANTS Streams,     \* chat_stream calls
          NoStream     \* nobody is served

VARIABLES holder,      \* the call being served
          queue        \* the calls waiting, in order

Waits(g) == \E i \in 1..Len(queue) : queue[i] = g
\* q without its first g.
Without(q, g) == LET k == CHOOSE i \in 1..Len(q) : q[i] = g
                 IN  [i \in 1..(Len(q) - 1) |-> IF i < k THEN q[i] ELSE q[i + 1]]

Init == holder = NoStream /\ queue = <<>>

\* A call that finds nobody served or waiting is served at once.
Begin(g) ==
    /\ holder = NoStream /\ queue = <<>>
    /\ holder' = g
    /\ UNCHANGED queue

Enqueue(g) ==
    /\ g # holder /\ ~Waits(g)
    /\ queue' = Append(queue, g)
    /\ UNCHANGED holder

Grant ==
    /\ holder = NoStream /\ queue # <<>>
    /\ holder' = Head(queue)
    /\ queue' = Tail(queue)

Withdraw(g) ==
    /\ Waits(g)
    /\ queue' = Without(queue, g)
    /\ UNCHANGED holder

Release ==
    /\ holder # NoStream
    /\ holder' = NoStream
    /\ UNCHANGED queue

Next == \/ \E g \in Streams : Begin(g) \/ Enqueue(g) \/ Withdraw(g)
        \/ Grant
        \/ Release

Spec == Init /\ [][Next]_<<holder, queue>>
=============================================================================
