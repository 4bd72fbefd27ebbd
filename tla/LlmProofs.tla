----------------------------- MODULE LlmProofs -----------------------------
(***************************************************************************)
(* Proofs about LlmLock for any number of callers and generators: the lock *)
(* is held by one generator and no wake-up is lost; it serves the calls as *)
(* SerialLlm does; and when no caller stops in the middle of a reply,      *)
(* llama-server sees one request at a time.                                *)
(***************************************************************************)
EXTENDS LlmLock, SequenceTheorems, TLAPS

Distinct(q) == \A i, j \in 1..Len(q) : q[i] = q[j] => i = j
Member(q, g) == \E i \in 1..Len(q) : q[i] = g

-----------------------------------------------------------------------------
(* Queues without repetition. *)

\* Removing one element of a queue keeps the others, and the first one unless it
\* is the one removed.
LEMMA WithoutKeeps ==
    ASSUME NEW S, NEW q \in Seq(S), Distinct(q), NEW g, Member(q, g)
    PROVE  /\ Without(q, g) \in Seq(S)
           /\ Len(Without(q, g)) = Len(q) - 1
           /\ Distinct(Without(q, g))
           /\ \A h : Member(Without(q, g), h) <=> Member(q, h) /\ h # g
           /\ Head(q) # g => Without(q, g) # <<>> /\ Head(Without(q, g)) = Head(q)
           /\ Head(q) = g => Without(q, g) = Tail(q)
  <1> DEFINE k == CHOOSE i \in 1..Len(q) : q[i] = g
             w == Without(q, g)
  <1>1. k \in 1..Len(q) /\ q[k] = g
    BY DEF Member
  <1>2. w = [i \in 1..(Len(q) - 1) |-> IF i < k THEN q[i] ELSE q[i + 1]]
    BY DEF Without
  <1> HIDE DEF k, w
  <1>3. Len(q) \in Nat /\ Len(q) > 0
    BY <1>1
  <1>4. \A i \in 1..(Len(q) - 1) : w[i] \in S /\ w[i] = (IF i < k THEN q[i] ELSE q[i + 1])
    BY <1>1, <1>2, <1>3
  <1>5. w \in Seq(S) /\ Len(w) = Len(q) - 1
    <2>1. w \in [1..(Len(q) - 1) -> S]
      BY <1>2, <1>4
    <2> QED BY <2>1, <1>2, <1>3, IsASeq, LenProperties
  <1>6. Distinct(w)
    BY <1>1, <1>4, <1>5 DEF Distinct
  <1>7. ASSUME NEW h PROVE Member(w, h) <=> Member(q, h) /\ h # g
    <2>1. ASSUME NEW i \in 1..Len(w), w[i] = h PROVE Member(q, h) /\ h # g
      <3>1. CASE i < k
        BY <1>1, <1>4, <1>5, <2>1, <3>1 DEF Member, Distinct
      <3>2. CASE ~(i < k)
        BY <1>1, <1>4, <1>5, <2>1, <3>2 DEF Member, Distinct
      <3> QED BY <3>1, <3>2
    <2>2. ASSUME NEW i \in 1..Len(q), q[i] = h, h # g PROVE Member(w, h)
      <3>1. CASE i < k
        <4>1. i \in 1..Len(w) /\ w[i] = h
          BY <1>1, <1>4, <1>5, <2>2, <3>1
        <4> QED BY <4>1 DEF Member
      <3>2. CASE i > k
        <4>1. i - 1 \in 1..Len(w) /\ w[i - 1] = h
          BY <1>1, <1>4, <1>5, <2>2, <3>2
        <4> QED BY <4>1 DEF Member
      <3> QED BY <1>1, <2>2, <3>1, <3>2
    <2> QED BY <2>1, <2>2 DEF Member
  <1>8. ASSUME Head(q) # g PROVE w # <<>> /\ Head(w) = Head(q)
    <2>1. q[1] # g /\ k > 1
      BY <1>1, <1>3, <1>8
    <2>2. 1 \in 1..Len(w) /\ w[1] = q[1]
      BY <1>1, <1>4, <1>5, <2>1
    <2> QED BY <1>5, <2>2
  <1>9. ASSUME Head(q) = g PROVE w = Tail(q)
    <2>1. k = 1
      BY <1>1, <1>3, <1>9 DEF Distinct
    <2>2. \A i \in 1..Len(w) : w[i] = Tail(q)[i]
      BY <1>4, <1>5, <1>3, <2>1, HeadTailProperties
    <2>3. Tail(q) \in Seq(S) /\ Len(Tail(q)) = Len(w)
      BY <1>3, <1>5
    <2> QED BY <1>5, <2>2, <2>3, SeqEqual
  <1> QED BY <1>5, <1>6, <1>7, <1>8, <1>9 DEF w

\* Appending an element that is not in the queue.
LEMMA AppendKeeps ==
    ASSUME NEW S, NEW q \in Seq(S), Distinct(q), NEW g \in S, ~Member(q, g)
    PROVE  /\ Append(q, g) \in Seq(S)
           /\ Append(q, g) # <<>>
           /\ Distinct(Append(q, g))
           /\ \A h : Member(Append(q, g), h) <=> Member(q, h) \/ h = g
           /\ q # <<>> => Head(Append(q, g)) = Head(q)
           /\ q = <<>> => Head(Append(q, g)) = g
  <1> DEFINE a == Append(q, g)
  <1>1. /\ a \in Seq(S) /\ Len(a) = Len(q) + 1 /\ Len(q) \in Nat
        /\ \A i \in 1..Len(q) : a[i] = q[i]
        /\ a[Len(q) + 1] = g
    BY AppendProperties
  <1> HIDE DEF a
  <1>2. Distinct(a)
    BY <1>1 DEF Distinct, Member
  <1>3. ASSUME NEW h PROVE Member(a, h) <=> Member(q, h) \/ h = g
    <2>1. ASSUME NEW i \in 1..Len(a), a[i] = h PROVE Member(q, h) \/ h = g
      <3>1. CASE i \in 1..Len(q)
        BY <1>1, <2>1, <3>1 DEF Member
      <3>2. CASE i = Len(q) + 1
        BY <1>1, <2>1, <3>2
      <3> QED BY <1>1, <3>1, <3>2
    <2>2. ASSUME NEW i \in 1..Len(q), q[i] = h PROVE Member(a, h)
      BY <1>1, <2>2 DEF Member
    <2>3. Member(a, g)
      BY <1>1 DEF Member
    <2> QED BY <2>1, <2>2, <2>3 DEF Member
  <1>4. a # <<>> /\ Head(a) = a[1] /\ (q = <<>> => a[1] = g) /\ (q # <<>> => a[1] = q[1])
    BY <1>1
  <1> QED BY <1>1, <1>2, <1>3, <1>4 DEF a

-----------------------------------------------------------------------------
(* The inductive invariant. *)

\* A calling caller iterates its own live generator; any other has none.
RefInv ==
    /\ \A p \in Callers : IF at[p] = "calling"
                          THEN ref[p] \in Streams /\ gen[ref[p]] \in {"acquiring", "streaming"}
                          ELSE ref[p] = NoStream
    /\ \A p, q \in Callers : ref[p] = ref[q] /\ p # q => ref[p] = NoStream

IInv == TypeOK /\ LockInv /\ RefInv /\ NoOrphanStream

LEMMA QueueFacts ==
    ASSUME TypeOK, LockInv
    PROVE  /\ Distinct(waiters)
           /\ \A g \in Streams : Member(waiters, g) <=> gen[g] = "acquiring"
  BY DEF LockInv, Distinct, Member, InQueue

\* lock.release() by the generator that holds the lock.
LEMMA UnlockKeeps ==
    ASSUME TypeOK, LockInv, NEW g \in Holding, NEW v \in {"free", "closing"},
           gen' = [gen EXCEPT ![g] = v], Unlock
    PROVE  LockInv' /\ Holding' = {} /\ gen' \in [Streams -> GenStates] /\ woken' \subseteq Streams
  <1>1. g \in Streams /\ Holding = {g} /\ locked /\ woken = {}
    BY DEF LockInv, Holding
  <1>2. Holding' = {}
    BY <1>1 DEF Holding, TypeOK
  <1>3. \A h \in Streams : Member(waiters, h) <=> gen'[h] = "acquiring"
    BY <1>1, QueueFacts DEF Holding, TypeOK
  <1>4. waiters' = waiters /\ ~locked' /\ woken' = IF waiters = <<>> THEN {} ELSE {Head(waiters)}
    BY <1>1 DEF Unlock
  <1>5. LockInv'
    BY <1>2, <1>3, <1>4, QueueFacts DEF LockInv, Distinct, Member, InQueue
  <1>6. gen' \in [Streams -> GenStates]
    BY DEF TypeOK, GenStates
  <1>7. woken' \subseteq Streams
    BY <1>4 DEF TypeOK
  <1> QED BY <1>2, <1>5, <1>6, <1>7

\* The caller whose generator leaves {"acquiring", "streaming"} leaves it too.
LEMMA LeaveKeeps ==
    ASSUME IInv, NEW p \in Callers, at[p] = "calling", NEW where \in {"idle", "between"},
           Leave(p, where),
           NEW v \in GenStates \ {"acquiring", "streaming"}, gen' = [gen EXCEPT ![ref[p]] = v]
    PROVE  RefInv' /\ NoOrphanStream' /\ at' \in [Callers -> {"idle", "calling", "between"}]
           /\ ref' \in [Callers -> Streams \cup {NoStream}]
  <1> USE DEF IInv, TypeOK
  <1>1. ref[p] \in Streams /\ ref[p] # NoStream
    BY StreamsAssumption DEF RefInv
  <1>2. \A q \in Callers : q # p => at'[q] = at[q] /\ ref'[q] = ref[q] /\ ref[q] # ref[p]
    BY <1>1 DEF Leave, RefInv
  <1>3. at'[p] = where /\ ref'[p] = NoStream
    BY DEF Leave
  <1>4. \A g \in Streams : g # ref[p] => gen'[g] = gen[g]
    OBVIOUS
  <1>5. gen'[ref[p]] = v
    BY <1>1
  <1>6. RefInv'
    BY <1>2, <1>3, <1>4 DEF RefInv
  <1>7. NoOrphanStream'
    <2> SUFFICES ASSUME NEW g \in Streams, gen'[g] \in {"acquiring", "streaming"}
                 PROVE  \E q \in Callers : /\ at'[q] = "calling" /\ ref'[q] = g
                                           /\ \A r \in Callers : ref'[r] = g => r = q
      BY DEF NoOrphanStream
    <2>1. g # ref[p]
      BY <1>5
    <2>2. PICK q \in Callers : /\ at[q] = "calling" /\ ref[q] = g
                               /\ \A r \in Callers : ref[r] = g => r = q
      BY <1>4, <2>1 DEF NoOrphanStream
    <2>3. q # p /\ g # NoStream
      BY <2>1, <2>2, StreamsAssumption
    <2> QED BY <1>2, <1>3, <2>2, <2>3
  <1>8. at' \in [Callers -> {"idle", "calling", "between"}] /\ ref' \in [Callers -> Streams \cup {NoStream}]
    BY DEF Leave
  <1> QED BY <1>6, <1>7, <1>8

\* A step of the event loop that keeps at and ref and does not end a live generator.
LEMMA LoopKeeps ==
    ASSUME IInv, UNCHANGED <<at, ref>>, gen' \in [Streams -> GenStates],
           \A g \in Streams : \/ gen'[g] = gen[g]
                              \/ gen[g] = "acquiring" /\ gen'[g] = "streaming"
                              \/ {gen[g], gen'[g]} \cap {"acquiring", "streaming"} = {}
    PROVE  RefInv' /\ NoOrphanStream'
  <1>1. \A g \in Streams : gen'[g] \in {"acquiring", "streaming"} <=> gen[g] \in {"acquiring", "streaming"}
    OBVIOUS
  <1>2. RefInv'
    BY <1>1 DEF IInv, RefInv
  <1>3. NoOrphanStream'
    BY <1>1 DEF IInv, NoOrphanStream
  <1> QED BY <1>2, <1>3

-----------------------------------------------------------------------------
(* One lemma per action. *)

LEMMA CallKeeps ==
    ASSUME IInv, NEW p \in Callers, NEW g \in Streams, Call(p, g)
    PROVE  IInv'
  <1> USE DEF IInv
  <1>1. /\ gen[g] = "free" /\ at[p] # "calling" /\ ref[p] = NoStream /\ ~Member(waiters, g)
        /\ g \notin Holding /\ g # NoStream
    BY QueueFacts, StreamsAssumption DEF Call, RefInv, Holding
  <1>2. gen'[g] \in {"acquiring", "streaming"} /\ \A h \in Streams : h # g => gen'[h] = gen[h]
    BY DEF Call, Acquire, TypeOK
  <1>3. at'[p] = "calling" /\ ref'[p] = g
        /\ \A q \in Callers : q # p => at'[q] = at[q] /\ ref'[q] = ref[q] /\ ref[q] # g
    BY <1>1 DEF Call, TypeOK, RefInv
  <1>4. LockInv' /\ waiters' \in Seq(Streams)
    <2>1. CASE ~locked /\ waiters = <<>>
      <3>1. Holding = {} /\ Holding' = {g}
        BY <1>1, <2>1 DEF LockInv, Holding, Call, Acquire, TypeOK
      <3>2. locked' /\ waiters' = <<>> /\ woken' = {}
        BY <2>1 DEF Call, Acquire, LockInv
      <3>3. \A h \in Streams : gen'[h] # "acquiring"
        BY <2>1, QueueFacts DEF Call, Acquire, TypeOK, Member
      <3> QED BY <3>1, <3>2, <3>3 DEF LockInv, InQueue
    <2>2. CASE ~(~locked /\ waiters = <<>>)
      <3>1. waiters' = Append(waiters, g) /\ UNCHANGED <<locked, woken>>
            /\ gen' = [gen EXCEPT ![g] = "acquiring"]
        BY <2>2 DEF Call, Acquire
      <3>2. Holding' = Holding
        BY <1>1, <3>1 DEF Holding, TypeOK
      <3>3. waiters' \in Seq(Streams) /\ Distinct(waiters') /\ waiters' # <<>>
            /\ (waiters # <<>> => Head(waiters') = Head(waiters))
            /\ \A h : Member(waiters', h) <=> Member(waiters, h) \/ h = g
        BY <1>1, <3>1, AppendKeeps, QueueFacts DEF TypeOK
      <3>4. \A h \in Streams : Member(waiters', h) <=> gen'[h] = "acquiring"
        BY <3>1, <3>3, QueueFacts DEF TypeOK
      <3>5. woken' = IF locked' \/ waiters' = <<>> THEN {} ELSE {Head(waiters')}
        BY <2>2, <3>1, <3>3 DEF LockInv
      <3>6. LockInv'
        BY <3>1, <3>2, <3>3, <3>4, <3>5 DEF LockInv, Distinct, Member, InQueue
      <3> QED BY <3>3, <3>6
    <2> QED BY <2>1, <2>2
  <1>5. RefInv'
    BY <1>2, <1>3, <1>1 DEF RefInv
  <1>6. NoOrphanStream'
    <2> SUFFICES ASSUME NEW h \in Streams, gen'[h] \in {"acquiring", "streaming"}
                 PROVE  \E q \in Callers : /\ at'[q] = "calling" /\ ref'[q] = h
                                           /\ \A r \in Callers : ref'[r] = h => r = q
      BY DEF NoOrphanStream
    <2>1. CASE h = g
      BY <1>3, <2>1
    <2>2. CASE h # g
      <3>1. PICK q \in Callers : /\ at[q] = "calling" /\ ref[q] = h
                                 /\ \A r \in Callers : ref[r] = h => r = q
        BY <1>2, <2>2 DEF NoOrphanStream
      <3> QED BY <1>1, <1>3, <2>2, <3>1
    <2> QED BY <2>1, <2>2
  <1>7. TypeOK'
    BY <1>4 DEF Call, Acquire, TypeOK, GenStates
  <1> QED BY <1>4, <1>5, <1>6, <1>7

LEMMA DoneKeeps ==
    ASSUME IInv, NEW p \in Callers, Done(p) \/ Abandon(p)
    PROVE  IInv'
  <1> USE DEF IInv
  <1>1. PICK v \in {"spent", "dropped"}, where \in {"idle", "between"} :
            gen' = [gen EXCEPT ![ref[p]] = v] /\ Leave(p, where)
    BY DEF Done, Abandon
  <1>2. at[p] = "calling" /\ ref[p] \in Streams /\ gen[ref[p]] = "streaming"
        /\ UNCHANGED <<locked, waiters, woken>>
    BY DEF Done, Abandon, RefInv
  <1>3. RefInv' /\ NoOrphanStream' /\ at' \in [Callers -> {"idle", "calling", "between"}]
        /\ ref' \in [Callers -> Streams \cup {NoStream}]
    <2>1. v \in GenStates \ {"acquiring", "streaming"}
      BY DEF GenStates
    <2> QED BY <1>1, <1>2, <2>1, LeaveKeeps
  <1>4. Holding' = Holding
    BY <1>1, <1>2 DEF Holding, TypeOK
  <1>5. \A g \in Streams : gen'[g] = "acquiring" <=> gen[g] = "acquiring"
    BY <1>1, <1>2 DEF TypeOK
  <1>6. LockInv'
    BY <1>2, <1>4, <1>5 DEF LockInv, InQueue
  <1>7. TypeOK'
    BY <1>1, <1>2, <1>3 DEF TypeOK, GenStates
  <1> QED BY <1>3, <1>6, <1>7

LEMMA UnwindKeeps ==
    ASSUME IInv, NEW p \in Callers, Unwind(p)
    PROVE  IInv'
  <1> USE DEF IInv
  <1>1. at[p] = "calling" /\ ref[p] \in Streams /\ ref[p] \in Holding
    BY DEF Unwind, RefInv, Holding
  <1>2. LockInv' /\ gen' \in [Streams -> GenStates] /\ woken' \subseteq Streams
    BY <1>1, UnlockKeeps DEF Unwind
  <1>3. RefInv' /\ NoOrphanStream' /\ at' \in [Callers -> {"idle", "calling", "between"}]
        /\ ref' \in [Callers -> Streams \cup {NoStream}]
    <2>1. "free" \in GenStates \ {"acquiring", "streaming"}
      BY DEF GenStates
    <2> QED BY <1>1, <2>1, LeaveKeeps DEF Unwind
  <1>4. locked' \in BOOLEAN /\ waiters' \in Seq(Streams)
    BY DEF Unwind, Unlock, TypeOK
  <1> QED BY <1>2, <1>3, <1>4 DEF TypeOK

LEMMA GiveUpKeeps ==
    ASSUME IInv, NEW p \in Callers, GiveUp(p)
    PROVE  IInv'
  <1> USE DEF IInv
  <1> DEFINE g == ref[p]
             w == Without(waiters, g)
  <1>1. at[p] = "calling" /\ g \in Streams /\ gen[g] = "acquiring" /\ Member(waiters, g)
        /\ gen' = [gen EXCEPT ![g] = "free"] /\ waiters' = w /\ locked' = locked
    BY QueueFacts DEF GiveUp, RefInv
  <1>2. /\ w \in Seq(Streams)
        /\ Distinct(w)
        /\ \A h : Member(w, h) <=> Member(waiters, h) /\ h # g
        /\ Head(waiters) # g => w # <<>> /\ Head(w) = Head(waiters)
    BY <1>1, QueueFacts, WithoutKeeps DEF TypeOK
  <1>3. waiters # <<>>
    BY <1>1 DEF Member, TypeOK
  <1>4. woken' = IF g \in woken
                 THEN IF w = <<>> THEN woken \ {g} ELSE (woken \ {g}) \cup {Head(w)}
                 ELSE woken
    BY <1>1 DEF GiveUp
  <1> HIDE DEF w
  <1>5. woken' = IF locked' \/ w = <<>> THEN {} ELSE {Head(w)}
    <2>1. CASE locked
      BY <1>1, <1>4, <2>1 DEF LockInv
    <2>2. CASE ~locked
      <3>1. woken = {Head(waiters)}
        BY <1>3, <2>2 DEF LockInv
      <3>2. CASE Head(waiters) = g
        BY <1>1, <1>4, <2>2, <3>1, <3>2
      <3>3. CASE Head(waiters) # g
        BY <1>1, <1>2, <1>4, <2>2, <3>1, <3>3
      <3> QED BY <3>2, <3>3
    <2> QED BY <2>1, <2>2
  <1>6. Holding' = Holding
    BY <1>1 DEF Holding, TypeOK
  <1>7. \A h \in Streams : Member(w, h) <=> gen'[h] = "acquiring"
    BY <1>1, <1>2, QueueFacts DEF TypeOK
  <1>8. LockInv'
    BY <1>1, <1>2, <1>5, <1>6, <1>7 DEF LockInv, Distinct, Member, InQueue
  <1>9. RefInv' /\ NoOrphanStream' /\ at' \in [Callers -> {"idle", "calling", "between"}]
        /\ ref' \in [Callers -> Streams \cup {NoStream}]
    <2>1. "free" \in GenStates \ {"acquiring", "streaming"}
      BY DEF GenStates
    <2> QED BY <1>1, <2>1, LeaveKeeps DEF GiveUp
  <1>10. woken' \subseteq Streams
    <2>1. w # <<>> => Head(w) \in Streams
      BY <1>2
    <2> QED BY <1>5, <2>1
  <1>11. gen' \in [Streams -> GenStates]
    BY <1>1 DEF TypeOK, GenStates
  <1> QED BY <1>1, <1>2, <1>8, <1>9, <1>10, <1>11 DEF TypeOK

LEMMA EndTurnKeeps ==
    ASSUME IInv, NEW p \in Callers, EndTurn(p)
    PROVE  IInv'
  <1> USE DEF IInv
  <1>1. /\ at' = [at EXCEPT ![p] = "idle"] /\ at[p] = "between"
        /\ ref' = [ref EXCEPT ![p] = NoStream] /\ ref[p] = NoStream
        /\ UNCHANGED <<gen, locked, waiters, woken>>
    BY DEF EndTurn, Leave, RefInv
  <1>2. UNCHANGED ref /\ TypeOK'
    BY <1>1 DEF TypeOK
  <1>3. LockInv'
    BY <1>1 DEF LockInv, Holding, InQueue
  <1>4. RefInv'
    BY <1>1, <1>2 DEF RefInv, TypeOK
  <1>5. \A q \in Callers : at'[q] = "calling" <=> at[q] = "calling"
    BY <1>1 DEF TypeOK
  <1>6. NoOrphanStream'
    BY <1>1, <1>2, <1>5 DEF NoOrphanStream
  <1> QED BY <1>2, <1>3, <1>4, <1>6

LEMMA ResumeKeeps ==
    ASSUME IInv, NEW g \in Streams, Resume(g)
    PROVE  IInv' /\ ~locked /\ waiters # <<>> /\ g = Head(waiters) /\ waiters' = Tail(waiters)
           /\ Holding = {} /\ Holding' = {g}
  <1> USE DEF IInv
  <1>1. ~locked /\ waiters # <<>> /\ g = Head(waiters) /\ Member(waiters, g) /\ gen[g] = "acquiring"
        /\ woken = {g}
    BY QueueFacts DEF Resume, LockInv
  <1>2. /\ waiters' \in Seq(Streams)
        /\ Distinct(waiters')
        /\ \A h : Member(waiters', h) <=> Member(waiters, h) /\ h # g
        /\ waiters' = Tail(waiters)
    BY <1>1, QueueFacts, WithoutKeeps DEF Resume, TypeOK
  <1>3. Holding = {} /\ Holding' = {g}
    BY <1>1 DEF Resume, LockInv, Holding, TypeOK
  <1>4. \A h \in Streams : Member(waiters', h) <=> gen'[h] = "acquiring"
    BY <1>1, <1>2, QueueFacts DEF Resume, TypeOK
  <1>5. locked' /\ woken' = {}
    BY <1>1 DEF Resume
  <1>6. LockInv'
    BY <1>2, <1>3, <1>4, <1>5 DEF LockInv, Distinct, Member, InQueue
  <1>7. TypeOK'
    BY <1>2, <1>5 DEF Resume, TypeOK, GenStates
  <1>8. \A h \in Streams : gen'[h] = gen[h] \/ (gen[h] = "acquiring" /\ gen'[h] = "streaming")
    BY <1>1 DEF Resume, TypeOK
  <1>9. RefInv' /\ NoOrphanStream'
    BY <1>7, <1>8, LoopKeeps DEF Resume, TypeOK
  <1> QED BY <1>1, <1>2, <1>3, <1>6, <1>7, <1>9

LEMMA FinalizeKeeps ==
    ASSUME IInv, NEW g \in Streams, Finalize(g)
    PROVE  IInv' /\ Holding' = {} /\ Holding # {}
  <1> USE DEF IInv
  <1>1. PICK v \in {"free", "closing"} : gen' = [gen EXCEPT ![g] = v]
    BY DEF Finalize
  <1>2. g \in Holding /\ gen[g] \notin {"acquiring", "streaming"}
    BY DEF Finalize, Holding
  <1>3. LockInv' /\ Holding' = {} /\ gen' \in [Streams -> GenStates] /\ woken' \subseteq Streams
    BY <1>1, <1>2, UnlockKeeps DEF Finalize
  <1>4. \A h \in Streams : \/ gen'[h] = gen[h]
                           \/ {gen[h], gen'[h]} \cap {"acquiring", "streaming"} = {}
    <2>1. gen'[g] = v /\ \A h \in Streams : h # g => gen'[h] = gen[h]
      BY <1>1, <1>2 DEF TypeOK, Holding
    <2> QED BY <1>2, <2>1
  <1>5. RefInv' /\ NoOrphanStream'
    BY <1>3, <1>4, LoopKeeps DEF Finalize
  <1>6. TypeOK'
    BY <1>3 DEF Finalize, Unlock, TypeOK
  <1> QED BY <1>2, <1>3, <1>5, <1>6

LEMMA CloseInnerKeeps ==
    ASSUME IInv, NEW g \in Streams, CloseInner(g)
    PROVE  IInv' /\ Holding' = Holding
  <1> USE DEF IInv
  <1>1. Holding' = Holding /\ \A h \in Streams : gen'[h] = "acquiring" <=> gen[h] = "acquiring"
    BY DEF CloseInner, Holding, TypeOK
  <1>2. LockInv'
    BY <1>1 DEF CloseInner, LockInv, InQueue
  <1>3. TypeOK'
    BY DEF CloseInner, TypeOK, GenStates
  <1>4. \A h \in Streams : \/ gen'[h] = gen[h]
                           \/ {gen[h], gen'[h]} \cap {"acquiring", "streaming"} = {}
    BY DEF CloseInner, TypeOK
  <1>5. RefInv' /\ NoOrphanStream'
    BY <1>3, <1>4, LoopKeeps DEF CloseInner, TypeOK
  <1> QED BY <1>1, <1>2, <1>3, <1>5

\* The lock is held by one generator at a time, a free lock has woken its first
\* waiter, and every waiting or streaming generator has one caller driving it.
THEOREM Invariant == Spec => []IInv
  <1>1. Init => IInv
    <2> SUFFICES ASSUME Init PROVE IInv
      OBVIOUS
    <2>1. Holding = {}
      BY DEF Init, Holding
    <2>4. TypeOK
      <3>1. gen \in [Streams -> GenStates]
        BY DEF Init, GenStates
      <3>3. waiters \in Seq(Streams)
        BY DEF Init
      <3>2. /\ at \in [Callers -> {"idle", "calling", "between"}]
            /\ ref \in [Callers -> Streams \cup {NoStream}]
        BY DEF Init
      <3> QED BY <3>1, <3>2, <3>3 DEF Init, TypeOK
    <2>2. LockInv
      BY <2>1 DEF Init, LockInv, InQueue
    <2>3. RefInv /\ NoOrphanStream
      BY DEF Init, RefInv, NoOrphanStream
    <2> QED BY <2>2, <2>3, <2>4 DEF IInv
  <1>2. IInv /\ [Next]_vars => IInv'
    <2> SUFFICES ASSUME IInv, [Next]_vars PROVE IInv'
      OBVIOUS
    <2>1. CASE UNCHANGED vars
      BY <2>1 DEF vars, IInv, TypeOK, LockInv, RefInv, NoOrphanStream, Holding, InQueue
    <2>2. ASSUME NEW p \in Callers, CallerStep(p) PROVE IInv'
      BY <2>2, CallKeeps, DoneKeeps, EndTurnKeeps, UnwindKeeps, GiveUpKeeps DEF CallerStep
    <2>3. ASSUME NEW g \in Streams, LoopStep(g) PROVE IInv'
      BY <2>3, ResumeKeeps, FinalizeKeeps, CloseInnerKeeps DEF LoopStep
    <2> QED BY <2>1, <2>2, <2>3 DEF Next
  <1> QED BY <1>1, <1>2, PTL DEF Spec

\* Every action keeps the types of the variables.
COROLLARY TypeCorrect == Spec => []TypeOK
  BY Invariant, PTL DEF IInv

\* The lock is held by one generator at a time, and no wake-up is lost.
COROLLARY LockInvHolds == Spec => []LockInv
  BY Invariant, PTL DEF IInv

\* The lock is never left to a generator nobody drives or finalizes.
COROLLARY NoOrphanStreamHolds == Spec => []NoOrphanStream
  BY Invariant, PTL DEF IInv

-----------------------------------------------------------------------------
(* LlmLock implements SerialLlm. *)

LEMMA HolderIs ==
    ASSUME NEW g \in Streams, Holding = {g}
    PROVE  Holder = g
  BY DEF Holder

\* Calls are served one at a time, in the order they were made.
THEOREM Refinement == Spec => ImplementsSerial
  <1>1. Init => Serial!Init
    <2> SUFFICES ASSUME Init PROVE Serial!Init
      OBVIOUS
    <2>1. Holding = {}
      BY DEF Init, Holding
    <2> QED BY <2>1 DEF Init, Serial!Init, Holder
  <1>2. IInv /\ IInv' /\ [Next]_vars => [Serial!Next]_<<Holder, waiters>>
    <2> SUFFICES ASSUME IInv, IInv', [Next]_vars PROVE [Serial!Next]_<<Holder, waiters>>
      OBVIOUS
    <2> USE DEF IInv
    <2>1. CASE UNCHANGED vars
      BY <2>1 DEF vars, Holder, Holding
    <2>2. ASSUME Holding' = Holding, waiters' = waiters PROVE UNCHANGED <<Holder, waiters>>
      BY <2>2 DEF Holder
    <2>3. Holding = {} <=> Holder = NoStream
      BY StreamsAssumption DEF Holder, Holding
    <2>4. ASSUME NEW p \in Callers, NEW g \in Streams, Call(p, g)
          PROVE  Serial!Next
      <3>1. CASE ~locked /\ waiters = <<>>
        <4>1. Holding = {} /\ Holding' = {g} /\ UNCHANGED waiters
          BY <2>4, <3>1 DEF LockInv, Holding, Call, Acquire, TypeOK
        <4>2. Holder' = g
          BY <4>1 DEF Holder
        <4> QED BY <2>3, <3>1, <4>1, <4>2 DEF Serial!Begin, Serial!Next
      <3>2. CASE ~(~locked /\ waiters = <<>>)
        <4>1. waiters' = Append(waiters, g) /\ Holding' = Holding /\ gen[g] = "free"
          BY <2>4, <3>2 DEF Holding, Call, Acquire, TypeOK
        <4>2. g # Holder
          <5>1. Holder = NoStream \/ Holder \in Holding
            BY DEF Holder, Holding
          <5>2. g \notin Holding /\ g # NoStream
            BY <4>1, StreamsAssumption DEF Holding
          <5> QED BY <5>1, <5>2
        <4>3. ~Serial!Waits(g)
          BY <4>1 DEF Serial!Waits, LockInv, InQueue
        <4> QED BY <4>1, <4>2, <4>3 DEF Holder, Serial!Enqueue, Serial!Next
      <3> QED BY <3>1, <3>2
    <2>5. ASSUME NEW p \in Callers, Done(p) \/ Abandon(p) PROVE UNCHANGED <<Holder, waiters>>
      <3>1. ref[p] \in Streams /\ gen[ref[p]] = "streaming"
        BY <2>5 DEF Done, Abandon, RefInv
      <3>2. PICK v \in {"spent", "dropped"} : gen' = [gen EXCEPT ![ref[p]] = v]
        BY <2>5 DEF Done, Abandon
      <3>3. Holding' = Holding
        BY <3>1, <3>2 DEF Holding, TypeOK
      <3> QED BY <2>2, <2>5, <3>3 DEF Done, Abandon
    <2>6. ASSUME NEW p \in Callers, EndTurn(p) PROVE UNCHANGED <<Holder, waiters>>
      BY <2>2, <2>6 DEF EndTurn, Holding
    <2>7. ASSUME NEW p \in Callers, Unwind(p) PROVE Serial!Next
      <3>1. ref[p] \in Holding /\ gen' = [gen EXCEPT ![ref[p]] = "free"] /\ Unlock
        BY <2>7 DEF Unwind, RefInv, Holding
      <3>2. Holding' = {} /\ Holding # {} /\ UNCHANGED waiters
        BY <3>1, UnlockKeeps DEF Unlock
      <3> QED BY <2>3, <3>2 DEF Holder, Serial!Release, Serial!Next
    <2>8. ASSUME NEW p \in Callers, GiveUp(p) PROVE Serial!Next
      <3>1. ref[p] \in Streams /\ gen[ref[p]] = "acquiring" /\ waiters' = Without(waiters, ref[p])
            /\ gen' = [gen EXCEPT ![ref[p]] = "free"]
        BY <2>8 DEF GiveUp, RefInv
      <3>2. Holding' = Holding
        BY <3>1 DEF Holding, TypeOK
      <3>3. Serial!Waits(ref[p])
        BY <3>1 DEF Serial!Waits, LockInv, InQueue
      <3>4. waiters' = Serial!Without(waiters, ref[p])
        BY <3>1 DEF Without, Serial!Without
      <3> QED BY <3>1, <3>2, <3>3, <3>4 DEF Holder, Serial!Withdraw, Serial!Next
    <2>9. ASSUME NEW g \in Streams, Resume(g) PROVE Serial!Next
      <3>1. /\ waiters # <<>> /\ g = Head(waiters) /\ waiters' = Tail(waiters)
            /\ Holding = {} /\ Holding' = {g}
        BY <2>9, ResumeKeeps
      <3>2. Holder' = g
        BY <3>1 DEF Holder
      <3> QED BY <2>3, <3>1, <3>2 DEF Serial!Grant, Serial!Next
    <2>10. ASSUME NEW g \in Streams, Finalize(g) PROVE Serial!Next
      <3>1. Holding' = {} /\ Holding # {} /\ UNCHANGED waiters
        BY <2>10, FinalizeKeeps DEF Finalize, Unlock
      <3> QED BY <2>3, <3>1 DEF Holder, Serial!Release, Serial!Next
    <2>11. ASSUME NEW g \in Streams, CloseInner(g) PROVE UNCHANGED <<Holder, waiters>>
      BY <2>2, <2>11, CloseInnerKeeps DEF CloseInner
    <2> QED BY <2>1, <2>4, <2>5, <2>6, <2>7, <2>8, <2>9, <2>10, <2>11
        DEF Next, CallerStep, LoopStep
  <1> QED BY <1>1, <1>2, Invariant, PTL DEF Spec, ImplementsSerial, Serial!Spec

-----------------------------------------------------------------------------
\* Callers never wait for each other in a ring, not even a turn whose session.close calls
\* the LLM while its own generator still has the lock (locked.py:32, session.py:110): while
\* any call waits, the first of them can take the lock, or a caller is reading a reply, or
\* a generator that holds the lock is about to be finalized.  The safety part of
\* EveryCallServed.
THEOREM WaitersAreNotStuck ==
    Spec => [](waiters # <<>> =>
                 \/ Head(waiters) \in woken /\ gen[Head(waiters)] = "acquiring"
                 \/ \E p \in Callers : at[p] = "calling" /\ gen[ref[p]] = "streaming"
                 \/ \E g \in Streams : gen[g] \in {"spent", "dropped"})
  <1>1. ASSUME IInv, waiters # <<>>
        PROVE  \/ Head(waiters) \in woken /\ gen[Head(waiters)] = "acquiring"
               \/ \E p \in Callers : at[p] = "calling" /\ gen[ref[p]] = "streaming"
               \/ \E g \in Streams : gen[g] \in {"spent", "dropped"}
    <2>1. TypeOK /\ LockInv /\ NoOrphanStream
      BY <1>1 DEF IInv
    <2>2. CASE ~locked
      <3>1. Head(waiters) \in Streams /\ Member(waiters, Head(waiters))
        <4>1. waiters \in Seq(Streams) /\ 1 \in 1..Len(waiters) /\ waiters[1] = Head(waiters)
          BY <1>1, <2>1 DEF TypeOK
        <4> QED BY <4>1 DEF Member
      <3>2. woken = {Head(waiters)}
        BY <1>1, <2>1, <2>2 DEF LockInv
      <3> QED BY <2>1, <3>1, <3>2, QueueFacts
    <2>3. CASE locked
      <3>1. PICK g \in Streams : gen[g] \in {"streaming", "spent", "dropped"}
        BY <2>1, <2>3 DEF LockInv, Holding
      <3>2. CASE gen[g] = "streaming"
        BY <2>1, <3>1, <3>2 DEF NoOrphanStream
      <3> QED BY <3>1, <3>2
    <2> QED BY <2>1, <2>2, <2>3 DEF TypeOK
  <1> QED BY <1>1, Invariant, PTL

-----------------------------------------------------------------------------
\* While every caller reads its replies to the end, or stops only where it waits
\* for a chunk, llama-server sees one request at a time.
THEOREM OneRequestWithoutAbandon ==
    ASSUME ~MayAbandon
    PROVE  Spec => []OneRequestAtATime
  <1> DEFINE NoneLeft == \A g \in Streams : gen[g] \notin {"dropped", "closing"}
  <1>1. Init => NoneLeft
    BY DEF Init
  <1>2. IInv /\ NoneLeft /\ [Next]_vars => NoneLeft'
    <2> SUFFICES ASSUME IInv, NoneLeft, [Next]_vars PROVE NoneLeft'
      OBVIOUS
    <2> USE DEF IInv, TypeOK
    <2>1. CASE UNCHANGED vars
      BY <2>1 DEF vars
    <2>2. ASSUME NEW p \in Callers, CallerStep(p) PROVE NoneLeft'
      <3>1. ASSUME NEW g \in Streams, Call(p, g) PROVE NoneLeft'
        BY <3>1 DEF Call, Acquire
      <3>2. CASE Done(p) \/ Unwind(p) \/ GiveUp(p)
        BY <3>2 DEF Done, Unwind, GiveUp
      <3>3. CASE EndTurn(p) \/ Abandon(p)
        BY <3>3 DEF EndTurn, Abandon
      <3> QED BY <2>2, <3>1, <3>2, <3>3 DEF CallerStep
    <2>3. ASSUME NEW g \in Streams, LoopStep(g) PROVE NoneLeft'
      BY <2>3 DEF LoopStep, Resume, Finalize, CloseInner
    <2> QED BY <2>1, <2>2, <2>3 DEF Next
  <1>3. IInv /\ NoneLeft => OneRequestAtATime
    BY DEF IInv, LockInv, Holding, HttpOpen, OneRequestAtATime
  <1> QED BY <1>1, <1>2, <1>3, Invariant, PTL DEF Spec
=============================================================================
