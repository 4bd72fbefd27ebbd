--------------------------- MODULE SessionProofs ---------------------------
(***************************************************************************)
(* Proofs about SessionLifecycle for any number of turns, close tasks,     *)
(* sessions, messages and faults: its type invariant, that an older open   *)
(* chat is always being closed, that closing a session twice never         *)
(* replaces its summary by one made from fewer messages, and that the      *)
(* requests for summaries form a queue whose first one is being served.    *)
(***************************************************************************)
EXTENDS SessionLifecycle, FiniteSetTheorems, TLAPS

\* Where a task with a request is, and what a spawned closer has to close.
TaskInv ==
    /\ \A t \in Turns \cap asked : turn[t] = "closing"
    /\ \A k \in Closers \cap asked : closer[k] = "closing"
    /\ Watcher \in asked => watcher = "closing"
    /\ ExitHook \in asked => daemon = "stopping"
    /\ \A k \in Closers : closer[k] # "free" => job[k] # NoSid
    /\ daemon = "stopping" => MayExit
    /\ daemon = "down" => watcher = "off"

\* Only sessions that exist are closed.
JobInv == \A k \in Summarizers : job[k] # NoSid => row[job[k]] # "none"

\* Of two requests one is ahead of the other; of two about one session the one ahead
\* has read no more; and what is stored comes from no more than what is to come.
RequestInv ==
    /\ \A j, k \in asked : j # k => j \in ahead[k] \/ k \in ahead[j]
    /\ \A j, k \in asked : job[j] = job[k] /\ j \in ahead[k] => seen[j] <= seen[k]
    /\ \A k \in asked : covered[job[k]] <= seen[k] /\ seen[k] <= msgs[job[k]]
    /\ \A s \in Sids : covered[s] <= msgs[s]

\* Sessions are numbered in the order of their creation.
NumberInv == \A s, r \in Sids : s < r /\ row[s] = "none" => row[r] = "none"

IInv == TypeOK /\ TaskInv /\ JobInv /\ RequestInv /\ NumberInv /\ OlderIsClosing

RequestType ==
    /\ job \in [Summarizers -> Sids \cup {NoSid}]
    /\ seen \in [Summarizers -> 0..MaxMsgs]
    /\ asked \subseteq {k \in Summarizers : job[k] # NoSid}
    /\ ahead \in [Summarizers -> SUBSET asked]

-----------------------------------------------------------------------------
(* The requests. *)

\* A task's new request goes behind the others and has read all there is to read.
LEMMA AskKeeps ==
    ASSUME TypeOK, RequestInv, NEW k \in Summarizers \ asked, NEW s \in Sids,
           Ask(k, s), UNCHANGED <<msgs, covered>>
    PROVE  RequestType' /\ RequestInv'
  <1> USE SessionBounds DEF Sids, NoSid
  <1>1. RequestType'
    BY DEF TypeOK, Ask, RequestType
  <1>2. \A j, i \in asked' : j # i => j \in ahead'[i] \/ i \in ahead'[j]
    BY DEF TypeOK, Ask, RequestInv
  <1>3. \A i \in asked : job'[i] = job[i] /\ seen'[i] = seen[i] /\ ahead'[i] = ahead[i]
    BY DEF TypeOK, Ask
  <1>4. k \notin asked /\ job'[k] = s /\ seen'[k] = msgs[s] /\ ahead'[k] = asked /\ asked' = asked \cup {k}
    BY DEF TypeOK, Ask
  <1>5. \A i \in asked : ahead[i] \subseteq asked
    BY DEF TypeOK
  <1>6. \A j, i \in asked' : job'[j] = job'[i] /\ j \in ahead'[i] => seen'[j] <= seen'[i]
    BY <1>3, <1>4, <1>5, SMTT(30) DEF TypeOK, RequestInv
  <1>7. \A i \in asked' : covered'[job'[i]] <= seen'[i] /\ seen'[i] <= msgs'[job'[i]]
    BY <1>3, <1>4 DEF TypeOK, RequestInv
  <1> QED BY <1>1, <1>2, <1>6, <1>7 DEF RequestInv

\* Without one of the requests the others keep their order.
LEMMA WithdrawKeeps ==
    ASSUME TypeOK, RequestInv, NEW k \in Summarizers, Withdraw(k)
    PROVE  /\ RequestType'
           /\ asked' = asked \ {k}
           /\ \A i \in Summarizers \ {k} :
                 job'[i] = job[i] /\ seen'[i] = seen[i] /\ ahead'[i] = ahead[i] \ {k}
           /\ \A j, i \in asked' : j # i => j \in ahead'[i] \/ i \in ahead'[j]
           /\ \A j, i \in asked' : job'[j] = job'[i] /\ j \in ahead'[i] => seen'[j] <= seen'[i]
  <1> USE SessionBounds DEF Sids, NoSid
  <1>1. RequestType'
    BY DEF TypeOK, Withdraw, RequestType
  <1>2. /\ asked' = asked \ {k}
        /\ \A i \in Summarizers \ {k} :
              job'[i] = job[i] /\ seen'[i] = seen[i] /\ ahead'[i] = ahead[i] \ {k}
    BY DEF TypeOK, Withdraw
  <1> QED BY <1>1, <1>2, SMTT(30) DEF TypeOK, RequestInv

\* Requests are left alone and messages only added.
LEMMA RequestsStay ==
    ASSUME TypeOK, TypeOK', RequestInv, UNCHANGED <<job, seen, asked, ahead, covered>>,
           \A s \in Sids : msgs[s] <= msgs'[s]
    PROVE  RequestInv'
  <1> USE SessionBounds DEF Sids, NoSid
  <1>1. \A k \in asked : job[k] \in Sids /\ seen[k] \in Nat
    BY DEF TypeOK
  <1>2. \A s \in Sids : msgs[s] \in Nat /\ msgs'[s] \in Nat /\ covered[s] \in Nat
    BY DEF TypeOK
  <1> QED BY <1>1, <1>2 DEF RequestInv

-----------------------------------------------------------------------------
(* Each action keeps the invariant. *)

\* Steps of tasks that change no request and write nothing but messages.
LEMMA MessageStep ==
    ASSUME IInv, NEW s \in Sids \cup {NoSid}, AppendMessage(s) \/ UNCHANGED msgs,
           UNCHANGED <<row, proactive, covered, stale, requests, turn, tsid, closer, watcher,
                       daemon, faults>>,
           dsid' \in [Drivers -> Sids \cup {NoSid}]
    PROVE  IInv'
  <1> USE SessionBounds DEF Sids, NoSid
  <1>0. msgs \in [Sids -> 0..MaxMsgs]
    BY DEF IInv, TypeOK
  <1>2. msgs' \in [Sids -> 0..MaxMsgs] /\ \A r \in Sids : msgs[r] <= msgs'[r]
    <2>1. CASE UNCHANGED msgs
      BY <1>0, <2>1
    <2>2. CASE AppendMessage(s) /\ s \in Sids
      BY <1>0, <2>2 DEF AppendMessage
    <2>3. CASE AppendMessage(s) /\ s = NoSid
      <3>1. msgs' = msgs
        BY <1>0, <2>3 DEF AppendMessage
      <3> QED BY <1>0, <3>1
    <2> QED BY <2>1, <2>2, <2>3
  <1>1. TypeOK'
    BY <1>2 DEF IInv, TypeOK, requests
  <1>3. RequestInv'
    BY <1>1, <1>2, RequestsStay DEF IInv, requests
  <1>4. TaskInv' /\ JobInv' /\ NumberInv' /\ OlderIsClosing'
    BY DEF IInv, TaskInv, JobInv, NumberInv, OlderIsClosing, OpenChats, Open, requests
  <1> QED BY <1>1, <1>3, <1>4 DEF IInv

\* A session that is opened, or was open, is written to; the others stay as they are.
LEMMA WriteFacts ==
    ASSUME TypeOK, NEW s \in Sids, Write(s)
    PROVE  /\ row' \in [Sids -> {"none", "open", "ended"}] /\ row'[s] = "open"
           /\ msgs' \in [Sids -> 0..MaxMsgs]
           /\ \A r \in Sids : msgs[r] <= msgs'[r]
           /\ \A r \in Sids \ {s} : row'[r] = row[r]
  BY SessionBounds DEF TypeOK, Write, Sids

\* The next session comes after all there are.
LEMMA NextIsLast ==
    ASSUME TypeOK, NumberInv, NEW n \in Sids, NextSid(n)
    PROVE  \A s \in Sids : row[s] # "none" <=> s < n
  BY SessionBounds DEF TypeOK, NumberInv, NextSid, Sids

LEMMA NumberKept ==
    ASSUME TypeOK, NumberInv, NEW n \in Sids, NextSid(n) \/ row[n] = "open", Write(n)
    PROVE  NumberInv'
  <1>1. CASE row[n] = "open"
    BY <1>1, WriteFacts, SessionBounds DEF NumberInv, Sids
  <1>2. CASE NextSid(n)
    <2>1. \A s \in Sids : row[s] # "none" <=> s < n
      BY <1>2, NextIsLast
    <2> QED BY <2>1, WriteFacts, SessionBounds DEF NumberInv, Sids
  <1> QED BY <1>1, <1>2

\* A turn starts in a session, and perhaps a close task on another.
LEMMA StartKeeps ==
    ASSUME IInv, NEW t \in Turns, NEW s \in Sids,
           turn[t] = "idle", StartIn(t, s), NextSid(s) \/ row[s] = "open",
           job' \in [Summarizers -> Sids \cup {NoSid}],
           closer' \in [Closers -> {"free", "new", "closing"}],
           \A k \in asked : job'[k] = job[k],
           \A k \in asked \cap Closers : closer'[k] = closer[k],
           \A k \in Closers : closer'[k] # "free" => job'[k] # NoSid,
           \A k \in Summarizers : job'[k] # NoSid => row[job'[k]] # "none",
           UNCHANGED <<proactive, covered, seen, asked, ahead, dsid, watcher, daemon, faults>>
    PROVE  TypeOK' /\ TaskInv' /\ JobInv' /\ RequestInv' /\ NumberInv'
  <1> USE SessionBounds DEF Sids, NoSid
  <1>1. TypeOK /\ TaskInv /\ RequestInv /\ NumberInv
    BY DEF IInv
  <1>2. /\ row' \in [Sids -> {"none", "open", "ended"}] /\ msgs' \in [Sids -> 0..MaxMsgs]
        /\ \A q \in Sids : msgs[q] <= msgs'[q]
    BY <1>1, WriteFacts DEF StartIn
  <1>3. /\ turn' \in [Turns -> {"idle", "running", "closing"}]
        /\ tsid' \in [Turns -> Sids \cup {NoSid}]
        /\ stale' \subseteq Sids
        /\ \A u \in Turns \ {t} : turn'[u] = turn[u]
    BY <1>1 DEF TypeOK, StartIn
  <1>4. asked' \subseteq {k \in Summarizers : job'[k] # NoSid}
    BY <1>1 DEF TypeOK
  <1>5. TypeOK'
    BY <1>1, <1>2, <1>3, <1>4 DEF TypeOK
  <1>6. TaskInv'
    <2>1. t \notin asked
      BY <1>1 DEF TaskInv
    <2> QED BY <1>1, <1>3, <2>1 DEF TaskInv
  <1>7. RequestInv'
    <2>1. \A k \in asked : job[k] \in Sids /\ seen[k] \in Nat
      BY <1>1 DEF TypeOK
    <2>2. \A q \in Sids : msgs[q] \in Nat /\ msgs'[q] \in Nat
      BY <1>1, <1>2 DEF TypeOK
    <2>3. \A q \in Sids : covered[q] \in Nat
      BY <1>1 DEF TypeOK
    <2>4. \A k \in asked : covered'[job'[k]] <= seen'[k] /\ seen'[k] <= msgs'[job'[k]]
      <3> TAKE k \in asked
      <3>1. covered[job[k]] <= seen[k] /\ seen[k] <= msgs[job[k]] /\ job'[k] = job[k]
        BY <1>1 DEF RequestInv
      <3>2. job[k] \in Sids /\ msgs[job[k]] <= msgs'[job[k]]
        BY <1>2, <2>1
      <3> QED BY <2>1, <2>2, <2>3, <3>1, <3>2
    <2>5. \A q \in Sids : covered'[q] <= msgs'[q]
      BY <1>1, <1>2, <2>2, <2>3, SMTT(30) DEF RequestInv
    <2>6. \A j, k \in asked : job'[j] = job'[k] /\ j \in ahead'[k] => seen'[j] <= seen'[k]
      BY <1>1 DEF RequestInv
    <2>7. \A j, k \in asked : j # k => j \in ahead'[k] \/ k \in ahead'[j]
      BY <1>1 DEF RequestInv
    <2> QED BY <2>4, <2>5, <2>6, <2>7 DEF RequestInv
  <1>8. NumberInv'
    BY <1>1, NumberKept DEF StartIn
  <1>9. JobInv'
    <2>1. \A q \in Sids : row[q] # "none" => row'[q] # "none"
      BY <1>1, WriteFacts DEF StartIn
    <2> QED BY <2>1 DEF JobInv
  <1> QED BY <1>5, <1>6, <1>7, <1>8, <1>9

\* A turn begins: it joins the newest open chat or starts one that is newer, and then
\* leaves no open chat without a task that closes it.
LEMMA BeginTurnKeeps ==
    ASSUME IInv, NEW t \in Turns, BeginTurn(t)
    PROVE  IInv'
  <1> USE SessionBounds DEF Sids, NoSid
  <1>1. TypeOK /\ TaskInv /\ JobInv /\ NumberInv /\ OlderIsClosing
    BY DEF IInv
  <1>2. turn[t] = "idle" /\ UNCHANGED <<proactive, covered, seen, asked, ahead, dsid, watcher, daemon, faults>>
    BY DEF BeginTurn
  <1>3. CASE \E s \in Sids \ stale : OpenChat(s) /\ StartIn(t, s) /\ UNCHANGED <<closer, job>>
    <2> PICK s \in Sids \ stale : OpenChat(s) /\ StartIn(t, s) /\ UNCHANGED <<closer, job>>
      BY <1>3
    <2>1. row[s] = "open"
      BY DEF OpenChat, OpenChats, Open
    <2>2. row' = row
      BY <1>1, <2>1 DEF StartIn, Write, TypeOK
    <2>3. OlderIsClosing'
      BY <1>1, <1>2, <2>2 DEF OlderIsClosing, OpenChats, Open
    <2>4. TypeOK' /\ TaskInv' /\ JobInv' /\ RequestInv' /\ NumberInv'
      <3>1. job' \in [Summarizers -> Sids \cup {NoSid}] /\ closer' \in [Closers -> {"free", "new", "closing"}]
        BY <1>1 DEF TypeOK
      <3>2. \A k \in Closers : closer'[k] # "free" => job'[k] # NoSid
        BY <1>1 DEF TaskInv
      <3> QED BY <1>1, <1>2, <2>1, <3>1, <3>2, StartKeeps DEF JobInv
    <2> QED BY <2>3, <2>4 DEF IInv
  <1>4. CASE \E s \in stale, n \in Sids, k \in Closers :
                /\ OpenChat(s) /\ NextSid(n) /\ closer[k] = "free"
                /\ closer' = [closer EXCEPT ![k] = "new"]
                /\ job' = [job EXCEPT ![k] = s]
                /\ StartIn(t, n)
    <2> PICK s \in stale, n \in Sids, k \in Closers :
                /\ OpenChat(s) /\ NextSid(n) /\ closer[k] = "free"
                /\ closer' = [closer EXCEPT ![k] = "new"]
                /\ job' = [job EXCEPT ![k] = s]
                /\ StartIn(t, n)
      BY <1>4
    <2>1. s \in Sids /\ k \in Summarizers /\ k \notin asked
      BY <1>1 DEF TypeOK, TaskInv, Summarizers
    <2>2. /\ job' \in [Summarizers -> Sids \cup {NoSid}] /\ job'[k] = s
          /\ \A j \in Summarizers \ {k} : job'[j] = job[j]
      BY <1>1, <2>1 DEF TypeOK
    <2>3. /\ closer' \in [Closers -> {"free", "new", "closing"}] /\ closer'[k] = "new"
          /\ \A j \in Closers \ {k} : closer'[j] = closer[j]
      BY <1>1 DEF TypeOK
    <2>4. \A j \in Closers : j \in Summarizers
      BY DEF Summarizers
    <2>5. \A j \in asked : j \in Summarizers /\ job'[j] = job[j]
      BY <1>1, <2>1, <2>2 DEF TypeOK
    <2>6. \A j \in asked \cap Closers : closer'[j] = closer[j]
      BY <2>1, <2>3
    <2>7. \A j \in Closers : closer'[j] # "free" => job'[j] # NoSid
      BY <1>1, <2>1, <2>2, <2>3, <2>4 DEF TaskInv
    <2>8. TypeOK' /\ TaskInv' /\ JobInv' /\ RequestInv' /\ NumberInv'
      <3>1. \A j \in Summarizers : job'[j] # NoSid => row[job'[j]] # "none"
        BY <1>1, <2>2 DEF JobInv, OpenChat, OpenChats, Open
      <3> QED BY <1>2, <2>2, <2>3, <2>5, <2>6, <2>7, <3>1, StartKeeps
    <2>9. OlderIsClosing'
      <3> SUFFICES ASSUME faults = 0, ~MayExit, NEW a \in OpenChats', NEW b \in OpenChats', a < b
                   PROVE  \E j \in Closers : closer'[j] # "free" /\ job'[j] = a
        BY <1>2 DEF OlderIsClosing
      <3>1. \A q \in OpenChats' : q \in Sids /\ (q = n \/ q \in OpenChats)
        BY <1>1, <1>2, WriteFacts DEF StartIn, OpenChats, Open
      <3>2. \A q \in OpenChats : q < n
        BY <1>1, NextIsLast DEF OpenChats, Open
      <3>3. a \in OpenChats /\ a <= s /\ s \in OpenChats
        BY <3>1, <3>2 DEF OpenChat
      <3>4. CASE a = s
        BY <3>4, <2>2, <2>3
      <3>5. CASE a < s
        <4>1. PICK j \in Closers : closer[j] # "free" /\ job[j] = a
          BY <1>1, <3>3, <3>5 DEF OlderIsClosing
        <4> QED BY <4>1, <2>2, <2>3, <2>4
      <3>6. a \in Nat /\ s \in Nat
        BY <3>1, <2>1
      <3> QED BY <3>3, <3>4, <3>5, <3>6
    <2> QED BY <2>8, <2>9 DEF IInv
  <1>5. CASE \E n \in Sids : OpenChats = {} /\ NextSid(n) /\ StartIn(t, n) /\ UNCHANGED <<closer, job>>
    <2> PICK n \in Sids : OpenChats = {} /\ NextSid(n) /\ StartIn(t, n) /\ UNCHANGED <<closer, job>>
      BY <1>5
    <2>1. TypeOK' /\ TaskInv' /\ JobInv' /\ RequestInv' /\ NumberInv'
      <3>1. job' \in [Summarizers -> Sids \cup {NoSid}] /\ closer' \in [Closers -> {"free", "new", "closing"}]
        BY <1>1 DEF TypeOK
      <3>2. \A k \in Closers : closer'[k] # "free" => job'[k] # NoSid
        BY <1>1 DEF TaskInv
      <3> QED BY <1>1, <1>2, <3>1, <3>2, StartKeeps DEF JobInv
    <2>2. \A q \in OpenChats' : q = n
      BY <1>1, <1>2, WriteFacts DEF StartIn, OpenChats, Open
    <2>3. OlderIsClosing'
      BY <2>2 DEF OlderIsClosing
    <2> QED BY <2>1, <2>3 DEF IInv
  <1> QED BY <1>3, <1>4, <1>5 DEF BeginTurn

\* A task asks for a summary: nothing else of the tables or of the tasks changes.
LEMMA AskStep ==
    ASSUME IInv, NEW k \in Summarizers \ asked, NEW s \in Sids, Ask(k, s), row[s] # "none",
           \/ k \in Turns /\ turn' = [turn EXCEPT ![k] = "closing"] /\ UNCHANGED <<closer, watcher>>
           \/ /\ k \in Closers /\ closer[k] # "free" /\ job[k] = s
              /\ closer' = [closer EXCEPT ![k] = "closing"] /\ UNCHANGED <<turn, watcher>>
           \/ k = Watcher /\ daemon # "down" /\ watcher' = "closing" /\ UNCHANGED <<turn, closer>>,
           UNCHANGED <<tables, stale, tsid, dsid, daemon, faults>>
    PROVE  IInv'
  <1> USE SessionBounds, DistinctTasks DEF Sids, NoSid
  <1>1. TypeOK /\ TaskInv /\ JobInv /\ RequestInv /\ NumberInv /\ OlderIsClosing
    BY DEF IInv
  <1>2. RequestType' /\ RequestInv'
    BY <1>1, AskKeeps DEF tables
  <1>3. asked' = asked \cup {k} /\ job'[k] = s /\ \A j \in Summarizers \ {k} : job'[j] = job[j]
    BY <1>1 DEF Ask, TypeOK
  <1>4. /\ turn' \in [Turns -> {"idle", "running", "closing"}]
        /\ closer' \in [Closers -> {"free", "new", "closing"}]
        /\ watcher' \in {"sleeping", "closing", "off"}
    BY <1>1 DEF TypeOK
  <1>5. TypeOK'
    BY <1>1, <1>2, <1>4 DEF TypeOK, RequestType, tables
  <1>6. TaskInv'
    <2>1. \A j \in Closers : job'[j] = job[j] \/ job'[j] = s
      BY <1>3 DEF Summarizers
    <2>2. \A t \in Turns \cap asked' : turn'[t] = "closing"
      BY <1>1, <1>3 DEF TaskInv, TypeOK
    <2>3. \A j \in Closers \cap asked' : closer'[j] = "closing"
      BY <1>1, <1>3 DEF TaskInv, TypeOK
    <2>4. \A j \in Closers : closer'[j] # "free" => job'[j] # NoSid
      <3>1. \A j \in Closers : closer'[j] # "free" => closer[j] # "free"
        BY <1>1 DEF TypeOK
      <3> QED BY <1>1, <2>1, <3>1 DEF TaskInv
    <2>5. Watcher \in asked' => watcher' = "closing"
      BY <1>1, <1>3 DEF TaskInv
    <2>6. ExitHook \in asked' => daemon' = "stopping"
      BY <1>1, <1>3 DEF TaskInv
    <2>7. daemon' = "down" => watcher' = "off"
      BY <1>1 DEF TaskInv
    <2> QED BY <1>1, <2>2, <2>3, <2>4, <2>5, <2>6, <2>7 DEF TaskInv
  <1>7. \A j \in Closers : closer[j] # "free" => closer'[j] # "free" /\ job'[j] = job[j]
    <2> TAKE j \in Closers
    <2>1. j \in Summarizers
      BY DEF Summarizers
    <2>2. CASE j = k
      BY <1>1, <1>3, <2>2 DEF TypeOK
    <2>3. CASE j # k
      BY <1>1, <1>3, <2>1, <2>3 DEF TypeOK
    <2> QED BY <2>2, <2>3
  <1>10. JobInv'
    BY <1>1, <1>3 DEF JobInv, tables
  <1>8. OlderIsClosing'
    BY <1>1, <1>7 DEF OlderIsClosing, OpenChats, Open, tables
  <1>9. NumberInv'
    BY <1>1 DEF NumberInv, tables
  <1> QED BY <1>2, <1>5, <1>6, <1>8, <1>9, <1>10 DEF IInv

LEMMA EndTurnKeeps ==
    ASSUME IInv, NEW t \in Turns, EndTurn(t)
    PROVE  IInv'
  <1>1. TypeOK'
    BY DEF IInv, TypeOK, EndTurn, tables, requests
  <1>2. TaskInv'
    BY DEF IInv, TypeOK, TaskInv, EndTurn, tables, requests
  <1>3. JobInv' /\ RequestInv' /\ NumberInv' /\ OlderIsClosing'
    BY DEF IInv, JobInv, RequestInv, NumberInv, OlderIsClosing, OpenChats, Open, EndTurn, tables, requests
  <1> QED BY <1>1, <1>2, <1>3 DEF IInv

LEMMA CloseToolKeeps ==
    ASSUME IInv, NEW t \in Turns, CloseTool(t)
    PROVE  IInv'
  <1>1. PICK s \in Sids : OpenChat(s) /\ Ask(t, s)
    BY DEF CloseTool
  <1>2. t \in Summarizers \ asked
    BY DEF IInv, TaskInv, CloseTool, Summarizers
  <1> QED BY <1>1, <1>2, AskStep DEF CloseTool, OpenChat, OpenChats, Open

LEMMA CloserBeginsKeeps ==
    ASSUME IInv, NEW k \in Closers, CloserBegins(k)
    PROVE  IInv'
  <1>1. k \in Summarizers \ asked /\ closer[k] # "free"
    BY DEF IInv, TaskInv, CloserBegins, Summarizers
  <1>2. job[k] \in Sids /\ row[job[k]] # "none"
    BY <1>1 DEF IInv, TypeOK, TaskInv, JobInv
  <1> QED BY <1>1, <1>2, AskStep DEF CloserBegins

LEMMA WatcherPollsKeeps ==
    ASSUME IInv, WatcherPolls
    PROVE  IInv'
  <1>1. PICK s \in stale : OpenChat(s) /\ Ask(Watcher, s)
    BY DEF WatcherPolls
  <1>2. s \in Sids /\ Watcher \in Summarizers \ asked
    BY DEF IInv, TypeOK, TaskInv, WatcherPolls, Summarizers
  <1> QED BY <1>1, <1>2, AskStep DEF WatcherPolls, OpenChat, OpenChats, Open

\* A request is over and its task goes on: chats may have ended, none has opened.
LEMMA WithdrawStep ==
    ASSUME IInv, NEW k \in asked \ {ExitHook}, Withdraw(k),
           turn' \in [Turns -> {"idle", "running", "closing"}],
           \A t \in Turns \ {k} : turn'[t] = turn[t],
           tsid' \in [Turns -> Sids \cup {NoSid}],
           closer' = [j \in Closers |-> IF j = k THEN "free" ELSE closer[j]],
           watcher' \in {"sleeping", "closing", "off"}, k # Watcher => watcher' = watcher,
           UNCHANGED <<proactive, msgs, dsid, daemon>>,
           faults' \in 0..MaxFaults, faults' = 0 => faults = 0,
           \/ UNCHANGED <<row, covered, stale>> /\ (k \in Closers => faults' # 0)
           \/ CloseSession(job[k], seen[k]) /\ ahead[k] = {}
    PROVE  IInv' /\ \A s \in Sids : covered[s] <= covered'[s]
  <1> USE SessionBounds, DistinctTasks DEF Sids, NoSid
  <1>1. TypeOK /\ TaskInv /\ JobInv /\ RequestInv /\ NumberInv /\ OlderIsClosing
    BY DEF IInv
  <1>2. /\ RequestType'
        /\ asked' = asked \ {k}
        /\ \A i \in Summarizers \ {k} :
              job'[i] = job[i] /\ seen'[i] = seen[i] /\ ahead'[i] = ahead[i] \ {k}
        /\ \A j, i \in asked' : j # i => j \in ahead'[i] \/ i \in ahead'[j]
        /\ \A j, i \in asked' : job'[j] = job'[i] /\ j \in ahead'[i] => seen'[j] <= seen'[i]
    <2>1. k \in Summarizers
      BY <1>1 DEF TypeOK
    <2> QED BY <1>1, <2>1, WithdrawKeeps
  <1>3. job[k] \in Sids /\ seen[k] \in 0..MaxMsgs /\ covered[job[k]] <= seen[k] /\ seen[k] <= msgs[job[k]]
    BY <1>1 DEF TypeOK, RequestInv
  <1>4. /\ row' \in [Sids -> {"none", "open", "ended"}]
        /\ covered' \in [Sids -> 0..MaxMsgs]
        /\ stale' \subseteq Sids
        /\ \A s \in Sids \ {job[k]} : row'[s] = row[s] /\ covered'[s] = covered[s]
        /\ covered'[job[k]] \in {covered[job[k]], seen[k]}
        /\ row'[job[k]] \in {row[job[k]], "ended"}
    BY <1>1, <1>3, ZenonT(60) DEF TypeOK, CloseSession
  <1>5. TypeOK'
    BY <1>1, <1>2, <1>4 DEF TypeOK, RequestType
  <1>6. TaskInv'
    BY <1>1, <1>2 DEF TaskInv, TypeOK, Summarizers
  <1>7. \A s \in Sids : covered[s] <= covered'[s] /\ covered'[s] <= msgs[s]
    <2> TAKE s \in Sids
    <2>1. covered[s] <= msgs[s] /\ covered[s] \in Nat
      BY <1>1 DEF RequestInv, TypeOK
    <2>2. CASE s = job[k]
      BY <1>3, <1>4, <2>1, <2>2
    <2>3. CASE s # job[k]
      BY <1>4, <2>1, <2>3
    <2> QED BY <2>2, <2>3
  <1>8. \A i \in asked' : covered'[job'[i]] <= seen'[i] /\ seen'[i] <= msgs'[job'[i]]
    <2> TAKE i \in asked'
    <2>1. i \in asked /\ i # k /\ job'[i] = job[i] /\ seen'[i] = seen[i] /\ i \in Summarizers
      BY <1>1, <1>2 DEF TypeOK
    <2>2. covered[job[i]] <= seen[i] /\ seen[i] <= msgs[job[i]] /\ job[i] \in Sids
      BY <1>1, <2>1 DEF RequestInv, TypeOK
    <2>3. CASE covered'[job[i]] = covered[job[i]]
      BY <2>1, <2>2, <2>3
    <2>4. CASE covered'[job[i]] # covered[job[i]]
      <3>1. job[i] = job[k] /\ covered'[job[i]] = seen[k] /\ ahead[k] = {}
        BY <1>4, <2>2, <2>4 DEF CloseSession
      <3>2. k \in ahead[i]
        BY <1>1, <2>1, <3>1 DEF RequestInv
      <3>3. seen[k] <= seen[i]
        BY <1>1, <2>1, <3>1, <3>2 DEF RequestInv
      <3> QED BY <2>1, <2>2, <3>1, <3>3
    <2> QED BY <2>3, <2>4
  <1>9. RequestInv'
    BY <1>2, <1>7, <1>8 DEF RequestInv
  <1>10. NumberInv'
    <2>1. \A s \in Sids : row'[s] = "none" <=> row[s] = "none"
      <3>1. row[job[k]] # "none"
        BY <1>1, <1>3 DEF JobInv, TypeOK
      <3> QED BY <1>4, <3>1
    <2> QED BY <1>1, <2>1 DEF NumberInv
  <1>12. JobInv'
    <2>1. \A i \in Summarizers : job'[i] # NoSid => i # k /\ job'[i] = job[i]
      BY <1>1, <1>2 DEF TypeOK, Withdraw
    <2>2. \A s \in Sids : row[s] # "none" => row'[s] # "none"
      BY <1>4
    <2>3. \A i \in Summarizers : job[i] # NoSid => job[i] \in Sids
      BY <1>1 DEF TypeOK
    <2> QED BY <1>1, <2>1, <2>2, <2>3 DEF JobInv
  <1>11. OlderIsClosing'
    <2> SUFFICES ASSUME faults' = 0, ~MayExit, NEW a \in OpenChats', NEW b \in OpenChats', a < b
                 PROVE  \E j \in Closers : closer'[j] # "free" /\ job'[j] = a
      BY DEF OlderIsClosing
    <2>1. a \in OpenChats /\ b \in OpenChats
      BY <1>4 DEF OpenChats, Open
    <2>2. PICK j \in Closers : closer[j] # "free" /\ job[j] = a
      BY <1>1, <2>1 DEF OlderIsClosing
    <2>3. j # k
      <3>1. ASSUME j = k PROVE FALSE
        <4>1. row'[a] = "ended"
          BY <1>1, <1>3, <2>2, <3>1 DEF CloseSession, TypeOK
        <4> QED BY <4>1 DEF OpenChats, Open
      <3> QED BY <3>1
    <2> QED BY <1>2, <2>2, <2>3 DEF Summarizers
  <1> QED BY <1>5, <1>6, <1>7, <1>9, <1>10, <1>11, <1>12 DEF IInv

LEMMA CancelClosingKeeps ==
    ASSUME IInv, NEW t \in Turns, CancelClosing(t)
    PROVE  IInv'
  <1> USE SessionBounds, DistinctTasks DEF Sids, NoSid
  <1>1. TypeOK /\ TaskInv /\ JobInv /\ RequestInv /\ NumberInv /\ OlderIsClosing
    BY DEF IInv
  <1>2. t \in Summarizers /\ \A k \in Closers : k # t /\ k \in Summarizers
    BY DEF Summarizers
  <1>3. /\ RequestType'
        /\ asked' = asked \ {t}
        /\ \A i \in Summarizers \ {t} : job'[i] = job[i] /\ seen'[i] = seen[i]
        /\ \A j, i \in asked' : j # i => j \in ahead'[i] \/ i \in ahead'[j]
        /\ \A j, i \in asked' : job'[j] = job'[i] /\ j \in ahead'[i] => seen'[j] <= seen'[i]
    BY <1>1, <1>2, WithdrawKeeps DEF CancelClosing
  <1>4. TypeOK'
    BY <1>1, <1>3 DEF TypeOK, RequestType, CancelClosing, tables
  <1>5. TaskInv'
    BY <1>1, <1>2, <1>3 DEF TypeOK, TaskInv, CancelClosing
  <1>6. RequestInv'
    <2>1. \A i \in asked' : i \in asked /\ job'[i] = job[i] /\ seen'[i] = seen[i]
      BY <1>1, <1>3 DEF TypeOK
    <2> QED BY <1>1, <1>3, <2>1 DEF RequestInv, CancelClosing, tables
  <1>7. JobInv'
    BY <1>1 DEF TypeOK, JobInv, CancelClosing, Withdraw, tables
  <1>8. NumberInv' /\ OlderIsClosing'
    BY <1>1, <1>2, <1>3 DEF NumberInv, OlderIsClosing, OpenChats, Open, CancelClosing, tables
  <1> QED BY <1>4, <1>5, <1>6, <1>7, <1>8 DEF IInv

\* The end of the process leaves no request behind.
LEMMA ProcessEndsKeeps ==
    ASSUME IInv, ProcessEnds, UNCHANGED <<proactive, msgs>>,
           faults' \in 0..MaxFaults, faults' # 0 \/ MayExit,
           row' \in [Sids -> {"none", "open", "ended"}],
           covered' \in [Sids -> 0..MaxMsgs], stale' \subseteq Sids,
           \A s \in Sids : covered'[s] <= msgs[s],
           \A s \in Sids : row'[s] = "none" <=> row[s] = "none"
    PROVE  IInv'
  <1> USE SessionBounds DEF Sids, NoSid
  <1>1. TypeOK /\ NumberInv
    BY DEF IInv
  <1>2. TypeOK'
    BY <1>1 DEF TypeOK, ProcessEnds
  <1>3. TaskInv' /\ JobInv' /\ RequestInv'
    BY <1>1 DEF TaskInv, JobInv, RequestInv, ProcessEnds, Summarizers
  <1>4. NumberInv' /\ OlderIsClosing'
    BY <1>1 DEF NumberInv, OlderIsClosing
  <1> QED BY <1>2, <1>3, <1>4 DEF IInv

\* The summary a task waited for, or the LLM's error.
LEMMA SummaryKeeps ==
    ASSUME IInv, NEW k \in Summarizers, Summarized(k) \/ SummaryFails(k)
    PROVE  IInv' /\ \A s \in Sids : covered[s] <= covered'[s]
  <1> USE SessionBounds, DistinctTasks DEF Sids, NoSid
  <1>1. TypeOK /\ TaskInv /\ JobInv /\ RequestInv /\ NumberInv /\ OlderIsClosing
    BY DEF IInv
  <1>2. k \in asked /\ ahead[k] = {} /\ Continue(k) /\ UNCHANGED <<proactive, msgs>>
    BY DEF Summarized, SummaryFails, Served, tables
  <1>3. \/ UNCHANGED faults /\ CloseSession(job[k], seen[k])
        \/ faults < MaxFaults /\ faults' = faults + 1 /\ UNCHANGED <<row, covered, stale>>
    BY DEF Summarized, SummaryFails, tables
  <1>4. faults' \in 0..MaxFaults /\ (faults' = 0 => faults = 0)
    BY <1>1, <1>3 DEF TypeOK
  <1>5. CASE k # ExitHook
    <2>1. /\ Withdraw(k)
          /\ turn' = [t \in Turns |-> IF t = k THEN "running" ELSE turn[t]]
          /\ closer' = [j \in Closers |-> IF j = k THEN "free" ELSE closer[j]]
          /\ watcher' = (IF k = Watcher THEN "sleeping" ELSE watcher)
          /\ UNCHANGED <<tsid, dsid, daemon>>
      BY <1>2, <1>5 DEF Continue
    <2>2. /\ turn' \in [Turns -> {"idle", "running", "closing"}]
          /\ \A t \in Turns \ {k} : turn'[t] = turn[t]
          /\ tsid' \in [Turns -> Sids \cup {NoSid}]
          /\ watcher' \in {"sleeping", "closing", "off"} /\ (k # Watcher => watcher' = watcher)
      BY <1>1, <2>1 DEF TypeOK
    <2>3. \/ UNCHANGED <<row, covered, stale>> /\ (k \in Closers => faults' # 0)
          \/ CloseSession(job[k], seen[k]) /\ ahead[k] = {}
      BY <1>1, <1>2, <1>3 DEF TypeOK
    <2> QED BY <1>2, <1>4, <1>5, <2>1, <2>2, <2>3, WithdrawStep
  <1>6. CASE k = ExitHook
    <2>1. ProcessEnds /\ MayExit
      BY <1>1, <1>2, <1>6 DEF Continue, TaskInv
    <2>2. /\ job[k] \in Sids /\ seen[k] \in 0..MaxMsgs /\ row[job[k]] # "none"
          /\ covered[job[k]] <= seen[k] /\ seen[k] <= msgs[job[k]]
      BY <1>1, <1>2 DEF TypeOK, RequestInv, JobInv
    <2>3. /\ row' \in [Sids -> {"none", "open", "ended"}]
          /\ covered' \in [Sids -> 0..MaxMsgs]
          /\ stale' \subseteq Sids
      BY <1>1, <1>3, <2>2 DEF TypeOK, CloseSession
    <2>4. \A s \in Sids : /\ covered[s] <= covered'[s] /\ covered'[s] <= msgs[s]
                          /\ row'[s] = "none" <=> row[s] = "none"
      <3> TAKE s \in Sids
      <3>1. covered[s] <= msgs[s] /\ covered[s] \in Nat
        BY <1>1 DEF RequestInv, TypeOK
      <3>2. CASE s = job[k] /\ CloseSession(job[k], seen[k])
        BY <1>1, <2>2, <3>1, <3>2 DEF CloseSession, TypeOK
      <3>3. CASE s # job[k] /\ CloseSession(job[k], seen[k])
        BY <1>1, <2>2, <3>1, <3>3 DEF CloseSession, TypeOK
      <3>4. CASE UNCHANGED <<row, covered, stale>>
        BY <3>1, <3>4
      <3> QED BY <1>3, <3>2, <3>3, <3>4
    <2> QED BY <1>2, <1>4, <2>1, <2>3, <2>4, ProcessEndsKeeps
  <1> QED BY <1>5, <1>6

LEMMA FireKeeps ==
    ASSUME IInv, NEW d \in Drivers, Fire(d)
    PROVE  IInv'
  <1> USE SessionBounds DEF Sids, NoSid
  <1>1. TypeOK /\ TaskInv /\ JobInv /\ RequestInv /\ NumberInv /\ OlderIsClosing
    BY DEF IInv
  <1>2. PICK n \in Sids : /\ NextSid(n) /\ Write(n)
                          /\ proactive' = proactive \cup {n}
                          /\ dsid' = [dsid EXCEPT ![d] = n]
    BY DEF Fire
  <1>3. UNCHANGED <<covered, stale, job, seen, asked, ahead, turn, tsid, closer, watcher, daemon, faults>>
    BY DEF Fire, requests
  <1>4. TypeOK'
    BY <1>1, <1>2, <1>3, WriteFacts DEF TypeOK
  <1>5. RequestInv'
    BY <1>1, <1>2, <1>3, <1>4, WriteFacts, RequestsStay
  <1>6. TaskInv'
    BY <1>1, <1>3 DEF TaskInv
  <1>7. JobInv'
    <2>1. \A s \in Sids : row[s] # "none" => row'[s] # "none"
      BY <1>1, <1>2, WriteFacts
    <2>2. \A k \in Summarizers : job[k] # NoSid => job[k] \in Sids
      BY <1>1 DEF TypeOK
    <2> QED BY <1>1, <1>3, <2>1, <2>2 DEF JobInv
  <1>8. NumberInv'
    BY <1>1, <1>2, NumberKept
  <1>9. OlderIsClosing'
    <2>1. OpenChats' \subseteq OpenChats
      BY <1>1, <1>2, WriteFacts DEF OpenChats, Open
    <2> QED BY <1>1, <1>3, <2>1 DEF OlderIsClosing
  <1> QED BY <1>4, <1>5, <1>6, <1>7, <1>8, <1>9 DEF IInv

\* The watcher's request is withdrawn and the exit hook's goes behind the others.
LEMMA ShutdownKeeps ==
    ASSUME IInv, Shutdown
    PROVE  IInv'
  <1> USE SessionBounds, DistinctTasks DEF Sids, NoSid
  <1>1. TypeOK /\ TaskInv /\ JobInv /\ RequestInv /\ NumberInv
    BY DEF IInv
  <1>2. MayExit /\ daemon = "up" /\ UNCHANGED <<row, proactive, msgs, covered, stale, faults>>
    BY DEF Shutdown, tables
  <1>3. CASE ProcessEnds
    <2>1. /\ faults \in 0..MaxFaults /\ row \in [Sids -> {"none", "open", "ended"}]
          /\ covered \in [Sids -> 0..MaxMsgs] /\ stale \subseteq Sids
          /\ \A s \in Sids : covered[s] <= msgs[s]
      BY <1>1 DEF TypeOK, RequestInv
    <2> QED BY <1>2, <1>3, <2>1, ProcessEndsKeeps
  <1>4. CASE ~ProcessEnds
    <2>1. PICK s \in Sids :
          /\ OpenChat(s)
          /\ daemon' = "stopping" /\ watcher' = "off"
          /\ job' = [job EXCEPT ![Watcher] = NoSid, ![ExitHook] = s]
          /\ seen' = [seen EXCEPT ![Watcher] = 0, ![ExitHook] = msgs[s]]
          /\ asked' = (asked \ {Watcher}) \cup {ExitHook}
          /\ ahead' = [k \in Summarizers |-> IF k = ExitHook THEN asked \ {Watcher}
                                             ELSE IF k = Watcher THEN {}
                                             ELSE ahead[k] \ {Watcher}]
          /\ UNCHANGED <<turn, tsid, dsid, closer>>
      BY <1>4 DEF Shutdown
    <2>2. /\ ExitHook \in Summarizers /\ Watcher \in Summarizers /\ ExitHook \notin asked
          /\ \A k \in Closers : k \in Summarizers \ {Watcher, ExitHook}
      BY <1>1, <1>2 DEF TaskInv, Summarizers
    <2>3. /\ job'[ExitHook] = s /\ seen'[ExitHook] = msgs[s] /\ ahead'[ExitHook] = asked \ {Watcher}
          /\ job'[Watcher] = NoSid
          /\ \A k \in Summarizers \ {Watcher, ExitHook} :
                job'[k] = job[k] /\ seen'[k] = seen[k] /\ ahead'[k] = ahead[k] \ {Watcher}
      BY <1>1, <2>1, <2>2 DEF TypeOK
    <2>4. \A k \in asked' : k = ExitHook \/ k \in (asked \cap Summarizers) \ {Watcher, ExitHook}
      BY <1>1, <2>1, <2>2 DEF TypeOK
    <2>5. /\ job' \in [Summarizers -> Sids \cup {NoSid}]
          /\ seen' \in [Summarizers -> 0..MaxMsgs]
          /\ asked' \subseteq {k \in Summarizers : job'[k] # NoSid}
      <3>1. job' \in [Summarizers -> Sids \cup {NoSid}]
        BY <1>1, <2>1 DEF TypeOK
      <3>2. seen' \in [Summarizers -> 0..MaxMsgs]
        <4>1. msgs[s] \in 0..MaxMsgs /\ 0 \in 0..MaxMsgs
          BY <1>1 DEF TypeOK
        <4>2. seen \in [Summarizers -> 0..MaxMsgs]
          BY <1>1 DEF TypeOK
        <4> QED BY <2>1, <4>1, <4>2
      <3>3. \A k \in asked' : k \in Summarizers /\ job'[k] # NoSid
        BY <1>1, <2>2, <2>3, <2>4 DEF TypeOK
      <3> QED BY <3>1, <3>2, <3>3
    <2>6. ahead' \in [Summarizers -> SUBSET asked']
      BY <1>1, <2>1, <2>2 DEF TypeOK
    <2>7. TypeOK'
      BY <1>1, <1>2, <2>1, <2>5, <2>6 DEF TypeOK
    <2>8. TaskInv'
      BY <1>1, <1>2, <2>1, <2>2, <2>3, <2>4 DEF TaskInv
    <2>9. JobInv'
      <3>1. row[s] # "none"
        BY <2>1 DEF OpenChat, OpenChats, Open
      <3> QED BY <1>1, <1>2, <2>3, <3>1 DEF JobInv
    <2>10. RequestInv'
      <3>1. \A j, k \in asked' : j # k => j \in ahead'[k] \/ k \in ahead'[j]
        BY <1>1, <2>3, <2>4 DEF RequestInv
      <3>2. \A k \in asked : ahead[k] \subseteq asked /\ job[k] \in Sids
        BY <1>1 DEF TypeOK
      <3>3. \A j, k \in asked' : job'[j] = job'[k] /\ j \in ahead'[k] => seen'[j] <= seen'[k]
        <4> SUFFICES ASSUME NEW j \in asked', NEW k \in asked', job'[j] = job'[k], j \in ahead'[k]
                     PROVE  seen'[j] <= seen'[k]
          OBVIOUS
        <4>1. j \in asked \ {Watcher, ExitHook} /\ job'[j] = job[j] /\ seen'[j] = seen[j]
          BY <2>2, <2>3, <2>4, <3>2
        <4>2. CASE k = ExitHook
          <5>1. job[j] = s /\ seen[j] <= msgs[s]
            BY <1>1, <2>3, <4>1, <4>2 DEF RequestInv
          <5> QED BY <2>3, <4>1, <4>2, <5>1
        <4>3. CASE k # ExitHook
          <5>1. k \in asked /\ job'[k] = job[k] /\ seen'[k] = seen[k] /\ j \in ahead[k]
            BY <2>3, <2>4, <4>3
          <5> QED BY <1>1, <4>1, <5>1 DEF RequestInv
        <4> QED BY <4>2, <4>3
      <3>4. \A k \in asked' : covered'[job'[k]] <= seen'[k] /\ seen'[k] <= msgs'[job'[k]]
        <4> TAKE k \in asked'
        <4>1. CASE k = ExitHook
          <5>1. covered[s] <= msgs[s] /\ msgs[s] \in Nat
            BY <1>1 DEF RequestInv, TypeOK
          <5> QED BY <1>2, <2>3, <4>1, <5>1
        <4>2. CASE k # ExitHook
          <5>1. k \in asked /\ job'[k] = job[k] /\ seen'[k] = seen[k]
            BY <2>3, <2>4, <4>2
          <5> QED BY <1>1, <1>2, <5>1 DEF RequestInv
        <4> QED BY <4>1, <4>2
      <3> QED BY <1>1, <1>2, <3>1, <3>3, <3>4 DEF RequestInv
    <2>11. NumberInv' /\ OlderIsClosing'
      BY <1>1, <1>2 DEF NumberInv, OlderIsClosing
    <2> QED BY <2>7, <2>8, <2>9, <2>10, <2>11 DEF IInv
  <1> QED BY <1>3, <1>4

LEMMA DaemonKeeps ==
    ASSUME IInv, Kill \/ Restart \/ TimePasses
    PROVE  IInv'
  <1> USE SessionBounds DEF Sids, NoSid
  <1>1. TypeOK /\ TaskInv /\ JobInv /\ RequestInv /\ NumberInv /\ OlderIsClosing
    BY DEF IInv
  <1>2. CASE Kill
    <2>1. /\ row \in [Sids -> {"none", "open", "ended"}] /\ covered \in [Sids -> 0..MaxMsgs]
          /\ stale \subseteq Sids /\ \A s \in Sids : covered[s] <= msgs[s]
      BY <1>1 DEF TypeOK, RequestInv
    <2>2. faults' \in 0..MaxFaults /\ faults' # 0
      BY <1>1, <1>2 DEF TypeOK, Kill
    <2> QED BY <1>2, <2>1, <2>2, ProcessEndsKeeps DEF Kill, tables
  <1>3. CASE Restart
    <2>1. TypeOK'
      BY <1>1, <1>3 DEF TypeOK, Restart, Open, tables, requests
    <2>2. Watcher \notin asked /\ ExitHook \notin asked
      BY <1>1, <1>3 DEF TaskInv, Restart
    <2>3. TaskInv'
      BY <1>1, <1>3, <2>2 DEF TaskInv, Restart, tables, requests
    <2>4. JobInv' /\ RequestInv' /\ NumberInv' /\ OlderIsClosing'
      BY <1>1, <1>3 DEF JobInv, RequestInv, NumberInv, OlderIsClosing, OpenChats, Open, Restart,
                        tables, requests
    <2> QED BY <2>1, <2>3, <2>4 DEF IInv
  <1>4. CASE TimePasses
    <2>1. TypeOK'
      BY <1>1, <1>4 DEF TypeOK, TimePasses, Open, tables, requests, tasks
    <2>2. TaskInv' /\ JobInv' /\ RequestInv' /\ NumberInv' /\ OlderIsClosing'
      BY <1>1, <1>4 DEF TaskInv, JobInv, RequestInv, NumberInv, OlderIsClosing, OpenChats, Open,
                        TimePasses, tables, requests, tasks
    <2> QED BY <2>1, <2>2 DEF IInv
  <1> QED BY <1>2, <1>3, <1>4

\* Every step keeps the invariant, and no step takes back what a summary covers.
LEMMA NextKeeps ==
    ASSUME IInv, [Next]_vars
    PROVE  IInv' /\ \A s \in Sids : covered[s] <= covered'[s]
  <1> USE SessionBounds DEF Sids, NoSid
  <1>0. TypeOK /\ \A s \in Sids : covered[s] \in Nat
    <2>1. TypeOK
      BY DEF IInv
    <2>2. covered \in [Sids -> 0..MaxMsgs]
      BY <2>1 DEF TypeOK
    <2> QED BY <2>1, <2>2
  <1>1. ASSUME NEW t \in Turns, BeginTurn(t) \/ EndTurn(t) \/ CloseTool(t) \/ CancelClosing(t)
        PROVE  IInv' /\ UNCHANGED covered
    <2>1. UNCHANGED covered
      BY <1>1 DEF BeginTurn, EndTurn, CloseTool, CancelClosing, tables
    <2> QED BY <1>1, <2>1, BeginTurnKeeps, EndTurnKeeps, CloseToolKeeps, CancelClosingKeeps
  <1>2. ASSUME NEW t \in Turns, StoreReply(t)
        PROVE  IInv' /\ UNCHANGED covered
    <2>1. tsid[t] \in Sids \cup {NoSid} /\ dsid \in [Drivers -> Sids \cup {NoSid}]
      BY <1>0 DEF TypeOK
    <2> QED BY <1>2, <2>1, MessageStep DEF StoreReply, tasks
  <1>3. ASSUME NEW d \in Drivers, Fire(d) \/ FireEnds(d)
        PROVE  IInv' /\ UNCHANGED covered
    <2>1. dsid[d] \in Sids \cup {NoSid}
      BY <1>0 DEF TypeOK
    <2>2. CASE FireEnds(d)
      <3>1. dsid' \in [Drivers -> Sids \cup {NoSid}]
        BY <1>0, <2>2 DEF FireEnds, TypeOK
      <3> QED BY <2>1, <2>2, <3>1, MessageStep DEF FireEnds
    <2> QED BY <1>3, <2>2, FireKeeps DEF Fire
  <1>4. ASSUME WatcherPolls \/ Shutdown \/ Kill \/ Restart \/ TimePasses
        PROVE  IInv' /\ UNCHANGED covered
    <2>1. UNCHANGED covered
      BY <1>4 DEF WatcherPolls, Shutdown, Kill, Restart, TimePasses, tables
    <2> QED BY <1>4, <2>1, WatcherPollsKeeps, ShutdownKeeps, DaemonKeeps
  <1>5. ASSUME NEW k \in Closers, CloserBegins(k)
        PROVE  IInv' /\ UNCHANGED covered
    BY <1>5, CloserBeginsKeeps DEF CloserBegins, tables
  <1>6. CASE UNCHANGED vars
    <2>1. TypeOK'
      BY <1>0, <1>6 DEF TypeOK, vars, tables, requests, tasks
    <2>2. TaskInv' /\ JobInv' /\ RequestInv' /\ NumberInv' /\ OlderIsClosing'
      BY <1>6 DEF IInv, TaskInv, JobInv, RequestInv, NumberInv, OlderIsClosing, OpenChats, Open,
                  vars, tables, requests, tasks
    <2> QED BY <1>0, <1>6, <2>1, <2>2 DEF IInv, vars, tables
  <1> QED BY <1>0, <1>1, <1>2, <1>3, <1>4, <1>5, <1>6, SummaryKeeps DEF Next, Goes

LEMMA InitInv == Init => IInv
  BY SessionBounds DEF Init, IInv, TypeOK, TaskInv, JobInv, RequestInv, NumberInv, OlderIsClosing,
                       OpenChats, Open, Sids, NoSid, Summarizers

-----------------------------------------------------------------------------
(* The queue of requests. *)

\* Nobody waits for himself, and whoever is ahead of one who is ahead is ahead.
QueueInv ==
    /\ IsFiniteSet(asked)
    /\ \A k \in asked : k \notin ahead[k]
    /\ \A i, j, k \in asked : i \in ahead[j] /\ j \in ahead[k] => i \in ahead[k]

\* Some requests are withdrawn, and at most one, which is new, goes behind those left.
QueueMoves(gone, new) ==
    /\ new \cap asked = {} /\ \A j, k \in new : j = k
    /\ asked' = (asked \ gone) \cup new
    /\ \A k \in asked \ gone : ahead'[k] = ahead[k] \ gone
    /\ \A k \in new : ahead'[k] = asked \ gone

QueueStep == \E gone, new : QueueMoves(gone, new)

LEMMA AskMoves ==
    ASSUME TypeOK, NEW k \in Summarizers \ asked, NEW s, Ask(k, s)
    PROVE  QueueStep
  <1>1. QueueMoves({}, {k})
    BY DEF TypeOK, Ask, QueueMoves
  <1> QED BY <1>1 DEF QueueStep

LEMMA WithdrawMoves ==
    ASSUME TypeOK, NEW k, Withdraw(k)
    PROVE  QueueStep
  <1>1. QueueMoves({k}, {})
    BY DEF TypeOK, Withdraw, QueueMoves
  <1> QED BY <1>1 DEF QueueStep

LEMMA ProcessEndsMoves ==
    ASSUME ProcessEnds
    PROVE  QueueStep
  <1>1. QueueMoves(asked, {})
    BY DEF ProcessEnds, QueueMoves
  <1> QED BY <1>1 DEF QueueStep

LEMMA QueueStays ==
    ASSUME UNCHANGED <<asked, ahead>>
    PROVE  QueueStep
  <1>1. QueueMoves({}, {})
    BY DEF QueueMoves
  <1> QED BY <1>1 DEF QueueStep

\* That is all that any step does to the queue.
LEMMA NextMoves ==
    ASSUME IInv, [Next]_vars
    PROVE  QueueStep
  <1>0. TypeOK /\ TaskInv
    BY DEF IInv
  <1>1. ASSUME NEW t \in Turns, BeginTurn(t) \/ StoreReply(t) \/ EndTurn(t) PROVE QueueStep
    BY <1>1, QueueStays DEF BeginTurn, StoreReply, EndTurn, requests
  <1>2. ASSUME NEW t \in Turns, CloseTool(t) PROVE QueueStep
    <2>1. t \in Summarizers \ asked
      BY <1>0, <1>2 DEF TaskInv, CloseTool, Summarizers
    <2> QED BY <1>0, <1>2, <2>1, AskMoves DEF CloseTool
  <1>3. ASSUME NEW t \in Turns, CancelClosing(t) PROVE QueueStep
    BY <1>0, <1>3, WithdrawMoves DEF CancelClosing
  <1>4. ASSUME NEW k \in Closers, CloserBegins(k) PROVE QueueStep
    <2>1. k \in Summarizers \ asked
      BY <1>0, <1>4 DEF TaskInv, CloserBegins, Summarizers
    <2> QED BY <1>0, <1>4, <2>1, AskMoves DEF CloserBegins
  <1>5. ASSUME WatcherPolls PROVE QueueStep
    <2>1. Watcher \in Summarizers \ asked
      BY <1>0, <1>5 DEF TaskInv, WatcherPolls, Summarizers
    <2> QED BY <1>0, <1>5, <2>1, AskMoves DEF WatcherPolls
  <1>6. ASSUME NEW k \in Summarizers, Summarized(k) \/ SummaryFails(k) PROVE QueueStep
    BY <1>0, <1>6, WithdrawMoves, ProcessEndsMoves DEF Summarized, SummaryFails, Continue
  <1>7. ASSUME NEW d \in Drivers, Fire(d) \/ FireEnds(d) PROVE QueueStep
    BY <1>7, QueueStays DEF Fire, FireEnds, requests
  <1>8. ASSUME Kill PROVE QueueStep
    BY <1>8, ProcessEndsMoves DEF Kill
  <1>9. ASSUME Restart \/ TimePasses \/ UNCHANGED vars PROVE QueueStep
    BY <1>9, QueueStays DEF Restart, TimePasses, requests, vars
  <1>10. ASSUME Shutdown PROVE QueueStep
    <2>1. CASE ProcessEnds
      BY <2>1, ProcessEndsMoves
    <2>2. CASE ~ProcessEnds
      <3>1. /\ asked' = (asked \ {Watcher}) \cup {ExitHook}
            /\ ahead' = [k \in Summarizers |-> IF k = ExitHook THEN asked \ {Watcher}
                                               ELSE IF k = Watcher THEN {}
                                               ELSE ahead[k] \ {Watcher}]
        BY <1>10, <2>2 DEF Shutdown
      <3>2. ExitHook \in Summarizers \ asked /\ asked \subseteq Summarizers
        BY <1>0, <1>10 DEF TaskInv, Shutdown, Summarizers, TypeOK
      <3>3. QueueMoves({Watcher}, {ExitHook})
        BY <3>1, <3>2 DEF QueueMoves
      <3> QED BY <3>3 DEF QueueStep
    <2> QED BY <2>1, <2>2
  <1> QED BY <1>1, <1>2, <1>3, <1>4, <1>5, <1>6, <1>7, <1>8, <1>9, <1>10 DEF Next, Goes

LEMMA QueueInvNext ==
    ASSUME TypeOK, QueueInv, QueueStep
    PROVE  QueueInv'
  <1>1. PICK gone, new : QueueMoves(gone, new)
    BY DEF QueueStep
  <1>2. \A k \in asked : ahead[k] \subseteq asked
    BY DEF TypeOK
  <1>3. IsFiniteSet(asked')
    <2>1. IsFiniteSet(asked \ gone)
      BY FS_Subset DEF QueueInv
    <2>2. CASE new = {}
      BY <1>1, <2>1, <2>2 DEF QueueMoves
    <2>3. CASE new # {}
      <3>1. PICK x \in new : new = {x}
        BY <1>1, <2>3 DEF QueueMoves
      <3>2. asked' = (asked \ gone) \cup {x}
        BY <1>1, <3>1 DEF QueueMoves
      <3> QED BY <2>1, <3>2, FS_AddElement
    <2> QED BY <2>2, <2>3
  <1>4. \A k \in asked' : k \notin ahead'[k]
    BY <1>1 DEF QueueMoves, QueueInv
  <1>5. ASSUME NEW i \in asked', NEW j \in asked', NEW k \in asked',
               i \in ahead'[j], j \in ahead'[k]
        PROVE  i \in ahead'[k]
    <2>1. j \in asked \ gone
      BY <1>1, <1>2, <1>5 DEF QueueMoves
    <2>2. i \in asked \ gone /\ i \in ahead[j]
      BY <1>1, <1>2, <1>5, <2>1 DEF QueueMoves
    <2> QED BY <1>1, <1>5, <2>1, <2>2 DEF QueueMoves, QueueInv
  <1> QED BY <1>3, <1>4, <1>5 DEF QueueInv

\* The set of requests ahead of one is a strict subset of that of whoever it is ahead of.
LEMMA FirstIsServed ==
    ASSUME TypeOK, QueueInv, asked # {}
    PROVE  \E k \in Summarizers : Served(k)
  <1>1. \A k \in asked : ahead[k] \subseteq asked /\ k \in Summarizers
    BY DEF TypeOK
  <1> DEFINE T == {ahead[k] : k \in asked}
  <1>2. T \subseteq FiniteSubsetsOf(asked) /\ T # {}
    BY <1>1, FS_FiniteSubsetsOfFinite DEF QueueInv
  <1>3. PICK x \in T : \A y \in T : ~(<<y, x>> \in StrictSubsetOrdering(asked))
    <2> HIDE DEF T
    <2> QED BY <1>2, WFMin, FS_StrictSubsetOrderingWellFounded
  <1>4. PICK k \in asked : x = ahead[k]
    OBVIOUS
  <1>5. ASSUME NEW j \in ahead[k] PROVE FALSE
    <2>1. j \in asked /\ j \notin ahead[j]
      BY <1>1, <1>4 DEF QueueInv
    <2>2. ahead[j] \subseteq ahead[k]
      BY <1>1, <1>4, <2>1 DEF QueueInv
    <2>3. <<ahead[j], ahead[k]>> \in StrictSubsetOrdering(asked)
      BY <1>1, <1>4, <2>1, <2>2 DEF StrictSubsetOrdering
    <2> QED BY <1>3, <1>4, <2>1, <2>3
  <1> QED BY <1>1, <1>4, <1>5 DEF Served

-----------------------------------------------------------------------------
(* Theorems. *)

\* The invariant is inductive.
THEOREM Invariant == Spec => []IInv
  <1>1. IInv /\ [Next]_vars => IInv'
    BY NextKeeps
  <1> QED BY InitInv, <1>1, PTL DEF Spec

\* Sessions, requests and tasks keep their types; every queued request has a session.
THEOREM TypeCorrect == Spec => []TypeOK
  BY Invariant, PTL DEF IInv

\* SessionManager closes every chat it leaves behind: without a fault or a quit, every
\* open chat but the newest has a close task.
THEOREM OlderIsClosingHolds == Spec => []OlderIsClosing
  BY Invariant, PTL DEF IInv

\* However many tasks close one session at once, its stored summary never comes from
\* fewer of its messages than the one it replaces.
THEOREM CoverageGrowsHolds == Spec => CoverageGrows
  <1>1. IInv /\ [Next]_vars => [\A s \in Sids : covered[s] <= covered'[s]]_vars
    BY NextKeeps
  <1> QED BY Invariant, <1>1, PTL DEF Spec, CoverageGrows

\* The requests never wait for each other in a ring, nor for one that has been withdrawn:
\* while anyone waits for a summary, somebody's is being made, however turns are
\* cancelled and tasks end meanwhile (locked.py:32, session.py:110).
THEOREM SomeoneIsServed == Spec => [](asked # {} => \E k \in Summarizers : Served(k))
  <1>1. Init => QueueInv
    BY FS_EmptySet DEF Init, QueueInv
  <1>2. IInv /\ QueueInv /\ [Next]_vars => QueueInv'
    BY NextMoves, QueueInvNext DEF IInv
  <1>3. IInv /\ QueueInv => (asked # {} => \E k \in Summarizers : Served(k))
    BY FirstIsServed DEF IInv
  <1> QED BY Invariant, <1>1, <1>2, <1>3, PTL DEF Spec

\* Nobody is overtaken: what is ahead of a request only becomes less.  With SomeoneIsServed
\* this is the safety part of IdleIsClosed.
THEOREM NobodyIsOvertaken ==
    Spec => [][\A k \in asked \cap asked' : ahead'[k] \subseteq ahead[k]]_vars
  <1>1. ASSUME IInv, [Next]_vars, NEW k \in asked \cap asked'
        PROVE  ahead'[k] \subseteq ahead[k]
    <2>1. PICK gone, new : QueueMoves(gone, new)
      BY <1>1, NextMoves DEF QueueStep
    <2>2. k \in asked \ gone
      BY <2>1 DEF QueueMoves
    <2> QED BY <2>1, <2>2 DEF QueueMoves
  <1>2. IInv /\ [Next]_vars => [\A k \in asked \cap asked' : ahead'[k] \subseteq ahead[k]]_vars
    BY <1>1
  <1> QED BY Invariant, <1>2, PTL DEF Spec
=============================================================================
