---------------------------- MODULE StoreProofs ----------------------------
(***************************************************************************)
(* Proofs about DaemonStore for any number of turns, close tasks, tasks on *)
(* a schedule, sessions, messages and faults.  The invariant of            *)
(* SessionProofs holds here too, although a kill inside close is a step    *)
(* that SessionLifecycle does not have.                                    *)
(***************************************************************************)
EXTENDS DaemonStore, SessionProofs

\* What the agent was told is registered can be read back from the table.
AckedInv == acked \subseteq LoadTasks

StoreInv == IInv /\ StoreTypeOK /\ AckedInv /\ RegisteredIsScheduled /\ IndexFollowsRow

-----------------------------------------------------------------------------
(* What the steps of the sessions leave as it is. *)

\* No session reopens: only a new or an open one is written to.
LEMMA WriteLeavesEnded ==
    ASSUME NEW s \in Sids, row \in [Sids -> {"none", "open", "ended"}],
           NextSid(s) \/ OpenChat(s), Write(s)
    PROVE  \A r \in Sids : row[r] = "ended" => row'[r] = "ended"
  <1>1. row[s] # "ended"
    BY DEF NextSid, OpenChat, OpenChats, Open
  <1> QED BY <1>1 DEF Write

\* A session that has ended stays so, and a daemon that is stopping is not up again.
LEMMA SessionsFacts ==
    ASSUME IInv, jobs \subseteq Drivers, Sessions
    PROVE  /\ \A s \in Sids : row[s] = "ended" => row'[s] = "ended"
           /\ daemon' = "up" => daemon \in {"up", "down"}
  <1>1. row \in [Sids -> {"none", "open", "ended"}]
    BY DEF IInv, TypeOK
  <1>2. ASSUME NEW t \in Turns, BeginTurn(t)
        PROVE  /\ \A s \in Sids : row[s] = "ended" => row'[s] = "ended"
               /\ UNCHANGED daemon
    <2>1. PICK s \in Sids : (NextSid(s) \/ OpenChat(s)) /\ Write(s)
      BY <1>2 DEF BeginTurn, StartIn
    <2> QED BY <1>1, <1>2, <2>1, WriteLeavesEnded DEF BeginTurn
  <1>3. ASSUME NEW d \in Drivers, Fire(d)
        PROVE  /\ \A s \in Sids : row[s] = "ended" => row'[s] = "ended"
               /\ UNCHANGED daemon
    <2>1. PICK s \in Sids : NextSid(s) /\ Write(s)
      BY <1>3 DEF Fire
    <2> QED BY <1>1, <1>3, <2>1, WriteLeavesEnded DEF Fire
  <1>4. ASSUME NEW t \in Turns, StoreReply(t) \/ EndTurn(t) \/ CloseTool(t) \/ CancelClosing(t)
        PROVE  UNCHANGED <<row, daemon>>
    BY <1>4 DEF StoreReply, EndTurn, CloseTool, CancelClosing, tables, tasks
  <1>5. ASSUME NEW k \in Summarizers, SummaryFails(k)
        PROVE  UNCHANGED row /\ (daemon' = daemon \/ daemon' = "down")
    BY <1>5 DEF SummaryFails, Continue, ProcessEnds, tables
  <1>6. ASSUME NEW d \in Drivers, FireEnds(d)
        PROVE  UNCHANGED <<row, daemon>>
    BY <1>6 DEF FireEnds
  <1>7. ASSUME NEW k \in Closers, CloserBegins(k)
        PROVE  UNCHANGED <<row, daemon>>
    BY <1>7 DEF CloserBegins, tables
  <1>8. ASSUME WatcherPolls \/ TimePasses
        PROVE  UNCHANGED <<row, daemon>>
    BY <1>8 DEF WatcherPolls, TimePasses, tables, tasks
  <1>9. ASSUME Shutdown \/ Kill \/ Restart
        PROVE  UNCHANGED row /\ (daemon' = "up" => daemon = "down")
    BY <1>9 DEF Shutdown, Kill, Restart, ProcessEnds, tables
  <1>10. daemon \in {"up", "stopping", "down"}
    BY DEF IInv, TypeOK
  <1> QED BY <1>2, <1>3, <1>4, <1>5, <1>6, <1>7, <1>8, <1>9, <1>10 DEF Sessions

-----------------------------------------------------------------------------
(* Each step keeps the invariant. *)

\* A step of the sessions: what a session ended with stays searchable, and the
\* scheduler that starts loads every task the agent was told of.
LEMMA SessionsKeep ==
    ASSUME StoreInv, Sessions
    PROVE  StoreInv' /\ \A s \in Sids : covered[s] <= covered'[s]
  <1>1. IInv /\ StoreTypeOK /\ AckedInv /\ RegisteredIsScheduled /\ IndexFollowsRow
    BY DEF StoreInv
  <1>2. jobs \subseteq Drivers /\ UNCHANGED <<rows, acked, indexed>>
    BY <1>1 DEF StoreTypeOK, Sessions
  <1>3. IInv' /\ \A s \in Sids : covered[s] <= covered'[s]
    BY <1>1, <1>2, NextKeeps DEF Sessions, Next, Goes
  <1>4. jobs' = IF daemon' # "up" THEN {} ELSE IF daemon = "down" THEN LoadTasks ELSE jobs
    BY DEF Sessions
  <1>5. StoreTypeOK'
    BY <1>1, <1>2, <1>3, <1>4 DEF IInv, StoreTypeOK, LoadTasks
  <1>6. AckedInv'
    BY <1>1, <1>2 DEF AckedInv, LoadTasks
  <1>7. RegisteredIsScheduled'
    BY <1>1, <1>2, <1>4, SessionsFacts DEF RegisteredIsScheduled, AckedInv
  <1>8. IndexFollowsRow'
    <2> SUFFICES ASSUME NEW s \in Sids, indexed[s] > 0
                 PROVE  row'[s] = "ended" /\ indexed[s] <= covered'[s]
      BY <1>2 DEF IndexFollowsRow
    <2>1. row[s] = "ended" /\ indexed[s] <= covered[s]
      BY <1>1 DEF IndexFollowsRow
    <2>2. indexed[s] \in Nat /\ covered[s] \in Nat /\ covered'[s] \in Nat
      BY <1>1, <1>3, SessionBounds DEF StoreTypeOK, IInv, TypeOK, Sids
    <2> QED BY <1>1, <1>2, <1>3, <2>1, <2>2, SessionsFacts
  <1> QED BY <1>3, <1>5, <1>6, <1>7, <1>8 DEF StoreInv

\* What is true of any request that the LLM has served.
LEMMA RequestFacts ==
    ASSUME IInv, NEW k \in asked
    PROVE  /\ k \in Summarizers /\ job[k] \in Sids /\ seen[k] \in 0..MaxMsgs
           /\ covered[job[k]] <= seen[k] /\ seen[k] <= msgs[job[k]] /\ row[job[k]] # "none"
  BY SessionBounds DEF IInv, TypeOK, RequestInv, JobInv, NoSid, Sids

\* A close that writes the row and then perhaps the search index.
LEMMA ClosedIndex ==
    ASSUME StoreInv, NEW k \in asked, CloseSession(job[k], seen[k]), IInv',
           \/ indexed' = [indexed EXCEPT ![job[k]] = seen[k]]
           \/ indexed' = indexed
           \/ indexed' = [indexed EXCEPT ![job[k]] = 0]
    PROVE  indexed' \in [Sids -> 0..MaxMsgs] /\ IndexFollowsRow'
  <1>1. IInv /\ StoreTypeOK /\ IndexFollowsRow
    BY DEF StoreInv
  <1>2. job[k] \in Sids /\ seen[k] \in 0..MaxMsgs /\ covered[job[k]] <= seen[k]
    BY <1>1, RequestFacts
  <1>3. /\ row \in [Sids -> {"none", "open", "ended"}] /\ covered \in [Sids -> 0..MaxMsgs]
        /\ indexed \in [Sids -> 0..MaxMsgs] /\ 0 \in 0..MaxMsgs
    BY <1>1, SessionBounds DEF IInv, TypeOK, StoreTypeOK
  <1>4. indexed' \in [Sids -> 0..MaxMsgs]
    BY <1>2, <1>3
  <1>5. /\ row'[job[k]] = "ended" /\ covered'[job[k]] = seen[k]
        /\ \A s \in Sids \ {job[k]} : row'[s] = row[s] /\ covered'[s] = covered[s] /\ indexed'[s] = indexed[s]
        /\ indexed'[job[k]] \in {seen[k], indexed[job[k]], 0}
    BY <1>2, <1>3 DEF CloseSession
  <1>6. ASSUME NEW s \in Sids, indexed'[s] > 0
        PROVE  row'[s] = "ended" /\ indexed'[s] <= covered'[s]
    <2>1. CASE s # job[k]
      BY <1>1, <1>5, <1>6, <2>1 DEF IndexFollowsRow
    <2>2. CASE s = job[k]
      <3>1. indexed[s] > 0 => indexed[s] <= covered[s]
        BY <1>1 DEF IndexFollowsRow
      <3>2. indexed[s] \in Nat /\ covered[s] \in Nat /\ seen[k] \in Nat
        BY <1>2, <1>3, SessionBounds
      <3> QED BY <1>2, <1>5, <1>6, <2>2, <3>1, <3>2
    <2> QED BY <2>1, <2>2
  <1> QED BY <1>4, <1>6 DEF IndexFollowsRow

\* The summary is written and indexed.
LEMMA CloseIndexedKeeps ==
    ASSUME StoreInv, NEW k \in Summarizers, CloseIndexed(k)
    PROVE  StoreInv' /\ \A s \in Sids : covered[s] <= covered'[s]
  <1>1. IInv /\ StoreTypeOK /\ AckedInv /\ RegisteredIsScheduled
    BY DEF StoreInv
  <1>2. /\ Summarized(k) /\ k \in asked /\ CloseSession(job[k], seen[k])
        /\ daemon' = daemon \/ daemon' = "down"
        /\ UNCHANGED <<rows, acked>>
    BY DEF CloseIndexed, Summarized, Served, Continue, ProcessEnds
  <1>3. IInv' /\ \A s \in Sids : covered[s] <= covered'[s]
    BY <1>1, <1>2, SummaryKeeps
  <1>4. indexed' \in [Sids -> 0..MaxMsgs] /\ IndexFollowsRow'
    BY <1>2, <1>3, ClosedIndex DEF CloseIndexed
  <1>5. jobs' = IF daemon' = "up" THEN jobs ELSE {}
    BY DEF CloseIndexed
  <1>6. StoreTypeOK'
    BY <1>1, <1>2, <1>3, <1>4, <1>5 DEF StoreTypeOK, IInv
  <1>7. AckedInv' /\ RegisteredIsScheduled'
    BY <1>1, <1>2, <1>5 DEF AckedInv, RegisteredIsScheduled, LoadTasks
  <1> QED BY <1>3, <1>4, <1>6, <1>7 DEF StoreInv

\* The process is killed between the writes of close.
LEMMA KillInCloseKeeps ==
    ASSUME StoreInv, NEW k \in Summarizers, KillInClose(k)
    PROVE  StoreInv' /\ \A s \in Sids : covered[s] <= covered'[s]
  <1> USE SessionBounds DEF Sids, NoSid
  <1>1. IInv /\ StoreTypeOK /\ AckedInv /\ TypeOK
    BY DEF StoreInv, IInv
  <1>2. /\ k \in asked /\ CloseSession(job[k], seen[k]) /\ ProcessEnds
        /\ faults < MaxFaults /\ faults' = faults + 1
        /\ UNCHANGED <<proactive, msgs, rows, acked>> /\ jobs' = {}
    BY DEF KillInClose, Served
  <1>3. /\ job[k] \in Sids /\ seen[k] \in 0..MaxMsgs /\ row[job[k]] # "none"
        /\ covered[job[k]] <= seen[k] /\ seen[k] <= msgs[job[k]]
    BY <1>1, <1>2, RequestFacts
  <1>4. /\ row' \in [Sids -> {"none", "open", "ended"}]
        /\ covered' \in [Sids -> 0..MaxMsgs]
        /\ stale' \subseteq Sids
    BY <1>1, <1>2, <1>3 DEF TypeOK, CloseSession
  <1>5. \A s \in Sids : /\ covered[s] <= covered'[s] /\ covered'[s] <= msgs[s]
                        /\ row'[s] = "none" <=> row[s] = "none"
    <2> TAKE s \in Sids
    <2>1. covered[s] <= msgs[s] /\ covered[s] \in Nat
      BY <1>1 DEF IInv, RequestInv, TypeOK
    <2>2. CASE s = job[k]
      BY <1>1, <1>2, <1>3, <2>1, <2>2 DEF CloseSession, TypeOK
    <2>3. CASE s # job[k]
      BY <1>1, <1>2, <1>3, <2>1, <2>3 DEF CloseSession, TypeOK
    <2> QED BY <2>2, <2>3
  <1>6. faults' \in 0..MaxFaults /\ faults' # 0
    BY <1>1, <1>2 DEF TypeOK
  <1>7. IInv'
    BY <1>1, <1>2, <1>4, <1>5, <1>6, ProcessEndsKeeps
  <1>8. indexed' \in [Sids -> 0..MaxMsgs] /\ IndexFollowsRow'
    BY <1>2, <1>7, ClosedIndex DEF KillInClose
  <1>9. StoreTypeOK'
    BY <1>1, <1>2, <1>7, <1>8 DEF StoreTypeOK, IInv
  <1>10. AckedInv' /\ RegisteredIsScheduled'
    BY <1>1, <1>2 DEF AckedInv, RegisteredIsScheduled, LoadTasks, ProcessEnds
  <1> QED BY <1>5, <1>7, <1>8, <1>9, <1>10 DEF StoreInv

\* A task is registered, or its registration interrupted.
LEMMA AddTaskKeeps ==
    ASSUME StoreInv, NEW t \in Turns, NEW d \in Drivers, AddTask(t, d) \/ KillInAddTask(t, d)
    PROVE  StoreInv' /\ \A s \in Sids : covered[s] <= covered'[s]
  <1>1. IInv /\ StoreTypeOK /\ AckedInv /\ RegisteredIsScheduled /\ IndexFollowsRow
    BY DEF StoreInv
  <1>2. [Next]_vars /\ UNCHANGED <<row, covered, indexed>> /\ (daemon' = daemon \/ daemon' = "down")
    BY DEF AddTask, KillInAddTask, Kill, Next, Goes, ProcessEnds, vars, tables, tasks
  <1>3. IInv' /\ \A s \in Sids : covered[s] <= covered'[s]
    BY <1>1, <1>2, NextKeeps
  <1>4. StoreTypeOK'
    BY <1>1, <1>2, <1>3 DEF AddTask, KillInAddTask, StoreTypeOK, IInv
  <1>5. AckedInv'
    BY <1>1 DEF AckedInv, LoadTasks, AddTask, KillInAddTask
  <1>6. RegisteredIsScheduled'
    BY <1>1 DEF RegisteredIsScheduled, AddTask, KillInAddTask, Kill, ProcessEnds, vars, tasks
  <1>7. IndexFollowsRow'
    BY <1>1, <1>2 DEF IndexFollowsRow
  <1> QED BY <1>3, <1>4, <1>5, <1>6, <1>7 DEF StoreInv

LEMMA StoreNextKeeps ==
    ASSUME StoreInv, [StoreNext]_storeVars
    PROVE  StoreInv' /\ \A s \in Sids : covered[s] <= covered'[s]
  <1>1. CASE UNCHANGED storeVars
    <2>1. IInv /\ StoreTypeOK /\ AckedInv /\ RegisteredIsScheduled /\ IndexFollowsRow
      BY DEF StoreInv
    <2>2. UNCHANGED vars /\ UNCHANGED <<rows, jobs, acked, indexed>>
      BY <1>1 DEF storeVars, cronVars
    <2>3. UNCHANGED <<row, covered, daemon>>
      BY <2>2 DEF vars, tables, tasks
    <2>4. IInv' /\ \A s \in Sids : covered[s] <= covered'[s]
      BY <2>1, <2>2, NextKeeps
    <2> QED BY <2>1, <2>2, <2>3, <2>4 DEF StoreInv, StoreTypeOK, AckedInv, LoadTasks, IInv,
                                          RegisteredIsScheduled, IndexFollowsRow
  <1> QED BY <1>1, SessionsKeep, CloseIndexedKeeps, KillInCloseKeeps, AddTaskKeeps DEF StoreNext

LEMMA StoreInitInv == StoreInit => StoreInv
  BY InitInv, SessionBounds DEF StoreInit, StoreInv, StoreTypeOK, AckedInv, RegisteredIsScheduled,
                                IndexFollowsRow, IInv

-----------------------------------------------------------------------------
(* Theorems. *)

\* The invariant is inductive.
THEOREM StoreInvariant == StoreSpec => []StoreInv
  <1>1. StoreInv /\ [StoreNext]_storeVars => StoreInv'
    BY StoreNextKeeps
  <1> QED BY StoreInitInv, <1>1, PTL DEF StoreSpec

\* The stored tables, the scheduler's jobs and the tasks keep their types.
THEOREM StoreTypeCorrect == StoreSpec => []StoreTypeOK
  BY StoreInvariant, PTL DEF StoreInv

\* While the daemon runs, every task the agent was told of has its job.
THEOREM RegisteredIsScheduledHolds == StoreSpec => []RegisteredIsScheduled
  BY StoreInvariant, PTL DEF StoreInv

\* A search finds only ended sessions, under a summary that is not newer than the row's.
THEOREM IndexFollowsRowHolds == StoreSpec => []IndexFollowsRow
  BY StoreInvariant, PTL DEF StoreInv

\* Also when a close is cut short by a kill, or run twice, no stored summary is replaced
\* by one made from fewer messages.
THEOREM StoreCoverageGrows == StoreSpec => CoverageGrows
  <1>1. StoreInv /\ [StoreNext]_storeVars => [\A s \in Sids : covered[s] <= covered'[s]]_vars
    BY StoreNextKeeps
  <1> QED BY StoreInvariant, <1>1, PTL DEF StoreSpec, CoverageGrows

\* Nor do the kills between two statements, and the restarts after them, leave a task
\* waiting for a summary that nobody makes.
THEOREM StoreSomeoneIsServed ==
    StoreSpec => [](asked # {} => \E k \in Summarizers : Served(k))
  <1>1. StoreInit => QueueInv
    BY FS_EmptySet DEF StoreInit, Init, QueueInv
  <1>2. ASSUME StoreInv, [StoreNext]_storeVars PROVE QueueStep
    <2>1. IInv /\ jobs \subseteq Drivers
      BY <1>2 DEF StoreInv, StoreTypeOK
    <2>2. ASSUME NEW k \in Summarizers, KillInClose(k) PROVE QueueStep
      BY <2>2, ProcessEndsMoves DEF KillInClose
    <2>3. ASSUME ~(\E k \in Summarizers : KillInClose(k)) PROVE [Next]_vars
      BY <1>2, <2>1, <2>3 DEF StoreNext, Sessions, AddTask, KillInAddTask, CloseIndexed, Next, Goes,
                             storeVars
    <2> QED BY <2>1, <2>2, <2>3, NextMoves
  <1>3. StoreInv /\ QueueInv /\ [StoreNext]_storeVars => QueueInv'
    BY <1>2, QueueInvNext DEF StoreInv, IInv
  <1>4. StoreInv /\ QueueInv => (asked # {} => \E k \in Summarizers : Served(k))
    BY FirstIsServed DEF StoreInv, IInv
  <1> QED BY StoreInvariant, <1>1, <1>3, <1>4, PTL DEF StoreSpec
=============================================================================
