---------------------------- MODULE DaemonStore ----------------------------
(***************************************************************************)
(* What the daemon keeps across restarts, beside the sessions themselves   *)
(* (SessionLifecycle): the rows of scheduled_tasks, from which             *)
(* CronScheduler (scheduler/cron.py) makes its jobs, and the full-text     *)
(* rows of the sessions' summaries (memory/sessions.py).                   *)
(*                                                                         *)
(* The database is in autocommit mode: a kill may fall between any two     *)
(* statements.  APScheduler is external: its jobs live in memory, and one  *)
(* job has one run at a time.                                              *)
(***************************************************************************)
EXTENDS SessionLifecycle

CONSTANT Parsable     \* the scheduled tasks whose cron expression is accepted
ASSUME ParsableAssumption == Parsable \subseteq Drivers

VARIABLES
    rows,      \* scheduled_tasks
    jobs,      \* the jobs of the running scheduler
    acked,     \* history: tasks the agent was told are registered
    indexed    \* how many messages the summary in sessions_fts was made from; 0: no row

cronVars  == <<rows, jobs, acked>>
storeVars == <<vars, cronVars, indexed>>

StoreTypeOK ==
    /\ TypeOK
    /\ rows \subseteq Drivers /\ jobs \subseteq Drivers /\ acked \subseteq Drivers
    /\ indexed \in [Sids -> 0..MaxMsgs]

StoreInit ==
    /\ Init
    /\ rows = {} /\ jobs = {} /\ acked = {}
    /\ indexed = [s \in Sids |-> 0]

-----------------------------------------------------------------------------
(* CronScheduler. *)

\* ScheduleRegisterTool, run by a turn: the row, then the expression is parsed, then the
\* job.  A stopped scheduler keeps the job for a start that does not come.
AddTask(t, d) ==
    /\ turn[t] = "running" /\ d \notin rows
    /\ rows' = rows \cup {d}
    /\ jobs' = IF d \in Parsable /\ daemon = "up" THEN jobs \cup {d} ELSE jobs
    /\ acked' = IF d \in Parsable THEN acked \cup {d} ELSE acked
    /\ UNCHANGED <<vars, indexed>>

\* A kill after the INSERT.
KillInAddTask(t, d) ==
    /\ turn[t] = "running" /\ d \notin rows
    /\ rows' = rows \cup {d} /\ jobs' = {}
    /\ Kill
    /\ UNCHANGED <<acked, indexed>>

\* Faulty: a row that cannot be registered ends the loop.
LoadUpToBad == IF rows \subseteq Parsable THEN rows ELSE {}

\* load_tasks: a row that cannot be registered is logged and skipped.
LoadTasks == rows \cap Parsable

-----------------------------------------------------------------------------
(* SessionRepository.close: the row, and its full-text row deleted and inserted. *)

CloseIndexed(k) ==
    /\ Summarized(k)
    /\ indexed' = [indexed EXCEPT ![job[k]] = seen[k]]
    /\ jobs' = IF daemon' = "up" THEN jobs ELSE {}
    /\ UNCHANGED <<rows, acked>>

\* Faulty: the full-text row is written first.
KillAfterIndex(k) ==
    /\ Served(k) /\ Kill
    /\ indexed' = [indexed EXCEPT ![job[k]] = seen[k]]
    /\ jobs' = {}
    /\ UNCHANGED <<rows, acked>>

\* A kill after the UPDATE, or after the DELETE.
KillInClose(k) ==
    /\ faults < MaxFaults /\ Served(k)
    /\ faults' = faults + 1
    /\ CloseSession(job[k], seen[k])
    /\ ProcessEnds
    /\ \/ UNCHANGED indexed
       \/ indexed' = [indexed EXCEPT ![job[k]] = 0]
    /\ jobs' = {}
    /\ UNCHANGED <<proactive, msgs, rows, acked>>

-----------------------------------------------------------------------------
\* A step of the sessions: the scheduler stops with the daemon, starts with it, and fires
\* what it has a job for.
Sessions ==
    /\ \/ \E t \in Turns : \/ BeginTurn(t) \/ StoreReply(t) \/ EndTurn(t)
                           \/ CloseTool(t) \/ CancelClosing(t)
       \/ \E k \in Closers : CloserBegins(k)
       \/ WatcherPolls
       \/ \E k \in Summarizers : SummaryFails(k)
       \/ \E d \in jobs : Fire(d)
       \/ \E d \in Drivers : FireEnds(d)
       \/ Shutdown \/ Kill \/ Restart \/ TimePasses
    /\ jobs' = IF daemon' # "up" THEN {} ELSE IF daemon = "down" THEN LoadTasks ELSE jobs
    /\ UNCHANGED <<rows, acked, indexed>>

StoreNext ==
    \/ Sessions
    \/ \E t \in Turns, d \in Drivers : AddTask(t, d) \/ KillInAddTask(t, d)
    \/ \E k \in Summarizers : CloseIndexed(k) \/ KillInClose(k)

StoreSpec == StoreInit /\ [][StoreNext]_storeVars

-----------------------------------------------------------------------------
(* Properties. *)

\* A task the agent was told is registered has its job whenever the daemon runs, whatever
\* else was rejected, and over kills and restarts (cron.py:36-54, 67-82).
RegisteredIsScheduled == daemon = "up" => acked \subseteq jobs

\* A search finds only sessions that have ended, under a summary that is not newer than
\* the stored one, also after a kill inside close (sessions.py:67-83).
IndexFollowsRow == \A s \in Sids : indexed[s] > 0 => row[s] = "ended" /\ indexed[s] <= covered[s]
=============================================================================
