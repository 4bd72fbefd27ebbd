-------------------------- MODULE SessionLifecycle --------------------------
(***************************************************************************)
(* Sessions: SessionManager (orchestrator/session.py) over the sessions    *)
(* and messages tables (memory/sessions.py), the turns that write to them  *)
(* (orchestrator/turn_loop.py), the session.close tool, the idle watcher,  *)
(* the proactive driver (scheduler/proactive.py), and the daemon's         *)
(* shutdown hook (factory.py), kills and restarts included.                *)
(*                                                                         *)
(* Every database call is synchronous: a step is what a task does between  *)
(* two awaits.  Closing a session reads its messages, awaits the LLM's     *)
(* summary and then writes, so anything may happen in between.  The LLM    *)
(* serves the summaries one at a time, in the order they were asked for    *)
(* (SerialLlm).                                                            *)
(***************************************************************************)
EXTENDS Naturals

CONSTANTS
    MaxSessions,   \* bound: sessions ever created; they are numbered in order
    MaxMsgs,       \* bound: messages of a session
    MaxFaults,     \* bound: failed summaries and kills
    Turns,         \* turn tasks
    Closers,       \* close tasks spawned by current_or_new_chat; slots are reused
    Drivers,       \* scheduled tasks that may fire
    Watcher,       \* the idle watcher
    ExitHook,      \* the shutdown hook
    MayExit        \* the user may quit the application

ASSUME SessionBounds == MaxSessions \in Nat /\ MaxMsgs \in Nat \ {0} /\ MaxFaults \in Nat
ASSUME DistinctTasks == /\ Turns \cap Closers = {} /\ Watcher # ExitHook
                        /\ {Watcher, ExitHook} \cap (Turns \cup Closers) = {}

Sids == 1..MaxSessions
NoSid == 0
Summarizers == Turns \cup Closers \cup {Watcher, ExitHook}

VARIABLES
    row,        \* each session: not created, open (ended_at NULL) or ended
    proactive,  \* the sessions of kind "proactive"; the others are chats
    msgs,       \* messages stored in each session
    covered,    \* how many of them its stored summary was made from
    stale,      \* sessions whose last activity is older than the idle timeout
    turn,       \* each turn task
    tsid,       \* the session a turn captured when it began
    dsid,       \* the session a proactive run captured
    job,        \* the session each task is closing
    seen,       \* how many messages it read
    asked,      \* tasks waiting for their summary
    ahead,      \* the requests the LLM serves before each of theirs
    closer,     \* spawned close tasks
    watcher,    \* the idle watcher
    daemon,     \* up, stopping (exit hook) or down
    faults      \* failed summaries and kills so far

tables   == <<row, proactive, msgs, covered>>
requests == <<job, seen, asked, ahead>>
tasks    == <<turn, tsid, dsid, closer, watcher, daemon>>
vars == <<tables, stale, requests, tasks, faults>>

TypeOK ==
    /\ row \in [Sids -> {"none", "open", "ended"}] /\ proactive \subseteq Sids
    /\ msgs \in [Sids -> 0..MaxMsgs] /\ covered \in [Sids -> 0..MaxMsgs]
    /\ stale \subseteq Sids
    /\ turn \in [Turns -> {"idle", "running", "closing"}]
    /\ tsid \in [Turns -> Sids \cup {NoSid}]
    /\ dsid \in [Drivers -> Sids \cup {NoSid}]
    /\ job \in [Summarizers -> Sids \cup {NoSid}]
    /\ seen \in [Summarizers -> 0..MaxMsgs]
    /\ asked \subseteq {k \in Summarizers : job[k] # NoSid}
    /\ ahead \in [Summarizers -> SUBSET asked]
    /\ closer \in [Closers -> {"free", "new", "closing"}]
    /\ watcher \in {"sleeping", "closing", "off"}
    /\ daemon \in {"up", "stopping", "down"}
    /\ faults \in 0..MaxFaults

Init ==
    /\ row = [s \in Sids |-> "none"] /\ proactive = {}
    /\ msgs = [s \in Sids |-> 0] /\ covered = [s \in Sids |-> 0]
    /\ stale = {}
    /\ turn = [t \in Turns |-> "idle"] /\ tsid = [t \in Turns |-> NoSid]
    /\ dsid = [d \in Drivers |-> NoSid]
    /\ job = [k \in Summarizers |-> NoSid] /\ seen = [k \in Summarizers |-> 0]
    /\ asked = {} /\ ahead = [k \in Summarizers |-> {}]
    /\ closer = [k \in Closers |-> "free"]
    /\ watcher = "sleeping" /\ daemon = "up" /\ faults = 0

-----------------------------------------------------------------------------
(* The repository. *)

Open == {s \in Sids : row[s] = "open"}
OpenChats == Open \ proactive

\* open_chat: the open chat that started last.
OpenChat(s) == s \in OpenChats /\ \A r \in OpenChats : r <= s

NextSid(s) == row[s] = "none" /\ \A r \in Sids : row[r] = "none" => s <= r

\* create (unless s is open already), then append_message.
Write(s) ==
    /\ msgs[s] < MaxMsgs
    /\ row' = [row EXCEPT ![s] = "open"]
    /\ msgs' = [msgs EXCEPT ![s] = @ + 1]

AppendMessage(s) ==
    /\ msgs[s] < MaxMsgs
    /\ msgs' = [msgs EXCEPT ![s] = @ + 1]

-----------------------------------------------------------------------------
(* _close_and_summarize. *)

\* Faulty: the latest request is served first.
AskLatestFirst(k, s) ==
    /\ job' = [job EXCEPT ![k] = s]
    /\ seen' = [seen EXCEPT ![k] = msgs[s]]
    /\ asked' = asked \cup {k}
    /\ ahead' = [j \in Summarizers |-> IF j \in asked THEN ahead[j] \cup {k} ELSE {}]

\* Up to its await: the messages are read and the LLM asked.  A chat has its
\* first user message from the start, so the summary is never skipped.
Ask(k, s) ==
    /\ job' = [job EXCEPT ![k] = s]
    /\ seen' = [seen EXCEPT ![k] = msgs[s]]
    /\ asked' = asked \cup {k}
    /\ ahead' = [ahead EXCEPT ![k] = asked]

\* Faulty: the request of a finished task keeps its place.
WithdrawForgetful(k) ==
    /\ job' = [job EXCEPT ![k] = NoSid]
    /\ seen' = [seen EXCEPT ![k] = 0]
    /\ UNCHANGED <<asked, ahead>>

\* The request is served, failed or cancelled.
Withdraw(k) ==
    /\ job' = [job EXCEPT ![k] = NoSid]
    /\ seen' = [seen EXCEPT ![k] = 0]
    /\ asked' = asked \ {k}
    /\ ahead' = [j \in Summarizers |-> IF j = k THEN {} ELSE ahead[j] \ {k}]

\* After its await: title, summary and ended_at are written.
CloseSession(s, n) ==
    /\ row' = [row EXCEPT ![s] = "ended"]
    /\ covered' = [covered EXCEPT ![s] = n]
    /\ stale' = stale \ {s}

-----------------------------------------------------------------------------
(* Turns. *)

StartIn(t, s) ==
    /\ Write(s)
    /\ stale' = stale \ {s}
    /\ turn' = [turn EXCEPT ![t] = "running"]
    /\ tsid' = [tsid EXCEPT ![t] = s]

\* Faulty: a stale chat is left behind.
BeginTurnForgets(t) ==
    /\ daemon # "down" /\ turn[t] = "idle"
    /\ \/ \E s \in Sids \ stale : OpenChat(s) /\ StartIn(t, s)
       \/ \E s \in stale, n \in Sids : OpenChat(s) /\ NextSid(n) /\ StartIn(t, n)
       \/ \E n \in Sids : OpenChats = {} /\ NextSid(n) /\ StartIn(t, n)
    /\ UNCHANGED <<proactive, covered, requests, dsid, closer, watcher, daemon, faults>>

\* current_or_new_chat, touch and the user's message.  A stale chat is left to a
\* task of its own.
BeginTurn(t) ==
    /\ daemon # "down" /\ turn[t] = "idle"
    /\ \/ \E s \in Sids \ stale : OpenChat(s) /\ StartIn(t, s) /\ UNCHANGED <<closer, job>>
       \/ \E s \in stale, n \in Sids, k \in Closers :
             /\ OpenChat(s) /\ NextSid(n) /\ closer[k] = "free"
             /\ closer' = [closer EXCEPT ![k] = "new"]
             /\ job' = [job EXCEPT ![k] = s]
             /\ StartIn(t, n)
       \/ \E n \in Sids : OpenChats = {} /\ NextSid(n) /\ StartIn(t, n)
                          /\ UNCHANGED <<closer, job>>
    /\ UNCHANGED <<proactive, covered, seen, asked, ahead, dsid, watcher, daemon, faults>>

\* A tool result or the assistant's reply is stored.
StoreReply(t) ==
    /\ turn[t] = "running"
    /\ AppendMessage(tsid[t])
    /\ UNCHANGED <<row, proactive, covered, stale, requests, tasks, faults>>

\* The turn is over, failed, or cancelled by barge-in outside the close tool.
EndTurn(t) ==
    /\ turn[t] = "running"
    /\ turn' = [turn EXCEPT ![t] = "idle"]
    /\ tsid' = [tsid EXCEPT ![t] = NoSid]
    /\ UNCHANGED <<tables, stale, requests, dsid, closer, watcher, daemon, faults>>

\* The session.close tool: close_current closes whatever chat is open now.
CloseTool(t) ==
    /\ turn[t] = "running"
    /\ \E s \in Sids : OpenChat(s) /\ Ask(t, s)
    /\ turn' = [turn EXCEPT ![t] = "closing"]
    /\ UNCHANGED <<tables, stale, tsid, dsid, closer, watcher, daemon, faults>>

\* Barge-in cancels the turn inside the tool.
CancelClosing(t) ==
    /\ turn[t] = "closing"
    /\ Withdraw(t)
    /\ turn' = [turn EXCEPT ![t] = "idle"]
    /\ tsid' = [tsid EXCEPT ![t] = NoSid]
    /\ UNCHANGED <<tables, stale, dsid, closer, watcher, daemon, faults>>

-----------------------------------------------------------------------------
(* Close tasks and the idle watcher. *)

CloserBegins(k) ==
    /\ closer[k] = "new"
    /\ closer' = [closer EXCEPT ![k] = "closing"]
    /\ Ask(k, job[k])
    /\ UNCHANGED <<tables, stale, turn, tsid, dsid, watcher, daemon, faults>>

\* A poll that finds the open chat idle.
WatcherPolls ==
    /\ watcher = "sleeping" /\ daemon # "down"
    /\ \E s \in stale : OpenChat(s) /\ Ask(Watcher, s)
    /\ watcher' = "closing"
    /\ UNCHANGED <<tables, stale, turn, tsid, dsid, closer, daemon, faults>>

\* The process ends, and every task with it.
ProcessEnds ==
    /\ daemon' = "down" /\ watcher' = "off"
    /\ turn' = [t \in Turns |-> "idle"] /\ tsid' = [t \in Turns |-> NoSid]
    /\ dsid' = [d \in Drivers |-> NoSid]
    /\ job' = [k \in Summarizers |-> NoSid] /\ seen' = [k \in Summarizers |-> 0]
    /\ asked' = {} /\ ahead' = [k \in Summarizers |-> {}]
    /\ closer' = [k \in Closers |-> "free"]

\* Task k goes on after _close_and_summarize, or after its exception.
Continue(k) ==
    IF k = ExitHook
    THEN ProcessEnds
    ELSE /\ Withdraw(k)
         /\ turn' = [t \in Turns |-> IF t = k THEN "running" ELSE turn[t]]
         /\ closer' = [j \in Closers |-> IF j = k THEN "free" ELSE closer[j]]
         /\ watcher' = IF k = Watcher THEN "sleeping" ELSE watcher
         /\ UNCHANGED <<tsid, dsid, daemon>>

Served(k) == k \in asked /\ ahead[k] = {}

\* The summary is complete.
Summarized(k) ==
    /\ Served(k)
    /\ CloseSession(job[k], seen[k])
    /\ Continue(k)
    /\ UNCHANGED <<proactive, msgs, faults>>

\* Faulty: an error ends the watcher.
SummaryFailsForGood(k) ==
    /\ faults < MaxFaults
    /\ Served(k)
    /\ faults' = faults + 1
    /\ IF k = Watcher
       THEN Withdraw(k) /\ watcher' = "off" /\ UNCHANGED <<turn, tsid, dsid, closer, daemon>>
       ELSE Continue(k)
    /\ UNCHANGED <<tables, stale>>

\* The LLM fails: a tool error, a log line, or an exception nobody retrieves.
SummaryFails(k) ==
    /\ faults < MaxFaults
    /\ Served(k)
    /\ faults' = faults + 1
    /\ Continue(k)
    /\ UNCHANGED <<tables, stale>>

-----------------------------------------------------------------------------
(* ProactiveDriver._fire_inner. *)

Fire(d) ==
    /\ daemon = "up" /\ dsid[d] = NoSid
    /\ \E n \in Sids : /\ NextSid(n) /\ Write(n)
                       /\ proactive' = proactive \cup {n}
                       /\ dsid' = [dsid EXCEPT ![d] = n]
    /\ UNCHANGED <<covered, stale, requests, turn, tsid, closer, watcher, daemon, faults>>

\* The reply is stored unless it is empty or fire caught an error.
FireEnds(d) ==
    /\ dsid[d] # NoSid
    /\ AppendMessage(dsid[d]) \/ UNCHANGED msgs
    /\ dsid' = [dsid EXCEPT ![d] = NoSid]
    /\ UNCHANGED <<row, proactive, covered, stale, requests, turn, tsid, closer, watcher, daemon, faults>>

-----------------------------------------------------------------------------
(* The daemon. *)

\* on_event("shutdown"): the watcher is cancelled wherever it is, then the open
\* chat is summarized, if there is one.
Shutdown ==
    /\ MayExit /\ daemon = "up"
    /\ \/ OpenChats = {} /\ ProcessEnds
       \/ \E s \in Sids :
          /\ OpenChat(s)
          /\ daemon' = "stopping" /\ watcher' = "off"
          /\ job' = [job EXCEPT ![Watcher] = NoSid, ![ExitHook] = s]
          /\ seen' = [seen EXCEPT ![Watcher] = 0, ![ExitHook] = msgs[s]]
          /\ asked' = (asked \ {Watcher}) \cup {ExitHook}
          /\ ahead' = [k \in Summarizers |-> IF k = ExitHook THEN asked \ {Watcher}
                                             ELSE IF k = Watcher THEN {}
                                             ELSE ahead[k] \ {Watcher}]
          /\ UNCHANGED <<turn, tsid, dsid, closer>>
    /\ UNCHANGED <<tables, stale, faults>>

\* The process is killed (Tauri's child.kill, a crash).
Kill ==
    /\ daemon # "down" /\ faults < MaxFaults
    /\ faults' = faults + 1
    /\ ProcessEnds
    /\ UNCHANGED <<tables, stale>>

\* A new process: _last_activity is empty, so a chat's age counts from its start.
Restart ==
    /\ daemon = "down"
    /\ daemon' = "up" /\ watcher' = "sleeping"
    /\ stale' = stale \/ stale' = Open
    /\ UNCHANGED <<tables, requests, turn, tsid, dsid, closer, faults>>

\* The idle timeout passes with no turn begun.
TimePasses ==
    /\ stale # Open
    /\ stale' = Open
    /\ UNCHANGED <<tables, requests, tasks, faults>>

-----------------------------------------------------------------------------
\* Everything but the user's quitting.
Goes ==
    \/ \E t \in Turns : \/ BeginTurn(t) \/ StoreReply(t) \/ EndTurn(t)
                        \/ CloseTool(t) \/ CancelClosing(t)
    \/ \E k \in Closers : CloserBegins(k)
    \/ WatcherPolls
    \/ \E k \in Summarizers : Summarized(k) \/ SummaryFails(k)
    \/ \E d \in Drivers : Fire(d) \/ FireEnds(d)
    \/ Kill \/ Restart \/ TimePasses

Next == Goes \/ Shutdown

Spec == Init /\ [][Next]_vars

\* The event loop runs every task, the watcher polls, the LLM answers or fails,
\* and the user stays.
FairSpec ==
    /\ Init /\ [][Goes]_vars
    /\ \A k \in Closers : WF_vars(CloserBegins(k))
    /\ \A k \in Summarizers : WF_vars(Summarized(k) \/ SummaryFails(k))
    /\ WF_vars(WatcherPolls)

-----------------------------------------------------------------------------
(* Properties. *)

\* The chat the next turn may join is the only one that is not on its way out: while
\* nothing has failed and the user has not quit, a task closes every older open
\* chat.
OlderIsClosing ==
    faults = 0 /\ ~MayExit =>
        \A s, r \in OpenChats :
            s < r => \E k \in Closers : closer[k] # "free" /\ job[k] = s

\* Closing a session twice never replaces its summary by one made from fewer of its
\* messages, although both closings read the messages before they wait for the LLM.
CoverageGrows == [][\A s \in Sids : covered[s] <= covered'[s]]_vars

\* An idle chat is closed, or the user is back in it, unless the daemon goes down or
\* an error has left the chat behind a newer one.
Abandoned(s) == s \in OpenChats \cap stale
IdleIsClosed ==
    \A s \in Sids : Abandoned(s) ~> \/ ~Abandoned(s) \/ daemon = "down"
                                    \/ faults > 0 /\ ~OpenChat(s)
=============================================================================
