---------------------------- MODULE AppLifecycle ----------------------------
(***************************************************************************)
(* The processes of the application and how they come and go: the Tauri    *)
(* shell (src-tauri/src/lib.rs) spawns the daemon (__main__.py) and waits  *)
(* for its ready line; the daemon spawns llama-server                      *)
(* (llm/llama_server_process.py), waits for it to answer, prints the line  *)
(* and runs uvicorn; the page (bootstrap.ts, client.ts) asks the shell for *)
(* the port and connects once.                                             *)
(*                                                                         *)
(* uvicorn 0.44 (agent/uv.lock) is external: it catches SIGTERM and        *)
(* SIGINT, shuts down gracefully, restores the handlers and raises the     *)
(* signal again.  SIGTERM then ends the process at once; SIGINT becomes a  *)
(* KeyboardInterrupt, which uvicorn.run swallows.                          *)
(***************************************************************************)
CONSTANT MaySignal     \* SIGTERM or SIGINT (one of them, once) may be sent to the daemon
ASSUME SignalAssumption == MaySignal \in BOOLEAN

VARIABLES
    shell,     \* the shell: in setup, running, and how it ended
    ready,     \* the ready line is in the daemon's stdout pipe
    daemon,    \* where main() is, and how it ended
    signal,    \* the signal uvicorn has caught
    llama,     \* llama-server; stopping: it has got SIGTERM; external: not the daemon's
    page       \* the page's socket

vars == <<shell, ready, daemon, signal, llama, page>>

\* ended: main() returned or raised.  killed: by a signal.
Gone == {"ended", "killed"}

TypeOK ==
    /\ shell \in {"setup", "running", "failed", "exited", "crashed"}
    /\ ready \in BOOLEAN
    /\ daemon \in {"start", "wait", "build", "bind", "serve", "drain", "stop", "reap"} \cup Gone
    /\ signal \in {"none", "TERM", "INT"}
    /\ llama \in {"external", "none", "loading", "ready", "stopping", "gone"}
    /\ (daemon = "reap" => llama \in {"stopping", "gone"})
    /\ page \in {"loading", "connecting", "open", "closed"}

Init == /\ shell = "setup" /\ ready = FALSE
        /\ daemon = "start" /\ signal = "none"
        /\ llama \in {"external", "none"}
        /\ page = "loading"

Goto(from, to) == daemon = from /\ daemon' = to

-----------------------------------------------------------------------------
(* The daemon. *)

\* Arguments and environment; then llama-server is spawned, or not.
Start ==
    /\ \/ llama = "external" /\ Goto("start", "build") /\ UNCHANGED llama
       \/ llama = "none" /\ Goto("start", "wait") /\ llama' = "loading"
    /\ UNCHANGED <<shell, ready, signal, page>>

\* The environment is incomplete, or the binary cannot be run.
StartFails ==
    /\ Goto("start", "ended")
    /\ UNCHANGED <<shell, ready, signal, llama, page>>

\* Faulty: the line is printed before llama-server has answered.
AnsweredEarly ==
    /\ llama # "gone" /\ Goto("wait", "build")
    /\ UNCHANGED <<shell, ready, signal, llama, page>>

\* _wait_ready, outside the try: it answered; it died; two minutes are over.
Answered ==
    /\ llama = "ready" /\ Goto("wait", "build")
    /\ UNCHANGED <<shell, ready, signal, llama, page>>

FoundDead ==
    /\ llama = "gone" /\ Goto("wait", "ended")
    /\ UNCHANGED <<shell, ready, signal, llama, page>>

\* Faulty: the time is over and the wait goes on.
WaitOn ==
    /\ Goto("wait", "wait")
    /\ UNCHANGED <<shell, ready, signal, llama, page>>

\* Faulty: the time is over and llama-server is left to itself.
GiveUpWaitingOnly ==
    /\ Goto("wait", "ended")
    /\ UNCHANGED <<shell, ready, signal, llama, page>>

\* The deadline passes between two tests, whatever llama-server does by then.
GiveUpWaiting ==
    /\ Goto("wait", "stop")
    /\ UNCHANGED <<shell, ready, signal, llama, page>>

\* build_app and the ready line, inside the try.
BuildFails ==
    /\ Goto("build", "stop")
    /\ UNCHANGED <<shell, ready, signal, llama, page>>

\* The line is printed; into a pipe nobody reads any more this raises.
Announce ==
    /\ Goto("build", IF shell = "setup" THEN "bind" ELSE "stop")
    /\ ready' = (shell = "setup")
    /\ UNCHANGED <<shell, signal, llama, page>>

\* A caught signal is raised again.
Reraised == IF signal = "TERM" THEN "killed" ELSE "stop"

\* uvicorn's startup: the hooks and the port, which was free when it was picked.
Bind ==
    /\ Goto("bind", IF signal = "none" THEN "serve" ELSE Reraised)
    /\ UNCHANGED <<shell, ready, signal, llama, page>>

BindFails ==
    /\ Goto("bind", "stop")
    /\ UNCHANGED <<shell, ready, signal, llama, page>>

\* The signal: caught once uvicorn has installed its handlers.  Before that SIGTERM
\* kills, and SIGINT raises, in the try from the second half on.
Signal(s) ==
    /\ MaySignal /\ signal = "none"
    /\ signal' = s
    /\ \/ daemon = "bind" /\ UNCHANGED daemon
       \/ Goto("serve", "drain")
       \/ \E d \in {"start", "wait", "build", "stop", "reap"} :
             Goto(d, IF s = "TERM" THEN "killed" ELSE IF d = "build" THEN "stop" ELSE "ended")
    /\ UNCHANGED <<shell, ready, llama, page>>

\* The sockets are closed, the handlers have ended, the shutdown hooks have run
\* (close_current and its summary).  Nothing limits that: uvicorn waits for the handlers
\* without a timeout, and they and the summary for llama-server (read=None).
Drained ==
    /\ Goto("drain", Reraised)
    /\ page' = IF page = "open" THEN "closed" ELSE page
    /\ UNCHANGED <<shell, ready, signal, llama>>

\* Faulty: stop waits without having sent SIGTERM.
TerminateUnsent ==
    /\ Goto("stop", IF llama = "external" THEN "ended" ELSE "reap")
    /\ UNCHANGED <<shell, ready, signal, llama, page>>

\* LlamaServerProcess.stop: SIGTERM, five seconds, SIGKILL.
Terminate ==
    /\ \/ llama = "external" /\ Goto("stop", "ended") /\ UNCHANGED llama
       \/ /\ llama # "external" /\ Goto("stop", "reap")
          /\ llama' = IF llama = "gone" THEN llama ELSE "stopping"
    /\ UNCHANGED <<shell, ready, signal, page>>

\* Faulty: nothing follows the SIGTERM after five seconds.
ReapPatiently ==
    /\ llama = "gone" /\ Goto("reap", "ended")
    /\ UNCHANGED <<shell, ready, signal, llama, page>>

Reap ==
    /\ Goto("reap", "ended")
    /\ llama' = "gone"
    /\ UNCHANGED <<shell, ready, signal, page>>

-----------------------------------------------------------------------------
(* llama-server. *)

LlamaAnswers ==
    /\ llama = "loading" /\ llama' = "ready"
    /\ UNCHANGED <<shell, ready, daemon, signal, page>>

LlamaEnds ==
    /\ llama \in {"loading", "ready", "stopping"} /\ llama' = "gone"
    /\ UNCHANGED <<shell, ready, daemon, signal, page>>

-----------------------------------------------------------------------------
(* The shell. *)

\* read_line: the ready line, or the end of the daemon's output.
ReadLine ==
    /\ shell = "setup" /\ ready
    /\ shell' = "running"
    /\ UNCHANGED <<ready, daemon, signal, llama, page>>

ReadEof ==
    /\ shell = "setup" /\ ~ready /\ daemon \in Gone
    /\ shell' = "failed"
    /\ UNCHANGED <<ready, daemon, signal, llama, page>>

\* RunEvent::Exit: Child::kill, which is SIGKILL, and wait.
Exit ==
    /\ shell = "running"
    /\ shell' = "exited" /\ page' = "closed"
    /\ daemon' = IF daemon \in Gone THEN daemon ELSE "killed"
    /\ UNCHANGED <<ready, signal, llama>>

\* The shell is killed itself.
ShellDies ==
    /\ shell \in {"setup", "running"}
    /\ shell' = "crashed" /\ page' = "closed"
    /\ UNCHANGED <<ready, daemon, signal, llama>>

-----------------------------------------------------------------------------
(* The page. *)

\* daemon_info, and one attempt to connect.
AskPort ==
    /\ page = "loading" /\ shell = "running"
    /\ page' = "connecting"
    /\ UNCHANGED <<shell, ready, daemon, signal, llama>>

Connect ==
    /\ page = "connecting"
    /\ page' = (IF daemon = "serve" THEN "open" ELSE "closed")
    /\ UNCHANGED <<shell, ready, daemon, signal, llama>>

SocketDrops ==
    /\ page = "open" /\ daemon # "serve"
    /\ page' = "closed"
    /\ UNCHANGED <<shell, ready, daemon, signal, llama>>

Reload ==
    /\ shell = "running" /\ page # "loading"
    /\ page' = "loading"
    /\ UNCHANGED <<shell, ready, daemon, signal, llama>>

-----------------------------------------------------------------------------
Waiting == Answered \/ FoundDead \/ GiveUpWaiting

\* The steps that wait for nobody, or not for ever.
TimelyStep == \/ Start \/ StartFails \/ Waiting \/ Announce \/ BuildFails
              \/ Bind \/ BindFails \/ Terminate \/ Reap

DaemonStep == TimelyStep \/ Drained

Next == \/ DaemonStep \/ Signal("TERM") \/ Signal("INT")
        \/ LlamaAnswers \/ LlamaEnds
        \/ ReadLine \/ ReadEof \/ Exit \/ ShellDies
        \/ AskPort \/ Connect \/ SocketDrops \/ Reload

Spec == Init /\ [][Next]_vars

\* What the daemon does in the end whatever llama-server does: it drains only when a dead
\* llama-server makes every call fail.
OwedStep == TimelyStep \/ (llama = "gone" /\ Drained)

\* Processes run; the wait for llama-server and the wait in stop are bounded.
FairSpec == Spec /\ WF_vars(OwedStep) /\ WF_vars(ReadLine) /\ WF_vars(ReadEof)

-----------------------------------------------------------------------------
(* Properties. *)

\* The ready line, and with it the port, is handed out only once llama-server has
\* answered (llama_server_process.py:82-106, __main__.py:104-119).
ReadyMeansAnswered == ready => llama \notin {"none", "loading"}

\* A daemon that ends by itself, whatever failed on its way, leaves no llama-server
\* behind (__main__.py:13-14, 128-130); a SIGINT before the try excepted.
EndsWithModel ==
    daemon = "ended" /\ signal = "none" => llama \in {"external", "none", "gone"}

\* The shell's setup, which blocks on the daemon's first line, comes to an end
\* (lib.rs:86): every way to fail before the line ends the daemon.
SetupEnds == shell = "setup" ~> shell # "setup"

\* A daemon that stops its llama-server is gone in the end, also if that ignores SIGTERM
\* (llama_server_process.py:112-124); so is one that drains once llama-server is dead.  A
\* llama-server that lives and does not answer may hold up the drain for ever.
ShutdownEnds ==
    daemon \in {"stop", "reap"} \/ (daemon = "drain" /\ llama = "gone") ~> daemon \in Gone

\* __main__.py:13, "on shutdown it kills the llama-server child (if any)": when the
\* user has quit the application, llama-server ends.
ModelEndsWithApp == shell = "exited" ~> llama \in {"external", "gone"}
=============================================================================
