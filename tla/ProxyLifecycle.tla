--------------------------- MODULE ProxyLifecycle ---------------------------
(***************************************************************************)
(* Start and Stop of the proxy from the desktop UI (src/src/bin/ui.rs) and *)
(* the tasks that ProxyServer::run starts and ends (proxy_server.rs).      *)
(*                                                                         *)
(* Three kinds of actors share UiState behind one std::sync::Mutex: the    *)
(* frame thread (buttons), the background thread (commands), and tasks and *)
(* worker threads.  A critical section is one step.  The exception is a    *)
(* section that calls push_log while it still has the guard: push_log      *)
(* locks the same mutex, which is not reentrant, so the thread stays in    *)
(* it; `stuck` is the set of threads that hold the lock in this way.       *)
(*                                                                         *)
(* A task of a proxy is <<generation, name>>.  tokio: abort() only asks;   *)
(* the task ends later.  Dropping a JoinHandle detaches the task, dropping *)
(* a JoinSet aborts its members.                                           *)
(***************************************************************************)
EXTENDS Naturals, Sequences, FiniteSets, SequencesExt

CONSTANTS MaxStarts,   \* bound on Start commands
          MaxQueue,    \* bound on queued commands
          FullMode,    \* TRUE: mode = full, a TunnelMux is started
          Listeners,   \* the accept loops: http, socks
          Periodic     \* the periodic tasks of run(): save, stats, keepalive, refill

VARIABLES cmds,        \* the mpsc channel from the frame thread
          bg,          \* background thread: "idle" or waiting in "stopping"
          active,      \* background thread: the handle of a proxy task is held
          gen,         \* number of Start commands that were carried out
          ptask,       \* the proxy task: "none", "mitm", "bind", "serve", "tail", "ended"
          shutdown,    \* shutdown_tx has been used
          running, proxyActive, certOp, dlBusy,   \* UiState
          worker,      \* certificate worker: "none", "install", "remove"
          download,    \* a download is under way
          stuck,
          live,        \* tasks of proxies that have not ended
          aborted,     \* tasks that have been asked to end
          graceful     \* generations whose run() returned on the shutdown signal

uivars == <<cmds, bg, active, gen, ptask, shutdown, running, proxyActive, certOp, dlBusy,
            worker, download, stuck, live, aborted, graceful>>
uiFlags == <<running, proxyActive, certOp, dlBusy>>
uiTasks == <<live, aborted, graceful>>
uiSide == <<certOp, dlBusy, worker, download, stuck>>

Cmds == {"Start", "Stop", "InstallCa", "RemoveCa", "DownloadUpdate"}
Loops == Periodic \union Listeners
ClientOf(l) == IF l = "http" THEN "httpclient" ELSE "socksclient"
ClientTasks == {ClientOf(l) : l \in Listeners}
TaskNames == Loops \union ClientTasks \union {"warm", "mux", "udp"}

UiTypeOK ==
  /\ cmds \in SeqOf(Cmds, MaxQueue) /\ bg \in {"idle", "stopping"}
  /\ {active, shutdown, running, proxyActive, certOp, dlBusy, download} \subseteq BOOLEAN
  /\ gen \in 0..MaxStarts /\ ptask \in {"none", "mitm", "bind", "serve", "tail", "ended"}
  /\ worker \in {"none", "install", "remove"} /\ stuck \subseteq {"bg", "download"}
  /\ live \subseteq (1..MaxStarts) \X TaskNames /\ aborted \subseteq live
  /\ graceful \subseteq 1..MaxStarts

UiInit ==
  /\ cmds = <<>> /\ bg = "idle" /\ active = FALSE /\ gen = 0 /\ ptask = "none" /\ shutdown = FALSE
  /\ running = FALSE /\ proxyActive = FALSE /\ certOp = FALSE /\ dlBusy = FALSE
  /\ worker = "none" /\ download = FALSE /\ stuck = {}
  /\ live = {} /\ aborted = {} /\ graceful = {}

LockFree == stuck = {}
Alive(g, n) == <<g, n>> \in live

-----------------------------------------------------------------------------
(* Frame thread: a button is there or enabled by the UiState the frame read *)

ButtonShown(c) ==
  CASE c = "Start" -> ~running
    [] c = "Stop" -> running
    [] c = "InstallCa" -> ~certOp
    [] c = "RemoveCa" -> ~proxyActive /\ ~running /\ ~certOp
    [] c = "DownloadUpdate" -> ~dlBusy

Click(c) ==
  /\ LockFree /\ Len(cmds) < MaxQueue /\ ButtonShown(c)
  /\ cmds' = Append(cmds, c)
  /\ UNCHANGED <<bg, active, gen, ptask, shutdown, uiFlags, worker, download, stuck, uiTasks>>

-----------------------------------------------------------------------------
(* Background thread *)

NextCommand(c) == bg = "idle" /\ LockFree /\ cmds # <<>> /\ Head(cmds) = c /\ cmds' = Tail(cmds)

CmdStart ==
  /\ NextCommand("Start")
  /\ IF active \/ gen = MaxStarts
       THEN UNCHANGED <<active, gen, ptask, shutdown, proxyActive>>
       ELSE /\ active' = TRUE /\ gen' = gen + 1 /\ ptask' = "mitm" /\ shutdown' = FALSE
            /\ proxyActive' = TRUE
  /\ UNCHANGED <<bg, running, uiSide, uiTasks>>

\* The handler takes the handle out, sends the signal and blocks on the task.
CmdStop ==
  /\ NextCommand("Stop")
  /\ IF active THEN active' = FALSE /\ shutdown' = TRUE /\ bg' = "stopping"
               ELSE UNCHANGED <<active, shutdown, bg>>
  /\ UNCHANGED <<gen, ptask, uiFlags, worker, download, stuck, uiTasks>>

StopReturns == bg' = "idle" /\ running' = FALSE /\ proxyActive' = FALSE

\* The task ended within the two seconds.
StopGraceful ==
  /\ bg = "stopping" /\ LockFree /\ ptask = "ended" /\ StopReturns
  /\ UNCHANGED <<cmds, active, gen, ptask, shutdown, uiSide, uiTasks>>

StopForcedNoWait ==
  /\ bg = "stopping" /\ LockFree /\ ptask # "ended" /\ StopReturns
  /\ UNCHANGED <<cmds, active, gen, ptask, shutdown, uiSide, uiTasks>>

\* abort() and then the join: the task is dropped at an await.  What run() has
\* spawned is detached, because only its JoinHandles are dropped.
StopForced ==
  /\ bg = "stopping" /\ LockFree /\ ptask # "ended" /\ StopReturns
  /\ ptask' = "ended"
  /\ UNCHANGED <<cmds, active, gen, shutdown, uiSide, uiTasks>>

\* Install and Remove share cert_op_in_progress.  The refusal is logged inside
\* the block that has the guard.
CertCommand(c, w) ==
  /\ NextCommand(c)
  /\ IF certOp THEN stuck' = {"bg"} /\ UNCHANGED <<certOp, worker>>
               ELSE certOp' = TRUE /\ worker' = w /\ UNCHANGED stuck
  /\ UNCHANGED <<bg, active, gen, ptask, shutdown, running, proxyActive, dlBusy, download, uiTasks>>

CmdInstallCa == CertCommand("InstallCa", "install")

CmdRemoveCa ==
  \/ ~active /\ CertCommand("RemoveCa", "remove")
  \/ /\ active /\ NextCommand("RemoveCa")
     /\ UNCHANGED <<bg, active, gen, ptask, shutdown, uiFlags, worker, download, stuck, uiTasks>>

CmdDownload ==
  /\ NextCommand("DownloadUpdate") /\ dlBusy' = TRUE /\ download' = TRUE
  /\ UNCHANGED <<bg, active, gen, ptask, shutdown, running, proxyActive, certOp, worker, stuck, uiTasks>>

\* After every command and every 250 ms: a finished task is forgotten.
CleanUp ==
  /\ bg = "idle" /\ LockFree /\ active /\ ptask = "ended"
  /\ active' = FALSE /\ running' = FALSE
  /\ UNCHANGED <<cmds, bg, gen, ptask, shutdown, proxyActive, uiSide, uiTasks>>

-----------------------------------------------------------------------------
(* Worker threads *)

CertDone ==
  /\ worker # "none" /\ LockFree /\ worker' = "none" /\ certOp' = FALSE
  /\ UNCHANGED <<cmds, bg, active, gen, ptask, shutdown, running, proxyActive, dlBusy, download,
                 stuck, uiTasks>>

\* The result is logged while `st` is still the guard of the state.
DownloadDone ==
  /\ download /\ LockFree /\ download' = FALSE /\ dlBusy' = FALSE /\ stuck' = {"download"}
  /\ UNCHANGED <<cmds, bg, active, gen, ptask, shutdown, running, proxyActive, certOp, worker, uiTasks>>

-----------------------------------------------------------------------------
(* The proxy task *)

TaskStep(from) ==
  /\ ptask = from /\ LockFree
  /\ UNCHANGED <<cmds, bg, active, gen, shutdown, certOp, dlBusy, worker, download, stuck>>

\* MitmCertManager::new_in and ProxyServer::new; either may fail.
TaskBuild ==
  /\ TaskStep("mitm")
  /\ \/ ptask' = "bind" /\ running' = TRUE /\ UNCHANGED proxyActive
     \/ ptask' = "ended" /\ running' = FALSE /\ proxyActive' = FALSE
  /\ UNCHANGED uiTasks

TaskFails ==
  /\ ptask' = "ended" /\ running' = FALSE /\ proxyActive' = FALSE /\ UNCHANGED <<aborted, graceful>>

\* TunnelMux::start comes before the listeners are bound.
MuxTask == IF FullMode THEN {<<gen, "mux">>} ELSE {}

\* The ports are taken as long as an accept loop of an earlier proxy is alive.
PortsFree == \A g \in 1..MaxStarts, l \in Listeners : ~Alive(g, l)

TaskBind ==
  /\ TaskStep("bind")
  /\ \/ /\ PortsFree /\ ptask' = "serve"
        /\ live' = live \union ({gen} \X (Loops \union {"warm"})) \union MuxTask
        /\ UNCHANGED <<running, proxyActive, aborted, graceful>>
     \/ TaskFails /\ live' = live \union MuxTask

AbortsAllButPeriodic == Loops \ Periodic

\* The shutdown arm of select! in run().  Its other two arms wait for an accept loop
\* that ends, which it does only by a panic.
AbortedByStop == Loops

TaskShutdown ==
  /\ TaskStep("serve") /\ shutdown /\ ptask' = "tail"
  /\ aborted' = aborted \union (live \intersect ({gen} \X AbortedByStop))
  /\ graceful' = graceful \union {gen}
  /\ UNCHANGED <<running, proxyActive, live>>

TaskTail == TaskStep("tail") /\ TaskFails /\ UNCHANGED live

-----------------------------------------------------------------------------
(* Tasks that run() started *)

OnlyTasks == UNCHANGED <<cmds, bg, active, gen, ptask, shutdown, uiFlags, worker, download, stuck, graceful>>

\* An accept loop spawns a client into its JoinSet; a SOCKS5 client in full
\* mode may spawn a UDP session task.
AcceptClient(g) ==
  /\ \/ \E l \in Listeners : Alive(g, l) /\ live' = live \union {<<g, ClientOf(l)>>}
     \/ FullMode /\ Alive(g, "socksclient") /\ live' = live \union {<<g, "udp">>}
  /\ UNCHANGED aborted /\ OnlyTasks

\* Dropping the accept loop drops its JoinSet, which aborts the clients.
ChildrenOf(n) == {ClientOf(l) : l \in Listeners \intersect {n}}

AbortLands(g, n) ==
  /\ <<g, n>> \in aborted /\ live' = live \ {<<g, n>>}
  /\ aborted' = (aborted \union (live' \intersect ({g} \X ChildrenOf(n)))) \ {<<g, n>>}
  /\ OnlyTasks

\* warm() ends by itself; a UDP task when its queue's sender is dropped with
\* the client, mux_loop when the last holder of the TunnelMux is gone.
EndsAlone(g, n) ==
  \/ n = "warm"
  \/ n = "udp" /\ ~Alive(g, "socksclient")
  \/ n = "mux" /\ (g # gen \/ ptask \in {"tail", "ended"})
     /\ \A m \in {"udp"} \union Listeners \union ClientTasks : ~Alive(g, m)

TaskEnds(g, n) ==
  /\ Alive(g, n) /\ (EndsAlone(g, n) \/ n \in ClientTasks)
  /\ live' = live \ {<<g, n>>} /\ aborted' = aborted \ {<<g, n>>} /\ OnlyTasks

-----------------------------------------------------------------------------
BgStep == CmdStart \/ CmdStop \/ StopGraceful \/ StopForced \/ CmdInstallCa \/ CmdRemoveCa
          \/ CmdDownload \/ CleanUp
ProxyTaskStep == TaskBuild \/ TaskBind \/ TaskShutdown \/ TaskTail

UiNext ==
  \/ \E c \in Cmds : Click(c)
  \/ BgStep \/ ProxyTaskStep \/ CertDone \/ DownloadDone
  \/ \E g \in 1..MaxStarts : AcceptClient(g) \/ \E n \in TaskNames : AbortLands(g, n) \/ TaskEnds(g, n)

\* Threads and the runtime's tasks are scheduled, and the wait of Stop is
\* bounded; a click and a client that leaves by itself need not happen.
UiFairness ==
  /\ WF_uivars(BgStep) /\ WF_uivars(ProxyTaskStep) /\ WF_uivars(CertDone)
  /\ \A g \in 1..MaxStarts, n \in TaskNames :
       /\ WF_uivars(AbortLands(g, n))
       /\ WF_uivars(EndsAlone(g, n) /\ TaskEnds(g, n))

UiSpec == UiInit /\ [][UiNext]_uivars /\ UiFairness

-----------------------------------------------------------------------------
(* Properties *)

\* When Stop has returned, or a proxy that ended by itself was cleaned up,
\* nothing claims that a proxy runs and no proxy task can set a flag later:
\* this is why the forced stop joins the task it aborted.
StoppedMeansStopped ==
  (bg = "idle" /\ ~active) => ~running /\ ptask \in {"none", "ended"}

\* Issue #99: once run() has left through its shutdown arm everything it
\* started ends, the clients in the accept loops' JoinSets, their UDP tasks
\* and the mux that they keep alive included.
StopEndsAll == \A g \in 1..MaxStarts : (g \in graceful) ~> (\A n \in TaskNames : ~Alive(g, n))

\* "cert op already in progress - ignoring duplicate install" and the two log
\* lines of the download: a thread that logs does not already have the lock.
UiResponsive == []<>LockFree
=============================================================================
