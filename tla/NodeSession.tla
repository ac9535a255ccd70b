---------------------------- MODULE NodeSession ----------------------------
(***************************************************************************)
(* One TCP session of the tunnel node (tunnel-node/src/main.rs): the       *)
(* upstream reader task, the shared read buffer, the two tokio `Notify`    *)
(* cells, the HTTP handlers that drain the session, and everything that    *)
(* takes the session out of the map (EOF seen by a drain, close op, idle   *)
(* reaper, failed or cancelled open, failed single-op write).              *)
(*                                                                         *)
(* Data abstraction: the upstream byte stream is 1, 2, 3, ...; the buffer  *)
(* is the interval drained+1 .. recvd, because reader_task only appends    *)
(* and every drain removes a prefix.  Batches are seen through their op    *)
(* for this session: the other ops of a batch show up as an early wake     *)
(* (WaitEnds) and as response budget they already used (StartDrain, Skip). *)
(***************************************************************************)
EXTENDS Integers, FiniteSets

CONSTANTS
    Handlers,     \* HTTP requests that may be served at the same time
    StreamLen,    \* bytes the upstream sends at most
    MaxChunk,     \* size of reader_task's read buffer (2 MiB)
    ReadBufCap,   \* READ_BUF_CAP (32 MiB)
    DrainMax,     \* TCP_DRAIN_MAX_BYTES (16 MiB)
    Budget,       \* BATCH_RESPONSE_BUDGET (32 MiB)
    IdleLimit,    \* reaper periods a session may be idle (300 s)
    MaxFaults     \* bound: cancelled requests and budget-skipped ops

ASSUME ConstantsAssumption ==
    /\ StreamLen \in Nat /\ IdleLimit \in Nat /\ MaxFaults \in Nat
    /\ MaxChunk \in Nat \ {0} /\ ReadBufCap \in Nat \ {0}
    /\ DrainMax \in Nat \ {0} /\ Budget \in Nat \ {0}

VARIABLES
    map,      \* entry in AppState.sessions: opening, in, closed, orphaned
    rpc,      \* control point of reader_task
    held,     \* bytes reader.read() returned that are not yet appended
    aborted,  \* reader_handle.abort() was called
    recvd,    \* bytes ever appended to read_buf
    drained,  \* bytes ever taken out of read_buf
    eof,      \* SessionInner.eof
    permit,   \* the stored permit of SessionInner.notify
    dpermit,  \* the stored permit of SessionInner.drain_notify
    pc,       \* control point of each handler
    watch,    \* the handler's watcher task in wait_for_any_drainable
    rawEof,   \* drain_now's raw_eof local
    chunk,    \* all_data of the handler: the byte positions it holds
    budget,   \* what remains of the batch response budget
    final,    \* final_eof / eof local of the handler
    again,    \* the drain loop wants another round
    handed,   \* positions that left the node in a response
    lost,     \* positions whose handler was cancelled
    idle,     \* reaper periods since last_active
    reaper,   \* cleanup_task: scan, doomed (stale found), abort
    faults    \* cancellations and skips so far

session == <<map, rpc, held, aborted, recvd, drained, eof>>
notifies == <<permit, dpermit>>
local == <<rawEof, chunk, budget, final, again>>
vars == <<session, notifies, pc, watch, local, handed, lost, idle, reaper, faults>>

Buffered == recvd - drained
Min2(a, b) == IF a <= b THEN a ELSE b

ReaderPCs == {"cap", "park", "parked", "read", "append", "notify", "eofnotify", "done"}
HandlerPCs == {"idle", "armed", "probe", "select", "ready", "load", "take",
               "dnotify", "remove", "respond", "swrite", "swait", "sdnotify"}
WatchPCs == {"off", "start", "parked", "notified", "check", "lock", "sent"}

TypeOK ==
    /\ map \in {"opening", "in", "closed", "orphaned"}
    /\ rpc \in ReaderPCs
    /\ held \in 0..MaxChunk
    /\ aborted \in BOOLEAN /\ eof \in BOOLEAN
    /\ recvd \in Nat /\ drained \in Nat /\ drained <= recvd
    /\ permit \in BOOLEAN /\ dpermit \in BOOLEAN
    /\ pc \in [Handlers -> HandlerPCs]
    /\ watch \in [Handlers -> WatchPCs]
    /\ rawEof \in [Handlers -> BOOLEAN]
    /\ chunk \in [Handlers -> SUBSET Nat]
    /\ budget \in [Handlers -> 0..Budget]
    /\ final \in [Handlers -> BOOLEAN]
    /\ again \in [Handlers -> BOOLEAN]
    /\ handed \subseteq Nat /\ lost \subseteq Nat
    /\ idle \in 0..(IdleLimit + 1)
    /\ reaper \in {"scan", "doomed", "abort"}
    /\ faults \in 0..MaxFaults

\* create_session: the reader is spawned before the session is in the map.
Init ==
    /\ map = "opening" /\ rpc = "cap" /\ held = 0 /\ aborted = FALSE
    /\ recvd = 0 /\ drained = 0 /\ eof = FALSE
    /\ permit = FALSE /\ dpermit = FALSE
    /\ pc = [h \in Handlers |-> "idle"]
    /\ watch = [h \in Handlers |-> "off"]
    /\ rawEof = [h \in Handlers |-> FALSE]
    /\ chunk = [h \in Handlers |-> {}]
    /\ budget = [h \in Handlers |-> 0]
    /\ final = [h \in Handlers |-> FALSE]
    /\ again = [h \in Handlers |-> FALSE]
    /\ handed = {} /\ lost = {}
    /\ idle = 0 /\ reaper = "scan" /\ faults = 0

-----------------------------------------------------------------------------
\* tokio::sync::Notify (external).  notify_one wakes one registered waiter or
\* stores a single permit; a waiter that is dropped after it was notified and
\* before it ran passes the notification on.

\* session.notify.notify_one(), with the watchers in the states ww.
NotifyOne(ww) ==
    \/ \E g \in Handlers :
          /\ ww[g] = "parked"
          /\ watch' = [ww EXCEPT ![g] = "notified"]
          /\ permit' = permit
    \/ /\ \A g \in Handlers : ww[g] # "parked"
       /\ watch' = ww
       /\ permit' = TRUE

\* AbortOnDrop: the watcher of h is aborted when its wait is left.
DropWatch(h) ==
    IF watch[h] = "notified"
    THEN NotifyOne([watch EXCEPT ![h] = "off"])
    ELSE watch' = [watch EXCEPT ![h] = "off"] /\ permit' = permit

\* session.drain_notify.notify_one(): only reader_task waits on it.
DrainNotifyOne ==
    IF rpc = "parked"
    THEN rpc' = "cap" /\ dpermit' = dpermit
    ELSE rpc' = rpc /\ dpermit' = TRUE

-----------------------------------------------------------------------------
\* reader_task

\* Fault for the checks: the backpressure test is gone.
ReaderCapUnbounded ==
    /\ rpc = "cap"
    /\ rpc' = "read"
    /\ UNCHANGED <<map, held, aborted, recvd, drained, eof, notifies, pc, watch,
                   local, handed, lost, idle, reaper, faults>>

\* The backpressure test on read_buf.len().
ReaderCap ==
    /\ rpc = "cap"
    /\ rpc' = IF Buffered < ReadBufCap THEN "read" ELSE "park"
    /\ UNCHANGED <<map, held, aborted, recvd, drained, eof, notifies, pc, watch,
                   local, handed, lost, idle, reaper, faults>>

\* drain_notify.notified().await: consume the permit or register.
ReaderPark ==
    /\ rpc = "park"
    /\ rpc' = IF dpermit THEN "cap" ELSE "parked"
    /\ dpermit' = FALSE
    /\ UNCHANGED <<map, held, aborted, recvd, drained, eof, permit, pc, watch,
                   local, handed, lost, idle, reaper, faults>>

\* reader.read(&mut buf) returns Ok(n), n > 0.
ReaderRead ==
    /\ rpc = "read"
    /\ \E n \in 1..MaxChunk : recvd + n <= StreamLen /\ held' = n
    /\ rpc' = "append"
    /\ UNCHANGED <<map, aborted, recvd, drained, eof, notifies, pc, watch,
                   local, handed, lost, idle, reaper, faults>>

\* reader.read returns Ok(0) or Err: eof is stored, the notify follows.
ReaderEof ==
    /\ rpc = "read"
    /\ eof' = TRUE
    /\ rpc' = "eofnotify"
    /\ UNCHANGED <<map, held, aborted, recvd, drained, notifies, pc, watch,
                   local, handed, lost, idle, reaper, faults>>

\* read_buf.lock(), extend_from_slice, drop of the guard.
ReaderAppend ==
    /\ rpc = "append"
    /\ recvd' = recvd + held
    /\ held' = 0
    /\ rpc' = "notify"
    /\ UNCHANGED <<map, aborted, drained, eof, notifies, pc, watch,
                   local, handed, lost, idle, reaper, faults>>

\* notify.notify_one() after an append: back to the loop.
ReaderNotify ==
    /\ rpc = "notify"
    /\ NotifyOne(watch)
    /\ rpc' = "cap"
    /\ UNCHANGED <<map, held, aborted, recvd, drained, eof, dpermit, pc,
                   local, handed, lost, idle, reaper, faults>>

\* notify.notify_one() after eof: the task ends.
ReaderEofNotify ==
    /\ rpc = "eofnotify"
    /\ NotifyOne(watch)
    /\ rpc' = "done"
    /\ UNCHANGED <<map, held, aborted, recvd, drained, eof, dpermit, pc,
                   local, handed, lost, idle, reaper, faults>>

\* A pending abort takes effect at the task's next await.
ReaderCancelled ==
    /\ aborted
    /\ rpc \in {"cap", "park", "parked", "read", "append"}
    /\ rpc' = "done"
    /\ held' = 0
    /\ UNCHANGED <<map, aborted, recvd, drained, eof, notifies, pc, watch,
                   local, handed, lost, idle, reaper, faults>>

Reader ==
    ReaderCap \/ ReaderPark \/ ReaderRead \/ ReaderEof \/ ReaderAppend
    \/ ReaderNotify \/ ReaderEofNotify \/ ReaderCancelled

-----------------------------------------------------------------------------
\* Opening and removing the session

\* cleanup_task holds the sessions lock between its two passes.
MapUnlocked == reaper # "doomed"

\* handle_connect: insert; the response carries only the sid.
OpenInsert ==
    /\ map = "opening" /\ MapUnlocked
    /\ map' = "in"
    /\ UNCHANGED <<rpc, held, aborted, recvd, drained, eof, notifies, pc, watch,
                   local, handed, lost, idle, reaper, faults>>

\* handle_connect_data_phase1: insert, then the same request drains.
OpenInsertDrain(h) ==
    /\ map = "opening" /\ pc[h] = "idle" /\ MapUnlocked
    /\ map' = "in"
    /\ pc' = [pc EXCEPT ![h] = "armed"]
    /\ watch' = [watch EXCEPT ![h] = "start"]
    /\ UNCHANGED <<rpc, held, aborted, recvd, drained, eof, notifies,
                   local, handed, lost, idle, reaper, faults>>

\* handle_connect_data_phase1: bad base64 or failed first write.
OpenFail ==
    /\ map = "opening"
    /\ map' = "closed"
    /\ aborted' = TRUE
    /\ UNCHANGED <<rpc, held, recvd, drained, eof, notifies, pc, watch,
                   local, handed, lost, idle, reaper, faults>>

\* The request is dropped while it awaits the first write: the JoinHandle is
\* detached, nothing aborts the reader.
OpenCancelled ==
    /\ map = "opening"
    /\ faults < MaxFaults
    /\ faults' = faults + 1
    /\ map' = "orphaned"
    /\ UNCHANGED <<rpc, held, aborted, recvd, drained, eof, notifies, pc, watch,
                   local, handed, lost, idle, reaper>>

\* Fault for the checks: the entry is dropped without abort_all.
CloseDetach ==
    /\ map = "in" /\ MapUnlocked
    /\ map' = "closed"
    /\ UNCHANGED <<rpc, held, aborted, recvd, drained, eof, notifies, pc, watch,
                   local, handed, lost, idle, reaper, faults>>

\* handle_close: remove and abort_all.
Close ==
    /\ map = "in" /\ MapUnlocked
    /\ map' = "closed"
    /\ aborted' = TRUE
    /\ UNCHANGED <<rpc, held, recvd, drained, eof, notifies, pc, watch,
                   local, handed, lost, idle, reaper, faults>>

\* Time: one reaper period without activity (cleanup_task looks at mapped sessions
\* only).
Tick ==
    /\ map = "in" /\ idle <= IdleLimit
    /\ idle' = idle + 1
    /\ UNCHANGED <<session, notifies, pc, watch, local, handed, lost, reaper, faults>>

\* Fault for the checks: sessions with unread bytes are spared.
ReapScanEmpty ==
    /\ reaper = "scan" /\ map = "in" /\ idle > IdleLimit /\ Buffered = 0
    /\ reaper' = "doomed"
    /\ UNCHANGED <<session, notifies, pc, watch, local, handed, lost, idle, faults>>

\* cleanup_task, first pass over the map: last_active is stale.
ReapScan ==
    /\ reaper = "scan" /\ map = "in" /\ idle > IdleLimit
    /\ reaper' = "doomed"
    /\ UNCHANGED <<session, notifies, pc, watch, local, handed, lost, idle, faults>>

\* cleanup_task, second pass: map.remove, still under the map lock.
ReapRemove ==
    /\ reaper = "doomed"
    /\ map' = "closed"
    /\ reaper' = "abort"
    /\ UNCHANGED <<rpc, held, aborted, recvd, drained, eof, notifies, pc, watch,
                   local, handed, lost, idle, faults>>

\* cleanup_task: abort_all outside the map lock.
ReapAbort ==
    /\ reaper = "abort"
    /\ aborted' = TRUE
    /\ reaper' = "scan"
    /\ UNCHANGED <<map, rpc, held, recvd, drained, eof, notifies, pc, watch,
                   local, handed, lost, idle, faults>>

-----------------------------------------------------------------------------
\* Batch handlers: handle_batch for a "data" op of this session

\* Phase 1 lookup; an op that uploads bumps last_active (the bytes themselves
\* are UploadStream's subject).  Phase 2 starts with the watcher's spawn.
Lookup(h) ==
    /\ pc[h] = "idle" /\ map = "in" /\ MapUnlocked
    /\ pc' = [pc EXCEPT ![h] = "armed"]
    /\ watch' = [watch EXCEPT ![h] = "start"]
    /\ idle' \in {idle, 0}
    /\ UNCHANGED <<session, notifies, local, handed, lost, reaper, faults>>

\* The watcher's notify.notified().await: consume the permit or register.
WatchPoll(h) ==
    /\ watch[h] = "start"
    /\ watch' = [watch EXCEPT ![h] = IF permit THEN "check" ELSE "parked"]
    /\ permit' = FALSE
    /\ UNCHANGED <<session, dpermit, pc, local, handed, lost, idle, reaper, faults>>

\* A notified watcher runs: first the eof test ...
WatchEof(h) ==
    /\ watch[h] \in {"notified", "check"}
    /\ watch' = [watch EXCEPT ![h] = IF eof THEN "sent" ELSE "lock"]
    /\ UNCHANGED <<session, notifies, pc, local, handed, lost, idle, reaper, faults>>

\* ... then the buffer; a stale permit sends it back to wait.
WatchBuf(h) ==
    /\ watch[h] = "lock"
    /\ watch' = [watch EXCEPT ![h] = IF Buffered > 0 THEN "sent" ELSE "start"]
    /\ UNCHANGED <<session, notifies, pc, local, handed, lost, idle, reaper, faults>>

\* is_any_drainable: the eof load ...
ProbeEof(h) ==
    /\ pc[h] = "armed"
    /\ IF eof
       THEN pc' = [pc EXCEPT ![h] = "ready"] /\ DropWatch(h)
       ELSE pc' = [pc EXCEPT ![h] = "probe"] /\ UNCHANGED <<watch, permit>>
    /\ UNCHANGED <<session, dpermit, local, handed, lost, idle, reaper, faults>>

\* ... then the buffer.
ProbeBuf(h) ==
    /\ pc[h] = "probe"
    /\ IF Buffered > 0
       THEN pc' = [pc EXCEPT ![h] = "ready"] /\ DropWatch(h)
       ELSE pc' = [pc EXCEPT ![h] = "select"] /\ UNCHANGED <<watch, permit>>
    /\ UNCHANGED <<session, dpermit, local, handed, lost, idle, reaper, faults>>

\* rx.recv(): the watcher signalled.
Woken(h) ==
    /\ pc[h] = "select" /\ watch[h] = "sent"
    /\ pc' = [pc EXCEPT ![h] = "ready"]
    /\ DropWatch(h)
    /\ UNCHANGED <<session, dpermit, local, handed, lost, idle, reaper, faults>>

\* The deadline fires, or another session or the UDP side of the batch is
\* ready first (the losing select! arm is dropped, also inside its probe).
WaitEnds(h) ==
    /\ pc[h] \in {"probe", "select"}
    /\ pc' = [pc EXCEPT ![h] = "ready"]
    /\ DropWatch(h)
    /\ UNCHANGED <<session, dpermit, local, handed, lost, idle, reaper, faults>>

\* The TCP drain loop reaches this op with some budget left.
StartDrain(h) ==
    /\ pc[h] = "ready"
    /\ \E b \in 1..Budget : budget' = [budget EXCEPT ![h] = b]
    /\ pc' = [pc EXCEPT ![h] = "load"]
    /\ UNCHANGED <<session, notifies, watch, rawEof, chunk, final, again,
                   handed, lost, idle, reaper, faults>>

\* The budget was used up by earlier ops: `break`, the op gets no result.
Skip(h) ==
    /\ pc[h] = "ready"
    /\ faults < MaxFaults
    /\ faults' = faults + 1
    /\ pc' = [pc EXCEPT ![h] = "idle"]
    /\ UNCHANGED <<session, notifies, watch, local, handed, lost, idle, reaper>>

\* drain_now: raw_eof is loaded before the buffer is locked.
LoadEof(h) ==
    /\ pc[h] = "load"
    /\ rawEof' = [rawEof EXCEPT ![h] = eof]
    /\ pc' = [pc EXCEPT ![h] = "take"]
    /\ UNCHANGED <<session, notifies, watch, chunk, budget, final, again,
                   handed, lost, idle, reaper, faults>>

\* drain_now's effective cap for handler h.
DrainCap(h) == Min2(budget[h], DrainMax)

\* Fault for the checks: the raw flag is reported for a partial drain too.
DrainEofRaw(h) == rawEof[h]

\* drain_now's eof result: a partial drain never reports eof.
DrainEof(h) == IF Buffered > DrainCap(h) THEN FALSE ELSE rawEof[h]

\* The caller's loop goes on: something came, no eof, neither cap was hit.
\* n is what this round drained (budget[h] is what was left before it).
DrainOn(h, n) == n > 0 /\ ~DrainEof(h) /\ n < DrainMax /\ n < budget[h]

\* Fault for the checks: the drain takes its cap without looking at the length.
TakeCap(h) ==
    /\ pc[h] = "take"
    /\ drained' = drained + DrainCap(h)
    /\ pc' = [pc EXCEPT ![h] = "dnotify"]
    /\ UNCHANGED <<map, rpc, held, aborted, recvd, eof, notifies, watch, local,
                   handed, lost, idle, reaper, faults>>

\* drain_now's locked section and the loop's bookkeeping.  A round that goes
\* on may still stop on the 1 s drain deadline.
Take(h) ==
    /\ pc[h] = "take"
    /\ LET n == Min2(Buffered, DrainCap(h)) IN
       /\ chunk' = [chunk EXCEPT ![h] = @ \cup (drained + 1)..(drained + n)]
       /\ drained' = drained + n
       /\ budget' = [budget EXCEPT ![h] = @ - n]
       /\ final' = [final EXCEPT ![h] = IF DrainEof(h) THEN TRUE ELSE @]
       /\ \E more \in {DrainOn(h, n), FALSE} : again' = [again EXCEPT ![h] = more]
    /\ pc' = [pc EXCEPT ![h] = "dnotify"]
    /\ UNCHANGED <<map, rpc, held, aborted, recvd, eof, notifies, watch, rawEof,
                   handed, lost, idle, reaper, faults>>

\* Fault for the checks: drain_notify is not fired.
DrainNotifyMissing(h) ==
    /\ pc[h] = "dnotify"
    /\ pc' = [pc EXCEPT ![h] = IF again[h] THEN "load"
                               ELSE IF final[h] THEN "remove" ELSE "respond"]
    /\ UNCHANGED <<session, notifies, watch, local, handed, lost, idle, reaper, faults>>

\* drain_notify.notify_one() after the guard is dropped, then the next round,
\* or the end of the loop: last_active is bumped if anything was drained.
DrainNotify(h) ==
    /\ pc[h] = "dnotify"
    /\ DrainNotifyOne
    /\ pc' = [pc EXCEPT ![h] = IF again[h] THEN "load"
                               ELSE IF final[h] THEN "remove" ELSE "respond"]
    /\ idle' = IF ~again[h] /\ chunk[h] # {} THEN 0 ELSE idle
    /\ UNCHANGED <<map, held, aborted, recvd, drained, eof, permit, watch, local,
                   handed, lost, reaper, faults>>

\* A drain that reported eof removes the session, if it is still there.
RemoveAtEof(h) ==
    /\ pc[h] = "remove" /\ MapUnlocked
    /\ map' = IF map = "in" THEN "closed" ELSE map
    /\ aborted' = IF map = "in" THEN TRUE ELSE aborted
    /\ pc' = [pc EXCEPT ![h] = "respond"]
    /\ UNCHANGED <<rpc, held, recvd, drained, eof, notifies, watch, local,
                   handed, lost, idle, reaper, faults>>

\* The response leaves the node.
Respond(h) ==
    /\ pc[h] = "respond"
    /\ handed' = handed \cup chunk[h]
    /\ pc' = [pc EXCEPT ![h] = "idle"]
    /\ chunk' = [chunk EXCEPT ![h] = {}]
    /\ final' = [final EXCEPT ![h] = FALSE]
    /\ again' = [again EXCEPT ![h] = FALSE]
    /\ rawEof' = [rawEof EXCEPT ![h] = FALSE]
    /\ budget' = [budget EXCEPT ![h] = 0]
    /\ UNCHANGED <<session, notifies, watch, lost, idle, reaper, faults>>

\* The HTTP connection goes away: the handler's future is dropped at an await.
Cancel(h) ==
    /\ pc[h] \in {"probe", "select", "ready", "take", "load", "remove", "respond",
                  "swrite", "swait"}
    /\ faults < MaxFaults
    /\ faults' = faults + 1
    /\ pc' = [pc EXCEPT ![h] = "idle"]
    /\ DropWatch(h)
    /\ lost' = lost \cup chunk[h]
    /\ chunk' = [chunk EXCEPT ![h] = {}]
    /\ final' = [final EXCEPT ![h] = FALSE]
    /\ again' = [again EXCEPT ![h] = FALSE]
    /\ rawEof' = [rawEof EXCEPT ![h] = FALSE]
    /\ budget' = [budget EXCEPT ![h] = 0]
    /\ UNCHANGED <<session, dpermit, handed, idle, reaper>>

-----------------------------------------------------------------------------
\* Single-op requests: handle_data_single

SingleLookup(h) ==
    /\ pc[h] = "idle" /\ map = "in" /\ MapUnlocked
    /\ pc' = [pc EXCEPT ![h] = "swrite"]
    /\ idle' = 0
    /\ UNCHANGED <<session, notifies, watch, local, handed, lost, reaper, faults>>

\* No bytes to write, or write_all succeeded.
SingleWrite(h) ==
    /\ pc[h] = "swrite"
    /\ pc' = [pc EXCEPT ![h] = "swait"]
    /\ UNCHANGED <<session, notifies, watch, local, handed, lost, idle, reaper, faults>>

\* write_all failed: the entry is removed, its reader is not aborted.
SingleWriteFail(h) ==
    /\ pc[h] = "swrite" /\ MapUnlocked
    /\ map' = IF map = "in" THEN "orphaned" ELSE map
    /\ pc' = [pc EXCEPT ![h] = "idle"]
    /\ UNCHANGED <<rpc, held, aborted, recvd, drained, eof, notifies, watch, local,
                   handed, lost, idle, reaper, faults>>

\* Fault for the checks: the buffer is copied, not taken.
SingleTakeCopy(h) ==
    /\ pc[h] = "swait"
    /\ chunk' = [chunk EXCEPT ![h] = (drained + 1)..recvd]
    /\ final' = [final EXCEPT ![h] = eof]
    /\ pc' = [pc EXCEPT ![h] = "sdnotify"]
    /\ UNCHANGED <<session, notifies, watch, rawEof, budget, again,
                   handed, lost, idle, reaper, faults>>

\* wait_and_drain: after its timed loop (which may stop at any time: eof,
\* deadline or a quiet interval) everything buffered is taken, and eof is
\* loaded while the buffer is still locked.
SingleTake(h) ==
    /\ pc[h] = "swait"
    /\ chunk' = [chunk EXCEPT ![h] = (drained + 1)..recvd]
    /\ drained' = recvd
    /\ final' = [final EXCEPT ![h] = eof]
    /\ pc' = [pc EXCEPT ![h] = "sdnotify"]
    /\ UNCHANGED <<map, rpc, held, aborted, recvd, eof, notifies, watch, rawEof,
                   budget, again, handed, lost, idle, reaper, faults>>

SingleDrainNotify(h) ==
    /\ pc[h] = "sdnotify"
    /\ DrainNotifyOne
    /\ pc' = [pc EXCEPT ![h] = IF final[h] THEN "remove" ELSE "respond"]
    /\ UNCHANGED <<map, held, aborted, recvd, drained, eof, permit, watch, local,
                   handed, lost, idle, reaper, faults>>

-----------------------------------------------------------------------------
Handler(h) ==
    \/ OpenInsertDrain(h) \/ Lookup(h)
    \/ WatchPoll(h) \/ WatchEof(h) \/ WatchBuf(h)
    \/ ProbeEof(h) \/ ProbeBuf(h) \/ Woken(h) \/ WaitEnds(h)
    \/ StartDrain(h) \/ Skip(h) \/ LoadEof(h) \/ Take(h) \/ DrainNotify(h)
    \/ RemoveAtEof(h) \/ Respond(h) \/ Cancel(h)
    \/ SingleLookup(h) \/ SingleWrite(h) \/ SingleWriteFail(h) \/ SingleTake(h)
    \/ SingleDrainNotify(h)

Lifecycle ==
    OpenInsert \/ OpenFail \/ OpenCancelled \/ Close
    \/ Tick \/ ReapScan \/ ReapRemove \/ ReapAbort

Next == Reader \/ Lifecycle \/ \E h \in Handlers : Handler(h)

Spec == Init /\ [][Next]_vars

\* Fairness: tokio polls every task that can run, so a request that was made is
\* served, and the reaper's interval ticks.  Nothing is assumed of the client's next
\* poll (Lookup, SingleLookup), of the upstream (ReaderRead, ReaderEof), of deadlines
\* (WaitEnds) or of faults.
WatcherStep(h) == WatchPoll(h) \/ WatchEof(h) \/ WatchBuf(h)
WaitStep(h) == ProbeEof(h) \/ ProbeBuf(h) \/ Woken(h)
DrainStep(h) ==
    StartDrain(h) \/ LoadEof(h) \/ Take(h) \/ DrainNotify(h) \/ RemoveAtEof(h) \/ Respond(h)
SingleStep(h) == SingleWrite(h) \/ SingleTake(h) \/ SingleDrainNotify(h)

Progress(h) ==
    /\ WF_vars(WatcherStep(h)) /\ WF_vars(WaitStep(h))
    /\ WF_vars(DrainStep(h)) /\ WF_vars(SingleStep(h))

ReaderStep == ReaderCap \/ ReaderPark \/ ReaderAppend \/ ReaderNotify \/ ReaderEofNotify

Runtime ==
    /\ WF_vars(ReaderStep) /\ WF_vars(ReaderCancelled)
    /\ WF_vars(Tick) /\ WF_vars(ReapScan) /\ WF_vars(ReapRemove \/ ReapAbort)

ServeSpec == Spec /\ Runtime /\ \A h \in Handlers : Progress(h)

-----------------------------------------------------------------------------
\* Properties

InHand == UNION {chunk[h] : h \in Handlers}

\* Every byte reader_task appended is in exactly one place: still buffered, in
\* the hands of exactly one drain, in a response, or lost with a cancelled
\* request.  Concurrent drains neither duplicate nor drop bytes.
ByteConservation ==
    /\ handed \cup lost \cup InHand = 1..drained
    /\ handed \cap lost = {}
    /\ InHand \cap (handed \cup lost) = {}
    /\ \A g, h \in Handlers : g # h => chunk[g] \cap chunk[h] = {}

\* A drain that reports eof (and so makes handle_batch drop the session) left
\* nothing behind: the buffer is empty and the reader will never append again.
EofMeansDrained ==
    \A h \in Handlers :
        final[h] => eof /\ Buffered = 0 /\ held = 0 /\ rpc \in {"eofnotify", "done"}

\* READ_BUF_CAP bounds the memory of a session to the cap plus one read.
BufferBounded == Buffered + held < ReadBufCap + MaxChunk

\* A reader that waits for room is woken: if the buffer is below the cap, the
\* drain_notify permit is there or a drain is about to issue it.
ReaderNotForgotten ==
    rpc \in {"park", "parked"} /\ Buffered < ReadBufCap =>
        \/ rpc = "park" /\ dpermit
        \/ \E h \in Handlers : pc[h] \in {"dnotify", "sdnotify"}

\* Why EofMeansDrained and BufferBounded are inductive: the reader stores eof as
\* its last act, holds bytes only between read and append, and reads only below
\* the cap; a raw_eof that was loaded stays true.
ReaderOrder ==
    /\ eof => rpc \in {"eofnotify", "done"}
    /\ held > 0 => rpc = "append"
    /\ rpc \in {"read", "append"} => Buffered < ReadBufCap
    /\ \A h \in Handlers : rawEof[h] => eof

\* Why ByteConservation is inductive: a request starts with nothing in hand.
Fresh == {"idle", "armed", "probe", "select", "ready", "swrite", "swait"}
FreshHandlers == \A h \in Handlers : pc[h] \in Fresh => chunk[h] = {}

\* Notification that is still on its way to the waiting handler h: from the reader,
\* from a watcher that may yet be dropped and pass it on, as a permit, or received.
WakeComing(h) ==
    \/ rpc \in {"notify", "eofnotify"}
    \/ \E g \in Handlers : watch[g] = "notified"
    \/ watch[h] \in {"check", "sent"}
    \/ watch[h] = "lock" /\ (eof \/ Buffered > 0 \/ permit)
    \/ watch[h] = "start" /\ permit

\* wait_for_any_drainable blocks until the session has data or hits eof
\* (main.rs:453): a request that waits on a session with either has a wakeup on its
\* way, or another request is about to take the data.  The watcher that gets the
\* one notification of eof passes nothing on, so a second poll is left to its
\* deadline, and the client keeps two in flight.
NoLostWakeup ==
    \A h \in Handlers : pc[h] = "select" /\ (eof \/ Buffered > 0) =>
        \/ WakeComing(h)
        \/ ~eof /\ \E g \in Handlers : pc[g] \notin {"idle", "select"}

\* Every response of the node holds a contiguous piece of the stream, so that
\* responses can be put in order at all.
ResponsesContiguous ==
    \A h \in Handlers : pc[h] = "respond" =>
        \A i, j \in chunk[h] : i..j \subseteq chunk[h]

\* A session whose client has gone is reaped, whatever the upstream does.
AbandonedFreed ==
    (<>[](map = "in" => \A h \in Handlers : pc[h] = "idle")) => <>[](map # "in")

\* After close, eof or reaping the reader task ends.
ClosedReaderStops == map = "closed" ~> rpc = "done"
=============================================================================
