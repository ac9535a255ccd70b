----------------------------- MODULE TunnelLoop -----------------------------
(***************************************************************************)
(* tunnel_loop of src/tunnel_client.rs: the client-side task of one TCP    *)
(* tunnel session.  It keeps several data ops in flight (pipelining),      *)
(* numbers them with `seq`, hands the replies to the local socket in the   *)
(* order of their seq, adapts its depth to the traffic, and ends on eof,   *)
(* on a local close, or on an error.                                       *)
(*                                                                         *)
(* The task is sequential: a step here is a stretch between two awaits, or *)
(* one turn of the flush loop.  A reply is abstracted to what the loop     *)
(* tells apart (amount of data, eof, presence of seq); what the node puts  *)
(* into it is left open: any member of Responses.                          *)
(***************************************************************************)
EXTENDS Integers, Sequences, FiniteSets

CONSTANTS
    Responses,       \* TunnelResponse values without an error
    MaxSeq,          \* bound: data ops sent in the session
    MaxUploads,      \* bound: chunks the local client sends
    MaxTimeouts,     \* bound: replies that exceed REPLY_TIMEOUT
    InflightActive,  \* INFLIGHT_ACTIVE (6)
    RefillSteps,     \* refill timer steps of 100 ms before a poll (10)
    ElevateUnits     \* large replies that make up 32 KiB

InflightIdle == 1
InflightOptimist == 2

ASSUME LoopAssumption ==
    /\ MaxSeq \in Nat /\ MaxUploads \in Nat /\ MaxTimeouts \in Nat
    /\ InflightActive \in Nat /\ InflightActive >= InflightOptimist
    /\ RefillSteps \in Nat \ {0} /\ ElevateUnits \in Nat
    /\ \A r \in Responses :
          /\ r.size \in {"none", "small", "large", "bad"}
          /\ r.eof \in BOOLEAN /\ r.hasSeq \in BOOLEAN

VARIABLES
    lpc,         \* start, loop, flush, grace, adjust, done, failed (left through `?`)
    inflightOps, \* ops awaiting a reply: [seq, poll]
    sendSeq,     \* next_send_seq
    writeSeq,    \* next_write_seq
    pendingW,    \* pending_writes: [seq, poll, resp]
    written,     \* seqs whose reply was handed to the local socket, in order
    depth,       \* max_inflight
    empties,     \* consecutive_empty
    tier,        \* idle_tier
    streak,      \* consecutive_data
    units,       \* total_download_bytes in large replies
    elevated,    \* is_elevated
    permit,      \* this session is counted in mux.elevated_sessions
    eofSeen,     \* eof_seen
    clientClosed,\* client_closed
    refillAt,    \* refill_at: -1 for None, else refill_steps
    hasSeq,      \* resp_has_seq of the reply being processed
    uploads,     \* next_data_write_seq: chunks read from the local client
    gotEof,      \* history: a reply with eof has come in
    gaveUp       \* history: seqs given up (REPLY_TIMEOUT, undecodable after buffering)

pipe == <<inflightOps, sendSeq>>
depthVars == <<depth, elevated, permit>>
history == <<gotEof, gaveUp>>
counters == <<empties, tier, streak, units>>
loopVars == <<lpc, pipe, writeSeq, pendingW, written, depthVars, counters, eofSeen,
              clientClosed, refillAt, hasSeq, uploads, history>>

NoTimer == -1

Op == [seq : 0..(MaxSeq - 1), poll : BOOLEAN]

LoopTypeOK ==
    /\ lpc \in {"start", "loop", "flush", "grace", "adjust", "done", "failed"}
    /\ inflightOps \subseteq Op
    /\ sendSeq \in 0..MaxSeq /\ writeSeq \in 0..MaxSeq
    /\ pendingW \subseteq [seq : 0..(MaxSeq - 1), poll : BOOLEAN, resp : Responses]
    /\ written \in Seq(0..(MaxSeq - 1))
    /\ depth \in 1..InflightActive
    /\ empties \in Nat /\ tier \in Nat /\ streak \in Nat /\ units \in Nat
    /\ elevated \in BOOLEAN /\ permit \in BOOLEAN
    /\ eofSeen \in BOOLEAN /\ clientClosed \in BOOLEAN
    /\ refillAt \in -1..(RefillSteps - 1)
    /\ hasSeq \in BOOLEAN /\ gotEof \in BOOLEAN
    /\ uploads \in 0..MaxUploads
    /\ gaveUp \subseteq 0..(MaxSeq - 1)

LoopInit ==
    /\ lpc = "start"
    /\ inflightOps = {} /\ sendSeq = 0 /\ writeSeq = 0
    /\ pendingW = {} /\ written = <<>>
    /\ depth = InflightOptimist
    /\ empties = 0 /\ tier = 0 /\ streak = 0 /\ units = 0
    /\ elevated = FALSE /\ permit = FALSE
    /\ eofSeen = FALSE /\ clientClosed = FALSE
    /\ refillAt = NoTimer /\ hasSeq = FALSE
    /\ uploads = 0 /\ gotEof = FALSE
    /\ gaveUp = {}

-----------------------------------------------------------------------------
\* Sending

\* send_empty_poll and send_data_op; the caller pushes the reply future.
SendOp(poll) ==
    /\ sendSeq < MaxSeq
    /\ inflightOps' = inflightOps \cup {[seq |-> sendSeq, poll |-> poll]}
    /\ sendSeq' = sendSeq + 1

SendPoll == SendOp(TRUE)

SendData ==
    /\ SendOp(FALSE)
    /\ uploads' = uploads + 1

\* The initial path: the pending client data, if any, takes one slot and empty
\* polls fill the pipeline to its optimistic depth.
Start ==
    /\ lpc = "start" /\ MaxSeq >= InflightOptimist
    /\ \E data \in {TRUE, FALSE} :
          /\ data => MaxUploads > 0
          /\ inflightOps' = {[seq |-> s, poll |-> ~(data /\ s = 0)] :
                             s \in 0..(InflightOptimist - 1)}
          /\ uploads' = IF data THEN 1 ELSE 0
    /\ sendSeq' = InflightOptimist
    /\ lpc' = "loop"
    /\ UNCHANGED <<writeSeq, pendingW, written, depthVars, counters, eofSeen, clientClosed,
                   refillAt, hasSeq, history>>

\* can_read: two slots beyond the depth are kept for uploads.
CanRead == ~clientClosed /\ ~eofSeen /\ Cardinality(inflightOps) < depth + 2

\* The select! of the main loop: something is in flight and no eof yet.
InSelect == lpc = "loop" /\ inflightOps # {} /\ ~eofSeen

\* The keepalive path: nothing in flight.
InKeepalive == lpc = "loop" /\ inflightOps = {} /\ ~eofSeen /\ ~clientClosed

\* Data from the local client while replies are outstanding.
ReadData ==
    /\ InSelect /\ CanRead /\ uploads < MaxUploads
    /\ SendData
    /\ empties' = 0
    /\ UNCHANGED <<lpc, writeSeq, pendingW, written, depthVars, tier, streak, units,
                   eofSeen, clientClosed, refillAt, hasSeq, history>>

\* The local client closed its side (or its socket failed).
ReadClose ==
    /\ InSelect /\ CanRead
    /\ clientClosed' = TRUE
    /\ UNCHANGED <<lpc, pipe, writeSeq, pendingW, written, depthVars, counters,
                   eofSeen, refillAt, hasSeq, uploads, history>>

\* Idle session with back-off: data from the client ends the back-off.
KeepaliveData ==
    /\ InKeepalive /\ tier > 0 /\ uploads < MaxUploads
    /\ SendData
    /\ empties' = 0 /\ tier' = 0
    /\ UNCHANGED <<lpc, writeSeq, pendingW, written, depthVars, streak, units,
                   eofSeen, clientClosed, refillAt, hasSeq, history>>

\* Back-off delay over (or none): an empty poll.
KeepalivePoll ==
    /\ InKeepalive
    /\ SendPoll
    /\ UNCHANGED <<lpc, writeSeq, pendingW, written, depthVars, counters, eofSeen,
                   clientClosed, refillAt, hasSeq, uploads, history>>

\* The refill timer fires: after RefillSteps steps a poll goes out; the timer is
\* re-armed while the pipeline is short.
RefillFires ==
    /\ InSelect /\ refillAt # NoTimer
    /\ IF Cardinality(inflightOps) >= depth
       THEN refillAt' = NoTimer /\ UNCHANGED pipe
       ELSE IF refillAt + 1 < RefillSteps
       THEN refillAt' = refillAt + 1 /\ UNCHANGED pipe
       ELSE /\ SendPoll
            /\ refillAt' = IF Cardinality(inflightOps) + 1 < depth /\ depth > InflightIdle
                         THEN 0 ELSE NoTimer
    /\ UNCHANGED <<lpc, writeSeq, pendingW, written, depthVars, counters, eofSeen,
                   clientClosed, hasSeq, uploads, history>>

-----------------------------------------------------------------------------
\* Replies

HasData(r) == r.size \in {"small", "large"}

\* How a reply handed to the client moves the activity counters.
Score(poll, r) ==
    IF HasData(r)
    THEN /\ empties' = IF r.size = "large" THEN 0 ELSE empties
         /\ tier' = IF r.size = "large" THEN tier \div 2
                    ELSE IF tier > 0 THEN tier - 1 ELSE 0
         /\ streak' = streak + 1
         /\ units' = IF r.size = "large" THEN units + 1 ELSE units
    ELSE IF poll /\ streak > 0
    THEN UNCHANGED counters
    ELSE /\ empties' = empties + 1
         /\ tier' = tier + 1
         /\ streak' = 0
         /\ units' = units

\* The reply of op seq goes to the local socket; next_write_seq moves on.
WriteOut(seq) ==
    /\ written' = Append(written, seq)
    /\ writeSeq' = writeSeq + 1

\* The same in the main loop, where eof and the counters are looked at.
Deliver(m, r) ==
    /\ WriteOut(m.seq)
    /\ eofSeen' = (eofSeen \/ r.eof)
    /\ Score(m.poll, r)

\* A reply without seq comes from an old node: no pipelining.
DepthFor(r) == IF r.hasSeq THEN depth ELSE 1

\* The loop is left through `break`: the elevation permit is released.
Leave ==
    /\ lpc' = "done"
    /\ permit' = IF elevated THEN FALSE ELSE permit
    /\ elevated' = FALSE

\* Fault for the checks: the first reply to come in is written, whatever its seq.
ReplyInOrderAny(m, r) ==
    /\ InSelect /\ r.size # "bad"
    /\ inflightOps' = inflightOps \ {m}
    /\ depth' = DepthFor(r)
    /\ Deliver(m, r)
    /\ hasSeq' = r.hasSeq
    /\ gotEof' = (gotEof \/ r.eof)
    /\ lpc' = "flush"
    /\ UNCHANGED <<sendSeq, pendingW, elevated, permit, clientClosed, refillAt, uploads, gaveUp>>

\* The reply the client is waiting for.
ReplyInOrder(m, r) ==
    /\ InSelect /\ m.seq = writeSeq /\ r.size # "bad"
    /\ inflightOps' = inflightOps \ {m}
    /\ depth' = DepthFor(r)
    /\ Deliver(m, r)
    /\ hasSeq' = r.hasSeq
    /\ gotEof' = (gotEof \/ r.eof)
    /\ lpc' = "flush"
    /\ UNCHANGED <<sendSeq, pendingW, elevated, permit, clientClosed, refillAt,
                   uploads, gaveUp>>

\* Fault for the checks: a reply that is not the expected one is discarded.
ReplyAheadDropped(m, r) ==
    /\ InSelect /\ m.seq # writeSeq
    /\ inflightOps' = inflightOps \ {m}
    /\ depth' = DepthFor(r)
    /\ hasSeq' = r.hasSeq
    /\ gotEof' = (gotEof \/ r.eof)
    /\ lpc' = "adjust"
    /\ UNCHANGED <<sendSeq, writeSeq, pendingW, written, elevated, permit, counters,
                   eofSeen, clientClosed, refillAt, uploads, gaveUp>>

\* A reply that overtook an earlier one is kept in pending_writes.
ReplyAhead(m, r) ==
    /\ InSelect /\ m.seq # writeSeq
    /\ inflightOps' = inflightOps \ {m}
    /\ depth' = DepthFor(r)
    /\ pendingW' = pendingW \cup {[seq |-> m.seq, poll |-> m.poll, resp |-> r]}
    /\ hasSeq' = r.hasSeq
    /\ gotEof' = (gotEof \/ r.eof)
    /\ lpc' = "adjust"
    /\ UNCHANGED <<sendSeq, writeSeq, written, elevated, permit, counters,
                   eofSeen, clientClosed, refillAt, uploads, gaveUp>>

\* `e` in the response, undecodable data, a failed batch, a dropped sender.
ReplyFails(m) ==
    /\ InSelect
    /\ inflightOps' = inflightOps \ {m}
    /\ Leave
    /\ UNCHANGED <<sendSeq, writeSeq, pendingW, written, depth, counters,
                   eofSeen, clientClosed, refillAt, hasSeq, uploads, history>>

\* The write to the local socket fails: `?` leaves the function at once.
LocalWriteFails(m) ==
    /\ InSelect /\ m.seq = writeSeq
    /\ inflightOps' = inflightOps \ {m}
    /\ lpc' = "failed"
    /\ UNCHANGED <<sendSeq, writeSeq, pendingW, written, depthVars, counters,
                   eofSeen, clientClosed, refillAt, hasSeq, uploads, history>>

\* Fault for the checks: the op that timed out is skipped as if answered.
ReplyTimeoutSkips(m) ==
    /\ InSelect /\ Cardinality(gaveUp) < MaxTimeouts
    /\ inflightOps' = inflightOps \ {m}
    /\ gaveUp' = gaveUp \cup {m.seq}
    /\ writeSeq' = IF m.seq = writeSeq THEN writeSeq + 1 ELSE writeSeq
    /\ empties' = empties + 1
    /\ tier' = tier + 1
    /\ UNCHANGED <<lpc, sendSeq, pendingW, written, depthVars, streak, units, eofSeen,
                   clientClosed, refillAt, hasSeq, uploads, gotEof>>

\* REPLY_TIMEOUT: counted as an empty reply; next_write_seq stays.
ReplyTimeout(m) ==
    /\ InSelect /\ Cardinality(gaveUp) < MaxTimeouts
    /\ inflightOps' = inflightOps \ {m}
    /\ gaveUp' = gaveUp \cup {m.seq}
    /\ empties' = empties + 1
    /\ tier' = tier + 1
    /\ UNCHANGED <<lpc, sendSeq, writeSeq, pendingW, written, depthVars,
                   streak, units, eofSeen, clientClosed, refillAt, hasSeq, uploads, gotEof>>

\* Fault for the checks: the eof of a buffered reply is not looked at.
FlushNextNoEof ==
    /\ lpc = "flush"
    /\ \E p \in pendingW :
          /\ p.seq = writeSeq /\ p.resp.size # "bad"
          /\ pendingW' = pendingW \ {p}
          /\ WriteOut(p.seq)
          /\ Score(p.poll, p.resp)
    /\ UNCHANGED <<lpc, pipe, depthVars, eofSeen, clientClosed, refillAt, hasSeq, uploads, gotEof,
                   gaveUp>>

\* One turn of the flush of pending_writes.
FlushNext ==
    /\ lpc = "flush"
    /\ \E p \in pendingW :
          /\ p.seq = writeSeq /\ p.resp.size # "bad"
          /\ pendingW' = pendingW \ {p}
          /\ Deliver(p, p.resp)
    /\ UNCHANGED <<lpc, pipe, depthVars, clientClosed, refillAt, hasSeq, uploads, gotEof,
                   gaveUp>>

\* Undecodable data in a buffered reply: the entry is gone and only the flush
\* loop is left.
FlushBad ==
    /\ lpc = "flush"
    /\ \E p \in pendingW :
          /\ p.seq = writeSeq /\ p.resp.size = "bad"
          /\ pendingW' = pendingW \ {p}
          /\ gaveUp' = gaveUp \cup {p.seq}
    /\ lpc' = "adjust"
    /\ UNCHANGED <<pipe, writeSeq, written, depthVars, counters, eofSeen, clientClosed,
                   refillAt, hasSeq, uploads, gotEof>>

\* The write of a buffered reply fails: `?` again.
FlushFails ==
    /\ lpc = "flush"
    /\ \E p \in pendingW : p.seq = writeSeq /\ HasData(p.resp) /\ pendingW' = pendingW \ {p}
    /\ lpc' = "failed"
    /\ UNCHANGED <<pipe, writeSeq, written, depthVars, counters, eofSeen, clientClosed,
                   refillAt, hasSeq, uploads, history>>

FlushBreak ==
    /\ lpc = "flush"
    /\ \A p \in pendingW : p.seq # writeSeq
    /\ lpc' = "adjust"
    /\ UNCHANGED <<pipe, writeSeq, pendingW, written, depthVars, counters, eofSeen,
                   clientClosed, refillAt, hasSeq, uploads, history>>

\* Adaptive depth.  free: mux.elevated_sessions is below max_elevated.
AdjustDepth(free) ==
    IF ~hasSeq
    THEN UNCHANGED depthVars
    ELSE IF empties >= 2 /\ depth > InflightIdle
    THEN /\ depth' = InflightIdle
         /\ permit' = IF elevated THEN FALSE ELSE permit
         /\ elevated' = FALSE
    ELSE IF streak >= 1 /\ depth < InflightOptimist
    THEN depth' = InflightOptimist /\ UNCHANGED <<elevated, permit>>
    ELSE IF /\ streak >= 2 /\ depth >= InflightOptimist
            /\ depth < InflightActive /\ units >= ElevateUnits
            /\ elevated \/ free
    THEN depth' = depth + 1 /\ elevated' = TRUE /\ permit' = TRUE
    ELSE UNCHANGED depthVars

\* Re-arm the refill timer when the pipeline is short, except at idle depth
\* after empty replies (the keepalive path polls with back-off there).
ScheduleRefill ==
    refillAt' = IF /\ ~eofSeen /\ refillAt = NoTimer /\ Cardinality(inflightOps) < depth'
                 /\ ~(depth' <= InflightIdle /\ empties >= 2)
              THEN 0 ELSE refillAt

Adjust ==
    /\ lpc = "adjust"
    /\ \E free \in BOOLEAN : AdjustDepth(free)
    /\ ScheduleRefill
    /\ lpc' = "loop"
    /\ UNCHANGED <<pipe, writeSeq, pendingW, written, counters, eofSeen, clientClosed,
                   hasSeq, uploads, history>>

-----------------------------------------------------------------------------
\* After eof: the replies still in flight have 500 ms each.

InGrace == lpc = "loop" /\ eofSeen /\ inflightOps # {}

GraceInOrder(m, r) ==
    /\ InGrace /\ m.seq = writeSeq
    /\ inflightOps' = inflightOps \ {m}
    /\ WriteOut(m.seq)
    /\ lpc' = "grace"
    /\ UNCHANGED <<sendSeq, pendingW, depthVars, counters, eofSeen, clientClosed,
                   refillAt, hasSeq, uploads, history>>

GraceAhead(m, r) ==
    /\ InGrace /\ m.seq # writeSeq
    /\ inflightOps' = inflightOps \ {m}
    /\ pendingW' = pendingW \cup {[seq |-> m.seq, poll |-> m.poll, resp |-> r]}
    /\ UNCHANGED <<lpc, sendSeq, writeSeq, written, depthVars, counters,
                   eofSeen, clientClosed, refillAt, hasSeq, uploads, history>>

GraceFlush ==
    /\ lpc = "grace"
    /\ \E p \in pendingW : p.seq = writeSeq /\ pendingW' = pendingW \ {p} /\ WriteOut(p.seq)
    /\ UNCHANGED <<lpc, pipe, depthVars, counters, eofSeen, clientClosed, refillAt, hasSeq,
                   uploads, history>>

GraceFlushEnd ==
    /\ lpc = "grace"
    /\ \A p \in pendingW : p.seq # writeSeq
    /\ lpc' = "loop"
    /\ UNCHANGED <<pipe, writeSeq, pendingW, written, depthVars, counters, eofSeen,
                   clientClosed, refillAt, hasSeq, uploads, history>>

\* 500 ms without a reply, or a reply that is not Ok.
GraceOver ==
    /\ InGrace
    /\ Leave
    /\ UNCHANGED <<pipe, writeSeq, pendingW, written, depth, counters, eofSeen,
                   clientClosed, refillAt, hasSeq, uploads, history>>

\* Nothing in flight and either side has ended.
Exit ==
    /\ lpc = "loop" /\ inflightOps = {} /\ (eofSeen \/ clientClosed)
    /\ Leave
    /\ UNCHANGED <<pipe, writeSeq, pendingW, written, depth, counters, eofSeen,
                   clientClosed, refillAt, hasSeq, uploads, history>>

\* The idle read of the keepalive path sees the local close.
KeepaliveClose ==
    /\ InKeepalive /\ tier > 0
    /\ Leave
    /\ UNCHANGED <<pipe, writeSeq, pendingW, written, depth, counters, eofSeen,
                   clientClosed, refillAt, hasSeq, uploads, history>>

-----------------------------------------------------------------------------
\* Steps of the task that need no reply.
Local ==
    \/ Start \/ ReadData \/ ReadClose \/ KeepaliveData \/ KeepalivePoll \/ KeepaliveClose
    \/ RefillFires \/ FlushNext \/ FlushBad \/ FlushFails \/ FlushBreak \/ Adjust
    \/ GraceFlush \/ GraceFlushEnd \/ GraceOver \/ Exit

\* Steps that consume the reply r of op m.
Reply(m, r) ==
    ReplyInOrder(m, r) \/ ReplyAhead(m, r) \/ GraceInOrder(m, r) \/ GraceAhead(m, r)

\* Ops that end without a usable reply.
NoReply(m) == ReplyFails(m) \/ LocalWriteFails(m) \/ ReplyTimeout(m)

LoopNext ==
    \/ Local
    \/ \E m \in inflightOps : NoReply(m) \/ \E r \in Responses : Reply(m, r)

LoopSpec == LoopInit /\ [][LoopNext]_loopVars

\* Every op in flight is answered or times out; the task itself keeps running.
TaskRuns ==
    \/ Start \/ FlushNext \/ FlushBad \/ FlushBreak \/ Adjust
    \/ GraceFlush \/ GraceFlushEnd \/ GraceOver \/ Exit

Answered(s) == \E m \in inflightOps : m.seq = s /\ \E r \in Responses : Reply(m, r)

LoopFairness ==
    /\ WF_loopVars(TaskRuns) /\ WF_loopVars(KeepalivePoll)
    /\ \A s \in 0..(MaxSeq - 1) : WF_loopVars(Answered(s))

LoopFairSpec == LoopSpec /\ LoopFairness

-----------------------------------------------------------------------------
\* Properties

SeqsOf(ms) == {m.seq : m \in ms}
Ended == lpc \in {"done", "failed"}

\* Replies reach the local socket strictly in the order their ops were sent,
\* without a gap, however they overtake each other.
DeliveredInOrder ==
    writeSeq = Len(written) /\ \A i \in 1..Len(written) : written[i] = i - 1

\* While the task runs every op sent is in exactly one place: in flight, waiting
\* for an earlier reply, delivered, or given up.
OpsAccounted ==
    ~Ended =>
        /\ SeqsOf(inflightOps) \cup SeqsOf(pendingW) \cup {written[i] : i \in 1..Len(written)}
              \cup gaveUp = 0..(sendSeq - 1)
        /\ Cardinality(inflightOps) + Cardinality(pendingW) + Len(written)
              + Cardinality(gaveUp) = sendSeq

\* A reply that was given up is never passed over: nothing at or after it reaches
\* the local socket, so a late batch leaves no hole in the download.
GivenUpNotPassed == \A s \in gaveUp : writeSeq <= s

\* Once the node's eof has come in, the session ends.
EofEnds == gotEof ~> Ended
=============================================================================
