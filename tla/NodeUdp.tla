------------------------------- MODULE NodeUdp -------------------------------
(***************************************************************************)
(* One UDP session of the tunnel node (src/tunnel-node/src/main.rs): the   *)
(* reader task with its bounded queue, batch handlers that wait for and      *)
(* drain it, close, and the idle reaper.                                   *)
(*                                                                         *)
(* Datagrams are numbered as they come in from the upstream.  A step is    *)
(* what happens under one lock or between two awaits.                      *)
(***************************************************************************)
EXTENDS Naturals, Sequences, FiniteSets

CONSTANTS UBatches,      \* batch handlers
          UdpQueueLimit,  \* UDP_QUEUE_LIMIT
          MaxDatagrams,   \* bound: datagrams from the upstream
          UdpIdleLimit    \* reaper ticks without activity (120 s)

ASSUME NodeUdpAssumption ==
  UdpQueueLimit \in Nat \ {0} /\ MaxDatagrams \in Nat /\ UdpIdleLimit \in Nat

VARIABLES umap,       \* the session is in udp_sessions
          packets,      \* its received packets
          got,        \* datagrams received
          drops,      \* datagrams dropped at the limit
          ueof,       \* eof
          upermit,    \* notify holds a permit
          rtask,      \* reader: "recv", "notify", "eofnotify", "over"
          uidle,      \* ticks since last_active
          bpc,        \* per batch: "idle", "watch", "wait", "drain", "remove", "done"
          bwatch,     \* per batch: its watcher: "off", "notified", "check", "fired"
          heldPkts,   \* per batch: packets taken out and not yet answered
          beof,       \* per batch: eof of its drain
          answers,    \* datagrams taken out, in the order of the drains
          lostPkts,   \* those whose request was cancelled before it answered
          eofTold     \* some response carried eof

nudpvars == <<umap, packets, got, drops, ueof, upermit, rtask, uidle, bpc, bwatch, heldPkts, beof,
              answers, lostPkts, eofTold>>
udpSession == <<umap, packets, got, drops, ueof, upermit, rtask>>
udpBatch == <<bpc, bwatch, heldPkts, beof>>
udpHistory == <<answers, lostPkts, eofTold>>

NodeUdpTypeOK ==
  /\ umap \in BOOLEAN /\ ueof \in BOOLEAN /\ upermit \in BOOLEAN /\ eofTold \in BOOLEAN
  /\ Len(packets) <= UdpQueueLimit /\ got \in 0..MaxDatagrams
  /\ drops \subseteq 1..got /\ lostPkts \subseteq 1..got
  /\ rtask \in {"recv", "notify", "eofnotify", "over"} /\ uidle \in 0..UdpIdleLimit
  /\ bpc \in [UBatches -> {"idle", "watch", "wait", "drain", "remove", "done"}]
  /\ bwatch \in [UBatches -> {"off", "notified", "check", "fired"}]
  /\ beof \in [UBatches -> BOOLEAN]

\* udp_open has created the session, sent the first datagram and inserted it.
NodeUdpInit ==
  /\ umap = TRUE /\ packets = <<>> /\ got = 0 /\ drops = {} /\ ueof = FALSE /\ upermit = FALSE
  /\ rtask = "recv" /\ uidle = 0
  /\ bpc = [b \in UBatches |-> "idle"] /\ bwatch = [b \in UBatches |-> "off"]
  /\ heldPkts = [b \in UBatches |-> <<>>] /\ beof = [b \in UBatches |-> FALSE]
  /\ answers = <<>> /\ lostPkts = {} /\ eofTold = FALSE

-----------------------------------------------------------------------------
(* udp_reader_task *)

DropsNewest(n) == IF Len(packets) >= UdpQueueLimit THEN <<SubSeq(packets, 1, Len(packets) - 1), packets[Len(packets)]>>
                  ELSE <<packets, 0>>

\* At the limit the oldest datagram makes room: <<what stays, what went>>.
MakeRoom(n) == IF Len(packets) >= UdpQueueLimit THEN <<Tail(packets), Head(packets)>> ELSE <<packets, 0>>

UdpReceive ==
  /\ rtask = "recv" /\ got < MaxDatagrams /\ got' = got + 1
  /\ packets' = Append(MakeRoom(got')[1], got')
  /\ drops' = drops \union ({MakeRoom(got')[2]} \ {0})
  /\ uidle' = 0 /\ rtask' = "notify"
  /\ UNCHANGED <<umap, ueof, upermit, udpBatch, udpHistory>>

\* A recv error on the connected socket.
UdpRecvError ==
  /\ rtask = "recv" /\ ueof' = TRUE /\ rtask' = "eofnotify"
  /\ UNCHANGED <<umap, packets, got, drops, upermit, uidle, udpBatch, udpHistory>>

\* notify_one: a waiting watcher takes the notification, else it is kept.
UdpNotify ==
  /\ rtask \in {"notify", "eofnotify"}
  /\ rtask' = IF rtask = "notify" THEN "recv" ELSE "over"
  /\ \/ \E b \in UBatches : /\ bwatch[b] = "notified" /\ bwatch' = [bwatch EXCEPT ![b] = "check"]
                            /\ UNCHANGED upermit
     \/ /\ \A b \in UBatches : bwatch[b] # "notified"
        /\ upermit' = TRUE /\ UNCHANGED bwatch
  /\ UNCHANGED <<umap, packets, got, drops, ueof, uidle, bpc, heldPkts, beof, udpHistory>>

-----------------------------------------------------------------------------
(* A batch with a udp_data op *)

\* Uplink counts as activity, an empty poll does not.  Without a session the
\* answer is an eof.
UdpLookup(b) ==
  /\ bpc[b] = "idle"
  /\ IF umap
       THEN /\ bpc' = [bpc EXCEPT ![b] = "watch"] /\ uidle' \in {uidle, 0} /\ UNCHANGED eofTold
       ELSE /\ bpc' = [bpc EXCEPT ![b] = "done"] /\ eofTold' = TRUE /\ UNCHANGED uidle
  /\ UNCHANGED <<udpSession, bwatch, heldPkts, beof, answers, lostPkts>>

\* The watcher starts: a kept permit is taken at once.
UdpWatch(b) ==
  /\ bpc[b] = "watch" /\ bpc' = [bpc EXCEPT ![b] = "wait"]
  /\ bwatch' = [bwatch EXCEPT ![b] = IF upermit THEN "check" ELSE "notified"]
  /\ upermit' = FALSE
  /\ UNCHANGED <<umap, packets, got, drops, ueof, rtask, uidle, heldPkts, beof, udpHistory>>

\* A stale permit sends it back to waiting.
UdpWatcherChecks(b) ==
  /\ bwatch[b] = "check"
  /\ IF ueof \/ packets # <<>> THEN bwatch' = [bwatch EXCEPT ![b] = "fired"] /\ UNCHANGED upermit
     ELSE /\ bwatch' = [bwatch EXCEPT ![b] = IF upermit THEN "check" ELSE "notified"] /\ upermit' = FALSE
  /\ UNCHANGED <<umap, packets, got, drops, ueof, rtask, uidle, bpc, heldPkts, beof, udpHistory>>

\* Ready at once, woken, or at the deadline; the settle loop only delays.  The
\* watcher is aborted with its guard.
UdpWaitOver(b) ==
  /\ bpc[b] = "wait" /\ bpc' = [bpc EXCEPT ![b] = "drain"] /\ bwatch' = [bwatch EXCEPT ![b] = "off"]
  /\ UNCHANGED <<udpSession, uidle, heldPkts, beof, udpHistory>>

\* drain_udp_now: the whole queue, then eof, under the lock of the queue.
drain_udp_now == packets

UdpDrain(b) ==
  /\ bpc[b] = "drain"
  /\ heldPkts' = [heldPkts EXCEPT ![b] = drain_udp_now]
  /\ packets' = SubSeq(packets, Len(drain_udp_now) + 1, Len(packets))
  /\ beof' = [beof EXCEPT ![b] = ueof] /\ answers' = answers \o drain_udp_now
  /\ bpc' = [bpc EXCEPT ![b] = "remove"]
  /\ UNCHANGED <<umap, got, drops, ueof, upermit, rtask, uidle, bwatch, lostPkts, eofTold>>

\* Sessions that reported eof leave the map, and the response is sent.
UdpRespond(b) ==
  /\ bpc[b] = "remove" /\ bpc' = [bpc EXCEPT ![b] = "done"]
  /\ umap' = (umap /\ ~beof[b]) /\ rtask' = (IF beof[b] /\ umap THEN "over" ELSE rtask)
  /\ eofTold' = (eofTold \/ beof[b]) /\ heldPkts' = [heldPkts EXCEPT ![b] = <<>>]
  /\ UNCHANGED <<packets, got, drops, ueof, upermit, uidle, bwatch, beof, answers, lostPkts>>

\* The HTTP request is dropped: what it had taken out is lost.
UdpCancel(b) ==
  /\ bpc[b] \in {"watch", "wait", "drain", "remove"} /\ bpc' = [bpc EXCEPT ![b] = "done"]
  /\ bwatch' = [bwatch EXCEPT ![b] = "off"]
  /\ lostPkts' = lostPkts \union {heldPkts[b][j] : j \in DOMAIN heldPkts[b]}
  /\ heldPkts' = [heldPkts EXCEPT ![b] = <<>>]
  /\ UNCHANGED <<udpSession, uidle, beof, answers, eofTold>>

UdpBatchAgain(b) ==
  /\ bpc[b] = "done" /\ bpc' = [bpc EXCEPT ![b] = "idle"] /\ beof' = [beof EXCEPT ![b] = FALSE]
  /\ UNCHANGED <<udpSession, uidle, bwatch, heldPkts, udpHistory>>

-----------------------------------------------------------------------------
(* close and the reaper *)

UdpClose ==
  /\ umap /\ umap' = FALSE /\ rtask' = "over"
  /\ UNCHANGED <<packets, got, drops, ueof, upermit, uidle, udpBatch, udpHistory>>

UdpTick ==
  /\ umap
  /\ IF uidle = UdpIdleLimit THEN umap' = FALSE /\ rtask' = "over" /\ UNCHANGED uidle
                             ELSE uidle' = uidle + 1 /\ UNCHANGED <<umap, rtask>>
  /\ UNCHANGED <<packets, got, drops, ueof, upermit, udpBatch, udpHistory>>

NodeUdpNext ==
  \/ UdpReceive \/ UdpRecvError \/ UdpNotify \/ UdpClose \/ UdpTick
  \/ \E b \in UBatches : UdpLookup(b) \/ UdpWatch(b) \/ UdpWatcherChecks(b) \/ UdpWaitOver(b)
                         \/ UdpDrain(b) \/ UdpRespond(b) \/ UdpCancel(b) \/ UdpBatchAgain(b)

NodeUdpSpec == NodeUdpInit /\ [][NodeUdpNext]_nudpvars

-----------------------------------------------------------------------------
(* Properties *)

InSeq(s) == {s[j] : j \in DOMAIN s}

\* Whatever batches drain the session at the same time, datagrams are taken
\* out in their order and once; each one received was taken out, is queued, or
\* was dropped at the limit, and then it is older than everything that is
\* queued; of those taken out no two requests hold the same one, and one lost
\* with a cancelled request is held by no other; and a drain that reports eof
\* leaves nothing behind, since the session leaves the map with it.
DatagramsAccounted ==
  /\ \A j \in 1..(Len(answers) - 1) : answers[j] < answers[j + 1]
  /\ 1..got = InSeq(answers) \union InSeq(packets) \union drops
  /\ \A d \in drops, q \in InSeq(packets) : d < q
  /\ \A b \in UBatches : /\ InSeq(heldPkts[b]) \subseteq InSeq(answers) \ lostPkts
                         /\ \A c \in UBatches \ {b} : InSeq(heldPkts[b]) \intersect InSeq(heldPkts[c]) = {}
  /\ (\E b \in UBatches : beof[b]) => packets = <<>>
=============================================================================
