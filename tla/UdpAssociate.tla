---------------------------- MODULE UdpAssociate ----------------------------
(***************************************************************************)
(* One SOCKS5 UDP association (src/src/proxy_server.rs): the dispatch loop *)
(* that turns client datagrams into tunnel sessions, the table of sessions *)
(* by target with its first-in-first-out cap, one task per session and the *)
(* teardown when the control connection closes.  A datagram is its sender, *)
(* its target and whether it is too large; framing and logs are left out.  *)
(***************************************************************************)
EXTENDS Integers, Sequences, SequencesExt, FiniteSets

CONSTANTS
  Peers,      \* UDP source addresses on the client's host
  UTargets,   \* datagram targets
  UCap,       \* MAX_UDP_SESSIONS_PER_ASSOCIATE
  UQueue,     \* UDP_UPLINK_QUEUE
  MaxSids     \* bound: sessions opened

ASSUME UdpAssumption == UCap \in Nat \ {0} /\ UQueue \in Nat \ {0} /\ MaxSids \in Nat /\ "none" \notin Peers

Sids == 1..MaxSids

VARIABLES
  table,     \* sid per target, 0 when there is none
  torder,    \* targets in insertion order
  locked,    \* client_addr
  disp,      \* the dispatch loop: what it waits for, for which target and sid
  task,      \* step of each session's task
  target,    \* its target
  uplink,     \* datagrams in its uplink channel
  closed,    \* sids for which close_session was called
  assoc      \* the association is up

udpvars == <<table, torder, locked, disp, task, target, uplink, closed, assoc>>

Idle == [at |-> "idle", t |-> "none", sid |-> 0]
NoTarget == "none"

UdpTypeOK ==
  /\ table \in [UTargets -> 0..MaxSids] /\ torder \in Seq(UTargets)
  /\ locked \in Peers \cup {"none"}
  /\ disp \in [at : {"idle", "opening", "insert"}, t : UTargets \cup {NoTarget}, sid : 0..MaxSids]
  /\ task \in [Sids -> {"none", "wait", "busy", "close", "remove", "gone"}]
  /\ target \in [Sids -> UTargets \cup {NoTarget}] /\ uplink \in [Sids -> 0..UQueue]
  /\ closed \subseteq Sids /\ assoc \in BOOLEAN

UdpInit ==
  /\ table = [t \in UTargets |-> 0] /\ torder = <<>> /\ locked = "none" /\ disp = Idle
  /\ task = [s \in Sids |-> "none"] /\ target = [s \in Sids |-> NoTarget]
  /\ uplink = [s \in Sids |-> 0] /\ closed = {} /\ assoc = TRUE

Used == {t \in UTargets : table[t] # 0}
\* UdpRelayState::remove looks for the first entry of the target.
Drop(seq, t) == RemoveFirst(seq, t)

\* evict_until_under pops the oldest entries until there is room for one more, or
\* nothing to pop; an entry without a session is popped as well.
Popped == Min({n \in 0..Len(torder) : n = Len(torder) \/ Cardinality(Used \ {torder[i] : i \in 1..n}) < UCap})

TaskTo(s, step) == task' = [task EXCEPT ![s] = step]

-----------------------------------------------------------------------------
(* The dispatch loop *)

\* A datagram that is not from the client's host, does not parse or is QUIC
\* under block_quic changes nothing; one from another port than the first
\* accepted one is dropped, one that is too large is dropped after it may
\* have locked the port.
Datagram(p, t, big) ==
  /\ assoc /\ disp.at = "idle" /\ locked \in {"none", p}
  /\ locked' = p
  /\ \/ big /\ UNCHANGED <<table, torder, disp, uplink>>
     \/ /\ ~big /\ table[t] # 0          \* try_send: a full or closed channel drops it
        /\ uplink' = [uplink EXCEPT ![table[t]] = IF task[table[t]] \in {"wait", "busy"} /\ @ < UQueue THEN @ + 1 ELSE @]
        /\ UNCHANGED <<table, torder, disp>>
     \/ /\ ~big /\ table[t] = 0          \* evict_until_under, then udp_open
        /\ table' = [x \in UTargets |-> IF \E i \in 1..Popped : torder[i] = x THEN 0 ELSE table[x]]
        /\ torder' = SubSeq(torder, Popped + 1, Len(torder))
        /\ disp' = [at |-> "opening", t |-> t, sid |-> 0]
        /\ UNCHANGED uplink
  /\ UNCHANGED <<task, target, closed, assoc>>

\* The open failed, gave no sid or was answered with eof: not tracked.
OpenNotTracked ==
  /\ disp.at = "opening" /\ disp' = Idle
  /\ UNCHANGED <<table, torder, locked, task, target, uplink, closed, assoc>>

\* The session's task is spawned; the table follows once the lock is free.
OpenTracked ==
  /\ disp.at = "opening"
  /\ \E s \in Sids :
       /\ task[s] = "none" /\ \A r \in Sids : r < s => task[r] # "none"
       /\ disp' = [disp EXCEPT !.at = "insert", !.sid = s]
       /\ TaskTo(s, "wait") /\ target' = [target EXCEPT ![s] = disp.t]
  /\ UNCHANGED <<table, torder, locked, uplink, closed, assoc>>

InsertSession ==
  /\ disp.at = "insert" /\ disp' = Idle
  /\ table' = [table EXCEPT ![disp.t] = disp.sid] /\ torder' = Append(torder, disp.t)
  /\ UNCHANGED <<locked, task, target, uplink, closed, assoc>>

\* The control connection closed: the table's sessions are closed, the tasks
\* are aborted wherever they are.
Teardown ==
  /\ assoc /\ disp.at = "idle" /\ assoc' = FALSE
  /\ closed' = closed \cup {table[t] : t \in Used}
  /\ table' = [t \in UTargets |-> 0] /\ torder' = <<>>
  /\ task' = [s \in Sids |-> IF task[s] = "none" THEN "none" ELSE "gone"]
  /\ UNCHANGED <<locked, disp, target, uplink>>

-----------------------------------------------------------------------------
(* udp_session_task *)

\* The first poll is sent UDP_INITIAL_POLL_DELAY after the spawn, when the
\* insert is long done.
Inserted(s) == ~(disp.at = "insert" /\ disp.sid = s)

\* A queued datagram goes first (biased), else the poll timer fires.
TaskSends(s) ==
  /\ task[s] = "wait" /\ Inserted(s)
  /\ uplink' = [uplink EXCEPT ![s] = IF @ > 0 THEN @ - 1 ELSE 0]
  /\ TaskTo(s, "busy")
  /\ UNCHANGED <<table, torder, locked, disp, target, closed, assoc>>

\* recv returns None: the table no longer holds the sender and nothing is
\* queued.
UplinkGone(s) ==
  /\ task[s] = "wait" /\ Inserted(s) /\ table[target[s]] # s /\ uplink[s] = 0
  /\ TaskTo(s, "close")
  /\ UNCHANGED <<table, torder, locked, disp, target, uplink, closed, assoc>>

\* Packets or none go to the client and the loop goes on; an error or eof
\* ends it.
TaskReply(s) ==
  /\ task[s] = "busy"
  /\ TaskTo(s, "wait") \/ TaskTo(s, "close")
  /\ UNCHANGED <<table, torder, locked, disp, target, uplink, closed, assoc>>

TaskCloses(s) ==
  /\ task[s] = "close" /\ TaskTo(s, "remove") /\ closed' = closed \cup {s}
  /\ UNCHANGED <<table, torder, locked, disp, target, uplink, assoc>>

RemoveNothing(s) ==
  /\ task[s] = "remove" /\ TaskTo(s, "gone")
  /\ UNCHANGED <<table, torder, locked, disp, target, uplink, closed, assoc>>

\* The task takes its target out of the table, whichever session is there.
TaskRemoves(s) ==
  /\ task[s] = "remove" /\ TaskTo(s, "gone")
  /\ table' = [table EXCEPT ![target[s]] = 0] /\ torder' = Drop(torder, target[s])
  /\ UNCHANGED <<locked, disp, target, uplink, closed, assoc>>

SessionTaskStep(s) ==
  TaskSends(s) \/ UplinkGone(s) \/ TaskReply(s) \/ TaskCloses(s) \/ TaskRemoves(s)

UdpNext ==
  \/ \E p \in Peers, t \in UTargets, big \in BOOLEAN : Datagram(p, t, big)
  \/ OpenNotTracked \/ OpenTracked \/ InsertSession \/ Teardown
  \/ \E s \in Sids : SessionTaskStep(s)

\* Each task and the dispatch loop are scheduled by the runtime and every
\* mux call they wait for is answered or times out.
UdpFairness ==
  /\ \A s \in Sids : WF_udpvars(SessionTaskStep(s))
  /\ WF_udpvars(OpenNotTracked \/ OpenTracked) /\ WF_udpvars(InsertSession)

UdpSpec == UdpInit /\ [][UdpNext]_udpvars /\ UdpFairness

-----------------------------------------------------------------------------
(* Properties *)

\* The entries of seq are the members of S, each of them once.
Lists(seq, S) ==
  /\ \A i, j \in 1..Len(seq) : seq[i] = seq[j] => i = j
  /\ {seq[i] : i \in 1..Len(seq)} = S

\* The table of sessions is bounded by its cap also while an open is under way,
\* the insertion order is "in lockstep" with it (no stale entry, no duplicate,
\* none missing), and an entry is a session of its target whose task has yet to
\* take it out: whatever sessions of a target overtake each other, there is no
\* entry left whose task has ended.
TableSound ==
  /\ Cardinality(Used) <= UCap
  /\ Lists(torder, Used)
  /\ \A t \in Used : target[table[t]] = t /\ task[table[t]] \in {"wait", "busy", "close", "remove"}

Dead(t) == table[t] # 0 /\ task[table[t]] \in {"close", "remove", "gone"}

\* A target is not a black hole for good: when the task behind its table
\* entry has ended, the entry goes away, so a later datagram opens a new
\* session, also when sessions of the same target overtake each other.
DeadEntryRemoved == \A t \in UTargets : Dead(t) ~> ~Dead(t)
=============================================================================
