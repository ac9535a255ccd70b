--------------------------- MODULE FronterProofs ----------------------------
(***************************************************************************)
(* The domain fronter's connections and downloads: the HTTP/1 pool, the    *)
(* HTTP/2 cell, the reader of a response, and the parallel range download  *)
(* as an implementation of OrderedStream, for every number of calls and    *)
(* sockets, every response and every size of the entity, the chunks and    *)
(* the pool.                                                               *)
(***************************************************************************)
EXTENDS H1Pool, H2Transport, RangeDownload, ResponseReader, SequenceTheorems, SumTheorems

(* HTTP/1 pool *)

Entries == [at : {"closed", "pool"} \cup PoolUsers, age : Int, owed : {"no", "due", "rest"}]

SockTyped ==
  /\ sock \in [Sockets -> Entries]
  /\ hpc \in [PoolUsers -> {"idle", "opening", "open", "sent", "read"}]

\* A call has at most one socket, and none unless it is inside an exchange.
OneEach == \A s, t \in Sockets : sock[s].at \in PoolUsers /\ sock[s].at = sock[t].at => s = t
Engaged == \A s \in Sockets : sock[s].at \in PoolUsers => hpc[sock[s].at] \in {"open", "sent", "read"}

\* A due response belongs to the call that is between its request and the answer.
Awaited == \A s \in Sockets : sock[s].owed = "due" => sock[s].at \in PoolUsers /\ hpc[sock[s].at] = "sent"

PInv == SockTyped /\ OneEach /\ Engaged /\ Awaited

\* The places of a socket differ from the calls.
LEMMA Places == "pool" \notin PoolUsers /\ "closed" \notin PoolUsers
  BY PoolAssumption

\* All sockets are closed.
LEMMA PoolInitial == PoolInit => PInv
  BY Places DEF PoolInit, PInv, SockTyped, Entries, OneEach, Engaged, Awaited, Shut, Fresh

\* Closing sockets, or moving one that owes nothing into the pool, is harmless
\* while the calls stay where they are.
LEMMA ShutKeeps ==
  ASSUME PInv, UNCHANGED hpc, sock' \in [Sockets -> Entries],
         \A s \in Sockets : \/ sock'[s].at = sock[s].at /\ sock'[s].owed = sock[s].owed
                            \/ sock'[s].at \in {"pool", "closed"} /\ sock'[s].owed # "due"
  PROVE  PInv'
<1>1. SockTyped' BY DEF PInv, SockTyped
<1>2. OneEach' BY Places DEF PInv, OneEach
<1>3. Engaged' BY Places DEF PInv, Engaged
<1>4. Awaited' BY Places DEF PInv, Awaited
<1> QED BY <1>1, <1>2, <1>3, <1>4 DEF PInv

\* What eviction leaves.
LEMMA EvictFact ==
  ASSUME PInv
  PROVE  /\ Evict(sock) \in [Sockets -> Entries]
         /\ \A s \in Sockets : \/ Evict(sock)[s] = sock[s]
                               \/ sock[s].at = "pool" /\ Evict(sock)[s].at = "closed" /\ Evict(sock)[s].owed = "no"
  BY DEF Evict, PInv, SockTyped, Entries, Shut, Fresh

\* What a socket put back looks like.
LEMMA PushFact ==
  ASSUME PInv, NEW s \in Sockets, NEW e \in Entries
  PROVE  /\ Push(s, e) \in [Sockets -> Entries]
         /\ \A t \in Sockets \ {s} : Push(s, e)[t] = sock[t]
         /\ Push(s, e)[s].at \in {"pool", "closed"} /\ Push(s, e)[s].owed \in {"no", e.owed}
  BY DEF Push, PInv, SockTyped, Entries, Shut, Fresh

\* A call without a socket takes a pooled one that owes nothing, or opens one.
LEMMA TakeKeeps ==
  ASSUME PInv, NEW c \in PoolUsers, AcquireSock(c) \/ OpenOwn(c)
  PROVE  PInv'
<1>1. hpc[c] \in {"idle", "opening"} /\ (\A s \in Sockets : sock[s].at # c)
  BY DEF AcquireSock, OpenOwn, PInv, Engaged
<1>2. \/ Step(c, "opening") /\ sock' = Evict(sock)
      \/ Step(c, "idle") /\ UNCHANGED sock
      \/ \E s \in Pooled : Step(c, "open") /\ sock' = [Evict(sock) EXCEPT ![s].at = c] /\ sock[s].age # Expired
      \/ \E s \in Closed : Step(c, "open") /\ sock' = [sock EXCEPT ![s] = NewSock(c, Fresh)]
  BY DEF AcquireSock, OpenOwn
<1>3. CASE (Step(c, "opening") /\ sock' = Evict(sock)) \/ (Step(c, "idle") /\ UNCHANGED sock)
  <2>1. /\ sock' \in [Sockets -> Entries]
        /\ \A s \in Sockets : sock'[s] = sock[s] \/ (sock'[s].at = "closed" /\ sock'[s].owed = "no")
    BY <1>3, EvictFact DEF PInv, SockTyped
  <2>2. /\ hpc' \in [PoolUsers -> {"idle", "opening", "open", "sent", "read"}]
        /\ \A d \in PoolUsers \ {c} : hpc'[d] = hpc[d]
    BY <1>3 DEF Step, PInv, SockTyped
  <2> QED BY <1>1, <2>1, <2>2, Places DEF PInv, SockTyped, OneEach, Engaged, Awaited
<1>4. ASSUME NEW s \in Sockets, sock[s].at \in {"pool", "closed"}, Step(c, "open"),
             \/ sock' = [Evict(sock) EXCEPT ![s].at = c] /\ sock[s].age # Expired
             \/ sock' = [sock EXCEPT ![s] = NewSock(c, Fresh)]
      PROVE  PInv'
  <2>1. sock[s].owed # "due" BY <1>4, Places DEF PInv, Awaited
  <2>2. sock' \in [Sockets -> Entries] /\ sock'[s].at = c /\ sock'[s].owed # "due"
    <3>1. CASE sock' = [Evict(sock) EXCEPT ![s].at = c] /\ sock[s].age # Expired
      BY <3>1, <2>1, EvictFact DEF Entries, PInv, SockTyped
    <3>2. CASE sock' = [sock EXCEPT ![s] = NewSock(c, Fresh)]
      BY <3>2 DEF Entries, NewSock, Fresh, PInv, SockTyped
    <3> QED BY <1>4, <3>1, <3>2
  <2>3. \A t \in Sockets \ {s} : sock'[t] = sock[t] \/ (sock'[t].at = "closed" /\ sock'[t].owed = "no")
    BY <1>4, EvictFact DEF PInv, SockTyped
  <2>4. /\ hpc' \in [PoolUsers -> {"idle", "opening", "open", "sent", "read"}] /\ hpc'[c] = "open"
        /\ \A d \in PoolUsers \ {c} : hpc'[d] = hpc[d]
    BY <1>4 DEF Step, PInv, SockTyped
  <2>5. SockTyped' BY <2>2, <2>4 DEF SockTyped
  <2>6. OneEach' BY <1>1, <2>2, <2>3, Places DEF PInv, OneEach
  <2>7. Engaged' BY <1>1, <2>2, <2>3, <2>4, Places DEF PInv, Engaged
  <2>8. Awaited' BY <1>1, <2>2, <2>3, <2>4, Places DEF PInv, Awaited
  <2> QED BY <2>5, <2>6, <2>7, <2>8 DEF PInv
<1>5. ASSUME NEW s \in Pooled, Step(c, "open"), sock' = [Evict(sock) EXCEPT ![s].at = c], sock[s].age # Expired
      PROVE  PInv'
  BY <1>4, <1>5 DEF Pooled
<1>6. ASSUME NEW s \in Closed, Step(c, "open"), sock' = [sock EXCEPT ![s] = NewSock(c, Fresh)]
      PROVE  PInv'
  BY <1>4, <1>6 DEF Closed
<1> QED BY <1>2, <1>3, <1>5, <1>6

\* Inside an exchange the socket stays with its call.
LEMMA ExchangeKeeps ==
  ASSUME PInv, NEW c \in PoolUsers, NEW s \in Sockets,
         SendRequest(c, s) \/ ReadResponse(c, s) \/ FollowRedirect(c, s)
  PROVE  PInv'
<1>1. PICK o \in {"no", "due", "rest"}, p \in {"sent", "read"} :
        /\ sock[s].at = c /\ sock' = [sock EXCEPT ![s].owed = o] /\ Step(c, p)
        /\ o = "due" => p = "sent"
  BY DEF SendRequest, ReadResponse, FollowRedirect
<1>2. /\ sock' \in [Sockets -> Entries] /\ sock'[s].owed = o
      /\ \A t \in Sockets : sock'[t].at = sock[t].at
      /\ \A t \in Sockets \ {s} : sock'[t] = sock[t]
  BY <1>1 DEF PInv, SockTyped, Entries
<1>3. /\ hpc' \in [PoolUsers -> {"idle", "opening", "open", "sent", "read"}] /\ hpc'[c] = p
      /\ \A d \in PoolUsers \ {c} : hpc'[d] = hpc[d]
  BY <1>1 DEF Step, PInv, SockTyped
<1>4. SockTyped' BY <1>2, <1>3 DEF SockTyped
<1>5. OneEach' BY <1>2 DEF PInv, OneEach
<1>6. Engaged' BY <1>2, <1>3 DEF PInv, Engaged
<1>7. Awaited' BY <1>1, <1>2, <1>3 DEF PInv, OneEach, Awaited
<1> QED BY <1>4, <1>5, <1>6, <1>7 DEF PInv

\* The end of a call: its socket goes back only behind a response that was read.
LEMMA GiveBackKeeps ==
  ASSUME PInv, NEW c \in PoolUsers, NEW s \in Sockets, Release(c, s) \/ Abandon(c, s)
  PROVE  PInv'
<1>1. sock[s].at = c /\ Step(c, "idle")
      /\ (sock' = [sock EXCEPT ![s] = Shut] \/ (hpc[c] = "read" /\ sock' = Push(s, sock[s])))
  BY DEF Release, Abandon, CallOver
<1>2. /\ sock' \in [Sockets -> Entries] /\ sock'[s].at \in {"pool", "closed"} /\ sock'[s].owed # "due"
      /\ \A t \in Sockets \ {s} : sock'[t] = sock[t]
  <2>1. CASE sock' = [sock EXCEPT ![s] = Shut]
    BY <2>1 DEF PInv, SockTyped, Entries, Shut, Fresh
  <2>2. CASE hpc[c] = "read" /\ sock' = Push(s, sock[s])
    <3>1. sock[s] \in Entries /\ sock[s].owed # "due"
      BY <1>1, <2>2 DEF PInv, SockTyped, Awaited
    <3> QED BY <2>2, <3>1, PushFact
  <2> QED BY <1>1, <2>1, <2>2
<1>3. /\ hpc' \in [PoolUsers -> {"idle", "opening", "open", "sent", "read"}]
      /\ \A d \in PoolUsers \ {c} : hpc'[d] = hpc[d]
  BY <1>1 DEF Step, PInv, SockTyped
<1>4. \A t \in Sockets \ {s} : sock[t].at # c BY <1>1 DEF PInv, OneEach
<1>5. SockTyped' BY <1>2, <1>3 DEF SockTyped
<1>6. OneEach' BY <1>2, Places DEF PInv, OneEach
<1>7. Engaged' BY <1>2, <1>3, <1>4, Places DEF PInv, Engaged
<1>8. Awaited' BY <1>2, <1>3, <1>4, Places DEF PInv, Awaited
<1> QED BY <1>5, <1>6, <1>7, <1>8 DEF PInv

\* The background tasks open into the pool and evict from it, and sockets age.
LEMMA BackgroundKeeps ==
  ASSUME PInv, WarmOne \/ RefillTick \/ RefillCount \/ RefillOpen \/ \E s \in Sockets : SocketAges(s)
  PROVE  PInv'
<1>1. ASSUME NEW a \in Int, OpenIntoPool(a), UNCHANGED hpc PROVE PInv'
  <2>1. PICK s \in Closed : sock' = Push(s, NewSock("pool", a)) BY <1>1 DEF OpenIntoPool
  <2>2. NewSock("pool", a) \in Entries /\ NewSock("pool", a).owed = "no" BY DEF NewSock, Entries
  <2>3. s \in Sockets BY DEF Closed
  <2>4. /\ sock' \in [Sockets -> Entries]
        /\ \A t \in Sockets \ {s} : sock'[t] = sock[t]
        /\ sock'[s].at \in {"pool", "closed"} /\ sock'[s].owed = "no"
    BY <2>1, <2>2, <2>3, PushFact
  <2>5. \A t \in Sockets : \/ sock'[t].at = sock[t].at /\ sock'[t].owed = sock[t].owed
                           \/ sock'[t].at \in {"pool", "closed"} /\ sock'[t].owed # "due"
    BY <2>4
  <2> QED BY <1>1, <2>4, <2>5, ShutKeeps
<1>2. ASSUME UNCHANGED <<sock, hpc>> PROVE PInv'
  BY <1>2 DEF PInv, SockTyped, OneEach, Engaged, Awaited
<1>3. CASE WarmOne
  <2>1. WarmAge(warmed) \in Int BY DEF WarmAge, Expired, Waning, Fresh
  <2> QED BY <1>1, <1>2, <1>3, <2>1 DEF WarmOne
<1>4. CASE RefillTick
  <2>1. sock' = Evict(sock) /\ UNCHANGED hpc BY <1>4 DEF RefillTick
  <2>2. /\ sock' \in [Sockets -> Entries]
        /\ \A s \in Sockets : \/ sock'[s].at = sock[s].at /\ sock'[s].owed = sock[s].owed
                              \/ sock'[s].at \in {"pool", "closed"} /\ sock'[s].owed # "due"
    BY <2>1, EvictFact
  <2> QED BY <2>1, <2>2, ShutKeeps
<1>5. CASE RefillCount BY <1>2, <1>5 DEF RefillCount
<1>6. CASE RefillOpen
  <2>1. Fresh \in Int BY DEF Fresh
  <2> QED BY <1>1, <1>2, <1>6, <2>1 DEF RefillOpen
<1>7. CASE \E s \in Sockets : SocketAges(s)
  <2>1. PICK s \in Sockets : SocketAges(s) BY <1>7
  <2>2. sock' = [sock EXCEPT ![s].age = @ + 1] /\ UNCHANGED hpc BY <2>1 DEF SocketAges
  <2>3. sock' \in [Sockets -> Entries] /\ \A t \in Sockets : sock'[t].at = sock[t].at /\ sock'[t].owed = sock[t].owed
    BY <2>2 DEF PInv, SockTyped, Entries
  <2> QED BY <2>2, <2>3, ShutKeeps
<1> QED BY <1>3, <1>4, <1>5, <1>6, <1>7

\* Every step of the pool.
LEMMA PoolStep == PInv /\ [PoolNext]_poolvars => PInv'
<1> SUFFICES ASSUME PInv, [PoolNext]_poolvars PROVE PInv'
  OBVIOUS
<1>1. CASE UNCHANGED poolvars
  BY <1>1 DEF poolvars, PInv, SockTyped, OneEach, Engaged, Awaited
<1>2. CASE PoolNext
  BY <1>2, TakeKeeps, ExchangeKeeps, GiveBackKeeps, BackgroundKeeps DEF PoolNext
<1> QED BY <1>1, <1>2

\* Whatever calls, redirects, timeouts, evictions and refills interleave, a socket
\* on which a response is due is with the call that waits for it (acquire, release,
\* the h1 exchanges, run_pool_refill).
THEOREM ResponsesNeverCross == PoolSpec => []NoStrayResponse
<1>1. PInv => NoStrayResponse
  BY Places DEF PInv, Awaited, NoStrayResponse
<1> QED BY <1>1, PoolInitial, PoolStep, PTL DEF PoolSpec

-----------------------------------------------------------------------------
(* HTTP/2 cell *)

\* A call inside the handshake holds h2_open_lock, and the cell it is about to
\* replace cannot be handed out: only the holder of the lock fills the cell, and
\* a connection past its lifetime or flagged dead stays so.
OpenerAlone == \A c \in Callers : tpc[c] = "opening" => opener = c /\ ~Usable

H2Inv == tpc \in [Callers -> {"idle", "backoff", "trylock", "opening", "h2", "h1"}] /\ OpenerAlone

HealthyStep ==
  (Usable /\ cell' # cell)
    => \/ disabled'
       \/ \E c \in Callers : tpc[c] = "h2" /\ tgen[c] = cell /\ tpc'[c] # "h2"

\* No connection yet.
LEMMA H2Initial == H2Init => H2Inv
  BY DEF H2Init, H2Inv, OpenerAlone

\* Looking the cell up changes nothing but the caller; the lock goes to a call
\* only while nobody holds it and the cell is unusable.
LEMMA EnsureKeeps ==
  ASSUME H2Inv, NEW c \in Callers, EnsureFast(c) \/ EnsureBackoff(c) \/ EnsureLock(c)
  PROVE  H2Inv' /\ HealthyStep
<1> USE DEF H2Inv, OpenerAlone, HealthyStep, Usable, UseCell, Goto, H2Over, connvars
<1>1. CASE EnsureFast(c) BY <1>1 DEF EnsureFast
<1>2. CASE EnsureBackoff(c) BY <1>2 DEF EnsureBackoff
<1>3. CASE EnsureLock(c) BY <1>3, H2Assumption DEF EnsureLock, NoCaller
<1> QED BY <1>1, <1>2, <1>3

\* The end of a handshake: the caller was the only one inside it.
LEMMA OpenedKeeps ==
  ASSUME H2Inv, NEW c \in Callers, EnsureOpened(c) \/ EnsureRefused(c) \/ EnsureFailed(c)
  PROVE  H2Inv' /\ HealthyStep
<1>1. tpc[c] = "opening" /\ ~Usable /\ (\A d \in Callers : tpc[d] = "opening" => d = c)
  BY DEF EnsureOpened, EnsureRefused, EnsureFailed, OpenDone, H2Inv, OpenerAlone
<1>2. PICK p \in {"h1", "h2"} : tpc' = [tpc EXCEPT ![c] = p]
  BY DEF EnsureOpened, EnsureRefused, EnsureFailed, Goto
<1>3. H2Inv'
  BY <1>1, <1>2 DEF H2Inv, OpenerAlone
<1> QED BY <1>1, <1>3 DEF HealthyStep

\* A relay over h2 discards the connection it used and no other; a call that is
\* dropped gives the lock back and leaves the cell alone.
LEMMA RelayKeeps ==
  ASSUME H2Inv, NEW c \in Callers,
         H2RelayOk(c) \/ FrontingRefused(c) \/ RoundTripFails(c) \/ CallDropped(c) \/ H1Over(c)
  PROVE  H2Inv' /\ HealthyStep
<1> USE DEF H2Inv, OpenerAlone, HealthyStep, Usable, Goto, H2Over, connvars
<1>1. CASE H2RelayOk(c) BY <1>1 DEF H2RelayOk
<1>2. CASE FrontingRefused(c) BY <1>2 DEF FrontingRefused
<1>3. CASE RoundTripFails(c) BY <1>3 DEF RoundTripFails, Poison
<1>4. CASE CallDropped(c) BY <1>4 DEF CallDropped
<1>5. CASE H1Over(c) BY <1>5 DEF H1Over
<1> QED BY <1>1, <1>2, <1>3, <1>4, <1>5

\* Connections die, are flagged and age: none becomes usable again.
LEMMA ConnectionKeeps ==
  ASSUME H2Inv, (\E g \in 1..MaxGen : ConnDies(g) \/ DriverFlags(g)) \/ CellAges \/ BackoffEnds
  PROVE  H2Inv' /\ HealthyStep
  BY DEF H2Inv, OpenerAlone, HealthyStep, Usable, ConnDies, DriverFlags, CellAges, BackoffEnds, connvars

\* Every step of the cell.
LEMMA H2Step == H2Inv /\ [H2Next]_h2vars => H2Inv' /\ [HealthyStep]_h2vars
<1> SUFFICES ASSUME H2Inv, [H2Next]_h2vars PROVE H2Inv' /\ (HealthyStep \/ UNCHANGED h2vars)
  OBVIOUS
<1>1. CASE UNCHANGED h2vars
  BY <1>1 DEF h2vars, H2Inv, OpenerAlone, Usable
<1>2. CASE H2Next
  BY <1>2, EnsureKeeps, OpenedKeeps, RelayKeeps, ConnectionKeeps DEF H2Next
<1> QED BY <1>1, <1>2

\* However calls, openers, timeouts and deaths of connections interleave, the
\* connection ensure_h2 would hand out leaves h2_cell only when h2 is switched off
\* or when a call failed on that same connection (ensure_h2, poison_h2_if_gen).
THEOREM HealthyConnectionKept == H2Spec => HealthyCellKept
<1>1. H2Spec => [][HealthyStep]_h2vars
  BY H2Initial, H2Step, PTL DEF H2Spec
<1> QED BY <1>1 DEF HealthyCellKept, HealthyStep

-----------------------------------------------------------------------------
(* Range download *)

\* Where the planned ranges taken so far end: the first byte still to come.
Reached(n) == IF pend + 1 + n * Chunk < total THEN pend + 1 + n * Chunk ELSE total

\* Nothing of the response has reached the client.
Untouched == base = -1 /\ declared = -1 /\ out = <<>> /\ fin = "no"

PlanOK == pend \in Nat /\ total \in 0..(MaxSize + 1) /\ pend < total

RangeInv ==
  /\ size \in 1..MaxSize /\ rfrom \in 0..(MaxSize - 1) /\ yielded \in 0..MaxRanges
  /\ dstep \in {"start", "single", "fetch", "stream", "body", "end"}
  /\ fetched \in [1..MaxRanges -> {"todo", "flight", "ok", "bad"}]
  /\ dstep = "start" => yielded = 0
  /\ dstep \in {"start", "single", "fetch"} => Untouched
  /\ dstep = "fetch" =>
       /\ PlanOK /\ \A i \in 1..yielded : fetched[i] \in {"ok", "bad"}
       /\ (\A i \in 1..yielded : fetched[i] = "ok") => full = Bytes(0, Reached(yielded) - 1)
  /\ dstep = "stream" =>
       /\ PlanOK /\ fin = "no" /\ base \in 0..pend /\ base < MaxSize /\ declared = total - base
       /\ out = Bytes(base, Reached(yielded) - 1)
  /\ dstep = "body" =>
       /\ base \in 0..MaxSize /\ declared \in 0..(MaxSize + 1) /\ fin = "no"
       /\ out = Bytes(base, base + declared - 1)

\* The bytes from s to e.
LEMMA BytesSeq ==
  ASSUME NEW s \in Int, NEW e \in Int, s <= e + 1
  PROVE  /\ Bytes(s, e) \in Seq(Int) /\ Len(Bytes(s, e)) = e - s + 1
         /\ \A i \in 1..(e - s + 1) : Bytes(s, e)[i] = s + i - 1
<1>1. e - s + 1 \in Nat
  OBVIOUS
<1>2. Bytes(s, e) \in [1..(e - s + 1) -> Int]
  BY DEF Bytes
<1>3. Bytes(s, e) \in Seq(Int)
  BY <1>1, <1>2, SMT
<1>4. DOMAIN Bytes(s, e) = 1..(e - s + 1)
  BY <1>2
<1>5. Len(Bytes(s, e)) = e - s + 1
  BY <1>1, <1>3, <1>4, LenProperties
<1> QED BY <1>3, <1>5 DEF Bytes

\* Adjacent runs of bytes join.
LEMMA BytesJoin ==
  ASSUME NEW s \in Int, NEW m \in Int, NEW e \in Int, s <= m + 1, m <= e
  PROVE  Bytes(s, m) \o Bytes(m + 1, e) = Bytes(s, e)
<1> DEFINE a == Bytes(s, m)
           b == Bytes(m + 1, e)
           c == Bytes(s, e)
<1>1. a \in Seq(Int) /\ Len(a) = m - s + 1 /\ \A i \in 1..(m - s + 1) : a[i] = s + i - 1
  BY BytesSeq
<1>2. b \in Seq(Int) /\ Len(b) = e - m /\ \A i \in 1..(e - m) : b[i] = m + i
  <2>1. e - (m + 1) + 1 = e - m /\ m + 1 \in Int /\ m + 1 <= e + 1
    OBVIOUS
  <2>2. b \in Seq(Int) /\ Len(b) = e - m /\ \A i \in 1..(e - m) : b[i] = (m + 1) + i - 1
    BY <2>1, BytesSeq
  <2> QED BY <2>2
<1>3. c \in Seq(Int) /\ Len(c) = e - s + 1 /\ \A i \in 1..(e - s + 1) : c[i] = s + i - 1
  <2>1. s <= e + 1
    OBVIOUS
  <2> QED BY <2>1, BytesSeq
<1> HIDE DEF a, b, c
<1>4. a \o b \in Seq(Int) /\ Len(a \o b) = e - s + 1
      /\ \A i \in 1..(e - s + 1) : (a \o b)[i] = IF i <= Len(a) THEN a[i] ELSE b[i - Len(a)]
  <2>1. a \o b \in Seq(Int) /\ Len(a \o b) = Len(a) + Len(b)
        /\ \A i \in 1..(Len(a) + Len(b)) : (a \o b)[i] = IF i <= Len(a) THEN a[i] ELSE b[i - Len(a)]
    BY <1>1, <1>2, ConcatProperties
  <2>2. Len(a) + Len(b) = e - s + 1
    BY <1>1, <1>2
  <2> QED BY <2>1, <2>2
<1>5. ASSUME NEW i \in 1..(e - s + 1) PROVE (a \o b)[i] = c[i]
  <2>1. CASE i <= m - s + 1
    <3>1. i \in 1..(m - s + 1)
      BY <2>1
    <3> QED BY <3>1, <1>1, <1>3, <1>4
  <2>2. CASE ~(i <= m - s + 1)
    <3>1. i - Len(a) \in 1..(e - m) /\ ~(i <= Len(a))
      BY <2>2, <1>1
    <3>2. b[i - Len(a)] = m + (i - Len(a))
      BY <3>1, <1>2
    <3> QED BY <3>1, <3>2, <1>1, <1>3, <1>4
  <2> QED BY <2>1, <2>2
<1>6. Len(a \o b) = Len(c) /\ \A i \in 1..Len(a \o b) : (a \o b)[i] = c[i]
  BY <1>3, <1>4, <1>5
<1>7. a \o b = c
  BY <1>3, <1>4, <1>6, SeqEqual
<1> QED BY <1>7 DEF a, b, c

\* A planned range begins where the ones before it end, and the last one ends at
\* total.
LEMMA ReachedFacts ==
  ASSUME PlanOK, NEW n \in Nat
  PROVE  /\ Reached(n) \in Int /\ pend + 1 <= Reached(n) /\ Reached(n) <= total
         /\ Planned(n + 1) =>
              /\ PlannedRange(n + 1)[1] = Reached(n) /\ PlannedRange(n + 1)[2] \in Int
              /\ PlannedRange(n + 1)[2] + 1 = Reached(n + 1) /\ Reached(n) <= PlannedRange(n + 1)[2]
         /\ ~Planned(n + 1) => Reached(n) = total
<1> DEFINE m == n * Chunk
<1>1. Chunk \in Nat /\ Chunk > 0 /\ m \in Nat
  BY RangeAssumption
<1>2. (n + 1 - 1) * Chunk = m /\ (n + 1) * Chunk = m + Chunk
  BY <1>1
<1>3. pend \in Nat /\ total \in Nat /\ pend < total
  BY RangeAssumption DEF PlanOK
<1>4. Reached(n) = IF pend + 1 + m < total THEN pend + 1 + m ELSE total
  BY DEF Reached
<1>5. Reached(n + 1) = IF pend + 1 + (m + Chunk) < total THEN pend + 1 + (m + Chunk) ELSE total
  BY <1>2 DEF Reached
<1>6. Planned(n + 1) <=> pend + 1 + m < total
  BY <1>2 DEF Planned
<1>7. /\ PlannedRange(n + 1)[1] = pend + 1 + m
      /\ PlannedRange(n + 1)[2] = IF pend + 1 + m + Chunk - 1 < total - 1
                                    THEN pend + 1 + m + Chunk - 1 ELSE total - 1
  BY <1>2 DEF PlannedRange
<1> HIDE DEF m
<1>8. ASSUME Planned(n + 1)
      PROVE  /\ PlannedRange(n + 1)[1] = Reached(n) /\ PlannedRange(n + 1)[2] \in Int
             /\ PlannedRange(n + 1)[2] + 1 = Reached(n + 1) /\ Reached(n) <= PlannedRange(n + 1)[2]
  BY <1>1, <1>3, <1>4, <1>5, <1>6, <1>7, <1>8
<1>9. Reached(n) \in Int /\ pend + 1 <= Reached(n) /\ Reached(n) <= total
  BY <1>1, <1>3, <1>4
<1>10. ~Planned(n + 1) => Reached(n) = total
  BY <1>4, <1>6
<1> QED BY <1>8, <1>9, <1>10

\* The bound on the number of ranges is a natural.
LEMMA MaxRangesNat == MaxRanges \in Nat
<1>1. Chunk \in Nat /\ Chunk > 0 /\ MaxSize + 1 + Chunk - 1 \in Nat
  BY RangeAssumption
<1> QED BY <1>1 DEF MaxRanges

\* The bound on the number of ranges is never in the way of the plan.
LEMMA PlanFits ==
  ASSUME PlanOK, NEW n \in Nat, Planned(n + 1)
  PROVE  n + 1 \in 1..MaxRanges
<1> DEFINE a == MaxSize + 1
           b == a + Chunk - 1
           q == b \div Chunk
<1>1. Chunk \in Nat /\ Chunk > 0 /\ MaxSize \in Nat /\ a \in Nat
  BY RangeAssumption
<1>2. (n + 1 - 1) * Chunk = n * Chunk /\ n * Chunk \in Nat
  BY <1>1
<1>3. n * Chunk < a
  BY <1>1, <1>2 DEF PlanOK, Planned
<1>4. q \in Int /\ b \in Int /\ b < (q + 1) * Chunk /\ (q + 1) * Chunk = q * Chunk + Chunk
  BY <1>1
<1>5. MaxRanges = q
  BY DEF MaxRanges
<1> HIDE DEF q
<1>6. n * Chunk < q * Chunk
  BY <1>1, <1>2, <1>3, <1>4
<1>7. n < q
  BY <1>1, <1>4, <1>6
<1> QED BY <1>4, <1>5, <1>7

\* A header and the first bytes of a body are a first delivery.
LEMMA HeadOut ==
  ASSUME Untouched, NEW s \in 0..MaxSize, NEW len \in 0..(MaxSize + 1), NEW e \in Int,
         s <= e + 1, e - s + 1 <= len,
         base' = s, declared' = len, out' = out \o Bytes(s, e), fin' = fin
  PROVE  out' = Bytes(s, e) /\ Client!StreamNext
<1>1. s \in Int /\ len \in Int /\ MaxSize \in Nat
  BY RangeAssumption
<1>2. Bytes(s, e) \in Seq(Int) /\ Len(Bytes(s, e)) = e - s + 1
  BY <1>1, BytesSeq
<1>3. out' = Bytes(s, e)
  BY <1>2, ConcatEmptySeq DEF Untouched
<1>4. out' = [i \in 1..Len(out') |-> base' + i - 1]
  BY <1>2, <1>3 DEF Bytes
<1>5. Len(out) = 0 /\ Len(out') = e - s + 1
  BY <1>2, <1>3 DEF Untouched
<1>6. Len(out') \in Len(out)..declared'
  BY <1>1, <1>5
<1>7. base' \in 0..(MaxSize + 1) /\ declared' \in 0..(MaxSize + 1)
  BY <1>1
<1>8. Client!Deliver
  BY <1>4, <1>6, <1>7 DEF Untouched, Client!Deliver
<1> QED BY <1>3, <1>8 DEF Client!StreamNext

\* A response written in one piece.
LEMMA ToBody ==
  ASSUME RangeInv, Untouched, NEW s \in 0..MaxSize, NEW len \in 0..(MaxSize + 1),
         Write(s, len, Bytes(s, s + len - 1), "body"), fetched' = fetched, yielded' = yielded
  PROVE  RangeInv' /\ Client!StreamNext
<1> DEFINE e == s + len - 1
<1>1. e \in Int /\ s <= e + 1 /\ e - s + 1 <= len
  BY RangeAssumption
<1>2. /\ base' = s /\ declared' = len /\ out' = out \o Bytes(s, e) /\ dstep' = "body"
      /\ fin' = fin /\ size' = size /\ rfrom' = rfrom
  BY DEF Write, request
<1> HIDE DEF e
<1>3. out' = Bytes(s, e) /\ Client!StreamNext
  BY <1>1, <1>2, HeadOut
<1>4. (out = Bytes(base, base + declared - 1))'
  BY <1>2, <1>3 DEF Bytes, e
<1>5. (base \in 0..MaxSize /\ declared \in 0..(MaxSize + 1) /\ fin = "no")'
  BY <1>2 DEF Untouched
<1>6. RangeInv'
  BY <1>2, <1>4, <1>5 DEF RangeInv
<1> QED BY <1>3, <1>6

\* An error before the first byte, or a close.
LEMMA ToEnd ==
  ASSUME RangeInv, dstep # "end", CloseEarly \/ (Untouched /\ SendError), fetched' = fetched,
         yielded' \in 0..MaxRanges
  PROVE  RangeInv' /\ Client!StreamNext
<1>1. /\ dstep' = "end" /\ size' = size /\ rfrom' = rfrom
      /\ base' = base /\ declared' = declared /\ out' = out
      /\ fin' = "cut" \/ (fin' = "refused" /\ Untouched)
  BY DEF CloseEarly, SendError, request
<1>2. fin = "no"
  BY DEF RangeInv, Untouched
<1>3. RangeInv'
  BY <1>1 DEF RangeInv
<1>4. CASE fin' = "cut"
  BY <1>1, <1>2, <1>3, <1>4 DEF Client!StreamNext, Client!Cut
<1>5. CASE fin' = "refused" /\ Untouched
  BY <1>1, <1>2, <1>3, <1>5 DEF Client!StreamNext, Client!Refuse, Untouched
<1> QED BY <1>1, <1>4, <1>5

\* The streamed and the buffered path begin with the probe's bytes.
LEMMA ToStream ==
  ASSUME RangeInv, dstep = "start", NEW s \in 0..(MaxSize - 1), NEW e \in Nat, NEW t \in 0..(MaxSize + 1),
         s <= e, e + 1 < t, Write(s, t - s, Bytes(s, e), "stream"),
         total' = t, pend' = e, UNCHANGED <<fetched, yielded>>
  PROVE  RangeInv' /\ Client!StreamNext
<1>1. Untouched /\ yielded = 0 /\ Chunk \in Nat /\ MaxSize \in Nat
  BY RangeAssumption DEF RangeInv
<1>2. /\ base' = s /\ declared' = t - s /\ out' = out \o Bytes(s, e) /\ dstep' = "stream"
      /\ fin' = fin /\ size' = size /\ rfrom' = rfrom
  BY DEF Write, request
<1>3. s \in 0..MaxSize /\ t - s \in 0..(MaxSize + 1) /\ e \in Int /\ s <= e + 1 /\ e - s + 1 <= t - s
  BY <1>1
<1> DEFINE len == t - s
<1>4. len \in 0..(MaxSize + 1) /\ e - s + 1 <= len /\ declared' = len
  BY <1>2, <1>3
<1> HIDE DEF len
<1>5. out' = Bytes(s, e) /\ Client!StreamNext
  BY <1>1, <1>2, <1>3, <1>4, HeadOut
<1>6. Reached(yielded)' = e + 1
  BY <1>1 DEF Reached
<1>7. PlanOK'
  BY <1>1 DEF PlanOK
<1>8. (Reached(yielded) - 1)' = e
  BY <1>6
<1>9. (out = Bytes(base, Reached(yielded) - 1))'
  BY <1>2, <1>5, <1>8 DEF Bytes
<1>10. (fin = "no" /\ base \in 0..pend /\ base < MaxSize /\ declared = total - base)'
  BY <1>1, <1>2, <1>4 DEF Untouched, len
<1>11. RangeInv'
  BY <1>2, <1>7, <1>9, <1>10 DEF RangeInv
<1> QED BY <1>5, <1>11

\* What a probe that passes validation carries.
LEMMA ProbeShape ==
  ASSUME RangeInv, NEW s \in 0..(MaxSize - 1), NEW e \in Int, s <= e + 1,
         NEW r \in Replies(s, e), ValidProbe(r, s, e)
  PROVE  /\ r.start = s /\ r.end \in Nat /\ r.total \in 0..(MaxSize + 1) /\ s <= r.end /\ r.end < r.total
         /\ (MatchesBody(r) /\ ProbeBytes(r) = Bytes(s, r.end))
              \/ (~MatchesBody(r) /\ s = 0 /\ r.end + 1 >= r.total /\ ProbeBytes(r) = Bytes(0, size - 1))
<1>1. /\ r.start = s /\ r.end \in Int /\ r.total \in {size, size + 1}
  BY DEF Replies, ValidProbe
<1>2. size \in 1..MaxSize /\ MaxSize \in Nat
  BY RangeAssumption DEF RangeInv
<1>3. r.start <= r.end /\ r.end < r.total /\ (MatchesBody(r) \/ (s = 0 /\ CoversEntity(r, e)))
  BY DEF ValidProbe, Parses
<1>4. CASE MatchesBody(r)
  BY <1>1, <1>2, <1>3, <1>4 DEF ProbeBytes
<1>5. CASE ~MatchesBody(r)
  BY <1>1, <1>2, <1>3, <1>5 DEF ProbeBytes, CoversEntity
<1> QED BY <1>4, <1>5

\* The whole entity in one piece.
LEMMA WholeBody ==
  ASSUME RangeInv, dstep \in {"start", "single"}, WholeEntity, UNCHANGED plan
  PROVE  RangeInv' /\ Client!StreamNext
<1>1. Untouched /\ size \in 0..(MaxSize + 1) /\ 0 \in 0..MaxSize
  BY RangeAssumption DEF RangeInv
<1>2. 0 + size - 1 = size - 1
  BY RangeAssumption DEF RangeInv
<1>3. Write(0, size, Bytes(0, 0 + size - 1), "body")
  BY <1>2 DEF WholeEntity
<1>4. UNCHANGED <<fetched, yielded>>
  BY DEF plan
<1> QED BY <1>1, <1>3, <1>4, ToBody

\* A probe that already is all there is.
LEMMA ProbeBody ==
  ASSUME RangeInv, dstep = "start", NEW s \in 0..(MaxSize - 1), NEW e \in Int, s <= e + 1,
         NEW r \in Replies(s, e), ValidProbe(r, s, e),
         Write(s, Len(ProbeBytes(r)), ProbeBytes(r), "body"), UNCHANGED plan
  PROVE  RangeInv' /\ Client!StreamNext
<1>1. /\ r.end \in Nat /\ r.total \in 0..(MaxSize + 1) /\ s <= r.end /\ r.end < r.total
      /\ ProbeBytes(r) = Bytes(s, r.end) \/ (s = 0 /\ ProbeBytes(r) = Bytes(0, size - 1))
  BY ProbeShape
<1>2. Untouched /\ size \in 1..MaxSize /\ MaxSize \in Nat
  BY RangeAssumption DEF RangeInv
<1>3. PICK x \in Nat : s <= x + 1 /\ x <= MaxSize /\ ProbeBytes(r) = Bytes(s, x)
  <2>1. CASE ProbeBytes(r) = Bytes(s, r.end)
    BY <1>1, <1>2, <2>1
  <2>2. CASE s = 0 /\ ProbeBytes(r) = Bytes(0, size - 1)
    <3>1. size - 1 \in Nat /\ s <= (size - 1) + 1 /\ size - 1 <= MaxSize
      BY <1>2, <2>2
    <3> QED BY <2>2, <3>1
  <2> QED BY <1>1, <2>1, <2>2
<1>4. Len(ProbeBytes(r)) = x - s + 1
  <2>1. s \in Int /\ x \in Int /\ s <= x + 1
    BY <1>2, <1>3
  <2> QED BY <1>3, <2>1, BytesSeq
<1> DEFINE len == x - s + 1
<1>5. len \in 0..(MaxSize + 1) /\ s + len - 1 = x /\ s \in 0..MaxSize
  BY <1>2, <1>3
<1>6. Write(s, len, Bytes(s, s + len - 1), "body")
  BY <1>3, <1>4, <1>5
<1>7. UNCHANGED <<fetched, yielded>>
  BY DEF plan
<1> HIDE DEF len
<1> QED BY <1>2, <1>5, <1>6, <1>7, ToBody

ClientStep == [Client!StreamNext]_(Client!streamvars)

\* The range the probe asks for.
LEMMA ProbeEndFacts ==
  ASSUME RangeInv
  PROVE  /\ ProbeEnd \in Int /\ 0 <= ProbeEnd + 1 /\ rfrom <= ProbeEnd + 1
         /\ 0 \in 0..(MaxSize - 1) /\ rfrom \in 0..(MaxSize - 1)
<1>1. Chunk \in Nat /\ Chunk > 0 /\ MaxSize \in Nat
  BY RangeAssumption
<1>2. rfrom \in 0..(MaxSize - 1) /\ size \in 1..MaxSize
  BY DEF RangeInv
<1> QED BY <1>1, <1>2 DEF ProbeEnd

\* Requests the download does not split.
LEMMA PassStep ==
  ASSUME RangeInv, PassThrough PROVE RangeInv' /\ ClientStep
<1>1. dstep = "start" /\ Untouched /\ UNCHANGED plan
  BY DEF PassThrough, RangeInv
<1>2. UNCHANGED <<fetched, yielded>> /\ yielded' \in 0..MaxRanges /\ dstep # "end"
  BY <1>1 DEF plan, RangeInv
<1>3. CASE WholeEntity
  BY <1>1, <1>3, WholeBody DEF ClientStep
<1>4. CASE \E e \in 0..(size - 1) : Write(0, e + 1, Bytes(0, e), "body")
  <2>1. PICK e \in 0..(size - 1) : Write(0, e + 1, Bytes(0, e), "body")
    BY <1>4
  <2> DEFINE len == e + 1
  <2>2. len \in 0..(MaxSize + 1) /\ 0 + len - 1 = e /\ 0 \in 0..MaxSize
    BY RangeAssumption DEF RangeInv
  <2>3. Write(0, len, Bytes(0, 0 + len - 1), "body")
    BY <2>1, <2>2
  <2> HIDE DEF len
  <2> QED BY <1>1, <1>2, <2>2, <2>3, ToBody DEF ClientStep
<1>5. CASE SendError \/ CloseEarly
  BY <1>1, <1>2, <1>5, ToEnd DEF ClientStep
<1> QED BY <1>3, <1>4, <1>5 DEF PassThrough

\* A probe that was not answered with a range, and a resume that fails.
LEMMA NotPartialStep ==
  ASSUME RangeInv, ProbeNotPartial \/ ResumeNotPartial \/ ResumeInvalid
  PROVE  RangeInv' /\ ClientStep
<1>1. dstep = "start" /\ Untouched /\ UNCHANGED plan
  BY DEF ProbeNotPartial, ResumeNotPartial, ResumeInvalid, RangeInv
<1>2. UNCHANGED <<fetched, yielded>> /\ yielded' \in 0..MaxRanges /\ dstep # "end"
  BY <1>1 DEF plan, RangeInv
<1>3. CASE WholeEntity
  BY <1>1, <1>3, WholeBody DEF ClientStep
<1>4. CASE SendError \/ CloseEarly
  BY <1>1, <1>2, <1>4, ToEnd DEF ClientStep
<1> QED BY <1>3, <1>4 DEF ProbeNotPartial, ResumeNotPartial, ResumeInvalid

\* A step the client does not see, before any byte is out or between chunks.
LEMMA QuietStep ==
  ASSUME UNCHANGED <<base, declared, out, fin>> PROVE ClientStep
BY DEF ClientStep, Client!streamvars

\* A probe that fails validation leads to a single GET.
LEMMA ProbeInvalidStep ==
  ASSUME RangeInv, ProbeInvalid PROVE RangeInv' /\ ClientStep
<1>1. /\ dstep = "start" /\ dstep' = "single" /\ UNCHANGED <<size, rfrom, fetched, yielded>>
      /\ UNCHANGED <<base, declared, out, fin>>
  BY DEF ProbeInvalid, request, plan
<1>2. RangeInv'
  BY <1>1 DEF RangeInv, Untouched
<1> QED BY <1>1, <1>2, QuietStep

\* A probe that covers the entity.
LEMMA IsAllStep ==
  ASSUME RangeInv, ProbeIsAll \/ ResumeIsAll PROVE RangeInv' /\ ClientStep
<1>1. dstep = "start" /\ UNCHANGED plan
  BY DEF ProbeIsAll, ResumeIsAll
<1>2. PICK s \in 0..(MaxSize - 1) : /\ s <= ProbeEnd + 1
        /\ \E r \in Replies(s, ProbeEnd) :
             ValidProbe(r, s, ProbeEnd) /\ Write(s, Len(ProbeBytes(r)), ProbeBytes(r), "body")
  <2>1. CASE ProbeIsAll
    BY <2>1, ProbeEndFacts DEF ProbeIsAll
  <2>2. CASE ResumeIsAll
    BY <2>2, ProbeEndFacts DEF ResumeIsAll
  <2> QED BY <2>1, <2>2
<1>3. PICK r \in Replies(s, ProbeEnd) :
             ValidProbe(r, s, ProbeEnd) /\ Write(s, Len(ProbeBytes(r)), ProbeBytes(r), "body")
  BY <1>2
<1> DEFINE e == ProbeEnd
<1>4. e \in Int /\ s <= e + 1 /\ r \in Replies(s, e) /\ ValidProbe(r, s, e)
  BY <1>2, <1>3, ProbeEndFacts
<1> HIDE DEF e
<1> QED BY <1>1, <1>3, <1>4, ProbeBody DEF ClientStep

\* A resumed download is streamed from its first byte.
LEMMA ResumeStartsStep ==
  ASSUME RangeInv, ResumeStartsPlan PROVE RangeInv' /\ ClientStep
<1>1. PICK r \in Replies(rfrom, ProbeEnd) :
        /\ ValidProbe(r, rfrom, ProbeEnd) /\ r.end + 1 < r.total /\ total' = r.total /\ pend' = r.end
        /\ Write(rfrom, r.total - rfrom, Bytes(rfrom, r.end), "stream")
  BY DEF ResumeStartsPlan
<1>2. /\ r.end \in Nat /\ r.total \in 0..(MaxSize + 1) /\ rfrom <= r.end
      /\ rfrom \in 0..(MaxSize - 1)
  BY <1>1, ProbeEndFacts, ProbeShape
<1>3. dstep = "start" /\ UNCHANGED <<fetched, yielded>>
  BY DEF ResumeStartsPlan
<1> DEFINE e == r.end
           t == r.total
<1>4. /\ e \in Nat /\ t \in 0..(MaxSize + 1) /\ rfrom <= e /\ e + 1 < t
      /\ total' = t /\ pend' = e /\ Write(rfrom, t - rfrom, Bytes(rfrom, e), "stream")
  BY <1>1, <1>2
<1> HIDE DEF e, t
<1> QED BY <1>2, <1>3, <1>4, ToStream DEF ClientStep

\* The plan: streamed, refused, replaced by a single GET, or collected.
LEMMA ProbeStartsStep ==
  ASSUME RangeInv, ProbeStartsPlan PROVE RangeInv' /\ ClientStep
<1>1. PICK r \in Replies(0, ProbeEnd) :
        /\ ValidProbe(r, 0, ProbeEnd) /\ r.end + 1 < r.total /\ total' = r.total /\ pend' = r.end
        /\ \/ Write(0, r.total, Bytes(0, r.end), "stream")
           \/ SendError
           \/ dstep' = "single" /\ UNCHANGED <<request, full, base, declared, out, fin>>
           \/ /\ dstep' = "fetch" /\ full' = Bytes(0, r.end)
              /\ UNCHANGED <<request, base, declared, out, fin>>
  BY DEF ProbeStartsPlan
<1>2. /\ r.end \in Nat /\ r.total \in 0..(MaxSize + 1) /\ 0 \in 0..(MaxSize - 1)
  BY <1>1, ProbeEndFacts, ProbeShape
<1>3. dstep = "start" /\ UNCHANGED <<fetched, yielded>> /\ Untouched /\ yielded = 0 /\ Chunk \in Nat
  BY RangeAssumption DEF ProbeStartsPlan, RangeInv
<1> DEFINE e == r.end
           t == r.total
<1>4. /\ e \in Nat /\ t \in 0..(MaxSize + 1) /\ 0 <= e /\ e + 1 < t /\ total' = t /\ pend' = e
      /\ t - 0 = t
  BY <1>1, <1>2, RangeAssumption
<1>5. CASE Write(0, r.total, Bytes(0, r.end), "stream")
  <2>1. Write(0, t - 0, Bytes(0, e), "stream")
    BY <1>4, <1>5
  <2> HIDE DEF e, t
  <2> QED BY <1>2, <1>3, <1>4, <2>1, ToStream DEF ClientStep
<1>6. CASE SendError
  <2>1. yielded' \in 0..MaxRanges
    BY <1>3, MaxRangesNat
  <2> QED BY <1>3, <1>6, <2>1, ToEnd DEF ClientStep
<1>7. CASE dstep' = "single" /\ UNCHANGED <<request, full, base, declared, out, fin>>
  <2>1. UNCHANGED <<size, rfrom, base, declared, out, fin>>
    BY <1>7 DEF request
  <2>2. RangeInv'
    BY <1>3, <1>7, <2>1 DEF RangeInv, Untouched
  <2> QED BY <2>1, <2>2, QuietStep
<1>8. CASE /\ dstep' = "fetch" /\ full' = Bytes(0, r.end)
           /\ UNCHANGED <<request, base, declared, out, fin>>
  <2>1. UNCHANGED <<size, rfrom, base, declared, out, fin>> /\ full' = Bytes(0, e)
    BY <1>8 DEF request
  <2> HIDE DEF e, t
  <2>2. Reached(yielded)' = e + 1
    BY <1>3, <1>4 DEF Reached
  <2>3. (Reached(yielded) - 1)' = e
    BY <1>4, <2>2
  <2>4. (full = Bytes(0, Reached(yielded) - 1))'
    BY <2>1, <2>3 DEF Bytes
  <2>5. PlanOK'
    BY <1>3, <1>4 DEF PlanOK
  <2>6. RangeInv'
    BY <1>3, <1>8, <2>1, <2>4, <2>5 DEF RangeInv, Untouched
  <2> QED BY <2>1, <2>6, QuietStep
<1> QED BY <1>1, <1>5, <1>6, <1>7, <1>8

\* A range is started or its answer arrives: the ranges already taken keep
\* the outcome they had.
LEMMA FetchStep ==
  ASSUME RangeInv, NEW i \in 1..MaxRanges, FetchStarts(i) \/ FetchEnds(i)
  PROVE  RangeInv' /\ ClientStep
<1>1. PICK v \in {"flight", "ok", "bad"} : fetched' = [fetched EXCEPT ![i] = v]
  <2>1. CASE FetchStarts(i)
    BY <2>1 DEF FetchStarts
  <2>2. CASE FetchEnds(i)
    BY <2>2 DEF FetchEnds
  <2> QED BY <2>1, <2>2
<1>2. /\ fetched[i] \in {"todo", "flight"} /\ dstep \in {"fetch", "stream"}
      /\ UNCHANGED <<size, rfrom, dstep, total, pend, yielded, full, base, declared, out, fin>>
  BY DEF FetchStarts, FetchEnds, request
<1>3. fetched' \in [1..MaxRanges -> {"todo", "flight", "ok", "bad"}]
      /\ \A j \in 1..MaxRanges : j # i => fetched'[j] = fetched[j]
  BY <1>1 DEF RangeInv
<1>4. UNCHANGED Reached(yielded) /\ (PlanOK <=> PlanOK') /\ (Untouched <=> Untouched')
  BY <1>2 DEF Reached, PlanOK, Untouched
<1>5. CASE dstep = "stream"
  <2>1. (out = Bytes(base, Reached(yielded) - 1))'
    BY <1>2, <1>4, <1>5 DEF RangeInv, Bytes
  <2>2. RangeInv'
    BY <1>2, <1>3, <1>4, <1>5, <2>1 DEF RangeInv
  <2> QED BY <1>2, <2>2, QuietStep
<1>6. CASE dstep = "fetch"
  <2>1. \A j \in 1..yielded : j \in 1..MaxRanges /\ j # i
    BY <1>2, <1>6, MaxRangesNat DEF RangeInv
  <2>2. \A j \in 1..yielded : fetched'[j] = fetched[j]
    BY <1>3, <2>1
  <2>3. (\A j \in 1..yielded : fetched[j] = "ok")' => (full = Bytes(0, Reached(yielded) - 1))'
    BY <1>2, <1>4, <1>6, <2>2 DEF RangeInv, Bytes
  <2>4. (\A j \in 1..yielded : fetched[j] \in {"ok", "bad"})'
    BY <1>2, <1>6, <2>2 DEF RangeInv
  <2>5. RangeInv'
    BY <1>2, <1>3, <1>4, <1>6, <2>3, <2>4 DEF RangeInv
  <2> QED BY <1>2, <2>5, QuietStep
<1> QED BY <1>2, <1>5, <1>6

\* The next range in order goes out, or the response is closed.
LEMMA StreamChunkStep ==
  ASSUME RangeInv, StreamChunk PROVE RangeInv' /\ ClientStep
<1> DEFINE y == yielded
           s == PlannedRange(y + 1)[1]
           e == PlannedRange(y + 1)[2]
<1>1. /\ dstep = "stream" /\ Planned(y + 1) /\ yielded' = y + 1 /\ UNCHANGED <<total, pend, fetched>>
      /\ Write(base, declared, Bytes(s, e), "stream") \/ CloseEarly
  BY DEF StreamChunk
<1>2. PlanOK /\ fin = "no" /\ base \in 0..pend /\ base < MaxSize /\ declared = total - base
      /\ out = Bytes(base, Reached(y) - 1) /\ y \in Nat
  BY <1>1, MaxRangesNat DEF RangeInv
<1>3. yielded' \in 0..MaxRanges
  BY <1>1, <1>2, PlanFits
<1>4. CASE CloseEarly
  BY <1>1, <1>3, <1>4, ToEnd DEF ClientStep
<1>5. CASE Write(base, declared, Bytes(s, e), "stream")
  <2>1. /\ Reached(y) \in Int /\ pend + 1 <= Reached(y)
        /\ s = Reached(y) /\ e \in Int /\ e + 1 = Reached(y + 1) /\ s <= e
    BY <1>1, <1>2, ReachedFacts
  <2>2. y + 1 \in Nat /\ Reached(y + 1) <= total
    BY <1>2, ReachedFacts
  <2>3. /\ base' = base /\ declared' = declared /\ out' = out \o Bytes(s, e) /\ dstep' = "stream"
        /\ UNCHANGED <<size, rfrom, fin>>
    BY <1>5 DEF Write, request
  <2> HIDE DEF s, e, y
  <2> DEFINE m == s - 1
  <2>4. /\ m \in Int /\ base \in Int /\ base <= m + 1 /\ m <= e /\ s = m + 1 /\ Reached(y) - 1 = m
        /\ total \in Int /\ total <= MaxSize + 1 /\ MaxSize \in Nat /\ base >= 0
    BY <1>2, <2>1, RangeAssumption DEF PlanOK
  <2> HIDE DEF m
  <2>5. out' = Bytes(base, e)
    <3>1. out = Bytes(base, m) /\ Bytes(s, e) = Bytes(m + 1, e)
      BY <1>2, <2>4
    <3>2. Bytes(base, m) \o Bytes(m + 1, e) = Bytes(base, e)
      BY <2>1, <2>4, BytesJoin
    <3> QED BY <2>3, <3>1, <3>2
  <2>6. Len(out) = m - base + 1 /\ Len(out') = e - base + 1
    <3>1. out = Bytes(base, m) /\ base <= e + 1
      BY <1>2, <2>1, <2>4
    <3>2. Len(Bytes(base, m)) = m - base + 1 /\ Len(Bytes(base, e)) = e - base + 1
      BY <2>1, <2>4, <3>1, BytesSeq
    <3> QED BY <2>5, <3>1, <3>2
  <2>7. out' = [i \in 1..Len(out') |-> base' + i - 1]
    BY <2>3, <2>5, <2>6 DEF Bytes
  <2>8. Len(out') \in Len(out)..declared' /\ base' \in 0..(MaxSize + 1) /\ declared' \in 0..(MaxSize + 1)
    BY <1>2, <2>1, <2>2, <2>3, <2>4, <2>6
  <2>9. Client!Deliver
    BY <1>2, <2>3, <2>7, <2>8 DEF Client!Deliver
  <2>10. Reached(yielded)' = Reached(y + 1)
    BY <1>1 DEF Reached, y
  <2>11. (out = Bytes(base, Reached(yielded) - 1))'
    <3>1. (Reached(yielded) - 1)' = e
      BY <2>1, <2>10
    <3> QED BY <2>3, <2>5, <3>1 DEF Bytes
  <2>12. PlanOK'
    BY <1>1, <1>2 DEF PlanOK
  <2>13. RangeInv'
    BY <1>1, <1>2, <1>3, <2>3, <2>11, <2>12 DEF RangeInv
  <2> QED BY <2>9, <2>13 DEF ClientStep, Client!StreamNext
<1> QED BY <1>1, <1>4, <1>5

\* The next range in order is collected.
LEMMA CollectStep ==
  ASSUME RangeInv, CollectChunk PROVE RangeInv' /\ ClientStep
<1> DEFINE y == yielded
           s == PlannedRange(y + 1)[1]
           e == PlannedRange(y + 1)[2]
<1>1. /\ dstep = "fetch" /\ Planned(y + 1) /\ fetched[y + 1] \in {"ok", "bad"} /\ yielded' = y + 1
      /\ full' = IF fetched[y + 1] = "ok" THEN full \o Bytes(s, e) ELSE full
      /\ UNCHANGED <<size, rfrom, dstep, total, pend, fetched, base, declared, out, fin>>
  BY DEF CollectChunk, request
<1>2. /\ PlanOK /\ Untouched /\ (\A i \in 1..y : fetched[i] \in {"ok", "bad"}) /\ y \in Nat
      /\ (\A i \in 1..y : fetched[i] = "ok") => full = Bytes(0, Reached(y) - 1)
  BY <1>1, MaxRangesNat DEF RangeInv
<1>3. yielded' \in 0..MaxRanges
  BY <1>1, <1>2, PlanFits
<1>4. /\ Reached(y) \in Int /\ pend + 1 <= Reached(y)
      /\ s = Reached(y) /\ e \in Int /\ e + 1 = Reached(y + 1) /\ s <= e
  BY <1>1, <1>2, ReachedFacts
<1>5. Reached(yielded)' = Reached(y + 1)
  BY <1>1 DEF Reached
<1> HIDE DEF s, e, y
<1>6. \A i \in 1..(y + 1) : i \in 1..y \/ i = y + 1
  BY <1>2
<1>7. (\A i \in 1..yielded : fetched[i] \in {"ok", "bad"})'
  BY <1>1, <1>2, <1>6
<1>8. ASSUME \A i \in 1..(y + 1) : fetched[i] = "ok" PROVE full' = Bytes(0, e)
  <2>1. fetched[y + 1] = "ok" /\ \A i \in 1..y : fetched[i] = "ok"
    BY <1>2, <1>8
  <2> DEFINE m == s - 1
  <2>2. m \in Int /\ 0 <= m + 1 /\ m <= e /\ s = m + 1 /\ Reached(y) - 1 = m
    BY <1>2, <1>4 DEF PlanOK
  <2> HIDE DEF m
  <2>3. full' = Bytes(0, m) \o Bytes(m + 1, e)
    BY <1>1, <1>2, <2>1, <2>2
  <2> QED BY <1>4, <2>2, <2>3, BytesJoin
<1>9. (\A i \in 1..yielded : fetched[i] = "ok")' => (full = Bytes(0, Reached(yielded) - 1))'
  <2>1. (Reached(yielded) - 1)' = e
    BY <1>4, <1>5
  <2> QED BY <1>1, <1>8, <2>1 DEF Bytes
<1>10. PlanOK' /\ Untouched'
  BY <1>1, <1>2 DEF PlanOK, Untouched
<1>11. RangeInv'
  BY <1>1, <1>3, <1>7, <1>9, <1>10 DEF RangeInv
<1> QED BY <1>1, <1>11, QuietStep

\* The collected body goes out, or a single GET is made.
LEMMA StitchStep ==
  ASSUME RangeInv, Stitch PROVE RangeInv' /\ ClientStep
<1>1. dstep = "fetch" /\ ~Planned(yielded + 1) /\ UNCHANGED <<fetched, yielded>>
  BY DEF Stitch, plan
<1>2. /\ PlanOK /\ Untouched /\ yielded \in Nat
      /\ (\A i \in 1..yielded : fetched[i] = "ok") => full = Bytes(0, Reached(yielded) - 1)
  BY <1>1, MaxRangesNat DEF RangeInv
<1>3. CASE (\A i \in 1..yielded : fetched[i] = "ok") /\ Write(0, total, full, "body")
  <2>1. Reached(yielded) = total
    BY <1>1, <1>2, ReachedFacts
  <2>2. total \in 0..(MaxSize + 1) /\ 0 \in 0..MaxSize /\ 0 + total - 1 = total - 1
    BY <1>2, RangeAssumption DEF PlanOK
  <2>3. Write(0, total, Bytes(0, 0 + total - 1), "body")
    BY <1>2, <1>3, <2>1, <2>2
  <2> QED BY <1>1, <1>2, <2>2, <2>3, ToBody DEF ClientStep
<1>4. CASE dstep' = "single" /\ UNCHANGED <<request, base, declared, out, fin>>
  <2>1. UNCHANGED <<size, rfrom, base, declared, out, fin>>
    BY <1>4 DEF request
  <2>2. RangeInv'
    BY <1>1, <1>2, <1>4, <2>1 DEF RangeInv, Untouched
  <2> QED BY <2>1, <2>2, QuietStep
<1> QED BY <1>3, <1>4 DEF Stitch

\* The fallback.
LEMMA SingleGetStep ==
  ASSUME RangeInv, SingleGet PROVE RangeInv' /\ ClientStep
<1>1. dstep = "single" /\ Untouched /\ UNCHANGED plan
  BY DEF SingleGet, RangeInv
<1>2. UNCHANGED <<fetched, yielded>> /\ yielded' \in 0..MaxRanges
  BY <1>1 DEF plan, RangeInv
<1>3. CASE WholeEntity
  BY <1>1, <1>3, WholeBody DEF ClientStep
<1>4. CASE SendError
  BY <1>1, <1>2, <1>4, ToEnd DEF ClientStep
<1> QED BY <1>3, <1>4 DEF SingleGet

\* A response ends when all it declared is out.
LEMMA FinishStep ==
  ASSUME RangeInv, StreamDone \/ BodyDone PROVE RangeInv' /\ ClientStep
<1>1. /\ dstep' = "end" /\ fin' = "complete"
      /\ UNCHANGED <<size, rfrom, fetched, yielded, base, declared, out>>
  BY DEF StreamDone, BodyDone, request, plan
<1>2. RangeInv'
  BY <1>1 DEF RangeInv
<1>3. fin = "no" /\ declared = Len(out)
  <2>1. CASE StreamDone
    <3>1. /\ PlanOK /\ base \in 0..pend /\ declared = total - base /\ yielded \in Nat /\ fin = "no"
          /\ out = Bytes(base, Reached(yielded) - 1) /\ ~Planned(yielded + 1)
      BY <2>1, MaxRangesNat DEF StreamDone, RangeInv
    <3>2. Reached(yielded) = total
      BY <3>1, ReachedFacts
    <3> DEFINE e == total - 1
    <3>3. e \in Int /\ base \in Int /\ base <= e + 1 /\ e - base + 1 = total - base
      BY <3>1 DEF PlanOK
    <3>4. out = Bytes(base, e)
      BY <3>1, <3>2
    <3> HIDE DEF e
    <3>5. Len(out) = e - base + 1
      BY <3>3, <3>4, BytesSeq
    <3> QED BY <3>1, <3>3, <3>5
  <2>2. CASE BodyDone
    <3>1. base \in 0..MaxSize /\ declared \in 0..(MaxSize + 1) /\ fin = "no"
          /\ out = Bytes(base, base + declared - 1)
      BY <2>2 DEF BodyDone, RangeInv
    <3> DEFINE e == base + declared - 1
    <3>2. e \in Int /\ base \in Int /\ base <= e + 1 /\ e - base + 1 = declared /\ out = Bytes(base, e)
      BY <3>1, RangeAssumption
    <3> HIDE DEF e
    <3>3. Len(out) = e - base + 1
      BY <3>2, BytesSeq
    <3> QED BY <3>1, <3>2, <3>3
  <2> QED BY <2>1, <2>2
<1>4. Client!Complete
  BY <1>1, <1>3 DEF Client!Complete
<1> QED BY <1>2, <1>4 DEF ClientStep, Client!StreamNext

\* The client leaves.
LEMMA ClientGoneStep ==
  ASSUME RangeInv, ClientGone PROVE RangeInv' /\ ClientStep
<1>1. dstep # "end" /\ CloseEarly /\ UNCHANGED <<fetched, yielded>> /\ yielded' \in 0..MaxRanges
  BY DEF ClientGone, plan, RangeInv
<1> QED BY <1>1, ToEnd DEF ClientStep

\* Nothing happens.
LEMMA IdleStep ==
  ASSUME RangeInv, UNCHANGED rangevars PROVE RangeInv' /\ ClientStep
<1>1. UNCHANGED <<size, rfrom, dstep, total, pend, fetched, yielded, full, base, declared, out, fin>>
  BY DEF rangevars
<1>2. RangeInv'
  BY <1>1 DEF RangeInv, PlanOK, Untouched, Reached, Bytes
<1> QED BY <1>1, <1>2, QuietStep

\* Nothing is out at the start.
LEMMA RangeInitFacts == RangeInit => RangeInv /\ Client!StreamInit
<1> SUFFICES ASSUME RangeInit PROVE RangeInv /\ Client!StreamInit
  OBVIOUS
<1>1. size \in 1..MaxSize /\ MaxSize \in Nat
  BY RangeAssumption DEF RangeInit
<1>2. rfrom \in 0..(MaxSize - 1)
  <2>1. CASE asked = "resume"
    BY <1>1, <2>1 DEF RangeInit
  <2>2. CASE asked # "resume"
    BY <1>1, <2>2 DEF RangeInit
  <2> QED BY <2>1, <2>2
<1>3. dstep = "start" /\ yielded = 0 /\ Untouched /\ Client!StreamInit
  BY DEF RangeInit, Untouched, Client!StreamInit
<1>4. fetched \in [1..MaxRanges -> {"todo", "flight", "ok", "bad"}] /\ yielded \in 0..MaxRanges
  BY MaxRangesNat DEF RangeInit
<1> QED BY <1>1, <1>2, <1>3, <1>4 DEF RangeInv

\* Every step keeps the invariant and is a step of the client's stream.
LEMMA RangeStep ==
  ASSUME RangeInv, [RangeNext]_rangevars PROVE RangeInv' /\ ClientStep
<1>1. CASE PassThrough
  BY <1>1, PassStep
<1>2. CASE ProbeNotPartial \/ ResumeNotPartial \/ ResumeInvalid
  BY <1>2, NotPartialStep
<1>3. CASE ProbeInvalid
  BY <1>3, ProbeInvalidStep
<1>4. CASE ProbeIsAll \/ ResumeIsAll
  BY <1>4, IsAllStep
<1>5. CASE ProbeStartsPlan
  BY <1>5, ProbeStartsStep
<1>6. CASE ResumeStartsPlan
  BY <1>6, ResumeStartsStep
<1>7. CASE \E i \in 1..MaxRanges : FetchStarts(i) \/ FetchEnds(i)
  BY <1>7, FetchStep
<1>8. CASE StreamChunk
  BY <1>8, StreamChunkStep
<1>9. CASE CollectChunk
  BY <1>9, CollectStep
<1>10. CASE Stitch
  BY <1>10, StitchStep
<1>11. CASE SingleGet
  BY <1>11, SingleGetStep
<1>12. CASE StreamDone \/ BodyDone
  BY <1>12, FinishStep
<1>13. CASE ClientGone
  BY <1>13, ClientGoneStep
<1>14. CASE UNCHANGED rangevars
  BY <1>14, IdleStep
<1> QED
  BY <1>1, <1>2, <1>3, <1>4, <1>5, <1>6, <1>7, <1>8, <1>9, <1>10, <1>11, <1>12, <1>13, <1>14
  DEF RangeNext

\* The range download implements OrderedStream: whatever the probe, the order in
\* which ranges arrive, failed ranges, the fallback to a single GET and a client
\* that leaves, the client sees a prefix of the bytes it was promised, in order,
\* and a complete response has exactly the declared length.
THEOREM DownloadIsOrdered == RangeSpec => ImplementsOrderedStream
<1>1. RangeInit => RangeInv /\ Client!StreamInit
  BY RangeInitFacts
<1>2. RangeInv /\ [RangeNext]_rangevars => RangeInv' /\ [Client!StreamNext]_(Client!streamvars)
  BY RangeStep DEF ClientStep
<1> QED BY <1>1, <1>2, PTL DEF RangeSpec, ImplementsOrderedStream, Client!StreamSpec

-----------------------------------------------------------------------------
(* Reading a response *)

Tok == Int \ {HeadStop}
Wires(a) == [i \in DOMAIN a.chunks |-> ChunkWire(a.chunks[i], a.broken)]
Rest(a) == IF a.framing = "chunked" THEN ChunkedWire(a) ELSE BodyOf(a)
HeadOf(a) == [i \in 1..a.head |-> IF i = a.head THEN HeadStop ELSE HeadPart]

\* Where the c-th chunk of a ends on the wire.
At(a, c) == a.head + Len(Part(Wires(a), c))

\* What the assumption says of one response.
LEMMA AnswerShape ==
  ASSUME NEW a \in Answers
  PROVE  /\ a.head \in Nat /\ a.head >= 1 /\ a.broken \in BOOLEAN /\ a.trailer \in BOOLEAN
         /\ a.framing \in {"length", "chunked", "none"}
         /\ a.chunks \in Seq(Seq(Byte)) /\ Len(a.chunks) \in Nat
         /\ \A i \in 1..Len(a.chunks) : a.chunks[i] \in Seq(Byte) /\ Len(a.chunks[i]) \in Nat /\ Len(a.chunks[i]) >= 1
<1>1. /\ a.head \in Nat \ {0} /\ a.chunks \in Seq(Seq(Byte) \ {<<>>})
      /\ a.framing \in {"length", "chunked", "none"} /\ a.broken \in BOOLEAN /\ a.trailer \in BOOLEAN
  BY ReaderAssumption
<1>2. a.head \in Nat /\ a.head >= 1 BY <1>1
<1>3. a.chunks \in Seq(Seq(Byte)) /\ Len(a.chunks) \in Nat
  BY <1>1, SeqMonotonic, LenProperties
<1>4. ASSUME NEW i \in 1..Len(a.chunks)
      PROVE  a.chunks[i] \in Seq(Byte) /\ Len(a.chunks[i]) \in Nat /\ Len(a.chunks[i]) >= 1
  <2>1. a.chunks[i] \in Seq(Byte) \ {<<>>} BY <1>1, ElementOfSeq
  <2> DEFINE x == a.chunks[i]
  <2>2. x \in Seq(Byte) /\ x # <<>> BY <2>1
  <2> HIDE DEF x
  <2>3. Len(x) \in Nat /\ Len(x) # 0 BY <2>2, EmptySeq, LenProperties
  <2>4. Len(x) >= 1 BY <2>3
  <2> QED BY <2>2, <2>3, <2>4 DEF x
<1> QED BY <1>1, <1>2, <1>3, <1>4

\* A chunk on the wire.
LEMMA ChunkWireIs ==
  ASSUME NEW c \in Seq(Byte), NEW b \in BOOLEAN
  PROVE  LET w == ChunkWire(c, b)
             k == Len(c) IN
         /\ w \in Seq(Tok) /\ k \in Nat /\ Len(w) = k + 5
         /\ w[1] = Size(k) /\ w[2] = Cr /\ w[3] = Lf
         /\ \A j \in 1..k : w[3 + j] = c[j]
         /\ w[k + 4] = (IF b THEN 1 ELSE Cr) /\ w[k + 5] = (IF b THEN 1 ELSE Lf)
<1> DEFINE k == Len(c)
           u == <<Size(k)>> \o CrLf
           v == u \o c
           e == IF b THEN <<1, 1>> ELSE CrLf
           w == v \o e
<1>0. k \in Nat /\ Byte \subseteq Tok
  BY DEF Byte, Tok, HeadStop, Cr, Lf
<1>1. u \in Seq(Tok) /\ Len(u) = 3 /\ u[1] = Size(k) /\ u[2] = Cr /\ u[3] = Lf
  BY <1>0 DEF CrLf, Cr, Lf, Size, Tok, HeadStop
<1>2. e \in Seq(Tok) /\ Len(e) = 2 /\ e[1] = (IF b THEN 1 ELSE Cr) /\ e[2] = (IF b THEN 1 ELSE Lf)
  <2> USE DEF CrLf, Cr, Lf, Tok, HeadStop
  <2>1. CASE b BY <2>1
  <2>2. CASE ~b BY <2>2
  <2> QED BY <2>1, <2>2
<1>3. c \in Seq(Tok) BY <1>0, SeqMonotonic
<1> HIDE DEF u, e
<1>4. /\ v \in Seq(Tok) /\ Len(v) = 3 + k /\ v[1] = Size(k) /\ v[2] = Cr /\ v[3] = Lf
      /\ \A j \in 1..k : v[3 + j] = c[j]
  <2>0. u \in Seq(Tok) BY <1>1
  <2>1. v \in Seq(Tok) /\ IsCat(v, u, c)
    BY <2>0, <1>3, ConcatAt
  <2> HIDE DEF v
  <2> QED BY <1>0, <1>1, <2>1 DEF IsCat
<1> HIDE DEF v
<1>5. /\ w \in Seq(Tok) /\ Len(w) = k + 5 /\ (\A i \in 1..(3 + k) : w[i] = v[i])
      /\ w[k + 4] = e[1] /\ w[k + 5] = e[2]
  <2>0. v \in Seq(Tok) /\ e \in Seq(Tok) BY <1>2, <1>4
  <2>1. w \in Seq(Tok) /\ IsCat(w, v, e)
    BY <2>0, ConcatAt
  <2>2. 1 \in 1..Len(e) /\ 2 \in 1..Len(e) BY <1>2
  <2>3. Len(v) + 1 = k + 4 /\ Len(v) + 2 = k + 5 /\ Len(v) + Len(e) = k + 5 BY <1>0, <1>2, <1>4
  <2> HIDE DEF w
  <2>4. w[Len(v) + 1] = e[1] /\ w[Len(v) + 2] = e[2] BY <2>1, <2>2 DEF IsCat
  <2> QED BY <1>4, <2>1, <2>3, <2>4 DEF IsCat
<1>6. w = ChunkWire(c, b) BY DEF ChunkWire, w, v, u, e, k
<1> HIDE DEF w, k
<1>7. w[1] = Size(k) /\ w[2] = Cr /\ w[3] = Lf /\ \A j \in 1..k : w[3 + j] = c[j]
  <2>1. 1 \in 1..(3 + k) /\ 2 \in 1..(3 + k) /\ 3 \in 1..(3 + k) /\ \A j \in 1..k : 3 + j \in 1..(3 + k)
    BY <1>0
  <2> QED BY <1>4, <1>5, <2>1
<1> QED BY <1>0, <1>2, <1>5, <1>6, <1>7 DEF k

\* What follows the chunks.
LEMMA LastChunkIs ==
  ASSUME NEW a, a.trailer \in BOOLEAN
  PROVE  LET t == LastChunk(a) IN
         /\ t \in Seq(Tok) /\ t[1] = Size(0) /\ t[2] = Cr /\ t[3] = Lf
         /\ Len(t) \in {5, 8}
         /\ Len(t) = 8 => t[4] = TrailerField /\ t[5] = Cr /\ t[6] = Lf /\ t[7] = Cr /\ t[8] = Lf
         /\ Len(t) = 5 => t[4] = Cr /\ t[5] = Lf
<1> USE DEF LastChunk, CrLf, Cr, Lf, TrailerField, Size, Tok, HeadStop
<1>1. CASE a.trailer
  BY <1>1
<1>2. CASE ~a.trailer
  BY <1>2
<1> QED BY <1>1, <1>2

\* The chunks on the wire, each where the one before it ends.
LEMMA WiresTyped ==
  ASSUME NEW a \in Answers
  PROVE  /\ Wires(a) \in Seq(Seq(Tok)) /\ Len(Wires(a)) = Len(a.chunks)
         /\ \A i \in 1..Len(a.chunks) : Wires(a)[i] = ChunkWire(a.chunks[i], a.broken)
<1> DEFINE n == Len(a.chunks)
<1>1. n \in Nat /\ DOMAIN a.chunks = 1..n BY AnswerShape, LenProperties
<1>2. \A i \in 1..n : ChunkWire(a.chunks[i], a.broken) \in Seq(Tok)
  <2> SUFFICES ASSUME NEW i \in 1..n PROVE ChunkWire(a.chunks[i], a.broken) \in Seq(Tok)
    OBVIOUS
  <2>1. a.chunks[i] \in Seq(Byte) /\ a.broken \in BOOLEAN BY AnswerShape
  <2> QED BY <2>1, ChunkWireIs
<1> HIDE DEF n
<1>3. Wires(a) = [i \in 1..n |-> ChunkWire(a.chunks[i], a.broken)] BY <1>1 DEF Wires
<1>4. Wires(a) \in Seq(Seq(Tok)) /\ Len(Wires(a)) = n BY <1>1, <1>2, <1>3, IsASeq
<1> QED BY <1>3, <1>4 DEF n

\* A response is its head followed by the body or by the chunks.
LEMMA WireIs ==
  ASSUME NEW a \in Answers
  PROVE  /\ Rest(a) \in Seq(Tok) /\ Wire(a) \in Seq(Int) /\ IsCat(Wire(a), HeadOf(a), Rest(a))
         /\ Len(HeadOf(a)) = a.head /\ BodyOf(a) \in Seq(Tok)
         /\ a.framing = "chunked" => /\ FlattenSeq(Wires(a)) \in Seq(Tok)
                                     /\ IsCat(Rest(a), FlattenSeq(Wires(a)), LastChunk(a))
<1>0. a.head \in Nat /\ a.trailer \in BOOLEAN /\ a.chunks \in Seq(Seq(Byte)) BY AnswerShape
<1>1. HeadOf(a) \in Seq(Int) /\ Len(HeadOf(a)) = a.head
  BY <1>0, IsASeq DEF HeadOf, HeadStop, HeadPart
<1>2. BodyOf(a) \in Seq(Tok)
  <2>1. Byte \subseteq Tok BY DEF Byte, Tok, HeadStop, Cr, Lf
  <2>2. <<>> \in Seq(Byte) BY EmptySeq
  <2>3. BodyOf(a) \in Seq(Byte) BY <1>0, <2>2, FlattenAppend DEF BodyOf
  <2> QED BY <2>1, <2>3, SeqMonotonic
<1>3. FlattenSeq(Wires(a)) \in Seq(Tok)
  <2>1. <<>> \in Seq(Tok) BY EmptySeq
  <2> QED BY <2>1, WiresTyped, FlattenAppend
<1>4. LastChunk(a) \in Seq(Tok) BY <1>0, LastChunkIs
<1>5. ChunkedWire(a) = FlattenSeq(Wires(a)) \o LastChunk(a) BY DEF ChunkedWire, Wires
<1>6. ChunkedWire(a) \in Seq(Tok) /\ IsCat(ChunkedWire(a), FlattenSeq(Wires(a)), LastChunk(a))
  BY <1>3, <1>4, <1>5, ConcatAt
<1>7. Rest(a) \in Seq(Tok) BY <1>2, <1>6 DEF Rest
<1>8. Rest(a) \in Seq(Int)
  <2>1. Tok \subseteq Int BY DEF Tok
  <2> QED BY <1>7, <2>1, SeqMonotonic
<1>9. Wire(a) = HeadOf(a) \o Rest(a) BY DEF Wire, HeadOf, Rest
<1>10. Wire(a) \in Seq(Int) /\ IsCat(Wire(a), HeadOf(a), Rest(a)) BY <1>1, <1>8, <1>9, ConcatAt
<1> QED BY <1>1, <1>2, <1>3, <1>6, <1>7, <1>10 DEF Rest

\* The head ends at its last token and nowhere else.
LEMMA HeadIs ==
  ASSUME NEW a \in Answers
  PROVE  /\ Len(Wire(a)) \in Nat /\ a.head <= Len(Wire(a)) /\ Wire(a)[a.head] = HeadStop
         /\ \A i \in 1..Len(Wire(a)) : Wire(a)[i] = HeadStop => i = a.head
<1> DEFINE h == a.head
           n == Len(Rest(a))
<1>0. h \in Nat /\ h >= 1 BY AnswerShape
<1>1. /\ n \in Nat /\ Len(Wire(a)) = h + n /\ (\A i \in 1..h : Wire(a)[i] = HeadOf(a)[i])
      /\ \A j \in 1..n : Wire(a)[h + j] = Rest(a)[j] /\ Rest(a)[j] \in Tok
  BY WireIs, ElementOfSeq DEF IsCat
<1>2. \A i \in 1..h : HeadOf(a)[i] = IF i = h THEN HeadStop ELSE HeadPart
  BY DEF HeadOf
<1> HIDE DEF h, n
<1>3. ASSUME NEW i \in 1..Len(Wire(a)), Wire(a)[i] = HeadStop PROVE i = h
  <2>1. CASE i \in 1..h BY <1>1, <1>2, <1>3, <2>1 DEF HeadStop, HeadPart
  <2>2. CASE i \notin 1..h
    <3>1. i - h \in 1..n /\ h + (i - h) = i BY <1>0, <1>1, <2>2
    <3> QED BY <1>1, <1>3, <3>1 DEF Tok
  <2> QED BY <2>1, <2>2
<1>4. h \in 1..h BY <1>0
<1> QED BY <1>0, <1>1, <1>2, <1>3, <1>4 DEF h

\* A body that is not chunked.
LEMMA PlainBodyIs ==
  ASSUME NEW a \in Answers, a.framing # "chunked"
  PROVE  /\ Len(BodyOf(a)) \in Nat /\ Len(Wire(a)) = a.head + Len(BodyOf(a))
         /\ \A j \in 1..Len(BodyOf(a)) : Wire(a)[a.head + j] = BodyOf(a)[j]
<1>1. Rest(a) = BodyOf(a) BY DEF Rest
<1>2. IsCat(Wire(a), HeadOf(a), BodyOf(a)) /\ Len(HeadOf(a)) = a.head BY <1>1, WireIs
<1> QED BY <1>2 DEF IsCat

\* The wire from the end of one chunk to the end of the next.
LEMMA ChunkAt ==
  ASSUME NEW a \in Answers, a.framing = "chunked", NEW c \in 0..(Len(a.chunks) - 1)
  PROVE  LET p == At(a, c)
             x == a.chunks[c + 1]
             k == Len(x) IN
         /\ p \in Nat /\ k \in Nat /\ k >= 1 /\ At(a, c + 1) = p + k + 5 /\ At(a, c + 1) <= Len(Wire(a))
         /\ Wire(a)[p + 1] = Size(k) /\ Wire(a)[p + 2] = Cr /\ Wire(a)[p + 3] = Lf
         /\ \A j \in 1..k : Wire(a)[p + 3 + j] = x[j]
         /\ Wire(a)[p + k + 4] = (IF a.broken THEN 1 ELSE Cr)
         /\ Wire(a)[p + k + 5] = (IF a.broken THEN 1 ELSE Lf)
<1> DEFINE x == a.chunks[c + 1]
           k == Len(x)
           w == ChunkWire(x, a.broken)
           ws == Wires(a)
           q == Len(Part(ws, c))
           p == At(a, c)
           z == Part(ws, c + 1)
<1>0. Len(a.chunks) \in Nat /\ c + 1 \in 1..Len(a.chunks) /\ c \in 0..Len(a.chunks) /\ c + 1 \in 0..Len(a.chunks)
  BY AnswerShape
<1>1. x \in Seq(Byte) /\ k \in Nat /\ k >= 1 /\ a.broken \in BOOLEAN /\ a.head \in Nat
  BY <1>0, AnswerShape
<1>2. /\ w \in Seq(Tok) /\ Len(w) = k + 5 /\ w[1] = Size(k) /\ w[2] = Cr /\ w[3] = Lf
      /\ (\A j \in 1..k : w[3 + j] = x[j])
      /\ w[k + 4] = (IF a.broken THEN 1 ELSE Cr) /\ w[k + 5] = (IF a.broken THEN 1 ELSE Lf)
  BY <1>1, ChunkWireIs
<1>3. ws \in Seq(Seq(Tok)) /\ Len(ws) = Len(a.chunks) /\ ws[c + 1] = w
  BY <1>0, WiresTyped
<1> HIDE DEF w, ws, x, k
<1>4. z = Part(ws, c) \o w /\ Part(ws, c) \in Seq(Tok)
  <2>1. c \in 0..Len(ws) /\ c \in 0..(Len(ws) - 1) BY <1>0, <1>3
  <2> QED BY <1>3, <2>1, PartFacts
<1>5. IsCat(z, Part(ws, c), w) BY <1>2, <1>4, ConcatAt
<1>6. Len(z) <= Len(FlattenSeq(ws)) /\ \A j \in 1..Len(z) : FlattenSeq(ws)[j] = z[j]
  <2>1. c + 1 \in 0..Len(ws) BY <1>0, <1>3
  <2> QED BY <1>3, <2>1, PartGrows
<1>7. IsCat(Wire(a), HeadOf(a), Rest(a)) /\ Len(HeadOf(a)) = a.head /\ IsCat(Rest(a), FlattenSeq(ws), LastChunk(a))
  BY WireIs DEF ws
<1> HIDE DEF z, q, p
<1>8. q \in Nat /\ Len(z) = q + k + 5 /\ p = a.head + q /\ At(a, c + 1) = a.head + Len(z)
  BY <1>1, <1>2, <1>5 DEF IsCat, q, p, At, ws, z
<1>9. ASSUME NEW i \in 1..(k + 5) PROVE Wire(a)[p + i] = w[i]
  <2>1. z[q + i] = w[i] BY <1>2, <1>5 DEF IsCat, q
  <2>2. q + i \in 1..Len(z) BY <1>1, <1>8
  <2>3. FlattenSeq(ws)[q + i] = w[i] BY <1>6, <2>1, <2>2
  <2>4. q + i \in 1..Len(FlattenSeq(ws)) BY <1>1, <1>6, <1>7, <1>8, <2>2 DEF IsCat
  <2>5. Rest(a)[q + i] = w[i] BY <1>7, <2>3, <2>4 DEF IsCat
  <2>6. q + i \in 1..Len(Rest(a)) BY <1>7, <2>4 DEF IsCat
  <2>7. Wire(a)[a.head + (q + i)] = w[i] BY <1>7, <2>5, <2>6 DEF IsCat
  <2>8. a.head + (q + i) = p + i BY <1>1, <1>8
  <2> QED BY <2>7, <2>8
<1>10. At(a, c + 1) <= Len(Wire(a)) BY <1>1, <1>6, <1>7, <1>8 DEF IsCat
<1>11. p \in Nat /\ At(a, c + 1) = p + k + 5 BY <1>1, <1>8
<1>12. Wire(a)[p + 1] = Size(k) /\ Wire(a)[p + 2] = Cr /\ Wire(a)[p + 3] = Lf
  <2>1. 1 \in 1..(k + 5) /\ 2 \in 1..(k + 5) /\ 3 \in 1..(k + 5) BY <1>1
  <2> QED BY <1>2, <1>9, <2>1
<1>13. ASSUME NEW j \in 1..k PROVE Wire(a)[p + 3 + j] = x[j]
  <2>1. 3 + j \in 1..(k + 5) /\ p + 3 + j = p + (3 + j) BY <1>1, <1>11
  <2> QED BY <1>2, <1>9, <2>1
<1>14. /\ Wire(a)[p + k + 4] = (IF a.broken THEN 1 ELSE Cr)
       /\ Wire(a)[p + k + 5] = (IF a.broken THEN 1 ELSE Lf)
  <2>1. k + 4 \in 1..(k + 5) /\ k + 5 \in 1..(k + 5) /\ p + k + 4 = p + (k + 4) /\ p + k + 5 = p + (k + 5)
    BY <1>1, <1>11
  <2> QED BY <1>2, <1>9, <2>1
<1> QED BY <1>1, <1>10, <1>11, <1>12, <1>13, <1>14 DEF p, x, k

\* The wire after the last chunk.
LEMMA LastAt ==
  ASSUME NEW a \in Answers, a.framing = "chunked"
  PROVE  LET p == At(a, Len(a.chunks))
             t == LastChunk(a) IN
         /\ p \in Nat /\ Len(Wire(a)) = p + Len(t) /\ At(a, 0) = a.head
         /\ \A i \in 1..Len(t) : Wire(a)[p + i] = t[i]
<1> DEFINE p == At(a, Len(a.chunks))
           t == LastChunk(a)
           F == FlattenSeq(Wires(a))
<1>1. a.head \in Nat BY AnswerShape
<1>2. /\ IsCat(Wire(a), HeadOf(a), Rest(a)) /\ Len(HeadOf(a)) = a.head /\ IsCat(Rest(a), F, t)
  BY WireIs
<1>3. Part(Wires(a), Len(a.chunks)) = F /\ Part(Wires(a), 0) = <<>>
  BY WiresTyped, PartFacts
<1> HIDE DEF t, F
<1>4. p = a.head + Len(F) /\ At(a, 0) = a.head
  BY <1>1, <1>3 DEF At
<1>5. Len(F) \in Nat /\ Len(t) \in Nat /\ Len(Rest(a)) = Len(F) + Len(t) /\ Len(Wire(a)) = a.head + Len(Rest(a))
  BY <1>2 DEF IsCat
<1> HIDE DEF p
<1>6. ASSUME NEW i \in 1..Len(t) PROVE Wire(a)[p + i] = t[i]
  <2>1. Rest(a)[Len(F) + i] = t[i] BY <1>2 DEF IsCat
  <2>2. Len(F) + i \in 1..Len(Rest(a)) BY <1>5
  <2>3. Wire(a)[a.head + (Len(F) + i)] = t[i] BY <1>2, <2>1, <2>2 DEF IsCat
  <2>4. a.head + (Len(F) + i) = p + i BY <1>1, <1>4, <1>5
  <2> QED BY <2>3, <2>4
<1>7. p \in Nat /\ Len(Wire(a)) = p + Len(t) BY <1>1, <1>4, <1>5
<1> QED BY <1>4, <1>6, <1>7 DEF p, t

\* Tokens that have left the buffer.
Pos == taken - Len(rbuf)

\* The body that the first c chunks carry.
Got(a, c) == Part(a.chunks, c)

ReaderTyped ==
  /\ resp \in Answers /\ given \in 0..Len(Wire(resp)) /\ ending \in Endings
  /\ taken \in 0..given /\ rbuf \in Seq(Int)
  /\ rat \in {"head", "length", "size", "data", "trailer", "rest", "ok", "bad", "late"}

\* The buffer is a stretch of the wire that ends at taken.
Aligned == Pos \in Nat /\ \A j \in 1..Len(rbuf) : rbuf[j] = Wire(resp)[Pos + j]

\* c chunks are decoded, and were whole.
Decoded(c) == rout = Got(resp, c) /\ (c > 0 => ~resp.broken)

\* Where on the wire the loop stands, and what it has decoded.
Stands ==
  /\ rat = "head" => Pos = 0
  /\ rat = "length" => resp.framing = "length" /\ Pos = resp.head
  /\ rat = "rest" => resp.framing = "none" /\ Pos = resp.head
  /\ rat \in {"size", "data", "trailer"} => resp.framing = "chunked"
  /\ rat = "head" => rout = <<>>
  /\ rat = "size" => \E c \in 0..Len(resp.chunks) : Decoded(c) /\ Pos = At(resp, c)
  /\ rat = "data" => \E c \in 0..(Len(resp.chunks) - 1) :
                        Decoded(c) /\ Pos = At(resp, c) + 3 /\ chunk = Len(resp.chunks[c + 1])
  /\ rat = "trailer" => /\ Decoded(Len(resp.chunks))
                        /\ \/ Pos = At(resp, Len(resp.chunks)) + 3
                           \/ Len(LastChunk(resp)) = 8 /\ Pos = At(resp, Len(resp.chunks)) + 6

ReadInv == ReaderTyped /\ Aligned /\ Stands /\ ResponseIntact

\* Nothing is read yet.
LEMMA ReadInitial == ReadInit => ReadInv
<1> SUFFICES ASSUME ReadInit PROVE ReadInv OBVIOUS
<1>1. taken = 0 /\ rbuf = <<>> /\ rat = "head" /\ rout = <<>> /\ resp \in Answers /\ given \in 0..Len(Wire(resp)) /\ ending \in Endings
  BY DEF ReadInit
<1>2. Len(Wire(resp)) \in Nat BY <1>1, HeadIs
<1>3. rbuf \in Seq(Int) /\ Len(rbuf) = 0 BY <1>1
<1>4. ReaderTyped BY <1>1, <1>2, <1>3 DEF ReaderTyped
<1>5. Pos = 0 /\ Aligned
  <2>0. taken = 0 /\ Len(rbuf) = 0 BY <1>1, <1>3
  <2>1. Pos = 0 BY <2>0 DEF Pos
  <2> QED BY <1>3, <2>1 DEF Aligned
<1>6. Stands BY <1>1, <1>5 DEF Stands
<1>7. ResponseIntact BY <1>1 DEF ResponseIntact
<1> QED BY <1>4, <1>5, <1>6, <1>7 DEF ReadInv

\* Numbers of a state.
LEMMA ReadNumbers ==
  ASSUME ReaderTyped
  PROVE  /\ Len(rbuf) \in Nat /\ taken \in Nat /\ given \in Nat /\ taken <= given
         /\ Len(Wire(resp)) \in Nat /\ given <= Len(Wire(resp)) /\ taken = Pos + Len(rbuf) /\ resp \in Answers
         /\ Wire(resp) \in Seq(Int) /\ rbuf \in Seq(Int)
<1>1. resp \in Answers /\ given \in 0..Len(Wire(resp)) /\ taken \in 0..given /\ rbuf \in Seq(Int) BY DEF ReaderTyped
<1>2. Len(Wire(resp)) \in Nat BY <1>1, HeadIs
<1>3. Wire(resp) \in Seq(Int) BY <1>1, WireIs
<1>4. Len(rbuf) \in Nat BY <1>1
<1> QED BY <1>1, <1>2, <1>3, <1>4 DEF Pos

\* The buffer loses its first n tokens.
LEMMA DropKeeps ==
  ASSUME ReaderTyped, Aligned, NEW n \in 0..Len(rbuf), DropFirst(n), UNCHANGED <<resp, taken>>
  PROVE  rbuf' \in Seq(Int) /\ Pos' = Pos + n /\ Aligned'
<1>1. Len(rbuf) \in Nat /\ rbuf \in Seq(Int) /\ taken \in Nat BY ReadNumbers
<1>2. rbuf' = SubSeq(rbuf, n + 1, Len(rbuf)) BY DEF DropFirst
<1> DEFINE b == SubSeq(rbuf, n + 1, Len(rbuf))
<1>3. b \in Seq(Int) /\ Len(b) = Len(rbuf) - n /\ \A j \in 1..(Len(rbuf) - n) : b[j] = rbuf[n + j]
  BY <1>1
<1> HIDE DEF b
<1>4. rbuf' = b BY <1>2 DEF b
<1>5. Pos' = Pos + n
  <2>1. taken' = taken /\ Len(rbuf') = Len(rbuf) - n BY <1>3, <1>4
  <2>2. Pos' = taken' - Len(rbuf') BY DEF Pos
  <2>3. taken - (Len(rbuf) - n) = (taken - Len(rbuf)) + n BY <1>1
  <2> QED BY <2>1, <2>2, <2>3 DEF Pos
<1>6. Pos \in Nat BY DEF Aligned
<1>7. ASSUME NEW j \in 1..Len(b) PROVE b[j] = Wire(resp)[(Pos + n) + j]
  <2>1. n + j \in 1..Len(rbuf) /\ Pos + (n + j) = (Pos + n) + j BY <1>1, <1>3, <1>6
  <2> QED BY <1>1, <1>3, <2>1 DEF Aligned
<1> QED BY <1>3, <1>4, <1>5, <1>6, <1>7 DEF Aligned

\* A line of one token, and an empty one.
LEMMA LineSecond ==
  ASSUME rbuf \in Seq(Int), Len(rbuf) >= 1 => rbuf[1] # Cr,
         Len(rbuf) >= 3 => rbuf[2] = Cr /\ rbuf[3] = Lf
  PROVE  (LineAt = {} <=> Len(rbuf) < 3) /\ (LineAt # {} => FirstLine = 2)
<1>0. Len(rbuf) \in Nat OBVIOUS
<1>1. ASSUME NEW i \in LineAt PROVE i \in Nat /\ i >= 2 /\ Len(rbuf) >= 3
  BY <1>0 DEF LineAt
<1>2. Len(rbuf) >= 3 => 2 \in LineAt BY <1>0 DEF LineAt
<1>3. LineAt # {} => FirstLine \in LineAt /\ \A j \in LineAt : FirstLine <= j
  <2> SUFFICES ASSUME LineAt # {} PROVE FirstLine \in LineAt /\ \A j \in LineAt : FirstLine <= j
    OBVIOUS
  <2>1. 2 \in LineAt /\ \A j \in LineAt : 2 <= j BY <1>1, <1>2
  <2> QED BY <2>1 DEF FirstLine
<1>4. ASSUME LineAt # {} PROVE FirstLine = 2
  <2>1. 2 \in LineAt BY <1>1, <1>2, <1>4
  <2>2. FirstLine \in Nat /\ FirstLine >= 2 /\ FirstLine <= 2 BY <1>1, <1>3, <1>4, <2>1
  <2> QED BY <2>2
<1> QED BY <1>0, <1>1, <1>2, <1>4

\* The empty line.
LEMMA LineFirst ==
  ASSUME rbuf \in Seq(Int), Len(rbuf) >= 2 => rbuf[1] = Cr /\ rbuf[2] = Lf
  PROVE  (LineAt = {} <=> Len(rbuf) < 2) /\ (LineAt # {} => FirstLine = 1)
<1>0. Len(rbuf) \in Nat OBVIOUS
<1>1. ASSUME NEW i \in LineAt PROVE i \in Nat /\ i >= 1 /\ Len(rbuf) >= 2
  BY <1>0 DEF LineAt
<1>2. Len(rbuf) >= 2 => 1 \in LineAt BY <1>0 DEF LineAt
<1>3. LineAt # {} => FirstLine \in LineAt /\ \A j \in LineAt : FirstLine <= j
  <2> SUFFICES ASSUME LineAt # {} PROVE FirstLine \in LineAt /\ \A j \in LineAt : FirstLine <= j
    OBVIOUS
  <2>1. 1 \in LineAt /\ \A j \in LineAt : 1 <= j BY <1>1, <1>2
  <2> QED BY <2>1 DEF FirstLine
<1>4. ASSUME LineAt # {} PROVE FirstLine = 1
  <2>1. 1 \in LineAt BY <1>1, <1>2, <1>4
  <2>2. FirstLine \in Nat /\ FirstLine >= 1 /\ FirstLine <= 1 BY <1>1, <1>3, <1>4, <2>1
  <2> QED BY <2>2
<1> QED BY <1>0, <1>1, <1>2, <1>4

\* The size that the line after c chunks announces.
ChunkSize(a, c) == IF c < Len(a.chunks) THEN Len(a.chunks[c + 1]) ELSE 0

\* At a size line.
LEMMA SizeSeen ==
  ASSUME ReaderTyped, Aligned, resp.framing = "chunked", NEW c \in 0..Len(resp.chunks), Pos = At(resp, c)
  PROVE  /\ ChunkSize(resp, c) \in Nat /\ (c < Len(resp.chunks) => ChunkSize(resp, c) >= 1)
         /\ Pos + 3 <= Len(Wire(resp)) /\ (LineAt = {} <=> Len(rbuf) < 3)
         /\ LineAt # {} => FirstLine = 2 /\ rbuf[1] = Size(ChunkSize(resp, c))
<1> DEFINE n == Len(resp.chunks)
           k == ChunkSize(resp, c)
           W == Wire(resp)
<1>0. resp \in Answers /\ n \in Nat /\ resp.trailer \in BOOLEAN /\ rbuf \in Seq(Int) /\ Len(rbuf) \in Nat
      /\ Len(W) \in Nat /\ Pos \in Nat
  BY ReadNumbers, AnswerShape DEF Aligned
<1>1. /\ k \in Nat /\ (c < n => k >= 1) /\ Pos + 3 <= Len(W)
      /\ W[Pos + 1] = Size(k) /\ W[Pos + 2] = Cr /\ W[Pos + 3] = Lf
  <2>1. CASE c < n
    <3>1. c \in 0..(n - 1) BY <1>0, <2>1
    <3>2. k = Len(resp.chunks[c + 1]) BY <2>1 DEF ChunkSize
    <3> DEFINE x == resp.chunks[c + 1]
    <3>3. /\ Len(x) \in Nat /\ Len(x) >= 1 /\ At(resp, c + 1) = Pos + Len(x) + 5 /\ At(resp, c + 1) <= Len(W)
          /\ W[Pos + 1] = Size(Len(x)) /\ W[Pos + 2] = Cr /\ W[Pos + 3] = Lf
      BY <1>0, <3>1, ChunkAt
    <3> HIDE DEF x, W, k
    <3>4. Pos + 3 <= Len(W) BY <1>0, <3>3
    <3> QED BY <3>2, <3>3, <3>4 DEF x
  <2>2. CASE ~(c < n)
    <3>1. c = n /\ k = 0 BY <1>0, <2>2 DEF ChunkSize
    <3> DEFINE t == LastChunk(resp)
    <3>2. Len(W) = Pos + Len(t) /\ \A i \in 1..Len(t) : W[Pos + i] = t[i]
      BY <1>0, <3>1, LastAt
    <3>3. t[1] = Size(0) /\ t[2] = Cr /\ t[3] = Lf /\ Len(t) \in {5, 8}
      BY <1>0, LastChunkIs
    <3> HIDE DEF t, W, k, n
    <3>4. 1 \in 1..Len(t) /\ 2 \in 1..Len(t) /\ 3 \in 1..Len(t) /\ Pos + 3 <= Len(W) BY <1>0, <3>2, <3>3
    <3> QED BY <2>2, <3>1, <3>2, <3>3, <3>4
  <2> QED BY <2>1, <2>2
<1> HIDE DEF n, k, W
<1>2. /\ Len(rbuf) >= 1 => rbuf[1] = Size(k)
      /\ Len(rbuf) >= 3 => rbuf[2] = Cr /\ rbuf[3] = Lf
  <2>0. /\ Len(rbuf) >= 1 => 1 \in 1..Len(rbuf)
        /\ Len(rbuf) >= 3 => 2 \in 1..Len(rbuf) /\ 3 \in 1..Len(rbuf)
    BY <1>0
  <2>1. /\ Len(rbuf) >= 1 => rbuf[1] = W[Pos + 1]
        /\ Len(rbuf) >= 3 => rbuf[2] = W[Pos + 2] /\ rbuf[3] = W[Pos + 3]
    BY <2>0 DEF Aligned, W
  <2> QED BY <1>1, <2>1
<1>3. Size(k) # Cr BY <1>1 DEF Size, Cr
<1>4. (LineAt = {} <=> Len(rbuf) < 3) /\ (LineAt # {} => FirstLine = 2)
  BY <1>0, <1>2, <1>3, LineSecond
<1>5. LineAt # {} => Len(rbuf) >= 1 BY <1>0, <1>4
<1> QED BY <1>1, <1>2, <1>4, <1>5 DEF n, k, W

\* At a line of the trailer: a field, or the empty line that ends it.
LEMMA TrailerSeen ==
  ASSUME ReaderTyped, Aligned, resp.framing = "chunked",
         NEW p, p = At(resp, Len(resp.chunks)), Pos = p + 3 \/ (Len(LastChunk(resp)) = 8 /\ Pos = p + 6)
  PROVE  /\ LineAt = {} => taken < Len(Wire(resp))
         /\ LineAt # {} => \/ FirstLine = 1 /\ Pos + 2 = Len(Wire(resp)) /\ Len(rbuf) >= 2
                           \/ FirstLine = 2 /\ Len(LastChunk(resp)) = 8 /\ Pos = p + 3 /\ Len(rbuf) >= 3
<1> DEFINE t == LastChunk(resp)
           W == Wire(resp)
<1>0. resp \in Answers /\ resp.trailer \in BOOLEAN /\ rbuf \in Seq(Int) /\ Len(rbuf) \in Nat
      /\ Len(W) \in Nat /\ Pos \in Nat /\ taken = Pos + Len(rbuf)
  BY ReadNumbers, AnswerShape DEF Aligned
<1>1. p \in Nat /\ Len(W) = p + Len(t) /\ \A i \in 1..Len(t) : W[p + i] = t[i]
  BY <1>0, LastAt
<1>2. /\ Len(t) \in {5, 8}
      /\ Len(t) = 8 => t[4] = TrailerField /\ t[5] = Cr /\ t[6] = Lf /\ t[7] = Cr /\ t[8] = Lf
      /\ Len(t) = 5 => t[4] = Cr /\ t[5] = Lf
  BY <1>0, LastChunkIs
<1> HIDE DEF t
<1>3. CASE Len(t) = 8 /\ Pos = p + 3
  <2>1. Len(t) = 8 /\ 4 \in 1..Len(t) /\ 5 \in 1..Len(t) /\ 6 \in 1..Len(t) BY <1>0, <1>2, <1>3
  <2>2. W[p + 4] = TrailerField /\ W[p + 5] = Cr /\ W[p + 6] = Lf BY <1>0, <1>1, <1>2, <1>3, <2>1
  <2>3. Pos + 1 = p + 4 /\ Pos + 2 = p + 5 /\ Pos + 3 = p + 6
    <3>1. p \in Nat /\ Pos = p + 3 BY <1>1, <1>3
    <3> QED BY <3>1
  <2>4. /\ Len(rbuf) >= 1 => rbuf[1] = TrailerField
        /\ Len(rbuf) >= 3 => rbuf[2] = Cr /\ rbuf[3] = Lf
    <3> HIDE DEF W
    <3>0. /\ Len(rbuf) >= 1 => 1 \in 1..Len(rbuf)
          /\ Len(rbuf) >= 3 => 2 \in 1..Len(rbuf) /\ 3 \in 1..Len(rbuf)
      BY <1>0
    <3>1. /\ Len(rbuf) >= 1 => rbuf[1] = W[Pos + 1]
          /\ Len(rbuf) >= 3 => rbuf[2] = W[Pos + 2] /\ rbuf[3] = W[Pos + 3]
      BY <3>0 DEF Aligned, W
    <3> QED BY <2>2, <2>3, <3>1
  <2>5. TrailerField # Cr BY DEF TrailerField, Cr
  <2>6. (LineAt = {} <=> Len(rbuf) < 3) /\ (LineAt # {} => FirstLine = 2)
    BY <1>0, <2>4, <2>5, LineSecond
  <2> HIDE DEF W
  <2>7. Len(W) = Pos + 5 BY <1>1, <1>3, <2>1
  <2>8. taken = Pos + Len(rbuf) /\ Pos \in Nat /\ Len(rbuf) \in Nat BY <1>0
  <2>9. LineAt = {} => taken < Len(W) BY <2>6, <2>7, <2>8
  <2>10. LineAt # {} => FirstLine = 2 /\ Len(rbuf) >= 3 BY <2>6, <2>8
  <2> QED BY <1>3, <2>9, <2>10 DEF W, t
<1>4. CASE ~(Len(t) = 8 /\ Pos = p + 3)
  <2>1. Pos + 2 = Len(W) /\ W[Pos + 1] = Cr /\ W[Pos + 2] = Lf
    <3>1. CASE Len(t) = 8
      <4>1. Pos = p + 6 /\ Len(t) = 8 /\ 7 \in 1..Len(t) /\ 8 \in 1..Len(t) BY <1>4, <3>1 DEF t
      <4> HIDE DEF W
      <4>2. W[p + 7] = Cr /\ W[p + 8] = Lf BY <1>1, <1>2, <4>1
      <4>0. p \in Nat /\ Pos = p + 6 BY <1>1, <4>1
      <4>3. Pos + 1 = p + 7 /\ Pos + 2 = p + 8 BY <4>0
      <4> QED BY <1>1, <4>1, <4>2, <4>3
    <3>2. CASE Len(t) = 5
      <4>1. Pos = p + 3 /\ Len(t) = 5 /\ 4 \in 1..Len(t) /\ 5 \in 1..Len(t) BY <1>2, <3>2 DEF t
      <4> HIDE DEF W
      <4>2. W[p + 4] = Cr /\ W[p + 5] = Lf BY <1>1, <1>2, <4>1
      <4>0. p \in Nat /\ Pos = p + 3 BY <1>1, <4>1
      <4>3. Pos + 1 = p + 4 /\ Pos + 2 = p + 5 BY <4>0
      <4> QED BY <1>1, <4>1, <4>2, <4>3
    <3> QED BY <1>2, <3>1, <3>2
  <2> HIDE DEF W
  <2>2. Len(rbuf) >= 2 => rbuf[1] = W[Pos + 1] /\ rbuf[2] = W[Pos + 2]
    <3> SUFFICES ASSUME Len(rbuf) >= 2 PROVE rbuf[1] = W[Pos + 1] /\ rbuf[2] = W[Pos + 2]
      OBVIOUS
    <3>1. 1 \in 1..Len(rbuf) /\ 2 \in 1..Len(rbuf) BY <1>0
    <3> QED BY <3>1 DEF Aligned, W
  <2>3. (LineAt = {} <=> Len(rbuf) < 2) /\ (LineAt # {} => FirstLine = 1)
    BY <1>0, <2>1, <2>2, LineFirst
  <2> QED BY <1>0, <2>1, <2>3 DEF W
<1> QED BY <1>3, <1>4

\* A read appends the next tokens of the wire.
LEMMA ReadMoreKeeps ==
  ASSUME ReadInv, NEW n \in 1..MaxPiece, ReadMore(n)
  PROVE  ReadInv'
<1> DEFINE W == Wire(resp)
           s == SubSeq(W, taken + 1, taken + n)
<1>0. ReaderTyped /\ Aligned /\ Stands BY DEF ReadInv
<1>1. /\ NeedsMore /\ taken + n <= given /\ rbuf' = rbuf \o s /\ taken' = taken + n
      /\ resp' = resp /\ given' = given /\ ending' = ending /\ rout' = rout /\ rat' = rat /\ chunk' = chunk
  BY DEF ReadMore, Frozen
<1>2. /\ Len(rbuf) \in Nat /\ taken \in Nat /\ given \in Nat /\ Len(W) \in Nat /\ given <= Len(W)
      /\ taken = Pos + Len(rbuf) /\ W \in Seq(Int) /\ rbuf \in Seq(Int) /\ n \in Nat /\ n >= 1 /\ Pos \in Nat
  BY <1>0, ReadNumbers, ReaderAssumption DEF Aligned
<1>3. s \in Seq(Int) /\ Len(s) = n /\ \A i \in 1..n : s[i] = W[taken + i]
  <2> DEFINE m == taken + 1
             e == taken + n
  <2>1. m \in 1..(Len(W) + 1) /\ e \in (m - 1)..Len(W) /\ e - m + 1 = n BY <1>1, <1>2
  <2>2. \A i \in 1..n : (taken + 1) + i - 1 = taken + i BY <1>2
  <2> HIDE DEF W
  <2>3. SubSeq(W, m, e) \in Seq(Int) /\ Len(SubSeq(W, m, e)) = e - m + 1
        /\ \A i \in 1..(e - m + 1) : SubSeq(W, m, e)[i] = W[m + i - 1]
    <3> HIDE DEF m, e
    <3> QED BY <1>2, <2>1, SubSeqProperties
  <2> QED BY <2>1, <2>2, <2>3
<1> HIDE DEF s
<1>4. rbuf' \in Seq(Int) /\ IsCat(rbuf', rbuf, s) BY <1>1, <1>2, <1>3, ConcatAt
<1>5. Len(rbuf') = Len(rbuf) + n BY <1>3, <1>4 DEF IsCat
<1>6. Pos' = Pos
  <2>1. Pos' = taken' - Len(rbuf') BY DEF Pos
  <2> QED BY <1>1, <1>2, <1>5, <2>1
<1>7. ASSUME NEW j \in 1..(Len(rbuf) + n) PROVE rbuf'[j] = W[Pos + j]
  <2>1. CASE j \in 1..Len(rbuf)
    BY <1>0, <1>4, <2>1 DEF Aligned, IsCat
  <2>2. CASE j \notin 1..Len(rbuf)
    <3>1. j - Len(rbuf) \in 1..n /\ Len(rbuf) + (j - Len(rbuf)) = j /\ taken + (j - Len(rbuf)) = Pos + j
      BY <1>2, <2>2
    <3>2. rbuf'[Len(rbuf) + (j - Len(rbuf))] = s[j - Len(rbuf)] BY <1>3, <1>4, <3>1 DEF IsCat
    <3> HIDE DEF W
    <3> QED BY <1>3, <3>1, <3>2
  <2> QED BY <2>1, <2>2
<1>8. Aligned' BY <1>1, <1>2, <1>5, <1>6, <1>7 DEF Aligned
<1>9. ReaderTyped'
  <2>1. taken' \in 0..given BY <1>1, <1>2
  <2> QED BY <1>0, <1>1, <1>4, <2>1 DEF ReaderTyped
<1>10. Stands' BY <1>0, <1>1, <1>6 DEF Stands, Decoded
<1>11. ResponseIntact' BY <1>1 DEF ResponseIntact, NeedsMore
<1> QED BY <1>8, <1>9, <1>10, <1>11 DEF ReadInv

\* A loop that still has to read has not seen the whole response.
LEMMA NeedsMoreMeansMore ==
  ASSUME ReadInv, NeedsMore, rat # "rest"
  PROVE  taken < Len(Wire(resp))
<1> DEFINE W == Wire(resp)
<1>0. ReaderTyped /\ Aligned /\ Stands BY DEF ReadInv
<1>1. /\ Len(rbuf) \in Nat /\ taken \in Nat /\ Len(W) \in Nat /\ resp \in Answers
      /\ taken = Pos + Len(rbuf) /\ rbuf \in Seq(Int) /\ Pos \in Nat
  BY <1>0, ReadNumbers DEF Aligned
<1>2. CASE rat = "head"
  <2>1. resp.head \in Nat /\ resp.head >= 1 /\ resp.head <= Len(W) /\ W[resp.head] = HeadStop
    BY <1>1, HeadIs, AnswerShape
  <2>2. HeadAt = {} /\ Pos = 0 BY <1>0, <1>2 DEF NeedsMore, Stands
  <2>3. ASSUME resp.head <= taken PROVE FALSE
    <3>1. resp.head \in 1..Len(rbuf) BY <1>1, <2>1, <2>2, <2>3
    <3>2. rbuf[resp.head] = W[Pos + resp.head] BY <1>0, <3>1 DEF Aligned
    <3>3. Pos + resp.head = resp.head BY <2>1, <2>2
    <3>4. resp.head \in HeadAt BY <1>1, <2>1, <3>1, <3>2, <3>3 DEF HeadAt
    <3> QED BY <2>2, <3>4
  <2> HIDE DEF W
  <2> QED BY <1>1, <2>1, <2>3 DEF W
<1>3. CASE rat = "length"
  <2>1. Len(rbuf) < Len(BodyOf(resp)) /\ Pos = resp.head /\ resp.framing # "chunked"
    BY <1>0, <1>3 DEF NeedsMore, Stands, ContentLength
  <2>2. Len(BodyOf(resp)) \in Nat /\ Len(W) = resp.head + Len(BodyOf(resp)) BY <1>1, <2>1, PlainBodyIs
  <2> HIDE DEF W
  <2> QED BY <1>1, <2>1, <2>2 DEF W
<1>4. CASE rat = "size"
  <2>1. LineAt = {} /\ resp.framing = "chunked" BY <1>0, <1>4 DEF NeedsMore, Stands
  <2>2. PICK c \in 0..Len(resp.chunks) : Pos = At(resp, c) BY <1>0, <1>4 DEF Stands
  <2>3. Pos + 3 <= Len(W) /\ Len(rbuf) < 3 BY <1>0, <2>1, <2>2, SizeSeen
  <2> HIDE DEF W
  <2> QED BY <1>1, <2>3 DEF W
<1>5. CASE rat = "data"
  <2>1. Len(rbuf) < chunk + 2 /\ resp.framing = "chunked" BY <1>0, <1>5 DEF NeedsMore, Stands
  <2>2. PICK c \in 0..(Len(resp.chunks) - 1) : Pos = At(resp, c) + 3 /\ chunk = Len(resp.chunks[c + 1])
    BY <1>0, <1>5 DEF Stands
  <2>3. /\ At(resp, c) \in Nat /\ chunk \in Nat /\ At(resp, c + 1) = At(resp, c) + chunk + 5
        /\ At(resp, c + 1) <= Len(W)
    BY <1>1, <2>1, <2>2, ChunkAt
  <2> HIDE DEF W
  <2> DEFINE p == At(resp, c)
  <2>4. p \in Nat /\ chunk \in Nat /\ taken = (p + 3) + Len(rbuf) /\ p + chunk + 5 <= Len(W)
    BY <1>1, <2>2, <2>3
  <2> HIDE DEF p
  <2>5. taken < p + chunk + 5 BY <1>1, <2>1, <2>4
  <2> QED BY <1>1, <2>4, <2>5 DEF W
<1>6. CASE rat = "trailer"
  <2>1. /\ LineAt = {} /\ resp.framing = "chunked"
        /\ \/ Pos = At(resp, Len(resp.chunks)) + 3
           \/ Len(LastChunk(resp)) = 8 /\ Pos = At(resp, Len(resp.chunks)) + 6
    BY <1>0, <1>6 DEF NeedsMore, Stands
  <2> QED BY <1>0, <2>1, TrailerSeen
<1> QED BY <1>0, <1>2, <1>3, <1>4, <1>5, <1>6 DEF NeedsMore, ReaderTyped

\* Steps that leave the buffer as it is.
LEMMA StayKeeps ==
  ASSUME ReaderTyped, Aligned, NEW at \in {"ok", "bad", "late"}, ReadGoes(at), rbuf' = rbuf
  PROVE  ReaderTyped' /\ Aligned' /\ Stands'
<1>1. resp' = resp /\ given' = given /\ ending' = ending /\ taken' = taken /\ rat' = at
  BY DEF ReadGoes, Frozen
<1>2. Pos' = Pos BY <1>1 DEF Pos
<1>3. ReaderTyped' BY <1>1 DEF ReaderTyped
<1>4. Aligned' BY <1>1, <1>2 DEF Aligned
<1>5. Stands' BY <1>1 DEF Stands
<1> QED BY <1>3, <1>4, <1>5

\* The stream ends, falls silent or fails where the loop wants more.
LEMMA StreamEndsKeeps ==
  ASSUME ReadInv, StreamEnds
  PROVE  ReadInv'
<1>0. ReaderTyped /\ Aligned /\ Stands BY DEF ReadInv
<1>1. NeedsMore /\ taken = given /\ rbuf' = rbuf BY DEF StreamEnds
<1>2. resp \in Answers /\ taken \in Nat /\ Len(Wire(resp)) \in Nat /\ rbuf \in Seq(Int) /\ Len(rbuf) \in Nat
      /\ taken = Pos + Len(rbuf) /\ taken <= Len(Wire(resp))
  BY <1>0, ReadNumbers
<1>3. CASE EndAccepted
  <2>1. ReadGoes("ok") /\ rout' = rbuf /\ rat = "rest" BY <1>3 DEF StreamEnds, EndAccepted
  <2>2. resp' = resp /\ rat' = "ok" BY <2>1 DEF ReadGoes, Frozen
  <2>3. resp.framing = "none" /\ Pos = resp.head BY <1>0, <2>1 DEF Stands
  <2> DEFINE b == BodyOf(resp)
  <2>4. Len(b) \in Nat /\ Len(Wire(resp)) = resp.head + Len(b) /\ \A j \in 1..Len(b) : Wire(resp)[resp.head + j] = b[j]
    BY <1>2, <2>3, PlainBodyIs
  <2>5. b \in Seq(Tok) BY <1>2, WireIs
  <2> HIDE DEF b
  <2>6. Len(rbuf) <= Len(b) /\ \A j \in 1..Len(rbuf) : rbuf[j] = b[j]
    <3>1. resp.head \in Nat BY <1>2, AnswerShape
    <3>2. Len(rbuf) <= Len(b) BY <1>2, <2>3, <2>4, <3>1
    <3>3. ASSUME NEW j \in 1..Len(rbuf) PROVE rbuf[j] = b[j]
      <4>1. j \in 1..Len(b) BY <1>2, <2>4, <3>2
      <4>2. rbuf[j] = Wire(resp)[resp.head + j] BY <1>0, <2>3 DEF Aligned
      <4> QED BY <2>4, <4>1, <4>2
    <3> QED BY <3>2, <3>3
  <2>7. IsPrefix(rbuf, b)
    <3> DEFINE m == Len(rbuf)
    <3>1. SubSeq(rbuf, 1, m) = [j \in 1..m |-> rbuf[j]]
      BY <1>2
    <3>2. SubSeq(b, 1, m) = [j \in 1..m |-> b[j]]
      BY <1>2, <2>4, <2>5, <2>6
    <3>3. [j \in 1..m |-> rbuf[j]] = [j \in 1..m |-> b[j]] BY <2>6
    <3> QED BY <2>6, <3>1, <3>2, <3>3 DEF IsPrefix
  <2>8. ResponseIntact' BY <2>1, <2>2, <2>3, <2>7 DEF ResponseIntact, b
  <2> QED BY <1>0, <1>1, <2>1, <2>8, StayKeeps DEF ReadInv
<1>4. CASE ~EndAccepted
  <2>1. ReadGoes("bad") BY <1>4 DEF StreamEnds
  <2>2. resp' = resp /\ given' = given /\ ending' = ending /\ rat' = "bad" BY <2>1 DEF ReadGoes, Frozen
  <2>3. CASE rat = "rest"
    <3>1. resp.framing = "none" /\ ending = "reset" BY <1>0, <1>4, <2>3 DEF Stands, EndAccepted
    <3>2. ResponseIntact' BY <2>2, <3>1 DEF ResponseIntact
    <3> QED BY <1>0, <1>1, <2>1, <3>2, StayKeeps DEF ReadInv
  <2>4. CASE rat # "rest"
    <3>1. given < Len(Wire(resp)) BY <1>1, <2>4, NeedsMoreMeansMore
    <3>2. ResponseIntact' BY <2>2, <3>1 DEF ResponseIntact
    <3> QED BY <1>0, <1>1, <2>1, <3>2, StayKeeps DEF ReadInv
  <2> QED BY <2>3, <2>4
<1> QED BY <1>3, <1>4

\* A head that does not end in time, or at all.
LEMMA HeadFailsKeeps ==
  ASSUME ReadInv, HeadDeadline \/ HeadTooLarge
  PROVE  ReadInv'
<1>0. ReaderTyped /\ Aligned /\ Stands BY DEF ReadInv
<1>1. rat = "head" /\ rbuf' = rbuf BY DEF HeadDeadline, HeadTooLarge
<1>2. CASE HeadDeadline
  <2>1. ReadGoes("late") BY <1>2 DEF HeadDeadline
  <2>2. rat' = "late" BY <2>1 DEF ReadGoes
  <2>3. ResponseIntact' BY <2>2 DEF ResponseIntact
  <2> QED BY <1>0, <1>1, <2>1, <2>3, StayKeeps DEF ReadInv
<1>3. CASE HeadTooLarge
  <2>1. ReadGoes("bad") /\ HeadAt = {} /\ Len(rbuf) > HeadMax BY <1>3 DEF HeadTooLarge
  <2>2. rat' = "bad" /\ resp' = resp BY <2>1 DEF ReadGoes, Frozen
  <2>3. /\ Len(rbuf) \in Nat /\ resp \in Answers /\ Pos = 0 /\ rbuf \in Seq(Int)
    BY <1>0, <1>1, ReadNumbers DEF Stands
  <2>4. resp.head \in Nat /\ resp.head >= 1 /\ Wire(resp)[resp.head] = HeadStop
    BY <2>3, HeadIs, AnswerShape
  <2>5. ASSUME resp.head <= Len(rbuf) PROVE FALSE
    <3>1. resp.head \in 1..Len(rbuf) /\ Pos + resp.head = resp.head BY <2>3, <2>4, <2>5
    <3>2. rbuf[resp.head] = HeadStop BY <1>0, <2>4, <3>1 DEF Aligned
    <3> QED BY <2>1, <2>3, <3>1, <3>2 DEF HeadAt
  <2>6. resp.head > HeadMax BY <2>1, <2>3, <2>4, <2>5, ReaderAssumption
  <2>7. ResponseIntact' BY <2>2, <2>6 DEF ResponseIntact
  <2> QED BY <1>0, <1>1, <2>1, <2>7, StayKeeps DEF ReadInv
<1> QED BY <1>2, <1>3

\* A body of the announced length.
LEMMA LengthDoneKeeps ==
  ASSUME ReadInv, LengthDone
  PROVE  ReadInv'
<1>0. ReaderTyped /\ Aligned /\ Stands BY DEF ReadInv
<1>1. rat = "length" /\ ReadGoes("ok") /\ rbuf' = rbuf /\ rout' = rbuf /\ ~(Len(rbuf) < ContentLength)
  BY DEF LengthDone, NeedsMore
<1>2. resp \in Answers /\ taken \in Nat /\ Len(Wire(resp)) \in Nat /\ rbuf \in Seq(Int) /\ Len(rbuf) \in Nat
      /\ taken = Pos + Len(rbuf) /\ taken <= Len(Wire(resp))
  BY <1>0, ReadNumbers
<1>3. resp.framing = "length" /\ Pos = resp.head BY <1>0, <1>1 DEF Stands
<1> DEFINE b == BodyOf(resp)
<1>4. Len(b) \in Nat /\ Len(Wire(resp)) = resp.head + Len(b) /\ \A j \in 1..Len(b) : Wire(resp)[resp.head + j] = b[j]
  BY <1>2, <1>3, PlainBodyIs
<1>5. b \in Seq(Int)
  <2>1. b \in Seq(Tok) /\ Tok \subseteq Int BY <1>2, WireIs DEF Tok
  <2> QED BY <2>1, SeqMonotonic
<1>6. ~(Len(rbuf) < Len(b)) BY <1>1 DEF ContentLength
<1> HIDE DEF b
<1>7. resp.head \in Nat BY <1>2, AnswerShape
<1>8. Len(rbuf) = Len(b) /\ taken = Len(Wire(resp)) BY <1>2, <1>3, <1>4, <1>6, <1>7
<1>9. \A j \in 1..Len(b) : rbuf[j] = b[j] BY <1>0, <1>3, <1>4, <1>8 DEF Aligned
<1>10. rbuf = b BY <1>2, <1>5, <1>8, <1>9, SeqEqual
<1>11. resp' = resp /\ taken' = taken /\ rat' = "ok" BY <1>1 DEF ReadGoes, Frozen
<1>12. ResponseIntact' BY <1>1, <1>3, <1>8, <1>10, <1>11 DEF ResponseIntact, b
<1> QED BY <1>0, <1>1, <1>12, StayKeeps DEF ReadInv

\* A step that takes n tokens off the buffer and goes to a state that is not final.
LEMMA GoKeeps ==
  ASSUME ReaderTyped, Aligned, NEW n \in 0..Len(rbuf), DropFirst(n),
         NEW at \in {"length", "size", "data", "trailer", "rest", "ok"}, ReadGoes(at)
  PROVE  /\ ReaderTyped' /\ Aligned' /\ Pos' = Pos + n /\ rat' = at
         /\ resp' = resp /\ taken' = taken /\ given' = given /\ ending' = ending
<1>1. resp' = resp /\ given' = given /\ ending' = ending /\ taken' = taken /\ rat' = at
  BY DEF ReadGoes, Frozen
<1>2. rbuf' \in Seq(Int) /\ Pos' = Pos + n /\ Aligned' BY <1>1, DropKeeps
<1>3. ReaderTyped' BY <1>1, <1>2 DEF ReaderTyped
<1> QED BY <1>1, <1>2, <1>3

\* The head is cut off where it ends, and its framing chooses the loop.
LEMMA HeadDoneKeeps ==
  ASSUME ReadInv, HeadDone
  PROVE  ReadInv'
<1> DEFINE h == CHOOSE i \in HeadAt : TRUE
           at == CASE resp.framing = "chunked" -> "size" [] resp.framing = "length" -> "length" [] OTHER -> "rest"
<1>0. ReaderTyped /\ Aligned /\ Stands BY DEF ReadInv
<1>1. rat = "head" /\ HeadAt # {} /\ DropFirst(h) /\ ReadGoes(at) /\ rout' = rout BY DEF HeadDone
<1>2. /\ Len(rbuf) \in Nat /\ resp \in Answers /\ rbuf \in Seq(Int) /\ Len(Wire(resp)) \in Nat
      /\ taken = Pos + Len(rbuf) /\ taken <= Len(Wire(resp)) /\ taken \in Nat
  BY <1>0, ReadNumbers
<1>3. Pos = 0 /\ rout = <<>> BY <1>0, <1>1 DEF Stands
<1>4. h \in HeadAt BY <1>1
<1> HIDE DEF h, at
<1>5. h \in 1..Len(rbuf) /\ rbuf[h] = HeadStop BY <1>2, <1>4 DEF HeadAt
<1>6. h \in Nat /\ h \in 0..Len(rbuf) /\ Pos + h = h /\ h \in 1..Len(Wire(resp)) BY <1>2, <1>3, <1>5
<1>7. Wire(resp)[h] = HeadStop
  <2>1. rbuf[h] = Wire(resp)[Pos + h] BY <1>0, <1>5 DEF Aligned
  <2> QED BY <1>5, <1>6, <2>1
<1>8. h = resp.head BY <1>2, <1>6, <1>7, HeadIs
<1>9. at \in {"length", "size", "data", "trailer", "rest", "ok"} BY DEF at
<1>10. ReaderTyped' /\ Aligned' /\ Pos' = resp.head /\ rat' = at /\ resp' = resp
  BY <1>0, <1>1, <1>6, <1>8, <1>9, GoKeeps
<1>11. resp.framing \in {"length", "chunked", "none"} BY <1>2, AnswerShape
<1>12. ResponseIntact' BY <1>10 DEF at, ResponseIntact
<1>13. Stands'
  <2>1. CASE resp.framing = "chunked"
    <3>1. at = "size" BY <2>1 DEF at
    <3>2. Got(resp, 0) = <<>>
      <4>1. resp.chunks \in Seq(Seq(Byte)) BY <1>2, AnswerShape
      <4> QED BY <4>1, PartFacts DEF Got
    <3>3. At(resp, 0) = resp.head BY <1>2, <2>1, LastAt
    <3>4. 0 \in 0..Len(resp.chunks)
      <4>1. Len(resp.chunks) \in Nat BY <1>2, AnswerShape
      <4> QED BY <4>1
    <3>5. Decoded(0)' BY <1>1, <1>3, <1>10, <3>2 DEF Decoded
    <3>6. \E c \in 0..Len(resp.chunks) : Decoded(c)' /\ Pos' = At(resp, c)
      BY <1>10, <3>3, <3>4, <3>5
    <3> QED BY <1>10, <2>1, <3>1, <3>6 DEF Stands
  <2>2. CASE resp.framing = "length"
    <3>1. at = "length" BY <2>2 DEF at
    <3> QED BY <1>10, <2>2, <3>1 DEF Stands
  <2>3. CASE resp.framing = "none"
    <3>1. at = "rest" BY <2>3 DEF at
    <3> QED BY <1>10, <2>3, <3>1 DEF Stands
  <2> QED BY <1>11, <2>1, <2>2, <2>3
<1> QED BY <1>10, <1>12, <1>13 DEF ReadInv

\* The line at the end of a chunk is the size of the next, or of the last.
LEMMA SizeLineKeeps ==
  ASSUME ReadInv, SizeLine
  PROVE  ReadInv'
<1> DEFINE line == SubSeq(rbuf, 1, FirstLine - 1)
<1>0. ReaderTyped /\ Aligned /\ Stands BY DEF ReadInv
<1>1. /\ rat = "size" /\ LineAt # {} /\ DropFirst(FirstLine + 1) /\ rout' = rout
      /\ chunk' = (IF Len(line) = 1 /\ line[1] >= Size(0) THEN line[1] - Size(0) ELSE chunk)
      /\ ReadGoes(CASE line = <<>> -> "size" [] line = <<Size(0)>> -> "trailer"
                    [] Len(line) = 1 /\ line[1] > Size(0) -> "data" [] OTHER -> "bad")
  BY DEF SizeLine
<1>2. /\ Len(rbuf) \in Nat /\ resp \in Answers /\ rbuf \in Seq(Int)
  BY <1>0, ReadNumbers
<1>3. resp.framing = "chunked" BY <1>0, <1>1 DEF Stands
<1>4. PICK c \in 0..Len(resp.chunks) : Decoded(c) /\ Pos = At(resp, c) BY <1>0, <1>1 DEF Stands
<1> DEFINE k == ChunkSize(resp, c)
           n == Len(resp.chunks)
<1>5. /\ k \in Nat /\ (c < n => k >= 1) /\ ~(Len(rbuf) < 3) /\ FirstLine = 2 /\ rbuf[1] = Size(k)
  BY <1>0, <1>1, <1>3, <1>4, SizeSeen
<1>6. n \in Nat BY <1>2, AnswerShape
<1>7. c < n => k = Len(resp.chunks[c + 1]) BY DEF ChunkSize
<1>8. ~(c < n) => c = n /\ k = 0 BY <1>6 DEF ChunkSize
<1> HIDE DEF k, n
<1>9. line = <<Size(k)>>
  <2>1. FirstLine - 1 = 1 BY <1>5
  <2> DEFINE s == SubSeq(rbuf, 1, 1)
  <2>2. s \in Seq(Int) /\ Len(s) = 1 /\ s[1] = rbuf[1] BY <1>2, <1>5
  <2> HIDE DEF s
  <2>3. s = <<rbuf[1]>> BY <2>2
  <2> QED BY <1>5, <2>1, <2>3 DEF s
<1> HIDE DEF line
<1>10. Len(line) = 1 /\ line[1] = Size(k) /\ line # <<>> BY <1>9
<1>11. Size(k) \in Int /\ Size(0) \in Int /\ Size(k) - Size(0) = k /\ Size(k) >= Size(0) BY <1>5 DEF Size
<1>12. chunk' = k BY <1>1, <1>10, <1>11
<1>13. 3 \in 0..Len(rbuf) /\ FirstLine + 1 = 3 BY <1>2, <1>5
<1>14. DropFirst(3) BY <1>1, <1>13
<1>15. CASE c < n
  <2>1. Size(k) > Size(0) /\ Size(k) # Size(0) BY <1>5, <1>15 DEF Size
  <2>2. line # <<Size(0)>> BY <1>9, <2>1
  <2>3. ReadGoes("data") BY <1>1, <1>10, <2>1, <2>2
  <2>4. ReaderTyped' /\ Aligned' /\ Pos' = Pos + 3 /\ rat' = "data" /\ resp' = resp
    BY <1>0, <1>13, <1>14, <2>3, GoKeeps
  <2>5. ResponseIntact' BY <2>4 DEF ResponseIntact
  <2>6. c \in 0..(n - 1) BY <1>6, <1>15 DEF n
  <2>7. Decoded(c)' BY <1>1, <1>4, <2>4 DEF Decoded
  <2>8. Pos' = At(resp, c) + 3 /\ chunk' = Len(resp.chunks[c + 1]) BY <1>4, <1>7, <1>12, <1>15, <2>4
  <2>9. \E d \in 0..(Len(resp.chunks) - 1) :
           Decoded(d)' /\ Pos' = At(resp, d) + 3 /\ chunk' = Len(resp.chunks[d + 1])
    BY <2>6, <2>7, <2>8 DEF n
  <2>10. Stands' BY <1>3, <2>4, <2>9 DEF Stands
  <2> QED BY <2>4, <2>5, <2>10 DEF ReadInv
<1>16. CASE ~(c < n)
  <2>1. c = n /\ line = <<Size(0)>> BY <1>8, <1>9, <1>16
  <2>2. ReadGoes("trailer")
    <3>1. ~(line[1] > Size(0)) BY <2>1 DEF Size
    <3> QED BY <1>1, <1>10, <2>1, <3>1
  <2>4. ReaderTyped' /\ Aligned' /\ Pos' = Pos + 3 /\ rat' = "trailer" /\ resp' = resp
    BY <1>0, <1>13, <1>14, <2>2, GoKeeps
  <2>5. ResponseIntact' BY <2>4 DEF ResponseIntact
  <2>6. Decoded(n)' BY <1>1, <1>4, <2>1, <2>4 DEF Decoded, n
  <2>7. Pos' = At(resp, n) + 3 BY <1>4, <2>1, <2>4
  <2>8. Stands' BY <1>3, <2>4, <2>6, <2>7 DEF Stands, n
  <2> QED BY <2>4, <2>5, <2>8 DEF ReadInv
<1> QED BY <1>15, <1>16

\* A chunk is taken as it was sent, if what follows it ends it.
LEMMA ChunkDataKeeps ==
  ASSUME ReadInv, ChunkData
  PROVE  ReadInv'
<1> DEFINE n == Len(resp.chunks)
           W == Wire(resp)
<1>0. ReaderTyped /\ Aligned /\ Stands BY DEF ReadInv
<1>1. rat = "data" /\ ~(Len(rbuf) < chunk + 2) BY DEF ChunkData, NeedsMore
<1>2. Len(rbuf) \in Nat /\ resp \in Answers /\ rbuf \in Seq(Int) /\ Pos \in Nat BY <1>0, ReadNumbers DEF Aligned
<1>3. resp.framing = "chunked" BY <1>0, <1>1 DEF Stands
<1>4. PICK c \in 0..(n - 1) : Decoded(c) /\ Pos = At(resp, c) + 3 /\ chunk = Len(resp.chunks[c + 1])
  BY <1>0, <1>1 DEF Stands
<1> DEFINE x == resp.chunks[c + 1]
           p == At(resp, c)
<1>5. n \in Nat /\ resp.chunks \in Seq(Seq(Byte)) /\ resp.broken \in BOOLEAN BY <1>2, AnswerShape
<1>6. /\ p \in Nat /\ Len(x) \in Nat /\ At(resp, c + 1) = p + Len(x) + 5
      /\ (\A j \in 1..Len(x) : W[p + 3 + j] = x[j])
      /\ W[p + Len(x) + 4] = (IF resp.broken THEN 1 ELSE Cr) /\ W[p + Len(x) + 5] = (IF resp.broken THEN 1 ELSE Lf)
  BY <1>2, <1>3, ChunkAt
<1>7. chunk = Len(x) /\ Pos = p + 3 BY <1>4
<1>8. x \in Seq(Byte)
  <2>1. c + 1 \in 1..n BY <1>5
  <2> QED BY <1>5, <2>1, ElementOfSeq
<1>9. Part(resp.chunks, c + 1) = Part(resp.chunks, c) \o x BY <1>5, PartFacts
<1> HIDE DEF W, x, p, n
<1>10. /\ chunk \in Nat /\ chunk + 1 \in Nat /\ chunk + 2 \in 0..Len(rbuf)
       /\ Pos + (chunk + 1) = p + Len(x) + 4 /\ Pos + (chunk + 2) = p + Len(x) + 5
       /\ chunk + 1 \in 1..Len(rbuf) /\ chunk + 2 \in 1..Len(rbuf)
  BY <1>1, <1>2, <1>6, <1>7
<1>11. /\ rbuf[chunk + 1] = (IF resp.broken THEN 1 ELSE Cr) /\ rbuf[chunk + 2] = (IF resp.broken THEN 1 ELSE Lf)
  <2>1. rbuf[chunk + 1] = W[Pos + (chunk + 1)] /\ rbuf[chunk + 2] = W[Pos + (chunk + 2)]
    BY <1>0, <1>10 DEF Aligned, W
  <2> QED BY <1>6, <1>10, <2>1
<1>12. SubSeq(rbuf, chunk + 1, chunk + 2) = <<rbuf[chunk + 1], rbuf[chunk + 2]>>
  <2> DEFINE m == chunk + 1
             e == chunk + 2
             s == SubSeq(rbuf, m, e)
  <2>1. m \in 1..(Len(rbuf) + 1) /\ e \in (m - 1)..Len(rbuf) /\ e - m + 1 = 2 /\ m + 1 - 1 = m /\ m + 2 - 1 = e
    BY <1>2, <1>10
  <2>2. s \in Seq(Int) /\ Len(s) = e - m + 1 /\ \A i \in 1..(e - m + 1) : s[i] = rbuf[m + i - 1]
    <3> HIDE DEF m, e
    <3> QED BY <1>2, <2>1, SubSeqProperties
  <2> HIDE DEF m, e, s
  <2>3. s \in Seq(Int) /\ Len(s) = 2 /\ s[1] = rbuf[m] /\ s[2] = rbuf[e] BY <2>1, <2>2
  <2>4. s = <<rbuf[m], rbuf[e]>> BY <2>3
  <2> QED BY <2>4 DEF s, m, e
<1>13. CASE resp.broken
  <2>1. SubSeq(rbuf, chunk + 1, chunk + 2) # CrLf BY <1>11, <1>12, <1>13 DEF CrLf, Cr, Lf
  <2>2. ReadGoes("bad") /\ rbuf' = rbuf BY <2>1 DEF ChunkData
  <2>3. rat' = "bad" /\ resp' = resp BY <2>2 DEF ReadGoes, Frozen
  <2>4. ResponseIntact' BY <1>13, <2>3 DEF ResponseIntact
  <2> QED BY <1>0, <2>2, <2>4, StayKeeps DEF ReadInv
<1>14. CASE ~resp.broken
  <2>1. SubSeq(rbuf, chunk + 1, chunk + 2) = CrLf BY <1>11, <1>12, <1>14 DEF CrLf
  <2>2. ReadGoes("size") /\ rout' = rout \o SubSeq(rbuf, 1, chunk) /\ DropFirst(chunk + 2)
    BY <2>1 DEF ChunkData
  <2>3. ReaderTyped' /\ Aligned' /\ Pos' = Pos + (chunk + 2) /\ rat' = "size" /\ resp' = resp
    BY <1>0, <1>10, <2>2, GoKeeps
  <2>4. ResponseIntact' BY <2>3 DEF ResponseIntact
  <2>5. SubSeq(rbuf, 1, chunk) = x
    <3> DEFINE s == SubSeq(rbuf, 1, chunk)
    <3>1. s \in Seq(Int) /\ Len(s) = chunk /\ \A i \in 1..chunk : s[i] = rbuf[i]
      <4>1. chunk \in 0..Len(rbuf) BY <1>2, <1>10
      <4> QED BY <1>2, <4>1
    <3> HIDE DEF s
    <3>2. x \in Seq(Int)
      <4>1. Byte \subseteq Int BY DEF Byte, Cr, Lf
      <4> QED BY <1>8, <4>1, SeqMonotonic
    <3>3. ASSUME NEW i \in 1..chunk PROVE s[i] = x[i]
      <4>1. i \in 1..Len(rbuf) /\ i \in 1..Len(x) /\ Pos + i = p + 3 + i BY <1>2, <1>6, <1>7, <1>10
      <4>2. rbuf[i] = W[Pos + i] BY <1>0, <4>1 DEF Aligned, W
      <4> QED BY <1>6, <3>1, <4>1, <4>2
    <3>4. Len(s) = Len(x) BY <1>7, <3>1
    <3>5. \A i \in 1..Len(s) : s[i] = x[i] BY <3>1, <3>3
    <3> QED BY <3>1, <3>2, <3>4, <3>5, SeqEqual DEF s
  <2>6. rout' = Got(resp, c + 1)
    <3>1. rout = Part(resp.chunks, c) BY <1>4 DEF Decoded, Got
    <3> QED BY <1>9, <2>2, <2>5, <3>1 DEF Got
  <2>7. Decoded(c + 1)' BY <1>14, <2>3, <2>6 DEF Decoded
  <2>8. Pos' = At(resp, c + 1)
    <3>1. Pos + (chunk + 2) = p + Len(x) + 5 BY <1>10
    <3> QED BY <1>6, <2>3, <3>1
  <2>9. c + 1 \in 0..n BY <1>5 DEF n
  <2>10. \E d \in 0..Len(resp.chunks) : Decoded(d)' /\ Pos' = At(resp, d)
    BY <2>7, <2>8, <2>9 DEF n
  <2>11. Stands' BY <1>3, <2>3, <2>10 DEF Stands
  <2> QED BY <2>3, <2>4, <2>11 DEF ReadInv
<1> QED BY <1>5, <1>13, <1>14

\* A field of the trailer is skipped; the empty line is the end of the response.
LEMMA TrailerLineKeeps ==
  ASSUME ReadInv, TrailerLine
  PROVE  ReadInv'
<1> DEFINE n == Len(resp.chunks)
           p == At(resp, n)
<1>0. ReaderTyped /\ Aligned /\ Stands BY DEF ReadInv
<1>1. /\ rat = "trailer" /\ LineAt # {} /\ DropFirst(FirstLine + 1) /\ rout' = rout
      /\ ReadGoes(IF FirstLine = 1 THEN "ok" ELSE "trailer")
  BY DEF TrailerLine
<1>2. /\ Len(rbuf) \in Nat /\ resp \in Answers /\ Pos \in Nat /\ taken = Pos + Len(rbuf)
      /\ taken <= Len(Wire(resp)) /\ Len(Wire(resp)) \in Nat
  BY <1>0, ReadNumbers DEF Aligned
<1>3. resp.framing = "chunked" /\ Decoded(n) /\ (Pos = p + 3 \/ (Len(LastChunk(resp)) = 8 /\ Pos = p + 6))
  BY <1>0, <1>1 DEF Stands
<1>4. \/ FirstLine = 1 /\ Pos + 2 = Len(Wire(resp)) /\ Len(rbuf) >= 2
      \/ FirstLine = 2 /\ Len(LastChunk(resp)) = 8 /\ Pos = p + 3 /\ Len(rbuf) >= 3
  BY <1>0, <1>1, <1>3, TrailerSeen
<1>5. p \in Nat BY <1>2, <1>3, LastAt
<1>6. rout = BodyOf(resp)
  <2>1. resp.chunks \in Seq(Seq(Byte)) BY <1>2, AnswerShape
  <2>2. Part(resp.chunks, n) = FlattenSeq(resp.chunks) BY <2>1, PartFacts
  <2> QED BY <1>3, <2>2 DEF Decoded, Got, BodyOf
<1> HIDE DEF p, n
<1>7. CASE FirstLine = 1
  <2>1. FirstLine + 1 = 2 /\ 2 \in 0..Len(rbuf) /\ Pos + 2 = Len(Wire(resp)) BY <1>2, <1>4, <1>7
  <2>2. DropFirst(2) /\ ReadGoes("ok") BY <1>1, <1>7, <2>1
  <2>3. ReaderTyped' /\ Aligned' /\ rat' = "ok" /\ resp' = resp /\ taken' = taken
    BY <1>0, <2>1, <2>2, GoKeeps
  <2>4. taken = Len(Wire(resp)) BY <1>2, <2>1
  <2>5. ResponseIntact' BY <1>1, <1>3, <1>6, <2>3, <2>4 DEF ResponseIntact
  <2>6. Stands' BY <2>3 DEF Stands
  <2> QED BY <2>3, <2>5, <2>6 DEF ReadInv
<1>8. CASE FirstLine # 1
  <2>1. FirstLine + 1 = 3 /\ 3 \in 0..Len(rbuf) /\ Len(LastChunk(resp)) = 8 /\ Pos = p + 3
    BY <1>2, <1>4, <1>8
  <2>2. DropFirst(3) /\ ReadGoes("trailer") BY <1>1, <1>8, <2>1
  <2>3. ReaderTyped' /\ Aligned' /\ Pos' = Pos + 3 /\ rat' = "trailer" /\ resp' = resp
    BY <1>0, <2>1, <2>2, GoKeeps
  <2>4. Pos' = p + 6 BY <1>5, <2>1, <2>3
  <2>5. Decoded(n)' BY <1>1, <1>3, <2>3 DEF Decoded, n
  <2>6. ResponseIntact' BY <2>3 DEF ResponseIntact
  <2>7. Stands' BY <1>3, <2>1, <2>3, <2>4, <2>5 DEF Stands, n, p
  <2> QED BY <2>3, <2>6, <2>7 DEF ReadInv
<1> QED BY <1>7, <1>8

\* Every step of the reader keeps its invariant.
LEMMA ReadStep == ReadInv /\ [ReadNext]_readvars => ReadInv'
<1> SUFFICES ASSUME ReadInv, [ReadNext]_readvars PROVE ReadInv' OBVIOUS
<1>1. ASSUME NEW n \in 1..MaxPiece, ReadMore(n) PROVE ReadInv' BY <1>1, ReadMoreKeeps
<1>2. CASE StreamEnds BY <1>2, StreamEndsKeeps
<1>3. CASE HeadDeadline \/ HeadTooLarge BY <1>3, HeadFailsKeeps
<1>4. CASE HeadDone BY <1>4, HeadDoneKeeps
<1>5. CASE LengthDone BY <1>5, LengthDoneKeeps
<1>6. CASE SizeLine BY <1>6, SizeLineKeeps
<1>7. CASE ChunkData BY <1>7, ChunkDataKeeps
<1>8. CASE TrailerLine BY <1>8, TrailerLineKeeps
<1>9. CASE UNCHANGED readvars
  <2>1. /\ resp' = resp /\ given' = given /\ ending' = ending /\ taken' = taken
        /\ rbuf' = rbuf /\ rout' = rout /\ rat' = rat /\ chunk' = chunk
    BY <1>9 DEF readvars
  <2>2. ReaderTyped /\ Aligned /\ Stands /\ ResponseIntact BY DEF ReadInv
  <2>3. Pos' = Pos BY <2>1 DEF Pos
  <2>4. ReaderTyped' BY <2>1, <2>2 DEF ReaderTyped
  <2>5. Aligned' BY <2>1, <2>2, <2>3 DEF Aligned
  <2>6. Stands' BY <2>1, <2>2, <2>3 DEF Stands, Decoded
  <2>7. ResponseIntact' BY <2>1, <2>2 DEF ResponseIntact
  <2> QED BY <2>4, <2>5, <2>6, <2>7 DEF ReadInv
<1> QED BY <1>1, <1>2, <1>3, <1>4, <1>5, <1>6, <1>7, <1>8, <1>9 DEF ReadNext

\* However read_http_response gets a response in pieces, and wherever the stream
\* stops: a response with a length or in chunks is returned only as it was sent,
\* with nothing of it left on the connection, and refused only when it was cut
\* short, broken or too long in its head.  For every set of responses, of any
\* number of chunks of any size, and pieces of any size.
THEOREM ResponsesIntact == ReadSpec => []ResponseIntact
<1>1. ReadInit => ReadInv BY ReadInitial
<1>2. ReadInv /\ [ReadNext]_readvars => ReadInv' BY ReadStep
<1>3. ReadInv => ResponseIntact BY DEF ReadInv
<1> QED BY <1>1, <1>2, <1>3, PTL DEF ReadSpec
=============================================================================
