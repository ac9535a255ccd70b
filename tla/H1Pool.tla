------------------------------- MODULE H1Pool -------------------------------
(***************************************************************************)
(* The pool of HTTP/1.1 sockets of DomainFronter                           *)
(* (src/src/domain_fronter.rs) and the exchanges made on them: a relay     *)
(* call's h1 path, an exit-node call, tunnel_request and                   *)
(* tunnel_batch_request_to.  An exchange writes a request, reads its whole *)
(* response and may follow redirects on the same socket.  A socket is a    *)
(* model value; its age is one of three classes and `owed` says whether a  *)
(* response is still due on it ("due"), or the rest of one that had no     *)
(* length and was taken for complete after a silence ("rest").             *)
(***************************************************************************)
EXTENDS Integers, FiniteSets

CONSTANTS
  PoolUsers,    \* concurrent outbound calls
  Sockets,      \* sockets that can be open at once
  PoolMax,      \* POOL_MAX
  PoolMin,      \* POOL_MIN
  WarmN,        \* connections warm() opens at start
  MaxRedirects  \* bound of the redirect loops

ASSUME PoolAssumption ==
  /\ PoolMin \in Nat /\ PoolMax \in Nat /\ PoolMin <= PoolMax
  /\ WarmN \in Nat /\ MaxRedirects \in Nat
  /\ {"pool", "closed"} \cap PoolUsers = {}

VARIABLES
  sock,    \* per socket: where it is, its age, whether a response is due
  hpc,     \* per call: idle, opening, open, sent, read
  hops,    \* per call: redirects followed
  refill,  \* step of run_pool_refill
  warmed   \* connections warm() has tried

poolvars == <<sock, hpc, hops, refill, warmed>>

\* Ages: 20 s or more to live, less, past POOL_TTL_SECS.
Fresh   == 0
Waning  == 1
Expired == 2

Shut    == [at |-> "closed", age |-> Fresh, owed |-> "no"]
NewSock(where, a) == [at |-> where, age |-> a, owed |-> "no"]
Pooled  == {s \in Sockets : sock[s].at = "pool"}
Closed  == {s \in Sockets : sock[s].at = "closed"}

PoolTypeOK ==
  /\ sock \in [Sockets -> [at : {"closed", "pool"} \cup PoolUsers, age : Fresh..Expired, owed : {"no", "due", "rest"}]]
  /\ hpc \in [PoolUsers -> {"idle", "opening", "open", "sent", "read"}]
  /\ hops \in [PoolUsers -> 0..MaxRedirects]
  /\ refill \in {"sleep", "count", "opening"} /\ warmed \in 0..WarmN
  /\ Cardinality(Pooled) <= PoolMax
  /\ \A c \in PoolUsers : Cardinality({s \in Sockets : sock[s].at = c}) = IF hpc[c] \in {"idle", "opening"} THEN 0 ELSE 1

PoolInit ==
  /\ sock = [s \in Sockets |-> Shut]
  /\ hpc = [c \in PoolUsers |-> "idle"] /\ hops = [c \in PoolUsers |-> 0]
  /\ refill = "sleep" /\ warmed = 0

Step(c, p) == hpc' = [hpc EXCEPT ![c] = p]

\* Sockets past their lifetime are closed by the retain of a locked pool.
Evict(ss) == [s \in Sockets |-> IF ss[s].at = "pool" /\ ss[s].age = Expired THEN Shut ELSE ss[s]]

\* A push into the pool is a drop when the pool is full.
Push(s, entry) == [sock EXCEPT ![s] = IF Cardinality(Pooled) < PoolMax THEN [entry EXCEPT !.at = "pool"] ELSE Shut]

-----------------------------------------------------------------------------
(* acquire, the exchange, release *)

\* Evict, then hand out the freshest socket, or go and open one.
AcquireSock(c) ==
  /\ hpc[c] = "idle"
  /\ LET live == {s \in Pooled : sock[s].age # Expired} IN
       \/ live = {} /\ sock' = Evict(sock) /\ Step(c, "opening")
       \/ \E s \in live :
            /\ \A t \in live : sock[s].age <= sock[t].age
            /\ sock' = [Evict(sock) EXCEPT ![s].at = c] /\ Step(c, "open")
  /\ UNCHANGED <<hops, refill, warmed>>

OpenOwn(c) ==
  /\ hpc[c] = "opening"
  /\ \/ \E s \in Closed : sock' = [sock EXCEPT ![s] = NewSock(c, Fresh)] /\ Step(c, "open")
     \/ Step(c, "idle") /\ UNCHANGED sock
  /\ UNCHANGED <<hops, refill, warmed>>

SendRequest(c, s) ==
  /\ sock[s].at = c /\ hpc[c] = "open"
  /\ sock' = [sock EXCEPT ![s].owed = "due"] /\ Step(c, "sent")
  /\ UNCHANGED <<hops, refill, warmed>>

\* read_http_response has returned: with the whole response (ResponseReader shows
\* this for a response that states its length), or, for one without a length,
\* with what came before two seconds of silence.
ReadResponse(c, s) ==
  /\ sock[s].at = c /\ hpc[c] = "sent"
  /\ \E left \in {"no", "rest"} : sock' = [sock EXCEPT ![s].owed = left]
  /\ Step(c, "read")
  /\ UNCHANGED <<hops, refill, warmed>>

\* The response redirects: a GET for its target goes out on the same socket.
FollowRedirect(c, s) ==
  /\ sock[s].at = c /\ hpc[c] = "read" /\ hops[c] < MaxRedirects
  /\ hops' = [hops EXCEPT ![c] = @ + 1]
  /\ sock' = [sock EXCEPT ![s].owed = "due"] /\ Step(c, "sent")
  /\ UNCHANGED <<refill, warmed>>

CallOver(c) == Step(c, "idle") /\ hops' = [hops EXCEPT ![c] = 0]

\* release puts an unexpired socket back.
Release(c, s) ==
  /\ sock[s].at = c /\ hpc[c] = "read"
  /\ sock' = IF sock[s].age = Expired THEN [sock EXCEPT ![s] = Shut] ELSE Push(s, sock[s])
  /\ CallOver(c) /\ UNCHANGED <<refill, warmed>>

AbandonToPool(c, s) ==
  /\ sock[s].at = c
  /\ sock' = Push(s, sock[s])
  /\ CallOver(c) /\ UNCHANGED <<refill, warmed>>

\* A write or a read failed, the status was an error, the batch timed out or
\* the call was cancelled: the entry goes out of scope and the socket closes.
Abandon(c, s) ==
  /\ sock[s].at = c
  /\ sock' = [sock EXCEPT ![s] = Shut]
  /\ CallOver(c) /\ UNCHANGED <<refill, warmed>>

-----------------------------------------------------------------------------
(* warm, run_pool_refill and the clock *)

\* The i-th connection of warm is backdated by 8 i seconds, so the third and
\* fourth have less than 20 s left and those from the fifth on are expired
\* when they are pushed.
WarmAge(i) == IF 8 * i >= 30 THEN Expired ELSE IF 8 * i + 20 >= 30 THEN Waning ELSE Fresh

OpenIntoPool(a) == \E s \in Closed : sock' = Push(s, NewSock("pool", a))

WarmOne ==
  /\ warmed < WarmN /\ warmed' = warmed + 1
  /\ OpenIntoPool(WarmAge(warmed)) \/ UNCHANGED sock
  /\ UNCHANGED <<hpc, hops, refill>>

\* A tick evicts what has expired, then sockets are opened one at a time
\* until PoolMin of them are fresh or an open fails.
RefillTick ==
  /\ refill = "sleep" /\ refill' = "count"
  /\ sock' = Evict(sock)
  /\ UNCHANGED <<hpc, hops, warmed>>

RefillCount ==
  /\ refill = "count"
  /\ refill' = IF Cardinality({s \in Pooled : sock[s].age = Fresh}) >= PoolMin THEN "sleep" ELSE "opening"
  /\ UNCHANGED <<sock, hpc, hops, warmed>>

RefillOpen ==
  /\ refill = "opening"
  /\ \/ OpenIntoPool(Fresh) /\ refill' = "count"
     \/ refill' = "sleep" /\ UNCHANGED sock
  /\ UNCHANGED <<hpc, hops, warmed>>

\* Time passes for one socket.
SocketAges(s) ==
  /\ sock[s].at # "closed" /\ sock[s].age # Expired
  /\ sock' = [sock EXCEPT ![s].age = @ + 1]
  /\ UNCHANGED <<hpc, hops, refill, warmed>>

PoolNext ==
  \/ \E c \in PoolUsers : AcquireSock(c) \/ OpenOwn(c)
  \/ \E c \in PoolUsers, s \in Sockets :
       \/ SendRequest(c, s) \/ ReadResponse(c, s) \/ FollowRedirect(c, s)
       \/ Release(c, s) \/ Abandon(c, s)
  \/ WarmOne \/ RefillTick \/ RefillCount \/ RefillOpen
  \/ \E s \in Sockets : SocketAges(s)

PoolSpec == PoolInit /\ [][PoolNext]_poolvars

-----------------------------------------------------------------------------
(* Properties *)

\* Responses never cross requests: a socket on which a response is still due
\* is with exactly the call that is waiting for it, so no pooled socket and
\* no call about to send can meet the answer to somebody else's request.
\* Timeouts, failed reads and redirects all leave a socket between a request
\* and its response.  The rest of a response without a length is not covered:
\* its socket does go back to the pool.
NoStrayResponse ==
  \A s \in Sockets : sock[s].owed = "due" => (sock[s].at # "pool" /\ hpc[sock[s].at] = "sent")
=============================================================================
