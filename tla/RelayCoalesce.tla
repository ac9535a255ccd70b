--------------------------- MODULE RelayCoalesce ---------------------------
(***************************************************************************)
(* DomainFronter::relay (src/src/domain_fronter.rs): the exit-node short   *)
(* cut, the response cache, coalescing of identical requests in `inflight` *)
(* and the relay itself with its retry, fan-out and overall timeout.  A    *)
(* body is named by the request whose relay produced it; execs counts how  *)
(* often the destination executed an unsafe request.  Statistics are left  *)
(* out.                                                                    *)
(***************************************************************************)
EXTENDS Integers, FiniteSets

CONSTANTS
  Reqs,          \* concurrent requests
  ReqMethod,     \* method of each request
  ReqUrl,        \* URL of each request, after normalize_x_graphql_url
  PlainReqs,     \* requests with neither a body nor a Range header
  ExitReqs,      \* requests exit_node_matches sends through the exit node
  ParallelRelay  \* fan-out, at most the number of scripts

Methods == {"GET", "HEAD", "OPTIONS", "POST"}

ASSUME RelayAssumption ==
  /\ ReqMethod \in [Reqs -> Methods]
  /\ PlainReqs \subseteq Reqs /\ ExitReqs \subseteq Reqs
  /\ ParallelRelay \in Nat \ {0}
  /\ {"none", "error"} \cap Reqs = {}

NoReq == "none"
RelayFailed == "error"      \* a 502, 503 or 504 made by the proxy itself

\* is_method_safe_for_fanout.
SafeToReplay(r) == ReqMethod[r] \in {"GET", "HEAD", "OPTIONS"}

UrlOnlyKey(r) == <<"", ReqUrl[r]>>

\* cache_key.
CacheKey(r) == <<ReqMethod[r], ReqUrl[r]>>

Keys == {CacheKey(r) : r \in Reqs}

\* is_cacheable_method, and neither a body nor a Range header.
Coalescible(r) == ReqMethod[r] \in {"GET", "HEAD"} /\ r \in PlainReqs

VARIABLES
  rstep,     \* step of each request
  answerOf,    \* what it was answered with
  execs,     \* times the destination executed it, for an unsafe method
  cached,    \* body in the cache per key
  inflight,  \* leader of the relay under way per key
  channel    \* what a leader has published

relayvars == <<rstep, answerOf, execs, cached, inflight, channel>>

Bodies == Reqs \cup {NoReq, RelayFailed}

RelayTypeOK ==
  /\ rstep \in [Reqs -> {"new", "exit", "lookup", "join", "wait", "first", "second",
                         "fan", "relayed", "publish", "answered"}]
  /\ answerOf \in [Reqs -> Bodies] /\ execs \in [Reqs -> 0..4]
  /\ cached \in [Keys -> Reqs \cup {NoReq}] /\ inflight \in [Keys -> Reqs \cup {NoReq}]
  /\ channel \in [Reqs -> Bodies]

RelayInit ==
  /\ rstep = [r \in Reqs |-> "new"] /\ answerOf = [r \in Reqs |-> NoReq]
  /\ execs = [r \in Reqs |-> 0]
  /\ cached = [k \in Keys |-> NoReq] /\ inflight = [k \in Keys |-> NoReq]
  /\ channel = [r \in Reqs |-> NoReq]

To(r, s) == rstep' = [rstep EXCEPT ![r] = s]
Answer(r, s, b) == To(r, s) /\ answerOf' = [answerOf EXCEPT ![r] = b]
Executed(r) == execs' = [execs EXCEPT ![r] = IF SafeToReplay(r) THEN @ ELSE @ + 1]
MaybeExecuted(r) == Executed(r) \/ UNCHANGED execs

-----------------------------------------------------------------------------
(* The head of relay: global stop and exit node *)

RelayStart(r) ==
  /\ rstep[r] = "new"
  /\ \/ To(r, IF r \in ExitReqs THEN "exit" ELSE "lookup") /\ UNCHANGED answerOf
     \/ Answer(r, "answered", RelayFailed)
  /\ UNCHANGED <<execs, cached, inflight, channel>>

ExitOk(r) ==
  /\ rstep[r] = "exit" /\ Executed(r) /\ Answer(r, "answered", r)
  /\ UNCHANGED <<cached, inflight, channel>>

\* NonRetryable: the outer call failed after h2 had sent it.
ExitFailsAfterH2(r) ==
  /\ rstep[r] = "exit" /\ MaybeExecuted(r)
  /\ \/ SafeToReplay(r) /\ To(r, "lookup") /\ UNCHANGED answerOf
     \/ ~SafeToReplay(r) /\ Answer(r, "answered", RelayFailed)
  /\ UNCHANGED <<cached, inflight, channel>>

\* Any other failure: nothing was sent, the h1 exchange broke, or the answer
\* was an error; the direct relay is next.
ExitFails(r) ==
  /\ rstep[r] = "exit" /\ MaybeExecuted(r) /\ To(r, "lookup")
  /\ UNCHANGED <<answerOf, cached, inflight, channel>>

-----------------------------------------------------------------------------
(* Cache and coalescing *)

\* How the relay of r begins: fanned out or one attempt.
FirstStep(r) == IF ParallelRelay >= 2 /\ SafeToReplay(r) THEN "fan" ELSE "first"

Lookup(r) ==
  /\ rstep[r] = "lookup"
  /\ \/ ~Coalescible(r) /\ To(r, FirstStep(r)) /\ UNCHANGED answerOf
     \/ Coalescible(r) /\ cached[CacheKey(r)] # NoReq /\ Answer(r, "answered", cached[CacheKey(r)])
     \/ Coalescible(r) /\ cached[CacheKey(r)] = NoReq /\ To(r, "join") /\ UNCHANGED answerOf
  /\ UNCHANGED <<execs, cached, inflight, channel>>

\* The first one leads, the others subscribe to its channel; answer holds
\* the leader while they wait.
Join(r) ==
  LET k == CacheKey(r) IN
  /\ rstep[r] = "join"
  /\ \/ inflight[k] = NoReq /\ inflight' = [inflight EXCEPT ![k] = r] /\ To(r, FirstStep(r)) /\ UNCHANGED answerOf
     \/ inflight[k] # NoReq /\ Answer(r, "wait", inflight[k]) /\ UNCHANGED inflight
  /\ UNCHANGED <<execs, cached, channel>>

WaiterReceives(r) ==
  /\ rstep[r] = "wait" /\ channel[answerOf[r]] # NoReq
  /\ Answer(r, "answered", channel[answerOf[r]])
  /\ UNCHANGED <<execs, cached, inflight, channel>>

-----------------------------------------------------------------------------
(* relay_uncoalesced, do_relay_with_retry, do_relay_parallel *)

Relaying(r) == rstep[r] \in {"first", "second", "fan"}

RelayOk(r) ==
  /\ Relaying(r) /\ Executed(r) /\ Answer(r, "relayed", r)
  /\ UNCHANGED <<cached, inflight, channel>>

\* An attempt failed in a way do_relay_with_retry calls retryable: nothing
\* was sent, the h1 exchange broke, or the answer was an error status or did
\* not parse.  The first attempt is followed by a second one.
AttemptFails(r) ==
  /\ Relaying(r) /\ MaybeExecuted(r)
  /\ \/ rstep[r] = "first" /\ To(r, "second") /\ UNCHANGED answerOf
     \/ rstep[r] # "first" /\ Answer(r, "relayed", RelayFailed)
  /\ UNCHANGED <<cached, inflight, channel>>

\* h2 failed after it had sent an unsafe request: NonRetryable, no attempt
\* follows.
AttemptNonRetryable(r) ==
  /\ Relaying(r) /\ ~SafeToReplay(r) /\ MaybeExecuted(r)
  /\ Answer(r, "relayed", RelayFailed)
  /\ UNCHANGED <<cached, inflight, channel>>

\* REQUEST_TIMEOUT_SECS is over for the attempts together.
RelayTimesOut(r) ==
  /\ Relaying(r) /\ MaybeExecuted(r) /\ Answer(r, "relayed", RelayFailed)
  /\ UNCHANGED <<cached, inflight, channel>>

\* A good response with a lifetime (parse_ttl) goes into the cache.
StoreInCache(r) ==
  /\ rstep[r] = "relayed" /\ To(r, "publish")
  /\ \/ Coalescible(r) /\ answerOf[r] # RelayFailed /\ cached' = [cached EXCEPT ![CacheKey(r)] = r]
     \/ UNCHANGED cached
  /\ UNCHANGED <<answerOf, execs, inflight, channel>>

PublishOnlyGood(r) ==
  /\ rstep[r] = "publish" /\ To(r, "answered")
  /\ IF Coalescible(r) /\ answerOf[r] # RelayFailed
       THEN /\ inflight' = [inflight EXCEPT ![CacheKey(r)] = NoReq]
            /\ channel' = [channel EXCEPT ![r] = answerOf[r]]
       ELSE UNCHANGED <<inflight, channel>>
  /\ UNCHANGED <<answerOf, execs, cached>>

\* The leader removes its entry and sends to its subscribers under one lock.
Publish(r) ==
  /\ rstep[r] = "publish" /\ To(r, "answered")
  /\ IF Coalescible(r)
       THEN /\ inflight' = [inflight EXCEPT ![CacheKey(r)] = NoReq]
            /\ channel' = [channel EXCEPT ![r] = answerOf[r]]
       ELSE UNCHANGED <<inflight, channel>>
  /\ UNCHANGED <<answerOf, execs, cached>>

\* A cached entry expires or is evicted.
CacheDrops(k) ==
  /\ cached[k] # NoReq /\ cached' = [cached EXCEPT ![k] = NoReq]
  /\ UNCHANGED <<rstep, answerOf, execs, inflight, channel>>

RequestStep(r) ==
  \/ RelayStart(r) \/ ExitOk(r) \/ ExitFailsAfterH2(r) \/ ExitFails(r)
  \/ Lookup(r) \/ Join(r) \/ WaiterReceives(r)
  \/ RelayOk(r) \/ AttemptFails(r) \/ AttemptNonRetryable(r) \/ RelayTimesOut(r)
  \/ StoreInCache(r) \/ Publish(r)

RelayNext == (\E r \in Reqs : RequestStep(r)) \/ \E k \in Keys : CacheDrops(k)

\* Every await of a request is bounded by a timeout, and nothing cancels a
\* request while the proxy runs; only a waiter depends on another request.
RelayFairness == \A r \in Reqs : WF_relayvars(RequestStep(r))

RelaySpec == RelayInit /\ [][RelayNext]_relayvars /\ RelayFairness

-----------------------------------------------------------------------------
(* Properties *)

\* Every request is answered, also one that joined a relay which then failed
\* or timed out: no entry stays in `inflight` without a leader at work.
EveryRequestAnswered == \A r \in Reqs : rstep[r] # "new" ~> rstep[r] = "answered"

\* A body served from the cache or from another request's relay is the
\* answer to the same method and URL, and never that of a request with a
\* body or a Range header.
AnswerIsOwn ==
  \A r \in Reqs : (rstep[r] = "answered" /\ answerOf[r] # RelayFailed /\ answerOf[r] # r)
     => /\ ReqMethod[answerOf[r]] = ReqMethod[r] /\ ReqUrl[answerOf[r]] = ReqUrl[r]
        /\ {r, answerOf[r]} \subseteq PlainReqs

\* What the comments of do_relay_with_retry say of the unsafe methods
\* ("re-firing is incorrect", "do not duplicate"): the destination executes
\* a POST at most once.
UnsafeOnce == \A r \in Reqs : ~SafeToReplay(r) => execs[r] <= 1

\* How far the code is from UnsafeOnce: the destination executes an unsafe request
\* at most twice, for the attempt and its retry, and once more when the exit node
\* was tried before.
ExecsBounded ==
  \A r \in Reqs : ~SafeToReplay(r) => execs[r] <= IF r \in ExitReqs THEN 3 ELSE 2

\* Steps of a request that does a relay of its own.
AtWork == {"first", "second", "fan", "relayed", "publish"}

\* Coalescing is single flight: of the requests with one key at most one, the
\* entry of `inflight`, has a relay under way, an entry is one whose relay is under
\* way, and a waiter's leader is that entry or has published.  No waiter is left
\* behind, whatever way the leader's relay ended.
OneLeader ==
  /\ \A r \in Reqs : Coalescible(r) /\ rstep[r] \in AtWork => inflight[CacheKey(r)] = r
  /\ \A k \in Keys : inflight[k] # NoReq => rstep[inflight[k]] \in AtWork
  /\ \A r \in Reqs : rstep[r] = "wait" => inflight[CacheKey(r)] = answerOf[r] \/ channel[answerOf[r]] # NoReq
=============================================================================
