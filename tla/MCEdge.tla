------------------------------- MODULE MCEdge -------------------------------
(***************************************************************************)
(* The components around the session pipeline, checked together.  They     *)
(* share no state, so `part` says which of them a behaviour is about; the  *)
(* others stay in a fixed initial state.  The fairness of a component is   *)
(* asked for only while it is the one that moves.                          *)
(***************************************************************************)
EXTENDS H2Transport, H1Pool, ScriptPool, QuotaTracker, RelayCoalesce, ResponseCache, RangeDownload,
  UdpAssociate, ProxyLifecycle, HttpConn, SessionOpen, Elevation, NodeUdp, Udpgw, TodayStats,
  UploadStream, TunnelMux, CertTrust, ResponseReader, TunnelLoop

-----------------------------------------------------------------------------
(* Inputs *)

\* For one URL: two GETs, which may coalesce, a HEAD, which must not be answered
\* with their body, and a POST that goes through the exit node first.
EdgeMethods == [r \in Reqs |-> CASE r = "post" -> "POST" [] r = "head" -> "HEAD" [] OTHER -> "GET"]
EdgeUrls == [r \in Reqs |-> "u"]

Request(m, f, n, e, c) == [method |-> m, head |-> 1, framing |-> f, n |-> n, expect |-> e, close |-> c]

\* Programs of a client: both framings of a body, with and without Expect, a
\* preflight, a framing the proxy refuses, a head above the limit.
Programs ==
  {<<Request("GET", "none", 0, FALSE, FALSE), Request("POST", "chunked", 1, TRUE, FALSE)>>,
   <<Request("POST", "length", 2, TRUE, FALSE), Request("GET", "none", 0, FALSE, TRUE)>>,
   <<Request("OPTIONS", "none", 0, FALSE, FALSE), Request("POST", "bad", 0, FALSE, FALSE)>>,
   <<Request("POST", "chunked", 1, FALSE, FALSE), [Request("GET", "none", 0, FALSE, FALSE) EXCEPT !.head = 4]>>,
   <<Request("GET", "none", 0, FALSE, TRUE)>>}

\* One of them listed twice, which the configuration does not refuse.
ListedScripts == <<"a", "b", "a">>
EdgeTargets == [s \in Opens |-> IF s = "o3" THEN "smtp" ELSE "web"]
FirstScript == CHOOSE s \in Scripts : TRUE

FirstPlatform == CHOOSE p \in Platforms : TRUE

SentAs(f, h, body) == [framing |-> f, head |-> h, chunks |-> body, broken |-> FALSE, trailer |-> FALSE]

\* Both framings and none; bodies that contain a line end, a trailer, a chunk
\* without its line end, a head above the limit.
ServerAnswers ==
  {SentAs("length", 2, << <<1, Cr, Lf>> >>), SentAs("length", 4, << <<1>> >>), SentAs("none", 1, << <<1, 2>> >>),
   [SentAs("chunked", 1, << <<Cr, Lf>>, <<3>> >>) EXCEPT !.trailer = TRUE],
   [SentAs("chunked", 1, << <<1>> >>) EXCEPT !.broken = TRUE]}
FirstAnswer == SentAs("none", 1, << <<1, 2>> >>)

NodeReply(amount, last) == [size |-> amount, eof |-> last, hasSeq |-> TRUE]

\* A current node: data or none, a last empty reply with eof, data that does not
\* decode.
SafetyNode ==
  {NodeReply("none", FALSE), NodeReply("large", FALSE), NodeReply("none", TRUE), NodeReply("bad", FALSE)}

\* Replies that decode: with and without data, eof together with data, and a node
\* that does not echo seq.
EofNode ==
  {NodeReply("none", FALSE), NodeReply("large", FALSE), NodeReply("large", TRUE),
   [NodeReply("small", FALSE) EXCEPT !.hasSeq = FALSE]}

-----------------------------------------------------------------------------
(* The node's TCP session; the names it shares with other components are its own here *)

CONSTANTS StreamLen, MaxChunk, ReadBufCap, DrainMax, Budget, IdleLimit, MaxFaults

VARIABLES smap, rpc, held, sabort, recvd, drained, seof, spermit, dpermit, pc, watch, rawEof,
  inHand, budget, final, again, handed, slost, idle, reaper, faults

sessVars == <<smap, rpc, held, sabort, recvd, drained, seof, spermit, dpermit, pc, watch, rawEof,
  inHand, budget, final, again, handed, slost, idle, reaper, faults>>

\* One request at a time.
Node == INSTANCE NodeSession WITH
  Handlers <- {"h"}, map <- smap, aborted <- sabort, eof <- seof, permit <- spermit, chunk <- inHand, lost <- slost

-----------------------------------------------------------------------------
CONSTANT Parts   \* the components this run is about

VARIABLE part

edgevars == <<part, h2vars, poolvars, poolScriptVars, quotavars, relayvars, cachevars,
  rangevars, udpvars, uivars, httpvars, openvars, elevvars, nudpvars, gwvars,
  dayvars, vars, muxVars, certvars, readvars, loopVars, sessVars>>

EdgeInit ==
  /\ part \in Parts
  /\ H2Init /\ (part # "h2" => disabled = FALSE)
  /\ PoolInit
  /\ ScriptInit /\ (part # "scripts" => stopped = {})
  /\ QuotaInit
  /\ RelayInit
  /\ CacheInit
  /\ RangeInit /\ (part # "range" => asked = "plain" /\ streaming /\ size = 1)
  /\ UdpInit
  /\ UiInit
  /\ HttpInit /\ (part # "http" => entry = "silent" /\ pmode = "full" /\ Len(prog) = 1)
  /\ OpenInit
  /\ ElevInit
  /\ NodeUdpInit
  /\ UdpgwInit
  /\ DayInit /\ (part # "today" => yearOf = 2024 /\ openedAt = 24 * DayNumber(2024, 2, 29))
  /\ Init
  /\ MuxInit /\ (part # "mux" => script = FirstScript)
  /\ CertInit /\ (part # "certs" => os = FirstPlatform /\ pref = "none")
  /\ ReadInit /\ (part # "reader" => resp = FirstAnswer /\ given = 0 /\ ending = "fin")
  /\ LoopInit
  /\ Node!Init

\* Every component but p stays as it is.
Rest(p) ==
  /\ UNCHANGED part
  /\ p # "h2" => UNCHANGED h2vars
  /\ p # "h1" => UNCHANGED poolvars
  /\ p # "scripts" => UNCHANGED poolScriptVars
  /\ p # "quota" => UNCHANGED quotavars
  /\ p # "relay" => UNCHANGED relayvars
  /\ p # "cache" => UNCHANGED cachevars
  /\ p # "range" => UNCHANGED rangevars
  /\ p # "associate" => UNCHANGED udpvars
  /\ p # "lifecycle" => UNCHANGED uivars
  /\ p # "http" => UNCHANGED httpvars
  /\ p # "open" => UNCHANGED openvars
  /\ p # "elevation" => UNCHANGED elevvars
  /\ p # "nodeudp" => UNCHANGED nudpvars
  /\ p # "udpgw" => UNCHANGED gwvars
  /\ p # "today" => UNCHANGED dayvars
  /\ p # "upload" => UNCHANGED vars
  /\ p # "mux" => UNCHANGED muxVars
  /\ p # "certs" => UNCHANGED certvars
  /\ p # "reader" => UNCHANGED readvars
  /\ p # "loop" => UNCHANGED loopVars
  /\ p # "node" => UNCHANGED sessVars

EdgeNext ==
  \/ part = "h2" /\ H2Next /\ Rest("h2")
  \/ part = "h1" /\ PoolNext /\ Rest("h1")
  \/ part = "scripts" /\ ScriptNext /\ Rest("scripts")
  \/ part = "quota" /\ QuotaNext /\ Rest("quota")
  \/ part = "relay" /\ RelayNext /\ Rest("relay")
  \/ part = "cache" /\ CacheNext /\ Rest("cache")
  \/ part = "range" /\ RangeNext /\ Rest("range")
  \/ part = "associate" /\ UdpNext /\ Rest("associate")
  \/ part = "lifecycle" /\ UiNext /\ Rest("lifecycle")
  \/ part = "http" /\ HttpNext /\ Rest("http")
  \/ part = "open" /\ OpenNext /\ Rest("open")
  \/ part = "elevation" /\ ElevNext /\ Rest("elevation")
  \/ part = "nodeudp" /\ NodeUdpNext /\ Rest("nodeudp")
  \/ part = "udpgw" /\ UdpgwNext /\ Rest("udpgw")
  \/ part = "today" /\ DayNext /\ Rest("today")
  \/ part = "upload" /\ Next /\ Rest("upload")
  \/ part = "mux" /\ MuxNext /\ Rest("mux")
  \/ part = "certs" /\ CertNext /\ Rest("certs")
  \/ part = "reader" /\ ReadNext /\ Rest("reader")
  \/ part = "loop" /\ LoopNext /\ Rest("loop")
  \/ part = "node" /\ Node!Next /\ Rest("node")

EdgeFairness ==
  /\ \A r \in Reqs : WF_relayvars(part = "relay" /\ RequestStep(r))
  /\ \A s \in Sids : WF_udpvars(part = "associate" /\ SessionTaskStep(s))
  /\ WF_udpvars(part = "associate" /\ (OpenNotTracked \/ OpenTracked))
  /\ WF_udpvars(part = "associate" /\ InsertSession)
  /\ WF_uivars(part = "lifecycle" /\ BgStep) /\ WF_uivars(part = "lifecycle" /\ ProxyTaskStep)
  /\ WF_uivars(part = "lifecycle" /\ CertDone)
  /\ \A g \in 1..MaxStarts, n \in TaskNames :
       /\ WF_uivars(part = "lifecycle" /\ AbortLands(g, n))
       /\ WF_uivars(part = "lifecycle" /\ EndsAlone(g, n) /\ TaskEnds(g, n))
  /\ WF_httpvars(part = "http" /\ HandlerStep) /\ WF_httpvars(part = "http" /\ ClientSend)
  /\ WF_vars(part = "upload" /\ FlushTurn) /\ \A w \in Seqs : WF_vars(part = "upload" /\ ArriveUncut(w))
  /\ WF_muxVars(part = "mux" /\ MuxStep) /\ WF_muxVars(part = "mux" /\ EmptyTripEnds)
  /\ \A i \in Ids : WF_muxVars(part = "mux" /\ TripEnds(i)) /\ WF_muxVars(part = "mux" /\ ConnectDone(i))
  /\ WF_loopVars(part = "loop" /\ TaskRuns) /\ WF_loopVars(part = "loop" /\ KeepalivePoll)
  /\ \A s \in 0..(MaxSeq - 1) : WF_loopVars(part = "loop" /\ Answered(s))
  /\ WF_sessVars(part = "node" /\ Node!WatcherStep("h"))
  /\ WF_sessVars(part = "node" /\ Node!WaitStep("h"))
  /\ WF_sessVars(part = "node" /\ Node!DrainStep("h"))
  /\ WF_sessVars(part = "node" /\ Node!SingleStep("h"))
  /\ WF_sessVars(part = "node" /\ Node!ReaderStep)
  /\ WF_sessVars(part = "node" /\ Node!ReaderCancelled)
  /\ WF_sessVars(part = "node" /\ Node!Tick) /\ WF_sessVars(part = "node" /\ Node!ReapScan)
  /\ WF_sessVars(part = "node" /\ (Node!ReapRemove \/ Node!ReapAbort))

EdgeSpec == EdgeInit /\ [][EdgeNext]_edgevars
EdgeFairSpec == EdgeSpec /\ EdgeFairness

-----------------------------------------------------------------------------
(* Properties *)

\* Every variable of the component that moves keeps its type, the bounded tables,
\* pools and queues of the code included; the others are as they began.
EdgeTypeOK ==
  /\ part = "h2" => H2TypeOK
  /\ part = "h1" => PoolTypeOK
  /\ part = "scripts" => ScriptTypeOK
  /\ part = "quota" => QuotaTypeOK
  /\ part = "relay" => RelayTypeOK
  /\ part = "cache" => CacheTypeOK
  /\ part = "range" => RangeTypeOK
  /\ part = "associate" => UdpTypeOK
  /\ part = "lifecycle" => UiTypeOK
  /\ part = "http" => HttpTypeOK
  /\ part = "open" => OpenTypeOK
  /\ part = "elevation" => ElevTypeOK
  /\ part = "nodeudp" => NodeUdpTypeOK
  /\ part = "udpgw" => UdpgwTypeOK
  /\ part = "today" => DayTypeOK
  /\ part = "upload" => TypeOK
  /\ part = "mux" => MuxTypeOK
  /\ part = "certs" => CertTypeOK
  /\ part = "reader" => ReadTypeOK
  /\ part = "loop" => LoopTypeOK
  /\ part = "node" => Node!TypeOK

\* What the liveness of the components rests on, beside the types: the mux has a
\* permit out per round trip and no other, coalescing has one leader per key and no
\* waiter without it and retries no more than it may, an upload that lost nothing
\* leaves nothing in the reorder buffer, and the session table of a UDP association
\* is in step with its order and its tasks.
EdgeSound ==
  /\ EdgeTypeOK
  /\ part = "mux" => PermitPerTrip
  /\ part = "relay" => OneLeader /\ ExecsBounded
  /\ part = "upload" => NothingStranded
  /\ part = "associate" => TableSound

\* NodeSession's AbandonedFreed: the idle reaper removes a session whose client has
\* gone, whatever the upstream does and however much is left unread.
AbandonedFreed == Node!AbandonedFreed

\* NodeSession's ClosedReaderStops: after close, eof or reaping the reader task ends.
ClosedReaderStops == Node!ClosedReaderStops
=============================================================================
