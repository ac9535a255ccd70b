# TLA+ models of the proxy and its full tunnel

The program is a local HTTP/SOCKS5 proxy that reaches the network through Google
Apps Script deployments. In *relay* mode each HTTP request is one HTTPS call to a
deployment. In *full* mode every TCP connection is a *session*: the client cuts it
into small ops, packs the ops of all sessions into batches, sends each batch as one
HTTPS request to a deployment, and the deployment forwards it to a tunnel node that
owns the real upstream connections. Batches overtake each other, fail, and arrive
after their sender gave up, while the sessions they carry must remain byte streams.

The sources are `src/src/tunnel_client.rs` (client side of full mode),
`src/tunnel-node/src/main.rs` and `udpgw.rs` (node), `src/src/domain_fronter.rs`,
`cache.rs` and `quota_tracker.rs` (outbound calls), `src/src/proxy_server.rs` (inbound
connections), `src/src/bin/ui.rs` (desktop UI), `src/src/mitm.rs` and
`cert_installer.rs` (certificates).

## 1. Inventory

| Component | State | Operations | What is hard | What makes it correct |
|---|---|---|---|---|
| Node, TCP session (`SessionInner`, `reader_task`) | `read_buf`, `eof`, two `Notify` cells, `last_active`, place in the `sessions` map | read and append, park at the cap, drain, open, close, reap | reader, several requests, reaper and dropped requests interleave at every await | no byte doubled or dropped; eof only after the last byte; bounded buffer; a waiting poll is woken; the reader goes away with the session |
| Node, upload reordering | `next_write_seq`, `pending_writes` | accept, skip, buffer, flush a chunk | chunks overtake, get lost, come twice; a request dies inside `write_all` | upstream sees consecutive chunks |
| Node, batch handler | results by op index, response budget | phase 1 (writes and opens), wait, drain, answer | budget exhausted, the same session in two batches | one answer per op, in op order |
| Node, UDP sessions | bounded datagram queue, eof, `last_active` | receive, drain, close, reap | queue at its limit, two drains, own idle limit | oldest dropped, order kept, nothing left behind an eof |
| Node, udpgw | socket table, response channel, reader and writer tasks | frame, open, forward, end | tasks that outlive the session, a full channel | tasks end with the session |
| Client, session loop (`tunnel_loop`) | ops in flight, `next_write_seq`, `pending_writes`, depth, streaks, timers, elevation permit | send data or poll, take a reply, flush, adapt the depth, end | replies out of order, timeouts, eof overtaking data, early returns | replies written in op order, eof ends the session |
| Client, elevation | `elevated_sessions`, shared by all sessions | load and test, add, subtract | the test and the add are separate; an exit skips the subtraction | exact count, bounded overshoot |
| Client, mux (`mux_loop`, `BatchAccum`, `fire_batch`) | channel, window, accumulator, permits per deployment | receive, coalesce, pack, fire, distribute | caps at their limits, the mux itself waits for a permit | every op in one batch, every op answered with its own reply |
| Client, session set-up | unsupported flag, cache of unreachable hosts | read ahead, connect_data, fallback, connect | fallback while other sessions probe, mixed fleets | the first bytes go upstream once |
| Client, RTT tracker | per-deployment samples | record, choose the window | stale samples | window within its limits |
| Fronter, deployments | blacklist, strikes, round robin, hard stops | pick one or several, strike, blacklist | flags flip while a pick reads them | a usable deployment is never passed over |
| Fronter, relay | in-flight table, cache | join, lead, retry, fan out, exit node | leader fails or times out, late retries | every request answered, with the answer to it, unsafe ones once |
| Fronter, cache | entries, order, byte count | get, put, evict, expire | replacement and eviction at the limit | count and order match the entries |
| Fronter, h2 | cell with a generation, open lock, back-off, off switch | ensure, relay, poison, fall back | late failures of old generations, two openers, dropped calls | a healthy connection is kept |
| Fronter, h1 pool and reader | sockets with ages, buffers | acquire, send, read, redirect, release, warm, refill | timeouts between request and response, pieces of any size | no response crosses to another request, bodies exact |
| Fronter, ranges | plan of ranges, results | probe, fetch, stitch, stream, resume | last range, changed total, bad chunk after the head | an ordered stream of exactly the announced length |
| Fronter, today | day key, counters | record, snapshot | DST, day change between key and lock | the Pacific day, no calls of yesterday in it |
| Proxy, HTTP connections | buffer, request loop | dispatch, peek, head, body, Expect, splice | reads split anywhere, who waits for whom | requests relayed intact, none left waiting |
| Proxy, UDP associate | flow table, queues, session tasks | open, forward, evict, remove | the open is awaited, sessions of one target overtake | a dead flow leaves the table |
| Proxy and UI, lifecycle | flags behind one mutex, task handles, JoinSets | Start, Stop, abort, join, certificate commands, download | stop during start, detached tasks, a lock held while logging | stopped means stopped, Stop ends everything |
| Quota tracker | windows per account, file | check, charge, exhaust, roll, save, load | check and charge are separate, a save fails or is cut by a crash | the reserve, when a stop outlives a restart |
| Certificates | `ca.crt`, `ca.key`, system and browser stores | create, install, remove, verify | commands that fail, crash between two steps, retry | files go only after trust is gone, honest report |
| Configuration, scanners, update check, scripts | - | start-up, one-shot probes, packaging | - | unit tests, or outside a model's reach |

Interactions: `tunnel_loop` sends `MuxMsg`s into one unbounded channel and waits on a
oneshot per op; `mux_loop` drains the channel and spawns `fire_batch`, which asks the
fronter for a deployment and a connection; the node's `handle_batch` answers the ops by
position; `reader_task` and the handlers meet in `SessionInner` behind mutexes and
`Notify`; `cleanup_task` takes sessions out of the map behind everybody's back. The
proxy server's connection tasks call `relay` or start a session; the UI starts and
aborts them all. The hazards this creates are listed line by line in `PROJECT.json`.

## 2. Modules

| Module | Models | Its state |
|---|---|---|
| `NodeSession` | one TCP session of the node: `reader_task`, `drain_now`, `wait_for_any_drainable`, `handle_batch` and `handle_data_single` for its ops, open, `handle_close`, `cleanup_task` | the stream as byte positions (`recvd`, `drained`, `held`), `eof`, both `Notify` permits, a control point per request (`pc`, `watch`) |
| `UploadStream` | `wseq` numbering at the client, `next_write_seq`/`pending_writes` at the node, a transport that reorders, loses and repeats | chunks on the wire, buffered, written, torn |
| `NodeUdp` | one UDP session of the node | numbered datagrams: queued, taken out by a drain, dropped |
| `Udpgw` | one udpgw session: server, reader and writer tasks | table, live tasks, channel |
| `TunnelLoop` | `tunnel_loop` of one session | ops in flight, buffered replies, depth control, timers as steps |
| `Elevation` | `elevated_sessions` across sessions | per session: low, past the test, high, over |
| `TunnelMux` | `mux_loop`, `BatchAccum::push_or_fire`, `should_fire`, `fire_batch`, and the order in which `handle_batch` assembles its results | channel, window, accumulator, permits, round trips, answers |
| `SessionOpen` | `tunnel_connection`: read-ahead, `connect_data`, fallback, unreachable cache | a phase per connection, what was read, replayed, sent |
| `ScriptPool` | `next_script_id`, `next_script_ids`, strikes, cooldowns, hard stops | blacklist, index, a pick in progress |
| `QuotaTracker` | buckets, windows, saves, crash and load | bucket per account, the file, a control point per attempt |
| `RelayCoalesce` | `relay`: exit node, cache look-up, coalescing, retry, fan-out, timeout | a step per request, in-flight table, executions at the destination |
| `ResponseCache` | `cache.rs` | sizes by key, order, byte count |
| `H2Transport` | `ensure_h2`, `poison_h2_if_gen`, h2 relays and fallback | cell, generations alive, flagged or aged, lock holder |
| `H1Pool` | `acquire`, `release`, exchanges with redirects, `warm`, `run_pool_refill` | where each socket is, its age, whether a response is due |
| `ResponseReader` | `read_http_response`, `read_chunked`, `read_crlf_line` | tokens on the wire, taken, returned |
| `RangeDownload` | `do_relay_parallel_range_to`, `stream_range_from_offset`, plan, fetches, stitching | the plan, results, what the client got |
| `OrderedStream` | abstract: what a client may see of a response body | announced length, bytes, end |
| `TodayStats` | Pacific day key with its calendar, `record_today`, `snapshot_stats` | clock in hours, key, counter |
| `HttpConn` | one inbound connection: dispatch, peek, heads, bodies, Expect, splice | tokens sent, buffered, relayed |
| `UdpAssociate` | one SOCKS5 UDP association | table by target, tasks, queues |
| `ProxyLifecycle` | Start and Stop of the UI, `ProxyServer::run` and its tasks, the UI mutex | flags, tasks by generation, holders of the lock |
| `CertTrust` | `mitm.rs` root creation and loading, `cert_installer.rs` install, remove and trust checks | files, stores, browser databases, the worker's step |

`MCNodeSession`, `MCTunnelLoop`, `MCTunnelMux`, `MCUploadStream` and `MCRelayOnce` add
model values, symmetry and reply sets for TLC. `MCEdge` gathers the components, which
share no state: its variable `part`, fixed in a behaviour, says which of them moves,
so one run visits the whole state space of each without multiplying them. The
fairness of a component is asked for only while it is the one that moves.
`PROJECT.json` maps every definition to its lines.

The theorems are in the `*Proofs` modules, each of which extends the components it is
about:

| Module | Proves about |
|---|---|
| `NodeSessionProofs` | `NodeSession` |
| `NodeStreamsProofs` | `UploadStream`, `NodeUdp` |
| `TunnelLoopProofs` | `TunnelLoop` |
| `TunnelMuxProofs` | `TunnelMux`, `Elevation`, `SessionOpen` |
| `FronterProofs` | `H1Pool`, `H2Transport`, `RangeDownload` with `OrderedStream`, `ResponseReader` |
| `RelayProofs` | `ScriptPool`, `QuotaTracker`, `RelayCoalesce`, `ResponseCache`, `TodayStats` |
| `ProxyProofs` | `CertTrust`, `ProxyLifecycle`, `HttpConn`, `UdpAssociate` |
| `SumTheorems` | no component: sums over finite sets and concatenations of sequences, used by the others |

### How steps correspond to code

A step is a stretch of code between two points where another task can run: an
`.await`, an unlock, or a separate atomic operation.

* `NodeSession`. The reader's cap test, its parking, the read, the append under the
  lock and the `notify_one` are separate steps; `drain_now` is `LoadEof` (the atomic
  load), `Take` (the critical section) and `DrainNotify`. `Notify` is modelled by its
  contract: one stored permit, `notify_one` hands it to a waiter if there is one. The
  watcher tasks of `wait_for_any_drainable` are separate from the handler; a handler
  that leaves the wait aborts its watcher at once (`AbortOnDrop`), which is the
  earliest point at which tokio may do so. `last_active` is an age in reaper periods.
  `Cancel` drops a request at an await, as axum does when the connection closes. The
  straggler settle loop of `handle_batch` is an arbitrary delay between waking and
  draining. `handle_connect_data_single` is `OpenInsert` followed by the single-op
  path. `ReaderEof` stands for `Ok(0)` and for a read error, which do the same.
* `UploadStream`. A chunk is its number; the writer lock makes the flush loop of one
  request exclude the others, so `flushing` is a flag. Ops without `wseq` (old
  clients) bypass the buffer and are not modelled.
* `TunnelLoop`. A reply is what the loop tells apart: amount of data, eof, seq echoed
  or not, or undecodable (`bad`). `FlushBad` is the buffered reply that fails to
  decode: it ends the flush loop, its entry is gone and `next_write_seq` stays. The
  `buffered_upload` branch cannot be reached, since reading is disabled unless a slot
  is free; the `all_legacy` keepalive needs `mark_server_no_longpoll`, which only
  tests call.
* `TunnelMux`. Payload sizes are units, so the base64 length is part of the size. The
  node's answer is assembled as in `handle_batch`: results are sorted by op index and
  the client reads them by position. `BatchCut` is a batch whose response budget runs
  out. A deployment is any member of `Scripts` (selection is `ScriptPool`); the path
  where all senders are gone is left out, and so is a panic in a connect task.
* `Elevation` splits the load of `elevated_sessions` from the `fetch_add`, and lets a
  failed local write leave through `?` past the subtraction (`leaks`).
* `ScriptPool`. A pick holds the blacklist lock, but reads the quota tracker's hard
  stops one at a time; `steady` and `shunned` record what held throughout a pick. The
  list of deployments may name one twice, since the configuration does not refuse it.
* `QuotaTracker`. The check (`is_hard_stopped`) and the charge (`record_attempt`) are
  steps apart. `save` holds the lock over `fs::write`, which may fail (only logged) and
  leave the old file or a torn one, and a crash inside it may leave the old, the new or
  a torn file; `load` takes a torn file for empty buckets.
* `RelayCoalesce`. A body is named by the request that fetched it, `execs` counts what
  the destination carried out. `ResponseCache` is a module of its own, because the
  relay only needs that an entry may or may not be there. In the cache `parse_ttl` is a
  free choice: any response may be stored, and any entry may expire.
* `H1Pool`, `H2Transport`. Times are classes (`Fresh`, `Waning`, `Expired`) or flags that
  may change at any step. A call dropped by its own timeout is a step at each await.
  `owed = "rest"` is the remainder of a response without a length, which the reader
  takes for complete after two seconds of silence; its socket does go back to the pool.
* `RangeDownload`. A reply is status, Content-Range and body length, any combination
  near the true one included; bytes are their offsets. The whole-response paths write
  head and body in one step.
* `TodayStats`. The key is computed before the lock and the count added behind it, so
  midnight can fall between; days are the critical ones of the years in `DayYears`.
* `HttpConn`, `ResponseReader`. Tokens instead of characters; a read returns any
  non-empty prefix of what has arrived.
* `HttpConn`. A CONNECT or SOCKS5 handshake may be refused at any of the places the
  code has (`Connect`). What one `peek` returns may be too short to look like HTTP, so
  an HTTP client can end up on raw TCP (`PeekFirst`). A route that leaves the proxy is
  a dial, which may fail or never end, and then a splice; a tunnel session is seen
  from here in the same way. `unwrapped` says that the proxy has answered the client's
  TLS handshake itself: then the bytes after the ClientHello are what goes upstream.
  `OPTIONS` is answered by the request loop of a CONNECT only; the plain entry relays it.
* `UdpAssociate`. The dispatch loop is one actor, the open of a session an await in it.
* `ProxyLifecycle`. A critical section is one step, except where it calls `push_log`
  with the guard held: the mutex is not reentrant, and the thread is `stuck`. `abort()`
  only asks; dropping a `JoinSet` aborts, dropping a `JoinHandle` detaches. Of the arms
  of the `select!` in `ProxyServer::run` the model has the shutdown; the two for an
  accept loop that has ended are left out, since the loops end only by a panic.
* `CertTrust`. Each command of an installation or removal is a step that may fail, and
  the process may end between any two. `store1` is the anchor (or the first system
  store), `store2` what the system trusts after its refresh (or the second store).
  The proxy of the UI is a second caller of `MitmCertManager::new_in`. Systems are the
  families `detect_linux_distro` knows (an unknown one cannot install), macOS and
  Windows. A Linux system is assumed to keep its anchor directory: `remove_linux` skips
  a directory that is missing without a refresh, which matters only if somebody deleted
  it after the installation.

## 3. Runs

Passing:

| Run | Shows |
|---|---|
| `node_safety` | two requests, the reader, the reaper and one cancellation: byte conservation, eof only after the last byte, bounded buffer, no parked reader forgotten |
| `components` | all parts of `MCEdge` but the node's TCP session (that is `node_safety`): the safety properties below |
| `components_live` | eight parts under fairness: `EveryRequestAnswered` (a follower of a failed leader included), `DeadEntryRemoved`, `StopEndsAll`, `RequestServed`, `BufferedIsWritten`, `EveryOpAnswered`, `EofEnds`; of the node's TCP session `AbandonedFreed` (when the client goes away the reaper frees it) and `ClosedReaderStops` (the reader of a removed session ends) |

The properties of `components`, by part:

| Part | Property | In words |
|---|---|---|
| all | `EdgeSound` | `EdgeTypeOK` (types, with the limits of tables, pools and queues) and the next four rows |
| mux | `PermitPerTrip` | the permits out are those of the round trips under way |
| relay | `OneLeader`, `ExecsBounded` | one leader per key and no waiter left behind; an unsafe request is executed at most twice, three times behind an exit node |
| upload | `NothingStranded` | nothing lost and nothing cut: the reorder buffer ends empty and all is written |
| udp | `TableSound` | table, eviction order and session tasks agree, within the cap |
| h1 | `NoStrayResponse` | a socket on which a response is due is with the call that waits for it |
| reader | `ResponseIntact` | a response with a length is returned exactly, or is an error |
| h2 | `HealthyCellKept` | a usable connection leaves the cell only by its own failure or when h2 goes off |
| scripts | `AvailablePreferred` | a pick never passes over a deployment that was usable throughout |
| quota | `ReserveKept`, `StopOutlivesRestart` | the race of check and charge costs at most one recorded call per attempt; a stop ends with its window, or by a crash inside a save or after the last save failed, and by nothing else |
| relay | `AnswerIsOwn` | shared answers are for the same method and URL and never for a request with a body |
| cache | `CacheAccounting` | bytes, order and entries agree, within the limit |
| range | `ImplementsOrderedStream` | the download refines `OrderedStream`: `INSTANCE OrderedStream WITH` the client's side of the download as `from`, `announced`, `sent`, `ended` |
| http | `RequestsIntact` | the fronter gets the client's requests once, in order, with exactly their bodies; a spliced upstream gets the client's bytes from the first on, without the ClientHello where the proxy has answered it |
| loop | `DeliveredInOrder`, `OpsAccounted`, `GivenUpNotPassed` | every order of replies, a timeout, undecodable data: delivery in op order without a hole, no op forgotten, nothing delivered past a reply that was given up |
| open | `FirstBytesOnce` | the first bytes go upstream at most once and are not lost in the fallback |
| elevation | `ElevationBounded` | the counter drifts only by leaked permits and overshoots by fewer than the sessions there are |
| nodeudp | `DatagramsAccounted` | datagrams leave in order and once: each was taken out, is queued, or was dropped as the oldest of a full queue; eof leaves none behind |
| today | `TodayIsQuotaDay` | the key is the Pacific date at every hour (several comments say UTC, see below); calls of yesterday never show under today |
| lifecycle | `StoppedMeansStopped` | after Stop nothing runs and nothing says so |
| certs | `RemovalHonest` | files go only when Linux trusts none of ours; a clean report is true of the browsers |
| upload | `InOrderNoDup`, `TornIsLast` | consecutive chunks, nothing after a torn one |
| mux | `OwnReplyWithinBudget`, `BatchWithinCaps` | index alignment up to the budget; caps |

Runs that end in a counterexample, each against a sentence of the repository that
`PROJECT.json` quotes:

| Run | What the code does |
|---|---|
| `node_lost_wakeup` | two polls of a session, the default depth, share one `Notify`: the eof wakes one of them and the other sleeps to its deadline |
| `quota_stop_lost` | a failed save is only logged, and a save cut by a crash loses the file: an exhausted account is used again after the restart |
| `node_two_polls_order` | two drains of a session interleave, so a response holds two separate pieces of the stream and no ordering of whole replies is right |
| `upload_first` | the first chunk to arrive is taken for the first of the session |
| `loop_timeout_stall` | a timed-out reply is neither resent nor skipped: the session stalls behind it |
| `mux_budget` | an exhausted response budget shifts all later answers to other sessions' ops; the last ops get a "missing response" error that ends their session |
| `unsafe_once` | a POST that was written over HTTP/1.1 and whose answer was lost is sent again |
| `ui_responsive` | a finished download logs while it holds the lock that logging takes |
| `udpgw_readers` | dropping an `AbortHandle` does not abort: reader tasks outlive their session |

Two divergences between comments and code are reported without a run of their own,
since a passing property shows what the code does:

* The counters of the day restart at midnight Pacific Time (`TodayIsQuotaDay`). The
  comments at `domain_fronter.rs:399`, 406 and 2599 and the message of a relay timeout
  (line 2592, which users see) say 00:00 UTC; lines 735 and 4299 say Pacific Time.
* `cert_installer.rs:24` says that the system's trust store is always clean when
  `remove_ca` returns `Ok`. On macOS and Windows the check is a command, and one that
  fails counts as not trusted (lines 461, 773). `RemovalHonest` claims the system stores
  for Linux only.

Smaller observations made while modelling, where the passing properties are worded
around what the code does:

* A failed single-op write (`handle_data_single`) removes the session without
  aborting its reader, which lives until the upstream closes (`map = "orphaned"`).
* A failed write to the local socket leaves `tunnel_loop` through `?` and keeps the
  elevation permit (`lpc = "failed"`, `leaks`).
* An empty reply to a poll during a data streak moves no counter, so empty polls
  alone never bring the depth down after a streak; and a reply without seq sets the
  depth to 1 while the permit stays.
* Close ops are appended to the last batch without `should_fire`, so
  `BatchWithinCaps` counts only ops that wait for a reply.
* Start is not held back by a certificate operation, so a proxy can load a pair that is
  being deleted, and two callers of `new_in` can leave a certificate and a key that do
  not match.
* A UDP session task that ends late removes the entry of its target, which by then may
  be that of a live replacement; the datagrams that follow open another session.
* A forced stop detaches the tasks the proxy had spawned; they may hold its port when
  the next Start binds, which then fails with a message.

Every property of a passing run also has a mutant, a small plausible bug in one
mapped definition, under which TLC refutes it.

### Bounds

* `NodeSession`: two requests, the default depth of a client's session, are enough for
  every race of two drains or two waiters. `components_live` has one request at a time,
  which is all that reaping and the end of the reader depend on.
  `ReadBufCap > DrainMax`, as in the code, so that the upstream can close with more
  buffered than one drain takes; `StreamLen` is one more than the cap, so the reader
  parks. `MaxFaults` bounds cancellations and skipped drains.
* `UploadStream`: four chunks and a window of three let two chunks be buffered behind
  a missing one. `TornIsLast` excludes repeated batches: a repeat of the torn
  chunk would be written again.
* `TunnelLoop`: `InflightActive` 3 in `components`, so that the ramp has the steps
  idle, optimist, elevated; 2 for `EofEnds`. `RefillSteps` 1 or 2 instead of 10.
  `MaxSeq` bounds the ops of a session. For `loop_timeout_stall` that bound does not
  matter: theorem `DeliveryOrder` shows that nothing at or after a given-up seq is ever
  delivered, however many ops follow.
* `TunnelMux`: two ops per batch and three payload units, so that three messages meet
  both caps, with an op that exceeds the payload cap alone; one permit for each of
  two deployments, so that `mux_loop` has to wait and batches end in either order.
* Pools, tables, queues and caches have a limit of one or two and one more user than
  that, so that they are full and evict: `PoolMax`, `UCap`, `UQueue`, `UdpQueueLimit`,
  `ChanCap`, `MaxUnreach`, `MaxBytes`.
* Two callers per lock or counter, three for `Elevation`, where the third passes the
  test while two are between it and the add.
* `RangeDownload`: entities up to three chunks, the last one short or whole, and
  thresholds on both sides of that, so that every `Dispatch` result occurs.
* `RelayCoalesce`: two GETs, a HEAD and a POST for one URL.
* `ScriptPool`: two deployments, one of them listed twice.
* `HttpConn`: programs of one or two requests with both framings of a body, `Expect`, a
  preflight, a framing that is refused and a head above the limit, on every entry and in
  every mode.
* `CertTrust`: all seven families of systems, three operations with crashes in them, so that a removal can fail, be
  repeated and be followed by an installation.
* `TodayStats`: a leap year and a century that is not one; `TodayFollowsPacific` covers
  every year.

Deadlock is not checked: sessions, uploads, requests, downloads and the bounded
clients end, and a component of `MCEdge` then has no step left.

### Fairness

* tokio polls every task that can run: weak fairness of the steps of `reader_task`,
  handlers, watchers, `tunnel_loop`, `mux_loop`, session tasks, the UI's background
  thread and the tasks it aborts. None is assumed of the upstream, of deadlines in
  the node's waits, of cancellations or of failures.
* `ServeSpec` of `NodeSession` serves the requests that were made, and the reaper's
  interval ticks; whether the client polls again is left open.
* The ops of `tunnel_loop` are answered (`components_live`) or time out
  (`LoopFairSpec`, `REPLY_TIMEOUT`); each round trip of the mux ends
  (`batch_timeout`), each connect ends; a relay attempt ends (`REQUEST_TIMEOUT_SECS`); an
  upload that is not cut arrives.
* `RequestServed` assumes that a client goes on sending a request it began. Dials, handshakes
  and upstreams have no fairness, since several of them have no timeout: the property
  ends where the connection is left to one of them.

## 4. Theorems

All hold for every value of the constants that satisfies the named assumptions.

| Theorem | Statement | Inductive argument |
|---|---|---|
| `NodeSessionProofs!TypeCorrect` | `TypeOK` | inductive by itself |
| `NodeSessionProofs!EofAndBound`, `BufferCapped` | `EofMeansDrained`, `BufferBounded` | `ReaderOrder`: eof is the reader's last act, bytes are held only between read and append, it reads only below the cap, a loaded `raw_eof` stays true. Without it a drain that loaded eof early could not be told from one that reads a buffer still growing |
| `NodeSessionProofs!ReaderWoken` | `ReaderNotForgotten` | inductive with the type invariant |
| `NodeSessionProofs!BytesConserved` | `ByteConservation` | `FreshHandlers`: a request that has not drained has nothing in hand |
| `NodeStreamsProofs!UploadInOrder` | `InOrderNoDup` | `RunEndsAtExpected`: the run written so far ends just below `next_write_seq` |
| `NodeStreamsProofs!TornStaysLast` | `TornIsLast` | `TornInv`: the seq of a torn chunk is neither on the wire nor buffered, and `next_write_seq` still points at it, so nothing behind it can be flushed |
| `NodeStreamsProofs!UploadComplete` | `NothingStranded`, the safety half of `BufferedIsWritten` | `DueInv`: a chunk sent and not lost is on the wire, buffered or written, and outside a flush the buffer does not hold the expected one |
| `NodeStreamsProofs!EveryDatagramAccounted` | `DatagramsAccounted` | `UdpInv`: taken-out and queued datagrams ascend, in this order, and with the dropped ones are all that came; what two requests hold is disjoint; nothing comes in after eof, so a drain that saw it emptied the queue for good |
| `TunnelLoopProofs!DeliveryOrder`, `GivenUpStopsDelivery` | `DeliveredInOrder`, `GivenUpNotPassed` | undelivered ops, in flight or buffered, have distinct seqs at or above `next_write_seq`, and given-up seqs, which are there too, are never among them |
| `TunnelLoopProofs!OpsInOnePlace` | `OpsAccounted` | `CountInv`: in flight, buffered, delivered and given up add up to the ops sent; by the order invariant the op a step moves is in the one place and not yet in the other |
| `TunnelMuxProofs!RepliesAligned` | `OwnReplyWithinBudget`: `ReplyMatchesOp` until a batch uses up the response budget | each entry of `data_replies` points at its op, in the accumulator, the batch waiting for a permit and every round trip |
| `TunnelMuxProofs!BatchesWithinCaps` | `BatchWithinCaps` | `CapsInv`: `payload_bytes` of the accumulator is the sum of what it holds, so the test before a push bounds the sum after it |
| `TunnelMuxProofs!PermitsReturn` | `PermitPerTrip` | `PlaceInv`: an op is at one place only, so no two batches are equal and a round trip that starts or ends changes the set of batches by exactly one |
| `TunnelMuxProofs!EveryOpOnce` | `AnsweredOnce` (an action property): no step drops an op without an answer or answers it again; the safety half of `EveryOpAnswered` | `PlaceInv`: what is answered is at no other place |
| `TunnelMuxProofs!ElevationCounted` | `ElevationBounded` | `RaceBounded`: the bound also counts the sessions between load and add |
| `TunnelMuxProofs!FirstBytesSentOnce` | `FirstBytesOnce` | `OpenInv`: for each step of the set-up, whether the first bytes are still in hand, in a `connect_data` under way, or upstream |
| `FronterProofs!ResponsesNeverCross` | `NoStrayResponse` | `OneEach`, `Engaged`: a call has at most one socket and none outside an exchange. Without them a call that ends could leave a second socket behind with its response due |
| `FronterProofs!HealthyConnectionKept` | `HealthyCellKept` | `OpenerAlone`: a call inside the handshake holds the lock and the cell is unusable, since only the holder fills it and aged or flagged connections stay so |
| `FronterProofs!DownloadIsOrdered` | `RangeSpec => OrderedStream` under the mapping | `RangeInv`: the ranges of the plan are adjacent and end at the total, what is out or collected is the run of bytes up to the range that comes next. One lemma per action shows that its step is a step of the stream or a stutter |
| `FronterProofs!ResponsesIntact` | `ResponseIntact` | `Aligned`: the buffer is the stretch of the wire that ends where reading stopped. `Stands`: in each loop the buffer begins at the end of the head, at a size line, at the data of a chunk, or at the trailer, and what is decoded is the body of the chunks before that place. So a CR LF inside a body is never taken for the end of a line |
| `RelayProofs!UsableScriptsPreferred` | `AvailablePreferred`, for lists with repeated deployments too | `ScanHonest`: a deployment usable since the scan began is picked or still ahead in the round, and none that was unusable throughout is picked |
| `RelayProofs!ReserveIsKept` | `ReserveKept` (of the recorded count: a crash may lose counts), if `SafetyBuffer > 0` | `ChargesBounded`: an account that is not stopped is within its allowance, and charges plus the attempts past the check stay within it plus the number of attempts. With a buffer of 0 `remaining` never falls below it and the tracker stops an account only when the server says so; the default is 500 (`config.rs:578`), the configuration does not refuse 0 |
| `RelayProofs!ExhaustedStaysStopped` | `StopOutlivesRestart` (an action property) | `MarksSaved`: what `mark_exhausted` returned for is stopped in memory, and in the file too if the last save wrote it whole (`intact`), so only the end of the window, or a crash inside a save or after a failed one, can free it |
| `RelayProofs!AnswersMatch` | `AnswerIsOwn` | `KeysHonest`: what is under a key in the cache or the in-flight table belongs to a request with that key |
| `RelayProofs!SingleFlight` | `OneLeader`, the safety half of `EveryRequestAnswered` | `LeadInv`: an entry of `inflight` is a request with that key, so a leader that ends takes out its own entry and no other's |
| `RelayProofs!RetriesBounded` | `ExecsBounded`: how far the code is from `UnsafeOnce` | `ExecInv`: for each step of a request, how often it can have been executed by then. The bound is reached, so it cannot be improved |
| `RelayProofs!CivilFromDays` | `unix_to_ymd_utc` gives, for every hour since 1970, the date of the calendar whose day it is | no induction: Hinnant's divisions, split by era, year of the era, day of the year from March and month, against a count of leap years (`LeapCount`) and month lengths |
| `RelayProofs!TodayFollowsPacific`, `DayTypes` | `TodayIsQuotaDay`, `DayTypeOK` | `DayInv`: each key someone holds is a date not after today, so under the key of today are only calls made today. Different days have different keys because a date determines its day; daylight saving is right because the standard-time date already decides it (`GuessedDst`) |
| `RelayProofs!CacheIsAccounted` | `CacheAccounting` | `CacheInv`: each stored key once in the order, and the byte count the sum of their sizes, so the saturating subtractions never saturate |
| `ProxyProofs!HonestRemoval` | `RemovalHonest` (an action property) | `SystemClean`, `BrowsersClean`: what a removal knows at each of its steps, kept by a proxy, a package manager and a crash in between |
| `ProxyProofs!StopLeavesNothingRunning` | `StoppedMeansStopped` | for each step of Start and Stop, which of flags, handle and task are left |
| `ProxyProofs!RequestsRelayedIntact` | `RequestsIntact` | `Sent`: what has arrived is the last of what was sent, and no request is sent before the one ahead of it is answered. `Place`: in each phase the buffer begins where the current request, its body or the next head begins on the client's script, and ends where reading stopped; at a dial nothing has been read but the ClientHello the proxy answered, or the head of a plain request and what follows it. `Spliced`: what has gone upstream is the script from its first token, or from the second where `unwrapped`. So a complete body is all that was sent, and what `AnswerClient` drops with the buffer is nothing |
| `ProxyProofs!TableStaysSound` | `TableSound` | `TableInv`, with `OpenHasRoom`: what `evict_until_under` left is still below the cap when the open ends, and the target still without an entry, since meanwhile tasks only remove; `TargetsKnown`: a task that removes has a target, so the entry it takes out is one of its own target, its own or that of a newer session |

Assumptions on the constants are the `ASSUME`s of the component modules: sizes and
limits are naturals, positive where the code's constants are, and markers such as
"pool" are not names of calls. Those worth knowing:

* `QuotaTracker`: the safety buffer is at most the daily limit. `ReserveIsKept` has the
  hypothesis that it is positive, in its statement.
* `ResponseReader`: a server sends no empty chunk before the last one (it would be the
  last one), and body bytes may be CR and LF.
* `HttpConn`: a request that announces no body has none. That the client sends a request
  only after the answer to the last is in the model (`MaySend`): the code drops what it
  read beyond a body, so a request that a client pipelined behind it would be lost.
* `TodayStats`: years from 1970 on, since the code's clock starts there, and windows of at
  most 1200 hours, so that a window ends before the clocks change in the next year. There is no
  bound on the year.
* `UdpAssociate`: a session task that is spawned before its entry is inserted does not
  end before the insert (`Inserted`): its first await is a poll of at least
  `UDP_INITIAL_POLL_DELAY`, the insert follows at once. `TableSound` needs it.
* `ScriptPool`: there is a deployment.
* `UploadStream`, `NodeUdp`, `RangeDownload`, `TunnelMux`: limits and chunk sizes are
  positive, payload sizes are naturals.

`SumTheorems` holds what these proofs need of sums and concatenations, which the
community modules define by recursion. The library's induction theorems take the
statement as an operator and cannot be used here; the lemmas say the same of a *set*:
`NatSetInduction` for a set of naturals, `SumRecursion` and `JoinedExists` for the
existence of the recursive functions, from which `SumRemove`, `SumSplit` and
`FlattenAppend` follow.

Only model-checked:

* everything temporal under fairness (the properties of `components_live`), out of the
  prover's reach;
* `EdgeTypeOK`, the conjunct of `EdgeSound` that gathers the types of the components,
  except for the parts of it with a theorem of their own. What a proof needs of types is
  part of its inductive invariant. The other conjuncts of `EdgeSound` are proved, each of
  its component's own specification.

The action property `AnsweredOnce` is proved and in no run.

## 5. Not modelled

* Inside modelled components: decompression and JSON decoding of replies, SNI rotation,
  TLS, URL rewriting and CORS headers, leaf certificates (`issue_leaf`), the packet
  format of SOCKS5 UDP, partial udpgw frames, the adaptive settle loop (a free delay),
  forecasts and statistics for display.
* RTT tracker: it only changes how long `mux_loop` collects, which `TunnelMux` leaves
  free. `mark_server_no_longpoll` is called by tests only.
* Configuration: validation of one file, sequential, covered by unit tests.
* Scanners and the update check: one-shot probes without protocol state.
* Apps Script relay, workers, exit node: stateless forwarders, seen here as a transport
  that delivers once, late or never. Packaging, OpenWrt service and release scripts.

## 6. Plan

Done: the byte streams of the sessions first, then the components around them.

Left, most important first:

1. `TunnelLoop` composed with `NodeSession` over a reordering transport and shown to
   implement an ordered stream with eof when one poll is outstanding.
2. A property for the race of Start and certificate removal, once the code says which
   outcome is meant.
