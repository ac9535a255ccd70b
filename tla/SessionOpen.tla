----------------------------- MODULE SessionOpen -----------------------------
(***************************************************************************)
(* Setting up tunnel sessions (tunnel_connection of src/tunnel_client.rs): *)
(* the client's first bytes are read ahead and sent along with the connect *)
(* (`connect_data`); a node or an Apps Script that does not know this op   *)
(* answers "unknown op", and the bytes are replayed after a plain connect. *)
(* The fleet may be mixed, so each op may meet an old or a new deployment. *)
(* Targets that the node could not reach are remembered for a while.       *)
(***************************************************************************)
EXTENDS Naturals, Sequences, FiniteSets, SequencesExt

CONSTANTS Opens,        \* client connections
          OpenTarget,    \* function: connection -> target (host and port)
          ServerFirst,   \* targets on a port where the server speaks first
          MaxUnreach     \* UNREACHABLE_CACHE_MAX

VARIABLES ophase,     \* per connection: "new", "preread", "plain", "data", "loop", "ended"
          readAhead,  \* per connection: first bytes were taken off the socket
          replay,     \* per connection: pending_client_data of tunnel_loop
          upFirst,    \* per connection: how often the node wrote the first bytes upstream
          nodeSess,   \* per connection: the node has a session for it
          unsupported,\* mux.connect_data_unsupported
          unreach     \* mux.unreachable_cache, in the order of expiry

openvars == <<ophase, readAhead, replay, upFirst, nodeSess, unsupported, unreach>>

OpenTypeOK ==
  /\ ophase \in [Opens -> {"new", "preread", "plain", "data", "loop", "ended"}]
  /\ {readAhead, replay, nodeSess} \subseteq [Opens -> BOOLEAN]
  /\ upFirst \in [Opens -> 0..2] /\ unsupported \in BOOLEAN
  /\ Len(unreach) <= MaxUnreach /\ IsInjective(unreach)

OpenInit ==
  /\ ophase = [s \in Opens |-> "new"]
  /\ readAhead = [s \in Opens |-> FALSE] /\ replay = [s \in Opens |-> FALSE]
  /\ upFirst = [s \in Opens |-> 0] /\ nodeSess = [s \in Opens |-> FALSE]
  /\ unsupported = FALSE /\ unreach = <<>>

Goes(s, ph) == ophase' = [ophase EXCEPT ![s] = ph]

-----------------------------------------------------------------------------
(* Negative cache *)

is_unreachable(t) == \E j \in DOMAIN unreach : unreach[j] = t

\* The TTL is the same for all entries, so the oldest expires first.
UnreachExpires ==
  /\ unreach # <<>> /\ unreach' = Tail(unreach)
  /\ UNCHANGED <<ophase, readAhead, replay, upFirst, nodeSess, unsupported>>

\* At the cap the entry that would expire soonest goes.
WithRoom(c) == IF Len(c) >= MaxUnreach THEN SubSeq(c, Len(c) - MaxUnreach + 2, Len(c)) ELSE c

record_unreachable(t) == unreach' = Append(SelectSeq(WithRoom(unreach), LAMBDA x : x # t), t)

\* The front end asks before it accepts the CONNECT.
FrontEnd(s) ==
  /\ ophase[s] = "new"
  /\ Goes(s, IF is_unreachable(OpenTarget[s]) THEN "ended" ELSE "preread")
  /\ UNCHANGED <<readAhead, replay, upFirst, nodeSess, unsupported, unreach>>

-----------------------------------------------------------------------------
(* Reading ahead *)

SkipsPreread(s) == unsupported \/ OpenTarget[s] \in ServerFirst

PrereadSkip(s) ==
  /\ ophase[s] = "preread" /\ SkipsPreread(s) /\ Goes(s, "plain")
  /\ UNCHANGED <<readAhead, replay, upFirst, nodeSess, unsupported, unreach>>

PrereadWin(s) ==
  /\ ophase[s] = "preread" /\ ~SkipsPreread(s) /\ Goes(s, "data")
  /\ readAhead' = [readAhead EXCEPT ![s] = TRUE]
  /\ UNCHANGED <<replay, upFirst, nodeSess, unsupported, unreach>>

\* CLIENT_FIRST_DATA_WAIT is over.
PrereadLoss(s) ==
  /\ ophase[s] = "preread" /\ ~SkipsPreread(s) /\ Goes(s, "plain")
  /\ UNCHANGED <<readAhead, replay, upFirst, nodeSess, unsupported, unreach>>

PrereadClosed(s) ==
  /\ ophase[s] = "preread" /\ ~SkipsPreread(s) /\ Goes(s, "ended")
  /\ UNCHANGED <<readAhead, replay, upFirst, nodeSess, unsupported, unreach>>

-----------------------------------------------------------------------------
(* connect_data *)

\* The node connects, writes the bytes and answers.  After that the first
\* response is written to the client, which may fail or hold the eof.
DataOpened(s) ==
  /\ ophase[s] = "data" /\ ophase' \in {[ophase EXCEPT ![s] = "loop"], [ophase EXCEPT ![s] = "ended"]}
  /\ nodeSess' = [nodeSess EXCEPT ![s] = (ophase'[s] = "loop")]
  /\ upFirst' = [upFirst EXCEPT ![s] = @ + 1]
  /\ UNCHANGED <<readAhead, replay, unsupported, unreach>>

UnsupportedForgets(s) == FALSE

\* Unsupported: `data` is kept for the first iteration of tunnel_loop.
KeepsFirstBytes(s) == TRUE

DataUnsupported(s) ==
  /\ ophase[s] = "data" /\ Goes(s, "plain")
  /\ replay' = [replay EXCEPT ![s] = KeepsFirstBytes(s)] /\ unsupported' = TRUE
  /\ UNCHANGED <<readAhead, upFirst, nodeSess, unreach>>

\* The node's own connect error; only this one says something of the target.
ConnectRefused(s) ==
  /\ ophase[s] \in {"data", "plain"} /\ Goes(s, "ended")
  /\ \/ record_unreachable(OpenTarget[s])
     \/ UNCHANGED unreach
  /\ UNCHANGED <<readAhead, replay, upFirst, nodeSess, unsupported>>

\* The transport fails, before the node was reached or on the way back.  In the
\* second case the node keeps a session that nobody will close.
ConnectLost(s) ==
  /\ ophase[s] \in {"data", "plain"} /\ Goes(s, "ended")
  /\ \/ UNCHANGED <<nodeSess, upFirst>>
     \/ /\ nodeSess' = [nodeSess EXCEPT ![s] = TRUE]
        /\ upFirst' = IF ophase[s] = "data" THEN [upFirst EXCEPT ![s] = @ + 1] ELSE upFirst
  /\ UNCHANGED <<readAhead, replay, unsupported, unreach>>

PlainOpened(s) ==
  /\ ophase[s] = "plain" /\ Goes(s, "loop") /\ nodeSess' = [nodeSess EXCEPT ![s] = TRUE]
  /\ UNCHANGED <<readAhead, replay, upFirst, unsupported, unreach>>

-----------------------------------------------------------------------------
(* tunnel_loop, as far as the first bytes go *)

\* What was read ahead is sent as the first data op, before any other read.
LoopSendsPending(s) ==
  /\ ophase[s] = "loop" /\ replay[s] /\ replay' = [replay EXCEPT ![s] = FALSE]
  /\ upFirst' = [upFirst EXCEPT ![s] = @ + 1]
  /\ UNCHANGED <<ophase, readAhead, nodeSess, unsupported, unreach>>

\* Bytes that were not read ahead are read by the loop like any others.
LoopReadsFirst(s) ==
  /\ ophase[s] = "loop" /\ ~readAhead[s] /\ upFirst[s] = 0
  /\ upFirst' = [upFirst EXCEPT ![s] = 1] /\ readAhead' = [readAhead EXCEPT ![s] = TRUE]
  /\ UNCHANGED <<ophase, replay, nodeSess, unsupported, unreach>>

\* However the loop ends, Close is sent; its batch may be lost.
LoopOver(s) ==
  /\ ophase[s] = "loop" /\ ~replay[s] /\ Goes(s, "ended")
  /\ nodeSess' \in {nodeSess, [nodeSess EXCEPT ![s] = FALSE]}
  /\ UNCHANGED <<readAhead, replay, upFirst, unsupported, unreach>>

NodeReaps(s) ==
  /\ ophase[s] = "ended" /\ nodeSess[s] /\ nodeSess' = [nodeSess EXCEPT ![s] = FALSE]
  /\ UNCHANGED <<ophase, readAhead, replay, upFirst, unsupported, unreach>>

OpenNext ==
  \/ UnreachExpires
  \/ \E s \in Opens :
       \/ FrontEnd(s) \/ PrereadSkip(s) \/ PrereadWin(s) \/ PrereadLoss(s) \/ PrereadClosed(s)
       \/ DataOpened(s) \/ DataUnsupported(s) \/ ConnectRefused(s) \/ ConnectLost(s) \/ PlainOpened(s)
       \/ LoopSendsPending(s) \/ LoopReadsFirst(s) \/ LoopOver(s) \/ NodeReaps(s)

OpenSpec == OpenInit /\ [][OpenNext]_openvars

-----------------------------------------------------------------------------
(* Properties *)

\* The first bytes (a TLS ClientHello) go upstream at most once, whatever the
\* deployments know of connect_data and however the fallback flag changes while
\* an attempt is under way; and in an open session bytes that were taken off
\* the socket have gone upstream or are still due: the fallback loses nothing.
FirstBytesOnce ==
  \A s \in Opens :
    /\ upFirst[s] <= 1
    /\ ophase[s] \in {"plain", "loop"} /\ readAhead[s] => (replay[s] <=> upFirst[s] = 0)
=============================================================================
