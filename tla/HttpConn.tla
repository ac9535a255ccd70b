------------------------------ MODULE HttpConn ------------------------------
(***************************************************************************)
(* One client connection of the proxy (src/src/proxy_server.rs): the plain *)
(* HTTP entry, the dispatch of a CONNECT, and the request loop of          *)
(* handle_mitm_request.                                                    *)
(*                                                                         *)
(* The client carries out a program, a sequence of requests, and sends the *)
(* next one only after the answer to the last, as browsers do: the code    *)
(* drops what it has read beyond a body.  Bytes are tokens <<request,      *)
(* part>>; a read returns any non-empty prefix of what has arrived, so the *)
(* boundaries of TCP segments are arbitrary.                               *)
(***************************************************************************)
EXTENDS Naturals, Sequences, FiniteSets, SequencesExt

CONSTANTS HttpPrograms,  \* set of sequences of request records
          MaxHead        \* MAX_HEADER_BYTES in tokens

\* framing: how a request announces its body of n tokens, "bad" if it does so wrongly.
HttpRequests ==
  [head : Nat, n : Nat, framing : {"none", "length", "chunked", "bad"}, expect : BOOLEAN,
   close : BOOLEAN, method : {"GET", "POST", "OPTIONS"}]

ASSUME HttpAssumption ==
  /\ MaxHead \in Nat
  /\ \A p \in HttpPrograms : /\ p \in Seq(HttpRequests)
                            /\ \A i \in DOMAIN p : p[i].framing = "none" => p[i].n = 0

VARIABLES prog,       \* what the client sends
          entry,      \* "plain": GET http://..., else CONNECT and "tls", "http", "silent"
          pmode,      \* mode of the configuration
          hsent,       \* tokens the client has sent
          onWire,       \* tokens sent and not yet read by the proxy
          gone,       \* the client has closed its end
          got100,     \* requests for which the client has read 100 Continue
          hphase,     \* where the handler is
          unwrapped,  \* the proxy has terminated the client's TLS
          hbuf,       \* its read buffer
          cur,        \* request whose head was parsed
          relayed,    \* <<request, data tokens>> handed to the fronter
          toUpstream,   \* tokens written to a spliced upstream
          answered    \* requests answered to the client

httpvars == <<prog, entry, pmode, hsent, onWire, gone, got100, hphase, unwrapped, hbuf, cur, relayed,
              toUpstream, answered>>
httpClient == <<prog, entry, pmode, hsent>>

HPhases == {"first", "firstParsed", "connect", "accept", "peek", "head", "parsed", "body", "answer",
            "dial", "splice", "closed"}

-----------------------------------------------------------------------------
(* Wire form of a request *)

Rep(n, tok) == [j \in 1..n |-> tok]

\* A chunk is its size line and its data; the last chunk has size 0.
BodyTokens(i, r) ==
  IF r.framing = "chunked"
    THEN [j \in 1..(2 * r.n) |-> IF j % 2 = 1 THEN <<i, "size">> ELSE <<i, "data">>] \o <<<<i, "last">>>>
    ELSE Rep(r.n, <<i, "data">>)

RequestTokens(i, r) == Rep(r.head, <<i, "head">>) \o <<<<i, "end">>>> \o BodyTokens(i, r)

\* Everything the client means to send; a TLS client starts with its ClientHello.
Script ==
  (IF entry = "tls" THEN <<<<0, "hello">>>> ELSE <<>>)
    \o FlattenSeq([i \in 1..Len(prog) |-> RequestTokens(i, prog[i])])

HttpTypeOK ==
  /\ prog \in HttpPrograms /\ entry \in {"plain", "tls", "http", "silent"}
  /\ pmode \in {"apps_script", "full", "direct"}
  /\ hsent \in 0..Len(Script) /\ gone \in BOOLEAN /\ hphase \in HPhases
  /\ unwrapped \in BOOLEAN
  /\ got100 \subseteq DOMAIN prog /\ answered \subseteq DOMAIN prog /\ cur \in 0..Len(prog)

HttpInit ==
  /\ prog \in HttpPrograms /\ entry \in {"plain", "tls", "http", "silent"}
  /\ pmode \in {"apps_script", "full", "direct"}
  /\ hsent = 0 /\ onWire = <<>> /\ gone = FALSE /\ got100 = {} /\ hbuf = <<>> /\ cur = 0
  /\ hphase = (IF entry = "plain" THEN "first" ELSE "connect")
  /\ unwrapped = FALSE /\ relayed = <<>> /\ toUpstream = <<>> /\ answered = {}

-----------------------------------------------------------------------------
(* The client *)

\* It waits for the 200 of its CONNECT, for the answer to a request before the
\* next, and for 100 Continue before the body it announced with Expect.
MaySend(tok) ==
  /\ hphase # "connect" /\ entry # "silent"
  /\ tok[1] > 1 => (tok[1] - 1) \in answered
  /\ (tok[1] > 0 /\ tok[2] \in {"data", "size", "last"} /\ prog[tok[1]].expect) => tok[1] \in got100

ClientSend ==
  /\ ~gone /\ hphase # "closed" /\ hsent < Len(Script) /\ MaySend(Script[hsent + 1])
  /\ hsent' = hsent + 1 /\ onWire' = Append(onWire, Script[hsent + 1])
  /\ UNCHANGED <<prog, entry, pmode, gone, got100, hphase, unwrapped, hbuf, cur, relayed, toUpstream, answered>>

ClientLeaves ==
  /\ ~gone /\ gone' = TRUE
  /\ UNCHANGED <<httpClient, onWire, got100, hphase, unwrapped, hbuf, cur, relayed, toUpstream, answered>>

-----------------------------------------------------------------------------
(* Dispatch of a CONNECT *)

\* TLS is expected from the client, hence the gate on port 443.
should_use_sni_rewrite(lists, port) == port = 443 /\ ("google" \in lists \/ "hosts" \in lists)

\* lists: which of the configured or built-in host lists match the target.
Route(m, lists, port, doh) ==
  LET isDoh == port = 443 /\ "doh" \in lists
      fronted == (port = 443 /\ "group" \in lists) \/ should_use_sni_rewrite(lists, port)
  IN IF "passthrough" \in lists THEN "raw"
     ELSE IF isDoh /\ "block" \in doh THEN "drop"
     ELSE IF isDoh /\ "bypass" \in doh THEN "raw"
     ELSE IF m = "full" THEN "mux"
     ELSE IF fronted THEN "sni"
     ELSE IF m = "direct" THEN "raw"
     ELSE "peek"

HostLists == SUBSET {"passthrough", "doh", "group", "google", "hosts"}

\* Where a route leads.  A raw route dials the target; the mux opens a tunnel
\* session (SessionOpen, TunnelLoop), seen from here as a dial and a splice; the
\* SNI rewrite needs a certificate for the host, which may fail.
Leads(route) ==
  CASE route \in {"raw", "mux"} -> {"dial"}
    [] route = "sni" -> {"accept", "closed"}
    [] route = "drop" -> {"closed"}
    [] route = "peek" -> {"peek"}

\* The request line of a CONNECT, or the SOCKS5 handshake, up to the route.  The
\* connection is refused for a bad handshake, an unknown command or address type,
\* a target the tunnel node just called unreachable, and a blocked STUN port.  A
\* server that speaks first is not reached on 443, where a ClientHello is waited
\* for.
Connect ==
  /\ hphase = "connect"
  /\ \/ hphase' = "closed"
     \/ \E lists \in HostLists, port \in {80, 443}, doh \in SUBSET {"block", "bypass"} :
          /\ entry = "silent" => port = 80
          /\ hphase' \in Leads(Route(pmode, lists, port, doh))
  /\ UNCHANGED <<httpClient, onWire, gone, got100, unwrapped, hbuf, cur, relayed, toUpstream, answered>>

\* do_sni_rewrite_tunnel_from_tcp: accept TLS, dial the edge, splice.  The
\* decrypted bytes are what is spliced.
SniAccept ==
  /\ hphase = "accept" /\ onWire # <<>>
  /\ \/ /\ Head(onWire)[2] = "hello" /\ hphase' = "dial" /\ onWire' = Tail(onWire)
        /\ unwrapped' = TRUE
     \/ hphase' = "closed" /\ UNCHANGED <<onWire, unwrapped>>
  /\ UNCHANGED <<httpClient, gone, got100, hbuf, cur, relayed, toUpstream, answered>>

\* The first bytes decide between MITM (run_mitm_then_relay: handshake, then the
\* request loop), the request loop on the bare stream, and raw TCP: what one peek
\* returns may be too short to look like HTTP, or be another protocol.
PeekFirst ==
  /\ hphase = "peek" /\ onWire # <<>>
  /\ \/ /\ Head(onWire)[2] = "hello" /\ hphase' = "head" /\ onWire' = Tail(onWire)
        /\ unwrapped' = TRUE
     \/ Head(onWire)[2] = "hello" /\ hphase' = "closed" /\ UNCHANGED <<onWire, unwrapped>>
     \/ Head(onWire)[2] # "hello" /\ hphase' \in {"head", "dial"} /\ UNCHANGED <<onWire, unwrapped>>
  /\ UNCHANGED <<httpClient, gone, got100, hbuf, cur, relayed, toUpstream, answered>>

\* Nothing within 100 ms, a protocol in which the server speaks first, or the end
\* of the client's stream, which a peek answers with 0 bytes: raw TCP.  A failed
\* peek closes.
PeekTimeout ==
  /\ hphase = "peek" /\ onWire = <<>> /\ hphase' \in {"dial", "closed"}
  /\ UNCHANGED <<httpClient, onWire, gone, got100, unwrapped, hbuf, cur, relayed, toUpstream, answered>>

-----------------------------------------------------------------------------
(* Reading a request *)

ReadPrefix(k) == hbuf \o SubSeq(onWire, 1, k)

HeadEnd(b) == {j \in 1..Len(b) : b[j][2] = "end"}

\* parse_request_head of what precedes the blank line.
ParsedRequest(h) ==
  IF \E i \in DOMAIN prog : h = SubSeq(RequestTokens(i, prog[i]), 1, prog[i].head + 1)
    THEN CHOOSE i \in DOMAIN prog : h = SubSeq(RequestTokens(i, prog[i]), 1, prog[i].head + 1)
    ELSE 0

\* read_http_head and read_http_head_io: the end of the head is looked for
\* before the size is checked; an oversized head is refused with 431.
ReadHead ==
  /\ hphase \in {"first", "head"} /\ onWire # <<>>
  /\ \E k \in 1..Len(onWire) :
       LET b == ReadPrefix(k) IN
       /\ onWire' = SubSeq(onWire, k + 1, Len(onWire))
       /\ IF HeadEnd(b) # {}
            THEN LET e == CHOOSE j \in HeadEnd(b) : \A x \in HeadEnd(b) : j <= x IN
                 /\ cur' = ParsedRequest(SubSeq(b, 1, e)) /\ hbuf' = SubSeq(b, e + 1, Len(b))
                 /\ hphase' = IF cur' = 0 THEN "closed"
                              ELSE IF hphase = "first" THEN "firstParsed" ELSE "parsed"
            ELSE /\ hbuf' = b /\ UNCHANGED cur
                 /\ hphase' = IF Len(b) > MaxHead THEN "closed" ELSE hphase
  /\ UNCHANGED <<httpClient, gone, got100, unwrapped, relayed, toUpstream, answered>>

\* With a fronter a plain request is read on and relayed; without one its target
\* is dialled, unless the request line has none.
PlainEntry ==
  /\ hphase = "firstParsed"
  /\ hphase' \in IF pmode # "direct" THEN {"parsed"} ELSE {"dial", "closed"}
  /\ UNCHANGED <<httpClient, onWire, gone, got100, unwrapped, hbuf, cur, relayed, toUpstream, answered>>

IgnoresChunked(r) == IF r.framing = "chunked" THEN "none" ELSE r.framing

Framing(r) == r.framing

Never100(r) == FALSE

Continue100(r) == r.expect /\ Framing(r) \in {"length", "chunked"}

\* read_body: "bad" stands for an invalid Content-Length, an unsupported
\* Transfer-Encoding, or both headers at once.
StartBody ==
  /\ hphase = "parsed"
  /\ hphase' = IF Framing(prog[cur]) = "bad" THEN "closed" ELSE "body"
  /\ got100' = IF Continue100(prog[cur]) /\ ~gone THEN got100 \union {cur} ELSE got100
  /\ UNCHANGED <<httpClient, onWire, gone, unwrapped, hbuf, cur, relayed, toUpstream, answered>>

\* What has arrived of the body is complete.
BodyComplete(r) ==
  CASE Framing(r) = "none" -> TRUE
    [] Framing(r) = "length" -> Len(hbuf) >= r.n
    [] Framing(r) = "chunked" -> \E j \in DOMAIN hbuf : hbuf[j][2] = "last"

DataIn(tok) == IF tok[2] = "data" THEN <<tok>> ELSE <<>>

BodyRead(r) ==
  CASE Framing(r) = "none" -> <<>>
    [] Framing(r) = "length" -> SubSeq(hbuf, 1, r.n)
    [] Framing(r) = "chunked" -> FlattenSeq([j \in DOMAIN hbuf |-> DataIn(hbuf[j])])

ReadBody ==
  /\ hphase = "body" /\ ~BodyComplete(prog[cur]) /\ onWire # <<>>
  /\ \E k \in 1..Len(onWire) : hbuf' = ReadPrefix(k) /\ onWire' = SubSeq(onWire, k + 1, Len(onWire))
  /\ UNCHANGED <<httpClient, gone, got100, hphase, unwrapped, cur, relayed, toUpstream, answered>>

\* handle_mitm_request answers OPTIONS itself; everything else, and do_plain_http
\* every method, goes to the fronter (RelayCoalesce, and RangeDownload for a GET
\* without a body).
Relay ==
  /\ hphase = "body" /\ BodyComplete(prog[cur]) /\ hphase' = "answer"
  /\ relayed' = IF prog[cur].method = "OPTIONS" /\ entry # "plain" THEN relayed
                ELSE Append(relayed, <<cur, BodyRead(prog[cur])>>)
  /\ UNCHANGED <<httpClient, onWire, gone, got100, unwrapped, hbuf, cur, toUpstream, answered>>

\* The response is written; what was read beyond the body is dropped with the
\* buffer.  A plain connection ends here, the loop goes on unless the client
\* asked to close.  A download that breaks off, or a client that has left, is an
\* error that closes the connection.
AnswerClient ==
  /\ hphase = "answer" /\ hbuf' = <<>>
  /\ \/ (gone \/ prog[cur].method = "GET") /\ hphase' = "closed" /\ UNCHANGED answered
     \/ /\ ~gone /\ answered' = answered \union {cur}
        /\ hphase' = IF entry = "plain" \/ prog[cur].close THEN "closed" ELSE "head"
  /\ UNCHANGED <<httpClient, onWire, gone, got100, unwrapped, cur, relayed, toUpstream>>

\* The client's end is closed and nothing is left to read: a clean end between
\* two requests, an error within one.
ReadEof ==
  /\ gone /\ onWire = <<>> /\ hphase \in {"first", "accept", "head", "body"}
  /\ hphase = "body" => ~BodyComplete(prog[cur])
  /\ hphase' = "closed"
  /\ UNCHANGED <<httpClient, onWire, gone, got100, unwrapped, hbuf, cur, relayed, toUpstream, answered>>

-----------------------------------------------------------------------------
(* The dial, copy_bidirectional, and the upstream (external) *)

\* What goes upstream first: the head of a plain request, rewritten to origin
\* form, and what was read beyond it.
Forwarded ==
  IF cur = 0 THEN <<>> ELSE SubSeq(RequestTokens(cur, prog[cur]), 1, prog[cur].head + 1) \o hbuf

\* plain_tcp_passthrough, do_plain_http_passthrough and the outbound half of the
\* SNI rewrite: the direct dial gives up after its timeout, the handshake with an
\* upstream SOCKS5 proxy and the outbound TLS handshake have none.
DialEnds ==
  /\ hphase = "dial"
  /\ \/ hphase' = "closed" /\ UNCHANGED <<hbuf, toUpstream>>
     \/ hphase' = "splice" /\ hbuf' = <<>> /\ toUpstream' = Forwarded
  /\ UNCHANGED <<httpClient, onWire, gone, got100, unwrapped, cur, relayed, answered>>

SpliceCopy ==
  /\ hphase = "splice" /\ onWire # <<>> /\ toUpstream' = toUpstream \o onWire /\ onWire' = <<>>
  /\ UNCHANGED <<httpClient, gone, got100, hphase, unwrapped, hbuf, cur, relayed, answered>>

\* One of the two ends has closed or failed.
SpliceEnds ==
  /\ hphase = "splice" /\ hphase' = "closed"
  /\ UNCHANGED <<httpClient, onWire, gone, got100, unwrapped, hbuf, cur, relayed, toUpstream, answered>>

Arrived(i) == \E j \in DOMAIN toUpstream : toUpstream[j] = <<i, "end">>
FullyArrived(i) ==
  Cardinality({j \in DOMAIN toUpstream : toUpstream[j][1] = i}) = Len(RequestTokens(i, prog[i]))

UpstreamServes ==
  /\ hphase = "splice"
  /\ \E i \in DOMAIN prog \ answered :
       \/ /\ Arrived(i) /\ prog[i].expect /\ i \notin got100 /\ ~FullyArrived(i)
          /\ got100' = got100 \union {i} /\ UNCHANGED <<answered, hphase>>
       \/ /\ FullyArrived(i) /\ answered' = answered \union {i} /\ UNCHANGED got100
          /\ hphase' = IF entry = "plain" \/ prog[i].close THEN "closed" ELSE hphase
  /\ UNCHANGED <<httpClient, onWire, gone, unwrapped, hbuf, cur, relayed, toUpstream>>

-----------------------------------------------------------------------------
HandlerStep == Connect \/ SniAccept \/ PeekFirst \/ PeekTimeout \/ ReadHead \/ PlainEntry \/ StartBody
               \/ ReadBody \/ Relay \/ AnswerClient \/ ReadEof \/ SpliceCopy

HttpNext == ClientSend \/ ClientLeaves \/ HandlerStep \/ DialEnds \/ SpliceEnds \/ UpstreamServes

\* The handler's task is scheduled, and a client that stays sends what it means
\* to send; it need not leave.  A dial need not end, an upstream need not answer.
HttpFairness == WF_httpvars(HandlerStep) /\ WF_httpvars(ClientSend)

HttpSpec == HttpInit /\ [][HttpNext]_httpvars /\ HttpFairness

-----------------------------------------------------------------------------
(* Properties *)

\* Wherever reads split the stream and whatever body an earlier request had,
\* the fronter gets the client's requests in their order, each once and with
\* exactly its body (the relay puts that body into a JSON envelope: a byte too
\* many or too few cannot be seen later), and a spliced upstream gets exactly
\* the bytes the client sent, from the first on, or from the first after the
\* ClientHello that the proxy itself has answered.
RequestsIntact ==
  /\ \A x \in DOMAIN relayed :
       /\ relayed[x][2] = Rep(prog[relayed[x][1]].n, <<relayed[x][1], "data">>)
       /\ x > 1 => relayed[x - 1][1] < relayed[x][1]
  /\ toUpstream # <<>> => IsPrefix(toUpstream, IF unwrapped THEN Tail(Script) ELSE Script)

\* A request that the client began is answered, or it is left to a dial or an
\* upstream, or its connection is closed, and a connection to a server that
\* speaks first comes to a dial with no byte from the client: the proxy never
\* waits for a client that is waiting for the proxy (Expect: 100-continue, a
\* ClientHello that never comes, a head that arrived in pieces).
RequestServed ==
  /\ \A i \in UNION {DOMAIN p : p \in HttpPrograms} :
       (\E j \in 1..hsent : Script[j][1] = i)
         ~> (i \in answered \/ hphase \in {"dial", "splice", "closed"} \/ gone)
  /\ (entry = "silent" /\ hphase # "connect") ~> (hphase \in {"dial", "splice", "closed"})
=============================================================================
