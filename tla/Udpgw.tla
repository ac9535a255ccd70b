-------------------------------- MODULE Udpgw --------------------------------
(***************************************************************************)
(* A udpgw session of the tunnel node (src/tunnel-node/src/udpgw.rs):      *)
(* frames come in over an in-process duplex stream, each (conn_id,         *)
(* destination) gets a UDP socket with a reader task of its own, and a     *)
(* writer task puts the response frames of all of them on the stream.      *)
(*                                                                         *)
(* A frame is a key (a datagram for that socket) or one of the kinds the   *)
(* code tells apart.  tokio (external): dropping an AbortHandle does not   *)
(* abort the task, dropping a Sender or Receiver closes its side.          *)
(***************************************************************************)
EXTENDS Naturals, Sequences, FiniteSets

CONSTANTS GKeys,      \* (conn_id, destination address)
          MaxFrames,   \* bound: frames of the client
          ChanCap      \* capacity of the response channel (256)

GFrames == GKeys \union {"keepalive", "other", "blocked", "bad"}

VARIABLES gin,       \* frames in the duplex stream
          gframes,   \* frames the client has sent
          gbuf,      \* accumulation buffer of the server task
          gtask,     \* server task: "read", "parse", "over"
          gtable,    \* sockets: keys with an entry
          greaders,  \* keys whose reader task is alive
          gchan,     \* response frames in the channel
          gwriter,   \* the writer task is alive
          gclosed    \* the session is gone: its half of the stream is dropped

gwvars == <<gin, gframes, gbuf, gtask, gtable, greaders, gchan, gwriter, gclosed>>

UdpgwTypeOK ==
  /\ gtask \in {"read", "parse", "over"} /\ gtable \subseteq GKeys /\ greaders \subseteq GKeys
  /\ Len(gchan) <= ChanCap /\ gframes \in 0..MaxFrames /\ gwriter \in BOOLEAN /\ gclosed \in BOOLEAN

UdpgwInit ==
  /\ gin = <<>> /\ gframes = 0 /\ gbuf = <<>> /\ gtask = "read" /\ gtable = {} /\ greaders = {}
  /\ gchan = <<>> /\ gwriter = TRUE /\ gclosed = FALSE

-----------------------------------------------------------------------------
(* The client's side *)

SendFrame(f) ==
  /\ ~gclosed /\ gframes < MaxFrames /\ gframes' = gframes + 1 /\ gin' = Append(gin, f)
  /\ UNCHANGED <<gbuf, gtask, gtable, greaders, gchan, gwriter, gclosed>>

\* close, eof or the reaper: abort_all aborts the server task, whose locals
\* are dropped; the stream's other half goes with the session.
SessionGone ==
  /\ ~gclosed /\ gclosed' = TRUE /\ gtask' = "over" /\ gtable' = {}
  /\ UNCHANGED <<gin, gframes, gbuf, greaders, gchan, gwriter>>

-----------------------------------------------------------------------------
(* udpgw_server_task *)

GwRead ==
  /\ gtask = "read" /\ gin # <<>>
  /\ \E k \in 1..Len(gin) : gbuf' = gbuf \o SubSeq(gin, 1, k) /\ gin' = SubSeq(gin, k + 1, Len(gin))
  /\ gtask' = "parse"
  /\ UNCHANGED <<gframes, gtable, greaders, gchan, gwriter, gclosed>>

\* No complete frame is left.
GwParsed ==
  /\ gtask = "parse" /\ gbuf = <<>> /\ gtask' = "read"
  /\ UNCHANGED <<gin, gframes, gbuf, gtable, greaders, gchan, gwriter, gclosed>>

GwNextFrame(f) == gtask = "parse" /\ gbuf # <<>> /\ Head(gbuf) = f /\ gbuf' = Tail(gbuf)

\* tx.send waits for room, and fails when the writer is gone.
GwSend(f) == (Len(gchan) < ChanCap \/ ~gwriter) /\ gchan' = IF gwriter THEN Append(gchan, f) ELSE gchan

\* A malformed frame is skipped; what follows it in the buffer waits for the
\* next read.
GwBad ==
  /\ GwNextFrame("bad") /\ gtask' = "read"
  /\ UNCHANGED <<gin, gframes, gtable, greaders, gchan, gwriter, gclosed>>

\* Neither keepalive nor data.
GwIgnored ==
  /\ GwNextFrame("other")
  /\ UNCHANGED <<gin, gframes, gtask, gtable, greaders, gchan, gwriter, gclosed>>

\* A keepalive is echoed; QUIC and DNS ports are refused.
GwEcho ==
  /\ \E f \in {"keepalive", "blocked"} : GwNextFrame(f) /\ GwSend(f)
  /\ UNCHANGED <<gin, gframes, gtask, gtable, greaders, gwriter, gclosed>>

\* get_or_create_socket and the datagram.  Resolve, bind, connect or send may fail;
\* a failed send leaves the socket and its reader in the table.
GwDatagram(k) ==
  /\ GwNextFrame(k)
  /\ \/ /\ gtable' = gtable \union {k}
        /\ greaders' = IF k \in gtable THEN greaders ELSE greaders \union {k}
        /\ UNCHANGED gchan \/ GwSend("error")
     \/ GwSend("error") /\ UNCHANGED <<gtable, greaders>>
  /\ UNCHANGED <<gin, gframes, gtask, gwriter, gclosed>>

-----------------------------------------------------------------------------
(* Reader tasks and the writer task *)

\* A datagram comes back.  If the receiver is gone the task ends.
GwReply(k) ==
  /\ k \in greaders
  /\ \/ gwriter /\ Len(gchan) < ChanCap /\ gchan' = Append(gchan, k) /\ UNCHANGED greaders
     \/ ~gwriter /\ greaders' = greaders \ {k} /\ UNCHANGED gchan
  /\ UNCHANGED <<gin, gframes, gbuf, gtask, gtable, gwriter, gclosed>>

\* A recv error (ICMP) ends the reader; its entry stays in the table.
GwReaderError(k) ==
  /\ k \in greaders /\ greaders' = greaders \ {k}
  /\ UNCHANGED <<gin, gframes, gbuf, gtask, gtable, gchan, gwriter, gclosed>>

\* A frame is written; with the session gone the write fails.  The channel ends
\* when no sender is left: the server task has one and every reader a clone.
GwWrite ==
  /\ gwriter
  /\ \/ gchan # <<>> /\ gchan' = Tail(gchan) /\ gwriter' = ~gclosed
     \/ gchan = <<>> /\ gtask = "over" /\ greaders = {} /\ gwriter' = FALSE /\ UNCHANGED gchan
  /\ UNCHANGED <<gin, gframes, gbuf, gtask, gtable, greaders, gclosed>>

UdpgwServer == GwRead \/ GwParsed \/ GwBad \/ GwIgnored \/ GwEcho \/ \E k \in GKeys : GwDatagram(k)

UdpgwNext ==
  \/ \E f \in GFrames : SendFrame(f)
  \/ SessionGone \/ UdpgwServer \/ GwWrite
  \/ \E k \in GKeys : GwReply(k) \/ GwReaderError(k)

\* Tasks are scheduled; nothing makes the network answer.
UdpgwFairness == WF_gwvars(UdpgwServer) /\ WF_gwvars(GwWrite)

UdpgwSpec == UdpgwInit /\ [][UdpgwNext]_gwvars /\ UdpgwFairness

-----------------------------------------------------------------------------
(* Properties *)

\* "AbortHandle::drop aborts each reader task automatically": when the session
\* is over its reader tasks end, and their sockets with them.
UdpgwReadersEnd == (gtask = "over") ~> (greaders = {})
=============================================================================
