--------------------------- MODULE ResponseReader ---------------------------
(***************************************************************************)
(* read_http_response, read_chunked and read_crlf_line of                  *)
(* src/src/domain_fronter.rs: one response is read from a socket that      *)
(* delivers it in pieces of any size and may end, fall silent or fail at   *)
(* any place.  What is on the wire is a sequence of tokens: bytes of the   *)
(* body, CR, LF, the hexadecimal number of a chunk, pieces of the head.    *)
(***************************************************************************)
EXTENDS Integers, Sequences, SequencesExt

CONSTANTS Answers,     \* the responses a server may send
          MaxPiece,    \* bound on the tokens one read returns
          HeadMax      \* the limit of 1 MiB on a head, in tokens

VARIABLES resp,        \* the response on the wire
          given,       \* how many of its tokens the server sends
          ending,      \* what follows them: "silent", "fin", "torn" (no close_notify), "reset"
          taken,       \* tokens read so far
          rbuf, rout,  \* the read buffer, the decoded body
          rat,         \* "head", "length", "size", "data", "trailer", "rest", "ok", "bad", "late"
          chunk        \* size of the chunk being read

readvars == <<resp, given, ending, taken, rbuf, rout, rat, chunk>>

HeadPart == -1
HeadStop == -2
Cr       == -3
Lf       == -4
TrailerField == -5
Size(k)  == 100 + k
Endings  == {"silent", "fin", "torn", "reset"}
CrLf     == <<Cr, Lf>>
Byte     == Nat \cup {Cr, Lf}

ASSUME ReaderAssumption ==
  /\ HeadMax \in Nat /\ MaxPiece \in Nat
  /\ \A a \in Answers : /\ a.head \in Nat \ {0} /\ a.chunks \in Seq(Seq(Byte) \ {<<>>})
                        /\ a.framing \in {"length", "chunked", "none"}
                        /\ a.broken \in BOOLEAN /\ a.trailer \in BOOLEAN

\* What the server means to send; a broken chunk lacks its final CR LF.
BodyOf(a) == FlattenSeq(a.chunks)
ChunkWire(c, broken) == <<Size(Len(c))>> \o CrLf \o c \o (IF broken THEN <<1, 1>> ELSE CrLf)
LastChunk(a) == <<Size(0)>> \o CrLf \o (IF a.trailer THEN <<TrailerField>> \o CrLf ELSE <<>>) \o CrLf
ChunkedWire(a) ==
  FlattenSeq([i \in DOMAIN a.chunks |-> ChunkWire(a.chunks[i], a.broken)]) \o LastChunk(a)
Wire(a) ==
  [i \in 1..a.head |-> IF i = a.head THEN HeadStop ELSE HeadPart]
    \o (IF a.framing = "chunked" THEN ChunkedWire(a) ELSE BodyOf(a))

ReadTypeOK ==
  /\ resp \in Answers /\ given \in 0..Len(Wire(resp)) /\ ending \in Endings
  /\ taken \in 0..given /\ Len(rbuf) <= taken /\ Len(rout) <= taken /\ chunk \in Nat
  /\ rat \in {"head", "length", "size", "data", "trailer", "rest", "ok", "bad", "late"}

ReadInit ==
  /\ resp \in Answers /\ given \in 0..Len(Wire(resp)) /\ ending \in Endings
  /\ taken = 0 /\ rbuf = <<>> /\ rout = <<>> /\ rat = "head" /\ chunk = 0

-----------------------------------------------------------------------------
Frozen == UNCHANGED <<resp, given, ending>>
ReadGoes(at) == rat' = at /\ Frozen /\ UNCHANGED taken

DropFirst(n) == rbuf' = SubSeq(rbuf, n + 1, Len(rbuf))

\* Where the first CR LF of the buffer starts, and where its head ends.
LineAt == {i \in 1..(Len(rbuf) - 1) : rbuf[i] = Cr /\ rbuf[i + 1] = Lf}
FirstLine == CHOOSE i \in LineAt : \A j \in LineAt : i <= j
HeadAt == {i \in DOMAIN rbuf : rbuf[i] = HeadStop}
ContentLength == Len(BodyOf(resp))

\* The loop at rat has to read before it can go on.
NeedsMore ==
  CASE rat = "head"                -> HeadAt = {} /\ Len(rbuf) <= HeadMax
    [] rat = "length"              -> Len(rbuf) < ContentLength
    [] rat \in {"size", "trailer"} -> LineAt = {}
    [] rat = "data"                -> Len(rbuf) < chunk + 2
    [] rat = "rest"                -> TRUE
    [] OTHER                       -> FALSE

\* A body with a length is read up to that length, everything else as it comes.
ReadMore(n) ==
  /\ NeedsMore /\ taken + n <= given
  /\ rat = "length" => n <= ContentLength - Len(rbuf)
  /\ rbuf' = rbuf \o SubSeq(Wire(resp), taken + 1, taken + n)
  /\ taken' = taken + n
  /\ Frozen /\ UNCHANGED <<rout, rat, chunk>>

EndAcceptedWhenTorn ==
  \/ rat = "rest" /\ ending # "reset"
  \/ rat = "length" /\ ending = "torn"

\* Only a body without a length may end with the stream or with a silence.
EndAccepted == rat = "rest" /\ ending # "reset"

StreamEnds ==
  /\ NeedsMore /\ taken = given
  /\ IF EndAccepted THEN ReadGoes("ok") /\ rout' = rbuf ELSE ReadGoes("bad") /\ UNCHANGED rout
  /\ UNCHANGED <<rbuf, chunk>>

\* The deadline covers the whole head, however it trickles in.
HeadDeadline ==
  /\ rat = "head" /\ NeedsMore /\ ReadGoes("late")
  /\ UNCHANGED <<rbuf, rout, chunk>>

HeadTooLarge ==
  /\ rat = "head" /\ HeadAt = {} /\ Len(rbuf) > HeadMax /\ ReadGoes("bad")
  /\ UNCHANGED <<rbuf, rout, chunk>>

\* Transfer-Encoding wins over Content-Length, which counts only if it parses.
HeadDone ==
  /\ rat = "head" /\ HeadAt # {}
  /\ DropFirst(CHOOSE i \in HeadAt : TRUE)
  /\ ReadGoes(CASE resp.framing = "chunked" -> "size"
            [] resp.framing = "length" -> "length"
            [] OTHER -> "rest")
  /\ UNCHANGED <<rout, chunk>>

LengthDone ==
  /\ rat = "length" /\ ~NeedsMore /\ ReadGoes("ok")
  /\ rout' = rbuf
  /\ UNCHANGED <<rbuf, chunk>>

\* An empty line before a size is skipped.
SizeLine ==
  /\ rat = "size" /\ LineAt # {}
  /\ LET line == SubSeq(rbuf, 1, FirstLine - 1) IN
       /\ chunk' = IF Len(line) = 1 /\ line[1] >= Size(0) THEN line[1] - Size(0) ELSE chunk
       /\ ReadGoes(CASE line = <<>> -> "size"
                 [] line = <<Size(0)>> -> "trailer"
                 [] Len(line) = 1 /\ line[1] > Size(0) -> "data"
                 [] OTHER -> "bad")
  /\ DropFirst(FirstLine + 1)
  /\ UNCHANGED rout

ChunkData ==
  /\ rat = "data" /\ ~NeedsMore
  /\ IF SubSeq(rbuf, chunk + 1, chunk + 2) = CrLf
       THEN ReadGoes("size") /\ rout' = rout \o SubSeq(rbuf, 1, chunk) /\ DropFirst(chunk + 2)
       ELSE ReadGoes("bad") /\ UNCHANGED <<rout, rbuf>>
  /\ UNCHANGED chunk

TrailerLine ==
  /\ rat = "trailer" /\ LineAt # {}
  /\ ReadGoes(IF FirstLine = 1 THEN "ok" ELSE "trailer")
  /\ DropFirst(FirstLine + 1)
  /\ UNCHANGED <<rout, chunk>>

ReadNext ==
  \/ \E n \in 1..MaxPiece : ReadMore(n)
  \/ StreamEnds \/ HeadDeadline \/ HeadTooLarge \/ HeadDone
  \/ LengthDone \/ SizeLine \/ ChunkData \/ TrailerLine

ReadSpec == ReadInit /\ [][ReadNext]_readvars

-----------------------------------------------------------------------------
(* Properties *)

\* However the stream is split and wherever it stops: a response with a length
\* is returned only as it was sent, and with nothing of it left on the socket,
\* which may go back to the pool; cut short it is an error.  A response that
\* came in full is not refused because the connection ended uncleanly after it.
\* Without a length what is returned is at least a prefix.
ResponseIntact ==
  /\ rat = "ok" => IF resp.framing = "none"
                     THEN IsPrefix(rout, BodyOf(resp))
                     ELSE rout = BodyOf(resp) /\ taken = Len(Wire(resp))
  /\ rat = "bad" => \/ given < Len(Wire(resp)) \/ resp.broken \/ resp.head > HeadMax
                    \/ resp.framing = "none" /\ ending = "reset"
=============================================================================
