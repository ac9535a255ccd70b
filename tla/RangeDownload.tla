--------------------------- MODULE RangeDownload ---------------------------
(***************************************************************************)
(* The range-parallel download of DomainFronter                            *)
(* (src/src/domain_fronter.rs): a probe for the first chunk, then the      *)
(* remaining ranges fetched MaxParallel at a time and stitched in order,   *)
(* into a buffer or straight to the client.  A reply is its status, the    *)
(* Content-Range it carries and its body length; its bytes are named by    *)
(* their offsets.  The head transformation and the logs are left out.      *)
(***************************************************************************)
EXTENDS Integers, Sequences

CONSTANTS
  MaxSize,      \* bound: size of an entity
  Chunk,        \* RANGE_PARALLEL_CHUNK_BYTES
  MaxParallel,  \* fetches in flight
  BufferMax,    \* APPS_SCRIPT_BODY_MAX_BYTES
  StitchMax,    \* BUFFERED_STITCH_MAX_BYTES
  StreamMax     \* MAX_STREAMED_RANGE_BYTES

ASSUME RangeAssumption ==
  /\ MaxSize \in Nat /\ Chunk \in Nat \ {0} /\ MaxParallel \in Nat \ {0}
  /\ BufferMax \in Nat /\ StitchMax \in Nat /\ StreamMax \in Nat

VARIABLES
  asked,     \* what the client asked: "plain", "other" (not a bodiless GET),
             \* "head" (Range from byte 0), "resume" (Range from a later byte)
  streaming, \* streaming_allowed
  size,      \* size of the entity at the origin
  rfrom,     \* first byte the client asked for
  dstep,     \* step of the download
  total,     \* entity length the probe announced
  pend,      \* last byte the probe delivered
  fetched,   \* per planned range: "todo", "flight", "ok", "bad"
  yielded,   \* ranges taken from the stream so far
  full,      \* bytes stitched so far, the probe's and those of the good ranges taken
  base, declared, out, fin  \* the client's side: first byte, length, bytes, end

rangevars == <<asked, streaming, size, rfrom, dstep, total, pend, fetched, yielded, full,
               base, declared, out, fin>>

-----------------------------------------------------------------------------
(* Replies and their checks *)

\* Replies to a range request; total and range may be anything the origin
\* or the relay makes up, the bytes are those the reply names.
Replies(s, e) ==
  [status : {0, 200, 206, 404}, start : {s, s + 1}, end : {s, e, e + 1}, total : {size, size + 1},
   len : {1, e - s + 1}]

\* parse_content_range rejects a range that is empty or outside the total.
Parses(r) == r.start <= r.end /\ r.end < r.total

MatchesBody(r) == r.len > 0 /\ r.end - r.start + 1 = r.len

\* probe_range_covers_complete_entity: the body may be longer than the
\* range when the origin's encoding was undone on the way.
CoversEntity(r, e) == r.start = 0 /\ r.end + 1 >= r.total /\ r.total <= e + 1

\* validate_probe_range and validate_probe_range_at_offset.
ValidProbe(r, s, e) ==
  /\ r.status = 206 /\ Parses(r) /\ r.start = s /\ r.end <= e
  /\ MatchesBody(r) \/ (s = 0 /\ CoversEntity(r, e))

\* extract_exact_range_body.
ExactRange(r, s, e) ==
  r.status = 206 /\ Parses(r) /\ r.start = s /\ r.end = e /\ r.total = total /\ MatchesBody(r)

PlanOverlapping(i) ==
  LET s == pend + (i - 1) * Chunk
      e == s + Chunk - 1 IN <<s, IF e < total - 1 THEN e ELSE total - 1>>

\* plan_remaining_ranges: the i-th range after the probe, and whether the
\* iterator still has one.
PlannedRange(i) ==
  LET s == pend + 1 + (i - 1) * Chunk
      e == s + Chunk - 1 IN <<s, IF e < total - 1 THEN e ELSE total - 1>>

Planned(i) == pend + 1 + (i - 1) * Chunk < total
MaxRanges == (MaxSize + 1 + Chunk - 1) \div Chunk

Bytes(s, e) == [i \in 1..(e - s + 1) |-> s + i - 1]

RangeTypeOK ==
  /\ asked \in {"plain", "other", "head", "resume"} /\ streaming \in BOOLEAN
  /\ size \in 1..MaxSize /\ rfrom \in 0..(MaxSize - 1)
  /\ dstep \in {"start", "single", "fetch", "stream", "body", "end"}
  /\ total \in 0..(MaxSize + 1) /\ pend \in 0..MaxSize
  /\ fetched \in [1..MaxRanges -> {"todo", "flight", "ok", "bad"}] /\ yielded \in 0..MaxRanges
  /\ full \in Seq(0..MaxSize)
  /\ base \in -1..MaxSize /\ declared \in -1..(MaxSize + 1) /\ out \in Seq(0..MaxSize)
  /\ fin \in {"no", "complete", "refused", "cut"}

RangeInit ==
  /\ asked \in {"plain", "other", "head", "resume"} /\ streaming \in BOOLEAN
  /\ size \in 1..MaxSize
  /\ rfrom \in IF asked = "resume" THEN 1..(size - 1) ELSE {0}
  /\ dstep = "start" /\ total = 0 /\ pend = 0
  /\ fetched = [i \in 1..MaxRanges |-> "todo"] /\ yielded = 0 /\ full = <<>>
  /\ base = -1 /\ declared = -1 /\ out = <<>> /\ fin = "no"

-----------------------------------------------------------------------------
(* Writing to the client *)

request == <<asked, streaming, size, rfrom>>
plan == <<total, pend, fetched, yielded, full>>

\* Head and first bytes in one write; the response goes on at step next.
Write(start, len, bytes, next) ==
  /\ base' = start /\ declared' = len /\ out' = out \o bytes /\ dstep' = next
  /\ UNCHANGED <<request, fin>>

WholeEntity == Write(0, size, Bytes(0, size - 1), "body")

\* A failed write, a bad chunk after the head is out, or a status the client
\* should retry: the connection is closed.
CloseEarly == dstep' = "end" /\ fin' = "cut" /\ UNCHANGED <<request, base, declared, out>>

\* An error page instead of the body.
SendError == dstep' = "end" /\ fin' = "refused" /\ UNCHANGED <<request, base, declared, out>>

ClientGone == dstep \in {"stream", "body"} /\ CloseEarly /\ UNCHANGED plan

BodyDone ==
  /\ dstep = "body" /\ dstep' = "end" /\ fin' = "complete"
  /\ UNCHANGED <<request, plan, base, declared, out>>

-----------------------------------------------------------------------------
(* do_relay_parallel_range_to, stream_range_from_offset *)

\* Not a bodiless GET, or a Range from byte 0: whatever relay() returns, the
\* whole or a first part.  With a Range an error closes the connection, else
\* it is passed on.
PassThrough ==
  /\ dstep = "start" /\ asked \in {"other", "head"}
  /\ \/ WholeEntity
     \/ asked = "head" /\ \E e \in 0..(size - 1) : Write(0, e + 1, Bytes(0, e), "body")
     \/ asked = "other" /\ SendError
     \/ asked = "head" /\ CloseEarly
  /\ UNCHANGED plan

ProbeEnd == rfrom + Chunk - 1

\* What the probe's r has for the client; a body that is not the range it names is
\* the whole entity.
ProbeBytes(r) == IF MatchesBody(r) THEN Bytes(r.start, r.end) ELSE Bytes(0, size - 1)

\* The probe came back without a partial body: passed on.  Status 200 is the
\* whole entity.
ProbeNotPartial ==
  /\ dstep = "start" /\ asked = "plain"
  /\ \E r \in Replies(0, ProbeEnd) :
       \/ r.status = 200 /\ WholeEntity
       \/ r.status \in {0, 404} /\ SendError
  /\ UNCHANGED plan

ProbeInvalid ==
  /\ dstep = "start" /\ asked = "plain"
  /\ \E r \in Replies(0, ProbeEnd) : r.status = 206 /\ ~ValidProbe(r, 0, ProbeEnd)
  /\ dstep' = "single" /\ UNCHANGED <<request, base, declared, out, fin, plan>>

\* The probe has everything: the 206 becomes a 200 whose length is that of the body.
ProbeIsAll ==
  /\ dstep = "start" /\ asked = "plain"
  /\ \E r \in Replies(0, ProbeEnd) :
       /\ ValidProbe(r, 0, ProbeEnd) /\ (r.total <= Chunk \/ r.end + 1 >= r.total)
       /\ Write(0, Len(ProbeBytes(r)), ProbeBytes(r), "body")
  /\ UNCHANGED plan

\* dispatch_range_response
Dispatch(t) ==
  CASE streaming /\ t > StreamMax -> "reject"
    [] streaming /\ t > BufferMax /\ t <= StreamMax -> "stream"
    [] ~streaming /\ t > StitchMax -> "single"
    [] OTHER -> "fetch"

ProbeStartsPlan ==
  /\ dstep = "start" /\ asked = "plain"
  /\ \E r \in Replies(0, ProbeEnd) :
       /\ ValidProbe(r, 0, ProbeEnd) /\ r.total > Chunk /\ r.end + 1 < r.total
       /\ total' = r.total /\ pend' = r.end
       /\ \/ Dispatch(r.total) = "stream" /\ Write(0, r.total, Bytes(0, r.end), "stream") /\ UNCHANGED full
          \/ Dispatch(r.total) = "reject" /\ SendError /\ UNCHANGED full
          \/ /\ Dispatch(r.total) = "single" /\ dstep' = "single"
             /\ UNCHANGED <<request, full, base, declared, out, fin>>
          \/ /\ Dispatch(r.total) = "fetch" /\ dstep' = "fetch" /\ full' = Bytes(0, r.end)
             /\ UNCHANGED <<request, base, declared, out, fin>>
  /\ UNCHANGED <<fetched, yielded>>

\* A resume closes the connection on an error status, for a clean retry, passes
\* on a 200, whatever was asked, and always streams.
ResumeNotPartial ==
  /\ dstep = "start" /\ asked = "resume"
  /\ \E r \in Replies(rfrom, ProbeEnd) :
       \/ r.status = 200 /\ WholeEntity
       \/ r.status \in {0, 404} /\ CloseEarly
  /\ UNCHANGED plan

ResumeInvalid ==
  /\ dstep = "start" /\ asked = "resume"
  /\ \E r \in Replies(rfrom, ProbeEnd) : r.status = 206 /\ ~ValidProbe(r, rfrom, ProbeEnd)
  /\ CloseEarly /\ UNCHANGED plan

ResumeIsAll ==
  /\ dstep = "start" /\ asked = "resume"
  /\ \E r \in Replies(rfrom, ProbeEnd) :
       /\ ValidProbe(r, rfrom, ProbeEnd) /\ r.end + 1 >= r.total
       /\ Write(rfrom, Len(ProbeBytes(r)), ProbeBytes(r), "body")
  /\ UNCHANGED plan

ResumeStartsPlan ==
  /\ dstep = "start" /\ asked = "resume"
  /\ \E r \in Replies(rfrom, ProbeEnd) :
       /\ ValidProbe(r, rfrom, ProbeEnd) /\ r.end + 1 < r.total
       /\ total' = r.total /\ pend' = r.end
       /\ Write(rfrom, r.total - rfrom, Bytes(rfrom, r.end), "stream")
  /\ UNCHANGED <<fetched, yielded, full>>

-----------------------------------------------------------------------------
(* fetch_chunks_stream and its two consumers *)

\* buffered(MaxParallel): ranges are started in order, at most MaxParallel
\* ahead of the one to be taken next.
FetchStarts(i) ==
  /\ dstep \in {"fetch", "stream"} /\ Planned(i) /\ i <= yielded + MaxParallel
  /\ fetched[i] = "todo" /\ \A j \in 1..(i - 1) : fetched[j] # "todo"
  /\ fetched' = [fetched EXCEPT ![i] = "flight"]
  /\ UNCHANGED <<request, dstep, total, pend, yielded, full, base, declared, out, fin>>

FetchEnds(i) ==
  LET rg == PlannedRange(i) IN
  /\ dstep \in {"fetch", "stream"} /\ fetched[i] = "flight"
  /\ \E r \in Replies(rg[1], rg[2]) :
       fetched' = [fetched EXCEPT ![i] = IF ExactRange(r, rg[1], rg[2]) THEN "ok" ELSE "bad"]
  /\ UNCHANGED <<request, dstep, total, pend, yielded, full, base, declared, out, fin>>

\* stream_chunks_to_writer: the next range in order goes to the client, a
\* bad one truncates the response.
StreamChunk ==
  LET i == yielded + 1
      rg == PlannedRange(i) IN
  /\ dstep = "stream" /\ Planned(i) /\ fetched[i] \in {"ok", "bad"}
  /\ yielded' = i
  /\ \/ fetched[i] = "ok" /\ Write(base, declared, Bytes(rg[1], rg[2]), "stream")
     \/ fetched[i] = "bad" /\ CloseEarly
  /\ UNCHANGED <<total, pend, fetched, full>>

StreamDone ==
  /\ dstep = "stream" /\ ~Planned(yielded + 1)
  /\ dstep' = "end" /\ fin' = "complete"
  /\ UNCHANGED <<request, plan, base, declared, out>>

\* The buffered path takes every result, and stitches the good ones, before
\* it writes a byte.
CollectChunk ==
  LET i == yielded + 1
      rg == PlannedRange(i) IN
  /\ dstep = "fetch" /\ Planned(i) /\ fetched[i] \in {"ok", "bad"}
  /\ yielded' = i
  /\ full' = IF fetched[i] = "ok" THEN full \o Bytes(rg[1], rg[2]) ELSE full
  /\ UNCHANGED <<request, dstep, total, pend, fetched, base, declared, out, fin>>

Stitch ==
  /\ dstep = "fetch" /\ ~Planned(yielded + 1)
  /\ IF (\A i \in 1..yielded : fetched[i] = "ok") /\ Len(full) = total
       THEN Write(0, total, full, "body")
       ELSE dstep' = "single" /\ UNCHANGED <<request, base, declared, out, fin>>
  /\ UNCHANGED plan

\* The fallback: one GET without a Range.
SingleGet ==
  /\ dstep = "single"
  /\ WholeEntity \/ SendError
  /\ UNCHANGED plan

RangeNext ==
  \/ PassThrough \/ ProbeNotPartial \/ ProbeInvalid \/ ProbeIsAll \/ ProbeStartsPlan
  \/ ResumeNotPartial \/ ResumeInvalid \/ ResumeIsAll \/ ResumeStartsPlan
  \/ \E i \in 1..MaxRanges : FetchStarts(i) \/ FetchEnds(i)
  \/ StreamChunk \/ StreamDone \/ CollectChunk \/ Stitch \/ SingleGet
  \/ BodyDone \/ ClientGone

RangeSpec == RangeInit /\ [][RangeNext]_rangevars

-----------------------------------------------------------------------------
(* Properties *)

Client == INSTANCE OrderedStream WITH
  MaxLength <- MaxSize + 1, from <- base, announced <- declared, sent <- out, ended <- fin

\* The download implements an ordered byte stream: whatever order the chunks
\* arrive in and whichever of them fail, the client gets each byte once, in
\* order, and a complete response holds exactly the length it announced.
ImplementsOrderedStream == Client!StreamSpec
=============================================================================
