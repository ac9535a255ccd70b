---------------------------- MODULE UploadStream ----------------------------
(***************************************************************************)
(* The upload direction of one TCP session: tunnel_loop numbers the chunks *)
(* it reads from the client with `wseq` (tunnel_client.rs, send_data_op),  *)
(* each chunk travels in its own batch, batches overtake each other, and   *)
(* the node's "data" branch of handle_batch puts them back in order with   *)
(* next_write_seq / pending_writes before it writes to the upstream.       *)
(*                                                                         *)
(* A chunk is its wseq.  The transport may delay, reorder and lose batches *)
(* (a failed fire_batch), deliver one twice, and cut a request while the   *)
(* node is writing (the handler's future is dropped at the write's await). *)
(***************************************************************************)
EXTENDS Integers, Sequences, FiniteSets

CONSTANTS
    Chunks,    \* chunks the client sends
    Window,    \* data ops in flight at once: INFLIGHT_ACTIVE + 2
    MaxLost,   \* bound: batches that never reach the node
    MaxDup,    \* bound: batches delivered twice
    MaxCut     \* bound: requests dropped while the node writes

ASSUME UploadAssumption ==
    /\ Chunks \in Nat /\ Window \in Nat \ {0}
    /\ MaxLost \in Nat /\ MaxDup \in Nat /\ MaxCut \in Nat

None == -1

VARIABLES
    nextSeq,   \* next_data_write_seq of the client
    wire,      \* wseqs of batches on their way to the node
    expected,  \* SessionInner.next_write_seq (None before the first chunk)
    pending,   \* keys of SessionInner.pending_writes
    upstream,  \* wseqs written to the upstream socket, in order
    flushing,  \* a request holds next_write_seq's lock and flushes
    torn,      \* wseq whose write was cut, or None
    lost, dups, cuts

vars == <<nextSeq, wire, expected, pending, upstream, flushing, torn, lost, dups, cuts>>

Seqs == 0..(Chunks - 1)

TypeOK ==
    /\ nextSeq \in 0..Chunks
    /\ wire \subseteq Seqs
    /\ expected \in {None} \cup 0..Chunks
    /\ pending \subseteq Seqs
    /\ upstream \in Seq(Seqs)
    /\ flushing \in BOOLEAN
    /\ torn \in {None} \cup Seqs
    /\ lost \in 0..MaxLost /\ dups \in 0..MaxDup /\ cuts \in 0..MaxCut

Init ==
    /\ nextSeq = 0 /\ wire = {}
    /\ expected = None /\ pending = {} /\ upstream = <<>>
    /\ flushing = FALSE /\ torn = None
    /\ lost = 0 /\ dups = 0 /\ cuts = 0

-----------------------------------------------------------------------------
\* Client: send_data_op, within the pipeline's window.
Send ==
    /\ nextSeq < Chunks
    /\ Cardinality(wire) < Window
    /\ wire' = wire \cup {nextSeq}
    /\ nextSeq' = nextSeq + 1
    /\ UNCHANGED <<expected, pending, upstream, flushing, torn, lost, dups, cuts>>

\* Transport: the batch fails before the node sees it.  A reply timeout leaves
\* the session running, so more chunks may follow.
Lose(w) ==
    /\ w \in wire /\ lost < MaxLost
    /\ wire' = wire \ {w}
    /\ lost' = lost + 1
    /\ UNCHANGED <<nextSeq, expected, pending, upstream, flushing, torn, dups, cuts>>

\* Transport: w stays on the wire once more after this delivery.
Consume(w) ==
    \/ wire' = wire \ {w} /\ dups' = dups
    \/ dups < MaxDup /\ wire' = wire /\ dups' = dups + 1

\* next_write_seq.get_or_insert(wseq)
GetOrInsert(w) == IF expected = None THEN w ELSE expected

\* Fault for the checks: a chunk below the expected one is written again.
SkipStaleWrites(w) ==
    /\ w \in wire /\ ~flushing /\ w < GetOrInsert(w)
    /\ Consume(w)
    /\ upstream' = Append(upstream, w)
    /\ UNCHANGED <<nextSeq, expected, pending, flushing, torn, lost, cuts>>

\* wseq < expected: stale or duplicate, skipped.
SkipStale(w) ==
    /\ w \in wire /\ ~flushing /\ w < GetOrInsert(w)
    /\ Consume(w)
    /\ expected' = GetOrInsert(w)
    /\ UNCHANGED <<nextSeq, pending, upstream, flushing, torn, lost, cuts>>

\* Fault for the checks: after the write the lock is left without a flush.
WriteNowNoFlush(w) ==
    /\ w \in wire /\ ~flushing /\ w = GetOrInsert(w)
    /\ Consume(w)
    /\ upstream' = Append(upstream, w)
    /\ expected' = w + 1
    /\ UNCHANGED <<nextSeq, pending, flushing, torn, lost, cuts>>

\* wseq == expected: written at once, then the buffered successors are flushed
\* under the same lock.
WriteNow(w) ==
    /\ w \in wire /\ ~flushing /\ w = GetOrInsert(w)
    /\ Consume(w)
    /\ upstream' = Append(upstream, w)
    /\ expected' = w + 1
    /\ flushing' = TRUE
    /\ UNCHANGED <<nextSeq, pending, torn, lost, cuts>>

\* wseq > expected: buffered.
Buffer(w) ==
    /\ w \in wire /\ ~flushing /\ w > GetOrInsert(w)
    /\ Consume(w)
    /\ expected' = GetOrInsert(w)
    /\ pending' = pending \cup {w}
    /\ UNCHANGED <<nextSeq, upstream, flushing, torn, lost, cuts>>

\* pw.first_entry() has the expected key.
FirstIsExpected ==
    /\ expected \in pending
    /\ \A k \in pending : expected <= k

\* One turn of the flush loop.
Flush ==
    /\ flushing /\ FirstIsExpected
    /\ pending' = pending \ {expected}
    /\ upstream' = Append(upstream, expected)
    /\ expected' = expected + 1
    /\ UNCHANGED <<nextSeq, wire, flushing, torn, lost, dups, cuts>>

\* The loop ends: no buffered chunk, or a gap before the first one.
FlushEnd ==
    /\ flushing /\ ~FirstIsExpected
    /\ flushing' = FALSE
    /\ UNCHANGED <<nextSeq, wire, expected, pending, upstream, torn, lost, dups, cuts>>

\* Fault for the checks: the cut write counts as done.
WriteCutCounts(w) ==
    /\ w \in wire /\ ~flushing /\ w = GetOrInsert(w) /\ cuts < MaxCut
    /\ Consume(w)
    /\ expected' = w + 1
    /\ torn' = w
    /\ cuts' = cuts + 1
    /\ UNCHANGED <<nextSeq, pending, upstream, flushing, lost>>

\* The request is dropped inside write_all: the counter is not advanced and the
\* locks are released.
WriteCut(w) ==
    /\ w \in wire /\ ~flushing /\ w = GetOrInsert(w) /\ cuts < MaxCut
    /\ Consume(w)
    /\ expected' = w
    /\ torn' = w
    /\ cuts' = cuts + 1
    /\ UNCHANGED <<nextSeq, pending, upstream, flushing, lost>>

\* The same inside the flush loop, after the entry was removed from the map.
FlushCut ==
    /\ flushing /\ FirstIsExpected /\ cuts < MaxCut
    /\ pending' = pending \ {expected}
    /\ torn' = expected
    /\ flushing' = FALSE
    /\ cuts' = cuts + 1
    /\ UNCHANGED <<nextSeq, wire, expected, upstream, lost, dups>>

Arrive(w) == SkipStale(w) \/ WriteNow(w) \/ Buffer(w) \/ WriteCut(w)

Next ==
    \/ Send \/ Flush \/ FlushEnd \/ FlushCut
    \/ \E w \in Seqs : Lose(w) \/ Arrive(w)

Spec == Init /\ [][Next]_vars

\* Batches in flight arrive or fail, and the flush loop runs.
FlushTurn == Flush \/ FlushEnd
ArriveUncut(w) == SkipStale(w) \/ WriteNow(w) \/ Buffer(w)

UploadFairness == WF_vars(FlushTurn) /\ \A w \in Seqs : WF_vars(ArriveUncut(w))

FairSpec == Spec /\ UploadFairness

-----------------------------------------------------------------------------
\* Properties

\* The upstream sees a run of consecutive chunks: whatever the order of arrival,
\* nothing is written out of order, twice, or across a gap.
InOrderNoDup ==
    \A i \in 1..Len(upstream) : upstream[i] = upstream[1] + (i - 1)

\* A write that was cut stays the last thing the upstream sees of the session,
\* unless the transport repeats a batch.
TornIsLast ==
    torn # None /\ dups = 0 =>
        /\ expected = torn
        /\ \A i \in 1..Len(upstream) : upstream[i] < torn

\* Chunks that cannot be waited for any more: everything sent has reached the
\* node or is known to be lost.
Quiet == wire = {} /\ ~flushing

\* Why InOrderNoDup is inductive: the run ends just below the expected chunk.
RunEndsAtExpected == upstream # <<>> => expected = upstream[1] + Len(upstream)

\* The upload reaches the upstream from its first chunk on.
UploadPrefix == upstream # <<>> => upstream[1] = 0

\* Nothing is stranded in the buffer: when no batch is under way, none was lost
\* and no write was cut, every chunk from the first one the node saw to the last
\* one sent has been written, whatever order they came in and however often.
NothingStranded ==
    Quiet /\ lost = 0 /\ cuts = 0 => pending = {} /\ expected \in {None, nextSeq}

\* A chunk that is buffered is written once the chunks before it have come.
BufferedIsWritten ==
    \A w \in Seqs : w \in pending /\ torn = None ~>
        \/ \E i \in 1..Len(upstream) : upstream[i] = w
        \/ lost > 0 \/ cuts > 0
=============================================================================
