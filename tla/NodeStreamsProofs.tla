------------------------- MODULE NodeStreamsProofs --------------------------
(***************************************************************************)
(* The tunnel node's upload reorder buffer, for any number of chunks and   *)
(* any transport, and its UDP sessions, for every capacity of the packet   *)
(* queue and any number of requests.                                       *)
(***************************************************************************)
EXTENDS UploadStream, NodeUdp, SequenceTheorems, TLAPS

(* Uploads *)

USE UploadAssumption

\* The invariant behind InOrderNoDup.
RunInv == TypeOK /\ InOrderNoDup /\ RunEndsAtExpected

\* Writing the expected chunk extends the run by one.
LEMMA AppendExpected ==
    ASSUME NEW s \in Seq(Seqs), NEW e \in Seqs,
           \A i \in 1..Len(s) : s[i] = s[1] + (i - 1),
           s # <<>> => e = s[1] + Len(s)
    PROVE  LET t == Append(s, e) IN
           /\ t \in Seq(Seqs) /\ t # <<>>
           /\ \A i \in 1..Len(t) : t[i] = t[1] + (i - 1)
           /\ e + 1 = t[1] + Len(t)
<1> DEFINE t == Append(s, e)
<1>1. t \in Seq(Seqs) /\ Len(t) = Len(s) + 1 /\ t[Len(s) + 1] = e /\ t # <<>>
  BY AppendProperties
<1>2. \A i \in 1..Len(s) : t[i] = s[i]
  BY AppendProperties
<1>3. CASE s = <<>>
  BY <1>1, <1>3 DEF Seqs
<1>4. CASE s # <<>>
  <2>1. Len(s) \in Nat /\ Len(s) >= 1
    BY <1>4
  <2>2. t[1] = s[1] /\ s[1] \in Int
    BY <1>2, <2>1 DEF Seqs
  <2>3. ASSUME NEW i \in 1..Len(t) PROVE t[i] = t[1] + (i - 1)
    BY <1>1, <1>2, <1>4, <2>1, <2>2, <2>3
  <2>4. e + 1 = t[1] + Len(t)
    BY <1>1, <1>4, <2>1, <2>2
  <2>. QED  BY <1>1, <2>3, <2>4
<1>. QED  BY <1>3, <1>4

\* Delivery keeps the wire's and the counter's types.
LEMMA ConsumeType ==
    ASSUME TypeOK, NEW w \in Seqs, Consume(w)
    PROVE  wire' \subseteq Seqs /\ dups' \in 0..MaxDup
BY DEF TypeOK, Consume

\* The buffer starts empty.
LEMMA RunInvInit == Init => RunInv
<1> SUFFICES ASSUME Init PROVE RunInv
  OBVIOUS
<1>1. upstream \in Seq(Seqs) /\ Len(upstream) = 0
  BY DEF Init
<1>2. TypeOK
  <2>1. nextSeq \in 0..Chunks /\ lost \in 0..MaxLost /\ dups \in 0..MaxDup /\ cuts \in 0..MaxCut
    BY DEF Init
  <2>2. expected \in {None} \cup 0..Chunks /\ torn \in {None} \cup Seqs
    BY DEF Init
  <2>3. wire \subseteq Seqs /\ pending \subseteq Seqs /\ flushing \in BOOLEAN
    BY DEF Init
  <2>. QED  BY <1>1, <2>1, <2>2, <2>3 DEF TypeOK
<1>. QED  BY <1>1, <1>2 DEF Init, RunInv, InOrderNoDup, RunEndsAtExpected

\* Every step keeps the run.
LEMMA RunInvStep == RunInv /\ [Next]_vars => RunInv'
<1> SUFFICES ASSUME RunInv, [Next]_vars PROVE RunInv'
  OBVIOUS
<1>0. TypeOK /\ InOrderNoDup /\ RunEndsAtExpected
  BY DEF RunInv
<1>. USE DEF None
<1>1. CASE Send
  BY <1>0, <1>1 DEF Send, RunInv, TypeOK, InOrderNoDup, RunEndsAtExpected, Seqs
<1>2. CASE Flush
  <2>1. expected \in Seqs
    BY <1>0, <1>2 DEF Flush, FirstIsExpected, TypeOK
  <2>2. upstream' = Append(upstream, expected) /\ expected' = expected + 1
    BY <1>2 DEF Flush
  <2>3. /\ upstream' \in Seq(Seqs) /\ upstream' # <<>> /\ InOrderNoDup'
        /\ expected' = upstream'[1] + Len(upstream')
    BY <1>0, <2>1, <2>2, AppendExpected DEF TypeOK, InOrderNoDup, RunEndsAtExpected
  <2>4. TypeOK'
    BY <1>0, <1>2, <2>1, <2>2, <2>3 DEF Flush, TypeOK, Seqs
  <2>. QED  BY <2>3, <2>4 DEF RunInv, RunEndsAtExpected
<1>3. CASE FlushEnd
  BY <1>0, <1>3 DEF FlushEnd, RunInv, TypeOK, InOrderNoDup, RunEndsAtExpected
<1>4. CASE FlushCut
  <2>1. expected \in Seqs /\ cuts' \in 0..MaxCut
    BY <1>0, <1>4 DEF FlushCut, FirstIsExpected, TypeOK
  <2>2. TypeOK'
    BY <1>0, <1>4, <2>1 DEF FlushCut, TypeOK
  <2>. QED  BY <1>0, <1>4, <2>2 DEF FlushCut, RunInv, InOrderNoDup, RunEndsAtExpected
<1>5. ASSUME NEW w \in Seqs, Lose(w) PROVE RunInv'
  BY <1>0, <1>5 DEF Lose, RunInv, TypeOK, InOrderNoDup, RunEndsAtExpected
<1>6. ASSUME NEW w \in Seqs, Arrive(w) PROVE RunInv'
  <2>0. /\ wire' \subseteq Seqs /\ dups' \in 0..MaxDup
    BY <1>0, <1>6, ConsumeType DEF Arrive, SkipStale, WriteNow, Buffer, WriteCut
  <2>1. upstream # <<>> => expected # None /\ GetOrInsert(w) = expected
    <3>1. upstream # <<>> => upstream[1] \in Nat /\ Len(upstream) \in Nat
      BY <1>0 DEF TypeOK, Seqs
    <3>. QED  BY <1>0, <3>1 DEF RunEndsAtExpected, GetOrInsert
  <2>2. GetOrInsert(w) \in 0..Chunks
    BY <1>0 DEF GetOrInsert, TypeOK, Seqs
  <2>3. CASE SkipStale(w) \/ Buffer(w) \/ WriteCut(w)
    <3>1. upstream' = upstream /\ expected' = GetOrInsert(w)
      BY <2>3 DEF SkipStale, Buffer, WriteCut
    <3>2. InOrderNoDup' /\ RunEndsAtExpected'
      BY <1>0, <2>1, <3>1 DEF InOrderNoDup, RunEndsAtExpected
    <3>3. TypeOK'
      BY <1>0, <2>0, <2>2, <2>3, <3>1 DEF SkipStale, Buffer, WriteCut, TypeOK
    <3>. QED  BY <3>2, <3>3 DEF RunInv
  <2>4. CASE WriteNow(w)
    <3>1. upstream' = Append(upstream, w) /\ expected' = w + 1 /\ w = GetOrInsert(w)
      BY <2>4 DEF WriteNow
    <3>2. upstream # <<>> => w = upstream[1] + Len(upstream)
      BY <1>0, <2>1, <3>1 DEF RunEndsAtExpected
    <3>3. /\ upstream' \in Seq(Seqs) /\ upstream' # <<>> /\ InOrderNoDup'
          /\ expected' = upstream'[1] + Len(upstream')
      BY <1>0, <3>1, <3>2, AppendExpected DEF TypeOK, InOrderNoDup
    <3>4. TypeOK'
      BY <1>0, <2>0, <2>4, <3>1, <3>3 DEF WriteNow, TypeOK, Seqs
    <3>. QED  BY <3>3, <3>4 DEF RunInv, RunEndsAtExpected
  <2>. QED  BY <1>6, <2>3, <2>4 DEF Arrive
<1>7. CASE UNCHANGED vars
  BY <1>0, <1>7 DEF vars, RunInv, TypeOK, InOrderNoDup, RunEndsAtExpected
<1>. QED  BY <1>1, <1>2, <1>3, <1>4, <1>5, <1>6, <1>7 DEF Next

\* The upstream sees consecutive chunks only, for every number of chunks, window
\* and pattern of reordering, loss, duplication and interrupted writes.
THEOREM UploadInOrder == Spec => []InOrderNoDup
<1>1. RunInv => InOrderNoDup
  BY DEF RunInv
<1>. QED  BY <1>1, RunInvInit, RunInvStep, PTL DEF Spec

\* What the buffer holds is sent and not yet due, except while the flush loop is
\* at work; what was sent and is still due is on the wire or in the buffer.
DueInv ==
    /\ \A w \in wire \cup pending : w < nextSeq
    /\ expected # None => expected <= nextSeq
    /\ pending # {} => expected # None
    /\ \A k \in pending : k >= expected /\ (k = expected => flushing)
    /\ lost = 0 /\ cuts = 0 => \A w \in Seqs : w < nextSeq /\ expected <= w => w \in wire \cup pending

\* An arrival takes a chunk off the wire to the socket or to the buffer.
LEMMA ArriveDue ==
    ASSUME TypeOK, DueInv, NEW w \in Seqs, Arrive(w)
    PROVE  DueInv'
<1>. USE DEF None
<1>1. /\ nextSeq \in Nat /\ wire \subseteq Seqs /\ pending \subseteq Seqs /\ w \in Nat
      /\ expected \in Int /\ (expected # None => expected \in Nat) /\ cuts \in Nat
  BY DEF TypeOK, Seqs
<1>2. /\ w \in wire /\ ~flushing /\ nextSeq' = nextSeq /\ lost' = lost
      /\ wire' \subseteq wire /\ wire \ {w} \subseteq wire'
  BY DEF Arrive, SkipStale, WriteNow, Buffer, WriteCut, Consume
<1>3. w < nextSeq BY <1>2 DEF DueInv
<1>4. CASE SkipStale(w)
  <2>1. expected # None /\ w < expected /\ expected' = expected /\ UNCHANGED <<pending, flushing, cuts>>
    BY <1>1, <1>4 DEF SkipStale, GetOrInsert
  <2>. QED BY <1>1, <1>2, <2>1 DEF DueInv, Seqs
<1>5. CASE Buffer(w)
  <2>1. /\ expected # None /\ w > expected /\ expected' = expected /\ pending' = pending \cup {w}
        /\ UNCHANGED <<flushing, cuts>>
    BY <1>1, <1>5 DEF Buffer, GetOrInsert
  <2>. QED BY <1>1, <1>2, <1>3, <2>1 DEF DueInv, Seqs
<1>6. CASE WriteNow(w)
  <2>1. /\ w = GetOrInsert(w) /\ expected' = w + 1 /\ flushing' = TRUE /\ UNCHANGED <<pending, cuts>>
    BY <1>6 DEF WriteNow
  <2>2. expected = None \/ expected = w BY <2>1 DEF GetOrInsert
  <2>3. \A k \in pending : k > w BY <1>1, <1>2, <2>2 DEF DueInv, Seqs
  <2>. QED BY <1>1, <1>2, <1>3, <2>1, <2>2, <2>3 DEF DueInv, Seqs
<1>7. CASE WriteCut(w)
  <2>1. /\ w = GetOrInsert(w) /\ expected' = w /\ cuts' = cuts + 1 /\ UNCHANGED <<pending, flushing>>
    BY <1>7 DEF WriteCut
  <2>2. expected = None \/ expected = w BY <2>1 DEF GetOrInsert
  <2>3. \A k \in pending : k > w BY <1>1, <1>2, <2>2 DEF DueInv, Seqs
  <2>. QED BY <1>1, <1>2, <1>3, <2>1, <2>2, <2>3 DEF DueInv, Seqs
<1>. QED BY <1>4, <1>5, <1>6, <1>7 DEF Arrive

\* Every step keeps the account of the chunks that are due.
LEMMA DueStep ==
    ASSUME TypeOK, DueInv, [Next]_vars
    PROVE  DueInv'
<1>. USE DEF None
<1>1. /\ nextSeq \in Nat /\ wire \subseteq Seqs /\ pending \subseteq Seqs
      /\ expected \in Int /\ (expected # None => expected \in Nat) /\ cuts \in Nat /\ lost \in Nat
  BY DEF TypeOK, Seqs
<1>2. CASE Send
  <2>1. wire' = wire \cup {nextSeq} /\ nextSeq' = nextSeq + 1 /\ UNCHANGED <<expected, pending, flushing, lost, cuts>>
    BY <1>2 DEF Send
  <2>. QED BY <1>1, <2>1 DEF DueInv, Seqs
<1>3. CASE Flush
  <2>1. /\ flushing /\ expected \in pending /\ pending' = pending \ {expected} /\ expected' = expected + 1
        /\ UNCHANGED <<nextSeq, wire, flushing, lost, cuts>>
    BY <1>3 DEF Flush, FirstIsExpected
  <2>. QED BY <1>1, <2>1 DEF DueInv, Seqs
<1>4. CASE FlushEnd
  <2>1. /\ ~FirstIsExpected /\ flushing' = FALSE /\ UNCHANGED <<nextSeq, wire, expected, pending, lost, cuts>>
    BY <1>4 DEF FlushEnd
  <2>2. expected \notin pending BY <2>1 DEF DueInv, FirstIsExpected
  <2>. QED BY <1>1, <2>1, <2>2 DEF DueInv
<1>5. CASE FlushCut
  <2>1. /\ expected \in pending /\ pending' = pending \ {expected} /\ cuts' = cuts + 1
        /\ UNCHANGED <<nextSeq, wire, expected, lost>>
    BY <1>5 DEF FlushCut, FirstIsExpected
  <2>. QED BY <1>1, <2>1 DEF DueInv
<1>6. ASSUME NEW w \in Seqs, Lose(w) PROVE DueInv'
  BY <1>1, <1>6 DEF Lose, DueInv
<1>7. ASSUME NEW w \in Seqs, Arrive(w) PROVE DueInv'
  BY <1>7, ArriveDue
<1>8. CASE UNCHANGED vars
  BY <1>8 DEF vars, DueInv
<1>. QED  BY <1>2, <1>3, <1>4, <1>5, <1>6, <1>7, <1>8 DEF Next

\* No chunk is left behind in pending_writes, for every number of chunks, window
\* and pattern of reordering and duplication: what stops an upload is a lost batch
\* or a cut write, never the node's buffer.
THEOREM UploadComplete == Spec => []NothingStranded
<1>1. Init => DueInv
  BY DEF Init, DueInv, None, Seqs
<1>2. RunInv /\ DueInv => NothingStranded
  <2> SUFFICES ASSUME TypeOK, DueInv, wire = {}, ~flushing, lost = 0, cuts = 0
               PROVE  pending = {} /\ expected \in {None, nextSeq}
    BY DEF RunInv, NothingStranded, Quiet
  <2>1. nextSeq \in 0..Chunks /\ Chunks \in Nat /\ (expected # None => expected \in Nat) BY DEF TypeOK, None
  <2>2. expected \notin pending BY DEF DueInv
  <2>3. expected # None => expected = nextSeq
    <3> SUFFICES ASSUME expected # None, expected # nextSeq PROVE FALSE OBVIOUS
    <3>1. expected < nextSeq /\ expected \in Seqs BY <2>1 DEF DueInv, Seqs
    <3>2. expected \in wire \cup pending BY <2>1, <3>1 DEF DueInv
    <3>. QED BY <2>2, <3>2
  <2>4. pending = {}
    <3> SUFFICES ASSUME NEW k \in pending PROVE FALSE OBVIOUS
    <3>1. expected = nextSeq /\ k >= expected /\ k < nextSeq BY <2>3 DEF DueInv
    <3>2. k \in Nat BY DEF TypeOK, Seqs
    <3>. QED BY <2>1, <3>1, <3>2
  <2>. QED  BY <2>3, <2>4
<1>3. RunInv => TypeOK
  BY DEF RunInv
<1>. QED  BY <1>1, <1>2, <1>3, RunInvInit, RunInvStep, DueStep, PTL DEF Spec

\* While no batch is repeated a chunk is on the wire or buffered, not both, and
\* a cut chunk is in neither: nothing can be written at its place again.
TornInv ==
    dups = 0 =>
        /\ wire \cap pending = {}
        /\ \A w \in wire \cup pending : w < nextSeq
        /\ torn # None => /\ expected = torn /\ torn < nextSeq
                          /\ torn \notin wire \cup pending /\ ~flushing

\* Every step keeps the place of a cut chunk free.
LEMMA TornStep ==
    ASSUME RunInv, TornInv, [Next]_vars
    PROVE  TornInv'
<1>0. TypeOK BY DEF RunInv
<1>. USE DEF None
<1>1. dups \in Nat /\ nextSeq \in Nat /\ wire \subseteq Seqs /\ pending \subseteq Seqs
      /\ (torn # None => torn \in Seqs)
  BY <1>0 DEF TypeOK
<1>2. CASE Send
  BY <1>1, <1>2 DEF Send, TornInv, Seqs
<1>3. CASE Flush \/ FlushEnd
  BY <1>1, <1>3 DEF Flush, FlushEnd, FirstIsExpected, TornInv, Seqs
<1>4. CASE FlushCut
  BY <1>1, <1>4 DEF FlushCut, FirstIsExpected, TornInv, Seqs
<1>5. ASSUME NEW w \in Seqs, Lose(w) PROVE TornInv'
  BY <1>1, <1>5 DEF Lose, TornInv
<1>6. ASSUME NEW w \in Seqs, Arrive(w) PROVE TornInv'
  <2> SUFFICES ASSUME dups' = 0
               PROVE  /\ wire' \cap pending' = {}
                      /\ \A v \in wire' \cup pending' : v < nextSeq'
                      /\ torn' # None => /\ expected' = torn' /\ torn' < nextSeq'
                                         /\ torn' \notin wire' \cup pending' /\ ~flushing'
    BY DEF TornInv
  <2>1. /\ w \in wire /\ ~flushing /\ wire' = wire \ {w} /\ dups = 0 /\ UNCHANGED nextSeq
    BY <1>1, <1>6 DEF Arrive, SkipStale, WriteNow, Buffer, WriteCut, Consume
  <2>2. /\ wire \cap pending = {} /\ (\A v \in wire \cup pending : v < nextSeq)
        /\ torn # None => /\ expected = torn /\ torn < nextSeq
                          /\ torn \notin wire \cup pending
    BY <2>1 DEF TornInv
  <2>3. torn # None => GetOrInsert(w) = torn /\ w # torn
    BY <1>1, <2>1, <2>2 DEF GetOrInsert, Seqs
  <2>4. CASE SkipStale(w)
    BY <2>1, <2>2, <2>3, <2>4 DEF SkipStale
  <2>5. CASE WriteNow(w)
    BY <2>1, <2>2, <2>3, <2>5 DEF WriteNow
  <2>6. CASE Buffer(w)
    BY <2>1, <2>2, <2>3, <2>6 DEF Buffer
  <2>7. CASE WriteCut(w)
    BY <2>1, <2>2, <2>3, <2>7 DEF WriteCut
  <2>. QED  BY <1>6, <2>4, <2>5, <2>6, <2>7 DEF Arrive
<1>7. CASE UNCHANGED vars
  BY <1>7 DEF vars, TornInv
<1>. QED  BY <1>2, <1>3, <1>4, <1>5, <1>6, <1>7 DEF Next

\* Unless the transport repeats a batch, a chunk whose write was cut short stays
\* the last thing the upstream sees, for every number of chunks and cuts.
THEOREM TornStaysLast == Spec => []TornIsLast
<1>1. Init => TornInv
  BY DEF Init, TornInv
<1>2. RunInv /\ TornInv => TornIsLast
  <2> SUFFICES ASSUME RunInv, TornInv, torn # None, dups = 0
               PROVE  expected = torn /\ \A i \in 1..Len(upstream) : upstream[i] < torn
    BY DEF TornIsLast
  <2>1. expected = torn BY DEF TornInv
  <2>2. upstream \in Seq(Seqs) BY DEF RunInv, TypeOK
  <2>3. ASSUME NEW i \in 1..Len(upstream) PROVE upstream[i] < torn
    <3>0. Len(upstream) \in Nat /\ 1 \in 1..Len(upstream) BY <2>2
    <3>1. upstream # <<>> /\ upstream[1] \in Int
      <4>1. upstream[1] \in Seqs BY <2>2, <3>0
      <4>2. Len(<<>>) = 0 OBVIOUS
      <4>. QED  BY <3>0, <4>1, <4>2 DEF Seqs
    <3>2. upstream[i] = upstream[1] + (i - 1) /\ expected = upstream[1] + Len(upstream)
      BY <3>1 DEF RunInv, InOrderNoDup, RunEndsAtExpected
    <3>. QED  BY <2>1, <3>0, <3>1, <3>2
  <2>. QED  BY <2>1, <2>3
<1>. QED  BY <1>1, <1>2, RunInvInit, RunInvStep, TornStep, PTL DEF Spec

-----------------------------------------------------------------------------
(* Datagrams *)

Ascending(s) == \A i, j \in 1..Len(s) : i < j => s[i] < s[j]
AllBelow(S, T) == \A x \in S, y \in T : x < y

\* The elements of a queue.
LEMMA InSeqFacts ==
  ASSUME NEW s \in Seq(Nat)
  PROVE  /\ InSeq(s) \subseteq Nat
         /\ \A x : x \in InSeq(s) <=> \E i \in 1..Len(s) : s[i] = x
         /\ s = <<>> => InSeq(s) = {}
  BY DEF InSeq

\* A datagram at the end.
LEMMA AppendFacts ==
  ASSUME NEW s \in Seq(Nat), NEW x \in Nat
  PROVE  /\ Append(s, x) \in Seq(Nat) /\ InSeq(Append(s, x)) = InSeq(s) \union {x}
         /\ Ascending(s) /\ AllBelow(InSeq(s), {x}) => Ascending(Append(s, x))
<1> DEFINE t == Append(s, x)
<1>1. t \in Seq(Nat) /\ Len(t) = Len(s) + 1 /\ t[Len(s) + 1] = x /\ \A i \in 1..Len(s) : t[i] = s[i]
  BY AppendProperties
<1>2. Len(s) \in Nat OBVIOUS
<1> HIDE DEF t
<1>3. InSeq(t) = InSeq(s) \union {x}
  <2>1. ASSUME NEW y \in InSeq(t) PROVE y \in InSeq(s) \union {x}
    <3>1. PICK i \in 1..Len(t) : t[i] = y BY <1>1, InSeqFacts
    <3>2. i = Len(s) + 1 \/ i \in 1..Len(s) BY <1>1, <1>2
    <3>3. CASE i = Len(s) + 1 BY <1>1, <3>1, <3>3
    <3>4. CASE i \in 1..Len(s) BY <1>1, <3>1, <3>4, InSeqFacts
    <3> QED BY <3>2, <3>3, <3>4
  <2>2. x \in InSeq(t) BY <1>1, <1>2, InSeqFacts
  <2>3. ASSUME NEW y \in InSeq(s) PROVE y \in InSeq(t)
    <3>1. PICK i \in 1..Len(s) : s[i] = y BY InSeqFacts
    <3>2. i \in 1..Len(t) BY <1>1, <1>2
    <3> QED BY <1>1, <3>1, <3>2, InSeqFacts
  <2> QED BY <2>1, <2>2, <2>3
<1>4. ASSUME Ascending(s), AllBelow(InSeq(s), {x}) PROVE Ascending(t)
  <2>1. \A i \in 1..Len(s) : s[i] < x BY <1>4, InSeqFacts DEF AllBelow
  <2> SUFFICES ASSUME NEW i \in 1..Len(t), NEW j \in 1..Len(t), i < j PROVE t[i] < t[j]
    BY DEF Ascending
  <2>2. i \in 1..Len(s) /\ (j \in 1..Len(s) \/ j = Len(s) + 1) BY <1>1, <1>2
  <2> QED BY <1>1, <1>4, <2>1, <2>2 DEF Ascending
<1> QED BY <1>1, <1>3, <1>4 DEF t

\* Two queues one after the other.
LEMMA ConcatFacts ==
  ASSUME NEW s \in Seq(Nat), NEW u \in Seq(Nat)
  PROVE  /\ s \o u \in Seq(Nat) /\ InSeq(s \o u) = InSeq(s) \union InSeq(u)
         /\ Ascending(s) /\ Ascending(u) /\ AllBelow(InSeq(s), InSeq(u)) => Ascending(s \o u)
<1> DEFINE t == s \o u
<1>0. Len(s) \in Nat /\ Len(u) \in Nat OBVIOUS
<1>1. t \in Seq(Nat) /\ Len(t) = Len(s) + Len(u)
      /\ \A i \in 1..(Len(s) + Len(u)) : t[i] = IF i <= Len(s) THEN s[i] ELSE u[i - Len(s)]
  BY ConcatProperties
<1> HIDE DEF t
<1>2. /\ \A i \in 1..Len(s) : i \in 1..Len(t) /\ t[i] = s[i]
      /\ \A i \in 1..Len(u) : Len(s) + i \in 1..Len(t) /\ t[Len(s) + i] = u[i]
  <2>1. \A i \in 1..Len(s) : i \in 1..(Len(s) + Len(u)) /\ i <= Len(s) BY <1>0
  <2>2. \A i \in 1..Len(u) : /\ Len(s) + i \in 1..(Len(s) + Len(u)) /\ ~(Len(s) + i <= Len(s))
                             /\ (Len(s) + i) - Len(s) = i
    BY <1>0
  <2> QED BY <1>1, <2>1, <2>2
<1>3. InSeq(t) = InSeq(s) \union InSeq(u)
  <2>1. ASSUME NEW y \in InSeq(t) PROVE y \in InSeq(s) \union InSeq(u)
    <3>1. PICK i \in 1..Len(t) : t[i] = y BY <1>1, InSeqFacts
    <3>2. CASE i <= Len(s)
      <4>1. i \in 1..Len(s) /\ s[i] = y BY <1>0, <1>1, <1>2, <3>1, <3>2
      <4> QED BY <4>1, InSeqFacts
    <3>3. CASE i > Len(s)
      <4>1. i - Len(s) \in 1..Len(u) /\ u[i - Len(s)] = y BY <1>0, <1>1, <3>1, <3>3
      <4> QED BY <4>1, InSeqFacts
    <3> QED BY <1>0, <3>2, <3>3
  <2>2. ASSUME NEW y \in InSeq(s) PROVE y \in InSeq(t)
    <3>1. PICK i \in 1..Len(s) : s[i] = y BY InSeqFacts
    <3>2. i \in 1..Len(t) /\ t[i] = y BY <1>2, <3>1
    <3> QED BY <1>1, <3>2, InSeqFacts
  <2>3. ASSUME NEW y \in InSeq(u) PROVE y \in InSeq(t)
    <3>1. PICK i \in 1..Len(u) : u[i] = y BY InSeqFacts
    <3>2. Len(s) + i \in 1..Len(t) /\ t[Len(s) + i] = y BY <1>2, <3>1
    <3> QED BY <1>1, <3>2, InSeqFacts
  <2> QED BY <2>1, <2>2, <2>3
<1>4. ASSUME Ascending(s), Ascending(u), AllBelow(InSeq(s), InSeq(u)) PROVE Ascending(t)
  <2>1. \A i \in 1..Len(s), j \in 1..Len(u) : s[i] < u[j] BY <1>4, InSeqFacts DEF AllBelow
  <2> SUFFICES ASSUME NEW i \in 1..Len(t), NEW j \in 1..Len(t), i < j PROVE t[i] < t[j]
    BY DEF Ascending
  <2>2. CASE j <= Len(s)
    <3>1. i \in 1..Len(s) /\ j \in 1..Len(s) BY <1>0, <1>1, <2>2
    <3> QED BY <1>2, <1>4, <3>1 DEF Ascending
  <2>3. CASE i <= Len(s) /\ j > Len(s)
    <3>1. j - Len(s) \in 1..Len(u) /\ t[j] = u[j - Len(s)] /\ t[i] = s[i] BY <1>0, <1>1, <2>3
    <3> QED BY <1>0, <2>1, <2>3, <3>1
  <2>4. CASE i > Len(s)
    <3>0. /\ i - Len(s) \in 1..Len(u) /\ j - Len(s) \in 1..Len(u) /\ i - Len(s) < j - Len(s)
          /\ ~(i <= Len(s)) /\ ~(j <= Len(s))
      <4>1. /\ Len(s) \in Nat /\ Len(u) \in Nat /\ i > Len(s) /\ i < j
            /\ i \in 1..(Len(s) + Len(u)) /\ j \in 1..(Len(s) + Len(u))
        BY <1>0, <1>1, <2>4
      <4> QED BY <4>1
    <3>1. /\ i - Len(s) \in 1..Len(u) /\ j - Len(s) \in 1..Len(u) /\ i - Len(s) < j - Len(s)
          /\ t[i] = u[i - Len(s)] /\ t[j] = u[j - Len(s)]
      BY <1>1, <3>0
    <3> QED BY <1>4, <3>1 DEF Ascending
  <2> QED BY <1>0, <2>2, <2>3, <2>4
<1> QED BY <1>1, <1>3, <1>4 DEF t

\* The oldest taken away.
LEMMA TailFacts ==
  ASSUME NEW s \in Seq(Nat), s # <<>>, Ascending(s)
  PROVE  /\ Tail(s) \in Seq(Nat) /\ Ascending(Tail(s)) /\ Head(s) \in Nat
         /\ InSeq(s) = InSeq(Tail(s)) \union {Head(s)}
         /\ AllBelow({Head(s)}, InSeq(Tail(s)))
<1> DEFINE t == Tail(s)
<1>0. Len(s) \in Nat /\ Len(s) >= 1 OBVIOUS
<1>1. t \in Seq(Nat) /\ Len(t) = Len(s) - 1 /\ (\A i \in 1..Len(t) : t[i] = s[i + 1]) /\ Head(s) \in Nat
  BY HeadTailProperties
<1>2. Head(s) = s[1] BY <1>0
<1> HIDE DEF t
<1>3. InSeq(s) = InSeq(t) \union {s[1]}
  <2>1. ASSUME NEW y \in InSeq(s) PROVE y \in InSeq(t) \union {s[1]}
    <3>1. PICK i \in 1..Len(s) : s[i] = y BY InSeqFacts
    <3>2. CASE i = 1 BY <3>1, <3>2
    <3>3. CASE i # 1
      <4>1. i - 1 \in 1..Len(t) /\ t[i - 1] = y BY <1>0, <1>1, <3>1, <3>3
      <4> QED BY <1>1, <4>1, InSeqFacts
    <3> QED BY <3>2, <3>3
  <2>2. ASSUME NEW y \in InSeq(t) PROVE y \in InSeq(s)
    <3>1. PICK i \in 1..Len(t) : t[i] = y BY <1>1, InSeqFacts
    <3>2. i + 1 \in 1..Len(s) /\ s[i + 1] = y BY <1>0, <1>1, <3>1
    <3> QED BY <3>2, InSeqFacts
  <2>3. s[1] \in InSeq(s) BY <1>0, InSeqFacts
  <2> QED BY <2>1, <2>2, <2>3
<1>4. Ascending(t)
  <2> SUFFICES ASSUME NEW i \in 1..Len(t), NEW j \in 1..Len(t), i < j PROVE t[i] < t[j]
    BY DEF Ascending
  <2>1. i + 1 \in 1..Len(s) /\ j + 1 \in 1..Len(s) /\ i + 1 < j + 1 BY <1>0, <1>1
  <2> QED BY <1>1, <2>1 DEF Ascending
<1>5. ASSUME NEW y \in InSeq(t) PROVE s[1] < y
  <2>1. PICK i \in 1..Len(t) : t[i] = y BY <1>1, InSeqFacts
  <2>2. 1 \in 1..Len(s) /\ i + 1 \in 1..Len(s) /\ 1 < i + 1 /\ s[i + 1] = y BY <1>0, <1>1, <2>1
  <2> QED BY <2>2 DEF Ascending
<1> QED BY <1>1, <1>2, <1>3, <1>4, <1>5 DEF t, AllBelow

UdpTyped ==
  /\ got \in Nat /\ packets \in Seq(Nat) /\ answers \in Seq(Nat)
  /\ heldPkts \in [UBatches -> Seq(Nat)] /\ beof \in [UBatches -> BOOLEAN] /\ ueof \in BOOLEAN

\* Taken out, queued and dropped datagrams: who comes before whom.
UdpOrdered ==
  /\ Ascending(answers) /\ Ascending(packets)
  /\ AllBelow(InSeq(answers), InSeq(packets)) /\ AllBelow(drops, InSeq(packets))
  /\ 1..got = InSeq(answers) \union InSeq(packets) \union drops

\* What requests hold is theirs alone.
UdpHeld ==
  /\ lostPkts \subseteq InSeq(answers)
  /\ \A b \in UBatches : /\ InSeq(heldPkts[b]) \subseteq InSeq(answers) \ lostPkts
                         /\ \A c \in UBatches \ {b} : InSeq(heldPkts[b]) \intersect InSeq(heldPkts[c]) = {}

\* Nothing comes in after eof, so a drain that saw it emptied the queue for good.
UdpEof ==
  /\ ueof => rtask \in {"eofnotify", "over"}
  /\ \A b \in UBatches : beof[b] => ueof /\ packets = <<>>

UdpInv == UdpTyped /\ UdpOrdered /\ UdpHeld /\ UdpEof

\* No datagram yet.
LEMMA NodeUdpInitial == NodeUdpInit => UdpInv
<1> SUFFICES ASSUME NodeUdpInit PROVE UdpInv OBVIOUS
<1>1. <<>> \in Seq(Nat) /\ InSeq(<<>>) = {} /\ Ascending(<<>>) BY DEF InSeq, Ascending
<1>2. UdpTyped BY <1>1 DEF NodeUdpInit, UdpTyped
<1>3. UdpOrdered BY <1>1 DEF NodeUdpInit, UdpOrdered, AllBelow
<1>4. UdpHeld BY <1>1 DEF NodeUdpInit, UdpHeld
<1>5. UdpEof BY DEF NodeUdpInit, UdpEof
<1> QED BY <1>2, <1>3, <1>4, <1>5 DEF UdpInv

\* At the limit the oldest makes room; the new one is younger than all.
LEMMA ReceiveKeeps ==
  ASSUME UdpInv, UdpReceive
  PROVE  UdpInv'
<1> DEFINE q == MakeRoom(got + 1)[1]
           d == MakeRoom(got + 1)[2]
<1>1. /\ rtask = "recv" /\ got' = got + 1 /\ packets' = Append(q, got + 1)
      /\ drops' = drops \union ({d} \ {0}) /\ rtask' = "notify"
      /\ UNCHANGED <<ueof, heldPkts, beof, answers, lostPkts>>
  BY DEF UdpReceive, udpBatch, udpHistory
<1>2. /\ got \in Nat /\ packets \in Seq(Nat) /\ Ascending(packets)
      /\ AllBelow(InSeq(answers), InSeq(packets)) /\ AllBelow(drops, InSeq(packets))
      /\ 1..got = InSeq(answers) \union InSeq(packets) \union drops
  BY DEF UdpInv, UdpTyped, UdpOrdered
<1>3. /\ q \in Seq(Nat) /\ Ascending(q) /\ InSeq(packets) = InSeq(q) \union ({d} \ {0})
      /\ AllBelow({d} \ {0}, InSeq(q))
  <2>1. CASE Len(packets) >= UdpQueueLimit
    <3>1. packets # <<>> BY <1>2, <2>1, NodeUdpAssumption
    <3>2. q = Tail(packets) /\ d = Head(packets) BY <2>1 DEF MakeRoom
    <3> HIDE DEF q, d
    <3>3. /\ q \in Seq(Nat) /\ Ascending(q) /\ d \in Nat
          /\ InSeq(packets) = InSeq(q) \union {d} /\ AllBelow({d}, InSeq(q))
      BY <1>2, <3>1, <3>2, TailFacts
    <3>4. d # 0
      <4>1. d \in 1..got BY <1>2, <3>3
      <4> QED BY <1>2, <4>1
    <3> QED BY <3>3, <3>4
  <2>2. CASE ~(Len(packets) >= UdpQueueLimit)
    <3>1. q = packets /\ d = 0 BY <2>2 DEF MakeRoom
    <3> HIDE DEF q, d
    <3> QED BY <1>2, <3>1 DEF AllBelow
  <2> QED BY <2>1, <2>2
<1> HIDE DEF q, d
<1>4. got + 1 \in Nat /\ AllBelow(InSeq(q), {got + 1})
  <2>1. \A x \in InSeq(q) : x \in 1..got BY <1>2, <1>3
  <2> QED BY <1>2, <2>1 DEF AllBelow
<1>5. /\ packets' \in Seq(Nat) /\ Ascending(packets') /\ InSeq(packets') = InSeq(q) \union {got + 1}
  BY <1>1, <1>3, <1>4, AppendFacts
<1>6. UdpTyped' BY <1>1, <1>2, <1>5 DEF UdpInv, UdpTyped
<1>7. UdpOrdered'
  <2>1. \A x \in InSeq(answers) \union drops \union InSeq(packets) : x < got + 1
    <3>1. \A x \in InSeq(answers) \union drops \union InSeq(packets) : x \in 1..got BY <1>2
    <3> QED BY <1>2, <3>1
  <2>2. AllBelow(InSeq(answers), InSeq(packets')) BY <1>2, <1>3, <1>5, <2>1 DEF AllBelow
  <2>3. AllBelow(drops', InSeq(packets')) BY <1>1, <1>2, <1>3, <1>5, <2>1 DEF AllBelow
  <2>4. 1..(got + 1) = (1..got) \union {got + 1} BY <1>2
  <2>5. 1..got' = InSeq(answers') \union InSeq(packets') \union drops'
    BY <1>1, <1>2, <1>3, <1>5, <2>4
  <2>6. Ascending(answers') BY <1>1 DEF UdpInv, UdpOrdered
  <2> QED BY <1>1, <1>5, <2>2, <2>3, <2>5, <2>6 DEF UdpOrdered
<1>8. UdpHeld' BY <1>1 DEF UdpInv, UdpHeld
<1>9. UdpEof' BY <1>1 DEF UdpInv, UdpEof
<1> QED BY <1>6, <1>7, <1>8, <1>9 DEF UdpInv

\* A drain takes the whole queue.
LEMMA DrainKeeps ==
  ASSUME UdpInv, NEW b \in UBatches, UdpDrain(b)
  PROVE  UdpInv'
<1>1. /\ heldPkts' = [heldPkts EXCEPT ![b] = packets]
      /\ packets' = SubSeq(packets, Len(packets) + 1, Len(packets))
      /\ beof' = [beof EXCEPT ![b] = ueof] /\ answers' = answers \o packets
      /\ UNCHANGED <<got, drops, ueof, rtask, lostPkts>>
  BY DEF UdpDrain, drain_udp_now
<1>2. /\ got \in Nat /\ packets \in Seq(Nat) /\ answers \in Seq(Nat)
      /\ heldPkts \in [UBatches -> Seq(Nat)] /\ beof \in [UBatches -> BOOLEAN] /\ ueof \in BOOLEAN
  BY DEF UdpInv, UdpTyped
<1>3. packets' = <<>>
  <2>1. Len(packets) \in Int /\ Len(packets) + 1 \in Int /\ Len(packets) < Len(packets) + 1 BY <1>2
  <2> QED BY <1>1, <2>1, SubSeqEmpty
<1>4. packets' \in Seq(Nat) /\ InSeq(packets') = {} /\ Ascending(packets')
  BY <1>3 DEF InSeq, Ascending
<1>5. answers' \in Seq(Nat) /\ InSeq(answers') = InSeq(answers) \union InSeq(packets) /\ Ascending(answers')
  BY <1>1, <1>2, ConcatFacts DEF UdpInv, UdpOrdered
<1>6. UdpTyped' BY <1>1, <1>2, <1>4, <1>5 DEF UdpTyped
<1>7. UdpOrdered' BY <1>1, <1>4, <1>5 DEF UdpInv, UdpOrdered, AllBelow
<1>8. InSeq(answers) \intersect InSeq(packets) = {}
  <2>1. \A x \in InSeq(packets) : x \in Nat BY <1>2, InSeqFacts
  <2> QED BY <2>1 DEF UdpInv, UdpOrdered, AllBelow
<1>9. UdpHeld' BY <1>1, <1>2, <1>5, <1>8 DEF UdpInv, UdpHeld
<1>10. UdpEof' BY <1>1, <1>2, <1>3 DEF UdpInv, UdpEof
<1> QED BY <1>6, <1>7, <1>9, <1>10 DEF UdpInv

\* The end of a request: what it held was answered, or is lost with it.
LEMMA RequestEndKeeps ==
  ASSUME UdpInv, NEW b \in UBatches, UdpRespond(b) \/ UdpCancel(b) \/ UdpBatchAgain(b)
  PROVE  UdpInv'
<1>1. /\ UNCHANGED <<packets, got, drops, ueof, answers>>
      /\ beof' \in {beof, [beof EXCEPT ![b] = FALSE]}
      /\ rtask' \in {rtask, "over"}
      /\ \/ UNCHANGED <<heldPkts, lostPkts>>
         \/ /\ heldPkts' = [heldPkts EXCEPT ![b] = <<>>]
            /\ lostPkts' \in {lostPkts, lostPkts \union InSeq(heldPkts[b])}
  BY DEF UdpRespond, UdpCancel, UdpBatchAgain, udpSession, udpHistory, InSeq
<1>2. <<>> \in Seq(Nat) /\ InSeq(<<>>) = {} BY DEF InSeq
<1>3. UdpTyped' BY <1>1, <1>2 DEF UdpInv, UdpTyped
<1>4. UdpOrdered' BY <1>1 DEF UdpInv, UdpOrdered
<1>5. UdpHeld' BY <1>1, <1>2 DEF UdpInv, UdpTyped, UdpHeld
<1>6. UdpEof' BY <1>1 DEF UdpInv, UdpTyped, UdpEof
<1> QED BY <1>3, <1>4, <1>5, <1>6 DEF UdpInv

\* The other steps move notifications, watchers, the reader and the clock.
LEMMA UdpQuietKeeps ==
  ASSUME UdpInv,
         \/ UdpRecvError \/ UdpNotify \/ UdpClose \/ UdpTick
         \/ \E b \in UBatches : UdpLookup(b) \/ UdpWatch(b) \/ UdpWatcherChecks(b) \/ UdpWaitOver(b)
  PROVE  UdpInv'
<1>1. /\ UNCHANGED <<packets, got, drops, heldPkts, beof, answers, lostPkts>>
      /\ \/ ueof' = TRUE /\ rtask' = "eofnotify"
         \/ UNCHANGED ueof /\ (rtask \in {"eofnotify", "over"} => rtask' \in {"eofnotify", "over"})
  BY DEF UdpRecvError, UdpNotify, UdpClose, UdpTick, UdpLookup, UdpWatch, UdpWatcherChecks, UdpWaitOver,
         udpSession, udpBatch, udpHistory
<1>2. UdpTyped' BY <1>1 DEF UdpInv, UdpTyped
<1>3. UdpOrdered' BY <1>1 DEF UdpInv, UdpOrdered
<1>4. UdpHeld' BY <1>1 DEF UdpInv, UdpHeld
<1>5. UdpEof' BY <1>1 DEF UdpInv, UdpEof
<1> QED BY <1>2, <1>3, <1>4, <1>5 DEF UdpInv

\* Every step of a UDP session.
LEMMA NodeUdpStep == UdpInv /\ [NodeUdpNext]_nudpvars => UdpInv'
<1> SUFFICES ASSUME UdpInv, [NodeUdpNext]_nudpvars PROVE UdpInv'
  OBVIOUS
<1>1. CASE UNCHANGED nudpvars
  BY <1>1 DEF nudpvars, UdpInv, UdpTyped, UdpOrdered, UdpHeld, UdpEof
<1>2. CASE NodeUdpNext
  BY <1>2, ReceiveKeeps, DrainKeeps, RequestEndKeeps, UdpQuietKeeps DEF NodeUdpNext
<1> QED BY <1>1, <1>2

\* For every capacity of the packet queue and any number of requests, datagrams
\* leave in order and once; each was taken out, is queued, or was dropped as the
\* oldest of a full queue; and a drain that reports eof leaves nothing behind.
THEOREM EveryDatagramAccounted == NodeUdpSpec => []DatagramsAccounted
<1>1. UdpInv => DatagramsAccounted
  <2> SUFFICES ASSUME UdpInv PROVE DatagramsAccounted OBVIOUS
  <2>1. \A j \in 1..(Len(answers) - 1) : answers[j] < answers[j + 1]
    <3>1. Len(answers) \in Nat BY DEF UdpInv, UdpTyped
    <3>2. \A j \in 1..(Len(answers) - 1) : j \in 1..Len(answers) /\ j + 1 \in 1..Len(answers) /\ j < j + 1
      BY <3>1
    <3> QED BY <3>2 DEF UdpInv, UdpOrdered, Ascending
  <2> QED BY <2>1 DEF UdpInv, UdpOrdered, UdpHeld, UdpEof, AllBelow, DatagramsAccounted
<1> QED BY <1>1, NodeUdpInitial, NodeUdpStep, PTL DEF NodeUdpSpec
=============================================================================
