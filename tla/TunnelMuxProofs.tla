-------------------------- MODULE TunnelMuxProofs ---------------------------
(***************************************************************************)
(* The client side of the tunnel around the session loop: mux_loop with    *)
(* its batches, the elevated sessions and the set-up of a session.         *)
(*                                                                         *)
(* Index alignment works until a response budget runs out: the invariant   *)
(* says that every entry of data_replies points at its own op, in the      *)
(* accumulator and in every batch in flight. The caps rest on the running  *)
(* size of the accumulator being the sum of what it holds.  That permits   *)
(* come back, and that every op is answered once, rests on an op being at  *)
(* one place at a time on its way through mux_loop.                        *)
(***************************************************************************)
EXTENDS TunnelMux, Elevation, SessionOpen, SequenceTheorems, SumTheorems

(* Replies *)

\* Every entry of rs points at its op in s.
Aligned(s, rs) ==
    \A e \in rs : e.idx \in 1..Len(s) /\ s[e.idx].id = e.id

MsgsTyped ==
    /\ sent \in Nat
    /\ queue \in Seq(Msg) /\ window \in Seq(Msg) /\ closes \in Seq(Msg) /\ ops \in Seq(Msg)

TripsAligned == \A b \in batches : b.ops \in Seq(Msg) /\ Aligned(b.ops, b.replies)

AnswersOwn == batchCuts = 0 => answer = [i \in Ids |-> answer[i]] /\ ReplyMatchesOp

AlignInv ==
    /\ MsgsTyped
    /\ Aligned(ops, replies)
    /\ TripsAligned
    /\ AnswersOwn
    /\ batchCuts \in Nat

-----------------------------------------------------------------------------
\* A full answer keeps the indices: position k holds op k.
LEMMA AnswerAtFull ==
    ASSUME NEW n \in Nat, NEW k \in 1..n
    PROVE  AnswerAt(n, {}, k) = {k}
<1>1. ASSUME NEW j \in 1..n
      PROVE  Cardinality({i \in (1..n) \ {} : i <= j}) = j
    <2>1. {i \in (1..n) \ {} : i <= j} = 1..j
        OBVIOUS
    <2>2. Cardinality(1..j) = j
        BY FS_Interval
    <2> QED BY <2>1, <2>2
<1> QED BY <1>1 DEF AnswerAt

\* An aligned entry of a full answer finds its own op.
LEMMA ReplyForOwn ==
    ASSUME NEW b, b.ops \in Seq(Msg), Aligned(b.ops, b.replies), NEW e \in b.replies
    PROVE  ReplyFor(b, {}, e.idx) = e.id
<1>1. Len(b.ops) \in Nat /\ e.idx \in 1..Len(b.ops) /\ b.ops[e.idx].id = e.id
    BY LenProperties DEF Aligned
<1>2. AnswerAt(Len(b.ops), {}, e.idx) = {e.idx}
    BY <1>1, AnswerAtFull
<1> QED BY <1>1, <1>2 DEF ReplyFor

\* Ops added at the end leave the earlier indices alone.
LEMMA AlignedExtend ==
    ASSUME NEW s \in Seq(Msg), NEW t \in Seq(Msg), NEW rs, Aligned(s, rs)
    PROVE  s \o t \in Seq(Msg) /\ Aligned(s \o t, rs)
<1>1. /\ s \o t \in Seq(Msg)
      /\ Len(s \o t) = Len(s) + Len(t)
      /\ \A i \in 1..Len(s) : (s \o t)[i] = s[i]
    BY ConcatProperties
<1>2. Len(s) \in Nat /\ Len(t) \in Nat
    BY LenProperties
<1> QED BY <1>1, <1>2 DEF Aligned

\* An op at the end, with its index.
LEMMA AlignedAppend ==
    ASSUME NEW s \in Seq(Msg), NEW m \in Msg, NEW rs, Aligned(s, rs)
    PROVE  /\ Append(s, m) \in Seq(Msg)
           /\ Aligned(Append(s, m), rs \cup {[idx |-> Len(s) + 1, id |-> m.id]})
<1>1. /\ Append(s, m) \in Seq(Msg)
      /\ Len(Append(s, m)) = Len(s) + 1
      /\ \A i \in 1..Len(s) : Append(s, m)[i] = s[i]
      /\ Append(s, m)[Len(s) + 1] = m
    BY AppendProperties
<1>2. Len(s) \in Nat
    BY LenProperties
<1> QED BY <1>1, <1>2 DEF Aligned
-----------------------------------------------------------------------------

\* No op is accumulated.
LEMMA AlignInit == MuxInit => AlignInv
BY EmptySeq DEF MuxInit, AlignInv, MsgsTyped, Aligned, TripsAligned, AnswersOwn, ReplyMatchesOp

\* A step that leaves the accumulator and the batches alone.
LEMMA AlignFrame ==
    ASSUME AlignInv, MsgsTyped', AnswersOwn', UNCHANGED <<ops, replies, batches, batchCuts>>
    PROVE  AlignInv'
BY DEF AlignInv, Aligned, TripsAligned

\* Nothing is answered in the step.
LEMMA AnswerFrame ==
    ASSUME AnswersOwn, UNCHANGED <<answer, batchCuts>>
    PROVE  AnswersOwn'
BY DEF AnswersOwn, ReplyMatchesOp

\* The steps of the mux task.
LEMMA AlignMuxStep ==
    ASSUME AlignInv, MuxStep
    PROVE  AlignInv'
<1> USE DEF accum, mux, flight
<1>0. MsgsTyped /\ AnswersOwn
    BY DEF AlignInv
<1>1. CASE Recv
    <2>1. Head(queue) \in Msg /\ Tail(queue) \in Seq(Msg)
        BY <1>0, <1>1, HeadTailProperties DEF Recv, MsgsTyped
    <2>2. MsgsTyped'
        BY <1>0, <1>1, <2>1 DEF Recv, MsgsTyped
    <2> QED BY <1>0, <1>1, <2>2, AlignFrame, AnswerFrame DEF Recv
<1>2. CASE Coalesce
    <2>1. Head(queue) \in Msg /\ Tail(queue) \in Seq(Msg)
        BY <1>0, <1>2, HeadTailProperties DEF Coalesce, MsgsTyped
    <2>2. MsgsTyped'
        BY <1>0, <1>2, <2>1, AppendProperties DEF Coalesce, MsgsTyped
    <2> QED BY <1>0, <1>2, <2>2, AlignFrame, AnswerFrame DEF Coalesce
<1>3. CASE Deadline
    BY <1>0, <1>3, AlignFrame, AnswerFrame DEF Deadline, MsgsTyped
<1>4. ASSUME Splitting PROVE Head(window) \in Msg /\ Tail(window) \in Seq(Msg)
    BY <1>0, <1>4, HeadTailProperties DEF Splitting, MsgsTyped
<1>5. CASE SplitConnect
    <2>1. MsgsTyped'
        BY <1>0, <1>4, <1>5 DEF SplitConnect, MsgsTyped
    <2> QED BY <1>0, <1>5, <2>1, AlignFrame, AnswerFrame DEF SplitConnect
<1>6. CASE SplitClose
    <2>1. MsgsTyped'
        BY <1>0, <1>4, <1>6, AppendProperties DEF SplitClose, MsgsTyped
    <2> QED BY <1>0, <1>6, <2>1, AlignFrame, AnswerFrame DEF SplitClose
<1>7. CASE SplitFire
    BY <1>0, <1>7, AlignFrame, AnswerFrame DEF SplitFire, MsgsTyped
<1>8. CASE SplitPush
    <2>1. ops' \in Seq(Msg) /\ Aligned(ops', replies')
        BY <1>0, <1>4, <1>8, AlignedAppend DEF SplitPush, AlignInv, MsgsTyped
    <2>2. MsgsTyped'
        BY <1>0, <1>4, <1>8, <2>1 DEF SplitPush, MsgsTyped
    <2>3. Aligned(ops, replies)'
        BY <2>1 DEF Aligned
    <2>4. TripsAligned'
        BY <1>8 DEF SplitPush, AlignInv, TripsAligned, Aligned
    <2> QED BY <1>0, <1>8, <2>2, <2>3, <2>4, AnswerFrame DEF SplitPush, AlignInv
<1>9. CASE SplitEnd
    <2>1. ops' \in Seq(Msg) /\ Aligned(ops', replies')
        BY <1>0, <1>9, AlignedExtend DEF SplitEnd, AlignInv, MsgsTyped
    <2>2. MsgsTyped'
        BY <1>0, <1>9, <2>1, EmptySeq DEF SplitEnd, MsgsTyped
    <2>3. Aligned(ops, replies)'
        BY <2>1 DEF Aligned
    <2>4. TripsAligned'
        BY <1>9 DEF SplitEnd, AlignInv, TripsAligned, Aligned
    <2> QED BY <1>0, <1>9, <2>2, <2>3, <2>4, AnswerFrame DEF SplitEnd, AlignInv
<1>10. CASE Acquire
    <2>1. MsgsTyped'
        BY <1>0, <1>10, EmptySeq DEF Acquire, MsgsTyped
    <2>2. Aligned(ops, replies)'
        BY <1>10 DEF Acquire, Aligned
    <2>3. TripsAligned'
        BY <1>0, <1>10 DEF Acquire, AlignInv, MsgsTyped, TripsAligned, Aligned
    <2> QED BY <1>0, <1>10, <2>1, <2>2, <2>3, AnswerFrame DEF Acquire, AlignInv
<1> QED BY <1>1, <1>2, <1>3, <1>5, <1>6, <1>7, <1>8, <1>9, <1>10 DEF MuxStep

\* A round trip that is over: only the answers can change for the worse.
LEMMA AlignFinish ==
    ASSUME AlignInv, NEW b \in batches, Finish(b), AnswersOwn', batchCuts' \in Nat
    PROVE  AlignInv'
<1> USE DEF accum, mux
<1>1. MsgsTyped'
    BY DEF Finish, AlignInv, MsgsTyped
<1>2. Aligned(ops, replies)' /\ TripsAligned'
    BY DEF Finish, AlignInv, Aligned, TripsAligned
<1> QED BY <1>1, <1>2 DEF AlignInv

\* The replies of a complete answer reach their own ops.
LEMMA AlignBatchOk ==
    ASSUME AlignInv, NEW b \in batches, BatchOk(b)
    PROVE  AlignInv'
<1>1. b.ops \in Seq(Msg) /\ Aligned(b.ops, b.replies)
    BY DEF AlignInv, TripsAligned
<1>2. answer' = [i \in Ids |->
                   IF \E e \in b.replies : e.id = i
                   THEN ReplyFor(b, {}, (CHOOSE e \in b.replies : e.id = i).idx)
                   ELSE answer[i]]
    BY DEF BatchOk, Distribute
<1>3. ASSUME NEW i \in Ids, \E e \in b.replies : e.id = i
      PROVE  answer'[i] = i
    <2> DEFINE c == CHOOSE e \in b.replies : e.id = i
    <2>1. c \in b.replies /\ c.id = i
        BY <1>3
    <2>2. ReplyFor(b, {}, c.idx) = c.id
        BY <1>1, <2>1, ReplyForOwn
    <2> QED BY <1>2, <1>3, <2>1, <2>2
<1>4. ASSUME NEW i \in Ids, ~ \E e \in b.replies : e.id = i
      PROVE  answer'[i] = answer[i]
    BY <1>2, <1>4
<1>5. batchCuts' = batchCuts
    BY Zenon DEF BatchOk
<1>6. batchCuts = 0 => ReplyMatchesOp'
    BY <1>3, <1>4 DEF AlignInv, AnswersOwn, ReplyMatchesOp
<1>7. AnswersOwn'
    BY <1>2, <1>5, <1>6 DEF AnswersOwn
<1> QED BY <1>7, AlignFinish DEF BatchOk, AlignInv

\* A round trip that failed answers every op with an error.
LEMMA AlignBatchFails ==
    ASSUME AlignInv, NEW b \in batches, BatchFails(b)
    PROVE  AlignInv'
<1>0. ASSUME NEW k PROVE ReplyFor(b, DOMAIN b.ops, k) = Failed
    <2>1. DOMAIN b.ops = 1..Len(b.ops)
        BY LenProperties DEF AlignInv, TripsAligned
    <2> QED BY <2>1 DEF ReplyFor, AnswerAt
<1>1. answer' = [i \in Ids |-> IF \E e \in b.replies : e.id = i THEN Failed ELSE answer[i]]
    BY <1>0 DEF BatchFails, Distribute
<1>2. batchCuts' = batchCuts
    BY Zenon DEF BatchFails
<1>3. batchCuts = 0 => ReplyMatchesOp'
    BY <1>1 DEF AlignInv, AnswersOwn, ReplyMatchesOp
<1>4. AnswersOwn'
    BY <1>1, <1>2, <1>3 DEF AnswersOwn
<1> QED BY <1>4, AlignFinish DEF BatchFails, AlignInv

\* Every step.
LEMMA AlignStep ==
    ASSUME AlignInv, [MuxNext]_muxVars
    PROVE  AlignInv'
<1> USE DEF accum, mux, flight
<1>0. MsgsTyped /\ AnswersOwn
    BY DEF AlignInv
<1>1. ASSUME NEW k \in Kinds, NEW z \in Sizes, SendMsg(k, z) PROVE AlignInv'
    <2>1. [id |-> sent + 1, kind |-> k, size |-> z] \in Msg /\ sent + 1 \in Nat
        BY <1>0, <1>1, MuxAssumption DEF SendMsg, MsgsTyped, Msg, Ids
    <2>2. MsgsTyped'
        BY <1>0, <1>1, <2>1, AppendProperties DEF SendMsg, MsgsTyped
    <2> QED BY <1>0, <1>1, <2>2, AlignFrame, AnswerFrame DEF SendMsg
<1>2. ASSUME NEW b \in batches, BatchOk(b) \/ BatchCut(b) \/ BatchFails(b) PROVE AlignInv'
    <2>1. CASE BatchCut(b)
        <3>1. Finish(b) /\ batchCuts' = batchCuts + 1
            BY <2>1, Zenon DEF BatchCut
        <3>2. batchCuts' \in Nat /\ batchCuts' # 0
            BY <3>1 DEF AlignInv
        <3>3. AnswersOwn'
            BY <3>2 DEF AnswersOwn
        <3> QED BY <3>1, <3>2, <3>3, AlignFinish
    <2> QED BY <1>2, <2>1, AlignBatchOk, AlignBatchFails
<1>3. ASSUME NEW i \in Ids, ConnectDone(i) PROVE AlignInv'
    <2>1. AnswersOwn'
        BY <1>0, <1>3 DEF ConnectDone, AnswersOwn, ReplyMatchesOp
    <2>2. MsgsTyped'
        BY <1>0, <1>3 DEF ConnectDone, MsgsTyped
    <2> QED BY <1>3, <2>1, <2>2, AlignFrame DEF ConnectDone
<1>4. CASE UNCHANGED muxVars
    BY <1>0, <1>4, AlignFrame, AnswerFrame DEF muxVars, MsgsTyped
<1> QED BY <1>1, <1>2, <1>3, <1>4, AlignMuxStep DEF MuxNext

\* Until a batch uses up the node's response budget, an op is answered with the
\* response made for it, whatever the caps, the order in which batches finish and the
\* closes that ride along.
THEOREM RepliesAligned == MuxSpec => []OwnReplyWithinBudget
<1>1. MuxInit => AlignInv
    BY AlignInit
<1>2. AlignInv /\ [MuxNext]_muxVars => AlignInv'
    BY AlignStep
<1>3. AlignInv => OwnReplyWithinBudget
    BY DEF AlignInv, AnswersOwn, OwnReplyWithinBudget
<1> QED BY <1>1, <1>2, <1>3, PTL DEF MuxSpec

-----------------------------------------------------------------------------
(* Caps of a batch *)

Weights(s) == [i \in DOMAIN s |-> Weight(s[i])]

\* Sizes are naturals.
LEMMA SizeNat == ASSUME NEW m \in Msg PROVE m.size \in Nat /\ Weight(m) \in Nat
<1>1. m.size \in Sizes
    BY DEF Msg
<1>2. m.size \in Nat
    BY <1>1, MuxAssumption
<1> QED BY <1>2 DEF Weight

\* The weights of a batch are naturals over a finite set of indices.
LEMMA WeightsNat ==
    ASSUME NEW s \in Seq(Msg)
    PROVE  /\ DOMAIN s = 1..Len(s) /\ Len(s) \in Nat /\ IsFiniteSet(1..Len(s))
           /\ \A i \in 1..Len(s) : Weights(s)[i] = Weight(s[i]) /\ Weights(s)[i] \in Nat
           /\ BatchBytes(s) = SumFunctionOnSet(Weights(s), 1..Len(s))
<1>1. DOMAIN s = 1..Len(s) /\ Len(s) \in Nat
    BY LenProperties
<1>2. IsFiniteSet(1..Len(s))
    BY <1>1, FS_Interval
<1>3. ASSUME NEW i \in 1..Len(s) PROVE Weight(s[i]) \in Nat
    BY <1>1, SizeNat
<1> QED BY <1>1, <1>2, <1>3 DEF Weights, BatchBytes

\* An empty batch has no payload.
LEMMA BytesNone == BatchBytes(<<>>) = 0
<1>1. <<>> \in Seq(Msg) /\ Len(<<>>) = 0 /\ 1..0 = {}
    BY EmptySeq
<1> QED BY <1>1, WeightsNat, SumZero

\* What has no payload adds none; with n + 1 = Len the last op adds its weight.
LEMMA BytesConcat ==
    ASSUME NEW s \in Seq(Msg), NEW t \in Seq(Msg)
    PROVE  BatchBytes(s \o t) =
             BatchBytes(s) + SumFunctionOnSet(Weights(s \o t), (1..Len(s \o t)) \ (1..Len(s)))
<1> DEFINE r == s \o t
<1>1. r \in Seq(Msg) /\ Len(r) = Len(s) + Len(t) /\ \A i \in 1..Len(s) : r[i] = s[i]
    BY ConcatProperties
<1> HIDE DEF r
<1>2. Len(s) \in Nat /\ Len(t) \in Nat
    BY LenProperties
<1>3. 1..Len(s) \in SUBSET (1..Len(r))
    BY <1>1, <1>2
<1>4. BatchBytes(r) = SumFunctionOnSet(Weights(r), 1..Len(s))
                        + SumFunctionOnSet(Weights(r), (1..Len(r)) \ (1..Len(s)))
  <2> DEFINE f == Weights(r)
             S == 1..Len(r)
             A == 1..Len(s)
  <2>1. IsFiniteSet(S) /\ (\A i \in S : f[i] \in Nat) /\ BatchBytes(r) = SumFunctionOnSet(f, S)
    BY <1>1, WeightsNat
  <2>2. A \in SUBSET S
    BY <1>3
  <2> HIDE DEF f, S, A
  <2>3. SumFunctionOnSet(f, S) = SumFunctionOnSet(f, A) + SumFunctionOnSet(f, S \ A)
    BY <2>1, <2>2, SumSplit
  <2> QED BY <2>1, <2>3 DEF f, S, A
<1>5. \A i \in 1..Len(s) : Weights(s)[i] \in Nat /\ Weights(r)[i] = Weights(s)[i]
    BY <1>1, <1>3, WeightsNat
<1>6. SumFunctionOnSet(Weights(s), 1..Len(s)) = SumFunctionOnSet(Weights(r), 1..Len(s))
    BY <1>5, WeightsNat, SumSame
<1> QED BY <1>4, <1>6, WeightsNat DEF r

\* Closes carry no payload.
LEMMA BytesCloses ==
    ASSUME NEW s \in Seq(Msg), NEW t \in Seq(Msg), \A i \in 1..Len(t) : ~Batched(t[i])
    PROVE  BatchBytes(s \o t) = BatchBytes(s)
<1> DEFINE r == s \o t
           Rest == (1..Len(r)) \ (1..Len(s))
<1>1. /\ r \in Seq(Msg) /\ Len(r) = Len(s) + Len(t)
      /\ \A i \in Len(s) + 1..Len(s) + Len(t) : r[i] = t[i - Len(s)]
    BY ConcatProperties
<1>2. Len(s) \in Nat /\ Len(t) \in Nat
    BY LenProperties
<1>3. BatchBytes(r) = BatchBytes(s) + SumFunctionOnSet(Weights(r), Rest)
    BY BytesConcat
<1> HIDE DEF r
<1>4. ASSUME NEW i \in Rest PROVE Weights(r)[i] = 0
    <2>1. i \in Len(s) + 1..Len(s) + Len(t) /\ i - Len(s) \in 1..Len(t) /\ i \in 1..Len(r)
        BY <1>1, <1>2
    <2>2. ~Batched(r[i])
        BY <1>1, <2>1
    <2> QED BY <1>1, <2>1, <2>2, WeightsNat DEF Weight
<1>5. IsFiniteSet(Rest)
    BY <1>1, WeightsNat, FS_Subset
<1>6. SumFunctionOnSet(Weights(r), Rest) = 0
    <2> HIDE DEF Rest
    <2> QED BY <1>4, <1>5, SumZero
<1>7. BatchBytes(s) \in Nat
    BY WeightsNat, SumRecursion
<1> QED BY <1>3, <1>6, <1>7 DEF r

\* An op adds its payload.
LEMMA BytesAppend ==
    ASSUME NEW s \in Seq(Msg), NEW m \in Msg, Batched(m)
    PROVE  BatchBytes(Append(s, m)) = BatchBytes(s) + m.size
<1> DEFINE r == Append(s, m)
           n == Len(s) + 1
<1>1. /\ r \in Seq(Msg) /\ Len(r) = n /\ r[n] = m /\ \A i \in 1..Len(s) : r[i] = s[i]
    BY AppendProperties
<1>0. Len(s) \in Nat /\ m.size \in Nat
    BY LenProperties, SizeNat
<1>2. n \in 1..n /\ (1..n) \ {n} = 1..Len(s) /\ \A i \in 1..Len(s) : i \in 1..n
    BY <1>0
<1> HIDE DEF r, n
<1>3. SumFunctionOnSet(Weights(r), 1..n)
        = Weights(r)[n] + SumFunctionOnSet(Weights(r), (1..n) \ {n})
    <2>1. IsFiniteSet(1..n) /\ \A i \in 1..n : Weights(r)[i] \in Nat
        BY <1>1, WeightsNat
    <2> QED BY <1>2, <2>1, SumRemove
<1>4. Weights(r)[n] = m.size
    BY <1>1, <1>2, WeightsNat DEF Weight
<1>5. \A i \in 1..Len(s) : Weights(s)[i] \in Nat /\ Weights(r)[i] = Weights(s)[i]
    BY <1>1, <1>2, WeightsNat
<1>6. SumFunctionOnSet(Weights(s), 1..Len(s)) = SumFunctionOnSet(Weights(r), 1..Len(s))
    BY <1>5, WeightsNat, SumSame
<1>7. BatchBytes(s) \in Nat
    BY WeightsNat, SumRecursion
<1>8. BatchBytes(r) = m.size + BatchBytes(s)
    BY <1>1, <1>2, <1>3, <1>4, <1>6, WeightsNat
<1> QED BY <1>0, <1>7, <1>8 DEF r

-----------------------------------------------------------------------------
\* The accumulator: the running size is the sum of the ops it holds, and data_replies
\* is no longer than pending_ops, which closes extend only when the batch goes out.
AccumInv ==
    /\ payload \in Nat /\ payload = BatchBytes(ops)
    /\ \A i \in 1..Len(closes) : ~Batched(closes[i])
    /\ IsFiniteSet(replies) /\ Cardinality(replies) <= Len(ops)
    /\ mpc # "acquire" => Len(ops) <= MaxBatchOps
    /\ Cardinality(replies) <= MaxBatchOps
    /\ Cardinality(replies) > 1 => payload <= MaxPayload

CapsInv == MsgsTyped /\ AccumInv /\ BatchWithinCaps

\* The accumulator starts empty, with no batch in flight.
LEMMA CapsInit == MuxInit => AccumInv /\ BatchWithinCaps
<1>1. Cardinality({}) = 0 /\ IsFiniteSet({}) /\ Len(<<>>) = 0
    BY FS_EmptySet
<1> QED BY <1>1, BytesNone, MuxAssumption DEF MuxInit, AccumInv, BatchWithinCaps

\* A step that leaves the accumulator alone.
LEMMA AccumFrame ==
    ASSUME AccumInv, UNCHANGED <<ops, replies, payload, closes, mpc>>
    PROVE  AccumInv'
BY DEF AccumInv, BatchBytes, Weight, Batched

\* A step that adds no batch.
LEMMA TripsFrame ==
    ASSUME BatchWithinCaps, batches' \subseteq batches
    PROVE  BatchWithinCaps'
BY DEF BatchWithinCaps, BatchBytes, Weight, Batched

\* An op joins the batch: should_fire was asked before.
LEMMA CapsPush ==
    ASSUME CapsInv, SplitPush
    PROVE  AccumInv'
<1> USE DEF accum
<1> DEFINE m == Head(window)
           e == [idx |-> Len(ops) + 1, id |-> m.id]
<1>0. m \in Msg /\ Batched(m) /\ ops \in Seq(Msg)
    BY HeadTailProperties DEF CapsInv, MsgsTyped, SplitPush, Splitting
<1>1. m \in Msg /\ Batched(m) /\ ops \in Seq(Msg) /\ Len(ops) \in Nat /\ m.size \in Nat
    BY <1>0, LenProperties, SizeNat
<1>2. /\ ops' = Append(ops, m) /\ payload' = payload + m.size /\ closes' = closes
      /\ mpc' = mpc /\ mpc = "split" /\ ~ShouldFire(m.size)
      /\ replies' = replies \cup {e}
    BY DEF SplitPush, Splitting
<1> HIDE DEF m, e
<1>3. BatchBytes(Append(ops, m)) = BatchBytes(ops) + m.size
    BY <1>1, BytesAppend
<1>4. payload' = BatchBytes(ops') /\ payload' \in Nat
    BY <1>1, <1>2, <1>3 DEF CapsInv, AccumInv
<1>5. Len(ops') = Len(ops) + 1
    BY <1>1, <1>2, AppendProperties
<1>6. /\ IsFiniteSet(replies') /\ Cardinality(replies') \in Nat /\ Cardinality(replies) \in Nat
      /\ Cardinality(replies') <= Cardinality(replies) + 1
    <2>1. IsFiniteSet(replies)
        BY DEF CapsInv, AccumInv
    <2>2. Cardinality(replies) \in Nat
        BY <2>1, FS_CardinalityType
    <2>3. IsFiniteSet(replies') /\ (Cardinality(replies') = Cardinality(replies)
                                    \/ Cardinality(replies') = Cardinality(replies) + 1)
        BY <1>2, <2>1, FS_AddElement
    <2> QED BY <2>2, <2>3
<1>7. Len(ops') <= MaxBatchOps
    BY <1>1, <1>2, <1>5, MuxAssumption DEF ShouldFire
<1>8. Cardinality(replies) <= Len(ops)
    BY DEF CapsInv, AccumInv
<1>9. Cardinality(replies') <= Len(ops') /\ Cardinality(replies') <= MaxBatchOps
    BY <1>1, <1>5, <1>6, <1>7, <1>8, MuxAssumption
<1>10. ASSUME Cardinality(replies') > 1 PROVE payload' <= MaxPayload
    <2>1. Len(ops) > 0
        BY <1>1, <1>6, <1>8, <1>10
    <2>2. ~(payload + m.size > MaxPayload)
        BY <1>2, <2>1 DEF ShouldFire
    <2> QED BY <1>1, <1>2, <2>2, MuxAssumption DEF CapsInv, AccumInv
<1>11. \A i \in 1..Len(closes') : ~Batched(closes'[i])
    BY <1>2 DEF CapsInv, AccumInv
<1>12. payload' = BatchBytes(ops)'
    BY <1>4 DEF BatchBytes, Weight, Batched
<1>13. (\A i \in 1..Len(closes) : ~Batched(closes[i]))'
    BY <1>11 DEF Batched
<1> QED BY <1>4, <1>6, <1>7, <1>9, <1>10, <1>12, <1>13 DEF AccumInv

\* The steps of the mux task.
LEMMA CapsMuxStep ==
    ASSUME CapsInv, MuxStep
    PROVE  AccumInv' /\ BatchWithinCaps'
<1> USE DEF accum, mux, flight
<1>0. AccumInv /\ BatchWithinCaps /\ closes \in Seq(Msg) /\ ops \in Seq(Msg)
    BY DEF CapsInv, MsgsTyped
<1>1. CASE Recv \/ Coalesce \/ Deadline
    <2>1. UNCHANGED <<ops, replies, payload, closes, batches>> /\ mpc # "acquire"
        BY <1>1 DEF Recv, Coalesce, Deadline
    <2>2. AccumInv'
        BY <1>0, <2>1 DEF AccumInv, BatchBytes, Weight, Batched
    <2> QED BY <1>0, <2>1, <2>2, TripsFrame
<1>2. CASE SplitConnect
    BY <1>0, <1>2, AccumFrame, TripsFrame DEF SplitConnect
<1>3. CASE SplitClose
    <2>1. /\ closes' = Append(closes, Head(window)) /\ ~Batched(Head(window))
          /\ UNCHANGED <<ops, replies, payload, mpc, batches>> /\ Head(window) \in Msg
        BY <1>3, HeadTailProperties DEF SplitClose, Batched, CapsInv, MsgsTyped, Splitting
    <2>2. /\ Len(closes') = Len(closes) + 1 /\ Len(closes) \in Nat
          /\ \A i \in 1..Len(closes) : closes'[i] = closes[i]
          /\ closes'[Len(closes) + 1] = Head(window)
        BY <1>0, <2>1, AppendProperties, LenProperties
    <2>3. \A i \in 1..Len(closes') : i \in 1..Len(closes) \/ i = Len(closes) + 1
        BY <2>2
    <2>4. \A i \in 1..Len(closes') : ~Batched(closes'[i])
        BY <1>0, <2>1, <2>2, <2>3 DEF AccumInv
    <2>5. (\A i \in 1..Len(closes) : ~Batched(closes[i]))'
        BY <2>4 DEF Batched
    <2>6. AccumInv'
        BY <1>0, <2>1, <2>5 DEF AccumInv, BatchBytes, Weight, Batched
    <2> QED BY <1>0, <2>1, <2>6, TripsFrame
<1>4. CASE SplitFire
    <2>1. /\ UNCHANGED <<ops, replies, payload, closes, batches>>
          /\ mpc' = "acquire"
        BY <1>4 DEF SplitFire
    <2>2. AccumInv'
        BY <1>0, <2>1 DEF AccumInv, BatchBytes, Weight, Batched
    <2> QED BY <1>0, <2>1, <2>2, TripsFrame
<1>5. CASE SplitPush
    BY <1>0, <1>5, CapsPush, TripsFrame DEF SplitPush
<1>6. CASE SplitEnd
    <2>1. /\ ops' = ops \o closes /\ closes' = <<>> /\ UNCHANGED <<replies, payload, batches>>
          /\ mpc' \in {"recv", "acquire"} /\ (mpc' # "acquire" => ops' = <<>>)
        BY <1>6 DEF SplitEnd
    <2>2. BatchBytes(ops') = BatchBytes(ops)
        BY <1>0, <2>1, BytesCloses DEF AccumInv
    <2>3. Len(ops') = Len(ops) + Len(closes) /\ Len(ops) \in Nat /\ Len(closes) \in Nat
        BY <1>0, <2>1, ConcatProperties, LenProperties
    <2>4. payload' = BatchBytes(ops)'
        BY <1>0, <2>1, <2>2 DEF AccumInv, BatchBytes, Weight, Batched
    <2>5. (\A i \in 1..Len(closes) : ~Batched(closes[i]))'
        BY <2>1 DEF Batched
    <2>6. Cardinality(replies) \in Nat
        BY <1>0, FS_CardinalityType DEF AccumInv
    <2>7. Cardinality(replies)' <= Len(ops)'
        BY <1>0, <2>1, <2>3, <2>6 DEF AccumInv
    <2>8. mpc' # "acquire" => Len(ops') <= MaxBatchOps
        BY <2>1, MuxAssumption
    <2>9. AccumInv'
        BY <1>0, <2>1, <2>4, <2>5, <2>7, <2>8 DEF AccumInv
    <2> QED BY <1>0, <2>1, <2>9, TripsFrame
<1>7. CASE Acquire
    <2>1. /\ ops' = <<>> /\ replies' = {} /\ payload' = 0 /\ closes' = closes
          /\ batches' = batches \cup {[script |-> script, ops |-> ops, replies |-> replies]}
        BY <1>7 DEF Acquire
    <2>2. Cardinality({}) = 0 /\ IsFiniteSet({}) /\ Len(<<>>) = 0
        BY FS_EmptySet
    <2>3. payload' = BatchBytes(ops)'
        BY <2>1, BytesNone DEF BatchBytes, Weight, Batched
    <2>4. (\A i \in 1..Len(closes) : ~Batched(closes[i]))'
        BY <1>0, <2>1 DEF AccumInv, Batched
    <2>5. AccumInv'
        BY <2>1, <2>2, <2>3, <2>4, MuxAssumption DEF AccumInv
    <2>6. \A b \in batches' : /\ Cardinality(b.replies) <= MaxBatchOps
                              /\ Cardinality(b.replies) > 1 => BatchBytes(b.ops) <= MaxPayload
        BY <1>0, <2>1 DEF AccumInv, BatchWithinCaps
    <2>7. BatchWithinCaps'
        BY <2>6 DEF BatchWithinCaps, BatchBytes, Weight, Batched
    <2> QED BY <2>5, <2>7
<1> QED BY <1>1, <1>2, <1>3, <1>4, <1>5, <1>6, <1>7 DEF MuxStep

\* Every step.
LEMMA CapsStep ==
    ASSUME CapsInv, [MuxNext]_muxVars
    PROVE  AccumInv' /\ BatchWithinCaps'
<1> USE DEF accum, mux, flight
<1>0. AccumInv /\ BatchWithinCaps
    BY DEF CapsInv
<1>1. ASSUME NEW k \in Kinds, NEW z \in Sizes, SendMsg(k, z)
      PROVE  AccumInv' /\ BatchWithinCaps'
    BY <1>0, <1>1, AccumFrame, TripsFrame DEF SendMsg
<1>2. ASSUME NEW b \in batches, BatchOk(b) \/ BatchCut(b) \/ BatchFails(b)
      PROVE  AccumInv' /\ BatchWithinCaps'
    <2>1. Finish(b)
        BY <1>2, Zenon DEF BatchOk, BatchCut, BatchFails
    <2> QED BY <1>0, <2>1, AccumFrame, TripsFrame DEF Finish
<1>3. ASSUME NEW i \in Ids, ConnectDone(i)
      PROVE  AccumInv' /\ BatchWithinCaps'
    BY <1>0, <1>3, AccumFrame, TripsFrame DEF ConnectDone
<1>4. CASE UNCHANGED muxVars
    BY <1>0, <1>4, AccumFrame, TripsFrame DEF muxVars
<1> QED BY <1>1, <1>2, <1>3, <1>4, CapsMuxStep DEF MuxNext

\* No batch that mux_loop sends asks for more than MAX_BATCH_OPS replies, and one
\* that asks for several carries at most MAX_BATCH_PAYLOAD_BYTES: should_fire looks at
\* the batch before each op, and the closes that finalize adds unchecked weigh nothing.
THEOREM BatchesWithinCaps == MuxSpec => []BatchWithinCaps
<1>1. MuxInit => AlignInv /\ CapsInv
    BY AlignInit, CapsInit DEF AlignInv, CapsInv
<1>2. AlignInv /\ CapsInv /\ [MuxNext]_muxVars => (AlignInv /\ CapsInv)'
    BY AlignStep, CapsStep DEF AlignInv, CapsInv
<1>3. CapsInv => BatchWithinCaps
    BY DEF CapsInv
<1> QED BY <1>1, <1>2, <1>3, PTL DEF MuxSpec

-----------------------------------------------------------------------------
(* Places of an op, and permits *)

\* Where the op of a message can be.
Stages == {"queue", "window", "closes", "ops", "trips", "connects", "answered"}

\* The ops at each place.
Held ==
    [queue |-> IdsIn(queue), window |-> IdsIn(window), closes |-> IdsIn(closes), ops |-> IdsIn(ops),
     trips |-> UNION {IdsIn(b.ops) : b \in batches}, connects |-> connects,
     answered |-> {i \in Ids : answer[i] # NoAnswer}]

\* No op is at two of the places.
Apart(W) == \A x, y \in Stages : x # y => W[x] \cap W[y] = {}

\* No op is listed twice.
NoRepeat(s) == \A i, j \in 1..Len(s) : s[i].id = s[j].id => i = j

\* Every batch has an op, and no op is in two of them.
TripsApart ==
    /\ \A b \in batches : b.ops # <<>>
    /\ \A b, c \in batches : b # c => IdsIn(b.ops) \cap IdsIn(c.ops) = {}

\* What mux_loop holds at each of its steps.
PhaseInv ==
    /\ mpc = "recv" \/ (mpc = "acquire" /\ resume = "recv") => window = <<>>
    /\ mpc = "acquire" => ops # <<>>
    /\ resume \in {"recv", "split"}

\* The permits, with the types the count needs.
PermitInv ==
    /\ IsFiniteSet(batches) /\ \A b \in batches : b.script \in Scripts
    /\ used = [s \in Scripts |-> used[s]] /\ script \in Scripts
    /\ PermitPerTrip

\* The inductive invariant, beside the types and the alignment of AlignInv.
PlaceInv ==
    /\ Apart(Held)
    /\ \A x \in Stages : Held[x] \subseteq 1..sent
    /\ NoRepeat(queue) /\ NoRepeat(window)
    /\ TripsApart /\ PhaseInv /\ PermitInv
    /\ sent <= MaxMsgs
    /\ answer = [i \in Ids |-> answer[i]]

\* Ops that move from one place to another.
LEMMA MoveApart ==
    ASSUME NEW W, NEW V, NEW p \in Stages, NEW q \in Stages, p # q, NEW M, Apart(W),
           M \subseteq W[p], V[p] \subseteq W[p], V[p] \cap M = {}, V[q] \subseteq W[q] \cup M,
           \A x \in Stages : x # p /\ x # q => V[x] \subseteq W[x]
    PROVE  Apart(V)
<1> SUFFICES ASSUME NEW x \in Stages, NEW y \in Stages, x # y, NEW i, i \in V[x], i \in V[y] PROVE FALSE
    BY DEF Apart
<1>1. \A z \in Stages, u \in Stages : z # u => W[z] \cap W[u] = {}
    BY DEF Apart
<1> HIDE DEF Stages
<1>2. ASSUME NEW z \in Stages, i \in V[z], z # q PROVE i \in W[z]
    BY <1>2
<1>3. ASSUME NEW z \in Stages, z # q, i \in V[z], i \in V[q] PROVE FALSE
    <2>1. i \in W[z] BY <1>2, <1>3
    <2>2. CASE i \in M
        <3>1. i \in W[p] BY <2>2
        <3>2. z = p BY <1>1, <2>1, <3>1
        <3> QED BY <1>3, <2>2, <3>2
    <2>3. CASE i \notin M BY <1>1, <1>3, <2>1, <2>3
    <2> QED BY <2>2, <2>3
<1>4. CASE x = q BY <1>3, <1>4
<1>5. CASE y = q BY <1>3, <1>5
<1>6. CASE x # q /\ y # q BY <1>1, <1>2, <1>6
<1> QED BY <1>4, <1>5, <1>6

\* The ids of what is left behind a head.
LEMMA IdsTail ==
    ASSUME NEW s \in Seq(Msg), s # <<>>, NoRepeat(s)
    PROVE  /\ NoRepeat(Tail(s)) /\ Head(s) \in Msg /\ Tail(s) \in Seq(Msg)
           /\ Head(s).id \in IdsIn(s) /\ IdsIn(Tail(s)) = IdsIn(s) \ {Head(s).id}
<1> DEFINE t == Tail(s)
<1>1. /\ Len(s) \in Nat /\ Len(s) >= 1 /\ t \in Seq(Msg) /\ Len(t) = Len(s) - 1
      /\ \A i \in 1..Len(t) : t[i] = s[i + 1]
      /\ Head(s) = s[1] /\ s[1] \in Msg /\ DOMAIN s = 1..Len(s) /\ DOMAIN t = 1..Len(t)
    BY HeadTailProperties, LenProperties, EmptySeq
<1> HIDE DEF t
<1>2. \A i, j \in 1..Len(s) : s[i].id = s[j].id => i = j BY DEF NoRepeat
<1>3. \A i \in 1..Len(t) : i + 1 \in 1..Len(s) /\ i + 1 # 1 BY <1>1
<1>4. NoRepeat(t)
    <2> SUFFICES ASSUME NEW i \in 1..Len(t), NEW j \in 1..Len(t), t[i].id = t[j].id PROVE i = j BY DEF NoRepeat
    <2>1. i + 1 = j + 1 BY <1>1, <1>2, <1>3
    <2> QED BY <1>1, <2>1
<1>5. 1 \in 1..Len(s) BY <1>1
<1>6. Head(s).id \in IdsIn(s) BY <1>1, <1>5 DEF IdsIn
<1>7. IdsIn(t) \subseteq IdsIn(s) \ {Head(s).id}
    <2> SUFFICES ASSUME NEW i \in 1..Len(t) PROVE t[i].id \in IdsIn(s) /\ t[i].id # s[1].id BY <1>1 DEF IdsIn
    <2> QED BY <1>1, <1>2, <1>3, <1>5 DEF IdsIn
<1>8. IdsIn(s) \ {Head(s).id} \subseteq IdsIn(t)
    <2> SUFFICES ASSUME NEW i \in 1..Len(s), s[i].id # s[1].id PROVE s[i].id \in IdsIn(t) BY <1>1 DEF IdsIn
    <2>1. i - 1 \in 1..Len(t) /\ (i - 1) + 1 = i BY <1>1
    <2>2. t[i - 1] = s[i] BY <1>1, <2>1
    <2> QED BY <1>1, <2>1, <2>2 DEF IdsIn
<1> QED BY <1>1, <1>4, <1>6, <1>7, <1>8 DEF t

\* The ids with one more at the end.
LEMMA IdsAppend ==
    ASSUME NEW s \in Seq(Msg), NEW m \in Msg
    PROVE  /\ IdsIn(Append(s, m)) = IdsIn(s) \cup {m.id}
           /\ NoRepeat(s) /\ m.id \notin IdsIn(s) => NoRepeat(Append(s, m))
<1> DEFINE t == Append(s, m)
<1>1. /\ Len(s) \in Nat /\ t \in Seq(Msg) /\ Len(t) = Len(s) + 1 /\ t[Len(s) + 1] = m
      /\ \A i \in 1..Len(s) : t[i] = s[i]
      /\ DOMAIN s = 1..Len(s) /\ DOMAIN t = 1..Len(t)
    BY AppendProperties, LenProperties
<1> HIDE DEF t
<1>2. 1..Len(t) = (1..Len(s)) \cup {Len(s) + 1} BY <1>1
<1>3. IdsIn(t) = IdsIn(s) \cup {m.id} BY <1>1, <1>2 DEF IdsIn
<1>4. ASSUME NoRepeat(s), m.id \notin IdsIn(s) PROVE NoRepeat(t)
    <2>1. \A i \in 1..Len(s) : t[i].id # m.id BY <1>1, <1>4 DEF IdsIn
    <2> QED BY <1>1, <1>2, <1>4, <2>1 DEF NoRepeat
<1> QED BY <1>3, <1>4 DEF t

\* The ids of two lists together.
LEMMA IdsConcat ==
    ASSUME NEW s \in Seq(Msg), NEW t \in Seq(Msg)
    PROVE  IdsIn(s \o t) = IdsIn(s) \cup IdsIn(t)
<1> DEFINE r == s \o t
<1>1. /\ Len(s) \in Nat /\ Len(t) \in Nat /\ r \in Seq(Msg) /\ Len(r) = Len(s) + Len(t)
      /\ \A i \in 1..Len(s) : r[i] = s[i]
      /\ \A i \in 1..Len(t) : r[Len(s) + i] = t[i]
      /\ DOMAIN s = 1..Len(s) /\ DOMAIN t = 1..Len(t) /\ DOMAIN r = 1..Len(r)
    <2>1. r \in Seq(Msg) /\ Len(r) = Len(s) + Len(t) /\ \A i \in 1..Len(s) : r[i] = s[i] BY ConcatProperties
    <2>2. Len(s) \in Nat /\ Len(t) \in Nat /\ DOMAIN s = 1..Len(s) /\ DOMAIN t = 1..Len(t) /\ DOMAIN r = 1..Len(r)
        BY <2>1, LenProperties
    <2>3. ASSUME NEW i \in 1..Len(t) PROVE r[Len(s) + i] = t[i]
        <3>1. Len(s) + i \in 1..(Len(s) + Len(t)) /\ Len(s) + i > Len(s) /\ (Len(s) + i) - Len(s) = i BY <2>2
        <3> QED BY <3>1, ConcatProperties
    <2> QED BY <2>1, <2>2, <2>3
<1> HIDE DEF r
<1>2. IdsIn(r) \subseteq IdsIn(s) \cup IdsIn(t)
    <2> SUFFICES ASSUME NEW i \in 1..Len(r) PROVE r[i].id \in IdsIn(s) \cup IdsIn(t) BY <1>1 DEF IdsIn
    <2>1. CASE i \in 1..Len(s) BY <1>1, <2>1 DEF IdsIn
    <2>2. CASE i \notin 1..Len(s)
        <3>1. i - Len(s) \in 1..Len(t) /\ Len(s) + (i - Len(s)) = i BY <1>1, <2>2
        <3>2. r[i] = t[i - Len(s)] BY <1>1, <3>1
        <3> QED BY <1>1, <3>1, <3>2 DEF IdsIn
    <2> QED BY <2>1, <2>2
<1>3. IdsIn(s) \subseteq IdsIn(r)
    <2>1. \A i \in 1..Len(s) : i \in 1..Len(r) BY <1>1
    <2> QED BY <1>1, <2>1 DEF IdsIn
<1>4. IdsIn(t) \subseteq IdsIn(r)
    <2>1. \A i \in 1..Len(t) : Len(s) + i \in 1..Len(r) BY <1>1
    <2> QED BY <1>1, <2>1 DEF IdsIn
<1> QED BY <1>2, <1>3, <1>4 DEF r

\* A step moves the ops in M from p to q, or drops them, and nothing else moves.
LEMMA Moves ==
    ASSUME PlaceInv, NEW p \in Stages, NEW q \in Stages, p # q, NEW M, sent' = sent,
           M \subseteq Held[p], Held'[p] \subseteq Held[p], Held'[p] \cap M = {}, Held'[q] \subseteq Held[q] \cup M,
           \A x \in Stages : x # p /\ x # q => Held'[x] \subseteq Held[x]
    PROVE  Apart(Held') /\ \A x \in Stages : Held'[x] \subseteq 1..sent'
<1>1. Apart(Held) BY DEF PlaceInv
<1>2. Apart(Held') BY <1>1, MoveApart
<1>3. \A x \in Stages : Held[x] \subseteq 1..sent BY DEF PlaceInv
<1> HIDE DEF Held, Stages
<1>4. ASSUME NEW x \in Stages PROVE Held'[x] \subseteq 1..sent
    <2>1. CASE x = q BY <1>3, <2>1
    <2>2. CASE x # q BY <1>3, <2>2
    <2> QED BY <2>1, <2>2
<1> QED BY <1>2, <1>4

\* A step that neither begins nor ends a round trip.
LEMMA TripsStay ==
    ASSUME PlaceInv, UNCHANGED <<batches, used>>, script' \in Scripts
    PROVE  TripsApart' /\ PermitInv'
BY DEF PlaceInv, TripsApart, PermitInv, PermitPerTrip, IdsIn

\* The initial state.
LEMMA PlaceInit == MuxInit => PlaceInv
<1> SUFFICES ASSUME MuxInit PROVE PlaceInv OBVIOUS
<1>1. IdsIn(<<>>) = {} /\ Len(<<>>) = 0 BY DEF IdsIn
<1>2. \A x \in Stages : Held[x] = {} BY <1>1 DEF MuxInit, Held, Stages
<1>3. Apart(Held) /\ \A x \in Stages : Held[x] \subseteq 1..sent BY <1>2 DEF Apart
<1>4. NoRepeat(queue) /\ NoRepeat(window) BY DEF MuxInit, NoRepeat
<1>5. TripsApart /\ PhaseInv BY DEF MuxInit, TripsApart, PhaseInv
<1>6. IsFiniteSet({}) /\ Cardinality({}) = 0 BY FS_EmptySet
<1>7. \A s \in Scripts : {b \in batches : b.script = s} = {} BY DEF MuxInit
<1>8. PermitInv BY <1>6, <1>7, MuxAssumption DEF MuxInit, PermitInv, PermitPerTrip
<1>9. sent <= MaxMsgs /\ answer = [i \in Ids |-> answer[i]] BY MuxAssumption DEF MuxInit
<1> QED BY <1>3, <1>4, <1>5, <1>8, <1>9 DEF PlaceInv

\* A new op is in the channel only.
LEMMA SendPlaces ==
    ASSUME MsgsTyped, PlaceInv, NEW k \in Kinds, NEW z \in Sizes, SendMsg(k, z)
    PROVE  PlaceInv'
<1> DEFINE m == [id |-> sent + 1, kind |-> k, size |-> z]
<1>1. sent \in Nat /\ sent < MaxMsgs /\ queue \in Seq(Msg) /\ MaxMsgs \in Nat
    BY MuxAssumption DEF MsgsTyped, SendMsg
<1>2. m \in Msg BY <1>1 DEF Msg, Ids
<1>3. /\ sent' = sent + 1 /\ queue' = Append(queue, m)
      /\ UNCHANGED <<mpc, window, closes, ops, script, resume, used, batches, connects, answer>>
    BY DEF SendMsg, mux, flight, accum
<1>4. m.id = sent + 1 OBVIOUS
<1> HIDE DEF m
<1>5. IdsIn(queue') = IdsIn(queue) \cup {sent + 1} BY <1>1, <1>2, <1>3, <1>4, IdsAppend
<1>6. \A x \in Stages : Held[x] \subseteq 1..sent BY DEF PlaceInv
<1>7. sent + 1 \notin 1..sent /\ 1..sent \subseteq 1..sent' /\ sent + 1 \in 1..sent' BY <1>1, <1>3
<1>8. Held'["queue"] = Held["queue"] \cup {sent + 1} BY <1>5 DEF Held
<1>9. \A x \in Stages : x # "queue" => Held'[x] = Held[x]
    <2>1. /\ Held'["window"] = Held["window"] /\ Held'["closes"] = Held["closes"] /\ Held'["ops"] = Held["ops"]
          /\ Held'["connects"] = Held["connects"]
        BY <1>3 DEF Held
    <2>2. Held'["trips"] = Held["trips"] /\ Held'["answered"] = Held["answered"] BY <1>3 DEF Held
    <2> QED BY <2>1, <2>2 DEF Stages
<1>10. "queue" \in Stages BY DEF Stages
<1>11. Apart(Held)' /\ \A x \in Stages : Held'[x] \subseteq 1..sent'
    <2>1. \A x, y \in Stages : x # y => Held[x] \cap Held[y] = {} BY DEF PlaceInv, Apart
    <2> HIDE DEF Held, Stages
    <2>2. \A x, y \in Stages : x # y => Held'[x] \cap Held'[y] = {} BY <1>6, <1>7, <1>8, <1>9, <1>10, <2>1
    <2>3. ASSUME NEW x \in Stages PROVE Held'[x] \subseteq 1..sent'
        <3>1. CASE x = "queue" BY <1>6, <1>7, <1>8, <1>10, <3>1
        <3>2. CASE x # "queue" BY <1>6, <1>7, <1>9, <3>2
        <3> QED BY <3>1, <3>2
    <2> QED BY <2>2, <2>3 DEF Apart
<1>12. NoRepeat(queue')
    <2>1. NoRepeat(queue) BY DEF PlaceInv
    <2>2. IdsIn(queue) \subseteq 1..sent
        <3>1. Held["queue"] = IdsIn(queue) BY DEF Held
        <3> QED BY <1>6, <1>10, <3>1
    <2> QED BY <1>1, <1>2, <1>3, <1>4, <1>7, <2>1, <2>2, IdsAppend
<1>13. TripsApart' /\ PermitInv' BY <1>3, TripsStay DEF PlaceInv, PermitInv
<1>14. PhaseInv' BY <1>3 DEF PlaceInv, PhaseInv
<1>15. (NoRepeat(queue) /\ NoRepeat(window))' BY <1>3, <1>12 DEF PlaceInv, NoRepeat
<1>16. (sent <= MaxMsgs /\ answer = [i \in Ids |-> answer[i]])' BY <1>1, <1>3 DEF PlaceInv
<1>17. (\A x \in Stages : Held[x] \subseteq 1..sent)' BY <1>11
<1> QED BY <1>11, <1>13, <1>14, <1>15, <1>16, <1>17 DEF PlaceInv

\* The window: ops go from the channel to it.
LEMMA WindowPlaces ==
    ASSUME MsgsTyped, PlaceInv, Recv \/ Coalesce
    PROVE  PlaceInv'
<1> DEFINE m == Head(queue)
<1>1. queue \in Seq(Msg) /\ window \in Seq(Msg) /\ queue # <<>> /\ NoRepeat(queue) /\ NoRepeat(window)
    BY DEF MsgsTyped, Recv, Coalesce, PlaceInv
<1>2. /\ NoRepeat(Tail(queue)) /\ m \in Msg /\ m.id \in IdsIn(queue) /\ IdsIn(Tail(queue)) = IdsIn(queue) \ {m.id}
    BY <1>1, IdsTail
<1>3. /\ queue' = Tail(queue) /\ window' = Append(window, m) /\ mpc' = "coalesce"
      /\ UNCHANGED <<sent, closes, ops, script, resume, used, batches, connects, answer>>
    <2>1. CASE Recv
        <3>1. window = <<>> /\ window' = <<m>> BY <2>1 DEF Recv, PlaceInv, PhaseInv
        <3>2. Append(<<>>, m) = <<m>> OBVIOUS
        <3> QED BY <2>1, <3>1, <3>2 DEF Recv, flight, accum
    <2>2. CASE Coalesce BY <2>2 DEF Coalesce, flight, accum
    <2> QED BY <2>1, <2>2
<1> HIDE DEF m
<1>4. m.id \notin IdsIn(window)
    <2>1. Held["queue"] \cap Held["window"] = {} BY DEF PlaceInv, Apart, Stages
    <2> QED BY <1>2, <2>1 DEF Held
<1>5. IdsIn(window') = IdsIn(window) \cup {m.id} /\ NoRepeat(window') BY <1>1, <1>2, <1>3, <1>4, IdsAppend
<1>6. Apart(Held') /\ \A x \in Stages : Held'[x] \subseteq 1..sent'
    <2>1. {m.id} \subseteq Held["queue"] /\ Held'["queue"] \subseteq Held["queue"] /\ Held'["queue"] \cap {m.id} = {}
          /\ Held'["window"] \subseteq Held["window"] \cup {m.id}
        BY <1>2, <1>3, <1>5 DEF Held
    <2>2. \A x \in Stages : x # "queue" /\ x # "window" => Held'[x] \subseteq Held[x]
        BY <1>3 DEF Held, Stages, IdsIn
    <2>3. "queue" \in Stages /\ "window" \in Stages /\ "queue" # "window" BY DEF Stages
    <2> QED BY <1>3, <2>1, <2>2, <2>3, Moves
<1>7. TripsApart' /\ PermitInv' BY <1>3, TripsStay DEF PlaceInv, PermitInv
<1>8. PhaseInv' BY <1>3 DEF PlaceInv, PhaseInv
<1>9. (NoRepeat(queue) /\ NoRepeat(window))' BY <1>2, <1>3, <1>5 DEF NoRepeat
<1>10. (sent <= MaxMsgs /\ answer = [i \in Ids |-> answer[i]])' BY <1>3 DEF PlaceInv
<1>11. (Apart(Held) /\ \A x \in Stages : Held[x] \subseteq 1..sent)' BY <1>6 DEF Apart
<1> QED BY <1>7, <1>8, <1>9, <1>10, <1>11 DEF PlaceInv

\* Splitting: the first op of the window goes to one of the places q.
LEMMA SplitPlaces ==
    ASSUME MsgsTyped, PlaceInv, Splitting, NEW q \in {"connects", "closes", "ops"},
           window' = Tail(window), Held'[q] = Held[q] \cup {Head(window).id},
           \A x \in Stages : x # "window" /\ x # q => Held'[x] \subseteq Held[x],
           UNCHANGED <<sent, queue, mpc, script, resume, used, batches, answer>>
    PROVE  PlaceInv'
<1> DEFINE m == Head(window)
<1>1. window \in Seq(Msg) /\ window # <<>> /\ NoRepeat(window) /\ mpc = "split" BY DEF MsgsTyped, Splitting, PlaceInv
<1>2. NoRepeat(Tail(window)) /\ m \in Msg /\ m.id \in IdsIn(window) /\ IdsIn(Tail(window)) = IdsIn(window) \ {m.id}
    BY <1>1, IdsTail
<1>3. Apart(Held') /\ \A x \in Stages : Held'[x] \subseteq 1..sent'
    <2>1. {m.id} \subseteq Held["window"] /\ Held'["window"] \subseteq Held["window"] /\ Held'["window"] \cap {m.id} = {}
        BY <1>2 DEF Held
    <2>2. "window" \in Stages /\ q \in Stages /\ "window" # q BY DEF Stages
    <2> QED BY <2>1, <2>2, Moves
<1>4. TripsApart' /\ PermitInv' BY TripsStay DEF PlaceInv, PermitInv
<1>5. PhaseInv' BY <1>1 DEF PlaceInv, PhaseInv
<1>6. (NoRepeat(queue) /\ NoRepeat(window))' BY <1>2 DEF PlaceInv, NoRepeat
<1>7. (sent <= MaxMsgs /\ answer = [i \in Ids |-> answer[i]])' BY DEF PlaceInv
<1>8. (Apart(Held) /\ \A x \in Stages : Held[x] \subseteq 1..sent)' BY <1>3 DEF Apart
<1> QED BY <1>4, <1>5, <1>6, <1>7, <1>8 DEF PlaceInv

\* The splitting steps.
LEMMA PackPlaces ==
    ASSUME MsgsTyped, PlaceInv, SplitConnect \/ SplitClose \/ SplitPush
    PROVE  PlaceInv'
<1> USE DEF accum, flight
<1> DEFINE m == Head(window)
<1>1. window \in Seq(Msg) /\ window # <<>> /\ NoRepeat(window) /\ closes \in Seq(Msg) /\ ops \in Seq(Msg) /\ Splitting
    BY DEF MsgsTyped, Splitting, PlaceInv, SplitConnect, SplitClose, SplitPush
<1>2. m \in Msg BY <1>1, IdsTail
<1>3. CASE SplitConnect
    <2>1. /\ connects' = connects \cup {m.id} /\ window' = Tail(window)
          /\ UNCHANGED <<sent, queue, mpc, closes, ops, script, resume, used, batches, answer>>
        BY <1>3 DEF SplitConnect
    <2>2. Held'["connects"] = Held["connects"] \cup {m.id} BY <2>1 DEF Held
    <2>3. \A x \in Stages : x # "window" /\ x # "connects" => Held'[x] \subseteq Held[x] BY <2>1 DEF Held, Stages, IdsIn
    <2> QED BY <1>1, <2>1, <2>2, <2>3, SplitPlaces
<1>4. CASE SplitClose
    <2>1. /\ closes' = Append(closes, m) /\ window' = Tail(window)
          /\ UNCHANGED <<sent, queue, mpc, connects, ops, script, resume, used, batches, answer>>
        BY <1>4 DEF SplitClose
    <2>2. Held'["closes"] = Held["closes"] \cup {m.id} BY <1>1, <1>2, <2>1, IdsAppend DEF Held
    <2>3. \A x \in Stages : x # "window" /\ x # "closes" => Held'[x] \subseteq Held[x] BY <2>1 DEF Held, Stages, IdsIn
    <2> QED BY <1>1, <2>1, <2>2, <2>3, SplitPlaces
<1>5. CASE SplitPush
    <2>1. /\ ops' = Append(ops, m) /\ window' = Tail(window)
          /\ UNCHANGED <<sent, queue, mpc, connects, closes, script, resume, used, batches, answer>>
        BY <1>5 DEF SplitPush
    <2>2. Held'["ops"] = Held["ops"] \cup {m.id} BY <1>1, <1>2, <2>1, IdsAppend DEF Held
    <2>3. \A x \in Stages : x # "window" /\ x # "ops" => Held'[x] \subseteq Held[x] BY <2>1 DEF Held, Stages, IdsIn
    <2> QED BY <1>1, <2>1, <2>2, <2>3, SplitPlaces
<1> QED BY <1>3, <1>4, <1>5

\* The deadline, and the wait for a permit, move nothing; the closes join the batch.
LEMMA EndPlaces ==
    ASSUME MsgsTyped, PlaceInv, Deadline \/ SplitFire \/ SplitEnd
    PROVE  PlaceInv'
<1> USE DEF accum, flight
<1>1. /\ UNCHANGED <<sent, queue, window, connects, used, batches, answer>> /\ script' \in Scripts
    BY DEF Deadline, SplitFire, SplitEnd, PlaceInv, PermitInv
<1>2. TripsApart' /\ PermitInv' BY <1>1, TripsStay
<1>3. (NoRepeat(queue) /\ NoRepeat(window))' BY <1>1 DEF PlaceInv, NoRepeat
<1>4. (sent <= MaxMsgs /\ answer = [i \in Ids |-> answer[i]])' BY <1>1 DEF PlaceInv
<1>5. (ops' = ops \o closes /\ closes' = <<>>) \/ UNCHANGED <<ops, closes>> BY DEF Deadline, SplitFire, SplitEnd
<1>6. IdsIn(ops') \subseteq IdsIn(ops) \cup (IdsIn(closes) \ IdsIn(closes')) /\ IdsIn(closes') \subseteq IdsIn(closes)
    <2>1. CASE ops' = ops \o closes /\ closes' = <<>>
        <3>1. IdsIn(<<>>) = {} BY DEF IdsIn
        <3> QED BY <2>1, <3>1, IdsConcat DEF MsgsTyped
    <2>2. CASE UNCHANGED <<ops, closes>> BY <2>2 DEF IdsIn
    <2> QED BY <1>5, <2>1, <2>2
<1>7. Apart(Held') /\ \A x \in Stages : Held'[x] \subseteq 1..sent'
    <2> DEFINE M == IdsIn(closes) \ IdsIn(closes')
    <2>1. M \subseteq Held["closes"] /\ Held'["closes"] \subseteq Held["closes"] /\ Held'["closes"] \cap M = {}
          /\ Held'["ops"] \subseteq Held["ops"] \cup M
        BY <1>6 DEF Held
    <2>2. \A x \in Stages : x # "closes" /\ x # "ops" => Held'[x] \subseteq Held[x] BY <1>1 DEF Held, Stages, IdsIn
    <2>3. "closes" \in Stages /\ "ops" \in Stages /\ "closes" # "ops" BY DEF Stages
    <2> HIDE DEF M
    <2> QED BY <1>1, <2>1, <2>2, <2>3, Moves
<1>8. PhaseInv'
    <2>1. CASE Deadline BY <2>1 DEF Deadline, PlaceInv, PhaseInv
    <2>2. CASE SplitFire
        <3>1. Len(<<>>) = 0 OBVIOUS
        <3> QED BY <2>2, <3>1 DEF SplitFire, ShouldFire, PlaceInv, PhaseInv, Splitting
    <2>3. CASE SplitEnd BY <2>3 DEF SplitEnd, PlaceInv, PhaseInv
    <2> QED BY <2>1, <2>2, <2>3
<1>9. (Apart(Held) /\ \A x \in Stages : Held[x] \subseteq 1..sent)' BY <1>7 DEF Apart
<1> QED BY <1>2, <1>3, <1>4, <1>8, <1>9 DEF PlaceInv

\* The accumulated ops go out as a batch with an op that no other batch has, and
\* with one permit more.
LEMMA AcquirePlaces ==
    ASSUME MsgsTyped, PlaceInv, Acquire
    PROVE  PlaceInv'
<1> DEFINE b == [script |-> script, ops |-> ops, replies |-> replies]
<1>1. /\ mpc = "acquire" /\ mpc' = resume /\ batches' = batches \cup {b} /\ ops' = <<>>
      /\ used' = [used EXCEPT ![script] = @ + 1] /\ used[script] < PermitLimit
      /\ UNCHANGED <<sent, queue, window, closes, script, resume, connects, answer>>
    BY DEF Acquire
<1>2. ops # <<>> /\ ops \in Seq(Msg) /\ script \in Scripts /\ IsFiniteSet(batches) BY <1>1 DEF MsgsTyped, PlaceInv, PhaseInv, PermitInv
<1>3. b.ops = ops /\ b.script = script OBVIOUS
<1> HIDE DEF b
<1>4. IdsIn(<<>>) = {} BY DEF IdsIn
<1>5. PICK i : i \in IdsIn(ops)
    <2>1. Len(ops) \in Nat /\ Len(ops) # 0 /\ DOMAIN ops = 1..Len(ops) BY <1>2, LenProperties, EmptySeq
    <2>2. 1 \in DOMAIN ops BY <2>1
    <2> QED BY <2>2 DEF IdsIn
<1>6. \A c \in batches : IdsIn(c.ops) \cap IdsIn(ops) = {}
    <2>1. Held["trips"] \cap Held["ops"] = {} BY DEF PlaceInv, Apart, Stages
    <2>2. Held["trips"] = UNION {IdsIn(c.ops) : c \in batches} /\ Held["ops"] = IdsIn(ops) BY DEF Held
    <2> QED BY <2>1, <2>2
<1>7. b \notin batches BY <1>3, <1>5, <1>6
<1>8. Apart(Held') /\ \A x \in Stages : Held'[x] \subseteq 1..sent'
    <2>1. IdsIn(ops) \subseteq Held["ops"] /\ Held'["ops"] \subseteq Held["ops"] /\ Held'["ops"] \cap IdsIn(ops) = {}
        BY <1>1, <1>4 DEF Held
    <2>2. Held'["trips"] \subseteq Held["trips"] \cup IdsIn(ops)
        <3>1. Held["trips"] = UNION {IdsIn(c.ops) : c \in batches} BY DEF Held
        <3>2. Held'["trips"] = UNION {IdsIn(c.ops) : c \in batches'} BY DEF Held
        <3> QED BY <1>1, <1>3, <3>1, <3>2
    <2>3. \A x \in Stages : x # "ops" /\ x # "trips" => Held'[x] \subseteq Held[x] BY <1>1 DEF Held, Stages, IdsIn
    <2>4. "ops" \in Stages /\ "trips" \in Stages /\ "ops" # "trips" BY DEF Stages
    <2>5. sent' = sent BY <1>1
    <2> DEFINE M == IdsIn(ops)
    <2> HIDE DEF M
    <2>6. /\ M \subseteq Held["ops"] /\ Held'["ops"] \subseteq Held["ops"] /\ Held'["ops"] \cap M = {}
          /\ Held'["trips"] \subseteq Held["trips"] \cup M
        BY <2>1, <2>2 DEF M
    <2> QED BY <2>3, <2>4, <2>5, <2>6, Moves
<1>9. TripsApart'
    <2>1. \A c \in batches' : c.ops # <<>> BY <1>1, <1>2, <1>3 DEF PlaceInv, TripsApart
    <2>2. \A c, d \in batches' : c # d => IdsIn(c.ops) \cap IdsIn(d.ops) = {} BY <1>1, <1>3, <1>6 DEF PlaceInv, TripsApart
    <2> QED BY <2>1, <2>2 DEF TripsApart
<1>10. PermitInv'
    <2>1. IsFiniteSet(batches') BY <1>1, <1>2, FS_AddElement
    <2>2. \A c \in batches' : c.script \in Scripts BY <1>1, <1>2, <1>3 DEF PlaceInv, PermitInv
    <2>3. used = [s \in Scripts |-> used[s]] /\ \A s \in Scripts : used[s] = Cardinality({c \in batches : c.script = s}) /\ used[s] <= PermitLimit
        BY DEF PlaceInv, PermitInv, PermitPerTrip
    <2>4. used' = [s \in Scripts |-> used'[s]] BY <1>1, <2>3
    <2>5. ASSUME NEW s \in Scripts PROVE used'[s] = Cardinality({c \in batches' : c.script = s}) /\ used'[s] <= PermitLimit
        <3> DEFINE T == {c \in batches : c.script = s}
        <3>1. IsFiniteSet(T) /\ Cardinality(T) \in Nat /\ PermitLimit \in Nat BY <1>2, FS_Subset, FS_CardinalityType, MuxAssumption
        <3>2. CASE s = script
            <4>1. {c \in batches' : c.script = s} = T \cup {b} /\ b \notin T BY <1>1, <1>3, <1>7, <3>2
            <4>2. Cardinality(T \cup {b}) = Cardinality(T) + 1 BY <3>1, <4>1, FS_AddElement
            <4>3. used'[s] = used[s] + 1 BY <1>1, <2>3, <3>2
            <4>4. used[s] = Cardinality(T) /\ used[s] <= PermitLimit BY <2>3
            <4>5. used[s] < PermitLimit BY <1>1, <3>2
            <4>6. used'[s] <= PermitLimit
                <5> HIDE DEF T
                <5> QED BY <3>1, <4>3, <4>4, <4>5
            <4> QED BY <4>1, <4>2, <4>3, <4>4, <4>6
        <3>3. CASE s # script
            <4>1. {c \in batches' : c.script = s} = T BY <1>1, <1>3, <3>3
            <4>2. used'[s] = used[s] BY <1>1, <2>3, <3>3
            <4> QED BY <2>3, <4>1, <4>2
        <3> QED BY <3>2, <3>3
    <2> QED BY <1>1, <1>2, <2>1, <2>2, <2>4, <2>5 DEF PermitInv, PermitPerTrip
<1>11. PhaseInv'
    <2>1. mpc' = "recv" \/ (mpc' = "acquire" /\ resume' = "recv") => window = <<>> BY <1>1 DEF PlaceInv, PhaseInv
    <2>2. mpc' # "acquire" /\ resume \in {"recv", "split"} BY <1>1 DEF PlaceInv, PhaseInv
    <2> QED BY <1>1, <2>1, <2>2 DEF PhaseInv
<1>12. (NoRepeat(queue) /\ NoRepeat(window))' BY <1>1 DEF PlaceInv, NoRepeat
<1>13. (sent <= MaxMsgs /\ answer = [j \in Ids |-> answer[j]])' BY <1>1 DEF PlaceInv
<1>14. (Apart(Held) /\ \A x \in Stages : Held[x] \subseteq 1..sent)' BY <1>8 DEF Apart
<1> QED BY <1>9, <1>10, <1>11, <1>12, <1>13, <1>14 DEF PlaceInv

\* Whatever the list of results looks like, an op of a batch that is over has an
\* answer.
LEMMA ReplyIsAnswer ==
    ASSUME NEW b, b.ops \in Seq(Msg), NEW S, NEW k
    PROVE  ReplyFor(b, S, k) # NoAnswer
<1> DEFINE at == AnswerAt(Len(b.ops), S, k)
<1>1. CASE at = {} BY <1>1 DEF ReplyFor, Failed, NoAnswer
<1>2. CASE at # {}
    <2> DEFINE j == CHOOSE x \in at : TRUE
    <2>1. j \in at BY <1>2
    <2>2. j \in 1..Len(b.ops) BY <2>1 DEF AnswerAt
    <2>3. b.ops[j] \in Msg BY <2>2, ElementOfSeq
    <2>4. b.ops[j].id # 0 BY <2>3 DEF Msg, Ids
    <2> QED BY <1>2, <2>4 DEF ReplyFor, NoAnswer
<1> QED BY <1>1, <1>2

\* What the end of a round trip answers: its own ops that wait, and all of those.
LEMMA DistributeAnswers ==
    ASSUME NEW b, b.ops \in Seq(Msg), Aligned(b.ops, b.replies), NEW S, Distribute(b, S)
    PROVE  /\ answer' = [i \in Ids |-> answer'[i]]
           /\ \A i \in Ids : (\E e \in b.replies : e.id = i) => answer'[i] # NoAnswer /\ i \in IdsIn(b.ops)
           /\ \A i \in Ids : (\A e \in b.replies : e.id # i) => answer'[i] = answer[i]
<1>1. answer' = [i \in Ids |-> IF \E e \in b.replies : e.id = i
                               THEN ReplyFor(b, S, (CHOOSE e \in b.replies : e.id = i).idx) ELSE answer[i]]
    BY DEF Distribute
<1>2. ASSUME NEW i \in Ids, NEW e \in b.replies, e.id = i PROVE answer'[i] # NoAnswer /\ i \in IdsIn(b.ops)
    <2>1. answer'[i] = ReplyFor(b, S, (CHOOSE d \in b.replies : d.id = i).idx) BY <1>1, <1>2
    <2>2. answer'[i] # NoAnswer BY <2>1, ReplyIsAnswer
    <2>3. e.idx \in 1..Len(b.ops) /\ b.ops[e.idx].id = i BY <1>2 DEF Aligned
    <2>4. DOMAIN b.ops = 1..Len(b.ops) BY LenProperties
    <2> QED BY <2>2, <2>3, <2>4 DEF IdsIn
<1> QED BY <1>1, <1>2

\* The end of a round trip, however it ends.
TripOver(b) == BatchOk(b) \/ BatchCut(b) \/ BatchFails(b)

\* It answers its own ops that wait, all of them and no other.
LEMMA OverAnswers ==
    ASSUME TripsAligned, NEW b \in batches, TripOver(b)
    PROVE  /\ Finish(b) /\ answer' = [i \in Ids |-> answer'[i]]
           /\ \A i \in Ids : (\E e \in b.replies : e.id = i) => answer'[i] # NoAnswer /\ i \in IdsIn(b.ops)
           /\ \A i \in Ids : (\A e \in b.replies : e.id # i) => answer'[i] = answer[i]
<1>1. b.ops \in Seq(Msg) /\ Aligned(b.ops, b.replies) BY DEF TripsAligned
<1>2. Finish(b) /\ \E S : Distribute(b, S) BY DEF TripOver, BatchOk, BatchCut, BatchFails
<1>3. PICK S : Distribute(b, S) BY <1>2
<1> QED BY <1>1, <1>2, <1>3, DistributeAnswers

\* Its ops leave the trips, and its permit is free again.
LEMMA OverPlaces ==
    ASSUME MsgsTyped, TripsAligned, PlaceInv, NEW b \in batches, TripOver(b)
    PROVE  PlaceInv'
<1>1. /\ batches' = batches \ {b} /\ used' = [used EXCEPT ![b.script] = @ - 1]
      /\ UNCHANGED <<sent, queue, mpc, window, closes, ops, script, resume, connects>>
    BY OverAnswers DEF Finish, mux, accum
<1>2. /\ answer' = [i \in Ids |-> answer'[i]]
      /\ \A i \in Ids : answer'[i] = answer[i] \/ i \in IdsIn(b.ops)
    BY OverAnswers
<1>3. Apart(Held') /\ \A x \in Stages : Held'[x] \subseteq 1..sent'
    <2>1. Held["trips"] = UNION {IdsIn(c.ops) : c \in batches} /\ Held'["trips"] = UNION {IdsIn(c.ops) : c \in batches'}
        BY DEF Held
    <2>2. \A c \in batches : c # b => IdsIn(c.ops) \cap IdsIn(b.ops) = {} BY DEF PlaceInv, TripsApart
    <2>3. IdsIn(b.ops) \subseteq Held["trips"] /\ Held'["trips"] \subseteq Held["trips"] BY <1>1, <2>1
    <2>4. Held'["trips"] \cap IdsIn(b.ops) = {} BY <1>1, <2>1, <2>2
    <2>5. Held'["answered"] \subseteq Held["answered"] \cup IdsIn(b.ops) BY <1>2 DEF Held
    <2>6. \A x \in Stages : x # "trips" /\ x # "answered" => Held'[x] \subseteq Held[x] BY <1>1 DEF Held, Stages, IdsIn
    <2>7. "trips" \in Stages /\ "answered" \in Stages /\ "trips" # "answered" BY DEF Stages
    <2> QED BY <1>1, <2>3, <2>4, <2>5, <2>6, <2>7, Moves
<1>4. TripsApart' BY <1>1 DEF PlaceInv, TripsApart, IdsIn
<1>5. PermitInv'
    <2>1. IsFiniteSet(batches) /\ \A c \in batches : c.script \in Scripts BY DEF PlaceInv, PermitInv
    <2>2. IsFiniteSet(batches') BY <1>1, <2>1, FS_Subset
    <2>3. used = [s \in Scripts |-> used[s]] /\ \A s \in Scripts : used[s] = Cardinality({c \in batches : c.script = s}) /\ used[s] <= PermitLimit
        BY DEF PlaceInv, PermitInv, PermitPerTrip
    <2>4. used' = [s \in Scripts |-> used'[s]] BY <1>1, <2>3
    <2>5. ASSUME NEW s \in Scripts PROVE used'[s] = Cardinality({c \in batches' : c.script = s}) /\ used'[s] <= PermitLimit
        <3> DEFINE T == {c \in batches : c.script = s}
        <3>1. IsFiniteSet(T) /\ Cardinality(T) \in Nat /\ PermitLimit \in Nat BY <2>1, FS_Subset, FS_CardinalityType, MuxAssumption
        <3>2. CASE s = b.script
            <4>1. {c \in batches' : c.script = s} = T \ {b} /\ b \in T BY <1>1, <3>2
            <4>2. Cardinality(T \ {b}) = Cardinality(T) - 1 BY <3>1, <4>1, FS_RemoveElement
            <4>3. used'[s] = used[s] - 1 BY <1>1, <2>3, <3>2
            <4>4. used[s] = Cardinality(T) /\ used[s] <= PermitLimit BY <2>3
            <4>5. used'[s] <= PermitLimit
                <5> HIDE DEF T
                <5> QED BY <3>1, <4>3, <4>4
            <4> QED BY <4>1, <4>2, <4>3, <4>4, <4>5
        <3>3. CASE s # b.script
            <4>1. {c \in batches' : c.script = s} = T BY <1>1, <3>3
            <4>2. used'[s] = used[s] BY <1>1, <2>3, <3>3
            <4> QED BY <2>3, <4>1, <4>2
        <3> QED BY <3>2, <3>3
    <2>6. script' \in Scripts /\ \A c \in batches' : c.script \in Scripts BY <1>1, <2>1 DEF PlaceInv, PermitInv
    <2> QED BY <2>2, <2>4, <2>5, <2>6 DEF PermitInv, PermitPerTrip
<1>6. PhaseInv' BY <1>1 DEF PlaceInv, PhaseInv
<1>7. (NoRepeat(queue) /\ NoRepeat(window))' BY <1>1 DEF PlaceInv, NoRepeat
<1>8. (sent <= MaxMsgs /\ answer = [i \in Ids |-> answer[i]])' BY <1>1, <1>2 DEF PlaceInv
<1>9. (Apart(Held) /\ \A x \in Stages : Held[x] \subseteq 1..sent)' BY <1>3 DEF Apart
<1> QED BY <1>4, <1>5, <1>6, <1>7, <1>8, <1>9 DEF PlaceInv

\* The end of a plain connect.
LEMMA ConnectPlaces ==
    ASSUME PlaceInv, NEW i \in Ids, ConnectDone(i)
    PROVE  PlaceInv'
<1>1. /\ i \in connects /\ connects' = connects \ {i}
      /\ UNCHANGED <<sent, queue, mpc, window, closes, ops, script, resume, used, batches>>
    BY DEF ConnectDone, mux, accum
<1>2. answer' = [j \in Ids |-> answer'[j]] /\ \A j \in Ids : j # i => answer'[j] = answer[j]
    BY DEF ConnectDone, PlaceInv
<1>3. Apart(Held') /\ \A x \in Stages : Held'[x] \subseteq 1..sent'
    <2>1. {i} \subseteq Held["connects"] /\ Held'["connects"] \subseteq Held["connects"] /\ Held'["connects"] \cap {i} = {}
        BY <1>1 DEF Held
    <2>2. Held'["answered"] \subseteq Held["answered"] \cup {i} BY <1>2 DEF Held
    <2>3. \A x \in Stages : x # "connects" /\ x # "answered" => Held'[x] \subseteq Held[x] BY <1>1 DEF Held, Stages, IdsIn
    <2>4. "connects" \in Stages /\ "answered" \in Stages /\ "connects" # "answered" BY DEF Stages
    <2> QED BY <1>1, <2>1, <2>2, <2>3, <2>4, Moves
<1>4. TripsApart' /\ PermitInv' BY <1>1, TripsStay DEF PlaceInv, PermitInv
<1>5. PhaseInv' BY <1>1 DEF PlaceInv, PhaseInv
<1>6. (NoRepeat(queue) /\ NoRepeat(window))' BY <1>1 DEF PlaceInv, NoRepeat
<1>7. (sent <= MaxMsgs /\ answer = [j \in Ids |-> answer[j]])' BY <1>1, <1>2 DEF PlaceInv
<1>8. (Apart(Held) /\ \A x \in Stages : Held[x] \subseteq 1..sent)' BY <1>3 DEF Apart
<1> QED BY <1>4, <1>5, <1>6, <1>7, <1>8 DEF PlaceInv

\* Every step.
LEMMA PlaceStep ==
    ASSUME AlignInv, PlaceInv, [MuxNext]_muxVars
    PROVE  PlaceInv'
<1>1. MsgsTyped /\ TripsAligned BY DEF AlignInv
<1>2. CASE UNCHANGED muxVars
    <2>1. UNCHANGED <<sent, queue, mpc, window, closes, ops, script, resume, used, batches, connects, answer>>
        BY <1>2 DEF muxVars, mux, flight, accum
    <2>2. Held' = Held BY <2>1 DEF Held, IdsIn
    <2>3. TripsApart' /\ PermitInv' BY <2>1, TripsStay DEF PlaceInv, PermitInv
    <2> QED BY <2>1, <2>2, <2>3 DEF PlaceInv, Apart, NoRepeat, PhaseInv
<1>3. ASSUME NEW k \in Kinds, NEW z \in Sizes, SendMsg(k, z) PROVE PlaceInv' BY <1>1, <1>3, SendPlaces
<1>4. CASE MuxStep BY <1>1, <1>4, WindowPlaces, PackPlaces, EndPlaces, AcquirePlaces DEF MuxStep
<1>5. ASSUME NEW b \in batches, BatchOk(b) \/ BatchCut(b) \/ BatchFails(b) PROVE PlaceInv'
    BY <1>1, <1>5, OverPlaces DEF TripOver
<1>6. ASSUME NEW i \in Ids, ConnectDone(i) PROVE PlaceInv' BY <1>6, ConnectPlaces
<1> QED BY <1>2, <1>3, <1>4, <1>5, <1>6 DEF MuxNext

\* For every number of deployments, permits, ops and caps: the permits taken are
\* those of the round trips in flight, and never more than there are.  An op travels
\* in one batch at most, so that no two round trips are the same.
THEOREM PermitsReturn == MuxSpec => []PermitPerTrip
<1>1. AlignInv /\ PlaceInv /\ [MuxNext]_muxVars => AlignInv' /\ PlaceInv' BY AlignStep, PlaceStep
<1>2. PlaceInv => PermitPerTrip BY DEF PlaceInv, PermitInv
<1> QED BY <1>1, <1>2, AlignInit, PlaceInit, PTL DEF MuxSpec

\* Who waits goes on to wait, or has an answer.
LEMMA WaitersKeep ==
    ASSUME AlignInv, PlaceInv, MuxNext, NEW i \in Ids, Awaited(i)
    PROVE  Awaited(i)' \/ answer'[i] # NoAnswer
<1> USE DEF accum, mux, flight
<1>1. queue \in Seq(Msg) /\ window \in Seq(Msg) /\ TripsAligned BY DEF AlignInv, MsgsTyped
<1>2. ASSUME NEW s \in Seq(Msg), s # <<>>, NEW m \in 1..Len(s), s[m].id = i, s[m].kind # "close"
      PROVE  /\ Head(s) \in Msg /\ Tail(s) \in Seq(Msg)
             /\ \/ Head(s).id = i /\ Head(s).kind # "close"
                \/ \E n \in 1..Len(Tail(s)) : Tail(s)[n].id = i /\ Tail(s)[n].kind # "close"
    <2>1. /\ Len(s) \in Nat /\ Head(s) = s[1] /\ Head(s) \in Msg /\ Tail(s) \in Seq(Msg) /\ Len(Tail(s)) = Len(s) - 1
          /\ \A n \in 1..Len(Tail(s)) : Tail(s)[n] = s[n + 1]
        BY <1>2, HeadTailProperties, LenProperties
    <2>2. CASE m = 1 BY <1>2, <2>1, <2>2
    <2>3. CASE m # 1
        <3>1. m - 1 \in 1..Len(Tail(s)) /\ (m - 1) + 1 = m BY <2>1, <2>3
        <3>2. Tail(s)[m - 1] = s[m] BY <2>1, <3>1
        <3>3. Tail(s)[m - 1].id = i /\ Tail(s)[m - 1].kind # "close" BY <1>2, <3>2
        <3>4. \E n \in 1..Len(Tail(s)) : Tail(s)[n].id = i /\ Tail(s)[n].kind # "close" BY <3>1, <3>3
        <3> QED BY <2>1, <3>4
    <2> QED BY <2>2, <2>3
<1>3. ASSUME NEW s \in Seq(Msg), NEW x \in Msg
      PROVE  /\ \A n \in 1..Len(s) : n \in 1..Len(Append(s, x)) /\ Append(s, x)[n] = s[n]
             /\ Len(s) + 1 \in 1..Len(Append(s, x)) /\ Append(s, x)[Len(s) + 1] = x
    <2>1. Len(s) \in Nat /\ Len(Append(s, x)) = Len(s) + 1 /\ Append(s, x)[Len(s) + 1] = x
          /\ \A n \in 1..Len(s) : Append(s, x)[n] = s[n]
        BY AppendProperties, LenProperties
    <2> QED BY <2>1
<1>4. ASSUME NEW k \in Kinds, NEW z \in Sizes, SendMsg(k, z) PROVE Awaited(i)'
    <2> DEFINE x == [id |-> sent + 1, kind |-> k, size |-> z]
    <2>1. x \in Msg BY <1>4, MuxAssumption DEF SendMsg, AlignInv, MsgsTyped, Msg, Ids
    <2>2. queue' = Append(queue, x) /\ UNCHANGED <<window, replies, batches, connects>> BY <1>4 DEF SendMsg
    <2> HIDE DEF x
    <2>3. (\E m \in 1..Len(queue) : queue[m].id = i /\ queue[m].kind # "close")
            => \E m \in 1..Len(queue') : queue'[m].id = i /\ queue'[m].kind # "close"
        BY <1>1, <1>3, <2>1, <2>2
    <2> QED BY <2>2, <2>3 DEF Awaited
<1>5. CASE Recv \/ Coalesce
    <2>1. /\ queue # <<>> /\ queue' = Tail(queue) /\ window' = Append(window, Head(queue))
          /\ UNCHANGED <<replies, batches, connects>>
        <3>1. CASE Recv
            <4>1. window = <<>> BY <3>1 DEF Recv, PlaceInv, PhaseInv
            <4>2. Append(<<>>, Head(queue)) = <<Head(queue)>> OBVIOUS
            <4> QED BY <3>1, <4>1, <4>2 DEF Recv
        <3>2. CASE Coalesce BY <3>2 DEF Coalesce
        <3> QED BY <1>5, <3>1, <3>2
    <2>2. Head(queue) \in Msg BY <1>1, <2>1, HeadTailProperties
    <2>3. (\E m \in 1..Len(window) : window[m].id = i /\ window[m].kind # "close")
            => \E m \in 1..Len(window') : window'[m].id = i /\ window'[m].kind # "close"
        BY <1>1, <1>3, <2>1, <2>2
    <2>4. Head(queue).id = i /\ Head(queue).kind # "close"
            => \E m \in 1..Len(window') : window'[m].id = i /\ window'[m].kind # "close"
        BY <1>1, <1>3, <2>1, <2>2
    <2>5. ASSUME NEW m \in 1..Len(queue), queue[m].id = i, queue[m].kind # "close" PROVE Awaited(i)'
        <3>1. \/ Head(queue).id = i /\ Head(queue).kind # "close"
              \/ \E n \in 1..Len(queue') : queue'[n].id = i /\ queue'[n].kind # "close"
            BY <1>1, <1>2, <2>1, <2>5
        <3> QED BY <2>4, <3>1 DEF Awaited
    <2> QED BY <2>1, <2>3, <2>5 DEF Awaited
<1>6. CASE Deadline \/ SplitFire \/ SplitEnd
    <2>1. UNCHANGED <<queue, window, replies, batches, connects>> BY <1>6 DEF Deadline, SplitFire, SplitEnd
    <2> QED BY <2>1 DEF Awaited
<1>7. CASE SplitConnect \/ SplitClose \/ SplitPush
    <2>1. /\ Splitting /\ window # <<>> /\ window' = Tail(window) /\ UNCHANGED <<queue, batches>>
          /\ replies \subseteq replies' /\ connects \subseteq connects'
        BY <1>7 DEF SplitConnect, SplitClose, SplitPush, Splitting
    <2>2. Head(window).kind # "close" => Head(window).id \in connects' \/ \E e \in replies' : e.id = Head(window).id
        <3>1. CASE SplitConnect BY <3>1 DEF SplitConnect
        <3>2. CASE SplitClose BY <3>2 DEF SplitClose
        <3>3. CASE SplitPush
            <4>1. [idx |-> Len(ops) + 1, id |-> Head(window).id] \in replies' BY <3>3 DEF SplitPush
            <4> QED BY <4>1
        <3> QED BY <1>7, <3>1, <3>2, <3>3
    <2>3. ASSUME NEW m \in 1..Len(window), window[m].id = i, window[m].kind # "close" PROVE Awaited(i)'
        <3>1. \/ Head(window).id = i /\ Head(window).kind # "close"
              \/ \E n \in 1..Len(window') : window'[n].id = i /\ window'[n].kind # "close"
            BY <1>1, <1>2, <2>1, <2>3
        <3> QED BY <2>2, <3>1 DEF Awaited
    <2> QED BY <2>1, <2>3 DEF Awaited
<1>8. CASE Acquire
    <2> DEFINE b == [script |-> script, ops |-> ops, replies |-> replies]
    <2>1. b \in batches' /\ b.replies = replies /\ batches \subseteq batches' /\ UNCHANGED <<queue, window, connects>>
        BY <1>8 DEF Acquire
    <2> HIDE DEF b
    <2> QED BY <2>1 DEF Awaited
<1>9. ASSUME NEW b \in batches, TripOver(b) PROVE Awaited(i)' \/ answer'[i] # NoAnswer
    <2>1. batches' = batches \ {b} /\ UNCHANGED <<queue, window, replies, connects>> BY <1>1, <1>9, OverAnswers DEF Finish
    <2>2. (\E e \in b.replies : e.id = i) => answer'[i] # NoAnswer BY <1>1, <1>9, OverAnswers
    <2> QED BY <2>1, <2>2 DEF Awaited
<1>10. ASSUME NEW j \in Ids, ConnectDone(j) PROVE Awaited(i)' \/ answer'[i] # NoAnswer
    <2>1. connects' = connects \ {j} /\ UNCHANGED <<queue, window, replies, batches>> BY <1>10 DEF ConnectDone
    <2>2. answer'[j] # NoAnswer
        <3>1. PICK a \in {j, Failed} : answer' = [answer EXCEPT ![j] = a] BY <1>10 DEF ConnectDone
        <3>2. answer'[j] = a BY <3>1 DEF PlaceInv
        <3> QED BY <3>1, <3>2, MuxAssumption DEF Ids, Failed, NoAnswer
    <2>3. CASE i = j BY <2>2, <2>3
    <2>4. CASE i # j BY <2>1, <2>4 DEF Awaited
    <2> QED BY <2>3, <2>4
<1> QED BY <1>4, <1>5, <1>6, <1>7, <1>8, <1>9, <1>10 DEF MuxNext, MuxStep, TripOver

\* An answered op has left every place from which it could be answered.
LEMMA AnswersStay ==
    ASSUME AlignInv, PlaceInv, MuxNext, NEW i \in Ids, answer[i] # NoAnswer
    PROVE  answer'[i] = answer[i]
<1> USE DEF accum, mux, flight
<1>1. TripsAligned BY DEF AlignInv
<1>2. i \notin connects /\ \A b \in batches : i \notin IdsIn(b.ops)
    <2>1. Held["answered"] \cap Held["trips"] = {} /\ Held["answered"] \cap Held["connects"] = {}
        BY DEF PlaceInv, Apart, Stages
    <2>2. /\ i \in Held["answered"] /\ Held["trips"] = UNION {IdsIn(b.ops) : b \in batches}
          /\ Held["connects"] = connects
        BY DEF Held
    <2> QED BY <2>1, <2>2
<1>3. ASSUME NEW b \in batches, TripOver(b) PROVE answer'[i] = answer[i]
    <2>1. \A e \in b.replies : e.id # i BY <1>1, <1>2, <1>3, OverAnswers
    <2> QED BY <1>1, <1>3, <2>1, OverAnswers
<1>4. ASSUME NEW j \in Ids, ConnectDone(j) PROVE answer'[i] = answer[i]
    <2>1. i # j BY <1>2, <1>4 DEF ConnectDone
    <2> QED BY <1>4, <2>1 DEF ConnectDone, PlaceInv
<1>5. (\E k \in Kinds, z \in Sizes : SendMsg(k, z)) \/ MuxStep => answer' = answer
    BY DEF SendMsg, MuxStep, Recv, Coalesce, Deadline, SplitConnect, SplitClose, SplitFire, SplitPush, SplitEnd, Acquire
<1> QED BY <1>3, <1>4, <1>5 DEF MuxNext, TripOver

\* For every number of deployments, permits, ops and caps, and whichever way a
\* round trip ends: a step that takes an op off its way to the node answers it, and
\* no op is answered again.
THEOREM EveryOpOnce == MuxSpec => AnsweredOnce
<1>1. AlignInv /\ PlaceInv /\ [MuxNext]_muxVars => AlignInv' /\ PlaceInv' BY AlignStep, PlaceStep
<1>2. AlignInv /\ PlaceInv /\ [MuxNext]_muxVars => [OpsKept]_muxVars
    BY WaitersKeep, AnswersStay DEF OpsKept
<1> QED BY <1>1, <1>2, AlignInit, PlaceInit, PTL DEF MuxSpec, AnsweredOnce

-----------------------------------------------------------------------------
(* Elevated sessions *)

\* The sessions between their load and their add count too: at the load the
\* counter was below max_elevated, and at most all sessions are in between.
RaceBounded == counter + Cardinality(Passed) <= MaxElevated + Cardinality(Sess) - 1

EInv ==
  /\ esess \in [Sess -> {"low", "passed", "high", "over"}]
  /\ counter \in Nat /\ leaks \in Nat
  /\ counter = Cardinality(Holders) + leaks
  /\ RaceBounded

\* Counting the sessions in one of two states.
LEMMA Counts ==
  /\ Cardinality(Sess) \in Nat
  /\ IsFiniteSet(Holders) /\ Cardinality(Holders) \in Nat
  /\ IsFiniteSet(Passed) /\ Cardinality(Passed) \in Nat /\ Cardinality(Passed) <= Cardinality(Sess)
<1>1. IsFiniteSet(Sess) BY ElevAssumption
<1>2. Holders \subseteq Sess /\ Passed \subseteq Sess BY DEF Holders, Passed
<1> QED BY <1>1, <1>2, FS_Subset, FS_CardinalityType

\* A step of one session moves it into a set, out of it, or leaves the set alone.
LEMMA OneJoins ==
  ASSUME NEW S, IsFiniteSet(S), NEW x, x \notin S
  PROVE  Cardinality(S \cup {x}) = Cardinality(S) + 1
  BY FS_AddElement

\* One session leaves.
LEMMA OneLeaves ==
  ASSUME NEW S, IsFiniteSet(S), NEW x \in S
  PROVE  Cardinality(S \ {x}) = Cardinality(S) - 1 /\ Cardinality(S) >= 1
<1>1. Cardinality(S \ {x}) = Cardinality(S) - 1 BY FS_RemoveElement
<1>2. IsFiniteSet(S \ {x}) BY FS_RemoveElement
<1> QED BY <1>1, <1>2, FS_CardinalityType

\* All sessions are low.
LEMMA ElevInitial == ElevInit => EInv
<1> SUFFICES ASSUME ElevInit PROVE EInv OBVIOUS
<1>1. Holders = {} /\ Passed = {} BY DEF ElevInit, Holders, Passed
<1>2. Cardinality(Holders) = 0 /\ Cardinality(Passed) = 0 BY <1>1, FS_EmptySet
<1> QED BY <1>2, Counts, ElevAssumption DEF ElevInit, EInv, RaceBounded

\* Every step keeps the count.
LEMMA ElevStep == EInv /\ [ElevNext]_elevvars => EInv'
<1> SUFFICES ASSUME EInv, [ElevNext]_elevvars PROVE EInv'
  OBVIOUS
<1>0. UNCHANGED elevvars \/ \E s \in Sess :
        ElevLoad(s) \/ ElevAdd(s) \/ RampDown(s) \/ ElevLeave(s) \/ ElevWriteFails(s) \/ ElevReopen(s)
  BY DEF ElevNext
<1>1. CASE UNCHANGED elevvars
  BY <1>1 DEF elevvars, EInv, RaceBounded, Holders, Passed
<1>2. ASSUME NEW s \in Sess, ElevLoad(s) PROVE EInv'
  <2>1. esess[s] = "low" /\ counter < MaxElevated /\ esess' = [esess EXCEPT ![s] = "passed"] /\ UNCHANGED <<counter, leaks>>
    BY <1>2 DEF ElevLoad, MayElevate
  <2>2. Holders' = Holders /\ Passed' \subseteq Sess
    BY <2>1 DEF EInv, Holders, Passed
  <2>3. Cardinality(Passed') \in Nat /\ Cardinality(Passed') <= Cardinality(Sess)
    BY <2>2, ElevAssumption, FS_Subset, FS_CardinalityType
  <2> QED BY <2>1, <2>2, <2>3, Counts, ElevAssumption DEF EInv, RaceBounded
<1>3. ASSUME NEW s \in Sess, ElevAdd(s) PROVE EInv'
  <2>1. esess[s] = "passed" /\ esess' = [esess EXCEPT ![s] = "high"] /\ counter' = counter + 1 /\ UNCHANGED leaks
    BY <1>3 DEF ElevAdd
  <2>2. Holders' = Holders \cup {s} /\ Passed' = Passed \ {s} /\ s \notin Holders /\ s \in Passed
    BY <2>1 DEF EInv, Holders, Passed
  <2>3. Cardinality(Holders') = Cardinality(Holders) + 1 BY <2>2, Counts, OneJoins
  <2>4. Cardinality(Passed') = Cardinality(Passed) - 1 BY <2>2, Counts, OneLeaves
  <2> QED BY <2>1, <2>3, <2>4, Counts, ElevAssumption DEF EInv, RaceBounded
<1>4. ASSUME NEW s \in Sess, esess[s] = "high", NEW p \in {"low", "over"}, esess' = [esess EXCEPT ![s] = p],
             counter' + leaks + 1 = counter + leaks', counter' \in {counter, counter - 1}, leaks' \in Nat
      PROVE  EInv'
  <2>1. Holders' = Holders \ {s} /\ s \in Holders /\ Passed' = Passed
    BY <1>4 DEF EInv, Holders, Passed
  <2>2. Cardinality(Holders') = Cardinality(Holders) - 1 /\ Cardinality(Holders) >= 1
    BY <2>1, Counts, OneLeaves
  <2>3. esess' \in [Sess -> {"low", "passed", "high", "over"}] BY <1>4 DEF EInv
  <2> QED BY <1>4, <2>1, <2>2, <2>3, Counts, ElevAssumption DEF EInv, RaceBounded
<1>5. ASSUME NEW s \in Sess, RampDown(s) PROVE EInv'
  <2>1. esess[s] = "high" /\ esess' = [esess EXCEPT ![s] = "low"] /\ counter' = counter - 1 /\ leaks' = leaks
    BY <1>5 DEF RampDown
  <2>2. counter' + leaks + 1 = counter + leaks' /\ leaks' \in Nat BY <2>1 DEF EInv
  <2> QED BY <1>4, <2>1, <2>2
<1>6. ASSUME NEW s \in Sess, ElevWriteFails(s) PROVE EInv'
  <2>1. esess[s] = "high" /\ esess' = [esess EXCEPT ![s] = "over"] /\ counter' = counter /\ leaks' = leaks + 1
    BY <1>6 DEF ElevWriteFails
  <2>2. counter' + leaks + 1 = counter + leaks' /\ leaks' \in Nat BY <2>1 DEF EInv
  <2> QED BY <1>4, <2>1, <2>2
<1>7. ASSUME NEW s \in Sess, esess[s] \in {"low", "over"}, NEW p \in {"low", "over"}, esess' = [esess EXCEPT ![s] = p],
             UNCHANGED <<counter, leaks>>
      PROVE  EInv'
  <2>1. Holders' = Holders /\ Passed' = Passed
    BY <1>7 DEF EInv, Holders, Passed
  <2> QED BY <1>7, <2>1 DEF EInv, RaceBounded
<1>8. ASSUME NEW s \in Sess, ElevLeave(s) PROVE EInv'
  <2>1. CASE esess[s] = "high"
    <3>1. esess' = [esess EXCEPT ![s] = "over"] /\ counter' = counter - 1 /\ leaks' = leaks
      BY <1>8, <2>1 DEF ElevLeave
    <3>2. counter' + leaks + 1 = counter + leaks' /\ leaks' \in Nat BY <3>1 DEF EInv
    <3> QED BY <1>4, <2>1, <3>1, <3>2
  <2>2. CASE esess[s] = "low" BY <1>7, <1>8, <2>2 DEF ElevLeave
  <2> QED BY <1>8, <2>1, <2>2 DEF ElevLeave
<1>9. ASSUME NEW s \in Sess, ElevReopen(s) PROVE EInv'
  BY <1>7, <1>9 DEF ElevReopen
<1> QED BY <1>0, <1>1, <1>2, <1>3, <1>5, <1>6, <1>8, <1>9

\* elevated_sessions counts exactly the elevated sessions and the leaked permits,
\* never goes below zero, and exceeds max_elevated by fewer than the sessions there
\* are, however their loads and adds interleave (tunnel_loop).
THEOREM ElevationCounted == ElevSpec => []ElevationBounded
<1>1. EInv => ElevationBounded
  BY Counts, ElevAssumption DEF EInv, RaceBounded, ElevationBounded
<1> QED BY <1>1, ElevInitial, ElevStep, PTL DEF ElevSpec

-----------------------------------------------------------------------------
(* First bytes of a session *)

OpenTyped ==
  /\ ophase \in [Opens -> {"new", "preread", "plain", "data", "loop", "ended"}]
  /\ readAhead \in [Opens -> BOOLEAN] /\ replay \in [Opens -> BOOLEAN] /\ upFirst \in [Opens -> Nat]

\* Where the first bytes are in each phase of a set-up.
FirstBytesAt(s) ==
  /\ ophase[s] \in {"new", "preread"} => ~readAhead[s] /\ ~replay[s] /\ upFirst[s] = 0
  /\ ophase[s] = "data" => readAhead[s] /\ ~replay[s] /\ upFirst[s] = 0
  /\ ophase[s] = "plain" => upFirst[s] = 0 /\ (readAhead[s] <=> replay[s])
  /\ ophase[s] = "loop" => /\ readAhead[s] => (replay[s] <=> upFirst[s] = 0)
                           /\ ~readAhead[s] => ~replay[s] /\ upFirst[s] = 0
  /\ upFirst[s] <= 1

OpenInv == OpenTyped /\ \A s \in Opens : FirstBytesAt(s)

\* No set-up has begun.
LEMMA OpenInitial == OpenInit => OpenInv
  BY DEF OpenInit, OpenInv, OpenTyped, FirstBytesAt

\* A step of one set-up leaves the bytes of the others where they are.
LEMMA OneOpens ==
  ASSUME OpenInv, NEW s \in Opens, OpenTyped', FirstBytesAt(s)',
         \A t \in Opens \ {s} : /\ ophase'[t] = ophase[t] /\ readAhead'[t] = readAhead[t]
                                /\ replay'[t] = replay[t] /\ upFirst'[t] = upFirst[t]
  PROVE  OpenInv'
<1>1. \A t \in Opens \ {s} : FirstBytesAt(t)' BY DEF OpenInv, FirstBytesAt
<1> QED BY <1>1 DEF OpenInv

\* The front end and the read ahead of the connect.
LEMMA PrereadKeeps ==
  ASSUME OpenInv, NEW s \in Opens,
         FrontEnd(s) \/ PrereadSkip(s) \/ PrereadWin(s) \/ PrereadLoss(s) \/ PrereadClosed(s)
  PROVE  OpenInv'
<1>1. PICK p \in {"preread", "plain", "data", "ended"}, a \in BOOLEAN :
        /\ ophase[s] \in {"new", "preread"} /\ ophase' = [ophase EXCEPT ![s] = p]
        /\ readAhead' = [readAhead EXCEPT ![s] = a] /\ UNCHANGED <<replay, upFirst>>
        /\ p = "data" <=> a
  BY DEF FrontEnd, PrereadSkip, PrereadWin, PrereadLoss, PrereadClosed, Goes, OpenInv, OpenTyped, FirstBytesAt
<1>2. OpenTyped' BY <1>1 DEF OpenInv, OpenTyped
<1>3. FirstBytesAt(s)' BY <1>1 DEF OpenInv, OpenTyped, FirstBytesAt
<1> QED BY <1>1, <1>2, <1>3, OneOpens DEF OpenInv, OpenTyped

\* The connect, with or without data, and its failures.
LEMMA ConnectKeeps ==
  ASSUME OpenInv, NEW s \in Opens,
         DataOpened(s) \/ DataUnsupported(s) \/ ConnectRefused(s) \/ ConnectLost(s) \/ PlainOpened(s)
  PROVE  OpenInv'
<1> USE DEF OpenInv, OpenTyped, FirstBytesAt, Goes
<1>1. CASE DataOpened(s)
  <2>1. ophase[s] = "data" /\ UNCHANGED <<readAhead, replay>>
        /\ upFirst' = [upFirst EXCEPT ![s] = @ + 1]
        /\ \E p \in {"loop", "ended"} : ophase' = [ophase EXCEPT ![s] = p]
    BY <1>1 DEF DataOpened
  <2> QED BY <2>1
<1>2. CASE DataUnsupported(s) BY <1>2 DEF DataUnsupported, KeepsFirstBytes
<1>3. CASE ConnectRefused(s) BY <1>3 DEF ConnectRefused
<1>4. CASE ConnectLost(s) BY <1>4 DEF ConnectLost
<1>5. CASE PlainOpened(s) BY <1>5 DEF PlainOpened
<1> QED BY <1>1, <1>2, <1>3, <1>4, <1>5

\* The session loop takes over, and the session ends.
LEMMA LoopKeeps ==
  ASSUME OpenInv, NEW s \in Opens,
         LoopSendsPending(s) \/ LoopReadsFirst(s) \/ LoopOver(s) \/ NodeReaps(s)
  PROVE  OpenInv'
<1> USE DEF OpenInv, OpenTyped, FirstBytesAt, Goes
<1>1. CASE LoopSendsPending(s) BY <1>1 DEF LoopSendsPending
<1>2. CASE LoopReadsFirst(s) BY <1>2 DEF LoopReadsFirst
<1>3. CASE LoopOver(s) BY <1>3 DEF LoopOver
<1>4. CASE NodeReaps(s) BY <1>4 DEF NodeReaps
<1> QED BY <1>1, <1>2, <1>3, <1>4

\* Every step of a set-up.
LEMMA OpenStep == OpenInv /\ [OpenNext]_openvars => OpenInv'
<1> SUFFICES ASSUME OpenInv, [OpenNext]_openvars PROVE OpenInv'
  OBVIOUS
<1>1. CASE UNCHANGED openvars \/ UnreachExpires
  BY <1>1 DEF openvars, UnreachExpires, OpenInv, OpenTyped, FirstBytesAt
<1> QED BY <1>1, PrereadKeeps, ConnectKeeps, LoopKeeps DEF OpenNext

\* The first bytes a client sends go upstream at most once, and those that were
\* taken off the socket have gone upstream or are still due, for any number of
\* sessions and every way from connect_data to its fallback.
THEOREM FirstBytesSentOnce == OpenSpec => []FirstBytesOnce
<1>1. OpenInv => FirstBytesOnce BY DEF OpenInv, OpenTyped, FirstBytesAt, FirstBytesOnce
<1> QED BY <1>1, OpenInitial, OpenStep, PTL DEF OpenSpec
=============================================================================
