-------------------------- MODULE TunnelLoopProofs --------------------------
(***************************************************************************)
(* Proofs about TunnelLoop, for every pipeline depth, every number of ops  *)
(* and every set of replies.                                               *)
(*                                                                         *)
(* Delivery in order is not inductive by itself: it rests on every op that *)
(* is not delivered yet having a seq at or above next_write_seq, with no   *)
(* two of them alike.                                                      *)
(***************************************************************************)
EXTENDS TunnelLoop, SequenceTheorems, FiniteSetTheorems, TLAPS

\* seq belongs to an op that was sent and not delivered.
Outstanding(s) == s \in Nat /\ writeSeq <= s /\ s < sendSeq

CountersNat ==
    sendSeq \in Nat /\ writeSeq \in Nat /\ writeSeq <= sendSeq /\ written \in Seq(Nat)

InflightOutstanding == \A m \in inflightOps : Outstanding(m.seq) /\ m.seq \notin gaveUp

PendingOutstanding == \A p \in pendingW : Outstanding(p.seq) /\ p.seq \notin gaveUp

TimedOutOutstanding == \A s \in gaveUp : Outstanding(s)

\* No two ops share a seq, wherever they are.
SeqsDistinct ==
    /\ \A m, n \in inflightOps : m.seq = n.seq => m = n
    /\ \A p, q \in pendingW : p.seq = q.seq => p = q
    /\ \A m \in inflightOps, p \in pendingW : m.seq # p.seq

OrderInv ==
    /\ CountersNat
    /\ DeliveredInOrder
    /\ InflightOutstanding
    /\ PendingOutstanding
    /\ TimedOutOutstanding
    /\ SeqsDistinct

\* What OrderInv speaks of.
orderVars == <<inflightOps, sendSeq, writeSeq, pendingW, written, gaveUp>>

-----------------------------------------------------------------------------
\* The kinds of step the actions come down to.

\* A step that touches none of it.
LEMMA OrderFrame ==
    ASSUME OrderInv, UNCHANGED orderVars
    PROVE  OrderInv'
BY DEF OrderInv, orderVars, CountersNat, DeliveredInOrder, InflightOutstanding,
       PendingOutstanding, TimedOutOutstanding, SeqsDistinct, Outstanding

\* An op is sent.
LEMMA OrderSend ==
    ASSUME OrderInv, NEW b \in BOOLEAN, SendOp(b),
           UNCHANGED <<writeSeq, pendingW, written, gaveUp>>
    PROVE  OrderInv'
<1> USE DEF OrderInv
<1>1. (CountersNat /\ DeliveredInOrder)'
    BY DEF SendOp, CountersNat, DeliveredInOrder
<1> DEFINE op == [seq |-> sendSeq, poll |-> b]
<1>2. op.seq = sendSeq /\ inflightOps' = inflightOps \cup {op} /\ sendSeq' = sendSeq + 1
    BY DEF SendOp
<1>3. sendSeq \notin gaveUp
    BY DEF CountersNat, TimedOutOutstanding, Outstanding
<1> HIDE DEF op
<1>4. InflightOutstanding'
    BY <1>2, <1>3 DEF CountersNat, InflightOutstanding, Outstanding, TimedOutOutstanding
<1>5. (PendingOutstanding /\ TimedOutOutstanding)'
    BY <1>2 DEF CountersNat, PendingOutstanding, TimedOutOutstanding, Outstanding
<1>6. SeqsDistinct'
    BY <1>2 DEF CountersNat, SeqsDistinct, InflightOutstanding, PendingOutstanding,
                Outstanding
<1> QED BY <1>1, <1>4, <1>5, <1>6

\* Ops leave inflight or pending_writes and nothing is delivered.
LEMMA OrderDrop ==
    ASSUME OrderInv, inflightOps' \subseteq inflightOps, pendingW' \subseteq pendingW,
           UNCHANGED <<sendSeq, writeSeq, written, gaveUp>>
    PROVE  OrderInv'
<1> USE DEF OrderInv
<1>1. (CountersNat /\ DeliveredInOrder)'
    BY DEF CountersNat, DeliveredInOrder
<1>2. (InflightOutstanding /\ PendingOutstanding /\ TimedOutOutstanding)'
    BY DEF InflightOutstanding, PendingOutstanding, TimedOutOutstanding, Outstanding
<1>3. SeqsDistinct'
    BY DEF SeqsDistinct
<1> QED BY <1>1, <1>2, <1>3

\* A reply waits in pending_writes.
LEMMA OrderBuffer ==
    ASSUME OrderInv, NEW m \in inflightOps, NEW r,
           inflightOps' = inflightOps \ {m},
           pendingW' = pendingW \cup {[seq |-> m.seq, poll |-> m.poll, resp |-> r]},
           UNCHANGED <<sendSeq, writeSeq, written, gaveUp>>
    PROVE  OrderInv'
<1> USE DEF OrderInv
<1>1. (CountersNat /\ DeliveredInOrder)'
    BY DEF CountersNat, DeliveredInOrder
<1>2. (InflightOutstanding /\ PendingOutstanding /\ TimedOutOutstanding)'
    BY DEF InflightOutstanding, PendingOutstanding, TimedOutOutstanding, Outstanding
<1>3. SeqsDistinct'
    BY DEF SeqsDistinct
<1> QED BY <1>1, <1>2, <1>3

\* A reply is given up.
LEMMA OrderTimeout ==
    ASSUME OrderInv, NEW m \in inflightOps,
           inflightOps' = inflightOps \ {m},
           gaveUp' = gaveUp \cup {m.seq},
           UNCHANGED <<sendSeq, writeSeq, written, pendingW>>
    PROVE  OrderInv'
<1> USE DEF OrderInv
<1>1. (CountersNat /\ DeliveredInOrder)'
    BY DEF CountersNat, DeliveredInOrder
<1>2. (InflightOutstanding /\ PendingOutstanding /\ TimedOutOutstanding)'
    BY DEF InflightOutstanding, PendingOutstanding, TimedOutOutstanding, Outstanding,
           SeqsDistinct
<1>3. SeqsDistinct'
    BY DEF SeqsDistinct
<1> QED BY <1>1, <1>2, <1>3

\* A buffered reply is given up.
LEMMA OrderBad ==
    ASSUME OrderInv, NEW p \in pendingW,
           pendingW' = pendingW \ {p},
           gaveUp' = gaveUp \cup {p.seq},
           UNCHANGED <<sendSeq, writeSeq, written, inflightOps>>
    PROVE  OrderInv'
<1> USE DEF OrderInv
<1>1. (CountersNat /\ DeliveredInOrder)'
    BY DEF CountersNat, DeliveredInOrder
<1>2. (InflightOutstanding /\ PendingOutstanding /\ TimedOutOutstanding)'
    BY DEF InflightOutstanding, PendingOutstanding, TimedOutOutstanding, Outstanding,
           SeqsDistinct
<1>3. SeqsDistinct'
    BY DEF SeqsDistinct
<1> QED BY <1>1, <1>2, <1>3

\* One more reply is written: the sequence stays gapless.
LEMMA OrderAppend ==
    ASSUME CountersNat, DeliveredInOrder, NEW s, s = writeSeq, WriteOut(s)
    PROVE  (writeSeq \in Nat /\ written \in Seq(Nat) /\ DeliveredInOrder)'
<1>1. /\ written' \in Seq(Nat)
      /\ Len(written') = Len(written) + 1
      /\ \A i \in 1..Len(written) : written'[i] = written[i]
      /\ written'[Len(written) + 1] = s
    BY AppendProperties DEF WriteOut, CountersNat
<1>2. Len(written) \in Nat
    BY LenProperties DEF CountersNat
<1> QED BY <1>1, <1>2 DEF WriteOut, CountersNat, DeliveredInOrder

\* The expected reply is written from inflight.
LEMMA OrderWriteInflight ==
    ASSUME OrderInv, NEW m \in inflightOps, m.seq = writeSeq, WriteOut(m.seq),
           inflightOps' = inflightOps \ {m},
           UNCHANGED <<sendSeq, pendingW, gaveUp>>
    PROVE  OrderInv'
<1> USE DEF OrderInv
<1>1. (CountersNat /\ DeliveredInOrder)'
    BY OrderAppend DEF CountersNat, WriteOut, InflightOutstanding, Outstanding
<1>2. (InflightOutstanding /\ PendingOutstanding /\ TimedOutOutstanding)'
    BY DEF WriteOut, CountersNat, InflightOutstanding, PendingOutstanding,
           TimedOutOutstanding, Outstanding, SeqsDistinct
<1>3. SeqsDistinct'
    BY DEF SeqsDistinct
<1> QED BY <1>1, <1>2, <1>3

\* The expected reply is written from pending_writes.
LEMMA OrderWritePending ==
    ASSUME OrderInv, NEW p \in pendingW, p.seq = writeSeq, WriteOut(p.seq),
           pendingW' = pendingW \ {p},
           UNCHANGED <<sendSeq, inflightOps, gaveUp>>
    PROVE  OrderInv'
<1> USE DEF OrderInv
<1>1. (CountersNat /\ DeliveredInOrder)'
    BY OrderAppend DEF CountersNat, WriteOut, PendingOutstanding, Outstanding
<1>2. (InflightOutstanding /\ PendingOutstanding /\ TimedOutOutstanding)'
    BY DEF WriteOut, CountersNat, InflightOutstanding, PendingOutstanding,
           TimedOutOutstanding, Outstanding, SeqsDistinct
<1>3. SeqsDistinct'
    BY DEF SeqsDistinct
<1> QED BY <1>1, <1>2, <1>3
-----------------------------------------------------------------------------

\* Nothing is sent.
LEMMA OrderInit == LoopInit => OrderInv
BY EmptySeq DEF LoopInit, OrderInv, CountersNat, DeliveredInOrder, InflightOutstanding,
                PendingOutstanding, TimedOutOutstanding, SeqsDistinct

\* The pre-fill sends the first InflightOptimist ops at once.
LEMMA OrderStart ==
    ASSUME OrderInv, Start, sendSeq = 0, inflightOps = {}, pendingW = {}, gaveUp = {}
    PROVE  OrderInv'
<1> USE DEF OrderInv, InflightOptimist
<1>1. PICK data \in {TRUE, FALSE} :
         inflightOps' = {[seq |-> s, poll |-> ~(data /\ s = 0)] : s \in 0..1}
    BY DEF Start
<1>2. \A m \in inflightOps' : m.seq \in 0..1 /\ m = [seq |-> m.seq, poll |-> ~(data /\ m.seq = 0)]
    BY <1>1
<1>3. sendSeq' = 2 /\ writeSeq' = writeSeq /\ pendingW' = {} /\ written' = written
         /\ gaveUp' = {} /\ writeSeq = 0
    BY DEF Start, history, CountersNat
<1>4. (CountersNat /\ DeliveredInOrder)'
    BY <1>3 DEF CountersNat, DeliveredInOrder
<1>5. (InflightOutstanding /\ PendingOutstanding /\ TimedOutOutstanding)'
    BY <1>2, <1>3 DEF InflightOutstanding, PendingOutstanding, TimedOutOutstanding,
                      Outstanding
<1>6. SeqsDistinct'
    BY <1>2, <1>3 DEF SeqsDistinct
<1> QED BY <1>4, <1>5, <1>6

\* Before the pre-fill nothing was sent.
BeforeStart ==
    lpc = "start" => sendSeq = 0 /\ inflightOps = {} /\ pendingW = {} /\ gaveUp = {}

\* Every step of the task keeps the invariant, one case per action.
LEMMA OrderStep ==
    ASSUME OrderInv, BeforeStart, LoopNext
    PROVE  OrderInv'
<1> USE DEF pipe, history, depthVars, counters, orderVars
<1>1. CASE Start
    BY <1>1, OrderStart DEF BeforeStart, Start
<1>2. CASE ReadData
    <2>1. SendOp(FALSE) /\ UNCHANGED <<writeSeq, pendingW, written, gaveUp>>
        BY <1>2 DEF ReadData, SendData
    <2> QED BY <2>1, OrderSend
<1>3. CASE KeepaliveData
    <2>1. SendOp(FALSE) /\ UNCHANGED <<writeSeq, pendingW, written, gaveUp>>
        BY <1>3 DEF KeepaliveData, SendData
    <2> QED BY <2>1, OrderSend
<1>4. CASE KeepalivePoll
    <2>1. SendOp(TRUE) /\ UNCHANGED <<writeSeq, pendingW, written, gaveUp>>
        BY <1>4 DEF KeepalivePoll, SendPoll
    <2> QED BY <2>1, OrderSend
<1>5. CASE RefillFires
    <2>1. CASE UNCHANGED pipe
        BY <2>1, <1>5, OrderFrame DEF RefillFires
    <2>2. CASE SendPoll
        BY <2>2, <1>5, OrderSend DEF RefillFires, SendPoll
    <2> QED BY <2>1, <2>2, <1>5 DEF RefillFires
<1>6. CASE ReadClose
    BY <1>6, OrderFrame DEF ReadClose
<1>7. CASE FlushBreak
    BY <1>7, OrderFrame DEF FlushBreak
<1>8. CASE Adjust
    BY <1>8, OrderFrame DEF Adjust
<1>9. CASE GraceFlushEnd
    BY <1>9, OrderFrame DEF GraceFlushEnd
<1>10. CASE GraceOver
    BY <1>10, OrderFrame DEF GraceOver
<1>11. CASE Exit
    BY <1>11, OrderFrame DEF Exit
<1>12. CASE KeepaliveClose
    BY <1>12, OrderFrame DEF KeepaliveClose
<1>13. CASE FlushNext
    BY <1>13, OrderWritePending DEF FlushNext, Deliver
<1>14. CASE FlushBad
    BY <1>14, OrderBad DEF FlushBad, pipe
<1>15. CASE FlushFails
    BY <1>15, OrderDrop DEF FlushFails
<1>16. CASE GraceFlush
    BY <1>16, OrderWritePending DEF GraceFlush
<1>17. ASSUME NEW m \in inflightOps, NoReply(m) PROVE OrderInv'
    <2>1. CASE ReplyFails(m)
        BY <2>1, OrderDrop DEF ReplyFails
    <2>2. CASE LocalWriteFails(m)
        BY <2>2, OrderDrop DEF LocalWriteFails
    <2>3. CASE ReplyTimeout(m)
        BY <2>3, OrderTimeout DEF ReplyTimeout
    <2> QED BY <1>17, <2>1, <2>2, <2>3 DEF NoReply
<1>18. ASSUME NEW m \in inflightOps, NEW r \in Responses, Reply(m, r) PROVE OrderInv'
    <2>1. CASE ReplyInOrder(m, r)
        BY <2>1, OrderWriteInflight DEF ReplyInOrder, Deliver
    <2>2. CASE ReplyAhead(m, r)
        BY <2>2, OrderBuffer DEF ReplyAhead
    <2>3. CASE GraceInOrder(m, r)
        BY <2>3, OrderWriteInflight DEF GraceInOrder
    <2>4. CASE GraceAhead(m, r)
        BY <2>4, OrderBuffer DEF GraceAhead
    <2> QED BY <1>18, <2>1, <2>2, <2>3, <2>4 DEF Reply
<1> QED BY <1>1, <1>2, <1>3, <1>4, <1>5, <1>6, <1>7, <1>8, <1>9, <1>10, <1>11, <1>12, <1>13, <1>14, <1>15, <1>16, <1>17, <1>18 DEF LoopNext, Local

\* No step comes back before the pre-fill.
LEMMA StartedStays ==
    ASSUME LoopNext
    PROVE  BeforeStart'
<1>1. ASSUME Local PROVE lpc' # "start"
    BY <1>1 DEF Local, Start, ReadData, ReadClose, KeepaliveData, KeepalivePoll,
        KeepaliveClose, RefillFires, FlushNext, FlushBad, FlushFails, FlushBreak, Adjust,
        GraceFlush, GraceFlushEnd, GraceOver, Exit, Leave, InSelect, InKeepalive, InGrace
<1>2. ASSUME NEW m \in inflightOps, NoReply(m) PROVE lpc' # "start"
    BY <1>2 DEF NoReply, ReplyFails, LocalWriteFails, ReplyTimeout, Leave, InSelect
<1>3. ASSUME NEW m \in inflightOps, NEW r \in Responses, Reply(m, r) PROVE lpc' # "start"
    BY <1>3 DEF Reply, ReplyInOrder, ReplyAhead, GraceInOrder, GraceAhead, InSelect, InGrace
<1> QED BY <1>1, <1>2, <1>3 DEF LoopNext, BeforeStart

\* tunnel_loop hands the replies to the local socket in the order their ops were
\* sent, without a gap (DeliveredInOrder), and never goes past a reply it gave up
\* (GivenUpNotPassed): for every depth, every number of ops and every mix of
\* replies, timeouts and failures.
THEOREM DeliveryOrder == LoopSpec => [](DeliveredInOrder /\ GivenUpNotPassed)
<1>1. LoopInit => OrderInv /\ BeforeStart
    BY OrderInit DEF LoopInit, BeforeStart
<1>2. OrderInv /\ BeforeStart /\ [LoopNext]_loopVars => (OrderInv /\ BeforeStart)'
    <2> SUFFICES ASSUME OrderInv, BeforeStart, [LoopNext]_loopVars
                 PROVE  (OrderInv /\ BeforeStart)'
        OBVIOUS
    <2>1. CASE LoopNext
        BY <2>1, OrderStep, StartedStays
    <2>2. CASE UNCHANGED loopVars
        BY <2>2, OrderFrame DEF loopVars, orderVars, pipe, history, BeforeStart
    <2> QED BY <2>1, <2>2
<1>3. OrderInv => DeliveredInOrder /\ GivenUpNotPassed
    BY DEF OrderInv, GivenUpNotPassed, TimedOutOutstanding, Outstanding
<1> QED BY <1>1, <1>2, <1>3, PTL DEF LoopSpec

-----------------------------------------------------------------------------
(* Where each op is *)

\* While the task runs, each op sent and not delivered is in one of the places.
AllHeld ==
    \A s \in Nat : Outstanding(s) =>
        \/ s \in gaveUp
        \/ \E m \in inflightOps : m.seq = s
        \/ \E p \in pendingW : p.seq = s

Finite == IsFiniteSet(inflightOps) /\ IsFiniteSet(pendingW) /\ IsFiniteSet(gaveUp)

Held == Cardinality(inflightOps) + Cardinality(pendingW) + Cardinality(gaveUp)

Counted == AllHeld /\ writeSeq + Held = sendSeq

CountInv == Finite /\ (~Ended => Counted)

\* The counts are naturals.
LEMMA HeldNat ==
    ASSUME Finite
    PROVE  /\ Cardinality(inflightOps) \in Nat /\ Cardinality(pendingW) \in Nat
           /\ Cardinality(gaveUp) \in Nat
BY FS_CardinalityType DEF Finite

\* One more.
LEMMA Joins ==
    ASSUME NEW S, IsFiniteSet(S), NEW x, x \notin S
    PROVE  /\ IsFiniteSet(S \cup {x}) /\ Cardinality(S \cup {x}) = Cardinality(S) + 1
           /\ Cardinality(S) \in Nat
BY FS_AddElement, FS_CardinalityType

\* One less.
LEMMA Leaves ==
    ASSUME NEW S, IsFiniteSet(S), NEW x \in S
    PROVE  /\ IsFiniteSet(S \ {x}) /\ Cardinality(S \ {x}) = Cardinality(S) - 1
           /\ Cardinality(S) \in Nat
BY FS_RemoveElement, FS_CardinalityType

\* A step that moves no op.
LEMMA CountFrame ==
    ASSUME Finite, Counted, UNCHANGED orderVars
    PROVE  (Finite /\ Counted)'
BY DEF Finite, Counted, AllHeld, Held, Outstanding, orderVars

\* An op is sent.
LEMMA CountSend ==
    ASSUME OrderInv, Finite, Counted, NEW b \in BOOLEAN, SendOp(b),
           UNCHANGED <<writeSeq, pendingW, written, gaveUp>>
    PROVE  (Finite /\ Counted)'
<1> DEFINE op == [seq |-> sendSeq, poll |-> b]
<1>1. op.seq = sendSeq /\ inflightOps' = inflightOps \cup {op} /\ sendSeq' = sendSeq + 1
    BY DEF SendOp
<1> HIDE DEF op
<1>2. sendSeq \in Nat /\ writeSeq \in Nat BY DEF OrderInv, CountersNat
<1>3. op \notin inflightOps BY <1>1, <1>2 DEF OrderInv, InflightOutstanding, Outstanding
<1>4. IsFiniteSet(inflightOps') /\ Cardinality(inflightOps') = Cardinality(inflightOps) + 1
    BY <1>1, <1>3, Joins DEF Finite
<1>5. AllHeld'
    BY <1>1, <1>2 DEF Counted, AllHeld, Outstanding
<1> QED BY <1>1, <1>2, <1>4, <1>5, HeldNat DEF Finite, Counted, Held

\* An op leaves inflight for the socket, pending_writes or the ones given up.
LEMMA CountInflightMoves ==
    ASSUME OrderInv, Finite, Counted, NEW m \in inflightOps, inflightOps' = inflightOps \ {m},
           UNCHANGED sendSeq,
           \/ /\ m.seq = writeSeq /\ writeSeq' = writeSeq + 1
              /\ UNCHANGED <<pendingW, gaveUp>>
           \/ /\ \E r : pendingW' = pendingW \cup {[seq |-> m.seq, poll |-> m.poll, resp |-> r]}
              /\ UNCHANGED <<writeSeq, gaveUp>>
           \/ gaveUp' = gaveUp \cup {m.seq} /\ UNCHANGED <<writeSeq, pendingW>>
    PROVE  (Finite /\ Counted)'
<1>1. IsFiniteSet(inflightOps') /\ Cardinality(inflightOps') = Cardinality(inflightOps) - 1
    BY Leaves DEF Finite
<1>2. sendSeq \in Nat /\ writeSeq \in Nat BY DEF OrderInv, CountersNat
<1>3. CASE m.seq = writeSeq /\ writeSeq' = writeSeq + 1 /\ UNCHANGED <<pendingW, gaveUp>>
    <2>1. AllHeld' BY <1>2, <1>3 DEF Counted, AllHeld, Outstanding
    <2> QED BY <1>1, <1>2, <1>3, <2>1, HeldNat DEF Finite, Counted, Held
<1>4. ASSUME NEW r, pendingW' = pendingW \cup {[seq |-> m.seq, poll |-> m.poll, resp |-> r]},
             UNCHANGED <<writeSeq, gaveUp>>
      PROVE  (Finite /\ Counted)'
    <2> DEFINE p == [seq |-> m.seq, poll |-> m.poll, resp |-> r]
    <2>1. p.seq = m.seq OBVIOUS
    <2>2. p \notin pendingW BY <2>1 DEF OrderInv, SeqsDistinct
    <2>3. pendingW' = pendingW \cup {p} BY <1>4
    <2> HIDE DEF p
    <2>4. IsFiniteSet(pendingW') /\ Cardinality(pendingW') = Cardinality(pendingW) + 1
        BY <2>2, <2>3, Joins DEF Finite
    <2>5. AllHeld' BY <1>2, <1>4, <2>1, <2>3 DEF Counted, AllHeld, Outstanding
    <2> QED BY <1>1, <1>2, <1>4, <2>4, <2>5, HeldNat DEF Finite, Counted, Held
<1>5. CASE gaveUp' = gaveUp \cup {m.seq} /\ UNCHANGED <<writeSeq, pendingW>>
    <2>1. m.seq \notin gaveUp BY DEF OrderInv, InflightOutstanding
    <2>2. IsFiniteSet(gaveUp') /\ Cardinality(gaveUp') = Cardinality(gaveUp) + 1
        BY <1>5, <2>1, Joins DEF Finite
    <2>3. AllHeld' BY <1>2, <1>5 DEF Counted, AllHeld, Outstanding
    <2> QED BY <1>1, <1>2, <1>5, <2>2, <2>3, HeldNat DEF Finite, Counted, Held
<1> QED BY <1>3, <1>4, <1>5

\* A buffered reply goes to the socket or is given up.
LEMMA CountPendingMoves ==
    ASSUME OrderInv, Finite, Counted, NEW p \in pendingW, pendingW' = pendingW \ {p},
           UNCHANGED <<sendSeq, inflightOps>>,
           \/ p.seq = writeSeq /\ writeSeq' = writeSeq + 1 /\ UNCHANGED gaveUp
           \/ gaveUp' = gaveUp \cup {p.seq} /\ UNCHANGED writeSeq
    PROVE  (Finite /\ Counted)'
<1>1. IsFiniteSet(pendingW') /\ Cardinality(pendingW') = Cardinality(pendingW) - 1
    BY Leaves DEF Finite
<1>2. sendSeq \in Nat /\ writeSeq \in Nat BY DEF OrderInv, CountersNat
<1>3. CASE p.seq = writeSeq /\ writeSeq' = writeSeq + 1 /\ UNCHANGED gaveUp
    <2>1. AllHeld' BY <1>2, <1>3 DEF Counted, AllHeld, Outstanding
    <2> QED BY <1>1, <1>2, <1>3, <2>1, HeldNat DEF Finite, Counted, Held
<1>4. CASE gaveUp' = gaveUp \cup {p.seq} /\ UNCHANGED writeSeq
    <2>1. p.seq \notin gaveUp BY DEF OrderInv, PendingOutstanding
    <2>2. IsFiniteSet(gaveUp') /\ Cardinality(gaveUp') = Cardinality(gaveUp) + 1
        BY <1>4, <2>1, Joins DEF Finite
    <2>3. AllHeld' BY <1>2, <1>4 DEF Counted, AllHeld, Outstanding
    <2> QED BY <1>1, <1>2, <1>4, <2>2, <2>3, HeldNat DEF Finite, Counted, Held
<1> QED BY <1>3, <1>4

\* The pre-fill.
LEMMA CountStart ==
    ASSUME OrderInv, BeforeStart, Start
    PROVE  (Finite /\ Counted)'
<1> USE DEF InflightOptimist
<1>1. PICK data \in {TRUE, FALSE} :
         inflightOps' = {[seq |-> s, poll |-> ~(data /\ s = 0)] : s \in 0..1}
    BY DEF Start
<1>2. sendSeq' = 2 /\ pendingW' = {} /\ gaveUp' = {} /\ writeSeq' = 0
    BY DEF Start, history, BeforeStart, OrderInv, CountersNat
<1> DEFINE op(s) == [seq |-> s, poll |-> ~(data /\ s = 0)]
           a == op(0)
           b == op(1)
<1>3. inflightOps' = {a, b}
    <2>1. 0..1 = {0, 1} OBVIOUS
    <2>2. inflightOps' = {op(s) : s \in {0, 1}} BY <1>1, <2>1
    <2> HIDE DEF op
    <2> QED BY <2>2
<1>4. a.seq = 0 /\ b.seq = 1 OBVIOUS
<1> HIDE DEF a, b
<1>5. a # b BY <1>4
<1>6. IsFiniteSet(inflightOps') /\ Cardinality(inflightOps') = 2
    <2>1. IsFiniteSet({a}) /\ Cardinality({a}) = 1 BY FS_Singleton
    <2>2. {a, b} = {a} \cup {b} /\ b \notin {a} BY <1>5
    <2> QED BY <1>3, <2>1, <2>2, Joins
<1>7. IsFiniteSet({}) /\ Cardinality({}) = 0 BY FS_EmptySet
<1>8. AllHeld' BY <1>2, <1>3, <1>4 DEF AllHeld, Outstanding
<1> QED BY <1>2, <1>6, <1>7, <1>8 DEF Finite, Counted, Held

\* Every step of the loop.
LEMMA CountStep ==
    ASSUME OrderInv, BeforeStart, CountInv, LoopNext
    PROVE  CountInv'
<1> USE DEF pipe, history, depthVars, counters, orderVars
<1>0. lpc \notin {"done", "failed"}
    BY DEF LoopNext, Local, Start, ReadData, ReadClose, KeepaliveData, KeepalivePoll,
        KeepaliveClose, RefillFires, FlushNext, FlushBad, FlushFails, FlushBreak, Adjust,
        GraceFlush, GraceFlushEnd, GraceOver, Exit, InSelect, InKeepalive, InGrace,
        NoReply, ReplyFails, LocalWriteFails, ReplyTimeout, Reply, ReplyInOrder, ReplyAhead,
        GraceInOrder, GraceAhead
<1>1. Finite /\ Counted BY <1>0 DEF CountInv, Ended
<1>2. ASSUME (Finite /\ Counted)' PROVE CountInv' BY <1>2 DEF CountInv
<1>3. ASSUME UNCHANGED orderVars PROVE CountInv' BY <1>1, <1>2, <1>3, CountFrame
<1>4. CASE Start BY <1>2, <1>4, CountStart
<1>5. CASE ReadData \/ KeepaliveData \/ KeepalivePoll \/ RefillFires
    <2>1. \/ UNCHANGED orderVars
          \/ /\ SendOp(TRUE) \/ SendOp(FALSE)
             /\ UNCHANGED <<writeSeq, pendingW, written, gaveUp>>
        BY <1>5 DEF ReadData, KeepaliveData, KeepalivePoll, RefillFires, SendData, SendPoll
    <2> QED BY <1>1, <1>2, <1>3, <2>1, CountSend
<1>6. CASE ReadClose \/ FlushBreak \/ Adjust \/ GraceFlushEnd \/ GraceOver \/ Exit \/ KeepaliveClose
    <2>1. UNCHANGED orderVars
        BY <1>6 DEF ReadClose, FlushBreak, Adjust, GraceFlushEnd, GraceOver, Exit, KeepaliveClose
    <2> QED BY <1>3, <2>1
<1>7. CASE FlushNext \/ FlushBad \/ GraceFlush
    <2>1. PICK p \in pendingW :
            /\ pendingW' = pendingW \ {p} /\ UNCHANGED <<sendSeq, inflightOps>>
            /\ \/ p.seq = writeSeq /\ writeSeq' = writeSeq + 1 /\ UNCHANGED gaveUp
               \/ gaveUp' = gaveUp \cup {p.seq} /\ UNCHANGED writeSeq
        BY <1>7 DEF FlushNext, FlushBad, GraceFlush, Deliver, WriteOut
    <2> QED BY <1>1, <1>2, <2>1, CountPendingMoves
<1>8. CASE FlushFails
    <2>1. PICK p \in pendingW : pendingW' = pendingW \ {p} BY <1>8 DEF FlushFails
    <2>2. IsFiniteSet(pendingW') BY <1>1, <2>1, Leaves DEF Finite
    <2>3. UNCHANGED <<inflightOps, gaveUp>> /\ Ended' BY <1>8 DEF FlushFails, Ended
    <2> QED BY <1>1, <2>2, <2>3 DEF CountInv, Finite
<1>9. ASSUME NEW m \in inflightOps, NoReply(m) PROVE CountInv'
    <2>1. CASE ReplyFails(m) \/ LocalWriteFails(m)
        <3>1. inflightOps' = inflightOps \ {m} /\ UNCHANGED <<pendingW, gaveUp>> /\ Ended'
            BY <2>1 DEF ReplyFails, LocalWriteFails, Leave, Ended
        <3>2. IsFiniteSet(inflightOps') BY <1>1, <3>1, Leaves DEF Finite
        <3> QED BY <1>1, <3>1, <3>2 DEF CountInv, Finite
    <2>2. CASE ReplyTimeout(m)
        BY <1>1, <1>2, <2>2, CountInflightMoves DEF ReplyTimeout
    <2> QED BY <1>9, <2>1, <2>2 DEF NoReply
<1>10. ASSUME NEW m \in inflightOps, NEW r \in Responses, Reply(m, r) PROVE CountInv'
    <2>1. /\ inflightOps' = inflightOps \ {m} /\ UNCHANGED sendSeq
          /\ \/ /\ m.seq = writeSeq /\ writeSeq' = writeSeq + 1
                /\ UNCHANGED <<pendingW, gaveUp>>
             \/ /\ pendingW' = pendingW \cup {[seq |-> m.seq, poll |-> m.poll, resp |-> r]}
                /\ UNCHANGED <<writeSeq, gaveUp>>
        BY <1>10 DEF Reply, ReplyInOrder, ReplyAhead, GraceInOrder, GraceAhead, Deliver, WriteOut
    <2> QED BY <1>1, <1>2, <2>1, CountInflightMoves
<1> QED BY <1>4, <1>5, <1>6, <1>7, <1>8, <1>9, <1>10 DEF LoopNext, Local

\* While tunnel_loop runs, each op it has sent is in flight, waiting for an
\* earlier reply, delivered or given up, and in one of these places only: for
\* every depth, number of ops and mix of replies, timeouts and failures.
THEOREM OpsInOnePlace == LoopSpec => []OpsAccounted
<1>1. LoopInit => OrderInv /\ BeforeStart /\ CountInv
    <2> SUFFICES ASSUME LoopInit PROVE OrderInv /\ BeforeStart /\ CountInv OBVIOUS
    <2>1. IsFiniteSet({}) /\ Cardinality({}) = 0 BY FS_EmptySet
    <2>2. Finite /\ Counted
        BY <2>1 DEF LoopInit, Finite, Counted, AllHeld, Held, Outstanding
    <2> QED BY <2>2, OrderInit DEF LoopInit, BeforeStart, CountInv
<1>2. OrderInv /\ BeforeStart /\ CountInv /\ [LoopNext]_loopVars
        => (OrderInv /\ BeforeStart /\ CountInv)'
    <2> SUFFICES ASSUME OrderInv, BeforeStart, CountInv, [LoopNext]_loopVars
                 PROVE  (OrderInv /\ BeforeStart /\ CountInv)'
        OBVIOUS
    <2>1. CASE LoopNext
        BY <2>1, OrderStep, StartedStays, CountStep
    <2>2. CASE UNCHANGED loopVars
        BY <2>2, OrderFrame DEF loopVars, orderVars, pipe, history, BeforeStart, CountInv,
            Finite, Ended, Counted, AllHeld, Held, Outstanding
    <2> QED BY <2>1, <2>2
<1>3. OrderInv /\ CountInv => OpsAccounted
    <2> SUFFICES ASSUME OrderInv, CountInv, ~Ended
                 PROVE  /\ SeqsOf(inflightOps) \cup SeqsOf(pendingW) \cup {written[i] : i \in 1..Len(written)}
                             \cup gaveUp = 0..(sendSeq - 1)
                        /\ Cardinality(inflightOps) + Cardinality(pendingW) + Len(written)
                             + Cardinality(gaveUp) = sendSeq
        BY DEF OpsAccounted
    <2>1. /\ sendSeq \in Nat /\ writeSeq \in Nat /\ writeSeq <= sendSeq
          /\ writeSeq = Len(written) /\ \A i \in 1..Len(written) : written[i] = i - 1
        BY DEF OrderInv, CountersNat, DeliveredInOrder
    <2>2. Finite /\ AllHeld /\ writeSeq + Held = sendSeq BY DEF CountInv, Counted
    <2>3. \A s : s \in {written[i] : i \in 1..Len(written)} <=> s \in 0..(writeSeq - 1)
        <3>1. ASSUME NEW s \in 0..(writeSeq - 1) PROVE s \in {written[i] : i \in 1..Len(written)}
            <4>1. s + 1 \in 1..Len(written) /\ written[s + 1] = s BY <2>1
            <4> QED BY <4>1
        <3>2. ASSUME NEW s \in {written[i] : i \in 1..Len(written)} PROVE s \in 0..(writeSeq - 1)
            BY <2>1
        <3> QED BY <3>1, <3>2
    <2>4. ASSUME NEW s \in SeqsOf(inflightOps) \cup SeqsOf(pendingW) \cup gaveUp PROVE s \in 0..(sendSeq - 1)
        <3>1. Outstanding(s)
            BY DEF SeqsOf, OrderInv, InflightOutstanding, PendingOutstanding, TimedOutOutstanding
        <3> QED BY <2>1, <3>1 DEF Outstanding
    <2>5. ASSUME NEW s \in 0..(sendSeq - 1), s \notin 0..(writeSeq - 1)
          PROVE  s \in SeqsOf(inflightOps) \cup SeqsOf(pendingW) \cup gaveUp
        <3>1. s \in Nat /\ Outstanding(s) BY <2>1, <2>5 DEF Outstanding
        <3> QED BY <2>2, <3>1 DEF AllHeld, SeqsOf
    <2>6. \A s \in 0..(writeSeq - 1) : s \in 0..(sendSeq - 1) BY <2>1
    <2>7. SeqsOf(inflightOps) \cup SeqsOf(pendingW) \cup {written[i] : i \in 1..Len(written)}
             \cup gaveUp = 0..(sendSeq - 1)
        BY <2>3, <2>4, <2>5, <2>6
    <2> QED BY <2>1, <2>2, <2>7, HeldNat DEF Held
<1> QED BY <1>1, <1>2, <1>3, PTL DEF LoopSpec

\* Nothing at or after a reply that tunnel_loop gave up reaches the local socket,
\* so a late batch leaves no hole in the download.
THEOREM GivenUpStopsDelivery == LoopSpec => []GivenUpNotPassed
<1>1. DeliveredInOrder /\ GivenUpNotPassed => GivenUpNotPassed OBVIOUS
<1> QED BY <1>1, DeliveryOrder, PTL
=============================================================================
