----------------------------- MODULE TunnelMux -----------------------------
(***************************************************************************)
(* mux_loop, BatchAccum and fire_batch of src/tunnel_client.rs: the single *)
(* task through which every tunnel session sends its ops.  It collects the *)
(* messages of a coalescing window, packs them into batches, takes one of  *)
(* the deployment's permits for each batch and lets a task of its own do   *)
(* the round trip.  The node answers a batch with a list, and the reply of *)
(* an op is found by the op's index in the batch.                          *)
(*                                                                         *)
(* An op is its number; its payload is its size.  What the node does with  *)
(* it is left out, except which ops it answers: handle_batch stops         *)
(* draining sessions when the response budget is used up.                  *)
(***************************************************************************)
EXTENDS Integers, Sequences, FiniteSets, Functions

CONSTANTS
    Scripts,      \* deployments
    PermitLimit,  \* CONCURRENCY_PER_DEPLOYMENT (30)
    MaxBatchOps,  \* MAX_BATCH_OPS (50)
    MaxPayload,   \* MAX_BATCH_PAYLOAD_BYTES, in units
    Kinds,        \* kinds of MuxMsg the sessions send
    Sizes,        \* encoded payload sizes, in units
    MaxMsgs,      \* bound: messages sent
    MaxCuts       \* bound: batches whose response budget runs out at the node

ASSUME MuxAssumption ==
    /\ PermitLimit \in Nat \ {0} /\ MaxBatchOps \in Nat \ {0} /\ MaxPayload \in Nat
    /\ Kinds \subseteq {"connect", "data", "open", "udp", "close"}
    /\ Sizes \subseteq Nat /\ MaxMsgs \in Nat /\ MaxCuts \in Nat

VARIABLES
    sent,      \* messages sent so far
    queue,     \* the unbounded channel
    mpc,       \* recv, coalesce, split, acquire
    window,    \* msgs
    closes,    \* close_sids
    ops,       \* accum.pending_ops
    replies,   \* accum.data_replies: [idx, id]
    payload,   \* accum.payload_bytes
    script,    \* deployment fire_batch has picked
    resume,    \* where mux_loop continues after fire_batch
    used,      \* permits taken, per deployment
    batches,   \* round trips in flight: [script, ops, replies]
    connects,  \* plain connects in flight
    answer,    \* what came back on the reply channel of each op
    batchCuts

accum == <<ops, replies, payload>>
mux == <<mpc, window, closes, accum, script, resume>>
flight == <<used, batches, connects, answer, batchCuts>>
muxVars == <<sent, queue, mux, flight>>

Ids == 1..MaxMsgs
Msg == [id : Ids, kind : Kinds, size : Sizes]
NoAnswer == 0
Failed == -1

Entry == [idx : 1..(2 * MaxMsgs), id : Ids]
Batch == [script : Scripts, ops : Seq(Msg), replies : SUBSET Entry]

MuxTypeOK ==
    /\ sent \in 0..MaxMsgs
    /\ queue \in Seq(Msg) /\ window \in Seq(Msg) /\ closes \in Seq(Msg) /\ ops \in Seq(Msg)
    /\ mpc \in {"recv", "coalesce", "split", "acquire"}
    /\ resume \in {"recv", "split"}
    /\ replies \subseteq Entry /\ payload \in Nat
    /\ script \in Scripts
    /\ used \in [Scripts -> 0..PermitLimit]
    /\ \A b \in batches : b \in Batch
    /\ connects \subseteq Ids
    /\ answer \in [Ids -> {NoAnswer, Failed} \cup Ids]
    /\ batchCuts \in 0..MaxCuts

MuxInit ==
    /\ sent = 0 /\ queue = <<>>
    /\ mpc = "recv" /\ window = <<>> /\ closes = <<>>
    /\ ops = <<>> /\ replies = {} /\ payload = 0
    /\ script \in Scripts /\ resume = "recv"
    /\ used = [s \in Scripts |-> 0] /\ batches = {} /\ connects = {}
    /\ answer = [i \in Ids |-> NoAnswer]
    /\ batchCuts = 0

-----------------------------------------------------------------------------
\* A session sends a message (send, send_sync).
SendMsg(k, z) ==
    /\ sent < MaxMsgs
    /\ sent' = sent + 1
    /\ queue' = Append(queue, [id |-> sent + 1, kind |-> k, size |-> z])
    /\ UNCHANGED <<mux, flight>>

\* rx.recv().await: the first message of a window.
Recv ==
    /\ mpc = "recv" /\ queue # <<>>
    /\ window' = <<Head(queue)>>
    /\ queue' = Tail(queue)
    /\ mpc' = "coalesce"
    /\ UNCHANGED <<sent, closes, accum, script, resume, flight>>

\* Another message before the deadline.
Coalesce ==
    /\ mpc = "coalesce" /\ queue # <<>>
    /\ window' = Append(window, Head(queue))
    /\ queue' = Tail(queue)
    /\ UNCHANGED <<sent, mpc, closes, accum, script, resume, flight>>

\* The soft or hard deadline is over and try_recv finds nothing.
Deadline ==
    /\ mpc = "coalesce" /\ queue = <<>>
    /\ mpc' = "split"
    /\ UNCHANGED <<sent, queue, window, closes, accum, script, resume, flight>>

Splitting == mpc = "split" /\ window # <<>>

\* A plain connect gets a task and a request of its own.
SplitConnect ==
    /\ Splitting /\ Head(window).kind = "connect"
    /\ connects' = connects \cup {Head(window).id}
    /\ window' = Tail(window)
    /\ UNCHANGED <<sent, queue, mpc, closes, accum, script, resume, used, batches,
                   answer, batchCuts>>

SplitClose ==
    /\ Splitting /\ Head(window).kind = "close"
    /\ closes' = Append(closes, Head(window))
    /\ window' = Tail(window)
    /\ UNCHANGED <<sent, queue, mpc, accum, script, resume, flight>>

Batched(m) == m.kind \in {"data", "open", "udp"}

\* Fault for the checks: the op cap is one too high.
ShouldFireLate(z) ==
    /\ Len(ops) > 0
    /\ Len(ops) > MaxBatchOps \/ payload + z > MaxPayload

\* should_fire: would op z overflow the batch?
ShouldFire(z) ==
    /\ Len(ops) > 0
    /\ Len(ops) >= MaxBatchOps \/ payload + z > MaxPayload

\* push_or_fire, first half: the accumulated batch goes out before the op.
SplitFire ==
    /\ Splitting /\ Batched(Head(window)) /\ ShouldFire(Head(window).size)
    /\ script' \in Scripts
    /\ mpc' = "acquire" /\ resume' = "split"
    /\ UNCHANGED <<sent, queue, window, closes, accum, flight>>

\* Fault for the checks: the index is the one of the op before.
SplitPushBehind ==
    /\ Splitting /\ Batched(Head(window)) /\ ~ShouldFire(Head(window).size)
    /\ ops' = Append(ops, Head(window))
    /\ replies' = replies \cup {[idx |-> Len(ops), id |-> Head(window).id]}
    /\ payload' = payload + Head(window).size
    /\ window' = Tail(window)
    /\ UNCHANGED <<sent, queue, mpc, closes, script, resume, flight>>

\* push_or_fire, second half; data_replies remembers the op's index.
SplitPush ==
    /\ Splitting /\ Batched(Head(window)) /\ ~ShouldFire(Head(window).size)
    /\ ops' = Append(ops, Head(window))
    /\ replies' = replies \cup {[idx |-> Len(ops) + 1, id |-> Head(window).id]}
    /\ payload' = payload + Head(window).size
    /\ window' = Tail(window)
    /\ UNCHANGED <<sent, queue, mpc, closes, script, resume, flight>>

\* End of the window: the closes join the last batch, unchecked.
SplitEnd ==
    /\ mpc = "split" /\ window = <<>>
    /\ ops' = ops \o closes
    /\ closes' = <<>>
    /\ IF ops' = <<>>
       THEN mpc' = "recv" /\ UNCHANGED <<script, resume>>
       ELSE mpc' = "acquire" /\ script' \in Scripts /\ resume' = "recv"
    /\ UNCHANGED <<sent, queue, window, replies, payload, flight>>

\* fire_batch gets the deployment's permit and spawns the round trip; mux_loop
\* waits here, so nothing else goes out meanwhile.
Acquire ==
    /\ mpc = "acquire" /\ used[script] < PermitLimit
    /\ used' = [used EXCEPT ![script] = @ + 1]
    /\ batches' = batches \cup {[script |-> script, ops |-> ops, replies |-> replies]}
    /\ ops' = <<>> /\ replies' = {} /\ payload' = 0
    /\ mpc' = resume
    /\ UNCHANGED <<sent, queue, window, closes, script, resume, connects, answer, batchCuts>>

-----------------------------------------------------------------------------
\* The node's answer: handle_batch answers every op, in the order of the batch,
\* except the TCP drains that come after the budget is used up.  Sessions opened
\* in the batch are drained last, in the order their connects finished.

Drains(b) == {i \in DOMAIN b.ops : b.ops[i].kind = "data"}
Opened(b) == {i \in DOMAIN b.ops : b.ops[i].kind = "open"}

\* Ops that a used-up budget may leave without an answer; at least one was drained.
Skipped(b) ==
    {S \in SUBSET (Drains(b) \cup Opened(b)) :
        /\ S # {} /\ S # Drains(b) \cup Opened(b)
        /\ \/ S \subseteq Opened(b)
           \/ /\ Opened(b) \subseteq S
              /\ \A i \in S \cap Drains(b) : \A j \in Drains(b) : j > i => j \in S}

\* The op whose answer stands at position k of the list: the results are sorted by
\* index and the indices then dropped.
AnswerAt(n, S, k) ==
    {j \in (1..n) \ S : Cardinality({i \in (1..n) \ S : i <= j}) = k}

\* What the op with index k of batch b gets: batch_resp.r.get(idx).
ReplyFor(b, S, k) ==
    LET at == AnswerAt(Len(b.ops), S, k)
    IN  IF at = {} THEN Failed ELSE b.ops[CHOOSE j \in at : TRUE].id

\* Fault for the checks: the permit is not given back.
FinishLeaks(b) ==
    /\ batches' = batches \ {b}
    /\ UNCHANGED <<sent, queue, mux, used, connects>>

\* The round trip of b is over: the permit comes back.
Finish(b) ==
    /\ batches' = batches \ {b}
    /\ used' = [used EXCEPT ![b.script] = @ - 1]
    /\ UNCHANGED <<sent, queue, mux, connects>>

\* Every op of b that waits for a reply gets what stands at its index, when the ops
\* in S have no result.
Distribute(b, S) ==
    answer' = [i \in Ids |->
                 IF \E e \in b.replies : e.id = i
                 THEN ReplyFor(b, S, (CHOOSE e \in b.replies : e.id = i).idx)
                 ELSE answer[i]]

BatchOk(b) ==
    /\ Finish(b)
    /\ Distribute(b, {})
    /\ batchCuts' = batchCuts

\* The same when the budget ran out at the node.
BatchCut(b) ==
    /\ batchCuts < MaxCuts
    /\ batchCuts' = batchCuts + 1
    /\ Finish(b)
    /\ \E S \in Skipped(b) : Distribute(b, S)

\* The request fails or batch_timeout is over: no op has a result.
BatchFails(b) ==
    /\ Finish(b)
    /\ Distribute(b, DOMAIN b.ops)
    /\ batchCuts' = batchCuts

ConnectDone(i) ==
    /\ i \in connects
    /\ connects' = connects \ {i}
    /\ \E a \in {i, Failed} : answer' = [answer EXCEPT ![i] = a]
    /\ UNCHANGED <<sent, queue, mux, used, batches, batchCuts>>

-----------------------------------------------------------------------------
MuxStep ==
    Recv \/ Coalesce \/ Deadline \/ SplitConnect \/ SplitClose \/ SplitFire \/ SplitPush
    \/ SplitEnd \/ Acquire

MuxNext ==
    \/ \E k \in Kinds, z \in Sizes : SendMsg(k, z)
    \/ MuxStep
    \/ \E b \in batches : BatchOk(b) \/ BatchCut(b) \/ BatchFails(b)
    \/ \E i \in Ids : ConnectDone(i)

MuxSpec == MuxInit /\ [][MuxNext]_muxVars

\* The mux task runs, every round trip ends (batch_timeout), every connect ends.
TripEnds(i) == \E b \in batches : (\E e \in b.replies : e.id = i) /\ (BatchOk(b) \/ BatchFails(b))
EmptyTripEnds == \E b \in batches : b.replies = {} /\ (BatchOk(b) \/ BatchFails(b))

MuxFairness ==
    /\ WF_muxVars(MuxStep) /\ WF_muxVars(EmptyTripEnds)
    /\ \A i \in Ids : WF_muxVars(TripEnds(i)) /\ WF_muxVars(ConnectDone(i))

MuxFairSpec == MuxSpec /\ MuxFairness

-----------------------------------------------------------------------------
\* Properties

IdsIn(s) == {s[i].id : i \in DOMAIN s}

\* The reply an op gets is the one the node made for that op, or an error.
ReplyMatchesOp == \A i \in Ids : answer[i] \in {NoAnswer, Failed, i}

\* As long as no batch has used up the node's response budget, the indices of ops and
\* results agree: no op gets the response of another session.
OwnReplyWithinBudget == batchCuts = 0 => ReplyMatchesOp

\* Payload units of a batch; closes carry none.
Weight(m) == IF Batched(m) THEN m.size ELSE 0
BatchBytes(s) == SumFunctionOnSet([i \in DOMAIN s |-> Weight(s[i])], DOMAIN s)

\* No batch asks for more than MAX_BATCH_OPS replies, and only a batch with a single
\* op is larger than MAX_BATCH_PAYLOAD_BYTES.
BatchWithinCaps ==
    \A b \in batches :
        /\ Cardinality(b.replies) <= MaxBatchOps
        /\ Cardinality(b.replies) > 1 => BatchBytes(b.ops) <= MaxPayload

\* The permits of a deployment that are taken are those of its round trips in
\* flight, which are never more than its permits: whichever way a round trip ends
\* its permit comes back, and only once.
PermitPerTrip ==
    \A s \in Scripts :
        /\ used[s] = Cardinality({b \in batches : b.script = s})
        /\ used[s] <= PermitLimit

\* The reply channel of op i is held by a message, an entry of data_replies or a
\* connect's task.
Awaited(i) ==
    \/ \E m \in 1..Len(queue) : queue[m].id = i /\ queue[m].kind # "close"
    \/ \E m \in 1..Len(window) : window[m].id = i /\ window[m].kind # "close"
    \/ \E e \in replies : e.id = i
    \/ \E b \in batches : \E e \in b.replies : e.id = i
    \/ i \in connects

\* What a step may do to the ops.
OpsKept ==
    \A i \in Ids : /\ Awaited(i) => Awaited(i)' \/ answer'[i] # NoAnswer
                  /\ answer[i] # NoAnswer => answer'[i] = answer[i]

\* No step drops a reply channel without an answer, and none answers on a channel a
\* second time.
AnsweredOnce == [][OpsKept]_muxVars

\* Every op that expects a reply gets one, even when all permits of a deployment
\* are taken and mux_loop itself has to wait.
EveryOpAnswered ==
    \A i \in Ids :
        (\E m \in 1..Len(queue) : queue[m].id = i /\ queue[m].kind # "close")
            ~> answer[i] # NoAnswer
=============================================================================
