------------------------- MODULE NodeSessionProofs -------------------------
(***************************************************************************)
(* Proofs about NodeSession for every number of handlers, every stream and *)
(* every choice of the caps.                                               *)
(***************************************************************************)
EXTENDS NodeSession, TLAPS

USE ConstantsAssumption

\* What Min2 returns.
LEMMA Min2Nat ==
    ASSUME NEW a \in Nat, NEW b \in Nat
    PROVE  Min2(a, b) \in Nat /\ Min2(a, b) <= a /\ Min2(a, b) <= b
           /\ (a <= b => Min2(a, b) = a) /\ (b < a => Min2(a, b) = b)
BY DEF Min2

\* notify_one keeps the watchers and the permit well typed, whatever state the
\* watchers are in.
LEMMA NotifyOneType ==
    ASSUME NEW ww \in [Handlers -> WatchPCs], permit \in BOOLEAN, NotifyOne(ww)
    PROVE  watch' \in [Handlers -> WatchPCs] /\ permit' \in BOOLEAN
BY DEF NotifyOne, WatchPCs

\* Leaving a wait keeps the watchers and the permit well typed.
LEMMA DropWatchType ==
    ASSUME NEW h \in Handlers, watch \in [Handlers -> WatchPCs],
           permit \in BOOLEAN, DropWatch(h)
    PROVE  watch' \in [Handlers -> WatchPCs] /\ permit' \in BOOLEAN
<1>1. [watch EXCEPT ![h] = "off"] \in [Handlers -> WatchPCs]
  BY DEF WatchPCs
<1>2. CASE watch[h] = "notified"
  BY <1>1, <1>2, NotifyOneType DEF DropWatch
<1>3. CASE watch[h] # "notified"
  BY <1>1, <1>3 DEF DropWatch
<1>. QED  BY <1>2, <1>3

\* What a round of drain_now takes fits the buffer and the budget.
LEMMA DrainAmount ==
    ASSUME NEW h \in Handlers, TypeOK
    PROVE  /\ Buffered \in Nat /\ DrainCap(h) \in Nat
           /\ DrainCap(h) <= budget[h]
           /\ Min2(Buffered, DrainCap(h)) \in Nat
           /\ Min2(Buffered, DrainCap(h)) <= Buffered
           /\ Min2(Buffered, DrainCap(h)) <= budget[h]
           /\ (Buffered <= DrainCap(h) => Min2(Buffered, DrainCap(h)) = Buffered)
<1>1. Buffered \in Nat /\ budget[h] \in Nat
  BY DEF TypeOK, Buffered
<1>2. DrainCap(h) \in Nat /\ DrainCap(h) <= budget[h]
  BY <1>1, Min2Nat DEF DrainCap
<1>. QED  BY <1>1, <1>2, Min2Nat

-----------------------------------------------------------------------------
\* Every reader step keeps the types.
LEMMA ReaderType == TypeOK /\ Reader => TypeOK'
<1> SUFFICES ASSUME TypeOK, Reader PROVE TypeOK'
  OBVIOUS
<1>1. CASE ReaderCap
  BY <1>1 DEF ReaderCap, TypeOK, ReaderPCs, notifies, local
<1>2. CASE ReaderPark
  BY <1>2 DEF ReaderPark, TypeOK, ReaderPCs, local
<1>3. CASE ReaderRead
  BY <1>3 DEF ReaderRead, TypeOK, ReaderPCs, notifies, local
<1>4. CASE ReaderEof
  BY <1>4 DEF ReaderEof, TypeOK, ReaderPCs, notifies, local
<1>5. CASE ReaderAppend
  BY <1>5 DEF ReaderAppend, TypeOK, ReaderPCs, notifies, local
<1>6. CASE ReaderNotify
  <2>1. watch' \in [Handlers -> WatchPCs] /\ permit' \in BOOLEAN
    BY <1>6, NotifyOneType DEF ReaderNotify, TypeOK
  <2>. QED  BY <1>6, <2>1 DEF ReaderNotify, TypeOK, ReaderPCs, local
<1>7. CASE ReaderEofNotify
  <2>1. watch' \in [Handlers -> WatchPCs] /\ permit' \in BOOLEAN
    BY <1>7, NotifyOneType DEF ReaderEofNotify, TypeOK
  <2>. QED  BY <1>7, <2>1 DEF ReaderEofNotify, TypeOK, ReaderPCs, local
<1>8. CASE ReaderCancelled
  BY <1>8 DEF ReaderCancelled, TypeOK, ReaderPCs, notifies, local
<1>. QED  BY <1>1, <1>2, <1>3, <1>4, <1>5, <1>6, <1>7, <1>8 DEF Reader

\* Every opening, closing or reaping step keeps the types.
LEMMA LifecycleType == TypeOK /\ Lifecycle => TypeOK'
<1> SUFFICES ASSUME TypeOK, Lifecycle PROVE TypeOK'
  OBVIOUS
<1>1. CASE OpenInsert
  BY <1>1 DEF OpenInsert, TypeOK, notifies, local
<1>2. CASE OpenFail
  BY <1>2 DEF OpenFail, TypeOK, notifies, local
<1>3. CASE OpenCancelled
  BY <1>3 DEF OpenCancelled, TypeOK, notifies, local
<1>4. CASE Close
  BY <1>4 DEF Close, TypeOK, notifies, local
<1>5. CASE Tick
  BY <1>5 DEF Tick, TypeOK, session, notifies, local
<1>6. CASE ReapScan
  BY <1>6 DEF ReapScan, TypeOK, session, notifies, local
<1>7. CASE ReapRemove
  BY <1>7 DEF ReapRemove, TypeOK, notifies, local
<1>8. CASE ReapAbort
  BY <1>8 DEF ReapAbort, TypeOK, notifies, local
<1>. QED  BY <1>1, <1>2, <1>3, <1>4, <1>5, <1>6, <1>7, <1>8 DEF Lifecycle

\* Every handler step keeps the types.
LEMMA HandlerType ==
    ASSUME NEW h \in Handlers, TypeOK, Handler(h)
    PROVE  TypeOK'
<1>1. CASE OpenInsertDrain(h)
  BY <1>1 DEF OpenInsertDrain, TypeOK, HandlerPCs, WatchPCs, session, notifies, local
<1>2. CASE Lookup(h)
  BY <1>2 DEF Lookup, TypeOK, HandlerPCs, WatchPCs, session, notifies, local
<1>3. CASE WatchPoll(h)
  BY <1>3 DEF WatchPoll, TypeOK, HandlerPCs, WatchPCs, session, notifies, local
<1>4. CASE WatchEof(h)
  BY <1>4 DEF WatchEof, TypeOK, HandlerPCs, WatchPCs, session, notifies, local
<1>5. CASE WatchBuf(h)
  BY <1>5 DEF WatchBuf, TypeOK, HandlerPCs, WatchPCs, session, notifies, local
<1>6. CASE ProbeEof(h)
  <2>1. watch' \in [Handlers -> WatchPCs] /\ permit' \in BOOLEAN
    BY <1>6, DropWatchType DEF ProbeEof, TypeOK
  <2>. QED  BY <1>6, <2>1 DEF ProbeEof, TypeOK, HandlerPCs, session, local
<1>7. CASE ProbeBuf(h)
  <2>1. watch' \in [Handlers -> WatchPCs] /\ permit' \in BOOLEAN
    BY <1>7, DropWatchType DEF ProbeBuf, TypeOK
  <2>. QED  BY <1>7, <2>1 DEF ProbeBuf, TypeOK, HandlerPCs, session, local
<1>8. CASE Woken(h)
  <2>1. watch' \in [Handlers -> WatchPCs] /\ permit' \in BOOLEAN
    BY <1>8, DropWatchType DEF Woken, TypeOK
  <2>. QED  BY <1>8, <2>1 DEF Woken, TypeOK, HandlerPCs, session, local
<1>9. CASE WaitEnds(h)
  <2>1. watch' \in [Handlers -> WatchPCs] /\ permit' \in BOOLEAN
    BY <1>9, DropWatchType DEF WaitEnds, TypeOK
  <2>. QED  BY <1>9, <2>1 DEF WaitEnds, TypeOK, HandlerPCs, session, local
<1>10. CASE Cancel(h)
  <2>1. watch' \in [Handlers -> WatchPCs] /\ permit' \in BOOLEAN
    BY <1>10, DropWatchType DEF Cancel, TypeOK
  <2>2. lost' \subseteq Nat
    BY <1>10 DEF Cancel, TypeOK
  <2>3. pc' \in [Handlers -> HandlerPCs] /\ chunk' \in [Handlers -> SUBSET Nat]
    BY <1>10 DEF Cancel, TypeOK, HandlerPCs
  <2>4. /\ final' \in [Handlers -> BOOLEAN] /\ again' \in [Handlers -> BOOLEAN]
        /\ rawEof' \in [Handlers -> BOOLEAN] /\ budget' \in [Handlers -> 0..Budget]
    BY <1>10 DEF Cancel, TypeOK
  <2>. QED  BY <1>10, <2>1, <2>2, <2>3, <2>4 DEF Cancel, TypeOK, session
<1>11. CASE StartDrain(h)
  BY <1>11 DEF StartDrain, TypeOK, HandlerPCs, session, notifies, local
<1>12. CASE Skip(h)
  BY <1>12 DEF Skip, TypeOK, HandlerPCs, session, notifies, local
<1>13. CASE LoadEof(h)
  BY <1>13 DEF LoadEof, TypeOK, HandlerPCs, session, notifies, local
<1>14. CASE Take(h)
  <2> DEFINE n == Min2(Buffered, DrainCap(h))
  <2>1. n \in Nat /\ n <= Buffered /\ n <= budget[h]
    BY DrainAmount
  <2>2. drained + n \in Nat /\ drained + n <= recvd
    BY <2>1 DEF TypeOK, Buffered
  <2>3. chunk' \in [Handlers -> SUBSET Nat]
    <3>1. (drained + 1)..(drained + n) \in SUBSET Nat
      BY <2>1 DEF TypeOK
    <3>2. chunk' = [chunk EXCEPT ![h] = @ \cup (drained + 1)..(drained + n)]
      BY <1>14 DEF Take
    <3>. QED  BY <3>1, <3>2 DEF TypeOK
  <2>4. budget' \in [Handlers -> 0..Budget]
    <3>1. budget[h] - n \in 0..Budget
      BY <2>1 DEF TypeOK
    <3>2. budget' = [budget EXCEPT ![h] = @ - n]
      BY <1>14 DEF Take
    <3>. QED  BY <3>1, <3>2 DEF TypeOK
  <2>5. final' \in [Handlers -> BOOLEAN]
    <3>1. DrainEof(h) \in BOOLEAN
      BY DEF DrainEof, TypeOK
    <3>2. final' = [final EXCEPT ![h] = IF DrainEof(h) THEN TRUE ELSE @]
      BY <1>14 DEF Take
    <3>. QED  BY <3>1, <3>2 DEF TypeOK
  <2>6. again' \in [Handlers -> BOOLEAN]
    <3>1. DrainOn(h, n) \in BOOLEAN
      BY DEF DrainOn
    <3>2. PICK more \in {DrainOn(h, n), FALSE} : again' = [again EXCEPT ![h] = more]
      BY <1>14 DEF Take
    <3>. QED  BY <3>1, <3>2 DEF TypeOK
  <2>7. drained' = drained + n
    BY <1>14 DEF Take
  <2>. HIDE DEF n
  <2>8. pc' \in [Handlers -> HandlerPCs]
    BY <1>14 DEF Take, TypeOK, HandlerPCs
  <2>. QED  BY <1>14, <2>2, <2>3, <2>4, <2>5, <2>6, <2>7, <2>8 DEF Take, TypeOK, notifies
<1>15. CASE DrainNotify(h)
  <2>1. rpc' \in ReaderPCs /\ dpermit' \in BOOLEAN
    BY <1>15 DEF DrainNotify, DrainNotifyOne, TypeOK, ReaderPCs
  <2>2. pc' \in [Handlers -> HandlerPCs]
    BY <1>15 DEF DrainNotify, TypeOK, HandlerPCs
  <2>3. idle' \in 0..(IdleLimit + 1)
    BY <1>15 DEF DrainNotify, TypeOK
  <2>. QED  BY <1>15, <2>1, <2>2, <2>3 DEF DrainNotify, TypeOK, local
<1>16. CASE SingleDrainNotify(h)
  <2>1. rpc' \in ReaderPCs /\ dpermit' \in BOOLEAN
    BY <1>16 DEF SingleDrainNotify, DrainNotifyOne, TypeOK, ReaderPCs
  <2>2. pc' \in [Handlers -> HandlerPCs]
    BY <1>16 DEF SingleDrainNotify, TypeOK, HandlerPCs
  <2>. QED  BY <1>16, <2>1, <2>2 DEF SingleDrainNotify, TypeOK, local
<1>17. CASE RemoveAtEof(h)
  BY <1>17 DEF RemoveAtEof, TypeOK, HandlerPCs, notifies, local
<1>18. CASE Respond(h)
  <2>1. handed' \subseteq Nat
    BY <1>18 DEF Respond, TypeOK
  <2>2. pc' \in [Handlers -> HandlerPCs] /\ chunk' \in [Handlers -> SUBSET Nat]
    BY <1>18 DEF Respond, TypeOK, HandlerPCs
  <2>3. /\ final' \in [Handlers -> BOOLEAN] /\ again' \in [Handlers -> BOOLEAN]
        /\ rawEof' \in [Handlers -> BOOLEAN] /\ budget' \in [Handlers -> 0..Budget]
    BY <1>18 DEF Respond, TypeOK
  <2>. QED  BY <1>18, <2>1, <2>2, <2>3 DEF Respond, TypeOK, session, notifies
<1>19. CASE SingleLookup(h)
  BY <1>19 DEF SingleLookup, TypeOK, HandlerPCs, session, notifies, local
<1>20. CASE SingleWrite(h)
  BY <1>20 DEF SingleWrite, TypeOK, HandlerPCs, session, notifies, local
<1>21. CASE SingleWriteFail(h)
  BY <1>21 DEF SingleWriteFail, TypeOK, HandlerPCs, session, notifies, local
<1>22. CASE SingleTake(h)
  BY <1>22 DEF SingleTake, TypeOK, HandlerPCs, session, notifies, local
<1>. QED
  BY <1>1, <1>2, <1>3, <1>4, <1>5, <1>6, <1>7, <1>8, <1>9, <1>10, <1>11, <1>12, <1>13, <1>14, <1>15, <1>16, <1>17, <1>18, <1>19, <1>20, <1>21, <1>22 DEF Handler

\* create_session's state is well typed.
LEMMA TypeInit == Init => TypeOK
<1> SUFFICES ASSUME Init PROVE TypeOK
  OBVIOUS
<1>1. pc \in [Handlers -> HandlerPCs] /\ watch \in [Handlers -> WatchPCs]
  BY DEF Init, HandlerPCs, WatchPCs
<1>2. /\ rawEof \in [Handlers -> BOOLEAN] /\ final \in [Handlers -> BOOLEAN]
      /\ again \in [Handlers -> BOOLEAN]
  BY DEF Init
<1>3. chunk \in [Handlers -> SUBSET Nat] /\ budget \in [Handlers -> 0..Budget]
  BY DEF Init
<1>4. /\ held \in 0..MaxChunk /\ recvd \in Nat /\ drained \in Nat /\ drained <= recvd
      /\ idle \in 0..(IdleLimit + 1) /\ faults \in 0..MaxFaults
  BY DEF Init
<1>5. /\ map \in {"opening", "in", "closed", "orphaned"} /\ rpc \in ReaderPCs
      /\ reaper \in {"scan", "doomed", "abort"}
  BY DEF Init, ReaderPCs
<1>6. /\ aborted \in BOOLEAN /\ eof \in BOOLEAN /\ permit \in BOOLEAN
      /\ dpermit \in BOOLEAN /\ handed \subseteq Nat /\ lost \subseteq Nat
  BY DEF Init
<1>. QED  BY <1>1, <1>2, <1>3, <1>4, <1>5, <1>6 DEF TypeOK

\* Type correctness: the fields of the session, the handlers' locals and the
\* two Notify cells stay in range, and no drain takes more than was received.
THEOREM TypeCorrect == Spec => []TypeOK
<1>1. Init => TypeOK
  BY TypeInit
<1>2. TypeOK /\ [Next]_vars => TypeOK'
  <2>1. ASSUME TypeOK, UNCHANGED vars PROVE TypeOK'
    BY <2>1 DEF TypeOK, vars, session, notifies, local
  <2>. QED  BY <2>1, ReaderType, LifecycleType, HandlerType DEF Next
<1>. QED  BY <1>1, <1>2, PTL DEF Spec

-----------------------------------------------------------------------------
\* The invariant behind EofMeansDrained and BufferBounded.
DrainInv == TypeOK /\ ReaderOrder /\ EofMeansDrained /\ BufferBounded

\* A step that leaves the reader, the buffer and the eof locals alone.
LEMMA DrainFrame ==
    ASSUME DrainInv, TypeOK',
           UNCHANGED <<rpc, held, recvd, drained, eof, rawEof, final>>
    PROVE  DrainInv'
BY DEF DrainInv, ReaderOrder, EofMeansDrained, BufferBounded, Buffered

\* A drain_notify wakeup moves the reader only from its wait to the cap test.
LEMMA DrainNotifyOneKeeps ==
    ASSUME DrainInv, TypeOK', DrainNotifyOne,
           UNCHANGED <<held, recvd, drained, eof, rawEof, final>>
    PROVE  DrainInv'
<1>1. CASE rpc = "parked"
  BY <1>1 DEF DrainNotifyOne, DrainInv, ReaderOrder, EofMeansDrained,
              BufferBounded, Buffered
<1>2. CASE rpc # "parked"
  BY <1>2, DrainFrame DEF DrainNotifyOne
<1>. QED  BY <1>1, <1>2

\* Reader steps: eof comes last, reads happen below the cap.
LEMMA ReaderDrainInv == DrainInv /\ Reader => DrainInv'
<1> SUFFICES ASSUME DrainInv, Reader PROVE DrainInv'
  OBVIOUS
<1>0. TypeOK /\ TypeOK'
  BY ReaderType DEF DrainInv
<1>. USE DEF DrainInv, ReaderOrder, EofMeansDrained, BufferBounded, Buffered
<1>1. CASE ReaderCap
  BY <1>0, <1>1 DEF ReaderCap, TypeOK, local
<1>2. CASE ReaderPark
  BY <1>0, <1>2 DEF ReaderPark, TypeOK, local
<1>3. CASE ReaderRead
  BY <1>0, <1>3 DEF ReaderRead, TypeOK, local
<1>4. CASE ReaderEof
  BY <1>0, <1>4 DEF ReaderEof, TypeOK, local
<1>5. CASE ReaderAppend
  BY <1>0, <1>5 DEF ReaderAppend, TypeOK, local
<1>6. CASE ReaderNotify
  BY <1>0, <1>6 DEF ReaderNotify, TypeOK, local
<1>7. CASE ReaderEofNotify
  BY <1>0, <1>7 DEF ReaderEofNotify, TypeOK, local
<1>8. CASE ReaderCancelled
  BY <1>0, <1>8 DEF ReaderCancelled, TypeOK, local
<1>. QED  BY <1>1, <1>2, <1>3, <1>4, <1>5, <1>6, <1>7, <1>8 DEF Reader

\* Lifecycle steps touch neither the buffer nor the reader's control point.
LEMMA LifecycleDrainInv == DrainInv /\ Lifecycle => DrainInv'
<1> SUFFICES ASSUME DrainInv, Lifecycle PROVE DrainInv'
  OBVIOUS
<1>1. TypeOK'
  BY LifecycleType DEF DrainInv
<1>2. UNCHANGED <<rpc, held, recvd, drained, eof, rawEof, final>>
  BY DEF Lifecycle, OpenInsert, OpenFail, OpenCancelled, Close, Tick, ReapScan,
         ReapRemove, ReapAbort, session, local
<1>. QED  BY <1>1, <1>2, DrainFrame

\* The locked section of drain_now: what it reports as eof really is the end.
LEMMA TakeDrainInv ==
    ASSUME NEW h \in Handlers, DrainInv, TypeOK', Take(h)
    PROVE  DrainInv'
<1> DEFINE n == Min2(Buffered, DrainCap(h))
<1>1. TypeOK /\ ReaderOrder /\ EofMeansDrained /\ BufferBounded
  BY DEF DrainInv
<1>2. /\ n \in Nat /\ n <= Buffered /\ Buffered \in Nat /\ DrainCap(h) \in Nat
      /\ (Buffered <= DrainCap(h) => n = Buffered)
  BY <1>1, DrainAmount
<1>3. /\ drained' = drained + n
      /\ final' = [final EXCEPT ![h] = IF DrainEof(h) THEN TRUE ELSE @]
      /\ UNCHANGED <<rpc, held, recvd, eof, rawEof>>
  BY DEF Take
<1>. HIDE DEF n
<1>4. Buffered' = Buffered - n
  BY <1>1, <1>2, <1>3 DEF Buffered, TypeOK
<1>5. ReaderOrder' /\ BufferBounded'
  BY <1>1, <1>2, <1>3, <1>4 DEF ReaderOrder, BufferBounded, TypeOK
<1>6. EofMeansDrained'
  <2> SUFFICES ASSUME NEW g \in Handlers, final'[g]
               PROVE (eof /\ Buffered = 0 /\ held = 0 /\ rpc \in {"eofnotify", "done"})'
    BY DEF EofMeansDrained
  <2>1. CASE final[g]
    <3>1. eof /\ Buffered = 0 /\ held = 0 /\ rpc \in {"eofnotify", "done"}
      BY <1>1, <2>1 DEF EofMeansDrained
    <3>2. n = 0
      BY <1>2, <3>1
    <3>3. Buffered' = 0
      BY <1>4, <3>1, <3>2
    <3>. QED  BY <1>3, <3>1, <3>3
  <2>2. CASE ~final[g]
    <3>1. g = h /\ DrainEof(h)
      BY <1>1, <1>3, <2>2 DEF TypeOK
    <3>2. rawEof[h] /\ Buffered <= DrainCap(h)
      BY <1>2, <3>1 DEF DrainEof
    <3>3. eof /\ rpc \in {"eofnotify", "done"} /\ held = 0
      BY <1>1, <3>2 DEF ReaderOrder, TypeOK
    <3>. QED  BY <1>2, <1>3, <1>4, <3>2, <3>3
  <2>. QED  BY <2>1, <2>2
<1>. QED  BY <1>5, <1>6 DEF DrainInv

\* Handler steps.
LEMMA HandlerDrainInv ==
    ASSUME NEW h \in Handlers, DrainInv, Handler(h)
    PROVE  DrainInv'
<1>0. TypeOK /\ TypeOK'
  BY HandlerType DEF DrainInv
<1>1. CASE OpenInsertDrain(h) \/ Lookup(h) \/ WatchPoll(h) \/ WatchEof(h) \/ WatchBuf(h)
           \/ ProbeEof(h) \/ ProbeBuf(h) \/ Woken(h) \/ WaitEnds(h)
           \/ StartDrain(h) \/ Skip(h) \/ RemoveAtEof(h)
           \/ SingleLookup(h) \/ SingleWrite(h) \/ SingleWriteFail(h)
  <2>1. UNCHANGED <<rpc, held, recvd, drained, eof, rawEof, final>>
    BY <1>1 DEF OpenInsertDrain, Lookup, WatchPoll, WatchEof, WatchBuf, ProbeEof,
         ProbeBuf, Woken, WaitEnds, StartDrain, Skip, RemoveAtEof, SingleLookup,
         SingleWrite, SingleWriteFail, session, local
  <2>. QED  BY <1>0, <2>1, DrainFrame
<1>2. CASE LoadEof(h)
  BY <1>0, <1>2 DEF LoadEof, session, DrainInv, TypeOK, ReaderOrder, EofMeansDrained,
                    BufferBounded, Buffered
<1>3. CASE Take(h)
  BY <1>0, <1>3, TakeDrainInv
<1>4. CASE DrainNotify(h)
  BY <1>0, <1>4, DrainNotifyOneKeeps DEF DrainNotify, local
<1>5. CASE SingleDrainNotify(h)
  BY <1>0, <1>5, DrainNotifyOneKeeps DEF SingleDrainNotify, local
<1>6. CASE Respond(h) \/ Cancel(h)
  <2>1. /\ UNCHANGED <<rpc, held, recvd, drained, eof>>
        /\ rawEof' = [rawEof EXCEPT ![h] = FALSE]
        /\ final' = [final EXCEPT ![h] = FALSE]
    BY <1>6 DEF Respond, Cancel, session
  <2>. QED  BY <1>0, <2>1 DEF DrainInv, TypeOK, ReaderOrder, EofMeansDrained,
                              BufferBounded, Buffered
<1>7. CASE SingleTake(h)
  <2>1. /\ UNCHANGED <<rpc, held, recvd, eof, rawEof>>
        /\ drained' = recvd
        /\ final' = [final EXCEPT ![h] = eof]
    BY <1>7 DEF SingleTake
  <2>2. Buffered' = 0 /\ Buffered >= 0
    BY <1>0, <2>1 DEF Buffered, TypeOK
  <2>3. ReaderOrder' /\ BufferBounded'
    BY <1>0, <2>1, <2>2 DEF DrainInv, ReaderOrder, BufferBounded, TypeOK, Buffered
  <2>4. EofMeansDrained'
    BY <1>0, <2>1, <2>2 DEF DrainInv, EofMeansDrained, ReaderOrder, TypeOK
  <2>. QED  BY <1>0, <2>3, <2>4 DEF DrainInv
<1>. QED
  BY <1>1, <1>2, <1>3, <1>4, <1>5, <1>6, <1>7 DEF Handler

\* A drain that reports eof has handed out the whole stream, and the session's
\* buffer never outgrows READ_BUF_CAP by more than one read: for any number of
\* concurrent requests, any caps and any interleaving with the reader.
THEOREM EofAndBound == Spec => [](EofMeansDrained /\ BufferBounded)
<1>1. Init => DrainInv
  <2> SUFFICES ASSUME Init PROVE DrainInv
    OBVIOUS
  <2>1. TypeOK
    BY TypeInit
  <2>. QED  BY <2>1 DEF Init, DrainInv, ReaderOrder, EofMeansDrained, BufferBounded, Buffered
<1>2. DrainInv /\ [Next]_vars => DrainInv'
  <2>1. ASSUME DrainInv, UNCHANGED vars PROVE DrainInv'
    <3>1. TypeOK'
      BY <2>1 DEF DrainInv, TypeOK, vars, session, notifies, local
    <3>. QED  BY <2>1, <3>1, DrainFrame DEF vars, session, local
  <2>. QED  BY <2>1, ReaderDrainInv, LifecycleDrainInv, HandlerDrainInv DEF Next
<1>3. DrainInv => EofMeansDrained /\ BufferBounded
  BY DEF DrainInv
<1>. QED  BY <1>1, <1>2, <1>3, PTL DEF Spec

-----------------------------------------------------------------------------
\* A handler that is not about to notify the reader moves on: whoever was to
\* wake the reader still is.
LEMMA WakerFrame ==
    ASSUME TypeOK, ReaderNotForgotten, NEW h \in Handlers, NEW v,
           pc[h] \notin {"dnotify", "sdnotify"}, pc' = [pc EXCEPT ![h] = v],
           UNCHANGED <<rpc, recvd, drained, dpermit>>
    PROVE  ReaderNotForgotten'
<1>1. \A g \in Handlers : pc[g] \in {"dnotify", "sdnotify"} => pc'[g] = pc[g]
  BY DEF TypeOK
<1>. QED  BY <1>1 DEF ReaderNotForgotten, Buffered

\* A step that leaves the handlers' control, the reader and the buffer alone.
LEMMA WakerStill ==
    ASSUME ReaderNotForgotten, UNCHANGED <<pc, rpc, recvd, drained, dpermit>>
    PROVE  ReaderNotForgotten'
BY DEF ReaderNotForgotten, Buffered

\* No wakeup of a reader that waits for room is ever lost: the reader cannot
\* check the buffer, find it full, and sleep through the drain that empties it.
THEOREM ReaderWoken == Spec => []ReaderNotForgotten
<1> DEFINE Inv == TypeOK /\ ReaderNotForgotten
<1>1. Init => Inv
  BY TypeInit DEF Init, ReaderNotForgotten
<1>2. ASSUME Inv, Reader PROVE ReaderNotForgotten'
  BY <1>2 DEF Reader, ReaderCap, ReaderPark, ReaderRead, ReaderEof, ReaderAppend,
       ReaderNotify, ReaderEofNotify, ReaderCancelled, ReaderNotForgotten, Buffered,
       notifies
<1>3. ASSUME Inv, Lifecycle PROVE ReaderNotForgotten'
  BY <1>3, WakerStill DEF Lifecycle, OpenInsert, OpenFail, OpenCancelled, Close, Tick,
       ReapScan, ReapRemove, ReapAbort, session, notifies
<1>4. ASSUME Inv, NEW h \in Handlers, Handler(h) PROVE ReaderNotForgotten'
  <2>1. CASE WatchPoll(h) \/ WatchEof(h) \/ WatchBuf(h)
    BY <1>4, <2>1, WakerStill DEF WatchPoll, WatchEof, WatchBuf, session, notifies
  <2>2. CASE OpenInsertDrain(h) \/ Lookup(h) \/ Woken(h) \/ WaitEnds(h) \/ StartDrain(h)
             \/ Skip(h) \/ LoadEof(h) \/ RemoveAtEof(h) \/ Respond(h) \/ Cancel(h)
             \/ SingleLookup(h) \/ SingleWrite(h) \/ SingleWriteFail(h)
             \/ ProbeEof(h) \/ ProbeBuf(h)
    <3>1. /\ pc[h] \notin {"dnotify", "sdnotify"}
          /\ \E v : pc' = [pc EXCEPT ![h] = v]
          /\ UNCHANGED <<rpc, recvd, drained, dpermit>>
      BY <2>2 DEF OpenInsertDrain, Lookup, Woken, WaitEnds, StartDrain, Skip, LoadEof,
           RemoveAtEof, Respond, Cancel, SingleLookup, SingleWrite, SingleWriteFail,
           ProbeEof, ProbeBuf, session, notifies
    <3>. QED  BY <1>4, <3>1, WakerFrame
  <2>3. CASE Take(h) \/ SingleTake(h)
    <3>1. pc'[h] \in {"dnotify", "sdnotify"}
      BY <1>4, <2>3 DEF Take, SingleTake, TypeOK
    <3>. QED  BY <3>1 DEF ReaderNotForgotten
  <2>4. CASE DrainNotify(h) \/ SingleDrainNotify(h)
    <3>1. CASE rpc = "parked"
      BY <2>4, <3>1 DEF DrainNotify, SingleDrainNotify, DrainNotifyOne, ReaderNotForgotten
    <3>2. CASE rpc # "parked"
      <4>1. rpc' = rpc /\ dpermit' = TRUE
        BY <2>4, <3>2 DEF DrainNotify, SingleDrainNotify, DrainNotifyOne
      <4>. QED  BY <3>2, <4>1 DEF ReaderNotForgotten
    <3>. QED  BY <3>1, <3>2
  <2>. QED  BY <1>4, <2>1, <2>2, <2>3, <2>4 DEF Handler
<1>5. ASSUME Inv, UNCHANGED vars PROVE Inv'
  <2>1. TypeOK'
    BY <1>5 DEF TypeOK, vars, session, notifies, local
  <2>. QED  BY <1>5, <2>1, WakerStill DEF vars, session, notifies
<1>6. Inv /\ [Next]_vars => Inv'
  BY <1>2, <1>3, <1>4, <1>5, ReaderType, LifecycleType, HandlerType DEF Next
<1>. QED  BY <1>1, <1>6, PTL DEF Spec

-----------------------------------------------------------------------------
\* Membership in the union of what the handlers hold.
LEMMA InUnion ==
    ASSUME NEW c, NEW x
    PROVE  x \in UNION {c[h] : h \in Handlers} <=> \E h \in Handlers : x \in c[h]
OBVIOUS

\* Taking the next n bytes into the hands of h keeps every byte in one place.
LEMMA GrowHand ==
    ASSUME TypeOK, ByteConservation, NEW h \in Handlers, NEW n \in Nat,
           drained' = drained + n, UNCHANGED <<handed, lost>>,
           chunk' = [chunk EXCEPT ![h] = chunk[h] \cup (drained + 1)..(drained + n)]
    PROVE  ByteConservation'
<1> DEFINE new == (drained + 1)..(drained + n)
<1>1. /\ \A g \in Handlers : chunk'[g] = IF g = h THEN chunk[h] \cup new ELSE chunk[g]
      /\ 1..drained' = (1..drained) \cup new
      /\ new \cap (1..drained) = {}
  BY DEF TypeOK
<1>. HIDE DEF new
<1>2. InHand' = InHand \cup new
  <2>1. ASSUME NEW x PROVE x \in InHand' <=> x \in InHand \cup new
    <3>1. x \in InHand <=> \E g \in Handlers : x \in chunk[g]
      BY InUnion DEF InHand
    <3>2. x \in InHand' <=> \E g \in Handlers : x \in chunk'[g]
      BY InUnion DEF InHand
    <3>. QED  BY <1>1, <3>1, <3>2
  <2>. QED  BY <2>1
<1>3. handed \cup lost \cup InHand = 1..drained
  BY DEF ByteConservation
<1>4. \A g \in Handlers : chunk[g] \subseteq InHand
  BY InUnion DEF InHand
<1>5. \A f, g \in Handlers : f # g => chunk'[f] \cap chunk'[g] = {}
  BY <1>1, <1>3, <1>4 DEF ByteConservation
<1>6. handed' \cup lost' \cup InHand' = 1..drained'
  BY <1>1, <1>2, <1>3
<1>7. handed' \cap lost' = {} /\ InHand' \cap (handed' \cup lost') = {}
  BY <1>1, <1>2, <1>3 DEF ByteConservation
<1>. QED  BY <1>5, <1>6, <1>7 DEF ByteConservation

\* Passing on what h holds, to the response or to oblivion, keeps every byte in
\* one place.
LEMMA EmptyHand ==
    ASSUME TypeOK, ByteConservation, NEW h \in Handlers, drained' = drained,
           \/ handed' = handed \cup chunk[h] /\ lost' = lost
           \/ lost' = lost \cup chunk[h] /\ handed' = handed,
           chunk' = [chunk EXCEPT ![h] = {}]
    PROVE  ByteConservation'
<1>1. \A g \in Handlers : chunk'[g] = IF g = h THEN {} ELSE chunk[g]
  BY DEF TypeOK
<1>2. InHand' = InHand \ chunk[h]
  <2>1. ASSUME NEW x PROVE x \in InHand' <=> x \in InHand \ chunk[h]
    <3>1. x \in InHand <=> \E g \in Handlers : x \in chunk[g]
      BY InUnion DEF InHand
    <3>2. x \in InHand' <=> \E g \in Handlers : x \in chunk'[g]
      BY InUnion DEF InHand
    <3>3. \A g \in Handlers : g # h => chunk[g] \cap chunk[h] = {}
      BY DEF ByteConservation
    <3>. QED  BY <1>1, <3>1, <3>2, <3>3
  <2>. QED  BY <2>1
<1>3. chunk[h] \subseteq InHand
  BY InUnion DEF InHand
<1>4. \A f, g \in Handlers : f # g => chunk'[f] \cap chunk'[g] = {}
  BY <1>1 DEF ByteConservation
<1>5. handed' \cup lost' \cup InHand' = 1..drained'
  BY <1>2, <1>3 DEF ByteConservation
<1>6. handed' \cap lost' = {} /\ InHand' \cap (handed' \cup lost') = {}
  BY <1>2, <1>3 DEF ByteConservation
<1>. QED  BY <1>4, <1>5, <1>6 DEF ByteConservation

\* A step that leaves all the places a byte can be alone.
LEMMA HandFrame ==
    ASSUME ByteConservation, UNCHANGED <<drained, chunk, handed, lost>>
    PROVE  ByteConservation'
BY DEF ByteConservation, InHand

\* Bytes are conserved by every interleaving of drains, responses and
\* cancellations: no byte is handed out twice and none disappears.
THEOREM BytesConserved == Spec => []ByteConservation
<1> DEFINE Inv == TypeOK /\ FreshHandlers /\ ByteConservation
<1>1. Init => Inv
  <2> SUFFICES ASSUME Init PROVE FreshHandlers /\ ByteConservation
    BY TypeInit
  <2>1. \A h \in Handlers : chunk[h] = {}
    BY DEF Init
  <2>2. InHand = {}
    BY <2>1 DEF InHand
  <2>3. 1..drained = {}
    BY DEF Init
  <2>. QED  BY <2>1, <2>2, <2>3 DEF Init, FreshHandlers, ByteConservation
<1>2. ASSUME Inv, Reader \/ Lifecycle \/ UNCHANGED vars
      PROVE FreshHandlers' /\ ByteConservation'
  <2>1. UNCHANGED <<pc, drained, chunk, handed, lost>>
    BY <1>2 DEF Reader, ReaderCap, ReaderPark, ReaderRead, ReaderEof, ReaderAppend,
         ReaderNotify, ReaderEofNotify, ReaderCancelled, Lifecycle, OpenInsert, OpenFail,
         OpenCancelled, Close, Tick, ReapScan, ReapRemove, ReapAbort, vars, session, local
  <2>. QED  BY <1>2, <2>1, HandFrame DEF FreshHandlers
<1>3. ASSUME Inv, NEW h \in Handlers, Handler(h)
      PROVE FreshHandlers' /\ ByteConservation'
  <2>1. CASE WatchPoll(h) \/ WatchEof(h) \/ WatchBuf(h)
    <3>1. UNCHANGED <<pc, drained, chunk, handed, lost>>
      BY <2>1 DEF WatchPoll, WatchEof, WatchBuf, session, local
    <3>. QED  BY <1>3, <3>1, HandFrame DEF FreshHandlers
  <2>2. CASE OpenInsertDrain(h) \/ Lookup(h) \/ Woken(h) \/ WaitEnds(h) \/ StartDrain(h)
             \/ Skip(h) \/ LoadEof(h) \/ DrainNotify(h) \/ RemoveAtEof(h)
             \/ SingleLookup(h) \/ SingleWrite(h) \/ SingleWriteFail(h)
             \/ SingleDrainNotify(h) \/ ProbeEof(h) \/ ProbeBuf(h)
    <3>1. UNCHANGED <<drained, chunk, handed, lost>>
      BY <2>2 DEF OpenInsertDrain, Lookup, Woken, WaitEnds, StartDrain, Skip, LoadEof,
           DrainNotify, RemoveAtEof, SingleLookup, SingleWrite, SingleWriteFail,
           SingleDrainNotify, ProbeEof, ProbeBuf, session, local
    <3>2. \A g \in Handlers : pc'[g] \in Fresh => pc[g] \in Fresh
      <4>1. pc \in [Handlers -> HandlerPCs]
        BY <1>3 DEF TypeOK
      <4>2. CASE DrainNotify(h)
        <5>1. \A g \in Handlers : g # h => pc'[g] = pc[g]
          BY <4>1, <4>2 DEF DrainNotify
        <5>2. pc'[h] \in {"load", "remove", "respond"}
          BY <4>1, <4>2 DEF DrainNotify
        <5>. QED  BY <5>1, <5>2 DEF Fresh
      <4>3. CASE SingleDrainNotify(h)
        <5>1. \A g \in Handlers : g # h => pc'[g] = pc[g]
          BY <4>1, <4>3 DEF SingleDrainNotify
        <5>2. pc'[h] \in {"remove", "respond"}
          BY <4>1, <4>3 DEF SingleDrainNotify
        <5>. QED  BY <5>1, <5>2 DEF Fresh
      <4>4. CASE ProbeEof(h) \/ ProbeBuf(h)
        BY <4>1, <4>4 DEF ProbeEof, ProbeBuf, Fresh
      <4>5. CASE StartDrain(h) \/ Skip(h) \/ LoadEof(h) \/ RemoveAtEof(h)
        BY <4>1, <4>5 DEF StartDrain, Skip, LoadEof, RemoveAtEof, Fresh
      <4>. QED
        BY <2>2, <4>1, <4>2, <4>3, <4>4, <4>5 DEF OpenInsertDrain, Lookup, Woken, WaitEnds,
             SingleLookup, SingleWrite, SingleWriteFail, Fresh
    <3>. QED  BY <1>3, <3>1, <3>2, HandFrame DEF FreshHandlers
  <2>3. CASE Take(h)
    <3> DEFINE n == Min2(Buffered, DrainCap(h))
    <3>1. n \in Nat
      BY <1>3, DrainAmount
    <3>2. /\ drained' = drained + n /\ UNCHANGED <<handed, lost>>
          /\ chunk' = [chunk EXCEPT ![h] = chunk[h] \cup (drained + 1)..(drained + n)]
          /\ pc' = [pc EXCEPT ![h] = "dnotify"]
      BY <2>3 DEF Take
    <3>. HIDE DEF n
    <3>3. ByteConservation'
      BY <1>3, <3>1, <3>2, GrowHand
    <3>4. FreshHandlers'
      BY <1>3, <3>2 DEF FreshHandlers, Fresh, TypeOK
    <3>. QED  BY <3>3, <3>4
  <2>4. CASE SingleTake(h)
    <3>1. chunk[h] = {}
      BY <1>3, <2>4 DEF SingleTake, FreshHandlers, Fresh
    <3> DEFINE n == recvd - drained
    <3>2. n \in Nat /\ drained + n = recvd
      BY <1>3 DEF TypeOK
    <3>3. /\ drained' = drained + n /\ UNCHANGED <<handed, lost>>
          /\ chunk' = [chunk EXCEPT ![h] = chunk[h] \cup (drained + 1)..(drained + n)]
          /\ pc' = [pc EXCEPT ![h] = "sdnotify"]
      BY <2>4, <3>1, <3>2 DEF SingleTake
    <3>. HIDE DEF n
    <3>4. ByteConservation'
      BY <1>3, <3>2, <3>3, GrowHand
    <3>5. FreshHandlers'
      BY <1>3, <3>3 DEF FreshHandlers, Fresh, TypeOK
    <3>. QED  BY <3>4, <3>5
  <2>5. CASE Respond(h) \/ Cancel(h)
    <3>1. /\ drained' = drained
          /\ \/ handed' = handed \cup chunk[h] /\ lost' = lost
             \/ lost' = lost \cup chunk[h] /\ handed' = handed
          /\ chunk' = [chunk EXCEPT ![h] = {}]
          /\ pc' = [pc EXCEPT ![h] = "idle"]
      BY <2>5 DEF Respond, Cancel, session
    <3>2. ByteConservation'
      BY <1>3, <3>1, EmptyHand
    <3>3. FreshHandlers'
      BY <1>3, <3>1 DEF FreshHandlers, TypeOK
    <3>. QED  BY <3>2, <3>3
  <2>. QED  BY <1>3, <2>1, <2>2, <2>3, <2>4, <2>5 DEF Handler
<1>4. Inv /\ [Next]_vars => Inv'
  <2>1. TypeOK /\ UNCHANGED vars => TypeOK'
    BY DEF TypeOK, vars, session, notifies, local
  <2>. QED
    BY <1>2, <1>3, <2>1, ReaderType, LifecycleType, HandlerType DEF Next
<1>. QED  BY <1>1, <1>4, PTL DEF Spec

-----------------------------------------------------------------------------
(* The buffer cap *)

\* READ_BUF_CAP holds on its own.
THEOREM BufferCapped == Spec => []BufferBounded
<1>1. EofMeansDrained /\ BufferBounded => BufferBounded
  OBVIOUS
<1>. QED  BY <1>1, EofAndBound, PTL
=============================================================================
