------------------------ MODULE ProcThreadPoolProofs ------------------------
(***************************************************************************)
(* Proofs about ProcThreadPool, for any set of connections, any finite     *)
(* pool and any fragment limit.                                            *)
(*                                                                         *)
(* The invariants of ProcThreadPool are not inductive as they stand.  They *)
(* are strengthened in three layers, each proved with the help of the ones *)
(* before it:                                                              *)
(*   PoolInv     what each thread's program counter says of the handler it *)
(*               holds and of the counter active_threads_;                 *)
(*   OwnerInv    who may hold a pointer to a handler (PoolInv, Exclusive,  *)
(*               NoUseAfterFree);                                          *)
(*   DrainInv    where the nulls of stop() can be (for StopDrains).        *)
(***************************************************************************)
EXTENDS ProcThreadPool, FiniteSetTheorems, TLAPS

-----------------------------------------------------------------------------
(* Sequences.                                                              *)

\* What putq leaves in the queue.
LEMMA AppendFacts ==
  ASSUME NEW S, NEW q \in Seq(S), NEW e \in S
  PROVE  /\ Append(q, e) \in Seq(S)
         /\ DOMAIN Append(q, e) = 1 .. (Len(q) + 1)
         /\ \A i \in DOMAIN q : Append(q, e)[i] = q[i]
         /\ Append(q, e)[Len(q) + 1] = e
         /\ \A i \in DOMAIN Append(q, e) : i = Len(q) + 1 \/ i \in DOMAIN q
  OBVIOUS

\* What getq takes out of it.
LEMMA TailFacts ==
  ASSUME NEW S, NEW q \in Seq(S), q # <<>>
  PROVE  /\ Tail(q) \in Seq(S)
         /\ Head(q) \in S
         /\ Head(q) = q[1]
         /\ 1 \in DOMAIN q
         /\ \A i \in DOMAIN Tail(q) : /\ i \in Nat \ {0}
                                      /\ i + 1 \in DOMAIN q
                                      /\ Tail(q)[i] = q[i + 1]
  OBVIOUS

-----------------------------------------------------------------------------
(* Threads, the handlers they hold, and the counter.                       *)

CountedThreads == {w \in Workers : wpc[w] \in Counting}

\* The counter guards count the threads between testcancel() and their return.
Counted == active_threads_ = Cardinality(CountedThreads)

\* A pool thread holds a handler exactly between getq() and the end of
\* handle_input or handle_close.
HoldsHandler == \A w \in Workers : wh[w] # Null <=> wpc[w] \in Holding

\* The reactor thread holds a handler exactly during an upcall.
UpcallHandler == rh # Null <=> upcall # "none"

\* No thread exists before open().
NoThreadYet == rpc = "new" => \A w \in Workers : wpc[w] = "unborn"

PoolInv == TypeOK /\ Counted /\ HoldsHandler /\ UpcallHandler /\ NoThreadYet

LEMMA CountedFinite ==
  /\ IsFiniteSet(CountedThreads)
  /\ Cardinality(CountedThreads) \in Nat
  <1>1. CountedThreads \subseteq Workers
    BY DEF CountedThreads
  <1> QED BY <1>1, PoolAssumption, FS_Subset, FS_CardinalityType

LEMMA TypeInit == Init => TypeOK
  <1> SUFFICES ASSUME Init PROVE TypeOK OBVIOUS
  <1>1. 0 \in 0 .. FragmentLimit
    BY PoolAssumption
  <1>2. queue \in Seq(Handlers \union {Null})
    BY DEF Init
  <1>3. input \in [Handlers -> Inputs]
    BY DEF Init, Inputs
  <1>4. wpc \in [Workers -> Counting \union {"unborn", "spawned", "cancelled", "exited"}]
    BY DEF Init
  <1>5. frags \in [Workers -> 0 .. FragmentLimit]
    BY <1>1 DEF Init
  <1>6. wh \in [Workers -> Handlers \union {Null}]
    BY DEF Init
  <1>7. token \in BOOLEAN /\ cancelled \in BOOLEAN /\ crashed \in BOOLEAN
    BY Zenon DEF Init
  <1> QED BY <1>2, <1>3, <1>4, <1>5, <1>6, <1>7 DEF Init, TypeOK

LEMMA TypeStep == PoolInv /\ [Next]_vars => TypeOK'
  <1> SUFFICES ASSUME PoolInv, [Next]_vars PROVE TypeOK' OBVIOUS
  <1> USE PoolAssumption DEF PoolInv, TypeOK, Inputs, Counting, Holding, connVars,
                             workerVars, reactorVars, stopVars, Selecting
  <1>1. CASE Open
    BY <1>1 DEF Open
  <1>2. CASE OpenDone
    BY <1>2 DEF OpenDone, UpcallHandler
  <1>3. CASE OpenFails
    BY <1>3 DEF OpenFails
  <1>4. CASE Enqueue
    BY <1>4 DEF Enqueue
  <1>5. CASE EnqueueFails
    BY <1>5 DEF EnqueueFails
  <1>6. CASE StopBegin
    BY <1>6 DEF StopBegin
  <1>7. CASE StopEnqueue
    BY <1>7 DEF StopEnqueue
  <1>8. CASE StopEnqueueFails
    BY <1>8 DEF StopEnqueueFails
  <1>9. CASE StopPoll
    BY <1>9 DEF StopPoll
  <1>10. CASE StopReturn
    BY <1>10 DEF StopReturn
  <1>11. CASE CancelAll
    BY <1>11 DEF CancelAll
  <1>12. CASE CancelTimeout
    BY <1>12 DEF CancelTimeout
  <1>13. CASE CancelDone
    BY <1>13 DEF CancelDone
  <1>14. ASSUME NEW h \in Handlers, Accept(h) PROVE TypeOK'
    BY <1>14 DEF Accept
  <1>15. ASSUME NEW h \in Handlers, HandleInput(h) PROVE TypeOK'
    BY <1>15 DEF HandleInput
  <1>16. ASSUME NEW h \in Handlers, HandleTimeout(h) PROVE TypeOK'
    BY <1>16 DEF HandleTimeout
  <1>17. ASSUME NEW w \in Workers, SvcBegin(w) PROVE TypeOK'
    BY <1>17 DEF SvcBegin
  <1>18. ASSUME NEW w \in Workers, SvcCancelled(w) PROVE TypeOK'
    BY <1>18 DEF SvcCancelled
  <1>19. ASSUME NEW w \in Workers, GetHandler(w) PROVE TypeOK'
    BY <1>19 DEF GetHandler
  <1>20. ASSUME NEW w \in Workers, GetNull(w) PROVE TypeOK'
    <2>1. w \in CountedThreads
      BY <1>20 DEF GetNull, CountedThreads
    <2>2. active_threads_ # 0
      BY <2>1, CountedFinite, FS_EmptySet DEF Counted
    <2> QED BY <1>20, <2>2, TailFacts DEF GetNull
  <1>21. ASSUME NEW w \in Workers, ProcessPartial(w) PROVE TypeOK'
    <2>1. frags[w] + 1 \in 0 .. FragmentLimit
      BY <1>21 DEF ProcessPartial
    <2>2. frags' \in [Workers -> 0 .. FragmentLimit]
      BY <1>21, <2>1 DEF ProcessPartial
    <2> QED BY <1>21, <2>2 DEF ProcessPartial
  <1>22. ASSUME NEW w \in Workers, ProcessRequest(w) PROVE TypeOK'
    BY <1>22 DEF ProcessRequest
  <1>23. ASSUME NEW w \in Workers, ProcessNothing(w) PROVE TypeOK'
    BY <1>23 DEF ProcessNothing
  <1>24. ASSUME NEW w \in Workers, ProcessCtrl(w) PROVE TypeOK'
    BY <1>24 DEF ProcessCtrl
  <1>25. ASSUME NEW w \in Workers, Reregister(w) PROVE TypeOK'
    BY <1>25 DEF Reregister, HoldsHandler
  <1>26. ASSUME NEW w \in Workers, HandleClose(w) PROVE TypeOK'
    BY <1>26 DEF HandleClose
  <1>27. ASSUME NEW h \in Handlers, NEW i \in Inputs, Client(h, i) PROVE TypeOK'
    BY <1>27 DEF Client
  <1>28. CASE UNCHANGED vars
    BY <1>28 DEF vars
  <1> QED
    BY <1>1, <1>2, <1>3, <1>4, <1>5, <1>6, <1>7, <1>8, <1>9, <1>10,
       <1>11, <1>12, <1>13, <1>14, <1>15, <1>16, <1>17, <1>18, <1>19,
       <1>20, <1>21, <1>22, <1>23, <1>24, <1>25, <1>26, <1>27, <1>28
       DEF Next, ReactorStep, WorkerStep

\* The counter stays exact: only the two ends of svc() move it, each with the
\* thread it counts.
LEMMA CountedStep == PoolInv /\ [Next]_vars => Counted'
  <1> SUFFICES ASSUME PoolInv, [Next]_vars PROVE Counted' OBVIOUS
  <1> USE DEF PoolInv, TypeOK, Counted, connVars, workerVars, reactorVars, stopVars
  <1>1. CASE Open
    <2>1. CountedThreads' = CountedThreads
      BY <1>1 DEF Open, NoThreadYet, CountedThreads, Counting, Holding
    <2> QED BY <1>1, <2>1 DEF Open
  <1>2. CASE OpenDone
    BY <1>2 DEF OpenDone, CountedThreads
  <1>3. CASE OpenFails
    BY <1>3 DEF OpenFails, CountedThreads
  <1>4. CASE Enqueue
    BY <1>4 DEF Enqueue, CountedThreads
  <1>5. CASE EnqueueFails
    BY <1>5 DEF EnqueueFails, CountedThreads
  <1>6. CASE StopBegin
    BY <1>6 DEF StopBegin, CountedThreads
  <1>7. CASE StopEnqueue
    BY <1>7 DEF StopEnqueue, CountedThreads
  <1>8. CASE StopEnqueueFails
    BY <1>8 DEF StopEnqueueFails, CountedThreads
  <1>9. CASE StopPoll
    BY <1>9 DEF StopPoll, CountedThreads
  <1>10. CASE StopReturn
    BY <1>10 DEF StopReturn, CountedThreads
  <1>11. CASE CancelAll
    BY <1>11 DEF CancelAll, CountedThreads
  <1>12. CASE CancelTimeout
    BY <1>12 DEF CancelTimeout, CountedThreads
  <1>13. CASE CancelDone
    BY <1>13 DEF CancelDone, CountedThreads
  <1>14. ASSUME NEW h \in Handlers, Accept(h) PROVE Counted'
    BY <1>14 DEF Accept, CountedThreads
  <1>15. ASSUME NEW h \in Handlers, HandleInput(h) PROVE Counted'
    BY <1>15 DEF HandleInput, CountedThreads
  <1>16. ASSUME NEW h \in Handlers, HandleTimeout(h) PROVE Counted'
    BY <1>16 DEF HandleTimeout, CountedThreads
  <1>17. ASSUME NEW w \in Workers, SvcBegin(w) PROVE Counted'
    <2>1. CountedThreads' = CountedThreads \union {w} /\ w \notin CountedThreads
      BY <1>17 DEF SvcBegin, CountedThreads, Counting, Holding
    <2> QED BY <1>17, <2>1, CountedFinite, FS_AddElement DEF SvcBegin
  <1>18. ASSUME NEW w \in Workers, SvcCancelled(w) PROVE Counted'
    <2>1. CountedThreads' = CountedThreads
      BY <1>18 DEF SvcCancelled, CountedThreads, Counting, Holding
    <2> QED BY <1>18, <2>1 DEF SvcCancelled
  <1>19. ASSUME NEW w \in Workers, GetHandler(w) PROVE Counted'
    <2>1. CountedThreads' = CountedThreads
      BY <1>19 DEF GetHandler, CountedThreads, Counting, Holding
    <2> QED BY <1>19, <2>1 DEF GetHandler
  <1>20. ASSUME NEW w \in Workers, GetNull(w) PROVE Counted'
    <2>1. CountedThreads' = CountedThreads \ {w} /\ w \in CountedThreads
      BY <1>20 DEF GetNull, CountedThreads, Counting, Holding
    <2> QED BY <1>20, <2>1, CountedFinite, FS_RemoveElement DEF GetNull
  <1>21. ASSUME NEW w \in Workers, ProcessPartial(w) PROVE Counted'
    BY <1>21 DEF ProcessPartial, CountedThreads
  <1>22. ASSUME NEW w \in Workers, ProcessRequest(w) PROVE Counted'
    <2>1. CountedThreads' = CountedThreads
      BY <1>22 DEF ProcessRequest, CountedThreads, Counting, Holding
    <2> QED BY <1>22, <2>1 DEF ProcessRequest
  <1>23. ASSUME NEW w \in Workers, ProcessNothing(w) PROVE Counted'
    <2>1. CountedThreads' = CountedThreads
      BY <1>23 DEF ProcessNothing, CountedThreads, Counting, Holding
    <2> QED BY <1>23, <2>1 DEF ProcessNothing
  <1>24. ASSUME NEW w \in Workers, ProcessCtrl(w) PROVE Counted'
    <2>1. CountedThreads' = CountedThreads
      BY <1>24 DEF ProcessCtrl, CountedThreads, Counting, Holding
    <2> QED BY <1>24, <2>1 DEF ProcessCtrl
  <1>25. ASSUME NEW w \in Workers, Reregister(w) PROVE Counted'
    <2>1. CountedThreads' = CountedThreads
      BY <1>25 DEF Reregister, CountedThreads, Counting, Holding
    <2> QED BY <1>25, <2>1 DEF Reregister
  <1>26. ASSUME NEW w \in Workers, HandleClose(w) PROVE Counted'
    <2>1. CountedThreads' = CountedThreads
      BY <1>26 DEF HandleClose, CountedThreads, Counting, Holding
    <2> QED BY <1>26, <2>1 DEF HandleClose
  <1>27. ASSUME NEW h \in Handlers, NEW i \in Inputs, Client(h, i) PROVE Counted'
    BY <1>27 DEF Client, CountedThreads
  <1>28. CASE UNCHANGED vars
    BY <1>28 DEF vars, CountedThreads
  <1> QED
    BY <1>1, <1>2, <1>3, <1>4, <1>5, <1>6, <1>7, <1>8, <1>9, <1>10,
       <1>11, <1>12, <1>13, <1>14, <1>15, <1>16, <1>17, <1>18, <1>19,
       <1>20, <1>21, <1>22, <1>23, <1>24, <1>25, <1>26, <1>27, <1>28
       DEF Next, ReactorStep, WorkerStep

\* A pool thread holds a handler exactly while its program counter says so, and
\* the reactor thread exactly during an upcall.
LEMMA HoldsStep == PoolInv /\ [Next]_vars => (HoldsHandler /\ UpcallHandler /\ NoThreadYet)'
  <1> DEFINE Goal == (HoldsHandler /\ UpcallHandler /\ NoThreadYet)'
  <1> SUFFICES ASSUME PoolInv, [Next]_vars PROVE Goal OBVIOUS
  <1> USE PoolAssumption DEF PoolInv, TypeOK, HoldsHandler, UpcallHandler, NoThreadYet, Holding,
              Selecting, connVars, workerVars, reactorVars, stopVars
  <1>1. CASE Open
    BY <1>1 DEF Open
  <1>2. CASE OpenDone
    BY <1>2 DEF OpenDone
  <1>3. CASE OpenFails
    BY <1>3 DEF OpenFails
  <1>4. CASE Enqueue
    BY <1>4 DEF Enqueue
  <1>5. CASE EnqueueFails
    BY <1>5 DEF EnqueueFails
  <1>6. CASE StopBegin
    BY <1>6 DEF StopBegin
  <1>7. CASE StopEnqueue
    BY <1>7 DEF StopEnqueue
  <1>8. CASE StopEnqueueFails
    BY <1>8 DEF StopEnqueueFails
  <1>9. CASE StopPoll
    BY <1>9 DEF StopPoll
  <1>10. CASE StopReturn
    BY <1>10 DEF StopReturn
  <1>11. CASE CancelAll
    BY <1>11 DEF CancelAll
  <1>12. CASE CancelTimeout
    BY <1>12 DEF CancelTimeout
  <1>13. CASE CancelDone
    BY <1>13 DEF CancelDone
  <1>14. ASSUME NEW h \in Handlers, Accept(h) PROVE Goal
    BY <1>14 DEF Accept
  <1>15. ASSUME NEW h \in Handlers, HandleInput(h) PROVE Goal
    BY <1>15 DEF HandleInput
  <1>16. ASSUME NEW h \in Handlers, HandleTimeout(h) PROVE Goal
    BY <1>16 DEF HandleTimeout
  <1>17. ASSUME NEW w \in Workers, SvcBegin(w) PROVE Goal
    BY <1>17 DEF SvcBegin
  <1>18. ASSUME NEW w \in Workers, SvcCancelled(w) PROVE Goal
    BY <1>18 DEF SvcCancelled
  <1>19. ASSUME NEW w \in Workers, GetHandler(w) PROVE Goal
    <2>1. Head(queue) \in Handlers
      BY <1>19, TailFacts DEF GetHandler
    <2> QED BY <1>19, <2>1 DEF GetHandler
  <1>20. ASSUME NEW w \in Workers, GetNull(w) PROVE Goal
    BY <1>20 DEF GetNull
  <1>21. ASSUME NEW w \in Workers, ProcessPartial(w) PROVE Goal
    BY <1>21 DEF ProcessPartial
  <1>22. ASSUME NEW w \in Workers, ProcessRequest(w) PROVE Goal
    BY <1>22 DEF ProcessRequest
  <1>23. ASSUME NEW w \in Workers, ProcessNothing(w) PROVE Goal
    BY <1>23 DEF ProcessNothing
  <1>24. ASSUME NEW w \in Workers, ProcessCtrl(w) PROVE Goal
    BY <1>24 DEF ProcessCtrl
  <1>25. ASSUME NEW w \in Workers, Reregister(w) PROVE Goal
    BY <1>25 DEF Reregister
  <1>26. ASSUME NEW w \in Workers, HandleClose(w) PROVE Goal
    BY <1>26 DEF HandleClose
  <1>27. ASSUME NEW h \in Handlers, NEW i \in Inputs, Client(h, i) PROVE Goal
    BY <1>27 DEF Client
  <1>28. CASE UNCHANGED vars
    BY <1>28 DEF vars
  <1> QED
    BY <1>1, <1>2, <1>3, <1>4, <1>5, <1>6, <1>7, <1>8, <1>9, <1>10,
       <1>11, <1>12, <1>13, <1>14, <1>15, <1>16, <1>17, <1>18, <1>19,
       <1>20, <1>21, <1>22, <1>23, <1>24, <1>25, <1>26, <1>27, <1>28
       DEF Next, ReactorStep, WorkerStep

LEMMA InitPool == Init => PoolInv
  <1> SUFFICES ASSUME Init PROVE PoolInv OBVIOUS
  <1>1. CountedThreads = {}
    BY DEF Init, CountedThreads, Counting, Holding
  <1>2. Counted
    BY <1>1, FS_EmptySet DEF Init, Counted
  <1> QED BY <1>2, TypeInit DEF Init, PoolInv, HoldsHandler, UpcallHandler, NoThreadYet, Holding

\* PoolInv is inductive.
LEMMA PoolInvInductive == Spec => []PoolInv
  <1>1. Init => PoolInv
    BY InitPool
  <1>2. PoolInv /\ [Next]_vars => PoolInv'
    BY TypeStep, CountedStep, HoldsStep DEF PoolInv
  <1> QED BY <1>1, <1>2, PTL DEF Spec

\* Type correctness of the pool model for every instance: in particular the
\* counter active_threads_ never drops below zero.
THEOREM TypeCorrect == Spec => []TypeOK
  <1>1. PoolInv => TypeOK
    BY DEF PoolInv
  <1> QED BY <1>1, PoolInvInductive, PTL

-----------------------------------------------------------------------------
(* Who may hold a pointer to a handler.                                    *)

OwnerInv == PoolInv /\ Exclusive /\ NoUseAfterFree

\* A handler changes hands only from the party that has it: handle_input takes
\* it from the reactor before enqueue gives it to the pool, and a pool thread
\* that gives it back or destroys it has no other copy of it anywhere.
LEMMA OwnerStep == OwnerInv /\ [Next]_vars => (Exclusive /\ NoUseAfterFree)'
  <1> DEFINE Goal == (Exclusive /\ NoUseAfterFree)'
  <1> SUFFICES ASSUME OwnerInv, [Next]_vars PROVE Goal OBVIOUS
  <1> USE PoolAssumption DEF OwnerInv, PoolInv, TypeOK, Exclusive, NoUseAfterFree, Queued,
              connVars, workerVars, reactorVars, stopVars
  <1>1. CASE Open
    BY <1>1 DEF Open
  <1>2. CASE OpenDone
    BY <1>2 DEF OpenDone, UpcallHandler
  <1>3. CASE OpenFails
    BY <1>3 DEF OpenFails, UpcallHandler
  <1>4. CASE Enqueue
    <2>1. /\ DOMAIN queue' = 1 .. (Len(queue) + 1)
          /\ \A i \in DOMAIN queue : queue'[i] = queue[i]
          /\ queue'[Len(queue) + 1] = rh
          /\ \A i \in DOMAIN queue' : i = Len(queue) + 1 \/ i \in DOMAIN queue
      BY <1>4, AppendFacts DEF Enqueue
    <2>2. rh # Null
      BY <1>4 DEF Enqueue, UpcallHandler
    <2>3. Exclusive'
      BY <1>4, <2>1, <2>2 DEF Enqueue
    <2>4. NoUseAfterFree'
      BY <1>4, <2>1, <2>2 DEF Enqueue
    <2> QED BY <2>3, <2>4
  <1>5. CASE EnqueueFails
    BY <1>5 DEF EnqueueFails
  <1>6. CASE StopBegin
    BY <1>6 DEF StopBegin
  <1>7. CASE StopEnqueue
    <2>1. /\ DOMAIN queue' = 1 .. (Len(queue) + 1)
          /\ \A i \in DOMAIN queue : queue'[i] = queue[i]
          /\ queue'[Len(queue) + 1] = Null
          /\ \A i \in DOMAIN queue' : i = Len(queue) + 1 \/ i \in DOMAIN queue
      BY <1>7, AppendFacts DEF StopEnqueue
    <2>3. Exclusive'
      BY <1>7, <2>1 DEF StopEnqueue
    <2>4. NoUseAfterFree'
      BY <1>7, <2>1 DEF StopEnqueue
    <2> QED BY <2>3, <2>4
  <1>8. CASE StopEnqueueFails
    BY <1>8 DEF StopEnqueueFails
  <1>9. CASE StopPoll
    BY <1>9 DEF StopPoll
  <1>10. CASE StopReturn
    BY <1>10 DEF StopReturn
  <1>11. CASE CancelAll
    BY <1>11 DEF CancelAll
  <1>12. CASE CancelTimeout
    BY <1>12 DEF CancelTimeout
  <1>13. CASE CancelDone
    BY <1>13 DEF CancelDone
  <1>14. ASSUME NEW h \in Handlers, Accept(h) PROVE Goal
    BY <1>14 DEF Accept, Selecting, UpcallHandler
  <1>15. ASSUME NEW h \in Handlers, HandleInput(h) PROVE Goal
    BY <1>15 DEF HandleInput, Selecting, UpcallHandler
  <1>16. ASSUME NEW h \in Handlers, HandleTimeout(h) PROVE Goal
    BY <1>16 DEF HandleTimeout
  <1>17. ASSUME NEW w \in Workers, SvcBegin(w) PROVE Goal
    BY <1>17 DEF SvcBegin
  <1>18. ASSUME NEW w \in Workers, SvcCancelled(w) PROVE Goal
    BY <1>18 DEF SvcCancelled
  <1>19. ASSUME NEW w \in Workers, GetHandler(w) PROVE Goal
    <2> DEFINE S == Handlers \union {Null}
    <2> HIDE DEF S
    <2>1. /\ queue' \in Seq(S)
          /\ \A i \in DOMAIN queue' : /\ i \in Nat \ {0}
                                      /\ i + 1 \in DOMAIN queue
                                      /\ queue'[i] = queue[i + 1]
      BY <1>19, TailFacts DEF GetHandler, S
    <2>2. 1 \in DOMAIN queue /\ Head(queue) = queue[1]
      BY <1>19, TailFacts DEF GetHandler
    <2>3. Exclusive'
      BY <1>19, <2>1, <2>2 DEF GetHandler
    <2>4. NoUseAfterFree'
      BY <1>19, <2>1, <2>2 DEF GetHandler
    <2> QED BY <2>3, <2>4
  <1>20. ASSUME NEW w \in Workers, GetNull(w) PROVE Goal
    <2> DEFINE S == Handlers \union {Null}
    <2> HIDE DEF S
    <2>1. /\ queue' \in Seq(S)
          /\ \A i \in DOMAIN queue' : /\ i \in Nat \ {0}
                                      /\ i + 1 \in DOMAIN queue
                                      /\ queue'[i] = queue[i + 1]
      BY <1>20, TailFacts DEF GetNull, S
    <2>2. 1 \in DOMAIN queue /\ Head(queue) = queue[1]
      BY <1>20, TailFacts DEF GetNull
    <2>3. Exclusive'
      BY <1>20, <2>1, <2>2 DEF GetNull
    <2>4. NoUseAfterFree'
      BY <1>20, <2>1, <2>2 DEF GetNull
    <2> QED BY <2>3, <2>4
  <1>21. ASSUME NEW w \in Workers, ProcessPartial(w) PROVE Goal
    BY <1>21 DEF ProcessPartial
  <1>22. ASSUME NEW w \in Workers, ProcessRequest(w) PROVE Goal
    BY <1>22 DEF ProcessRequest
  <1>23. ASSUME NEW w \in Workers, ProcessNothing(w) PROVE Goal
    BY <1>23 DEF ProcessNothing
  <1>24. ASSUME NEW w \in Workers, ProcessCtrl(w) PROVE Goal
    BY <1>24 DEF ProcessCtrl
  <1>25. ASSUME NEW w \in Workers, Reregister(w) PROVE Goal
    BY <1>25 DEF Reregister, HoldsHandler, Holding, TokenFree, UpcallHandler
  <1>26. ASSUME NEW w \in Workers, HandleClose(w) PROVE Goal
    BY <1>26 DEF HandleClose, HoldsHandler, Holding, TokenFree, UpcallHandler
  <1>27. ASSUME NEW h \in Handlers, NEW i \in Inputs, Client(h, i) PROVE Goal
    BY <1>27 DEF Client
  <1>28. CASE UNCHANGED vars
    BY <1>28 DEF vars
  <1> QED
    BY <1>1, <1>2, <1>3, <1>4, <1>5, <1>6, <1>7, <1>8, <1>9, <1>10,
       <1>11, <1>12, <1>13, <1>14, <1>15, <1>16, <1>17, <1>18, <1>19,
       <1>20, <1>21, <1>22, <1>23, <1>24, <1>25, <1>26, <1>27, <1>28
       DEF Next, ReactorStep, WorkerStep

LEMMA OwnerInvInductive == Spec => []OwnerInv
  <1>1. Init => OwnerInv
    <2> SUFFICES ASSUME Init, PoolInv PROVE Exclusive /\ NoUseAfterFree
      BY InitPool DEF OwnerInv
    <2> QED BY DEF Init, Exclusive, NoUseAfterFree, Queued
  <1>2. OwnerInv /\ [Next]_vars => OwnerInv'
    BY OwnerStep, TypeStep, CountedStep, HoldsStep DEF OwnerInv, PoolInv
  <1> QED BY <1>1, <1>2, PTL DEF Spec

\* In every instance of the pool, no two threads ever work on one connection
\* and the reactor never watches a connection that a thread works on: the lock
\* that handle_input does not take is not needed.
THEOREM ExclusiveService == Spec => []Exclusive
  <1>1. OwnerInv => Exclusive
    BY DEF OwnerInv
  <1> QED BY <1>1, OwnerInvInductive, PTL

\* In every instance of the pool, no thread, queue entry or reactor entry
\* refers to a handler that destroy() has deleted.
THEOREM MemorySafe == Spec => []NoUseAfterFree
  <1>1. OwnerInv => NoUseAfterFree
    BY DEF OwnerInv
  <1> QED BY <1>1, OwnerInvInductive, PTL

-----------------------------------------------------------------------------
(* Where the nulls of stop() can be.                                       *)

Stopping == rpc \in {"stopping", "stopWait", "closed"}

\* The queue is first-in first-out and nothing is queued behind a null but
\* nulls: the reactor thread, busy with stop(), dispatches no connection.
NullsBehind ==
    \A i, j \in DOMAIN queue : i <= j /\ queue[i] = Null => queue[j] = Null

\* Nulls, and threads that took one, exist only once stop() runs.
NullsFromStop ==
    (\E i \in DOMAIN queue : queue[i] = Null) \/ (\E w \in Workers : wpc[w] = "exited")
        => Stopping

\* A thread that took a null saw every handler taken before it.
Flushed ==
    (\E w \in Workers : wpc[w] = "exited") => \A i \in DOMAIN queue : queue[i] = Null

\* If stop() counted a thread, that thread is still counted or took a null.
StillCounted ==
    Stopping /\ snapshot > 0 => \E w \in Workers : wpc[w] \in Counting \union {"exited"}

\* Once stop() has returned no thread works on a connection.
ClosedQuiet ==
    rpc = "closed" /\ snapshot > 0 =>
        /\ \E w \in Workers : wpc[w] = "exited"
        /\ \A w \in Workers : wpc[w] \notin Holding

DrainInv ==
    PoolInv /\ NullsBehind /\ NullsFromStop /\ Flushed /\ StillCounted /\ ClosedQuiet

LEMMA DrainStep ==
  DrainInv /\ [Next]_vars
    => (NullsBehind /\ NullsFromStop /\ Flushed /\ StillCounted /\ ClosedQuiet)'
  <1> DEFINE Goal == (NullsBehind /\ NullsFromStop /\ Flushed /\ StillCounted /\ ClosedQuiet)'
  <1> SUFFICES ASSUME DrainInv, [Next]_vars PROVE Goal OBVIOUS
  <1> USE PoolAssumption DEF DrainInv, PoolInv, TypeOK, NullsBehind, NullsFromStop, Flushed,
              StillCounted, ClosedQuiet, Stopping, Counting, Holding,
              connVars, workerVars, reactorVars, stopVars
  <1>1. CASE Open
    BY <1>1 DEF Open, NoThreadYet
  <1>2. CASE OpenDone
    BY <1>2 DEF OpenDone
  <1>3. CASE OpenFails
    BY <1>3 DEF OpenFails
  <1>4. CASE Enqueue
    <2>1. /\ DOMAIN queue' = 1 .. (Len(queue) + 1)
          /\ \A i \in DOMAIN queue : queue'[i] = queue[i]
          /\ queue'[Len(queue) + 1] = rh
          /\ \A i \in DOMAIN queue' : i = Len(queue) + 1 \/ i \in DOMAIN queue
      BY <1>4, AppendFacts DEF Enqueue
    <2>2. rh # Null
      BY <1>4 DEF Enqueue, UpcallHandler
    <2>3. NullsBehind'
      BY <1>4, <2>1, <2>2 DEF Enqueue
    <2>4. (NullsFromStop /\ Flushed)'
      BY <1>4, <2>1, <2>2 DEF Enqueue
    <2>5. (StillCounted /\ ClosedQuiet)'
      BY <1>4, <2>1, <2>2 DEF Enqueue
    <2> QED BY <2>3, <2>4, <2>5
  <1>5. CASE EnqueueFails
    BY <1>5 DEF EnqueueFails
  <1>6. CASE StopBegin
    <2>1. active_threads_ > 0 => \E w \in Workers : wpc[w] \in Counting
      <3>1. CountedThreads = {} => active_threads_ = 0
        BY FS_EmptySet DEF Counted
      <3> QED BY <3>1 DEF CountedThreads
    <2> QED BY <1>6, <2>1 DEF StopBegin
  <1>7. CASE StopEnqueue
    <2>1. /\ DOMAIN queue' = 1 .. (Len(queue) + 1)
          /\ \A i \in DOMAIN queue : queue'[i] = queue[i]
          /\ queue'[Len(queue) + 1] = Null
          /\ \A i \in DOMAIN queue' : i = Len(queue) + 1 \/ i \in DOMAIN queue
      BY <1>7, AppendFacts DEF StopEnqueue
    <2>2. \A i \in DOMAIN queue : i < Len(queue) + 1
      OBVIOUS
    <2>3. NullsBehind'
      BY <1>7, <2>1, <2>2 DEF StopEnqueue
    <2>4. (NullsFromStop /\ Flushed)'
      BY <1>7, <2>1, <2>2 DEF StopEnqueue
    <2>5. (StillCounted /\ ClosedQuiet)'
      BY <1>7, <2>1, <2>2 DEF StopEnqueue
    <2> QED BY <2>3, <2>4, <2>5
  <1>8. CASE StopEnqueueFails
    BY <1>8 DEF StopEnqueueFails
  <1>9. CASE StopPoll
    BY <1>9 DEF StopPoll
  <1>10. CASE StopReturn
    <2>1. \A w \in Workers : wpc[w] \notin Counting
      <3>1. CountedThreads = {}
        BY <1>10, CountedFinite, FS_EmptySet DEF StopReturn, Counted
      <3> QED BY <3>1 DEF CountedThreads
    <2> QED BY <1>10, <2>1 DEF StopReturn
  <1>11. CASE CancelAll
    BY <1>11 DEF CancelAll
  <1>12. CASE CancelTimeout
    BY <1>12 DEF CancelTimeout
  <1>13. CASE CancelDone
    <2>1. active_threads_ > 0 => \E w \in Workers : wpc[w] \in Counting
      <3>1. CountedThreads = {} => active_threads_ = 0
        BY FS_EmptySet DEF Counted
      <3> QED BY <3>1 DEF CountedThreads
    <2> QED BY <1>13, <2>1 DEF CancelDone
  <1>14. ASSUME NEW h \in Handlers, Accept(h) PROVE Goal
    BY <1>14 DEF Accept
  <1>15. ASSUME NEW h \in Handlers, HandleInput(h) PROVE Goal
    BY <1>15 DEF HandleInput
  <1>16. ASSUME NEW h \in Handlers, HandleTimeout(h) PROVE Goal
    BY <1>16 DEF HandleTimeout
  <1>17. ASSUME NEW w \in Workers, SvcBegin(w) PROVE Goal
    BY <1>17 DEF SvcBegin
  <1>18. ASSUME NEW w \in Workers, SvcCancelled(w) PROVE Goal
    BY <1>18 DEF SvcCancelled
  <1>19. ASSUME NEW w \in Workers, GetHandler(w) PROVE Goal
    <2> DEFINE S == Handlers \union {Null}
    <2> HIDE DEF S
    <2>1. /\ queue' \in Seq(S)
          /\ \A i \in DOMAIN queue' : /\ i \in Nat \ {0}
                                      /\ i + 1 \in DOMAIN queue
                                      /\ queue'[i] = queue[i + 1]
      BY <1>19, TailFacts DEF GetHandler, S
    <2>2. 1 \in DOMAIN queue /\ Head(queue) = queue[1]
      BY <1>19, TailFacts DEF GetHandler
    <2>3. NullsBehind'
      BY <1>19, <2>1, <2>2 DEF GetHandler
    <2>4. (NullsFromStop /\ Flushed)'
      BY <1>19, <2>1, <2>2 DEF GetHandler
    <2>5. (StillCounted /\ ClosedQuiet)'
      BY <1>19, <2>1, <2>2 DEF GetHandler
    <2> QED BY <2>3, <2>4, <2>5
  <1>20. ASSUME NEW w \in Workers, GetNull(w) PROVE Goal
    <2> DEFINE S == Handlers \union {Null}
    <2> HIDE DEF S
    <2>1. /\ queue' \in Seq(S)
          /\ \A i \in DOMAIN queue' : /\ i \in Nat \ {0}
                                      /\ i + 1 \in DOMAIN queue
                                      /\ queue'[i] = queue[i + 1]
      BY <1>20, TailFacts DEF GetNull, S
    <2>2. 1 \in DOMAIN queue /\ Head(queue) = queue[1]
      BY <1>20, TailFacts DEF GetNull
    <2>3. \A i \in DOMAIN queue : queue[i] = Null
      BY <1>20, <2>2 DEF GetNull
    <2>4. (NullsBehind /\ Flushed)'
      BY <1>20, <2>1, <2>3 DEF GetNull
    <2>5. (NullsFromStop /\ StillCounted /\ ClosedQuiet)'
      BY <1>20, <2>1, <2>2 DEF GetNull
    <2> QED BY <2>4, <2>5
  <1>21. ASSUME NEW w \in Workers, ProcessPartial(w) PROVE Goal
    BY <1>21 DEF ProcessPartial
  <1>22. ASSUME NEW w \in Workers, ProcessRequest(w) PROVE Goal
    BY <1>22 DEF ProcessRequest
  <1>23. ASSUME NEW w \in Workers, ProcessNothing(w) PROVE Goal
    BY <1>23 DEF ProcessNothing
  <1>24. ASSUME NEW w \in Workers, ProcessCtrl(w) PROVE Goal
    BY <1>24 DEF ProcessCtrl
  <1>25. ASSUME NEW w \in Workers, Reregister(w) PROVE Goal
    BY <1>25 DEF Reregister
  <1>26. ASSUME NEW w \in Workers, HandleClose(w) PROVE Goal
    BY <1>26 DEF HandleClose
  <1>27. ASSUME NEW h \in Handlers, NEW i \in Inputs, Client(h, i) PROVE Goal
    BY <1>27 DEF Client
  <1>28. CASE UNCHANGED vars
    BY <1>28 DEF vars
  <1> QED
    BY <1>1, <1>2, <1>3, <1>4, <1>5, <1>6, <1>7, <1>8, <1>9, <1>10,
       <1>11, <1>12, <1>13, <1>14, <1>15, <1>16, <1>17, <1>18, <1>19,
       <1>20, <1>21, <1>22, <1>23, <1>24, <1>25, <1>26, <1>27, <1>28
       DEF Next, ReactorStep, WorkerStep

\* In every instance of the pool, when stop() counted at least one thread and
\* returns, no connection is left in the queue or in a thread's hands.
THEOREM StopDrainsPool == Spec => []StopDrains
  <1>1. Init => DrainInv
    BY InitPool DEF Init, DrainInv, NullsBehind, NullsFromStop, Flushed, StillCounted,
                    ClosedQuiet, Stopping
  <1>2. DrainInv /\ [Next]_vars => DrainInv'
    BY DrainStep, TypeStep, CountedStep, HoldsStep DEF DrainInv, PoolInv
  <1>3. DrainInv => StopDrains
    BY DEF DrainInv, PoolInv, HoldsHandler, Flushed, ClosedQuiet, StopDrains, Queued
  <1> QED BY <1>1, <1>2, <1>3, PTL DEF Spec

-----------------------------------------------------------------------------
(* The pool implements ProcService.                                        *)

\* A thread about to hang up has seen the client's ctrl-c or ctrl-z, and
\* nobody has consumed it since.
CtrlSeen == \A w \in Workers : wpc[w] = "close" => input[wh[w]] = "ctrl"

ServeInv == OwnerInv /\ CtrlSeen

LEMMA CtrlStep == ServeInv /\ [Next]_vars => CtrlSeen'
  <1> SUFFICES ASSUME ServeInv, [Next]_vars PROVE CtrlSeen' OBVIOUS
  <1> USE PoolAssumption DEF ServeInv, OwnerInv, PoolInv, TypeOK, CtrlSeen, HoldsHandler,
              Holding, Exclusive, connVars, workerVars, reactorVars, stopVars
  <1>1. CASE Open
    BY <1>1 DEF Open
  <1>2. CASE OpenDone
    BY <1>2 DEF OpenDone
  <1>3. CASE OpenFails
    BY <1>3 DEF OpenFails, UpcallHandler
  <1>4. CASE Enqueue
    BY <1>4 DEF Enqueue
  <1>5. CASE EnqueueFails
    BY <1>5 DEF EnqueueFails
  <1>6. CASE StopBegin
    BY <1>6 DEF StopBegin
  <1>7. CASE StopEnqueue
    BY <1>7 DEF StopEnqueue
  <1>8. CASE StopEnqueueFails
    BY <1>8 DEF StopEnqueueFails
  <1>9. CASE StopPoll
    BY <1>9 DEF StopPoll
  <1>10. CASE StopReturn
    BY <1>10 DEF StopReturn
  <1>11. CASE CancelAll
    BY <1>11 DEF CancelAll
  <1>12. CASE CancelTimeout
    BY <1>12 DEF CancelTimeout
  <1>13. CASE CancelDone
    BY <1>13 DEF CancelDone
  <1>14. ASSUME NEW h \in Handlers, Accept(h) PROVE CtrlSeen'
    BY <1>14 DEF Accept
  <1>15. ASSUME NEW h \in Handlers, HandleInput(h) PROVE CtrlSeen'
    BY <1>15 DEF HandleInput
  <1>16. ASSUME NEW h \in Handlers, HandleTimeout(h) PROVE CtrlSeen'
    BY <1>16 DEF HandleTimeout
  <1>17. ASSUME NEW w \in Workers, SvcBegin(w) PROVE CtrlSeen'
    BY <1>17 DEF SvcBegin
  <1>18. ASSUME NEW w \in Workers, SvcCancelled(w) PROVE CtrlSeen'
    BY <1>18 DEF SvcCancelled
  <1>19. ASSUME NEW w \in Workers, GetHandler(w) PROVE CtrlSeen'
    BY <1>19 DEF GetHandler
  <1>20. ASSUME NEW w \in Workers, GetNull(w) PROVE CtrlSeen'
    BY <1>20 DEF GetNull
  <1>21. ASSUME NEW w \in Workers, ProcessPartial(w) PROVE CtrlSeen'
    BY <1>21 DEF ProcessPartial
  <1>22. ASSUME NEW w \in Workers, ProcessRequest(w) PROVE CtrlSeen'
    BY <1>22 DEF ProcessRequest, Complete
  <1>23. ASSUME NEW w \in Workers, ProcessNothing(w) PROVE CtrlSeen'
    BY <1>23 DEF ProcessNothing
  <1>24. ASSUME NEW w \in Workers, ProcessCtrl(w) PROVE CtrlSeen'
    BY <1>24 DEF ProcessCtrl
  <1>25. ASSUME NEW w \in Workers, Reregister(w) PROVE CtrlSeen'
    BY <1>25 DEF Reregister
  <1>26. ASSUME NEW w \in Workers, HandleClose(w) PROVE CtrlSeen'
    BY <1>26 DEF HandleClose
  <1>27. ASSUME NEW h \in Handlers, NEW i \in Inputs, Client(h, i) PROVE CtrlSeen'
    BY <1>27 DEF Client, Inputs
  <1>28. CASE UNCHANGED vars
    BY <1>28 DEF vars
  <1> QED
    BY <1>1, <1>2, <1>3, <1>4, <1>5, <1>6, <1>7, <1>8, <1>9, <1>10,
       <1>11, <1>12, <1>13, <1>14, <1>15, <1>16, <1>17, <1>18, <1>19,
       <1>20, <1>21, <1>22, <1>23, <1>24, <1>25, <1>26, <1>27, <1>28
       DEF Next, ReactorStep, WorkerStep

\* Every step of the pool is a step of the service or changes nothing a client
\* can tell.
LEMMA ServiceStep == ServeInv /\ [Next]_vars => [Service!ServiceNext]_<<connState, input>>
  <1> DEFINE Goal == [Service!ServiceNext]_<<connState, input>>
  <1> SUFFICES ASSUME ServeInv, [Next]_vars PROVE Goal OBVIOUS
  <1> USE PoolAssumption DEF ServeInv, OwnerInv, PoolInv, TypeOK, Exclusive, NoUseAfterFree,
              connVars, workerVars, reactorVars, stopVars
  <1>1. CASE Open
    <2>1. UNCHANGED <<connState, input>>
      BY <1>1 DEF Open, connState
    <2> QED BY <2>1
  <1>2. CASE OpenDone
    <2>1. rh \in Handlers
      BY <1>2 DEF OpenDone, UpcallHandler
    <2>2. connState' = [connState EXCEPT ![rh] = "waiting"]
      BY <1>2, <2>1 DEF OpenDone, connState, UpcallHandler
    <2>3. Service!Greet(rh)
      BY <1>2, <2>1, <2>2 DEF OpenDone, connState, Service!Greet, UpcallHandler
    <2> QED BY <2>1, <2>3 DEF Service!ServiceNext
  <1>3. CASE OpenFails
    <2>1. rh \in Handlers
      BY <1>3 DEF OpenFails, UpcallHandler
    <2>2. connState' = [connState EXCEPT ![rh] = "none"]
      <3>1. /\ upcall = "open" /\ upcall' = "none" /\ alive' = alive \ {rh}
            /\ UNCHANGED registered
        BY <1>3 DEF OpenFails
      <3>2. \A g \in Handlers : connState'[g] = IF g = rh THEN "none" ELSE connState[g]
        BY <2>1, <3>1 DEF connState
      <3>3. /\ connState = [g \in Handlers |-> connState[g]]
            /\ connState' = [g \in Handlers |-> connState'[g]]
        BY DEF connState
      <3> QED BY <2>1, <3>2, <3>3
    <2>3. Service!Refuse(rh)
      BY <1>3, <2>1, <2>2 DEF OpenFails, connState, Service!Refuse, UpcallHandler
    <2> QED BY <2>1, <2>3 DEF Service!ServiceNext
  <1>4. CASE Enqueue
    <2>1. UNCHANGED <<connState, input>>
      BY <1>4 DEF Enqueue, connState
    <2> QED BY <2>1
  <1>5. CASE EnqueueFails
    <2>1. UNCHANGED <<connState, input>>
      BY <1>5 DEF EnqueueFails, connState
    <2> QED BY <2>1
  <1>6. CASE StopBegin
    <2>1. UNCHANGED <<connState, input>>
      BY <1>6 DEF StopBegin, connState
    <2> QED BY <2>1
  <1>7. CASE StopEnqueue
    <2>1. UNCHANGED <<connState, input>>
      BY <1>7 DEF StopEnqueue, connState
    <2> QED BY <2>1
  <1>8. CASE StopEnqueueFails
    <2>1. UNCHANGED <<connState, input>>
      BY <1>8 DEF StopEnqueueFails, connState
    <2> QED BY <2>1
  <1>9. CASE StopPoll
    <2>1. UNCHANGED <<connState, input>>
      BY <1>9 DEF StopPoll, connState
    <2> QED BY <2>1
  <1>10. CASE StopReturn
    <2>1. UNCHANGED <<connState, input>>
      BY <1>10 DEF StopReturn, connState
    <2> QED BY <2>1
  <1>11. CASE CancelAll
    <2>1. UNCHANGED <<connState, input>>
      BY <1>11 DEF CancelAll, connState
    <2> QED BY <2>1
  <1>12. CASE CancelTimeout
    <2>1. UNCHANGED <<connState, input>>
      BY <1>12 DEF CancelTimeout, connState
    <2> QED BY <2>1
  <1>13. CASE CancelDone
    <2>1. UNCHANGED <<connState, input>>
      BY <1>13 DEF CancelDone, connState
    <2> QED BY <2>1
  <1>14. ASSUME NEW h \in Handlers, Accept(h) PROVE Goal
    <2>1. h \in Handlers
      BY <1>14 DEF Accept, Selecting, UpcallHandler
    <2>2. connState' = [connState EXCEPT ![h] = "new"]
      <3>1. /\ upcall = "none" /\ upcall' = "open" /\ rh' = h
            /\ alive' = alive \union {h} /\ UNCHANGED registered
        BY <1>14 DEF Accept, Selecting
      <3>0. h \notin alive /\ h \notin registered
        BY <1>14 DEF Accept
      <3>2. \A g \in Handlers : connState'[g] = IF g = h THEN "new" ELSE connState[g]
        BY <2>1, <3>0, <3>1 DEF connState
      <3>3. /\ connState = [g \in Handlers |-> connState[g]]
            /\ connState' = [g \in Handlers |-> connState'[g]]
        BY DEF connState
      <3> QED BY <2>1, <3>2, <3>3
    <2>3. Service!Connect(h)
      BY <1>14, <2>1, <2>2 DEF Accept, connState, Service!Connect, Selecting, UpcallHandler
    <2> QED BY <2>1, <2>3 DEF Service!ServiceNext
  <1>15. ASSUME NEW h \in Handlers, HandleInput(h) PROVE Goal
    <2>1. h \in Handlers
      BY <1>15 DEF HandleInput, Selecting
    <2>2. connState' = [connState EXCEPT ![h] = "busy"]
      <3>1. h \in alive /\ upcall = "none" /\ upcall' = "enqueue" /\ alive' = alive
        BY <1>15 DEF HandleInput, Selecting
      <3>2. \A g \in Handlers : g \in registered' <=> g \in registered /\ g # h
        BY <1>15 DEF HandleInput
      <3>3. \A g \in Handlers : connState'[g] = IF g = h THEN "busy" ELSE connState[g]
        BY <3>1, <3>2 DEF connState
      <3>4. /\ connState = [g \in Handlers |-> connState[g]]
            /\ connState' = [g \in Handlers |-> connState'[g]]
        BY DEF connState
      <3> QED BY <3>3, <3>4, <2>1
    <2>3. Service!Take(h)
      BY <1>15, <2>1, <2>2 DEF HandleInput, connState, Service!Take, Selecting
    <2> QED BY <2>1, <2>3 DEF Service!ServiceNext
  <1>16. ASSUME NEW h \in Handlers, HandleTimeout(h) PROVE Goal
    <2>1. UNCHANGED <<connState, input>>
      BY <1>16 DEF HandleTimeout, connState
    <2> QED BY <2>1
  <1>17. ASSUME NEW w \in Workers, SvcBegin(w) PROVE Goal
    <2>1. UNCHANGED <<connState, input>>
      BY <1>17 DEF SvcBegin, connState
    <2> QED BY <2>1
  <1>18. ASSUME NEW w \in Workers, SvcCancelled(w) PROVE Goal
    <2>1. UNCHANGED <<connState, input>>
      BY <1>18 DEF SvcCancelled, connState
    <2> QED BY <2>1
  <1>19. ASSUME NEW w \in Workers, GetHandler(w) PROVE Goal
    <2>1. UNCHANGED <<connState, input>>
      BY <1>19 DEF GetHandler, connState
    <2> QED BY <2>1
  <1>20. ASSUME NEW w \in Workers, GetNull(w) PROVE Goal
    <2>1. UNCHANGED <<connState, input>>
      BY <1>20 DEF GetNull, connState
    <2> QED BY <2>1
  <1>21. ASSUME NEW w \in Workers, ProcessPartial(w) PROVE Goal
    <2>1. wh[w] \in Handlers /\ connState[wh[w]] = "busy"
      BY <1>21 DEF ProcessPartial, connState, HoldsHandler, Holding
    <2>2. connState' = connState
      BY <1>21 DEF ProcessPartial, connState
    <2>3. Service!Consume(wh[w])
      BY <1>21, <2>1, <2>2 DEF ProcessPartial, Complete, Service!Consume
    <2> QED BY <2>1, <2>3 DEF Service!ServiceNext
  <1>22. ASSUME NEW w \in Workers, ProcessRequest(w) PROVE Goal
    <2>1. wh[w] \in Handlers /\ connState[wh[w]] = "busy"
      BY <1>22 DEF ProcessRequest, connState, HoldsHandler, Holding
    <2>2. connState' = connState
      BY <1>22 DEF ProcessRequest, connState
    <2>3. Service!Consume(wh[w])
      BY <1>22, <2>1, <2>2 DEF ProcessRequest, Complete, Service!Consume
    <2> QED BY <2>1, <2>3 DEF Service!ServiceNext
  <1>23. ASSUME NEW w \in Workers, ProcessNothing(w) PROVE Goal
    <2>1. UNCHANGED <<connState, input>>
      BY <1>23 DEF ProcessNothing, connState
    <2> QED BY <2>1
  <1>24. ASSUME NEW w \in Workers, ProcessCtrl(w) PROVE Goal
    <2>1. UNCHANGED <<connState, input>>
      BY <1>24 DEF ProcessCtrl, connState
    <2> QED BY <2>1
  <1>25. ASSUME NEW w \in Workers, Reregister(w) PROVE Goal
    <2>1. wh[w] \in Handlers
      BY <1>25 DEF Reregister, HoldsHandler, Holding, TokenFree
    <2>2. connState' = [connState EXCEPT ![wh[w]] = "waiting"]
      <3>1. /\ wh[w] \in alive /\ upcall = "none" /\ registered' = registered \union {wh[w]}
            /\ UNCHANGED <<alive, upcall, rh>>
        BY <1>25 DEF Reregister, HoldsHandler, Holding, TokenFree
      <3>2. \A g \in Handlers : connState'[g] = IF g = wh[w] THEN "waiting" ELSE connState[g]
        BY <2>1, <3>1 DEF connState
      <3>3. /\ connState = [g \in Handlers |-> connState[g]]
            /\ connState' = [g \in Handlers |-> connState'[g]]
        BY DEF connState
      <3> QED BY <2>1, <3>2, <3>3
    <2>3. Service!Release(wh[w])
      BY <1>25, <2>1, <2>2 DEF Reregister, connState, Service!Release, HoldsHandler, Holding, TokenFree
    <2> QED BY <2>1, <2>3 DEF Service!ServiceNext
  <1>26. ASSUME NEW w \in Workers, HandleClose(w) PROVE Goal
    <2>1. wh[w] \in Handlers
      BY <1>26 DEF HandleClose, HoldsHandler, Holding, TokenFree, CtrlSeen
    <2>2. connState' = [connState EXCEPT ![wh[w]] = "none"]
      BY <1>26, <2>1 DEF HandleClose, connState, HoldsHandler, Holding, TokenFree, CtrlSeen
    <2>3. Service!HangUp(wh[w])
      BY <1>26, <2>1, <2>2 DEF HandleClose, connState, Service!HangUp, HoldsHandler, Holding,
         TokenFree, CtrlSeen
    <2> QED BY <2>1, <2>3 DEF Service!ServiceNext
  <1>27. ASSUME NEW h \in Handlers, NEW i \in Inputs, Client(h, i) PROVE Goal
    <2>1. connState' = connState /\ connState[h] # "none"
      BY <1>27 DEF Client, connState
    <2>2. Service!Send(h, i)
      BY <1>27, <2>1 DEF Client, Service!Send
    <2> QED BY <2>2 DEF Service!ServiceNext, Service!Inputs, Inputs
  <1>28. CASE UNCHANGED vars
    BY <1>28 DEF vars, connState
  <1> QED
    BY <1>1, <1>2, <1>3, <1>4, <1>5, <1>6, <1>7, <1>8, <1>9, <1>10,
       <1>11, <1>12, <1>13, <1>14, <1>15, <1>16, <1>17, <1>18, <1>19,
       <1>20, <1>21, <1>22, <1>23, <1>24, <1>25, <1>26, <1>27, <1>28
       DEF Next, ReactorStep, WorkerStep

\* The thread pool implements the service specification for every number of
\* connections and threads: connections are served one at a time, input is
\* consumed only in service, and the server hangs up only on ctrl-c or ctrl-z.
THEOREM PoolImplementsService == Spec => ImplementsService
  <1>1. Init => ServeInv
    <2> SUFFICES ASSUME Init PROVE OwnerInv /\ CtrlSeen
      BY DEF ServeInv
    <2>1. OwnerInv
      BY InitPool DEF Init, OwnerInv, Exclusive, NoUseAfterFree, Queued
    <2> QED BY <2>1 DEF Init, CtrlSeen
  <1>2. ServeInv /\ [Next]_vars => ServeInv'
    BY CtrlStep, OwnerStep, TypeStep, CountedStep, HoldsStep DEF ServeInv, OwnerInv, PoolInv
  <1>3. Init => Service!ServiceInit
    BY DEF Init, connState, Service!ServiceInit
  <1>4. ServeInv /\ [Next]_vars => [Service!ServiceNext]_(Service!serviceVars)
    BY ServiceStep DEF Service!serviceVars
  <1> QED BY <1>1, <1>2, <1>3, <1>4, PTL DEF Spec, ImplementsService, Service!ServiceSpec
=============================================================================
