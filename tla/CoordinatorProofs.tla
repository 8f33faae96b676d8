-------------------------- MODULE CoordinatorProofs --------------------------
(***************************************************************************)
(* Coordinator for any number of signals: types, what one signal does and  *)
(* what an orderly shutdown leaves behind.                                 *)
(***************************************************************************)
EXTENDS Coordinator, TLAPS

Frame == [signal : Signals, at : FrameLabels]

\* A handler that moves changes its own line only.
LEMMA FrameStep ==
    ASSUME TypeOK, NEW t \in Threads, NEW from, NEW to \in FrameLabels, Handler(t, from, to)
    PROVE  /\ frames' \in [Threads -> Seq(Frame)]
           /\ \A u \in Threads : Len(frames'[u]) = Len(frames[u])
           /\ \A u \in Threads : \A i \in 1 .. Len(frames[u]) :
                 /\ frames'[u][i].signal = frames[u][i].signal
                 /\ frames'[u][i].at = frames[u][i].at
                    \/ (frames[u][i].at = from /\ frames'[u][i].at = to)
           /\ \A u \in Threads : frames'[u] = <<>> <=> frames[u] = <<>>
           /\ frames[t] # <<>> /\ Len(frames[t]) \in Nat \ {0}
           /\ frames[t][Len(frames[t])].at = from
           /\ frames'[t][Len(frames[t])].at = to
           /\ UNCHANGED inside
<1> DEFINE n == Len(frames[t])
<1>1. frames[t] \in Seq(Frame) /\ frames[t] # <<>>
  BY DEF TypeOK, FramesOK, Frame, Handler
<1>2. n \in Nat \ {0}
  BY <1>1
<1>3. frames[t][n] \in Frame
  BY <1>1, <1>2
<1>4. [frames[t][n] EXCEPT !.at = to] \in Frame
  BY <1>3 DEF Frame
<1>5. frames' = [frames EXCEPT ![t] = [frames[t] EXCEPT ![n] = [frames[t][n] EXCEPT !.at = to]]]
  BY DEF Handler
<1>6. [frames[t] EXCEPT ![n] = [frames[t][n] EXCEPT !.at = to]] \in Seq(Frame)
  BY <1>1, <1>2, <1>4
<1>7. frames \in [Threads -> Seq(Frame)]
  BY DEF TypeOK, FramesOK, Frame
<1>8. frames' \in [Threads -> Seq(Frame)]
  BY <1>5, <1>6, <1>7
<1>9. frames'[t] = [frames[t] EXCEPT ![n] = [frames[t][n] EXCEPT !.at = to]]
  BY <1>5, <1>7
<1>10. Len(frames'[t]) = n
  BY <1>1, <1>2, <1>9
<1>11. \A u \in Threads : u # t => frames'[u] = frames[u]
  BY <1>5, <1>7
<1>12. \A i \in 1 .. n : i # n => frames'[t][i] = frames[t][i]
  BY <1>1, <1>2, <1>9
<1>13. frames'[t][n] = [frames[t][n] EXCEPT !.at = to]
  BY <1>1, <1>2, <1>9
<1>14. frames'[t][n].signal = frames[t][n].signal /\ frames'[t][n].at = to
  BY <1>3, <1>13 DEF Frame
<1>15. frames[t][n].at = from
  BY DEF Handler, Top
<1> HIDE DEF n
<1>16. ASSUME NEW u \in Threads, NEW i \in 1 .. Len(frames[u])
       PROVE  /\ frames'[u][i].signal = frames[u][i].signal
              /\ frames'[u][i].at = frames[u][i].at
                 \/ (frames[u][i].at = from /\ frames'[u][i].at = to)
  <2>1. CASE u # t
    BY <2>1, <1>11
  <2>2. CASE u = t /\ i # n
    BY <2>2, <1>12 DEF n
  <2>3. CASE u = t /\ i = n
    BY <2>3, <1>14, <1>15
  <2> QED BY <2>1, <2>2, <2>3
<1>17. \A u \in Threads : Len(frames'[u]) = Len(frames[u])
  BY <1>10, <1>11 DEF n
<1>18. \A u \in Threads : frames'[u] = <<>> <=> frames[u] = <<>>
  BY <1>7, <1>8, <1>17
<1>19. UNCHANGED inside
  BY DEF Handler
<1> QED BY <1>1, <1>2, <1>8, <1>14, <1>15, <1>16, <1>17, <1>18, <1>19 DEF n

\* A signal that is delivered adds one frame, for a signal the thread is not
\* already handling.
LEMMA DeliverStep ==
    ASSUME TypeOK, NEW t \in Threads, NEW s \in Signals, Deliver(s, t)
    PROVE  /\ frames' \in [Threads -> Seq(Frame)]
           /\ \A u \in Threads : u # t => frames'[u] = frames[u]
           /\ Len(frames[t]) \in Nat /\ Len(frames'[t]) = Len(frames[t]) + 1
           /\ \A i \in 1 .. Len(frames[t]) : frames'[t][i] = frames[t][i] /\ frames[t][i].signal # s
           /\ frames'[t][Len(frames[t]) + 1] = [signal |-> s, at |-> "check"]
<1>1. frames[t] \in Seq(Frame) /\ frames \in [Threads -> Seq(Frame)]
  BY DEF TypeOK, FramesOK, Frame
<1>2. [signal |-> s, at |-> "check"] \in Frame
  BY DEF Frame, FrameLabels
<1>3. frames' = [frames EXCEPT ![t] = Append(frames[t], [signal |-> s, at |-> "check"])]
  BY DEF Deliver
<1>4. frames'[t] = Append(frames[t], [signal |-> s, at |-> "check"])
  BY <1>1, <1>3
<1>5. \A i \in 1 .. Len(frames[t]) : frames[t][i].signal # s
  BY DEF Deliver, Blocks
<1> QED BY <1>1, <1>2, <1>3, <1>4, <1>5

-----------------------------------------------------------------------------
\* The handlers on the stacks stay well-formed.
LEMMA FramesStep == TypeOK /\ [Next]_vars => FramesOK'
<1> SUFFICES ASSUME TypeOK, [Next]_vars PROVE FramesOK'
  OBVIOUS
<1>1. ASSUME NEW t \in Threads, NEW from, NEW to \in FrameLabels, Handler(t, from, to)
      PROVE  FramesOK'
  <2>1. ASSUME NEW u \in Threads, NEW i \in 1 .. Len(frames'[u]), NEW j \in 1 .. i - 1
        PROVE  frames'[u][i].signal # frames'[u][j].signal
    <3>1. Len(frames'[u]) = Len(frames[u])
      BY <1>1, FrameStep
    <3>a. Len(frames[u]) \in Nat
      BY DEF TypeOK, FramesOK
    <3>2. i \in 1 .. Len(frames[u]) /\ j \in 1 .. Len(frames[u])
      BY <3>1, <3>a
    <3>3. frames[u][i].signal # frames[u][j].signal
      BY <3>2 DEF TypeOK, FramesOK
    <3>4. frames'[u][i].signal = frames[u][i].signal /\ frames'[u][j].signal = frames[u][j].signal
      BY <1>1, <3>2, FrameStep
    <3> QED BY <3>3, <3>4
  <2>2. frames' \in [Threads -> Seq(Frame)]
    BY <1>1, FrameStep
  <2> QED BY <2>1, <2>2 DEF FramesOK, Frame
<1>2. ASSUME NEW t \in Threads, NEW s \in Signals, Deliver(s, t)
      PROVE  FramesOK'
  <2> DEFINE n == Len(frames[t])
  <2>0. \A i \in 1 .. n : frames'[t][i] = frames[t][i] /\ frames[t][i].signal # s
    BY <1>2, DeliverStep
  <2>1. ASSUME NEW u \in Threads, NEW i \in 1 .. Len(frames'[u]), NEW j \in 1 .. i - 1
        PROVE  frames'[u][i].signal # frames'[u][j].signal
    <3>1. CASE u # t
      <4>1. frames'[u] = frames[u]
        BY <1>2, <3>1, DeliverStep
      <4> QED BY <4>1 DEF TypeOK, FramesOK
    <3>2. CASE u = t /\ i # n + 1
      <4>1. n \in Nat /\ Len(frames'[t]) = n + 1
        BY <1>2, DeliverStep
      <4>2. i \in 1 .. n /\ j \in 1 .. n
        BY <3>2, <4>1
      <4>3. frames'[t][i] = frames[t][i] /\ frames'[t][j] = frames[t][j]
        BY <2>0, <4>2
      <4>4. frames[t][i].signal # frames[t][j].signal
        BY <4>2 DEF TypeOK, FramesOK
      <4> QED BY <3>2, <4>3, <4>4
    <3>3. CASE u = t /\ i = n + 1
      <4>1. n \in Nat
        BY <1>2, DeliverStep
      <4>2. j \in 1 .. n
        BY <3>3, <4>1
      <4>3. frames'[t][j] = frames[t][j] /\ frames[t][j].signal # s
        BY <2>0, <4>2
      <4>4. frames'[t][n + 1] = [signal |-> s, at |-> "check"]
        BY <1>2, DeliverStep
      <4>5. frames'[t][i].signal = s
        BY <3>3, <4>4
      <4> QED BY <3>3, <4>3, <4>5
    <3> QED BY <3>1, <3>2, <3>3
  <2>2. frames' \in [Threads -> Seq(Frame)]
    BY <1>2, DeliverStep
  <2> QED BY <2>1, <2>2 DEF FramesOK, Frame
<1>3. CASE UNCHANGED frames
  BY <1>3 DEF TypeOK, FramesOK
<1>4. CASE MainStep \/ AsyncEnds \/ Kill \/ UNCHANGED vars
  <2>1. CASE AsyncEnds \/ Kill \/ UNCHANGED vars
    BY <1>3, <2>1 DEF AsyncEnds, Kill, stacks, vars
  <2>2. CASE Construct \/ Proceed \/ GetcwdFails \/ Terminates \/ StartFails \/ MakeKernel
    BY <1>3, <2>2 DEF Construct, Proceed, GetcwdFails, Terminates, StartFails, MakeKernel, stacks
  <2>3. CASE Register \/ BootstrapFails \/ OpenServices \/ StartAsync \/ OpenSome \/ LoopFails
    BY <1>3, <2>3 DEF Register, BootstrapFails, OpenServices, StartAsync, OpenSome, LoopFails, stacks
  <2>4. CASE LoopEnds \/ CloseServices \/ MainUnmake \/ MainFree \/ MainExit
    BY <1>3, <2>4 DEF LoopEnds, CloseServices, MainUnmake, MainFree, MainExit, stacks
  <2> QED BY <1>4, <2>1, <2>2, <2>3, <2>4 DEF MainStep
<1>5. ASSUME NEW t \in Threads, HandlerStep(t)
      PROVE  FramesOK'
  <2>1. FrameLabels = {"check", "unmake", "free", "join", "fini", "waits", "end_loops", "exit"}
    BY DEF FrameLabels
  <2>2. CASE HandlerCheck(t)
    <3>1. (IF g_facade_ptr THEN "unmake" ELSE "join") \in FrameLabels
      BY <2>1
    <3> QED BY <1>1, <2>2, <3>1 DEF HandlerCheck
  <2>3. CASE HandlerUnmake(t)
    BY <1>1, <2>1, <2>3 DEF HandlerUnmake
  <2>4. CASE HandlerFree(t)
    BY <1>1, <2>1, <2>4 DEF HandlerFree
  <2>5. CASE HandlerJoin(t)
    BY <1>1, <2>1, <2>5 DEF HandlerJoin
  <2>6. CASE HandlerFini(t)
    BY <1>1, <2>1, <2>6 DEF HandlerFini
  <2>7. CASE HandlerEndLoops(t)
    BY <1>1, <2>1, <2>7 DEF HandlerEndLoops
  <2>8. CASE HandlerExit(t)
    BY <1>3, <2>8 DEF HandlerExit, stacks
  <2>9. CASE HandlerFiniWaits(t)
    BY <1>1, <2>1, <2>9 DEF HandlerFiniWaits
  <2> QED BY <1>5, <2>2, <2>3, <2>4, <2>5, <2>6, <2>7, <2>8, <2>9 DEF HandlerStep
<1> QED BY <1>2, <1>4, <1>5 DEF Next

\* Destroying the facade, twice even, leaves the typed values.
LEMMA ObjectTyped ==
    ASSUME TypeOK, Unmake \/ Free
    PROVE  /\ facade' \in {"none", "made", "deleted"}
           /\ kernel' \in {"none", "made", "disposed"}
           /\ wild' \in BOOLEAN
<1>1. facade' \in {"none", "made", "deleted"} /\ kernel' \in {"none", "made", "disposed"}
  BY DEF TypeOK, Unmake, Free
<1>2. wild' \in BOOLEAN
  BY Zenon DEF TypeOK, Unmake, Free
<1> QED BY <1>1, <1>2

LEMMA TypeStep == TypeOK /\ [Next]_vars => TypeOK'
<1> SUFFICES ASSUME TypeOK, [Next]_vars PROVE TypeOK'
  OBVIOUS
<1> USE CoordinatorAssumption DEF Main, stacks, history
<1>f. FramesOK'
  BY FramesStep
<1>1. CASE Construct
  BY <1>f, <1>1 DEF Construct, object, TypeOK
<1>2. CASE Proceed
  BY <1>f, <1>2 DEF Proceed, object, TypeOK
<1>3. CASE GetcwdFails
  BY <1>f, <1>3 DEF GetcwdFails, object, TypeOK
<1>4. CASE Terminates
  BY <1>f, <1>4 DEF Terminates, object, TypeOK
<1>5. CASE StartFails
  BY <1>f, <1>5 DEF StartFails, object, TypeOK
<1>6. CASE MakeKernel
  BY <1>f, <1>6 DEF MakeKernel, object, TypeOK
<1>7. CASE Register
  BY <1>f, <1>7 DEF Register, object, TypeOK
<1>8. CASE BootstrapFails
  BY <1>f, <1>8 DEF BootstrapFails, object, TypeOK
<1>9. CASE OpenServices
  BY <1>f, <1>9 DEF OpenServices, object, TypeOK
<1>10. CASE StartAsync
  BY <1>f, <1>10 DEF StartAsync, object, TypeOK
<1>11. CASE OpenSome
  BY <1>f, <1>11 DEF OpenSome, object, TypeOK
<1>12. CASE LoopEnds
  BY <1>f, <1>12 DEF LoopEnds, object, TypeOK
<1>13. CASE LoopFails
  BY <1>f, <1>13 DEF LoopFails, object, TypeOK
<1>14. CASE CloseServices
  BY <1>f, <1>14 DEF CloseServices, object, TypeOK
<1>15. CASE MainUnmake
  BY <1>f, <1>15, ObjectTyped DEF MainUnmake, TypeOK
<1>16. CASE MainFree
  BY <1>f, <1>16, ObjectTyped DEF MainFree, TypeOK
<1>17. CASE MainExit
  BY <1>f, <1>17 DEF MainExit, object, TypeOK
<1>18. CASE AsyncEnds
  BY <1>f, <1>18 DEF AsyncEnds, object, TypeOK
<1>19. CASE Kill
  BY <1>f, <1>19 DEF Kill, object, TypeOK
<1>20. ASSUME NEW t \in Threads, HandlerCheck(t)
      PROVE  TypeOK'
  BY <1>f, <1>20 DEF HandlerCheck, Handler, object, TypeOK
<1>21. ASSUME NEW t \in Threads, HandlerUnmake(t)
      PROVE  TypeOK'
  BY <1>f, <1>21, ObjectTyped DEF HandlerUnmake, Handler, TypeOK
<1>22. ASSUME NEW t \in Threads, HandlerFree(t)
      PROVE  TypeOK'
  BY <1>f, <1>22, ObjectTyped DEF HandlerFree, Handler, TypeOK
<1>23. ASSUME NEW t \in Threads, HandlerJoin(t)
      PROVE  TypeOK'
  BY <1>f, <1>23 DEF HandlerJoin, Handler, object, TypeOK
<1>24. ASSUME NEW t \in Threads, HandlerFini(t)
      PROVE  TypeOK'
  BY <1>f, <1>24 DEF HandlerFini, Handler, object, TypeOK
<1>25. ASSUME NEW t \in Threads, HandlerFiniWaits(t)
      PROVE  TypeOK'
  BY <1>f, <1>25 DEF HandlerFiniWaits, Handler, object, TypeOK
<1>26. ASSUME NEW t \in Threads, HandlerEndLoops(t)
      PROVE  TypeOK'
  <2>1. loops' \in BOOLEAN
    BY <1>26 DEF HandlerEndLoops
  <2> QED BY <1>f, <1>26, <2>1 DEF HandlerEndLoops, Handler, object, TypeOK
<1>27. ASSUME NEW t \in Threads, HandlerExit(t)
      PROVE  TypeOK'
  BY <1>f, <1>27 DEF HandlerExit, Handler, object, TypeOK
<1>28. ASSUME NEW t \in Threads, NEW s \in Signals, Deliver(s, t)
      PROVE  TypeOK'
  <2>1. MayHold(t) \subseteq Locks
    BY DEF MayHold, Needs, Locks
  <2>2. PICK held \in SUBSET {l \in MayHold(t) : \A u \in Threads : l \notin inside[u]} :
            inside' = [inside EXCEPT ![t] = inside[t] \union held]
    BY <1>28 DEF Deliver
  <2>3. inside' \in [Threads -> SUBSET Locks]
    BY <2>1, <2>2 DEF TypeOK
  <2>4. early' \in BOOLEAN
    BY <1>28 DEF Deliver
  <2>5. sent' \in 0 .. MaxSignals
    BY <1>28 DEF Deliver, TypeOK
  <2> QED BY <1>f, <1>28, <2>3, <2>4, <2>5 DEF Deliver, object, TypeOK
<1>29. CASE UNCHANGED vars
  BY <1>f, <1>29 DEF vars, TypeOK
<1> QED
  BY <1>1, <1>2, <1>3, <1>4, <1>5, <1>6, <1>7, <1>8, <1>9, <1>10, <1>11, <1>12, <1>13, <1>14,
     <1>15, <1>16, <1>17, <1>18, <1>19, <1>20, <1>21, <1>22, <1>23, <1>24, <1>25, <1>26, <1>27, <1>28,
     <1>29
  DEF Next, MainStep, HandlerStep

-----------------------------------------------------------------------------
Ending == {"catch_unmake", "catch_free", "close", "unmake", "free", "exit"}
Serving == {"loop", "close", "unmake", "free", "exit"}
Opening == {"open_svcs", "watchdog"} \union Serving
Past == {"chdir"} \union Opening

\* The handler runs only once the kernel is mapped, and on another thread only
\* once that thread is there; main takes things down only after a failure or
\* once a handler has ended the loops.
PhaseInv ==
    /\ g_facade_ptr => mpc \in Past /\ kernel_ref = "set" /\ facade # "none"
    /\ mpc \in {"map_kernel", "load_bootstrap", "register"} => kernel_ref = "set" /\ facade = "made"
    /\ mpc \in {"getcwd", "daemonize", "open_log", "load_kernel", "make_kernel"} => facade = "made"
    /\ mpc \in {"catch_unmake", "catch_free"} => ~g_facade_ptr
    /\ \A t \in Threads : frames[t] # <<>> => g_facade_ptr
    /\ async # "none" => mpc \in Serving
    /\ frames["async"] # <<>> => async # "none"
    /\ services # "none" => mpc \in Opening
    /\ frames["service"] # <<>> => services # "none"
    /\ mpc \in {"chdir", "open_svcs"} /\ ~early =>
          frames["async"] = <<>> /\ frames["service"] = <<>>
    /\ mpc \in Ending => undone \/ ~loops
    /\ ~loops => \E t \in Threads : frames[t] # <<>>

LEMMA PhaseStep == TypeOK /\ PhaseInv /\ [Next]_vars => PhaseInv'
<1> SUFFICES ASSUME TypeOK, PhaseInv, [Next]_vars PROVE PhaseInv'
  OBVIOUS
<1>t. Threads = {"main", "async", "service"}
  BY DEF Threads
<1> USE <1>t DEF Main, stacks, history, Ending, Past, Opening, Serving
<1>1. CASE Construct
  BY <1>1 DEF Construct, Unmake, Free, object, PhaseInv
<1>2. CASE Proceed
  BY <1>2 DEF Proceed, Unmake, Free, object, PhaseInv
<1>3. CASE GetcwdFails
  BY <1>3 DEF GetcwdFails, Unmake, Free, object, PhaseInv
<1>4. CASE Terminates
  BY <1>4 DEF Terminates, Unmake, Free, object, PhaseInv
<1>5. CASE StartFails
  BY <1>5 DEF StartFails, Unmake, Free, object, PhaseInv
<1>6. CASE MakeKernel
  BY <1>6 DEF MakeKernel, Unmake, Free, object, PhaseInv
<1>7. CASE Register
  BY <1>7 DEF Register, Unmake, Free, object, PhaseInv
<1>8. CASE BootstrapFails
  BY <1>8 DEF BootstrapFails, Unmake, Free, object, PhaseInv
<1>9. CASE OpenServices
  BY <1>9 DEF OpenServices, Unmake, Free, object, PhaseInv
<1>10. CASE StartAsync
  BY <1>10 DEF StartAsync, Unmake, Free, object, PhaseInv
<1>11. CASE OpenSome
  BY <1>11 DEF OpenSome, Unmake, Free, object, PhaseInv
<1>12. CASE LoopEnds
  BY <1>12 DEF LoopEnds, Unmake, Free, object, PhaseInv
<1>13. CASE LoopFails
  BY <1>13 DEF LoopFails, Unmake, Free, object, PhaseInv
<1>14. CASE CloseServices
  BY <1>14 DEF CloseServices, Unmake, Free, object, PhaseInv
<1>15. CASE MainUnmake
  BY <1>15 DEF MainUnmake, Unmake, Free, object, PhaseInv
<1>16. CASE MainFree
  BY <1>16 DEF MainFree, Unmake, Free, object, PhaseInv
<1>17. CASE MainExit
  BY <1>17 DEF MainExit, Unmake, Free, object, PhaseInv
<1>18. CASE AsyncEnds
  BY <1>18 DEF AsyncEnds, Unmake, Free, object, PhaseInv
<1>19. CASE Kill
  BY <1>19 DEF Kill, Unmake, Free, object, PhaseInv
<1>20. ASSUME NEW t \in Threads, HandlerCheck(t)
      PROVE  PhaseInv'
  <2>1. /\ Handler(t, "check", IF g_facade_ptr THEN "unmake" ELSE "join")
        /\ (IF g_facade_ptr THEN "unmake" ELSE "join") \in FrameLabels
    BY <1>20 DEF HandlerCheck, FrameLabels
  <2>2. \A u \in Threads : frames'[u] = <<>> <=> frames[u] = <<>>
    BY <2>1, FrameStep
  <2>3. frames[t] # <<>>
    BY <2>1, FrameStep
  <2> QED BY <1>20, <2>2, <2>3 DEF HandlerCheck, Unmake, Free, object, PhaseInv
<1>21. ASSUME NEW t \in Threads, HandlerUnmake(t)
      PROVE  PhaseInv'
  <2>1. Handler(t, "unmake", "free") /\ "free" \in FrameLabels
    BY <1>21 DEF HandlerUnmake, FrameLabels
  <2>2. \A u \in Threads : frames'[u] = <<>> <=> frames[u] = <<>>
    BY <2>1, FrameStep
  <2>3. frames[t] # <<>>
    BY <2>1, FrameStep
  <2> QED BY <1>21, <2>2, <2>3 DEF HandlerUnmake, Unmake, Free, object, PhaseInv
<1>22. ASSUME NEW t \in Threads, HandlerFree(t)
      PROVE  PhaseInv'
  <2>1. Handler(t, "free", "join") /\ "join" \in FrameLabels
    BY <1>22 DEF HandlerFree, FrameLabels
  <2>2. \A u \in Threads : frames'[u] = <<>> <=> frames[u] = <<>>
    BY <2>1, FrameStep
  <2>3. frames[t] # <<>>
    BY <2>1, FrameStep
  <2> QED BY <1>22, <2>2, <2>3 DEF HandlerFree, Unmake, Free, object, PhaseInv
<1>23. ASSUME NEW t \in Threads, HandlerJoin(t)
      PROVE  PhaseInv'
  <2>1. Handler(t, "join", "fini") /\ "fini" \in FrameLabels
    BY <1>23 DEF HandlerJoin, FrameLabels
  <2>2. \A u \in Threads : frames'[u] = <<>> <=> frames[u] = <<>>
    BY <2>1, FrameStep
  <2>3. frames[t] # <<>>
    BY <2>1, FrameStep
  <2> QED BY <1>23, <2>2, <2>3 DEF HandlerJoin, Unmake, Free, object, PhaseInv
<1>24. ASSUME NEW t \in Threads, HandlerFini(t)
      PROVE  PhaseInv'
  <2>1. Handler(t, "fini", "end_loops") /\ "end_loops" \in FrameLabels
    BY <1>24 DEF HandlerFini, FrameLabels
  <2>2. \A u \in Threads : frames'[u] = <<>> <=> frames[u] = <<>>
    BY <2>1, FrameStep
  <2>3. frames[t] # <<>>
    BY <2>1, FrameStep
  <2> QED BY <1>24, <2>2, <2>3 DEF HandlerFini, Unmake, Free, object, PhaseInv
<1>25. ASSUME NEW t \in Threads, HandlerFiniWaits(t)
      PROVE  PhaseInv'
  <2>1. Handler(t, "fini", "waits") /\ "waits" \in FrameLabels
    BY <1>25 DEF HandlerFiniWaits, FrameLabels
  <2>2. \A u \in Threads : frames'[u] = <<>> <=> frames[u] = <<>>
    BY <2>1, FrameStep
  <2>3. frames[t] # <<>>
    BY <2>1, FrameStep
  <2> QED BY <1>25, <2>2, <2>3 DEF HandlerFiniWaits, Unmake, Free, object, PhaseInv
<1>26. ASSUME NEW t \in Threads, HandlerEndLoops(t)
      PROVE  PhaseInv'
  <2>1. Handler(t, "end_loops", "exit") /\ "exit" \in FrameLabels
    BY <1>26 DEF HandlerEndLoops, FrameLabels
  <2>2. \A u \in Threads : frames'[u] = <<>> <=> frames[u] = <<>>
    BY <2>1, FrameStep
  <2>3. frames[t] # <<>>
    BY <2>1, FrameStep
  <2> QED BY <1>26, <2>2, <2>3 DEF HandlerEndLoops, Unmake, Free, object, PhaseInv
<1>27. ASSUME NEW t \in Threads, HandlerExit(t)
      PROVE  PhaseInv'
  BY <1>27 DEF HandlerExit, object, PhaseInv
<1>28. ASSUME NEW t \in Threads, NEW s \in Signals, Deliver(s, t)
      PROVE  PhaseInv'
  <2>1. frames \in [Threads -> Seq(Frame)]
    BY DEF TypeOK, FramesOK, Frame
  <2>2. \A u \in Threads : u # t => frames'[u] = frames[u]
    BY <1>28, DeliverStep
  <2>0. frames'[t] # <<>>
    <3>1. Len(frames[t]) \in Nat /\ Len(frames'[t]) = Len(frames[t]) + 1
      BY <1>28, DeliverStep
    <3> QED BY <3>1
  <2>3. \A u \in Threads : frames[u] # <<>> => frames'[u] # <<>>
    BY <2>0, <2>2
  <2>4. early' = (early \/ (t # "main" /\ mpc = "open_svcs")) /\ g_facade_ptr
    BY <1>28 DEF Deliver
  <2>5. t = "async" => async # "none"
    BY <1>28 DEF Deliver, Alive
  <2>6. t = "service" => services # "none"
    BY <1>28 DEF Deliver, Alive
  <2>7. UNCHANGED <<mpc, async, facade, g_facade_ptr, kernel_ref, services, loops, undone>>
    BY <1>28 DEF Deliver, object
  <2>8. mpc \in {"chdir", "open_svcs"} /\ ~early' =>
           frames'["async"] = <<>> /\ frames'["service"] = <<>>
    <3>1. CASE t = "main"
      BY <3>1, <2>2, <2>4 DEF PhaseInv
    <3>2. CASE t = "async"
      BY <3>2, <2>5 DEF PhaseInv
    <3>3. CASE t = "service"
      BY <3>3, <2>4, <2>6 DEF PhaseInv
    <3> QED BY <3>1, <3>2, <3>3
  <2> QED BY <2>2, <2>3, <2>4, <2>5, <2>6, <2>7, <2>8 DEF PhaseInv
<1>29. CASE UNCHANGED vars
  BY <1>29 DEF vars, PhaseInv
<1> QED
  BY <1>1, <1>2, <1>3, <1>4, <1>5, <1>6, <1>7, <1>8, <1>9, <1>10, <1>11, <1>12, <1>13, <1>14,
     <1>15, <1>16, <1>17, <1>18, <1>19, <1>20, <1>21, <1>22, <1>23, <1>24, <1>25, <1>26, <1>27, <1>28,
     <1>29
  DEF Next, MainStep, HandlerStep

-----------------------------------------------------------------------------
Deleted == {"join", "fini", "waits", "end_loops", "exit"}

\* What a handler at a line has done, by that line.
DoneAt(at) ==
    /\ at \notin {"check", "unmake"} => kernel = "disposed"
    /\ at \in Deleted => facade = "deleted"
    /\ at \in {"end_loops", "exit"} => services \in {"none", "finalised"} \/ early

DoneInv ==
    /\ ~wild => \A t \in Threads : \A i \in 1 .. Len(frames[t]) : DoneAt(frames[t][i].at)
    /\ OrderlyShutdown

\* A handler that goes on, undoes nothing and has done what its new line says,
\* leaves the shutdown as orderly as it found it.
LEMMA FrameKeepsDone ==
    ASSUME TypeOK, DoneInv, Running,
           NEW t \in Threads, NEW from, NEW to \in FrameLabels, Handler(t, from, to),
           UNCHANGED ended,
           ~wild' => DoneAt(to)' /\ \A at \in FrameLabels : DoneAt(at) => DoneAt(at)'
    PROVE  DoneInv'
<1>2. OrderlyShutdown'
  BY DEF OrderlyShutdown, Running
<1>3. ASSUME ~wild', NEW u \in Threads, NEW i \in 1 .. Len(frames'[u])
      PROVE  DoneAt(frames[u][i].at)'
  <2>1. i \in 1 .. Len(frames[u])
    BY <1>3, FrameStep
  <2>2. frames'[u][i].at = frames[u][i].at \/ frames'[u][i].at = to
    BY <2>1, FrameStep
  <2>3. DoneAt(frames[u][i].at)
    BY <2>1 DEF DoneInv, Running
  <2>4. frames[u][i].at \in FrameLabels
    <3>1. frames[u] \in Seq(Frame)
      BY DEF TypeOK, FramesOK, Frame
    <3>2. frames[u][i] \in Frame
      BY <2>1, <3>1
    <3> QED BY <3>2 DEF Frame
  <2> QED BY <1>3, <2>2, <2>3, <2>4 DEF DoneAt
<1> QED BY <1>2, <1>3 DEF DoneInv

LEMMA DoneStep == TypeOK /\ PhaseInv /\ DoneInv /\ Running /\ Next => DoneInv'
<1> SUFFICES ASSUME TypeOK, PhaseInv, DoneInv, Running, Next PROVE DoneInv'
  OBVIOUS
<1>t. Threads = {"main", "async", "service"} /\ \A u \in Threads : frames[u] \in Seq(Frame)
  BY DEF Threads, TypeOK, FramesOK, Frame
<1>e. \A u \in Threads : frames[u] = <<>> => Len(frames[u]) = 0
  OBVIOUS
<1> USE <1>t, <1>e DEF Main, stacks, history, DoneAt
<1>1. CASE Construct
  BY <1>1 DEF Construct, object, PhaseInv, DoneInv, OrderlyShutdown, Running, Past, Opening, Serving
<1>2. CASE Proceed
  <2>1. UNCHANGED <<frames, facade, kernel, services, early, wild, ended>>
    BY <1>2 DEF Proceed, object
  <2> QED BY <2>1 DEF DoneInv, OrderlyShutdown, Running
<1>3. CASE GetcwdFails
  BY <1>3 DEF GetcwdFails, object, PhaseInv, DoneInv, OrderlyShutdown, Running, Past, Opening, Serving
<1>4. CASE Terminates
  BY <1>4 DEF Terminates, object, PhaseInv, DoneInv, OrderlyShutdown, Running, Past, Opening, Serving
<1>5. CASE StartFails
  BY <1>5 DEF StartFails, object, PhaseInv, DoneInv, OrderlyShutdown, Running, Past, Opening, Serving
<1>6. CASE MakeKernel
  BY <1>6 DEF MakeKernel, object, PhaseInv, DoneInv, OrderlyShutdown, Running, Past, Opening, Serving
<1>7. CASE Register
  BY <1>7 DEF Register, object, PhaseInv, DoneInv, OrderlyShutdown, Running, Past, Opening, Serving
<1>8. CASE BootstrapFails
  BY <1>8 DEF BootstrapFails, object, PhaseInv, DoneInv, OrderlyShutdown, Running, Past, Opening, Serving
<1>9. CASE OpenServices
  BY <1>9 DEF OpenServices, object, PhaseInv, DoneInv, OrderlyShutdown, Running, Past, Opening, Serving
<1>10. CASE StartAsync
  BY <1>10 DEF StartAsync, object, PhaseInv, DoneInv, OrderlyShutdown, Running, Past, Opening, Serving
<1>11. CASE OpenSome
  BY <1>11 DEF OpenSome, object, PhaseInv, DoneInv, OrderlyShutdown, Running, Past, Opening, Serving
<1>12. CASE LoopEnds
  BY <1>12 DEF LoopEnds, object, PhaseInv, DoneInv, OrderlyShutdown, Running, Past, Opening, Serving
<1>13. CASE LoopFails
  BY <1>13 DEF LoopFails, object, PhaseInv, DoneInv, OrderlyShutdown, Running, Past, Opening, Serving
<1>14. CASE CloseServices
  BY <1>14 DEF CloseServices, object, PhaseInv, DoneInv, OrderlyShutdown, Running, Past, Opening, Serving
<1>15. CASE MainUnmake
  <2>1. UNCHANGED <<frames, facade, services, early, ended>>
    BY <1>15 DEF MainUnmake, Unmake
  <2>2. ~wild' => kernel' = kernel \/ kernel' = "disposed"
    BY <1>15 DEF MainUnmake, Unmake
  <2> QED BY <2>1, <2>2 DEF DoneInv, OrderlyShutdown, Running
<1>16. CASE MainFree
  <2>1. UNCHANGED <<frames, kernel, services, early, ended>>
    BY <1>16 DEF MainFree, Free
  <2>2. ~wild' => facade' = "deleted"
    BY <1>16 DEF MainFree, Free
  <2> QED BY <2>1, <2>2 DEF DoneInv, OrderlyShutdown, Running
<1>17. CASE MainExit
  BY <1>17 DEF MainExit, object, PhaseInv, DoneInv, OrderlyShutdown, Running, Past, Opening, Serving
<1>18. CASE AsyncEnds
  BY <1>18 DEF AsyncEnds, object, PhaseInv, DoneInv, OrderlyShutdown, Running, Past, Opening, Serving
<1>19. CASE Kill
  BY <1>19 DEF Kill, object, PhaseInv, DoneInv, OrderlyShutdown, Running, Past, Opening, Serving
<1>20. ASSUME NEW t \in Threads, HandlerCheck(t)
      PROVE  DoneInv'
  <2>1. Handler(t, "check", "unmake") /\ "unmake" \in FrameLabels
    BY <1>20 DEF HandlerCheck, Handler, PhaseInv, FrameLabels
  <2>2. UNCHANGED <<kernel, facade, services, early, ended>>
    BY <1>20 DEF HandlerCheck, object
  <2> QED BY <2>1, <2>2, FrameKeepsDone DEF Deleted
<1>21. ASSUME NEW t \in Threads, HandlerUnmake(t)
      PROVE  DoneInv'
  <2>1. Handler(t, "unmake", "free") /\ "free" \in FrameLabels
    BY <1>21 DEF HandlerUnmake, FrameLabels
  <2>2. kernel_ref = "set"
    BY <2>1 DEF Handler, PhaseInv
  <2>3. UNCHANGED <<ended, services, early>> /\ (~wild' => kernel' = "disposed" /\ UNCHANGED facade)
    BY <1>21, <2>2 DEF HandlerUnmake, Unmake
  <2> QED BY <2>1, <2>3, FrameKeepsDone DEF Deleted
<1>22. ASSUME NEW t \in Threads, HandlerFree(t)
      PROVE  DoneInv'
  <2>1. Handler(t, "free", "join") /\ "join" \in FrameLabels
    BY <1>22 DEF HandlerFree, FrameLabels
  <2>2. Len(frames[t]) \in 1 .. Len(frames[t]) /\ frames[t][Len(frames[t])].at = "free"
    BY <2>1 DEF Handler, Top
  <2>3. DoneAt("free")
    BY <2>2 DEF DoneInv, Running
  <2>4. UNCHANGED <<ended, services, early>> /\ (~wild' => facade' = "deleted" /\ UNCHANGED kernel)
    BY <1>22 DEF HandlerFree, Free
  <2> QED BY <2>1, <2>3, <2>4, FrameKeepsDone DEF Deleted
<1>23. ASSUME NEW t \in Threads, HandlerJoin(t)
      PROVE  DoneInv'
  <2>1. Handler(t, "join", "fini") /\ "fini" \in FrameLabels
    BY <1>23 DEF HandlerJoin, FrameLabels
  <2>2. Len(frames[t]) \in 1 .. Len(frames[t]) /\ frames[t][Len(frames[t])].at = "join"
    BY <2>1 DEF Handler, Top
  <2>3. DoneAt("join")
    BY <2>2 DEF DoneInv, Running
  <2>4. UNCHANGED <<ended, kernel, facade, services, early>>
    BY <1>23 DEF HandlerJoin, object
  <2> QED BY <2>1, <2>3, <2>4, FrameKeepsDone DEF Deleted
<1>24. ASSUME NEW t \in Threads, HandlerFini(t)
      PROVE  DoneInv'
  <2>1. Handler(t, "fini", "end_loops") /\ "end_loops" \in FrameLabels
    BY <1>24 DEF HandlerFini, FrameLabels
  <2>2. Len(frames[t]) \in 1 .. Len(frames[t]) /\ frames[t][Len(frames[t])].at = "fini"
    BY <2>1 DEF Handler, Top
  <2>3. DoneAt("fini")
    BY <2>2 DEF DoneInv, Running
  <2>4. UNCHANGED <<ended, kernel, facade, early>> /\ services' \in {"none", "finalised"}
    BY <1>24 DEF HandlerFini, object
  <2> QED BY <2>1, <2>3, <2>4, FrameKeepsDone DEF Deleted
<1>25. ASSUME NEW t \in Threads, HandlerFiniWaits(t)
      PROVE  DoneInv'
  <2>1. Handler(t, "fini", "waits") /\ "waits" \in FrameLabels
    BY <1>25 DEF HandlerFiniWaits, FrameLabels
  <2>2. Len(frames[t]) \in 1 .. Len(frames[t]) /\ frames[t][Len(frames[t])].at = "fini"
    BY <2>1 DEF Handler, Top
  <2>3. DoneAt("fini")
    BY <2>2 DEF DoneInv, Running
  <2>4. UNCHANGED <<ended, kernel, facade, services, early>>
    BY <1>25 DEF HandlerFiniWaits, object
  <2> QED BY <2>1, <2>3, <2>4, FrameKeepsDone DEF Deleted
<1>26. ASSUME NEW t \in Threads, HandlerEndLoops(t)
      PROVE  DoneInv'
  <2>1. Handler(t, "end_loops", "exit") /\ "exit" \in FrameLabels
    BY <1>26 DEF HandlerEndLoops, FrameLabels
  <2>2. Len(frames[t]) \in 1 .. Len(frames[t]) /\ frames[t][Len(frames[t])].at = "end_loops"
    BY <2>1 DEF Handler, Top
  <2>3. DoneAt("end_loops")
    BY <2>2 DEF DoneInv, Running
  <2>4. UNCHANGED <<ended, kernel, facade, services, early>>
    BY <1>26 DEF HandlerEndLoops, object
  <2> QED BY <2>1, <2>3, <2>4, FrameKeepsDone DEF Deleted
<1>27. ASSUME NEW t \in Threads, HandlerExit(t)
      PROVE  DoneInv'
  <2>1. Len(frames[t]) \in 1 .. Len(frames[t]) /\ frames[t][Len(frames[t])].at = "exit"
    BY <1>27 DEF HandlerExit, Top
  <2>2. DoneAt("exit")
    BY <2>1 DEF DoneInv, Running
  <2> QED BY <1>27, <2>2 DEF HandlerExit, object, DoneInv, OrderlyShutdown, Running, Deleted
<1>28. ASSUME NEW t \in Threads, NEW s \in Signals, Deliver(s, t)
      PROVE  DoneInv'
  <2>1. UNCHANGED <<facade, kernel, wild, services, ended>> /\ (early => early')
    BY <1>28 DEF Deliver, object
  <2>2. ASSUME NEW u \in Threads, NEW i \in 1 .. Len(frames'[u])
        PROVE  frames'[u][i].at = "check" \/ (i \in 1 .. Len(frames[u]) /\ frames'[u][i] = frames[u][i])
    <3>1. CASE u # t
      <4>1. \A v \in Threads : v # t => frames'[v] = frames[v]
        BY <1>28, DeliverStep
      <4> QED BY <2>2, <3>1, <4>1
    <3>2. CASE u = t
      <4> DEFINE n == Len(frames[t])
      <4>1. n \in Nat /\ Len(frames'[t]) = n + 1
        BY <1>28, DeliverStep
      <4>2. \A k \in 1 .. n : frames'[t][k] = frames[t][k]
        BY <1>28, DeliverStep
      <4>0. frames'[t][n + 1] = [signal |-> s, at |-> "check"]
        BY <1>28, DeliverStep
      <4>3. frames'[t][n + 1].at = "check"
        BY <4>0
      <4>4. i \in 1 .. n \/ i = n + 1
        BY <2>2, <3>2, <4>1
      <4> QED BY <3>2, <4>2, <4>3, <4>4
    <3> QED BY <3>1, <3>2
  <2>3. OrderlyShutdown'
    BY <2>1 DEF OrderlyShutdown, Running
  <2>4. ASSUME ~wild', NEW u \in Threads, NEW i \in 1 .. Len(frames'[u])
        PROVE  DoneAt(frames[u][i].at)'
    <3>1. CASE frames'[u][i].at = "check"
      BY <3>1 DEF Deleted
    <3>2. CASE i \in 1 .. Len(frames[u]) /\ frames'[u][i] = frames[u][i]
      <4>1. DoneAt(frames[u][i].at)
        BY <3>2 DEF DoneInv, Running
      <4> QED BY <2>1, <3>2, <4>1
    <3> QED BY <2>2, <3>1, <3>2
  <2> QED BY <2>3, <2>4 DEF DoneInv
<1> QED
  BY <1>1, <1>2, <1>3, <1>4, <1>5, <1>6, <1>7, <1>8, <1>9, <1>10, <1>11, <1>12, <1>13, <1>14,
     <1>15, <1>16, <1>17, <1>18, <1>19, <1>20, <1>21, <1>22, <1>23, <1>24, <1>25, <1>26, <1>27, <1>28
  DEF Next, MainStep, HandlerStep

-----------------------------------------------------------------------------
\* Who deletes the facade, as long as no more than one signal came: main if
\* start-up or the event loop failed, else the one handler; once that one has
\* ended the loops on another thread, main may too.
SingleInv ==
    /\ sent = 0 => \A t \in Threads : frames[t] = <<>>
    /\ sent <= 1 => \A t \in Threads :
          Len(frames[t]) <= 1 /\ \A u \in Threads : u # t => frames[t] = <<>> \/ frames[u] = <<>>
    /\ sent = 0 /\ (~undone \/ g_facade_ptr) => ~wild /\ (mpc # "exit" => facade # "deleted")
    /\ sent = 1 /\ ~undone /\ (loops \/ \A t \in Threads \ {"main"} : frames[t] = <<>>) =>
          /\ ~wild
          /\ \A t \in Threads :
                frames[t] # <<>> /\ frames[t][1].at \notin Deleted => facade # "deleted"

\* A handler that goes on keeps the invariant, if it deletes nothing that is deleted.
LEMMA FrameKeepsSingle ==
    ASSUME TypeOK, PhaseInv, SingleInv, NEW t \in Threads, NEW from, NEW to \in FrameLabels,
           Handler(t, from, to), UNCHANGED <<mpc, g_facade_ptr, sent, undone>>,
           loops' => loops,
           facade # "deleted" \/ from \in Deleted => ~wild' \/ wild,
           to \notin Deleted => from \notin Deleted /\ (facade # "deleted" => facade' # "deleted")
    PROVE  SingleInv'
<1>1. /\ \A u \in Threads : Len(frames'[u]) = Len(frames[u]) /\ (frames'[u] = <<>> <=> frames[u] = <<>>)
      /\ frames[t] # <<>> /\ Len(frames[t]) \in Nat \ {0}
      /\ frames[t][Len(frames[t])].at = from /\ frames'[t][Len(frames[t])].at = to
  BY FrameStep
<1>2. sent # 0
  BY <1>1 DEF SingleInv
<1>3. sent' <= 1 => \A v \in Threads :
         Len(frames'[v]) <= 1 /\ \A u \in Threads : u # v => frames'[v] = <<>> \/ frames'[u] = <<>>
  BY <1>1 DEF SingleInv
<1>4. ASSUME sent' = 1, ~undone', loops' \/ \A v \in Threads \ {"main"} : frames'[v] = <<>>
      PROVE  /\ ~wild'
             /\ \A v \in Threads :
                   frames'[v] # <<>> /\ frames'[v][1].at \notin Deleted => facade' # "deleted"
  <2>1. sent = 1 /\ ~undone /\ (loops \/ \A v \in Threads \ {"main"} : frames[v] = <<>>)
    BY <1>1, <1>4
  <2>2. ~wild /\ (frames[t][1].at \notin Deleted => facade # "deleted")
    BY <1>1, <2>1 DEF SingleInv
  <2>3. Len(frames[t]) = 1
    <3>1. Len(frames[t]) <= 1
      BY <2>1 DEF SingleInv
    <3>2. PICK n \in Nat \ {0} : Len(frames[t]) = n
      BY <1>1
    <3> QED BY ONLY <3>1, <3>2
  <2>4. frames[t][1].at = from /\ frames'[t][1].at = to
    BY <1>1, <2>3
  <2>5. \A v \in Threads : v # t => frames'[v] = <<>>
    BY <1>1, <2>1 DEF SingleInv
  <2> QED BY <2>2, <2>4, <2>5
<1> QED BY <1>2, <1>3, <1>4 DEF SingleInv

LEMMA SingleStep == TypeOK /\ PhaseInv /\ SingleInv /\ Running /\ Next => SingleInv'
<1> SUFFICES ASSUME TypeOK, PhaseInv, SingleInv, Running, Next PROVE SingleInv'
  OBVIOUS
<1>t. Threads = {"main", "async", "service"} /\ \A u \in Threads : frames[u] \in Seq(Frame)
  BY DEF Threads, TypeOK, FramesOK, Frame
<1>n. sent \in Nat
  BY CoordinatorAssumption DEF TypeOK
<1> USE <1>t, <1>n DEF Main, stacks, history, Running, Ending, Past, Opening, Serving
<1>1. CASE Construct
  BY <1>1 DEF Construct, object, PhaseInv, SingleInv
<1>2. CASE Proceed
  BY <1>2 DEF Proceed, object, PhaseInv, SingleInv
<1>3. CASE GetcwdFails
  BY <1>3 DEF GetcwdFails, object, PhaseInv, SingleInv
<1>4. CASE Terminates
  BY <1>4 DEF Terminates, object, PhaseInv, SingleInv
<1>5. CASE StartFails
  BY <1>5 DEF StartFails, object, PhaseInv, SingleInv
<1>6. CASE MakeKernel
  BY <1>6 DEF MakeKernel, object, PhaseInv, SingleInv
<1>7. CASE Register
  BY <1>7 DEF Register, object, PhaseInv, SingleInv
<1>8. CASE BootstrapFails
  BY <1>8 DEF BootstrapFails, object, PhaseInv, SingleInv
<1>9. CASE OpenServices
  BY <1>9 DEF OpenServices, object, PhaseInv, SingleInv
<1>10. CASE StartAsync
  BY <1>10 DEF StartAsync, object, PhaseInv, SingleInv
<1>11. CASE OpenSome
  BY <1>11 DEF OpenSome, object, PhaseInv, SingleInv
<1>12. CASE LoopEnds
  BY <1>12 DEF LoopEnds, object, PhaseInv, SingleInv
<1>13. CASE LoopFails
  BY <1>13 DEF LoopFails, object, PhaseInv, SingleInv
<1>14. CASE CloseServices
  BY <1>14 DEF CloseServices, object, PhaseInv, SingleInv
<1>15. CASE MainUnmake
  <2>1. UNCHANGED <<frames, g_facade_ptr, loops, sent, undone>> /\ frames["main"] = <<>>
    BY <1>15 DEF MainUnmake
  <2>2. undone \/ ~loops
    BY <1>15 DEF MainUnmake, PhaseInv
  <2>3. ~loops => \E u \in Threads : frames[u] # <<>>
    BY DEF PhaseInv
  <2>4. sent = 0 /\ (~undone \/ g_facade_ptr) => ~wild' /\ (mpc' # "exit" => facade' # "deleted")
    BY <1>15, <2>2, <2>3 DEF MainUnmake, Unmake, PhaseInv, SingleInv
  <2> HIDE DEF SingleInv
  <2> QED BY <2>1, <2>2, <2>3, <2>4 DEF SingleInv
<1>16. CASE MainFree
  <2>1. UNCHANGED <<frames, g_facade_ptr, loops, sent, undone>> /\ frames["main"] = <<>>
    BY <1>16 DEF MainFree
  <2>2. undone \/ ~loops
    BY <1>16 DEF MainFree, PhaseInv
  <2>3. ~loops => \E u \in Threads : frames[u] # <<>>
    BY DEF PhaseInv
  <2>4. sent = 0 /\ (~undone \/ g_facade_ptr) => ~wild' /\ (mpc' # "exit" => facade' # "deleted")
    BY <1>16, <2>2, <2>3 DEF MainFree, Free, PhaseInv, SingleInv
  <2> HIDE DEF SingleInv
  <2> QED BY <2>1, <2>2, <2>3, <2>4 DEF SingleInv
<1>17. CASE MainExit
  BY <1>17 DEF MainExit, object, PhaseInv, SingleInv
<1>18. CASE AsyncEnds
  BY <1>18 DEF AsyncEnds, object, PhaseInv, SingleInv
<1>19. CASE Kill
  BY <1>19 DEF Kill, object, PhaseInv, SingleInv
<1>20. ASSUME NEW t \in Threads, HandlerCheck(t)
      PROVE  SingleInv'
  <2>1. Handler(t, "check", "unmake") /\ "unmake" \in FrameLabels
    BY <1>20 DEF HandlerCheck, Handler, PhaseInv, FrameLabels
  <2>2. UNCHANGED <<mpc, g_facade_ptr, sent, undone, loops, facade, wild>>
    BY <1>20 DEF HandlerCheck, object
  <2> QED BY <2>1, <2>2, FrameKeepsSingle DEF Deleted
<1>21. ASSUME NEW t \in Threads, HandlerUnmake(t)
      PROVE  SingleInv'
  <2>1. Handler(t, "unmake", "free") /\ "free" \in FrameLabels
    BY <1>21 DEF HandlerUnmake, FrameLabels
  <2>2. kernel_ref = "set"
    BY <2>1 DEF Handler, PhaseInv
  <2>3. UNCHANGED <<mpc, g_facade_ptr, sent, undone, loops, facade>> /\ (facade # "deleted" => wild' = wild)
    BY <1>21, <2>2 DEF HandlerUnmake, Unmake
  <2> QED BY <2>1, <2>3, FrameKeepsSingle DEF Deleted
<1>22. ASSUME NEW t \in Threads, HandlerFree(t)
      PROVE  SingleInv'
  <2>1. Handler(t, "free", "join") /\ "join" \in FrameLabels
    BY <1>22 DEF HandlerFree, FrameLabels
  <2>2. UNCHANGED <<mpc, g_facade_ptr, sent, undone, loops>> /\ (facade # "deleted" => wild' = wild)
    BY <1>22 DEF HandlerFree, Free
  <2> QED BY <2>1, <2>2, FrameKeepsSingle DEF Deleted
<1>23. ASSUME NEW t \in Threads, HandlerJoin(t)
      PROVE  SingleInv'
  <2>1. Handler(t, "join", "fini") /\ "fini" \in FrameLabels
    BY <1>23 DEF HandlerJoin, FrameLabels
  <2>2. UNCHANGED <<mpc, g_facade_ptr, sent, undone, wild, facade>> /\ (loops' => loops)
    BY <1>23 DEF HandlerJoin, object
  <2> QED BY <2>1, <2>2, FrameKeepsSingle DEF Deleted
<1>24. ASSUME NEW t \in Threads, HandlerFini(t)
      PROVE  SingleInv'
  <2>1. Handler(t, "fini", "end_loops") /\ "end_loops" \in FrameLabels
    BY <1>24 DEF HandlerFini, FrameLabels
  <2>2. UNCHANGED <<mpc, g_facade_ptr, sent, undone, wild, facade>> /\ (loops' => loops)
    BY <1>24 DEF HandlerFini, object
  <2> QED BY <2>1, <2>2, FrameKeepsSingle DEF Deleted
<1>25. ASSUME NEW t \in Threads, HandlerFiniWaits(t)
      PROVE  SingleInv'
  <2>1. Handler(t, "fini", "waits") /\ "waits" \in FrameLabels
    BY <1>25 DEF HandlerFiniWaits, FrameLabels
  <2>2. UNCHANGED <<mpc, g_facade_ptr, sent, undone, wild, facade>> /\ (loops' => loops)
    BY <1>25 DEF HandlerFiniWaits, object
  <2> QED BY <2>1, <2>2, FrameKeepsSingle DEF Deleted
<1>26. ASSUME NEW t \in Threads, HandlerEndLoops(t)
      PROVE  SingleInv'
  <2>1. Handler(t, "end_loops", "exit") /\ "exit" \in FrameLabels
    BY <1>26 DEF HandlerEndLoops, FrameLabels
  <2>2. UNCHANGED <<mpc, g_facade_ptr, sent, undone, wild, facade>> /\ (loops' => loops)
    BY <1>26 DEF HandlerEndLoops, object
  <2> QED BY <2>1, <2>2, FrameKeepsSingle DEF Deleted
<1>27. ASSUME NEW t \in Threads, HandlerExit(t)
      PROVE  SingleInv'
  BY <1>27 DEF HandlerExit, object, SingleInv
<1>28. ASSUME NEW t \in Threads, NEW s \in Signals, Deliver(s, t)
      PROVE  SingleInv'
  <2>1. sent' = sent + 1 /\ UNCHANGED <<mpc, facade, wild, undone, loops, g_facade_ptr>> /\ g_facade_ptr
    BY <1>28 DEF Deliver, object
  <2>2. CASE sent >= 1
    BY <2>1, <2>2 DEF SingleInv
  <2>3. CASE sent = 0
    <3>1. \A u \in Threads : frames[u] = <<>> /\ Len(frames[u]) = 0
      BY <2>3 DEF SingleInv
    <3>2. ASSUME NEW u \in Threads, u # t
          PROVE  frames'[u] = <<>> /\ Len(frames'[u]) = 0
      <4>1. \A v \in Threads : v # t => frames'[v] = frames[v]
        BY <1>28, DeliverStep
      <4> QED BY <3>1, <3>2, <4>1
    <3>3. Len(frames'[t]) = 1
      <4>1. Len(frames[t]) = 0
        BY <3>1
      <4>2. Len(frames'[t]) = Len(frames[t]) + 1
        BY <1>28, DeliverStep
      <4> QED BY <4>1, <4>2
    <3>4. ~wild /\ (~undone => facade # "deleted")
      BY <2>1, <2>3, <3>1 DEF SingleInv, PhaseInv
    <3>5. sent' = 1
      BY <2>1, <2>3
    <3>6. \A v \in Threads : Len(frames'[v]) <= 1
      <4>1. \A v \in Threads : Len(frames'[v]) = 0 \/ Len(frames'[v]) = 1
        BY ONLY <3>2, <3>3
      <4>2. \A x : x = 0 \/ x = 1 => x <= 1
        OBVIOUS
      <4> QED BY ONLY <4>1, <4>2
    <3>7. \A v, u \in Threads : u # v => frames'[v] = <<>> \/ frames'[u] = <<>>
      BY <3>2
    <3> QED BY <2>1, <3>4, <3>5, <3>6, <3>7 DEF SingleInv
  <2> QED BY <2>2, <2>3
<1> QED
  BY <1>1, <1>2, <1>3, <1>4, <1>5, <1>6, <1>7, <1>8, <1>9, <1>10, <1>11, <1>12, <1>13, <1>14,
     <1>15, <1>16, <1>17, <1>18, <1>19, <1>20, <1>21, <1>22, <1>23, <1>24, <1>25, <1>26, <1>27, <1>28
  DEF Next, MainStep, HandlerStep

-----------------------------------------------------------------------------
CoordinatorInv == TypeOK /\ PhaseInv /\ DoneInv /\ SingleInv

LEMMA CoordinatorInvariant == Spec => []CoordinatorInv
<1>1. Init => CoordinatorInv
  <2> SUFFICES ASSUME Init PROVE CoordinatorInv
    OBVIOUS
  <2>1. frames \in [Threads -> Seq(Frame)] /\ \A t \in Threads : frames[t] = <<>>
    BY DEF Init
  <2>2. TypeOK
    <3>1. FramesOK
      BY <2>1 DEF FramesOK, Frame
    <3>2. g_facade_ptr \in BOOLEAN /\ loops \in BOOLEAN /\ wild \in BOOLEAN /\ undone \in BOOLEAN
      BY DEF Init
    <3>3. inside \in [Threads -> SUBSET Locks] /\ early \in BOOLEAN
      BY DEF Init
    <3> QED BY <3>1, <3>2, <3>3, CoordinatorAssumption DEF Init, TypeOK
  <2>3. PhaseInv
    BY <2>1 DEF Init, PhaseInv, Threads, Ending
  <2>4. DoneInv
    BY <2>1 DEF Init, DoneInv, OrderlyShutdown
  <2>5. SingleInv
    BY <2>1 DEF Init, SingleInv
  <2> QED BY <2>2, <2>3, <2>4, <2>5 DEF CoordinatorInv
<1>2. CoordinatorInv /\ [Next]_vars => CoordinatorInv'
  <2> SUFFICES ASSUME CoordinatorInv, [Next]_vars PROVE CoordinatorInv'
    OBVIOUS
  <2>1. CASE Next
    <3>1. Running
      BY <2>1 DEF Next
    <3> QED BY <2>1, <3>1, TypeStep, PhaseStep, DoneStep, SingleStep DEF CoordinatorInv
  <2>2. CASE UNCHANGED vars
    <3>1. TypeOK' /\ PhaseInv'
      BY <2>2, TypeStep, PhaseStep DEF CoordinatorInv
    <3>2. DoneInv'
      BY <2>2 DEF vars, CoordinatorInv, DoneInv, DoneAt, OrderlyShutdown
    <3>3. SingleInv'
      BY <2>2 DEF vars, CoordinatorInv, SingleInv
    <3> QED BY <3>1, <3>2, <3>3 DEF CoordinatorInv
  <2> QED BY <2>1, <2>2
<1> QED BY <1>1, <1>2, PTL DEF Spec

\* The variables keep their types, and no thread handles one signal twice at a time.
THEOREM CoordinatorTyped == Spec => []TypeOK
BY CoordinatorInvariant, PTL DEF CoordinatorInv

\* The facade is deleted once, and no kernel unmade that is not there, unless a
\* second signal came, start-up or the event loop failed, or another thread's
\* handler has ended the loops and main deletes too.
THEOREM OneSignalIsSafe == Spec => []OneSignalSafe
<1>1. CoordinatorInv => OneSignalSafe
  <2> SUFFICES ASSUME CoordinatorInv, wild, ~(sent > 1) PROVE OneSignalSafe
    BY DEF OneSignalSafe
  <2>1. sent = 0 \/ sent = 1
    BY CoordinatorAssumption DEF CoordinatorInv, TypeOK
  <2>2. CASE sent = 0
    BY <2>2 DEF CoordinatorInv, SingleInv, OneSignalSafe
  <2>3. CASE sent = 1
    BY <2>3 DEF CoordinatorInv, SingleInv, OneSignalSafe
  <2> QED BY <2>1, <2>2, <2>3
<1> QED BY <1>1, CoordinatorInvariant, PTL

\* A shutdown by the handler leaves no kernel, no facade and no service, but what
\* main still opened while another thread's handler finalised.
THEOREM ShutdownIsOrderly == Spec => []OrderlyShutdown
<1>1. CoordinatorInv => OrderlyShutdown
  BY DEF CoordinatorInv, DoneInv
<1> QED BY <1>1, CoordinatorInvariant, PTL
=============================================================================
