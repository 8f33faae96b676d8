----------------------------- MODULE Coordinator -----------------------------
(***************************************************************************)
(* The life of a coordinator process: main makes the facade, the facade    *)
(* loads the kernel and bootstrap libraries, bootstrap_default_coordinator *)
(* brings the services up and runs the reactor's event loop, and           *)
(* bootstrap_signal_handler takes everything down when SIGINT or SIGTERM   *)
(* arrives, on the stack of whatever thread it interrupts.                 *)
(*                                                                         *)
(* A signal is for the process: any thread takes it that does not block    *)
(* it, and a thread blocks it only while it is in its handler. The other   *)
(* signal interrupts the handler.                                          *)
(***************************************************************************)
EXTENDS Naturals, Sequences

CONSTANTS
    Signals,            \* SIGINT, SIGTERM
    MaxSignals          \* bound on the signals sent

ASSUME CoordinatorAssumption == MaxSignals \in Nat

VARIABLES
    mpc,                \* where the main thread is
    async,              \* the proactor's thread
    frames,             \* per thread, the signal handlers on its stack, the innermost last
    inside,             \* per thread with a handler, the locks it was interrupted inside
    facade,             \* the cci_daemon_facade object
    g_facade_ptr,       \* is it set? (and the signal handler registered, right after)
    kernel_ref,         \* of the facade's kernel_context
    kernel,             \* the kernel singleton
    services,           \* what ACE_Service_Config opened
    loops,              \* may the event loops go on?
    ended,              \* how the process ended, if it did
    wild,               \* was something deleted used, or uninitialized memory called?
    sent,               \* number of signals the handler was entered for (history)
    undone,             \* did start-up or the event loop fail? (history)
    early               \* was a service's thread interrupted while main opened them? (history)

vars == <<mpc, async, frames, inside, facade, g_facade_ptr, kernel_ref, kernel, services,
          loops, ended, wild, sent, undone, early>>
object == <<facade, kernel, wild>>
stacks == <<frames, inside>>
history == <<sent, undone, early>>

Threads == {"main", "async", "service"}     \* the last is any thread of a service
FrameLabels == {"check", "unmake", "free", "join", "fini", "waits", "end_loops", "exit"}

\* The allocator's lock, ACE_Thread_Manager's lock_, the reactor's token.
Locks == {"heap", "threads", "token"}

\* A thread handles a signal once at a time.
FramesOK ==
    /\ frames \in [Threads -> Seq([signal : Signals, at : FrameLabels])]
    /\ \A t \in Threads : \A i \in 1 .. Len(frames[t]) : \A j \in 1 .. i - 1 :
          frames[t][i].signal # frames[t][j].signal

TypeOK ==
    /\ mpc \in {"start", "getcwd", "daemonize", "open_log", "load_kernel", "make_kernel",
                "map_kernel", "load_bootstrap", "register", "chdir", "open_svcs", "watchdog",
                "loop", "close", "catch_unmake", "catch_free", "unmake", "free", "exit"}
    /\ async \in {"none", "running", "done"}
    /\ FramesOK /\ inside \in [Threads -> SUBSET Locks]
    /\ facade \in {"none", "made", "deleted"}
    /\ g_facade_ptr \in BOOLEAN
    /\ kernel_ref \in {"null", "garbage", "set"}
    /\ kernel \in {"none", "made", "disposed"}
    /\ services \in {"none", "some", "open", "finalised"}
    /\ loops \in BOOLEAN
    /\ ended \in {"no", "killed", "failed", "terminated", "returned", "shutdown"}
    /\ wild \in BOOLEAN
    /\ sent \in 0 .. MaxSignals
    /\ undone \in BOOLEAN /\ early \in BOOLEAN

Init ==
    /\ mpc = "start" /\ async = "none"
    /\ frames = [t \in Threads |-> <<>>] /\ inside = [t \in Threads |-> {}]
    /\ facade = "none" /\ g_facade_ptr = FALSE
    /\ kernel_ref = "null" /\ kernel = "none"
    /\ services = "none" /\ loops = TRUE
    /\ ended = "no" /\ wild = FALSE /\ sent = 0 /\ undone = FALSE /\ early = FALSE

Running == ended = "no" /\ ~wild

\* A lock is had sooner or later from a thread that runs, and never from one that
\* was interrupted, for no handler returns; only the token lets its owner in again.
Blocked(t, l) ==
    \E u \in Threads : l \in inside[u] /\ ~(l = "token" /\ u = t)

-----------------------------------------------------------------------------
(* Destruction of the facade, by any thread.                               *)

\* ~cci_daemon_facade: with a kernel_ref it calls unmake_kernel, which disposes
\* of the singleton if there is one.  kernel_ref is not reset.
Unmake ==
    IF facade = "deleted" \/ kernel_ref = "garbage"
    THEN wild' = TRUE /\ UNCHANGED <<facade, kernel>>
    ELSE /\ kernel' = IF kernel_ref = "set" THEN "disposed" ELSE kernel
         /\ UNCHANGED <<facade, wild>>

\* The members go, and the memory.
Free ==
    IF facade = "deleted"
    THEN wild' = TRUE /\ UNCHANGED <<facade, kernel>>
    ELSE facade' = "deleted" /\ UNCHANGED <<kernel, wild>>

-----------------------------------------------------------------------------
(* The main thread, when no signal handler is on top of it.                *)

Main(from, to) == mpc = from /\ frames["main"] = <<>> /\ mpc' = to

\* new cci_daemon_facade: new kernel_context leaves its pointers uninitialized.
Construct ==
    /\ Main("start", "getcwd")
    /\ facade' = "made"
    /\ kernel_ref' \in {"null", "garbage"}
    /\ UNCHANGED <<async, stacks, g_facade_ptr, kernel, services, loops, ended, wild, history>>

\* getcwd, the options, daemonize, open_log with read_config_file, load_lib.
Proceed ==
    /\ \/ Main("getcwd", "daemonize") \/ Main("daemonize", "open_log")
       \/ Main("open_log", "load_kernel") \/ Main("load_kernel", "make_kernel")
       \/ Main("map_kernel", "load_bootstrap") \/ Main("load_bootstrap", "register")
       \/ Main("chdir", "open_svcs")
    /\ UNCHANGED <<async, stacks, object, g_facade_ptr, kernel_ref, services, loops, ended, history>>

\* getcwd returns null: std::string throws, and main's catch clause deletes the facade.
GetcwdFails ==
    /\ Main("getcwd", "catch_unmake")
    /\ undone' = TRUE
    /\ UNCHANGED <<async, stacks, object, g_facade_ptr, kernel_ref, services, loops, ended, sent, early>>

\* daemonize fails: "throw;" with nothing to throw.  A thread for the proactor
\* cannot be had: ACE_ASSERT.
Terminates ==
    /\ mpc \in {"daemonize", "watchdog"} /\ frames["main"] = <<>>
    /\ ended' = "terminated"
    /\ UNCHANGED <<mpc, async, stacks, object, g_facade_ptr, kernel_ref, services, loops, history>>

\* The log, a library or one of its functions is missing: exit( 1 ).
StartFails ==
    /\ mpc \in {"open_log", "load_kernel", "make_kernel", "map_kernel", "load_bootstrap"}
    /\ frames["main"] = <<>>
    /\ ended' = "failed"
    /\ UNCHANGED <<mpc, async, stacks, object, g_facade_ptr, kernel_ref, services, loops, history>>

\* map_kernel calls make_kernel, then looks up unmake_kernel.
MakeKernel ==
    /\ Main("make_kernel", "map_kernel")
    /\ kernel' = "made" /\ kernel_ref' = "set"
    /\ UNCHANGED <<async, stacks, facade, g_facade_ptr, services, loops, ended, wild, history>>

\* bootstrap_default_coordinator sets g_facade_ptr and registers the handler.
Register ==
    /\ Main("register", "chdir")
    /\ g_facade_ptr' = TRUE
    /\ UNCHANGED <<async, stacks, object, kernel_ref, services, loops, ended, history>>

\* The directory is gone or the services cannot be opened (some may have been):
\* it returns 1, which nobody looks at, and main deletes the facade.
BootstrapFails ==
    /\ Main("chdir", "unmake") \/ Main("open_svcs", "unmake")
    /\ undone' = TRUE
    /\ UNCHANGED <<async, stacks, object, g_facade_ptr, kernel_ref, services, loops, ended, sent, early>>

\* ACE_Service_Config::open: a service is there, and its threads run ...
OpenSome ==
    /\ Main("open_svcs", "open_svcs")
    /\ services \in {"none", "finalised"} /\ services' = "some"
    /\ UNCHANGED <<async, stacks, object, g_facade_ptr, kernel_ref, loops, ended, history>>

\* ... and all of them are.
OpenServices ==
    /\ Main("open_svcs", "watchdog")
    /\ services' = "open"
    /\ UNCHANGED <<async, stacks, object, g_facade_ptr, kernel_ref, loops, ended, history>>

\* The watchdog timer and the proactor's thread.
StartAsync ==
    /\ Main("watchdog", "loop")
    /\ async' = "running"
    /\ UNCHANGED <<stacks, object, g_facade_ptr, kernel_ref, services, loops, ended, history>>

\* run_reactor_event_loop returns when the loop was ended ...
LoopEnds ==
    /\ Main("loop", "close") /\ ~loops
    /\ UNCHANGED <<async, stacks, object, g_facade_ptr, kernel_ref, services, loops, ended, history>>

\* ... or handle_events failed (interrupted by a signal that is not ACE's, for
\* one); nobody looks at which.
LoopFails ==
    /\ Main("loop", "close")
    /\ undone' = TRUE
    /\ UNCHANGED <<async, stacks, object, g_facade_ptr, kernel_ref, services, loops, ended, sent, early>>

\* ACE_Service_Config::close, and back to main.
CloseServices ==
    /\ Main("close", "unmake")
    /\ services' = "finalised"
    /\ UNCHANGED <<async, stacks, object, g_facade_ptr, kernel_ref, loops, ended, history>>

\* if( df ) { delete df; }, in the catch clause and after it.
MainUnmake ==
    /\ Main("catch_unmake", "catch_free") \/ Main("unmake", "free")
    /\ ~Blocked("main", "heap") /\ Unmake
    /\ UNCHANGED <<async, stacks, g_facade_ptr, kernel_ref, services, loops, ended, history>>

MainFree ==
    /\ Main("catch_free", "unmake") \/ Main("free", "exit")
    /\ ~Blocked("main", "heap") /\ Free
    /\ UNCHANGED <<async, stacks, g_facade_ptr, kernel_ref, services, loops, ended, history>>

MainExit ==
    /\ mpc = "exit" /\ frames["main"] = <<>>
    /\ ended' = "returned"
    /\ UNCHANGED <<mpc, async, stacks, object, g_facade_ptr, kernel_ref, services, loops, history>>

\* HA_async_handler::svc returns when the proactor's loop was ended.
AsyncEnds ==
    /\ async = "running" /\ frames["async"] = <<>> /\ ~loops
    /\ async' = "done"
    /\ UNCHANGED <<mpc, stacks, object, g_facade_ptr, kernel_ref, services, loops, ended, history>>

-----------------------------------------------------------------------------
(* Signals and their handler.                                              *)

Blocks(t, s) == \E i \in 1 .. Len(frames[t]) : frames[t][i].signal = s

Alive(t) ==
    \/ t = "main"
    \/ t = "async" /\ async = "running"
    \/ t = "service" /\ services # "none"

\* Before the handler is registered a signal ends the process.
Kill ==
    /\ ~g_facade_ptr
    /\ ended' = "killed"
    /\ UNCHANGED <<mpc, async, stacks, object, g_facade_ptr, kernel_ref, services, loops, history>>

\* The locks a line of the handler takes: delete the allocator's, cancel_timer
\* the token, join() the thread manager's, the fini() of a service any.
Needs(at) ==
    IF at \in {"unmake", "free"} THEN {"heap"}
    ELSE IF at = "join" THEN {"token", "threads"}
    ELSE IF at = "fini" THEN Locks
    ELSE {}

Top(t) == frames[t][Len(frames[t])].at

\* The locks thread t may be inside: its handler's, or those of its own work
\* (main spawns threads and has the token from the services' init() on).
MayHold(t) ==
    IF frames[t] # <<>> THEN Needs(Top(t))
    ELSE IF t = "async" THEN {"heap", "threads"}
    ELSE IF t = "main" /\ mpc \notin {"open_svcs", "watchdog", "loop", "close"} THEN {"heap"}
    ELSE Locks

\* A slip: the handler does not keep its own signal out.
DeliverUnmasked(s, t) ==
    /\ g_facade_ptr /\ sent < MaxSignals
    /\ Alive(t)
    /\ frames' = [frames EXCEPT ![t] = Append(@, [signal |-> s, at |-> "check"])]
    /\ sent' = sent + 1
    /\ UNCHANGED <<mpc, async, inside, object, g_facade_ptr, kernel_ref, services, loops, ended,
                   undone, early>>

\* A signal is delivered: the handler runs on top of what thread t does, which
\* may be inside locks that no other interrupted thread is inside.
Deliver(s, t) ==
    /\ g_facade_ptr /\ sent < MaxSignals
    /\ Alive(t) /\ ~Blocks(t, s)
    /\ frames' = [frames EXCEPT ![t] = Append(@, [signal |-> s, at |-> "check"])]
    /\ \E held \in SUBSET {l \in MayHold(t) : \A u \in Threads : l \notin inside[u]} :
          inside' = [inside EXCEPT ![t] = @ \union held]
    /\ sent' = sent + 1
    /\ early' = (early \/ (t # "main" /\ mpc = "open_svcs"))
    /\ UNCHANGED <<mpc, async, object, g_facade_ptr, kernel_ref, services, loops, ended, undone>>

\* The innermost handler of thread t goes on to another line, when it has the locks
\* of its line.
Handler(t, from, to) ==
    /\ frames[t] # <<>> /\ Top(t) = from
    /\ \A l \in Needs(from) : ~Blocked(t, l)
    /\ frames' = [frames EXCEPT ![t][Len(frames[t])].at = to]
    /\ UNCHANGED inside

\* if( g_facade_ptr ): it is never reset.
HandlerCheck(t) ==
    /\ Handler(t, "check", IF g_facade_ptr THEN "unmake" ELSE "join")
    /\ UNCHANGED <<mpc, async, object, g_facade_ptr, kernel_ref, services, loops, ended, history>>

\* delete g_facade_ptr
HandlerUnmake(t) ==
    /\ Handler(t, "unmake", "free")
    /\ Unmake
    /\ UNCHANGED <<mpc, async, g_facade_ptr, kernel_ref, services, loops, ended, history>>

HandlerFree(t) ==
    /\ Handler(t, "free", "join")
    /\ Free
    /\ UNCHANGED <<mpc, async, g_facade_ptr, kernel_ref, services, loops, ended, history>>

\* A slip: the thread's id is kept, and join() waits for the proactor's thread.
HandlerJoinWaits(t) ==
    /\ Handler(t, "join", "fini")
    /\ async # "running"
    /\ UNCHANGED <<mpc, async, object, g_facade_ptr, kernel_ref, services, loops, ended, history>>

\* cancel_timer, and join( dw_thread_id ): the id is 0, the result of
\* activate(), no thread has it, and join() does not wait.
HandlerJoin(t) ==
    /\ Handler(t, "join", "fini")
    /\ UNCHANGED <<mpc, async, object, g_facade_ptr, kernel_ref, services, loops, ended, history>>

\* A slip: the services are left to the end of the process.
HandlerFiniOmitted(t) ==
    /\ Handler(t, "fini", "end_loops")
    /\ UNCHANGED <<mpc, async, object, g_facade_ptr, kernel_ref, services, loops, ended, history>>

\* ACE_Service_Config::fini_svcs
HandlerFini(t) ==
    /\ Handler(t, "fini", "end_loops")
    /\ services' = IF services = "none" THEN "none" ELSE "finalised"
    /\ UNCHANGED <<mpc, async, object, g_facade_ptr, kernel_ref, loops, ended, history>>

\* The fini() of the pool waits for a thread that this handler runs on, or that
\* needs the token of the thread below the handler.
HandlerFiniWaits(t) ==
    /\ Handler(t, "fini", "waits")
    /\ t = "service" \/ "token" \in inside[t]
    /\ UNCHANGED <<mpc, async, object, g_facade_ptr, kernel_ref, services, loops, ended, history>>

\* end_reactor_event_loop, proactor_end_event_loop
HandlerEndLoops(t) ==
    /\ Handler(t, "end_loops", "exit")
    /\ loops' = FALSE
    /\ UNCHANGED <<mpc, async, object, g_facade_ptr, kernel_ref, services, ended, history>>

\* A slip: the handler returns, so that main can clean up.
HandlerReturns(t) ==
    /\ frames[t] # <<>> /\ Top(t) = "exit"
    /\ frames' = [frames EXCEPT ![t] = SubSeq(@, 1, Len(@) - 1)]
    /\ UNCHANGED <<mpc, inside, async, object, g_facade_ptr, kernel_ref, services, loops, ended, history>>

\* _exit( 0 )
HandlerExit(t) ==
    /\ frames[t] # <<>> /\ Top(t) = "exit"
    /\ ended' = "shutdown"
    /\ UNCHANGED <<mpc, async, stacks, object, g_facade_ptr, kernel_ref, services, loops, history>>

-----------------------------------------------------------------------------
MainStep ==
    \/ Construct \/ Proceed \/ GetcwdFails \/ Terminates \/ StartFails \/ MakeKernel
    \/ Register \/ BootstrapFails \/ OpenServices \/ StartAsync
    \/ OpenSome \/ LoopEnds \/ LoopFails \/ CloseServices \/ MainUnmake \/ MainFree \/ MainExit

HandlerStep(t) ==
    \/ HandlerCheck(t) \/ HandlerUnmake(t) \/ HandlerFree(t) \/ HandlerJoin(t)
    \/ HandlerFini(t) \/ HandlerFiniWaits(t) \/ HandlerEndLoops(t) \/ HandlerExit(t)

Next ==
    /\ Running
    /\ \/ MainStep \/ AsyncEnds \/ Kill
       \/ \E t \in Threads : HandlerStep(t) \/ \E s \in Signals : Deliver(s, t)

Spec == Init /\ [][Next]_vars

\* A handler that can go on does.
FairSpec ==
    /\ Spec
    /\ \A t \in Threads : WF_vars(Running /\ HandlerStep(t))

-----------------------------------------------------------------------------
\* The facade is deleted twice, or a kernel unmade that is not there, only if two
\* signals came, or one that met a failed start-up or event loop, or none but an
\* exception, or if another thread than main has ended the loops, so that main
\* races with _exit. So one signal is safe on main at whatever step, and on any
\* thread until it ends the loops; and without one, main deletes only once.
OneSignalSafe ==
    wild => \/ sent > 1
            \/ undone /\ (sent = 1 \/ ~g_facade_ptr)
            \/ ~loops /\ \E t \in Threads \ {"main"} : frames[t] # <<>>

\* A process that is shut down by its handler leaves no kernel and no service
\* open, whatever signals interrupted each other on whatever threads; unless main
\* was still opening services when another thread's handler finalised them.
OrderlyShutdown ==
    ended = "shutdown" =>
        kernel = "disposed" /\ facade = "deleted" /\ (services \in {"some", "open"} => early)

\* A handler waits for a lock that an interrupted thread is inside, or for a
\* thread of the pool that cannot end before it.
Stuck ==
    \E t \in Threads :
        /\ frames[t] # <<>>
        /\ Top(t) = "waits" \/ \E l \in Needs(Top(t)) : Blocked(t, l)

\* A signal the handler is entered for ends the process, unless a handler is
\* stuck: in particular it does not wait for the thread whose event loop only its
\* last lines end.
SignalEnds == sent > 0 ~> (~Running \/ Stuck)
=============================================================================
