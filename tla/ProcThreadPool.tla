--------------------------- MODULE ProcThreadPool ---------------------------
(***************************************************************************)
(* proc_acceptor, proc_handler and proc_thread_pool under                  *)
(* concurrency_t::thread_pool_: one reactor thread accepts connections and *)
(* dispatches readable ones; a pool of detached threads takes handlers     *)
(* from an ACE message queue, serves them and gives them back to the       *)
(* reactor.  proc_acceptor::close stops the pool with one null message per *)
(* thread it counts.                                                       *)
(*                                                                         *)
(* A handler is a pointer: the same member of Handlers can be allocated,   *)
(* deleted and allocated again.                                            *)
(***************************************************************************)
EXTENDS Naturals, Sequences, FiniteSets

CONSTANTS
    Handlers,           \* addresses a proc_handler can be allocated at
    Workers,            \* the pool_size threads start() asks for
    Null,               \* the null pointer
    FragmentLimit,      \* fragments that fit in constCommandBufferLength bytes
    AllocMayFail        \* can an ACE_Message_Block fail to be allocated?

ASSUME PoolAssumption ==
    /\ IsFiniteSet(Workers)
    /\ Null \notin Handlers
    /\ FragmentLimit \in Nat
    /\ AllocMayFail \in BOOLEAN

VARIABLES
    alive,              \* handlers that exist
    registered,         \* handlers the reactor watches for READ
    input,              \* what each client has written, unread
    queue,              \* the pool's message queue
    active_threads_,    \* the pool's counter of running threads
    wpc,                \* where each pool thread is in svc()
    wh,                 \* the handler a pool thread holds
    frags,              \* fragments of a request process() has gathered
    rpc,                \* what the reactor thread does
    upcall,             \* the upcall the reactor thread is in, if any
    rh,                 \* the handler of that upcall
    counter,            \* stop()'s local counter
    snapshot,           \* active_threads_ as stop() read it (history)
    token,              \* does stop() run inside handle_events?
    cancelled,          \* has cancel_all() marked the threads?
    crashed             \* has the process died of SIGSEGV?

reactorVars == <<rpc, upcall, rh>>
workerVars  == <<active_threads_, wpc, wh, frags>>
stopVars    == <<counter, snapshot, token>>
connVars    == <<alive, registered, input>>
vars == <<alive, registered, input, queue, active_threads_, wpc, wh, frags,
          rpc, upcall, rh, counter, snapshot, token, cancelled, crashed>>

Inputs == {"quiet", "partial", "request", "ctrl", "eof"}

Holding == {"process", "rereg", "close"}    \* svc() holds a handler
Counting == Holding \union {"getq"}         \* the counter guard is alive

TypeOK ==
    /\ alive \subseteq Handlers
    /\ registered \subseteq Handlers
    /\ input \in [Handlers -> Inputs]
    /\ queue \in Seq(Handlers \union {Null})
    /\ active_threads_ \in Nat
    /\ wpc \in [Workers -> Counting \union {"unborn", "spawned", "cancelled", "exited"}]
    /\ wh \in [Workers -> Handlers \union {Null}]
    /\ frags \in [Workers -> 0 .. FragmentLimit]
    /\ rpc \in {"new", "failed", "loop", "cancelWait", "stopping", "stopWait", "closed"}
    /\ upcall \in {"none", "open", "enqueue"}
    /\ rh \in Handlers \union {Null}
    /\ counter \in Nat
    /\ snapshot \in Nat
    /\ token \in BOOLEAN
    /\ cancelled \in BOOLEAN
    /\ crashed \in BOOLEAN

Init ==
    /\ alive = {} /\ registered = {}
    /\ input = [h \in Handlers |-> "quiet"]
    /\ queue = <<>>
    /\ active_threads_ = 0
    /\ wpc = [w \in Workers |-> "unborn"]
    /\ wh = [w \in Workers |-> Null]
    /\ frags = [w \in Workers |-> 0]
    /\ rpc = "new" /\ upcall = "none" /\ rh = Null
    /\ counter = 0 /\ snapshot = 0 /\ token = FALSE
    /\ cancelled = FALSE /\ crashed = FALSE

-----------------------------------------------------------------------------
(* The reactor thread.                                                     *)

\* proc_acceptor::open: start the pool, ignoring how many threads could be
\* spawned, then listen.
Open ==
    /\ rpc = "new"
    /\ \E spawned \in SUBSET Workers :
          wpc' = [w \in Workers |-> IF w \in spawned THEN "spawned" ELSE "unborn"]
    /\ rpc' \in {"loop", "failed"}
    /\ UNCHANGED <<connVars, queue, active_threads_, wh, frags, upcall, rh, stopVars,
                   cancelled, crashed>>

Selecting == rpc = "loop" /\ upcall = "none"

\* A client connects: the acceptor allocates a handler, whose open() greets
\* the client and schedules the idle timer.
Accept(h) ==
    /\ Selecting
    /\ h \notin alive
    /\ alive' = alive \union {h}
    /\ upcall' = "open" /\ rh' = h
    /\ UNCHANGED <<registered, input, queue, workerVars, rpc, stopVars, cancelled, crashed>>

\* open() ends with the handler registered for READ.
OpenDone ==
    /\ rpc = "loop" /\ upcall = "open"
    /\ registered' = registered \union {rh}
    /\ upcall' = "none" /\ rh' = Null
    /\ UNCHANGED <<alive, input, queue, workerVars, rpc, stopVars, cancelled, crashed>>

\* open() returns -1 (no peer address, or not registered): ACE calls close(),
\* which destroys the handler.
OpenFails ==
    /\ rpc = "loop" /\ upcall = "open"
    /\ alive' = alive \ {rh}
    /\ input' = [input EXCEPT ![rh] = "quiet"]
    /\ upcall' = "none" /\ rh' = Null
    /\ UNCHANGED <<registered, queue, workerVars, rpc, stopVars, cancelled, crashed>>

\* A client writes to its connection or shuts it down (external).
Client(h, i) ==
    /\ h \in alive
    /\ input[h] = "quiet"
    /\ i # "quiet"
    /\ input' = [input EXCEPT ![h] = i]
    /\ UNCHANGED <<alive, registered, queue, workerVars, reactorVars, stopVars,
                   cancelled, crashed>>

\* A slip: the reactor keeps watching the handler it gives to the pool.
HandleInputStillWatched(h) ==
    /\ Selecting
    /\ h \in registered
    /\ input[h] # "quiet"
    /\ upcall' = "enqueue" /\ rh' = h
    /\ UNCHANGED <<connVars, queue, workerVars, rpc, stopVars, cancelled, crashed>>

\* handle_input on the creator thread, first half: take the handler away from
\* the reactor.
HandleInput(h) ==
    /\ Selecting
    /\ h \in registered
    /\ input[h] # "quiet"
    /\ registered' = registered \ {h}
    /\ upcall' = "enqueue" /\ rh' = h
    /\ UNCHANGED <<alive, input, queue, workerVars, rpc, stopVars, cancelled, crashed>>

\* ... second half: give it to the pool.
Enqueue ==
    /\ rpc = "loop" /\ upcall = "enqueue"
    /\ queue' = Append(queue, rh)
    /\ upcall' = "none" /\ rh' = Null
    /\ UNCHANGED <<connVars, workerVars, rpc, stopVars, cancelled, crashed>>

\* enqueue() returns -1 and so does handle_input.  The handler is no longer
\* registered, so the reactor finds nothing to close: the handler stays
\* allocated and nobody but its timer will ever call it.
EnqueueFails ==
    /\ AllocMayFail
    /\ rpc = "loop" /\ upcall = "enqueue"
    /\ upcall' = "none" /\ rh' = Null
    /\ UNCHANGED <<connVars, queue, workerVars, rpc, stopVars, cancelled, crashed>>

\* handle_timeout: the act scheduled is (void*) timer_id, a null pointer, and
\* the first thing handle_timeout does is to read through it.
HandleTimeout(h) ==
    /\ Selecting
    /\ h \in alive
    /\ crashed' = TRUE
    /\ UNCHANGED <<connVars, queue, workerVars, reactorVars, stopVars, cancelled>>

-----------------------------------------------------------------------------
(* Shutdown, run by the reactor thread.                                    *)

\* proc_acceptor::close -> stop(): read the counter.  A signal handler calls
\* it wherever the reactor thread happens to be, the reactor's token held;
\* code after the event loop calls it without the token.
StopBegin ==
    /\ rpc = "loop"
    /\ rpc' = "stopping"
    /\ counter' = active_threads_
    /\ snapshot' = active_threads_
    /\ token' \in IF upcall = "none" THEN BOOLEAN ELSE {TRUE}
    /\ UNCHANGED <<connVars, queue, workerVars, upcall, rh, cancelled, crashed>>

\* A slip: the nulls overtake the handlers already queued.
StopEnqueueUrgent ==
    /\ rpc = "stopping"
    /\ counter > 0
    /\ counter' = counter - 1
    /\ queue' = <<Null>> \o queue
    /\ UNCHANGED <<connVars, workerVars, reactorVars, snapshot, token, cancelled, crashed>>

StopEnqueue ==
    /\ rpc = "stopping"
    /\ counter > 0
    /\ counter' = counter - 1
    /\ queue' = Append(queue, Null)
    /\ UNCHANGED <<connVars, workerVars, reactorVars, snapshot, token, cancelled, crashed>>

\* stop() ignores what enqueue( 0L ) returns.
StopEnqueueFails ==
    /\ AllocMayFail
    /\ rpc = "stopping"
    /\ counter > 0
    /\ counter' = counter - 1
    /\ UNCHANGED <<connVars, queue, workerVars, reactorVars, snapshot, token, cancelled, crashed>>

StopPoll ==
    /\ rpc = "stopping"
    /\ counter = 0
    /\ rpc' = "stopWait"
    /\ UNCHANGED <<connVars, queue, workerVars, upcall, rh, stopVars, cancelled, crashed>>

\* The poll sees no active thread; close() goes on to stop listening.
StopReturn ==
    /\ rpc = "stopWait"
    /\ active_threads_ = 0
    /\ rpc' = "closed"
    /\ UNCHANGED <<connVars, queue, workerVars, upcall, rh, stopVars, cancelled, crashed>>

\* proc_ace_harness's signal handler: cancel every thread, wait 5 seconds for
\* those to end that are not detached ...
CancelAll ==
    /\ rpc = "loop"
    /\ rpc' = "cancelWait"
    /\ cancelled' = TRUE
    /\ UNCHANGED <<connVars, queue, workerVars, upcall, rh, stopVars, crashed>>

\* ... if the wait fails, return to whatever was interrupted ...
CancelTimeout ==
    /\ rpc = "cancelWait"
    /\ rpc' = "loop"
    /\ UNCHANGED <<connVars, queue, workerVars, upcall, rh, stopVars, cancelled, crashed>>

\* ... otherwise shut the services down. The pool's threads are detached: wait()
\* abandons them, and does not look whether they have ended.
CancelDone ==
    /\ rpc = "cancelWait"
    /\ rpc' = "stopping"
    /\ counter' = active_threads_
    /\ snapshot' = active_threads_
    /\ token' = TRUE
    /\ UNCHANGED <<connVars, queue, workerVars, upcall, rh, cancelled, crashed>>

-----------------------------------------------------------------------------
(* A pool thread: proc_thread_pool::svc.                                   *)

\* testcancel() says no: the counter guard counts the thread.
SvcBegin(w) ==
    /\ wpc[w] = "spawned"
    /\ ~cancelled
    /\ active_threads_' = active_threads_ + 1
    /\ wpc' = [wpc EXCEPT ![w] = "getq"]
    /\ UNCHANGED <<connVars, queue, wh, frags, reactorVars, stopVars, cancelled, crashed>>

\* A slip: the early return discounts a thread that was never counted.
SvcCancelledDiscounts(w) ==
    /\ wpc[w] = "spawned"
    /\ cancelled
    /\ wpc' = [wpc EXCEPT ![w] = "cancelled"]
    /\ active_threads_' = active_threads_ - 1
    /\ UNCHANGED <<connVars, queue, wh, frags, reactorVars, stopVars, cancelled, crashed>>

\* testcancel() says yes: the thread ends uncounted.
SvcCancelled(w) ==
    /\ wpc[w] = "spawned"
    /\ cancelled
    /\ wpc' = [wpc EXCEPT ![w] = "cancelled"]
    /\ UNCHANGED <<connVars, queue, active_threads_, wh, frags, reactorVars, stopVars,
                   cancelled, crashed>>

\* getq() yields a handler.
GetHandler(w) ==
    /\ wpc[w] = "getq"
    /\ queue # <<>>
    /\ Head(queue) # Null
    /\ queue' = Tail(queue)
    /\ wh' = [wh EXCEPT ![w] = Head(queue)]
    /\ frags' = [frags EXCEPT ![w] = 0]
    /\ wpc' = [wpc EXCEPT ![w] = "process"]
    /\ UNCHANGED <<connVars, active_threads_, reactorVars, stopVars, cancelled, crashed>>

\* getq() yields a null: leave svc(), and with it the counter guard.
GetNull(w) ==
    /\ wpc[w] = "getq"
    /\ queue # <<>>
    /\ Head(queue) = Null
    /\ queue' = Tail(queue)
    /\ wpc' = [wpc EXCEPT ![w] = "exited"]
    /\ active_threads_' = active_threads_ - 1
    /\ UNCHANGED <<connVars, wh, frags, reactorVars, stopVars, cancelled, crashed>>

\* A slip: no limit to what process() gathers while it waits for a line end.
ProcessPartialUnbounded(w) ==
    /\ wpc[w] = "process"
    /\ input[wh[w]] = "partial"
    /\ input' = [input EXCEPT ![wh[w]] = "quiet"]
    /\ UNCHANGED <<alive, registered, queue, workerVars, reactorVars, stopVars,
                   cancelled, crashed>>

\* process() reads a fragment with no line end and keeps reading, as long as
\* what it gathered fits in constCommandBufferLength bytes.
ProcessPartial(w) ==
    /\ wpc[w] = "process"
    /\ input[wh[w]] = "partial"
    /\ frags[w] < FragmentLimit
    /\ frags' = [frags EXCEPT ![w] = @ + 1]
    /\ input' = [input EXCEPT ![wh[w]] = "quiet"]
    /\ UNCHANGED <<alive, registered, queue, active_threads_, wpc, wh, reactorVars,
                   stopVars, cancelled, crashed>>

\* A request is complete: a line end arrived, or too much without one.
Complete(w) ==
    \/ input[wh[w]] = "request"
    \/ input[wh[w]] = "partial" /\ frags[w] = FragmentLimit

\* A slip: process() returns -1 for a request it has performed.
ProcessRequestHangsUp(w) ==
    /\ wpc[w] = "process"
    /\ Complete(w)
    /\ wpc' = [wpc EXCEPT ![w] = "close"]
    /\ UNCHANGED <<connVars, queue, active_threads_, wh, frags, reactorVars, stopVars,
                   cancelled, crashed>>

\* process() reads a complete request, performs it and returns 0.
ProcessRequest(w) ==
    /\ wpc[w] = "process"
    /\ Complete(w)
    /\ input' = [input EXCEPT ![wh[w]] = "quiet"]
    /\ wpc' = [wpc EXCEPT ![w] = "rereg"]
    /\ UNCHANGED <<alive, registered, queue, active_threads_, wh, frags, reactorVars,
                   stopVars, cancelled, crashed>>

\* recv() ends the loop with no request: 50 seconds passed, or the client
\* closed its end.  process() returns 0 in both cases.
ProcessNothing(w) ==
    /\ wpc[w] = "process"
    /\ input[wh[w]] \in {"quiet", "eof"}
    /\ wpc' = [wpc EXCEPT ![w] = "rereg"]
    /\ UNCHANGED <<connVars, queue, active_threads_, wh, frags, reactorVars, stopVars,
                   cancelled, crashed>>

\* A slip: handle_input registers the handler again without looking at rval.
ProcessCtrlReregisters(w) ==
    /\ wpc[w] = "process"
    /\ input[wh[w]] = "ctrl"
    /\ wpc' = [wpc EXCEPT ![w] = "close"]
    /\ registered' = registered \union {wh[w]}
    /\ UNCHANGED <<alive, input, queue, active_threads_, wh, frags, reactorVars,
                   stopVars, cancelled, crashed>>

\* process() finds a ctrl-c or ctrl-z and returns -1.
ProcessCtrl(w) ==
    /\ wpc[w] = "process"
    /\ input[wh[w]] = "ctrl"
    /\ wpc' = [wpc EXCEPT ![w] = "close"]
    /\ UNCHANGED <<connVars, queue, active_threads_, wh, frags, reactorVars, stopVars,
                   cancelled, crashed>>

\* ACE_Token of the reactor: held during upcalls, given up by a reactor thread
\* in select(), not given up by one that runs stop() inside handle_events.
TokenFree ==
    /\ upcall = "none"
    /\ \/ rpc = "loop"
       \/ rpc \in {"stopping", "stopWait", "closed"} /\ ~token

\* A slip: the handler is not given back to the reactor.
ReregisterForgotten(w) ==
    /\ wpc[w] = "rereg"
    /\ TokenFree
    /\ wpc' = [wpc EXCEPT ![w] = "getq"]
    /\ wh' = [wh EXCEPT ![w] = Null]
    /\ UNCHANGED <<connVars, queue, active_threads_, frags, reactorVars, stopVars,
                   cancelled, crashed>>

\* handle_input, rval # -1: give the handler back to the reactor.  The thread
\* does not touch it again.
Reregister(w) ==
    /\ wpc[w] = "rereg"
    /\ TokenFree
    /\ registered' = registered \union {wh[w]}
    /\ wpc' = [wpc EXCEPT ![w] = "getq"]
    /\ wh' = [wh EXCEPT ![w] = Null]
    /\ UNCHANGED <<alive, input, queue, active_threads_, frags, reactorVars, stopVars,
                   cancelled, crashed>>

\* handle_input returned -1: handle_close -> destroy.
HandleClose(w) ==
    /\ wpc[w] = "close"
    /\ TokenFree
    /\ registered' = registered \ {wh[w]}
    /\ alive' = alive \ {wh[w]}
    /\ input' = [input EXCEPT ![wh[w]] = "quiet"]
    /\ wpc' = [wpc EXCEPT ![w] = "getq"]
    /\ wh' = [wh EXCEPT ![w] = Null]
    /\ UNCHANGED <<queue, active_threads_, frags, reactorVars, stopVars, cancelled, crashed>>

-----------------------------------------------------------------------------
ReactorStep ==
    \/ Open \/ OpenDone \/ OpenFails \/ Enqueue \/ EnqueueFails
    \/ \E h \in Handlers : Accept(h) \/ HandleInput(h) \/ HandleTimeout(h)
    \/ StopBegin \/ StopEnqueue \/ StopEnqueueFails \/ StopPoll \/ StopReturn
    \/ CancelAll \/ CancelTimeout \/ CancelDone

WorkerStep(w) ==
    \/ SvcBegin(w) \/ SvcCancelled(w) \/ GetHandler(w) \/ GetNull(w)
    \/ ProcessPartial(w) \/ ProcessRequest(w) \/ ProcessNothing(w) \/ ProcessCtrl(w)
    \/ Reregister(w) \/ HandleClose(w)

Next ==
    /\ ~crashed
    /\ \/ ReactorStep
       \/ \E w \in Workers : WorkerStep(w)
       \/ \E h \in Handlers, i \in Inputs : Client(h, i)

Spec == Init /\ [][Next]_vars

-----------------------------------------------------------------------------
(* Safety.                                                                 *)

\* Queued(i): the i-th message carries a handler.
Queued(i) == i \in DOMAIN queue /\ queue[i] # Null

\* A handler is in the hands of at most one party: watched by the reactor, in
\* the reactor thread's upcall, once in the queue, or held by one pool thread.
\* handle_input relies on it to touch the handler without a lock.
Exclusive ==
    /\ rh \notin registered
    /\ \A i \in DOMAIN queue : Queued(i) => queue[i] \notin registered /\ queue[i] # rh
    /\ \A i, j \in DOMAIN queue : Queued(i) /\ queue[i] = queue[j] => i = j
    /\ \A w \in Workers : wh[w] # Null =>
          /\ wh[w] \notin registered
          /\ wh[w] # rh
          /\ \A i \in DOMAIN queue : queue[i] # wh[w]
    /\ \A v, w \in Workers : wh[v] # Null /\ wh[v] = wh[w] => v = w

\* No party keeps a pointer to a handler that destroy() has deleted.
NoUseAfterFree ==
    /\ registered \subseteq alive
    /\ rh # Null => rh \in alive
    /\ \A i \in DOMAIN queue : Queued(i) => queue[i] \in alive
    /\ \A w \in Workers : wh[w] # Null => wh[w] \in alive

\* When stop() counted a thread at all and returns, every connection that was
\* handed to the pool before has been served and left the pool: the nulls
\* queue up behind it.  (With no thread counted stop() returns at once, and
\* whatever is queued is left to threads that were still starting.)
StopDrains ==
    rpc = "closed" /\ snapshot > 0 =>
        /\ \A i \in DOMAIN queue : ~Queued(i)
        /\ \A w \in Workers : wh[w] = Null

\* The idle check of handle_timeout runs ("check for timeout every 30
\* seconds", proc_handler::open) without bringing the process down.
TimerSurvives == ~crashed

-----------------------------------------------------------------------------
(* Implementation of the service the dispatcher promises.                  *)

\* The connection state ProcService sees.
connState ==
    [h \in Handlers |->
        CASE h \notin alive               -> "none"
          [] upcall = "open" /\ rh = h    -> "new"
          [] h \in registered             -> "waiting"
          [] OTHER                        -> "busy"]

Service == INSTANCE ProcService WITH conn <- connState

\* Every step of the pool is a step of the service or invisible to clients.
ImplementsService == Service!ServiceSpec

-----------------------------------------------------------------------------
(* Liveness.                                                               *)

\* The reactor's select() reports every readable handle, each in its turn; its
\* token goes to the thread that asks for it; no thread is starved by the
\* operating system; and recv() gives up after 50 seconds.
Fairness ==
    /\ WF_vars(~crashed /\ (OpenDone \/ OpenFails))
    /\ WF_vars(~crashed /\ Enqueue)
    /\ WF_vars(~crashed /\ StopEnqueue)
    /\ WF_vars(~crashed /\ (StopPoll \/ StopReturn))
    /\ WF_vars(~crashed /\ CancelTimeout)
    /\ \A h \in Handlers : SF_vars(~crashed /\ HandleInput(h))
    /\ \A w \in Workers :
          /\ WF_vars(~crashed /\ (SvcBegin(w) \/ SvcCancelled(w)))
          /\ WF_vars(~crashed /\ (GetHandler(w) \/ GetNull(w)))
          /\ WF_vars(~crashed /\ (ProcessPartial(w) \/ ProcessRequest(w)
                                     \/ ProcessNothing(w) \/ ProcessCtrl(w)))
          /\ SF_vars(~crashed /\ (Reregister(w) \/ HandleClose(w)))

FairSpec == Spec /\ Fairness

Born == {w \in Workers : wpc[w] \in Counting \union {"exited"}}

\* A complete request is read sooner or later, however many clients closed
\* their end (their handlers go round for ever) or stall in mid-request, as
\* long as one pool thread exists and the server runs undisturbed.
RequestServed ==
    \A h \in Handlers :
        (/\ h \in alive /\ input[h] = "request"
         /\ \E w \in Workers : wpc[w] \in Counting)
        ~> (input[h] # "request" \/ crashed \/ cancelled \/ rpc # "loop")

\* stop() returns when it runs outside handle_events and has counted every
\* thread that runs, whatever the clients still connected do.
StopTerminates ==
    (rpc = "stopping" /\ ~token /\ snapshot = Cardinality(Born)
        /\ \A w \in Workers : wpc[w] # "spawned")
    ~> rpc = "closed"
=============================================================================
