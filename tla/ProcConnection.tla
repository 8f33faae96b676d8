--------------------------- MODULE ProcConnection ---------------------------
(***************************************************************************)
(* proc_acceptor and proc_handler under thread_per_connection_, the        *)
(* concurrency HA_proc_ace_acceptor asks for: proc_handler::open spawns a  *)
(* detached thread that serves the connection in svc() and deletes the     *)
(* handler when svc() returns.  The reactor thread is still inside open()  *)
(* when that thread starts to run.                                         *)
(***************************************************************************)
EXTENDS Naturals

CONSTANTS
    Handlers,           \* addresses a proc_handler can be allocated at
    Null,               \* the null pointer
    FragmentLimit       \* fragments that fit in constCommandBufferLength bytes

ASSUME ConnectionAssumption ==
    /\ Null \notin Handlers
    /\ FragmentLimit \in Nat

VARIABLES
    alive,              \* handlers that exist
    input,              \* what each client has written, unread
    cpc,                \* where each connection's thread is in svc()
    frags,              \* fragments of a request process() has gathered
    rpc,                \* what the reactor thread does
    upcall,             \* how far the reactor thread is in open(), if at all
    rh,                 \* the handler of that open()
    crashed             \* has the process died of SIGSEGV?

reactorVars == <<rpc, upcall, rh>>
vars == <<alive, input, cpc, frags, rpc, upcall, rh, crashed>>

Inputs == {"quiet", "partial", "request", "ctrl", "eof"}

TypeOK ==
    /\ alive \subseteq Handlers
    /\ input \in [Handlers -> Inputs]
    /\ cpc \in [Handlers -> {"none", "recv", "process", "perform", "sleep", "close"}]
    /\ frags \in [Handlers -> 0 .. FragmentLimit]
    /\ rpc \in {"loop", "closed", "exited"}
    /\ upcall \in {"none", "open", "activated"}
    /\ rh \in Handlers \union {Null}
    /\ crashed \in BOOLEAN

Init ==
    /\ alive = {}
    /\ input = [h \in Handlers |-> "quiet"]
    /\ cpc = [h \in Handlers |-> "none"]
    /\ frags = [h \in Handlers |-> 0]
    /\ rpc = "loop" /\ upcall = "none" /\ rh = Null
    /\ crashed = FALSE

-----------------------------------------------------------------------------
(* The reactor thread.                                                     *)

Selecting == rpc = "loop" /\ upcall = "none"

\* A client connects: the acceptor allocates a handler and calls open(), which
\* greets the client and schedules the idle timer.
Accept(h) ==
    /\ Selecting
    /\ h \notin alive
    /\ alive' = alive \union {h}
    /\ upcall' = "open" /\ rh' = h
    /\ UNCHANGED <<input, cpc, frags, rpc, crashed>>

\* activate( THR_DETACHED ): the thread runs from here on, beside open().
Activate ==
    /\ rpc = "loop" /\ upcall = "open"
    /\ cpc' = [cpc EXCEPT ![rh] = "recv"]
    /\ frags' = [frags EXCEPT ![rh] = 0]
    /\ upcall' = "activated"
    /\ UNCHANGED <<alive, input, rpc, rh, crashed>>

\* A slip: a handler without a thread is left as it is.
ActivateFailsForgotten ==
    /\ rpc = "loop" /\ upcall = "open"
    /\ upcall' = "none" /\ rh' = Null
    /\ UNCHANGED <<alive, input, cpc, frags, rpc, crashed>>

\* activate() returns -1 and so does open(): ACE calls close(), which destroys
\* the handler.
ActivateFails ==
    /\ rpc = "loop" /\ upcall = "open"
    /\ alive' = alive \ {rh}
    /\ input' = [input EXCEPT ![rh] = "quiet"]
    /\ upcall' = "none" /\ rh' = Null
    /\ UNCHANGED <<cpc, frags, rpc, crashed>>

\* activate() has set down the new thread in the task, and open() returns.
OpenDone ==
    /\ rpc = "loop" /\ upcall = "activated"
    /\ upcall' = "none" /\ rh' = Null
    /\ UNCHANGED <<alive, input, cpc, frags, rpc, crashed>>

\* handle_timeout reads through the act of the timer, a null pointer.
HandleTimeout(h) ==
    /\ Selecting
    /\ h \in alive
    /\ crashed' = TRUE
    /\ UNCHANGED <<alive, input, cpc, frags, reactorVars>>

\* HA_proc_ace_acceptor::fini, called by a signal handler wherever the reactor
\* thread is: proc_acceptor::close has no pool to stop and stops listening.
Fini ==
    /\ rpc = "loop"
    /\ rpc' = "closed"
    /\ UNCHANGED <<alive, input, cpc, frags, upcall, rh, crashed>>

\* The signal handler ends with _exit( 0 ); nobody waits for the threads.
Exit ==
    /\ rpc = "closed"
    /\ rpc' = "exited"
    /\ UNCHANGED <<alive, input, cpc, frags, upcall, rh, crashed>>

-----------------------------------------------------------------------------
(* The thread of a connection: proc_handler::svc.                          *)

Goto(h, label) == cpc' = [cpc EXCEPT ![h] = label]

\* The select() of process()'s first recv() finds something to read.
Readable(h) ==
    /\ cpc[h] = "recv"
    /\ input[h] # "quiet"
    /\ Goto(h, "process")
    /\ UNCHANGED <<alive, input, frags, reactorVars, crashed>>

\* It finds nothing in 50 seconds: process() returns 0.
RecvTimeout(h) ==
    /\ cpc[h] = "recv"
    /\ input[h] = "quiet"
    /\ Goto(h, "sleep")
    /\ UNCHANGED <<alive, input, frags, reactorVars, crashed>>

\* A slip: no limit to what process() gathers while it waits for a line end.
ProcessPartialUnbounded(h) ==
    /\ cpc[h] = "process"
    /\ input[h] = "partial"
    /\ frags' = [frags EXCEPT ![h] = @ + 1]
    /\ input' = [input EXCEPT ![h] = "quiet"]
    /\ UNCHANGED <<alive, cpc, reactorVars, crashed>>

\* process() reads a fragment with no line end and keeps reading, as long as
\* what it gathered fits in constCommandBufferLength bytes.
ProcessPartial(h) ==
    /\ cpc[h] = "process"
    /\ input[h] = "partial"
    /\ frags[h] < FragmentLimit
    /\ frags' = [frags EXCEPT ![h] = @ + 1]
    /\ input' = [input EXCEPT ![h] = "quiet"]
    /\ UNCHANGED <<alive, cpc, reactorVars, crashed>>

\* A slip: a request that is too long is never complete.
CompleteIfEnded(h) == input[h] = "request"

\* A request is complete: a line end arrived, or too much without one.
Complete(h) ==
    \/ input[h] = "request"
    \/ input[h] = "partial" /\ frags[h] = FragmentLimit

\* process() reads the end of a request ...
ProcessRequest(h) ==
    /\ cpc[h] = "process"
    /\ Complete(h)
    /\ input' = [input EXCEPT ![h] = "quiet"]
    /\ Goto(h, "perform")
    /\ UNCHANGED <<alive, frags, reactorVars, crashed>>

\* ... performs and answers it and returns 0.
Perform(h) ==
    /\ cpc[h] = "perform"
    /\ Goto(h, "sleep")
    /\ UNCHANGED <<alive, input, frags, reactorVars, crashed>>

\* A slip: a timeout in mid-request or the end of the stream ends svc().
ProcessNothingEndsSvc(h) ==
    /\ cpc[h] = "process"
    /\ input[h] \in {"quiet", "eof"}
    /\ Goto(h, "close")
    /\ UNCHANGED <<alive, input, frags, reactorVars, crashed>>

\* recv() ends the loop with no request: 50 seconds passed, or the client
\* closed its end.  process() returns 0 in both cases.
ProcessNothing(h) ==
    /\ cpc[h] = "process"
    /\ input[h] \in {"quiet", "eof"}
    /\ Goto(h, "sleep")
    /\ UNCHANGED <<alive, input, frags, reactorVars, crashed>>

\* process() finds a ctrl-c or ctrl-z and returns -1, and so does svc().
ProcessCtrl(h) ==
    /\ cpc[h] = "process"
    /\ input[h] = "ctrl"
    /\ Goto(h, "close")
    /\ UNCHANGED <<alive, input, frags, reactorVars, crashed>>

\* svc() sleeps for 50 ms and calls process() again, with an empty stream.
SleepDone(h) ==
    /\ cpc[h] = "sleep"
    /\ Goto(h, "recv")
    /\ frags' = [frags EXCEPT ![h] = 0]
    /\ UNCHANGED <<alive, input, reactorVars, crashed>>

\* ACE_Token of the reactor: held during upcalls and by a signal handler that
\* runs inside handle_events, given up in select().
TokenFree == Selecting

\* A slip: the handler is deleted without asking the reactor to remove it.
CloseUntold(h) ==
    /\ cpc[h] = "close"
    /\ alive' = alive \ {h}
    /\ input' = [input EXCEPT ![h] = "quiet"]
    /\ Goto(h, "none")
    /\ UNCHANGED <<frags, reactorVars, crashed>>

\* svc() has returned: ACE calls close() -> destroy(), which asks the reactor
\* to remove the handler, though it was never registered, and deletes it.
Close(h) ==
    /\ cpc[h] = "close"
    /\ TokenFree
    /\ alive' = alive \ {h}
    /\ input' = [input EXCEPT ![h] = "quiet"]
    /\ Goto(h, "none")
    /\ UNCHANGED <<frags, reactorVars, crashed>>

-----------------------------------------------------------------------------
\* A client writes to its connection or shuts it down (external).
Client(h, i) ==
    /\ h \in alive
    /\ input[h] = "quiet"
    /\ i # "quiet"
    /\ input' = [input EXCEPT ![h] = i]
    /\ UNCHANGED <<alive, cpc, frags, reactorVars, crashed>>

ReactorStep ==
    \/ \E h \in Handlers : Accept(h) \/ HandleTimeout(h)
    \/ Activate \/ ActivateFails \/ OpenDone \/ Fini \/ Exit

ThreadStep(h) ==
    \/ Readable(h) \/ RecvTimeout(h)
    \/ ProcessPartial(h) \/ ProcessRequest(h) \/ ProcessNothing(h) \/ ProcessCtrl(h)
    \/ Perform(h) \/ SleepDone(h) \/ Close(h)

Running == ~crashed /\ rpc # "exited"

Next ==
    /\ Running
    /\ \/ ReactorStep
       \/ \E h \in Handlers : ThreadStep(h) \/ \E i \in Inputs : Client(h, i)

Spec == Init /\ [][Next]_vars

-----------------------------------------------------------------------------
(* Safety.                                                                 *)

\* The handler whose open() the reactor thread is in exists, although the
\* thread that open() spawned may have read ctrl-c already: activate() still
\* writes to the handler.  What keeps the thread from deleting it is the token
\* that destroy()'s remove_handler waits for.
OpenOutlived == rh # Null => rh \in alive

\* A handler exists exactly as long as its thread, but for the time open()
\* needs to spawn it: none is leaked, and no thread runs on a deleted one.
OneThreadEach ==
    alive = {h \in Handlers : cpc[h] # "none" \/ (rh = h /\ upcall = "open")}

-----------------------------------------------------------------------------
(* Implementation of the service the dispatcher promises.                  *)

\* The connection state ProcService sees: a thread in its first recv(), or
\* asleep between two, waits for its client.
connState ==
    [h \in Handlers |->
        IF h \notin alive THEN "none"
        ELSE IF cpc[h] = "none" THEN "new"
        ELSE IF cpc[h] \in {"recv", "sleep"} THEN "waiting" ELSE "busy"]

Service == INSTANCE ProcService WITH conn <- connState

\* Every step of a connection's thread is a step of the service or invisible
\* to clients.
ImplementsService == Service!ServiceSpec

-----------------------------------------------------------------------------
(* Liveness.                                                               *)

\* No thread is starved by the operating system, recv() gives up after 50
\* seconds, and the reactor's token goes to the thread that asks for it.
Fairness ==
    /\ WF_vars(Running /\ (Activate \/ ActivateFails \/ OpenDone))
    /\ \A h \in Handlers :
          /\ WF_vars(Running /\ (Readable(h) \/ RecvTimeout(h) \/ Perform(h) \/ SleepDone(h)
                                   \/ ProcessPartial(h) \/ ProcessRequest(h)
                                   \/ ProcessNothing(h) \/ ProcessCtrl(h)))
          /\ SF_vars(Running /\ Close(h))

FairSpec == Spec /\ Fairness

\* Whatever a client sends is taken up in the end, and ctrl-c ends the
\* connection, whatever the other connections do, unless the server ends.
InputTaken ==
    \A h \in Handlers :
        (h \in alive /\ input[h] \in {"partial", "request", "ctrl"})
        ~> (input[h] = "quiet" \/ ~Running \/ rpc # "loop")
=============================================================================
