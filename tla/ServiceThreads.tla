--------------------------- MODULE ServiceThreads ---------------------------
(***************************************************************************)
(* The two services of the coordinator that have a thread of their own:    *)
(* the watched file system (ccifs/HA_ccifs_dynamic.cpp), whose thread      *)
(* reports what inotify tells it, and the embedded Python server           *)
(* (tornado/bootstrap/HA_python_bootstrap.cpp), whose thread runs a script.*)
(* ACE_Service_Config makes them, calls init() and fini(), and deletes     *)
(* them, one by one when it is reconfigured or all of them from            *)
(* bootstrap_signal_handler, until the script takes the signals away from  *)
(* it; fini() asks for a cancellation that the threads never look for.     *)
(***************************************************************************)
EXTENDS Naturals, Sequences

CONSTANTS
    MaxEvents,          \* bound on the events in the watched directory
    BufferEvents,       \* events that fit in buf
    MaxQueued           \* fs.inotify.max_queued_events

ASSUME ServiceAssumption ==
    MaxEvents \in Nat /\ BufferEvents \in Nat \ {0} /\ MaxQueued \in Nat \ {0}

Services == {"ccifs", "python"}
Signals == {"SIGINT", "SIGTERM"}

VARIABLES
    object,             \* each service's object
    thread,             \* where each service's thread is
    running,            \* m_b_running, of the watched file system
    queue,              \* events inotify holds: the number of the file created, or 0
    buf,                \* events read and not yet displayed
    reported,           \* the files the thread reported
    handler,            \* whose handler each signal has
    stopping,           \* did bootstrap_signal_handler get to fini_svcs?
    ended,              \* how the process ended, if it did
    wild,               \* did a thread run on in a service that is gone?
    created,            \* files created since the watch was added (history)
    lost,               \* those whose creation inotify had no room for (history)
    events              \* number of events (history)

vars == <<object, thread, running, queue, buf, reported, handler, stopping, ended, wild,
          created, lost, events>>
history == <<created, lost, events>>
watch == <<running, queue, buf, reported, history>>
process == <<handler, stopping, ended, wild>>

CcifsLabels == {"start", "watch", "check", "read", "display"}
PythonLabels == {"start", "setenv", "initialize", "import", "validate", "open", "signal", "serve"}

TypeOK ==
    /\ object \in [Services -> {"none", "init", "open", "cancel", "finished", "deleted", "left"}]
    /\ thread \in [Services -> CcifsLabels \union PythonLabels \union {"none", "gone"}]
    /\ running \in BOOLEAN
    /\ queue \in Seq(0 .. MaxEvents)
    /\ buf \in Seq(0 .. MaxEvents) /\ Len(buf) <= BufferEvents
    /\ reported \in Seq(1 .. MaxEvents)
    /\ handler \in [Signals -> {"bootstrap", "script"}]
    /\ stopping \in BOOLEAN
    /\ ended \in {"no", "shutdown", "sys_exit"}
    /\ wild \in BOOLEAN
    /\ created \in 0 .. MaxEvents /\ lost \subseteq 1 .. created /\ events \in 0 .. MaxEvents

Init ==
    /\ object = [s \in Services |-> "none"]
    /\ thread = [s \in Services |-> "none"]
    /\ running = TRUE
    /\ queue = <<>> /\ buf = <<>> /\ reported = <<>>
    /\ handler = [sig \in Signals |-> "bootstrap"] /\ stopping = FALSE
    /\ ended = "no" /\ wild = FALSE
    /\ created = 0 /\ lost = {} /\ events = 0

-----------------------------------------------------------------------------
(* The main thread: ACE_Service_Config opens and finalises the services.   *)

Object(s, from, to) == object[s] = from /\ object' = [object EXCEPT ![s] = to]

\* The factory makes the object, init() begins.
Make(s) ==
    /\ ~stopping
    /\ Object(s, "none", "init")
    /\ UNCHANGED <<thread, watch, process>>

\* Options or configuration are not as expected: -1, and the service is dropped.
InitFails(s) ==
    /\ ~stopping
    /\ Object(s, "init", "deleted")
    /\ UNCHANGED <<thread, watch, process>>

\* spawn: its -1 counts as true, init() returns 0 with or without a thread.
Spawn(s) ==
    /\ ~stopping
    /\ Object(s, "init", "open")
    /\ thread' \in {thread, [thread EXCEPT ![s] = "start"]}
    /\ UNCHANGED <<watch, process>>

\* A slip: the flag is left as it is.
FiniForgetsFlag(s) ==
    /\ Object(s, "open", "cancel")
    /\ UNCHANGED <<thread, watch, process>>

\* fini() begins: the watched file system clears its flag.
Fini(s) ==
    /\ Object(s, "open", "cancel")
    /\ running' = IF s = "ccifs" THEN FALSE ELSE running
    /\ UNCHANGED <<thread, queue, buf, reported, history, process>>

\* A slip: fini() joins the thread.
FiniJoins(s) ==
    /\ Object(s, "cancel", "finished")
    /\ thread[s] \in {"none", "gone"}
    /\ UNCHANGED <<thread, watch, process>>

\* cancel and testcancel, of m_thread_id, which is 0 without a thread: nothing is waited for.
FiniCancels(s) ==
    /\ Object(s, "cancel", "finished")
    /\ UNCHANGED <<thread, watch, process>>

\* fini() returned: the object is deleted and its library closed.
Delete(s) ==
    /\ Object(s, "finished", "deleted")
    /\ UNCHANGED <<thread, watch, process>>

\* SIGINT or SIGTERM: bootstrap_signal_handler comes to fini_svcs, on top of
\* what the main thread does. A service whose fini() it interrupted is left as it
\* is (an open one: before its first line), for ACE has noted the call.
Signal(sig) ==
    /\ handler[sig] = "bootstrap"
    /\ stopping' = TRUE
    /\ \/ UNCHANGED object
       \/ \E s \in Services, from \in {"open", "cancel", "finished"} : Object(s, from, "left")
    /\ UNCHANGED <<thread, watch, handler, ended, wild>>

\* _exit, when the services are down; one whose init() was interrupted is not
\* in the repository.
Exit ==
    /\ stopping
    /\ \A s \in Services : object[s] \in {"none", "init", "deleted", "left"}
    /\ ended' = "shutdown"
    /\ UNCHANGED <<object, thread, watch, handler, stopping, wild>>

-----------------------------------------------------------------------------
(* The threads.                                                            *)

\* A thread runs its service's code on its service's object.
Thread(s, from, to) ==
    /\ thread[s] = from /\ object[s] # "deleted"
    /\ thread' = [thread EXCEPT ![s] = to]

\* Its code and its object are gone: a thread that is not blocked in a call runs into that.
RunsWild(s) ==
    /\ object[s] = "deleted" /\ thread[s] \notin {"none", "gone"}
    /\ thread[s] = "read" => queue # <<>>
    /\ wild' = TRUE
    /\ UNCHANGED <<object, thread, watch, handler, stopping, ended>>

\* inotify_init.
NotifyInit ==
    /\ Thread("ccifs", "start", "watch")
    /\ UNCHANGED <<object, watch, process>>

\* inotify_add_watch: what happens in the directory from now on is queued.
AddWatch ==
    /\ Thread("ccifs", "watch", "check")
    /\ UNCHANGED <<object, watch, process>>

\* inotify cannot be had, the directory does not exist, or read() fails (a
\* signal that interrupts it is enough): the thread returns.
NotifyFails ==
    /\ \E from \in {"start", "watch", "read"} : Thread("ccifs", from, "gone")
    /\ UNCHANGED <<object, watch, process>>

\* while( running() )
CheckRunning ==
    /\ Thread("ccifs", "check", IF running THEN "read" ELSE "gone")
    /\ UNCHANGED <<object, watch, process>>

Least(m, n) == IF m <= n THEN m ELSE n

\* A slip: the buffer's length is not given to read().
ReadAll ==
    /\ Thread("ccifs", "read", "display")
    /\ queue # <<>>
    /\ buf' = queue /\ queue' = <<>>
    /\ UNCHANGED <<object, running, reported, history, process>>

\* read() blocks until there are events, and returns as many as the buffer holds.
Read ==
    /\ Thread("ccifs", "read", "display")
    /\ queue # <<>>
    /\ \E n \in 1 .. Least(BufferEvents, Len(queue)) :
          /\ buf' = SubSeq(queue, 1, n)
          /\ queue' = SubSeq(queue, n + 1, Len(queue))
    /\ UNCHANGED <<object, running, reported, history, process>>

\* A slip: only the first event of the buffer is looked at.
DisplayFirst ==
    /\ Thread("ccifs", "display", "check")
    /\ reported' = IF buf[1] = 0 THEN reported ELSE Append(reported, buf[1])
    /\ buf' = <<>>
    /\ UNCHANGED <<object, running, queue, history, process>>

\* display_inotify_event, of the next event in the buffer: a creation is reported.
Display ==
    /\ Thread("ccifs", "display", IF Len(buf) > 1 THEN "display" ELSE "check")
    /\ reported' = IF Head(buf) = 0 THEN reported ELSE Append(reported, Head(buf))
    /\ buf' = Tail(buf)
    /\ UNCHANGED <<object, running, queue, history, process>>

\* chdir; set_py_env; Py_Initialize; the modules; validate_entry_point, which a
\* script that does not exist passes.
PythonProceeds ==
    /\ \/ Thread("python", "start", "setenv") \/ Thread("python", "setenv", "initialize")
       \/ Thread("python", "initialize", "import") \/ Thread("python", "import", "validate")
       \/ Thread("python", "validate", "open")
    /\ UNCHANGED <<object, watch, process>>

\* No such directory, an exception, a module that is not there, a script that does not open.
PythonFails ==
    /\ \E from \in {"start", "initialize", "import", "open"} : Thread("python", from, "gone")
    /\ UNCHANGED <<object, watch, process>>

\* open_entry_point: PyRun_SimpleFile runs the script.  The thread that
\* initialized the interpreter is its main thread: signal.signal() replaces the
\* handlers of the process, SIGTERM's and then SIGINT's ...
PythonSignal ==
    /\ \/ Thread("python", "open", "signal") /\ handler' = [handler EXCEPT !["SIGTERM"] = "script"]
       \/ Thread("python", "signal", "serve") /\ handler' = [handler EXCEPT !["SIGINT"] = "script"]
    /\ UNCHANGED <<object, watch, stopping, ended, wild>>

\* ... by ones that print and return.  The script's loop may fail, ...
PythonReturns ==
    /\ Thread("python", "serve", "gone")
    /\ UNCHANGED <<object, watch, process>>

\* ... or raise SystemExit: "this exits with the right code if sys exit".
PythonExits ==
    /\ thread["python"] = "serve" /\ object["python"] # "deleted"
    /\ ended' = "sys_exit"
    /\ UNCHANGED <<object, thread, watch, handler, stopping, wild>>

-----------------------------------------------------------------------------
\* Something happens in the directory; only what is watched is queued.
Watched == thread["ccifs"] \in {"check", "read", "display"}

FileEvent ==
    /\ Watched /\ events < MaxEvents
    /\ events' = events + 1
    /\ Len(queue) < MaxQueued
    /\ \/ queue' = Append(queue, 0) /\ UNCHANGED created
       \/ created' = created + 1 /\ queue' = Append(queue, created')
    /\ UNCHANGED <<object, thread, running, buf, reported, lost, process>>

\* The queue is full: the event is dropped, and one that says so (IN_Q_OVERFLOW)
\* queued unless there is one, which the thread takes for any that is no creation.
FileEventDropped ==
    /\ Watched /\ events < MaxEvents
    /\ events' = events + 1
    /\ Len(queue) >= MaxQueued
    /\ \/ UNCHANGED queue
       \/ Len(queue) = MaxQueued /\ queue' = Append(queue, 0)
    /\ \/ UNCHANGED <<created, lost>>
       \/ created' = created + 1 /\ lost' = lost \union {created'}
    /\ UNCHANGED <<object, thread, running, buf, reported, process>>

CcifsStep == NotifyInit \/ AddWatch \/ NotifyFails \/ CheckRunning \/ Read \/ Display
PythonStep == PythonProceeds \/ PythonFails \/ PythonSignal \/ PythonReturns \/ PythonExits
ThreadStep(s) ==
    \/ s = "ccifs" /\ CcifsStep
    \/ s = "python" /\ PythonStep
    \/ RunsWild(s)
Finalise(s) == FiniCancels(s) \/ Delete(s)

Next ==
    /\ ended = "no" /\ ~wild
    /\ \/ \E s \in Services : \/ Make(s) \/ InitFails(s) \/ Spawn(s) \/ Fini(s)
                              \/ Finalise(s) \/ ThreadStep(s)
       \/ \E sig \in Signals : Signal(sig)
       \/ FileEvent \/ FileEventDropped \/ Exit

Spec == Init /\ [][Next]_vars

\* A fini() that is called goes on, so does bootstrap_signal_handler, and a
\* thread that is not blocked.
FairSpec ==
    /\ Spec
    /\ \A s \in Services : WF_vars(Next /\ Finalise(s))
    /\ WF_vars(Next /\ stopping /\ ((\E s \in Services : Fini(s)) \/ Exit))
    /\ WF_vars(Next /\ (CcifsStep \/ RunsWild("ccifs")))

-----------------------------------------------------------------------------
Down == ended # "no" \/ wild

\* The given files, each of them once and in order, with other events between them.
InOrder(s, files) ==
    /\ {s[i] : i \in DOMAIN s} \ {0} = files
    /\ \A i, j \in DOMAIN s : i < j /\ 0 \notin {s[i], s[j]} => s[i] < s[j]

\* The thread reports the creations that inotify had room for, in order, none of
\* them dropped or twice, however reads and events interleave and whenever the
\* service is taken down: what is not reported is still to be read, or was lost
\* before; and outside its display all that the thread read is reported, also when
\* it is gone. (Nobody reads then what inotify still holds, and nobody is told of
\* what was lost.)
CreationsReported ==
    /\ InOrder(reported \o buf \o queue, (1 .. created) \ lost)
    /\ thread["ccifs"] # "display" => buf = <<>>

\* A signal that bootstrap_signal_handler is entered for ends the process: no
\* fini() waits for what may never come, also if the threads are blocked in
\* read(), serve, or never were.  (A signal the script has taken ends nothing.)
ShutdownEnds == stopping ~> Down

\* The next event gets the thread of a service that is taken down out of its
\* loop, one way or the other.
StopsOnEvent ==
    (object["ccifs"] \in {"cancel", "finished", "deleted"} /\ queue # <<>>)
      ~> (thread["ccifs"] = "gone" \/ Down)
=============================================================================
