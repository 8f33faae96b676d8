# Verification of cci-daemon

TLA+ models of the concurrent and stateful parts of cci-daemon, TLC
configurations that check them on small instances, and TLAPS proofs of the
results that hold for every instance. Source paths are relative to the
repository's root; the main tree is `cci_daemon/src` (abbreviated `…` below) with
its headers in `include`.

`PROJECT.json` is the machine-readable companion of this file: components, runs,
mutants, the map from definitions to source lines, findings, hazards and theorems.

## 1. The system

cci-daemon is a Unix daemon that loads a "kernel" library, brings up a stack of
dynamically configured ACE services and serves line-oriented TCP clients.

```
 main (core/cci_daemon_main.cpp)
   │ daemonize_()                         core/cci_daemonize.cpp
   ▼
 cci_daemon_facade                        core/cci_daemon.cpp
   ├─ daemon_default_exec()               log, config, pid file, SIGHUP/SIGTERM, sleep loop
   └─ bootstrap_coordinator()             dlopen kernel, map_kernel, dlopen bootstrap library
        ▼
 bootstrap_default_coordinator()          coordinator/cci_daemon_bootstrap.cpp
   │ signal handler, svc.conf, reactor and proactor loops
   ├─ HA_dispatcher → proc_acceptor → proc_handler / proc_thread_pool     procs/
   ├─ HA_manager    → auth_mgr_*  (copy of the former)                     manager/
   ├─ HA_ccifs      → inotify thread                                       ccifs/
   └─ HA_python     → interpreter thread                                   tornado/
 cci_daemon_kernel → plugins → publish/subscribe list                      kernel/, plugins/
```

### Inventory

| Component | State it keeps | Operations | What is hard | What makes it correct |
|---|---|---|---|---|
| **Thread pool dispatch** (`procs/proc_ace_acceptor.cpp`, `proc_ace_handler.cpp`, `proc_ace_thread_pool.cpp`) | live handlers, the reactor's registrations, the message queue, `active_threads_` | accept/`open`, `handle_input` on the reactor and on a pool thread, `enqueue`, `svc`, `handle_close`, `handle_timeout`, `start`/`stop` | a handler is shared between reactor, queue and threads without a lock; `stop` reads a counter once; the reactor's token; allocation failures between two steps | one owner per handler, no use after delete, a stop that drains, requests are served |
| **Line protocol** (`proc_ace_handler.cpp` `process`, `perform`, `parse_command`) | read buffer, text so far, authentication state, last token | `recv`, parse, `on_login`, answer | TCP pieces and timeouts in mid-request, a buffer that is only partly cleared, index arithmetic at 0 | the client's own request is executed; a login is granted and told once; answers match requests |
| **Thread per connection** (same files, `thread_per_connection_`, which the deployed dispatcher service asks for) | one thread per handler | `open` → `activate`, `svc`, `close`, the service's `fini` | the thread runs, and may delete the handler, while `open` is still on the reactor's stack | a handler outlives its users, and none is left without a thread |
| **Authentication manager** (`manager/auth_mgr_*`) | a copy of the dispatcher on another port, commented out in `config/svc.conf`; a current command in place of an authentication state | as the dispatcher; `on_login` notes the command and says nothing | as the dispatcher | errors are answered under their own token, logins executed |
| **Daemonizing** (`core/cci_daemonize.cpp` `daemonize_`) | stage, session, process group, descriptors, cwd, mask | two forks, `setsid`, `umask`, `chdir`, close, reopen | the code runs in up to three processes; any call can fail halfway | one process goes on, detached and with clean descriptors; the rest exit; it ends |
| **Default daemon procedure** (`core/cci_daemon.cpp` `daemon_default_exec`) | pid file, its lock, `hup_received`, `unslept`, the configuration | `open_log`, `read_config_file`, `write_pid`, `lock_region`, signal handlers, sleep loop | several daemons on one machine; signals between any two steps; death between lock, truncation and write | the pid file names the living daemon; no SIGHUP is lost; no busy loop |
| **Coordinator** (`coordinator/cci_daemon_bootstrap.cpp`, `HA_dispatcher_protocol_dynamic.cpp`) | the facade pointer, the services, the event loops | bring-up from `svc.conf`, service `init`/`fini`, the terminating signal handler | signal handlers nest; a service is torn down while its thread runs | each object is destroyed once, after its last use; shutdown ends |
| **Kernel loading** (`core/cci_daemon.cpp` `bootstrap_coordinator`, `map_kernel`, destructor) | `kernel_context` | `load_lib`, `map_kernel`, `unmake_kernel` | the context is used by the destructor whatever stage loading reached | function pointers are set before they are called |
| **Kernel and plugins** (`kernel/`, `plugins/ps_kafka_facade.cpp`, `include/cci_pub_and_sub.h`) | the plugin dictionary, the list of publish/subscribe objects, the singleton | `load_plugin`, `unload_plugin`, `open_broker`, `instance`, `dispose_instance` | unloading deletes an object whose pointer stays in the list | the list holds live objects of loaded plugins only |
| **Watched file system** (`ccifs/HA_ccifs_dynamic.cpp`) | the running flag, the inotify descriptor | `init` (spawn), `ccifs_inotify`, `fini` (cancel) | cancellation is cooperative, the thread blocks in `read` | the thread ends before its object does |
| **Embedded Python** (`tornado/`) | an interpreter in a thread | `init` (spawn), the script, `fini` (cancel) | the script replaces the process's signal handlers, changes its directory and can end it | a shutdown that has begun ends |
| **Policy-based daemon** (`include/cci_meta_daemon.h`, `meta-core/`) | a second assembly of the daemon from policies, over the free functions of `cci_daemonize.cpp` | streams, forks, environment, procedure | no result is looked at | one process performs, detached and with clean descriptors, whatever failed |
| **Utilities, harnesses, configuration, vendored JSON** | — | — | — | — |

Interactions: the reactor thread and the pool threads share handlers through the
ACE message queue; the facade is reachable from the coordinator's signal handler
through a global pointer; the daemons of one machine meet at the pid file; the
operator reaches them by signals; clients reach a handler through its socket;
plugins and kernel meet in the publish/subscribe list; the script run by the
embedded interpreter takes the coordinator's signals away.

The hazards — what can go wrong here that a test would hardly reach — are listed
with their lines in `PROJECT.json`.

## 2. Modules

| Module | Models | Depends on |
|---|---|---|
| `ProcService` | what the dispatcher promises each client (abstract) | |
| `ProcThreadPool` | acceptor, handler and pool under `thread_pool_` | refines `ProcService` |
| `ProcConnection` | acceptor and handler under `thread_per_connection_` | refines `ProcService` |
| `ProcProtocol` | one connection's byte stream, parser, login and answers | |
| `Daemonize` | `daemonize_` in three processes, and main's use of the result | |
| `DaemonExec` | `daemon_default_exec` in several processes | |
| `AuthProtocol` | the authentication manager's protocol | `EXTENDS ProcProtocol` |
| `KernelPlugins` | kernel singleton, plugins, publish/subscribe list, libraries | |
| `Coordinator` | main, facade, kernel loading, bootstrap and the terminating signal handler | |
| `ServiceThreads` | the inotify thread and the interpreter's thread, and their shutdown | |
| `MetaDaemon` | the policy-based daemon | `EXTENDS Daemonize` |
| `…Proofs` | theorems about the module of that name; `ProcProtocolProofs` about `AuthProtocol` too, `DaemonizeProofs` about `MetaDaemon` too | `EXTENDS` it |
| `MC…` | constants and symmetry for TLC | `EXTENDS` it |

In each module the operators introduced by "A slip:" are deliberately wrong
variants of the definition after them. They are not part of any specification;
substituting one must break a property, which is how the properties are shown to
have teeth (`mutants` in `PROJECT.json`).

### ProcThreadPool and ProcService

*State.* `alive` is the set of allocated `proc_handler`s (a handler is an
address, so the same one can come back), `registered` what the reactor watches,
`queue` the ACE message queue, `active_threads_` the counter of the pool's
`counter_guard`. Per pool thread, `wpc`/`wh` say where in `svc()` it is and which
handler it holds, `frags` how much of an unfinished request `process()` has
gathered. The reactor thread is `rpc`, with the upcall it is in. `counter` is the
local of `stop()`; `snapshot` remembers what `stop()` read, for the properties.

*Actions.* `Open`, `Accept`/`OpenDone`/`OpenFails` are `proc_acceptor::open` and
`proc_handler::open`. `HandleInput` and `Enqueue` (or `EnqueueFails`) are the two
halves of `handle_input` on the creator thread; between them a signal may arrive.
`SvcBegin` … `GetNull` are `svc()`; `Process…` is `process()` by outcome;
`Reregister` and `HandleClose` are what follows it, and need the reactor's token.
`StopBegin` … `StopReturn` are `stop()`; `CancelAll` … are the signal handler of
`proc_ace_harness.cpp`. `HandleTimeout` is the idle timer, which reads through a
null pointer and ends the process (`crashed`).

ACE itself is external: the reactor dispatches one upcall at a time and holds a
token meanwhile, which `register_handler` and `remove_handler` from other threads
need; `putq` appends and `getq` blocks; `cancel_all` only marks threads.

*Abstraction.* What a socket holds is one of five cases (`Inputs`), one unread
item at a time; the bytes are the business of `ProcProtocol`.

`ProcService` has only the connection's state (`none`, `new`, `waiting`, `busy`)
and its input. The refinement mapping `connState` reads the former off `alive`,
`registered` and the reactor's upcall.

### ProcConnection

The same handler with a thread of its own. `cpc` is where that thread is in
`svc()` and `process()`, `upcall` how far the reactor thread is in `open()`:
before `activate`, or after it with the new thread already running. The thread's
last step, `Close`, deletes the handler; `destroy()` calls `remove_handler`
first, which needs the reactor's token although the handler was never
registered, and that is what keeps the handler alive until `open()` is done.
`Fini` and `Exit` are the service's `fini` and the `_exit` of the signal handler
that calls it. For `ProcService` a thread in its first `recv` or asleep is
waiting, one that has found something to read is busy.

### ProcProtocol

One connection under `thread_per_connection_`, where one thread reads and answers
(under the pool, the text is handled by the same functions). `wire` is TCP: bytes
in order, delivered in pieces of any size. `rdbuf` keeps what `memset` leaves in
it, `ostr` is the text so far. The helpers keep their names (`RtrimLast`,
`Chomp`, `Lcase`, `Parse`) and their arithmetic at position 0; a full buffer has
no terminator, so that what follows it in memory is read too (`CString` yields a
set). Bytes are reduced to those the code tells apart. The only command of the
map, `login`, is one letter, in both cases. `sends`, `got`, `pieces` and `intact`
are history variables.

### Daemonize

Processes 1, 2 and 3 are the launcher, its child and its grandchild. `dp` is the
stage variable of the loop, followed by what `main` does; `session` and `group`
are named by their leader, 0 standing for the terminal's. The stages are the
actions, and their failures actions of their own. Descriptors are `closed`,
`inherited` or on the `null` device.

### DaemonExec

Each daemon is a program counter over the statements of `daemon_default_exec`
and `write_pid`; `lock` and `content` are the pid file, which they share. A
process that dies, however, releases its lock and leaves the file. SIGHUP and
SIGTERM may come between any two statements: before the handlers are installed
they kill. A configuration is a version number; `cfg` is the version there was
when a daemon last went to read it, `want` the one there was at its last SIGHUP.

### AuthProtocol

The handler of the authentication manager began as a copy of `proc_handler`; its
acceptor, pool, service and life cycle still are the same text with other names,
and so is all that reads, collects and parses. `AuthProtocol` therefore extends
`ProcProtocol` with the one variable `command` and replaces what differs: there
is no authentication state, `on_login` only notes the command, and
`format_packet_error` is all a client ever hears. `ServerSpec` is either server,
`server` says whose: the two protocol runs check both.

### KernelPlugins

`loaded` is the dictionary, `duplexers` the list of pointers, `object` says what
is at each address (so that a freed one can be allocated again, and a stale
pointer can come to lead to somebody else's object), `refs` counts dlopen's
references. `LoadBegin`, then `LoadFails`, `RegisterFails` or `LoadPlugin`, are
`load_plugin` by how far it gets; `ClearContext` is the plugin's `clear_context`,
undefined (`wild`) if its walk through the list meets a deleted entry. Several
names can lead to one library, because `dlopen` sees files and the dictionary
sees names. The plugin's source and the server's header name the list
differently; they are taken for the same one.

### Coordinator

`mpc` walks the main thread through `main`, the facade and
`bootstrap_default_coordinator`; `async` is the proactor's thread. A signal
handler is a stack frame on a thread (`frames`): it runs on top of what it
interrupts, its own signal is kept out of that thread while it runs, and the
other one is not. A signal is for the process, so `Deliver` picks any thread that
does not block it: main, the proactor's, or the one that stands for the services'.
The thread may be inside locks then (`inside`, out of `MayHold`): the allocator's,
that of `ACE_Thread_Manager` while it spawns or leaves a thread, the reactor's
token. Since no handler ever returns, such a lock is never given back, and a line
of a handler that needs it (`Needs`) waits for ever (`Blocked`; the token lets
its owner in). `HandlerFiniWaits` is the `fini()` of a pool whose thread cannot
end before the handler does. `facade` and `g_facade_ptr` are the object and the
global that still points to it; deleting takes two steps, the destructor
(`Unmake`) and the memory (`Free`). `kernel_ref` may be garbage because
`new kernel_context` initializes nothing. The services open one after the other
(`OpenSome`, `OpenServices`), so a signal can find some of them open. `LoopEnds`
and `LoopFails` are the two ways the event loop returns; bootstrap looks at neither.

### ServiceThreads

`object` is a service's life under `ACE_Service_Config`, `thread` how far its
thread is. `queue` is what inotify holds, `buf` what `read` returned; a created
file is a number, any other event 0. inotify's queue has a limit
(`MaxQueued`): beyond it an event is dropped (`FileEventDropped`, `lost`) and one
that says so is queued, which the thread takes for any that is no creation. A
signal leaves a service whose `fini()` it interrupted as it is (`left`): ACE has
noted the call and does not repeat it. `Fini` and `FiniCancels` are the two halves
of `fini()`: the flag, and a cancellation nobody looks for. A thread that goes on
when its object and its library are gone runs wild. `handler` says whose handler
SIGTERM and SIGINT have: the script's `signal.signal` takes them one after the
other.

### MetaDaemon

The processes, `Fork`, `Exit` and `MakeSessionLeader` are `Daemonize`'s, whose
bodies `configure_init` repeats; the order of the stages, what the two descriptor
policies call, and that no result is looked at are the dispatcher's. `Signal` ends
a process of either program. `failed`
remembers what failed. `LaunchSpec` is either program, `entry` says which: the
run `daemonize` checks `Daemonize`'s properties and the dispatcher's side by side.

## 3. Runs

| Run | Instance | Properties | Shows |
|---|---|---|---|
| `pool_safety` | 2 handlers, 2 threads, limit 1, allocation may fail | `TypeOK`, `Exclusive`, `NoUseAfterFree`, `StopDrains`, `ImplementsService` | ownership, memory safety, draining and the service, with cancellation and stop at any point |
| `pool_liveness` | the same, allocation succeeds | `RequestServed`, `StopTerminates` | a complete request is read in the end; a stop outside the event loop that counted every thread returns |
| `pool_idle_timer` | as `pool_safety` | `TimerSurvives` — **violated** | the idle timer brings the process down |
| `connection` | 2 handlers, limit 2 | `TypeOK`, `OpenOutlived`, `OneThreadEach`, `ImplementsService`, `InputTaken` | who deletes a handler and when; the same service as the pool's; input is taken up, ctrl-c ends the connection |
| `protocol` | either server, 2 requests out of 10 kinds, buffer 12, limit 7, token limit 2, `int` 2 | `TypeOK`, `WholeRequests`, `LoginToldOnce`, `AnswersRequest`, `AuthAnswers` | what is executed and what the client is told; the authentication manager's logins in silence, errors under their own token |
| `protocol_read_buffer` | 1 request | `TextAsReceived` — **violated** | stale bytes of the buffer are executed |
| `daemonize` | either program, 4 descriptors, all 16 sets of flags | `TypeOK`, `Detached`, `OneCarrier`, `CleanDescriptors`, `PerformsDetached`, `PerformsClean`, `Settles` | who is left or performs, how many, where and with what |
| `daemonize_flags` | the same | `SettlesWithAnyFlags` — **violated** | `bd_no_close_files` makes the loop endless |
| `exec` | 2 daemons, 2 edits | `TypeOK`, `PidFileTruthful`, `NoSpin`, `HupServed` | the pid file, the sleep loop, and no SIGHUP is lost |
| `kernel_plugins` | 3 names, 2 libraries, 3 addresses, 3 references, list of 4 | `TypeOK`, `CodeMapped`, `LiveOnlyLoaded`, `IntactUntilUnload` | mapped code, no live objects after unload, an intact list before |
| `coordinator` | 2 signals, 3 arrivals, 3 threads | `TypeOK`, `OneSignalSafe`, `OrderlyShutdown`, `SignalEnds` | what it takes to delete the facade twice; a shutdown leaves nothing open; a signal ends the process unless its handler is stuck |
| `service_threads` | 3 events, 2 to a buffer, 2 to inotify's queue | `TypeOK`, `CreationsReported`, `ShutdownEnds`, `StopsOnEvent` | what is read is reported in order; a shutdown ends |

**Bounds.** *Pool:* two handlers and two threads are the least with which a
handler can be taken by two threads, one thread can free what another holds and
nulls can overtake a handler; one fragment (`FragmentLimit`) is the least with
which a request comes in pieces and with which the limit is passed. The safety
properties are proved for every bound. *Connection:* the threads share nothing but
the reactor's token, so one connection in `open()` and one that closes are the
interesting pair; a limit of two has a request come in three pieces; safety is
proved for any number of both. *Protocol:* the request kinds are the
cases `parse_command` tells apart; two requests make a second login and a
pipelined pair; the four lengths keep the order of the real ones
(`sizeof(int)` < token limit + command < limit < `BUFSIZ`), so that a piece can
leave stale bytes, a token and a request can pass their limits. *Daemonize:*
descriptor 3 stands for all descriptors above the streams. *Exec:* two daemons
contend for a pid file; a sleep of 2 can be interrupted in the middle and at its
end; with two edits a SIGHUP can arrive during the reading caused by another.

*Kernel:* three
names for two libraries give a shared library and one of its own; three addresses
let an address be used again while others are; three references and four entries
let a name be loaded, unloaded and loaded again beside another. *Coordinator:*
three arrivals put both signals on one thread and a third on another, or one on
each thread; the proofs hold for any number. *Services:* a third event is read on
its own after a full buffer of two, or finds a full queue.

**Deadlock** checking is off in all runs because all these systems may stop: a
pool closes or its process dies, a connection is closed, `daemonize_` ends,
daemons and coordinators exit, undefined behaviour ends a behaviour.

**Fairness.** *Pool:* a thread that can take a step in its own code takes it
(the operating system's scheduler; `recv` gives up after its 50-second timeout,
so that `process()` always ends). A readable handle is dispatched infinitely
often when it is registered infinitely often (strong fairness of
`HandleInput`): `select` reports all readable handles and the reactor goes
through them. The token is a queue (`ACE_Token`), so a thread that asks for it
gets it if it becomes free again and again (strong fairness of `Reregister` and
`HandleClose`). *Connection:* the same for a connection's thread and the token.
Nothing is assumed of clients, of signals, of the timer or of
stopping. *Daemonize, exec:* each process runs on (weak fairness per process),
and `sleep` returns. *Coordinator:* the main thread and each thread's innermost
handler run on. *Services:* a `fini()` that is called goes on, the signal handler
that began to call them goes on, and the inotify thread runs unless it is blocked
in `read`; nothing is assumed of the script, of signals or of file events.

**Conditions of the liveness properties.** `RequestServed` is about a server that
has a pool thread and is neither stopped nor cancelled nor crashed meanwhile.
`StopTerminates` excludes the two ways in which `stop()` can wait for ever: run
by a signal handler inside `handle_events` it keeps the token that a pool thread
needs, and a thread that was spawned but not counted gets no null.
`SignalEnds` excludes the process that hangs (`Stuck`) because its handler waits
for a lock that an interrupted thread is inside, `delete` for the allocator's,
`join` for the thread manager's, or because `fini_svcs` waits for a pool thread
below the handler; all of these are reached. `ShutdownEnds` is about signals that
`bootstrap_signal_handler` is entered for; one that the script has taken ends
nothing. `StopsOnEvent` counts a thread that ran into its deleted service as
stopped. `CreationsReported` is about the creations that inotify had room for:
the rest is lost unnoticed, and so is what inotify still holds when the thread is
gone. `OneSignalSafe` is not only about one signal: it says what it takes to
delete the facade twice, a second signal, or one together with a start-up or an
event loop that failed, or an exception in start-up, or a handler on another
thread that has ended the loops, so that main races with its `_exit`.
`OrderlyShutdown` excepts services that main was still opening when a handler on
another thread finalised them.
`WholeRequests` is about requests sent one at a time, none of them cut in two by
`recv`'s timeout, whose pieces do not shrink but to what `memset` clears:
pipelined requests that arrive together are taken for one, and shrinking pieces
are the subject of the finding below. The other properties of the protocol hold
of cut requests too: `recv` may give up at any time, whatever is still on its way.

## 4. Findings

1. **The idle timer reads through a null pointer**
   (`…/procs/proc_ace_handler.cpp:321`). `open()` schedules the timer with the
   act `(void*) timer_id`, with `timer_id` 0, and `handle_timeout` dereferences
   it. The comment "check for timeout every 30 seconds" (line 215) and the
   message "autologout; idle for too long" (326) describe what never happens.
2. **The read buffer is cleared by the size of an `int`**
   (`…/procs/proc_ace_handler.cpp:382`, comment "zero read buufer"). A request
   that arrives in a longer and then a shorter piece is executed with the end of
   the first piece after it.
3. **`bd_no_close_files` makes `daemonize_` spin**
   (`…/core/cci_daemonize.cpp:79`; the flag is documented in
   `include/cci_daemonize.h:50`): the stage does not set the next one.

The models also reach behaviour that looks wrong and that no run states as a
violation. The properties exclude it by the conditions named here, and hold as
far as they say:

* After a plugin is unloaded, `clear_context` (`…/plugins/ps_kafka_facade.cpp:96`)
  has deleted its object and left the pointer in the server's list, where the next
  `open_broker` or unload uses it (`IntactUntilUnload`: `~unloaded`;
  `test/test_shared_lib.cpp:20` says that opening "will succeed only if the plugin
  is registered").
* A second signal enters the coordinator's handler while the first is in it, and
  the facade is deleted again (`…/coordinator/cci_daemon_bootstrap.cpp:74`;
  `OneSignalSafe`: `sent > 1`). One signal is enough after `run_reactor_event_loop`
  failed, which line 186 does not look at, or after the bootstrap returned 1: main
  deletes the facade with the handler still registered (`undone`). An exception in
  start-up deletes it again without any signal. A handler on another thread ends
  the event loop (line 86) before the process, and main deletes too.
* The handler can wait for ever for a lock of the thread it interrupted
  (`SignalEnds`: `Stuck`).
* If a fork of `configure_init` fails the launcher, or a session leader, performs
  (`…/meta-core/policies/sys_init_policy.hpp:104`, "ensure we are not session
  leader"; `PerformsDetached`: `"init" \notin failed`).
* Once the script has taken SIGTERM and SIGINT (`…/tornado/private/cci_trinity.py:272`)
  they end nothing (`ShutdownEnds` speaks of signals the coordinator's handler gets).

## 5. Proofs

All theorems hold for every value of the constants that satisfies the named
assumption of the module.

**ProcThreadPoolProofs** (`PoolAssumption`: finitely many threads, `Null` is no
handler, the limit is a natural number). Handlers may be infinitely many.

* `TypeCorrect`: `Spec => []TypeOK`. That the counter is a natural number needs
  `PoolInv`: it equals the number of threads between `testcancel()` and their
  return, a thread holds a handler exactly while `svc()` is between `getq` and
  the end of the upcall, and the reactor thread exactly during one.
* `ExclusiveService`, `MemorySafe`: `Exclusive` and `NoUseAfterFree` are only
  inductive together (`OwnerInv`): a handler can be deleted safely because nobody
  else refers to it, and what is allocated again is not referred to at all
  because every reference is to a live handler.
* `StopDrainsPool`: `DrainInv` adds where nulls can be: only behind all
  handlers, only after `stop()` began, and once a thread that `stop()` counted is
  gone a null has been consumed, so that no handler is in front of one any more.
* `PoolImplementsService`: every step of the pool is a step of `ProcService` or
  leaves the mapped state alone. `ServeInv` adds that a thread about to close a
  handler has seen a control character.

**ProcConnectionProofs** (`ConnectionAssumption`). `ConnInv` adds to
`OneThreadEach` what the reactor thread's place in `open()` says of the new
thread (`Opening`) and that a thread leaving `svc()` has read a control character.
From it `ConnectionTyped`, `OpenNeverOutlasts`, `ThreadOwnsHandler` and
`ConnectionImplementsService`, for any number of connections.

**ProcProtocolProofs** (`ProtocolAssumption`: requests are non-empty and have at
most a final line feed, all lengths are positive, an `int` fits the buffer).
`ProtocolTyped` and `LoginToldExactlyOnce` are about `Spec`, the others about
`ServerSpec`, which is either server. Their invariant is `ServerInv`:

* `Inv == TypeOK /\ LoginToldOnce` (`BothServersTyped`). The lemma that matters is
  `SwallowedIsNoLogin`: the text of two bytes that `process()` does not answer can
  never have been a login, so that no grant goes untold. `FindRange` (what `find`
  returns) needs the least element of a set of naturals, taken from the
  well-foundedness of `<`.
* `StreamInv` (`WholeRequestsExecuted`) follows the bytes from the client to the
  text: what was received and what is on the wire make the last request
  (`OneRequest`); the buffer is zero beyond `sizeof( rdbuf_len )` and the longest
  piece so far (`BufferClean`), so that a piece that is not shorter is read
  exactly (`TextClean`); only a text with a line end, or one beyond the limit, is
  executed (`LineEnded`). A line feed is a request's last byte, so a text with one
  is all of the request.
* `StaleInv` (`StaleBytesOnlyThen`) is the other side of it: beyond what `memset`
  clears the buffer keeps the longest piece (`BufferKept`), so that a piece that is
  shorter, but not cleared completely, brings more into the text than was received
  (`TextLonger`). `Growing` is therefore the exact condition of finding 2.
* `RequestsAnswered` and `AuthLoginSilent` need no more of the state than
  `LoginToldOnce` and `AuthSilent` (the authentication manager has only ever said
  errors). The work is in `RequestParsed`: the parser, `get_command` with its
  `rtrimlast` that also cuts the carriage return, and the swallowed line feed take
  a well-formed request apart as its grammar puts it together.

**DaemonizeProofs** (`DaemonizeAssumption`: at least the three streams).
`DaemonizeInv` says which stages each of the three processes can be in, that each
is born when its parent leaves, and whose session and group it has; from it
`DaemonizeTyped`, `SingleCarrier` and `DaemonDetached`. `DescriptorInv` adds that
descriptors are closed once the closing stage is passed; from it
`DaemonDescriptors`. These are about `Daemonize!Spec`. The following are about
`LaunchSteps`, either program, which is `LaunchSpec` without its fairness:

* `LineageInv` says which stages each of the dispatcher's processes can be in as
  long as no fork and no `setsid` failed, and that the second one leads a session
  by the time it forks (`DispatcherDetached`).
* `CleanInv` says what the stage of a process says of its descriptors, whatever
  failed but the null device (`DispatcherClean`).
* `RelayInv` is one process with the baton, the ones before it gone, the ones
  after it not born. Every step keeps the baton, hands it on or is an exit, in
  either program; from it, and `DescriptorInv` where `entry` is `main`, `OneDaemon`.
* `LaunchTyped` assumes that the empty set of flags, with which the facade is made
  (`m_dw_flags { 0L }`), is one of `FlagSets`.

**DaemonExecProofs** (`ExecAssumption`). `PidInv` adds to `PidFileTruthful` that
a daemon past `lock_region` holds the lock and that `wrote` is still false there;
from it `PidFileNamesDaemon`, for any number of daemons. `LoopInv` adds to `TypeOK`
that time is left wherever a daemon can still come to `sleep` without rearming;
from it `ExecTyped` and `LoopSleeps`.

**KernelPluginsProofs** (`KernelAssumption`; any sets of names, libraries and
addresses). `KernelInv` adds to the three invariants that symbols are resolved
only for a name not in the dictionary (`CallInv`), and that a library that is
used has a reference besides the one a load under way may give back
(`MappedInv`): without it a failed load of a second name could unmap the first.
From it `KernelTyped`, `CodeStaysMapped`, `UnloadLeavesNothing` and `ListIntact`.

**CoordinatorProofs** (`CoordinatorAssumption`; any set and number of signals).
`CoordinatorTyped` rests on `FrameStep` and `DeliverStep`: a handler moves its own
frame only, and a new frame is for a signal its thread is not handling.
`PhaseInv` says what exists once the handler is registered, which threads can have
a frame by then, and that main takes things down only after a failure or once a
handler has ended the loops; with it `ShutdownIsOrderly` follows from `DoneInv`,
what has been done when a frame reaches a line (`DoneAt`), and `OneSignalIsSafe`
from `SingleInv`: after one signal there is one frame on one thread; as long as
the loops go on and nothing failed only it deletes, and on the main thread it
stays above `main`'s own deletion for good.

**ServiceThreadsProofs** (`ServiceAssumption`: the buffer and inotify's queue hold
an event). What the
thread has reported, what is in its buffer and what inotify holds are one
sequence: `Read` moves a boundary of it (`ReadMoves`), `Display` another
(`DisplayMoves`) or drops an event that is no creation (`InOrderDrop`), a file
event that inotify has room for extends it (`InOrderAppend`). `ThreadInv` adds to `TypeOK` that the buffer
has something in it exactly while the thread displays, without which `Read` could
overwrite events, and that no thread runs before its service is open. From it
`ServicesTyped` and `ReportsWhatIsRead`.

**Only model-checked:** what holds under fairness (`RequestServed`,
`StopTerminates`, `InputTaken`, `Settles`, `HupServed`, `SignalEnds`,
`ShutdownEnds`, `StopsOnEvent`), because the prover has neither liveness under
fairness nor `ENABLED`. Every invariant and every action property of a passing
run is a theorem, and so are the steps of both refinements of `ProcService`.

## 6. What is not modelled

* Formatting, logging and the wording of answers; helpers nothing calls (`gnaw`,
  `ltrim`, `rtrim`, `ucase`, `extract_quoted_string`).
* The facade's own `remove_pid`, which `daemon_default_exec` cannot reach. The free
  `write_pid` and `lock_region` of `cci_daemonize.cpp`, which nothing calls, and
  `remove_pid`, which only `handle_pid` does, whose own calls are commented out
  (`…/meta-core/policies/environment_policy.hpp:65`, 75, 84).
* Failures of `send_n`: the code does not look at the result.
* How far `rdbuf` is read beyond its end when 8192 bytes fill it without a NUL: one
  byte stands for it. Clients that send a NUL, which would end the text early.
* `stop()` and the harness's `cancel_all` on a thread other than the reactor's. A
  pool thread can take the signal too; its handler then does the same steps while
  the thread keeps its connection, and waits for a thread that is itself if that
  one was counted.
* What a signal handler may not do. `sigterm_handler` of `cci_daemon.h` calls
  `syslog` and `exit`, which can wait for a lock that the interrupted code holds;
  `DaemonExec` has the daemon die in one step. In `Coordinator` the locks are the
  allocator's and the thread manager's; those of the log, of `syslog` and of the
  proactor are left out. How long a pool's `fini` waits, and what for, is
  `ProcThreadPool`'s subject.
* SIGHUP during the forks of `daemonize_` and of the dispatcher: its default action
  ends a process as SIGTERM's does, which is modelled.
* The authentication manager's acceptor, pool and handler life cycle as modules of
  their own: they are `procs/` with other names, and a second copy of
  `ProcThreadPool` and `ProcConnection` would check the same text twice.
* `make_session_leader`, `make_into_background` and `make_fork_no_session_leader`
  of `cci_daemonize.cpp`: exported, and called by nobody.
* Tornado's request handlers in `cci_trinity.py`: the entry point that the daemon
  runs prints and sleeps.
* Stack traces, string and stream utilities: they keep no state that another part
  depends on. The configuration is read by ACE and init.
* The JSON library. `include/json.hpp` and `include/json.h` are two vendored copies
  of one library and three quarters of the implementation's lines (24343 of
  32937), so that no map of the daemon's own code, of which logging, banners and
  string helpers are a large part again, comes to a large share of the whole.

## 7. Plan

The components are modelled, and the safety properties that the runs check are
proved. What is left needs a change of the code first: the hazards that no
property covers are those in which the code does go wrong and no line of the
repository says otherwise.

## 8. Running

```
tlc -workers 2 -config MCProcThreadPool.cfg MCProcThreadPool
tlapm ProcThreadPoolProofs.tla
```

and likewise for the other configurations and proof modules. The longest run is
`pool_liveness` (about two minutes), the longest proof module
`ProcThreadPoolProofs` (about a thousand obligations).
