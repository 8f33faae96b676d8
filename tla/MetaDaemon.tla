----------------------------- MODULE MetaDaemon -----------------------------
(***************************************************************************)
(* cci_daemon_dispatcher (include/cci_meta_daemon.h), the daemon put       *)
(* together from policies: configure_streams, configure_init with its two  *)
(* forks, configure_environment and the daemon procedure's loop.  The      *)
(* processes and what fork() and setsid() do to them are Daemonize's; the  *)
(* order, and that nobody looks at a result, are the dispatcher's.  The    *)
(* policies are made with no flags.                                        *)
(*                                                                         *)
(* A launcher runs one of the two programs, cci-daemon's main (Daemonize)  *)
(* or the dispatcher's: LaunchSpec.                                        *)
(***************************************************************************)
EXTENDS Daemonize

VARIABLES
    entry,              \* main of cci-daemon, or the dispatcher's service: daemonize or cli
    policy,             \* the descriptor policy
    failed              \* did fork() or setsid() or a stream fail? (history)

metaVars == <<vars, entry, policy, failed>>
choices == <<entry, policy>>

Policies == {"ace_stream_context", "close_all_descriptors"}

\* main makes a dispatcher; cli() leaves out the streams and the forks.
MetaInit ==
    /\ flags = {}
    /\ entry \in {"daemonize", "cli"}
    /\ policy \in Policies
    /\ dp = [p \in Procs |-> IF p # 1 THEN "unborn"
                             ELSE IF entry = "cli" THEN "dp_change_to_root_dir"
                             ELSE "dp_clear_file_create_mask"]
    /\ session = [p \in Procs |-> Shell]
    /\ \E g \in {Shell, 1} : group = [p \in Procs |-> g]
    /\ \E f \in [FDs -> {"closed", "inherited"}] : fds = [p \in Procs |-> f]
    /\ cwd = [p \in Procs |-> "start"]
    /\ mask = [p \in Procs |-> "inherited"]
    /\ failed = {}

Goto(p, from, to) == dp[p] = from /\ dp' = [dp EXCEPT ![p] = to]

-----------------------------------------------------------------------------
(* configure_streams                                                       *)

\* clear_file_create_mask( 0 ); ace_stream_context then turns the log to its stream.
ClearMask(p) ==
    /\ Goto(p, "dp_clear_file_create_mask", IF policy = "close_all_descriptors"
                                            THEN "dp_close_all_open_files"
                                            ELSE "dp_fork_background_proc")
    /\ mask' = [mask EXCEPT ![p] = "zero"]
    /\ UNCHANGED <<flags, session, group, fds, cwd, choices, failed>>

\* close_all_open_files( 0 )
CloseAll(p) ==
    /\ Goto(p, "dp_close_all_open_files", "dp_reopen_streams_dev_null")
    /\ fds' = [fds EXCEPT ![p] = [f \in FDs |-> "closed"]]
    /\ UNCHANGED <<flags, session, group, cwd, mask, choices, failed>>

\* A slip: only standard input is opened again.
ReopenInputOnly(p) ==
    /\ Goto(p, "dp_reopen_streams_dev_null", "dp_fork_background_proc")
    /\ fds' = [fds EXCEPT ![p][0] = "null"]
    /\ UNCHANGED <<flags, session, group, cwd, mask, choices, failed>>

\* reopen_streams_to_dev_null( 0 ): an error does not keep it from going on.  The
\* null device does not open, and there is nothing to duplicate, or all but the
\* streams in lost are it.
Reopen(p) ==
    /\ Goto(p, "dp_reopen_streams_dev_null", "dp_fork_background_proc")
    /\ \E lost \in {StdStreams} \union SUBSET {1, 2} :
          /\ fds' = [fds EXCEPT ![p] =
                        [f \in FDs |-> IF f \in StdStreams \ lost THEN "null" ELSE @[f]]]
          /\ failed' = IF lost = {} THEN failed ELSE failed \union {"streams"}
    /\ UNCHANGED <<flags, session, group, cwd, mask, choices>>

-----------------------------------------------------------------------------
(* configure_init                                                          *)

InitForkBackground(p) ==
    /\ Fork(p, "dp_fork_background_proc", "dp_make_session_leader")
    /\ UNCHANGED <<choices, failed>>

InitForkFails(p) ==
    /\ ForkFails(p)
    /\ failed' = failed \union {"init"}
    /\ UNCHANGED choices

InitSessionLeader(p) ==
    /\ MakeSessionLeader(p)
    /\ failed' = IF dp'[p] = "dp_error" THEN failed \union {"init"} ELSE failed
    /\ UNCHANGED choices

\* A slip: setsid() is enough.
InitForkOmitted(p) ==
    /\ Goto(p, "dp_fork_no_session_leader", "dp_change_to_root_dir")
    /\ UNCHANGED <<flags, attrs, choices, failed>>

InitForkNoSessionLeader(p) ==
    /\ Fork(p, "dp_fork_no_session_leader", "dp_change_to_root_dir")
    /\ UNCHANGED <<choices, failed>>

InitExit(p) == Exit(p) /\ UNCHANGED <<choices, failed>>

\* A slip: the error is looked at, and nothing is done.
InitFailedStops(p) ==
    /\ dp[p] = "dp_error"
    /\ UNCHANGED <<flags, dp, attrs, choices, failed>>

\* The loop is left by an error as by success, and configure_init returns nothing.
InitFailed(p) ==
    /\ Goto(p, "dp_error", "dp_change_to_root_dir")
    /\ UNCHANGED <<flags, attrs, choices, failed>>

-----------------------------------------------------------------------------
(* configure_environment and proc_init                                     *)

\* cd_to_root( 0 ): chdir may fail.  Then perform, with handlers for SIGTERM and
\* SIGINT.
CdToRoot(p) ==
    /\ Goto(p, "dp_change_to_root_dir", "performing")
    /\ cwd' \in {cwd, [cwd EXCEPT ![p] = "root"]}
    /\ UNCHANGED <<flags, session, group, fds, mask, choices, failed>>

\* SIGTERM or SIGINT ends the process: of the dispatcher and, before its daemon
\* installs handlers, of main by the default action, later by exit() in
\* daemon_signal_handler::handle_signal or main's sigterm_handler.
Signal(p) ==
    /\ dp[p] \notin Gone \union {"terminated"}
    /\ dp' = [dp EXCEPT ![p] = "terminated"]
    /\ UNCHANGED <<flags, attrs, choices, failed>>

MetaStep(p) ==
    \/ ClearMask(p) \/ CloseAll(p) \/ Reopen(p)
    \/ InitForkBackground(p) \/ InitForkFails(p) \/ InitSessionLeader(p)
    \/ InitForkNoSessionLeader(p) \/ InitExit(p) \/ InitFailed(p) \/ CdToRoot(p)

-----------------------------------------------------------------------------
(* Either program.                                                         *)

LaunchInit ==
    \/ Init /\ entry = "main" /\ policy = "close_all_descriptors" /\ failed = {}
    \/ MetaInit

MainStep(p) == entry = "main" /\ Step(p) /\ UNCHANGED <<choices, failed>>
ProgramStep(p) == MainStep(p) \/ (entry # "main" /\ MetaStep(p))

LaunchNext == \E p \in Procs : ProgramStep(p) \/ Signal(p)

LaunchSteps == LaunchInit /\ [][LaunchNext]_metaVars
LaunchSpec == LaunchSteps /\ \A p \in Procs : WF_metaVars(ProgramStep(p))

-----------------------------------------------------------------------------
\* With no failure on the way the procedure is performed in a process that has
\* left the terminal's session and group and leads neither.
PerformsDetached ==
    \A p \in Procs : dp[p] = "performing" /\ entry = "daemonize" /\ "init" \notin failed =>
        /\ session[p] \notin {Shell, p}
        /\ group[p] \notin {Shell, 1, p}

\* With the policy that closes all descriptors, and unless the null device
\* failed, no descriptor of the launcher reaches the process that performs.
PerformsClean ==
    \A p \in Procs :
        dp[p] = "performing" /\ entry = "daemonize" /\ policy = "close_all_descriptors"
          /\ "streams" \notin failed
        => \A f \in FDs : fds[p][f] = IF f \in StdStreams THEN "null" ELSE "closed"
=============================================================================
