----------------------------- MODULE Daemonize -----------------------------
(***************************************************************************)
(* daemonize_ (core/cci_daemonize.cpp) and what main does with its result: *)
(* a small state machine that forks twice, so that it is run by up to      *)
(* three processes, of which one must go on as the daemon.                 *)
(***************************************************************************)
EXTENDS Naturals, FiniteSets

CONSTANTS
    MaxFd,              \* highest descriptor (sysconf( _SC_OPEN_MAX ) - 1)
    FlagSets            \* the combinations of flags to start from

Flags == {"bd_no_chdir", "bd_no_close_files", "bd_no_reopen_std_fds", "bd_no_umask_0"}

ASSUME DaemonizeAssumption ==
    /\ MaxFd \in Nat /\ MaxFd >= 2
    /\ FlagSets \subseteq SUBSET Flags

Procs == 1 .. 3         \* the launcher, its child and its grandchild
Shell == 0              \* the session and process group of the terminal
FDs == 0 .. MaxFd
StdStreams == 0 .. 2

VARIABLES
    flags,              \* the argument of daemonize_
    dp,                 \* where each process is in daemonize_ and main
    session,            \* session of each process, named by its leader
    group,              \* process group of each process, likewise
    fds,                \* what each descriptor of each process refers to
    cwd,                \* working directory
    mask                \* file creation mask

vars == <<flags, dp, session, group, fds, cwd, mask>>
attrs == <<session, group, fds, cwd, mask>>

Stages == {"dp_fork_background_proc", "dp_make_session_leader",
           "dp_fork_no_session_leader", "dp_clear_file_create_mask",
           "dp_change_to_root_dir", "dp_close_all_open_files",
           "dp_reopen_streams_dev_null", "dp_daemonized", "dp_error"}

TypeOK ==
    /\ flags \in FlagSets
    /\ dp \in [Procs -> Stages \union {"unborn", "exiting", "exited", "running",
                              "performing", "terminated"}]
    /\ session \in [Procs -> Procs \union {Shell}]
    /\ group \in [Procs -> Procs \union {Shell}]
    /\ fds \in [Procs -> [FDs -> {"closed", "inherited", "null"}]]
    /\ cwd \in [Procs -> {"start", "root"}]
    /\ mask \in [Procs -> {"inherited", "zero"}]

\* The launcher has whatever descriptors its parent left it, and leads its
\* process group if a shell with job control started it.
Init ==
    /\ flags \in FlagSets
    /\ dp = [p \in Procs |-> IF p = 1 THEN "dp_fork_background_proc" ELSE "unborn"]
    /\ session = [p \in Procs |-> Shell]
    /\ \E g \in {Shell, 1} : group = [p \in Procs |-> g]
    /\ \E f \in [FDs -> {"closed", "inherited"}] : fds = [p \in Procs |-> f]
    /\ cwd = [p \in Procs |-> "start"]
    /\ mask = [p \in Procs |-> "inherited"]

-----------------------------------------------------------------------------
\* fork(): the child c is a copy of p at the next stage.
Inherit(p, c) ==
    /\ session' = [session EXCEPT ![c] = session[p]]
    /\ group' = [group EXCEPT ![c] = group[p]]
    /\ fds' = [fds EXCEPT ![c] = fds[p]]
    /\ cwd' = [cwd EXCEPT ![c] = cwd[p]]
    /\ mask' = [mask EXCEPT ![c] = mask[p]]
    /\ UNCHANGED flags

\* A slip: the parent does not _exit but goes on like its child.
ForkBothGoOn(p, from, to) ==
    /\ dp[p] = from /\ p + 1 \in Procs
    /\ dp' = [dp EXCEPT ![p] = to, ![p + 1] = to]
    /\ Inherit(p, p + 1)

\* The parent exits (in its own time), the child goes on.
Fork(p, from, to) ==
    /\ dp[p] = from /\ p + 1 \in Procs
    /\ dp' = [dp EXCEPT ![p] = "exiting", ![p + 1] = to]
    /\ Inherit(p, p + 1)

ForkFails(p) ==
    /\ dp[p] \in {"dp_fork_background_proc", "dp_fork_no_session_leader"}
    /\ dp' = [dp EXCEPT ![p] = "dp_error"]
    /\ UNCHANGED <<flags, attrs>>

\* _exit( EXIT_SUCCESS ).
Exit(p) ==
    /\ dp[p] = "exiting"
    /\ dp' = [dp EXCEPT ![p] = "exited"]
    /\ UNCHANGED <<flags, attrs>>

ForkBackground(p) == Fork(p, "dp_fork_background_proc", "dp_make_session_leader")

\* A slip: the stage after setsid() is the helpers' dp_success.
MakeSessionLeaderSuccess(p) ==
    /\ dp[p] = "dp_make_session_leader"
    /\ dp' = [dp EXCEPT ![p] = "dp_success"]
    /\ session' = [session EXCEPT ![p] = p]
    /\ group' = [group EXCEPT ![p] = p]
    /\ UNCHANGED <<flags, fds, cwd, mask>>

\* setsid() fails for the leader of a process group.
MakeSessionLeader(p) ==
    /\ dp[p] = "dp_make_session_leader"
    /\ IF group[p] = p
         THEN /\ dp' = [dp EXCEPT ![p] = "dp_error"]
              /\ UNCHANGED <<session, group>>
         ELSE /\ dp' = [dp EXCEPT ![p] = "dp_fork_no_session_leader"]
              /\ session' = [session EXCEPT ![p] = p]
              /\ group' = [group EXCEPT ![p] = p]
    /\ UNCHANGED <<flags, fds, cwd, mask>>

\* A slip: the second fork is left out.
ForkOmitted(p) ==
    /\ dp[p] = "dp_fork_no_session_leader"
    /\ dp' = [dp EXCEPT ![p] = "dp_clear_file_create_mask"]
    /\ UNCHANGED <<flags, attrs>>

ForkNoSessionLeader(p) == Fork(p, "dp_fork_no_session_leader", "dp_clear_file_create_mask")

ClearFileCreateMask(p) ==
    /\ dp[p] = "dp_clear_file_create_mask"
    /\ dp' = [dp EXCEPT ![p] = "dp_change_to_root_dir"]
    /\ mask' = IF "bd_no_umask_0" \in flags THEN mask ELSE [mask EXCEPT ![p] = "zero"]
    /\ UNCHANGED <<flags, session, group, fds, cwd>>

\* The result of chdir() is not looked at.
ChangeToRootDir(p) ==
    /\ dp[p] = "dp_change_to_root_dir"
    /\ dp' = [dp EXCEPT ![p] = "dp_close_all_open_files"]
    /\ cwd' \in {cwd} \union
                (IF "bd_no_chdir" \in flags THEN {} ELSE {[cwd EXCEPT ![p] = "root"]})
    /\ UNCHANGED <<flags, session, group, fds, mask>>

\* A slip: the loop stops one descriptor short.
CloseAllButOne(p) ==
    /\ dp[p] = "dp_close_all_open_files"
    /\ "bd_no_close_files" \notin flags
    /\ fds' = [fds EXCEPT ![p] = [f \in FDs |-> IF f < MaxFd THEN "closed" ELSE @[f]]]
    /\ dp' = [dp EXCEPT ![p] = "dp_reopen_streams_dev_null"]
    /\ UNCHANGED <<flags, session, group, cwd, mask>>

CloseAllOpenFiles(p) ==
    /\ dp[p] = "dp_close_all_open_files"
    /\ "bd_no_close_files" \notin flags
    /\ fds' = [fds EXCEPT ![p] = [f \in FDs |-> "closed"]]
    /\ dp' = [dp EXCEPT ![p] = "dp_reopen_streams_dev_null"]
    /\ UNCHANGED <<flags, session, group, cwd, mask>>

\* With bd_no_close_files the stage is left as it was: the loop comes back to it.
CloseNothing(p) ==
    /\ dp[p] = "dp_close_all_open_files"
    /\ "bd_no_close_files" \in flags
    /\ UNCHANGED vars

\* A slip: the stage only moves on if the streams are reopened.
ReopenOnlyIfTold(p) ==
    /\ dp[p] = "dp_reopen_streams_dev_null"
    /\ "bd_no_reopen_std_fds" \notin flags
    /\ fds' = [fds EXCEPT ![p] = [f \in FDs |-> IF f \in StdStreams THEN "null" ELSE @[f]]]
    /\ dp' = [dp EXCEPT ![p] = "dp_daemonized"]
    /\ UNCHANGED <<flags, session, group, cwd, mask>>

ReopenStreams(p) ==
    /\ dp[p] = "dp_reopen_streams_dev_null"
    /\ fds' = IF "bd_no_reopen_std_fds" \in flags THEN fds
              ELSE [fds EXCEPT ![p] = [f \in FDs |-> IF f \in StdStreams THEN "null" ELSE @[f]]]
    /\ dp' = [dp EXCEPT ![p] = "dp_daemonized"]
    /\ UNCHANGED <<flags, session, group, cwd, mask>>

\* open( "/dev/null" ) fails and yields no descriptor 0, or a dup2 fails after
\* it: the first n streams are reopened.
ReopenFails(p) ==
    /\ dp[p] = "dp_reopen_streams_dev_null"
    /\ "bd_no_reopen_std_fds" \notin flags
    /\ \E n \in StdStreams :
          fds' = [fds EXCEPT ![p] = [f \in FDs |->
                     CASE f < n -> "null" [] f = 0 /\ n = 0 -> "closed" [] OTHER -> @[f]]]
    /\ dp' = [dp EXCEPT ![p] = "dp_error"]
    /\ UNCHANGED <<flags, session, group, cwd, mask>>

\* main: 0 goes on to the daemon procedure, -1 throws with no exception at
\* hand, and the terminate handler exits with a failure.
Main(p) ==
    /\ dp[p] \in {"dp_daemonized", "dp_error"}
    /\ dp' = [dp EXCEPT ![p] = IF dp[p] = "dp_daemonized" THEN "running" ELSE "terminated"]
    /\ UNCHANGED <<flags, attrs>>

Step(p) ==
    \/ ForkBackground(p) \/ ForkNoSessionLeader(p) \/ ForkFails(p) \/ Exit(p)
    \/ MakeSessionLeader(p) \/ ClearFileCreateMask(p) \/ ChangeToRootDir(p)
    \/ CloseAllOpenFiles(p) \/ CloseNothing(p) \/ ReopenStreams(p) \/ ReopenFails(p)
    \/ Main(p)

Next == \E p \in Procs : Step(p)

Spec == Init /\ [][Next]_vars
FairSpec == Spec /\ \A p \in Procs : WF_vars(Step(p))

-----------------------------------------------------------------------------
Returned == {"dp_daemonized", "running"}
Gone == {"unborn", "exiting", "exited"}

\* The process that goes on as the daemon has left the terminal's session and
\* leads no session, so that it cannot acquire a terminal again; the leader of
\* its session is on its way out.
Detached ==
    \A p \in Procs : dp[p] \in Returned =>
        /\ session[p] \notin {Shell, p}
        /\ group[p] \notin {Shell, 1, p}
        /\ dp[session[p]] \in Gone

\* Of the up to three processes exactly one carries daemonize_ on at any time,
\* so that main's code after it runs once.
OneCarrier == Cardinality({p \in Procs : dp[p] \notin Gone}) = 1

\* The daemon inherits no descriptor, and its standard streams are the null
\* device (or closed, if it was told not to reopen them).
CleanDescriptors ==
    \A p \in Procs : dp[p] \in Returned =>
        \A f \in FDs :
            fds[p][f] = IF f \in StdStreams /\ "bd_no_reopen_std_fds" \notin flags
                        THEN "null" ELSE "closed"

\* One process is at its work or has given up, and the others have exited.
AtRest == \E p \in Procs : /\ dp[p] \in {"running", "performing", "terminated"}
                           /\ \A q \in Procs \ {p} : dp[q] \in {"unborn", "exited"}

\* Unless told to keep its files, daemonize_ ends, and so do the policies' forks
\* whatever of them fails: one process runs on or gives up, the others have
\* exited.
Settles == "bd_no_close_files" \notin flags => <>[]AtRest

\* daemonize_ ends for every combination of its documented flags
\* (cci_daemonize.h: "don't close all open files").
SettlesWithAnyFlags == <>AtRest
=============================================================================
