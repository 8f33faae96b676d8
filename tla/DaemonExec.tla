----------------------------- MODULE DaemonExec -----------------------------
(***************************************************************************)
(* cci_daemon_facade::daemon_default_exec, run by several daemon processes *)
(* started on one machine: they share the pid file and its lock, and each  *)
(* sleeps in a loop that a SIGHUP interrupts to have the configuration     *)
(* read again.                                                             *)
(***************************************************************************)
EXTENDS Naturals

CONSTANTS
    Daemons,            \* process ids of the daemons started
    NoPid,              \* not a process id
    SleepTime,          \* sleep_time
    MaxEdits            \* bound on the edits of the configuration file

ASSUME ExecAssumption ==
    /\ NoPid \notin Daemons
    /\ SleepTime \in Nat \ {0}
    /\ MaxEdits \in Nat

VARIABLES
    pc,                 \* where each daemon is in daemon_default_exec
    hup_received,       \* the flag sighup_handler sets, per process
    unslept,            \* seconds left to sleep
    wrote,              \* did write_pid return true?
    lock,               \* process that holds the lock on the pid file
    content,            \* the process id in the pid file (NoPid: empty or absent)
    config,             \* version of the configuration file
    cfg,                \* version there was when each daemon last went to read it
    want                \* version when each daemon was last sent SIGHUP (history)

vars == <<pc, hup_received, unslept, wrote, lock, content, config, cfg, want>>
pidVars == <<wrote, lock, content>>
cfgVars == <<config, cfg, want>>

Dead == {"unstarted", "exited", "crashed"}
Starting == {"open_log", "sigaction"}
WritingPid == {"pid_open", "pid_lock", "pid_truncate", "pid_write"}
Looping == {"sleep", "check", "reset", "reopen", "read_config", "rearm"}
Handling == WritingPid \union Looping       \* the signal handlers are installed

TypeOK ==
    /\ pc \in [Daemons -> Dead \union Starting \union Handling]
    /\ hup_received \in [Daemons -> BOOLEAN]
    /\ unslept \in [Daemons -> 0 .. SleepTime]
    /\ wrote \in [Daemons -> BOOLEAN]
    /\ lock \in Daemons \union {NoPid}
    /\ content \in Daemons \union {NoPid}
    /\ config \in 0 .. MaxEdits
    /\ cfg \in [Daemons -> 0 .. MaxEdits]
    /\ want \in [Daemons -> 0 .. MaxEdits]

Init ==
    /\ pc = [d \in Daemons |-> "unstarted"]
    /\ hup_received = [d \in Daemons |-> FALSE]
    /\ unslept = [d \in Daemons |-> SleepTime]
    /\ wrote = [d \in Daemons |-> FALSE]
    /\ lock = NoPid /\ content = NoPid
    /\ config = 0
    /\ cfg = [d \in Daemons |-> 0]
    /\ want = [d \in Daemons |-> 0]

Goto(d, label) == pc' = [pc EXCEPT ![d] = label]

\* The process is gone: the kernel releases its lock; the pid file stays.
Die(d, how) ==
    /\ Goto(d, how)
    /\ lock' = IF lock = d THEN NoPid ELSE lock
    /\ UNCHANGED <<hup_received, unslept, wrote, content, cfgVars>>

-----------------------------------------------------------------------------
(* The daemon.                                                             *)

Start(d) ==
    /\ pc[d] = "unstarted"
    /\ Goto(d, "open_log")
    /\ UNCHANGED <<hup_received, unslept, pidVars, cfgVars>>

\* The log opens, the configuration is read for the first time.
OpenLog(d) ==
    /\ pc[d] = "open_log"
    /\ Goto(d, "sigaction")
    /\ cfg' = [cfg EXCEPT ![d] = config]
    /\ UNCHANGED <<hup_received, unslept, pidVars, config, want>>

\* open_log: no access to the log exits; a failed fopen is handed to setbuf.
OpenLogFails(d) ==
    /\ pc[d] \in {"open_log", "reopen"}
    /\ Die(d, "exited") \/ Die(d, "crashed")

\* sigaction and signal.
InstallHandlers(d) ==
    /\ pc[d] = "sigaction"
    /\ Goto(d, "pid_open")
    /\ UNCHANGED <<hup_received, unslept, pidVars, cfgVars>>

\* write_pid: open( O_CREAT ) does not change the content of the file.
PidOpen(d) ==
    /\ pc[d] = "pid_open"
    /\ Goto(d, "pid_lock")
    /\ UNCHANGED <<hup_received, unslept, pidVars, cfgVars>>

\* A slip: the file is truncated whether or not the lock was granted.
PidLockIgnored(d) ==
    /\ pc[d] = "pid_lock"
    /\ lock' = IF lock = NoPid THEN d ELSE lock
    /\ Goto(d, "pid_truncate")
    /\ UNCHANGED <<hup_received, unslept, wrote, content, cfgVars>>

\* lock_region: F_SETLK does not wait.
PidLock(d) ==
    /\ pc[d] = "pid_lock"
    /\ lock = NoPid
    /\ lock' = d
    /\ Goto(d, "pid_truncate")
    /\ UNCHANGED <<hup_received, unslept, wrote, content, cfgVars>>

PidTruncate(d) ==
    /\ pc[d] = "pid_truncate"
    /\ content' = NoPid
    /\ Goto(d, "pid_write")
    /\ UNCHANGED <<hup_received, unslept, wrote, lock, cfgVars>>

PidWrite(d) ==
    /\ pc[d] = "pid_write"
    /\ content' = d
    /\ wrote' = [wrote EXCEPT ![d] = TRUE]
    /\ Goto(d, "sleep")
    /\ UNCHANGED <<hup_received, unslept, lock, cfgVars>>

\* Any step of write_pid can fail (the lock because another daemon has it);
\* "pid write failed" is logged and the daemon goes on.
PidFails(d) ==
    /\ pc[d] \in WritingPid
    /\ Goto(d, "sleep")
    /\ UNCHANGED <<hup_received, unslept, pidVars, cfgVars>>

\* sleep() ran its time.
Sleep(d) ==
    /\ pc[d] = "sleep"
    /\ unslept' = [unslept EXCEPT ![d] = 0]
    /\ Goto(d, "check")
    /\ UNCHANGED <<hup_received, pidVars, cfgVars>>

\* if( cdi::hup_received )
Check(d) ==
    /\ pc[d] = "check"
    /\ Goto(d, IF hup_received[d] THEN "reset" ELSE "rearm")
    /\ UNCHANGED <<hup_received, unslept, pidVars, cfgVars>>

\* hup_received = 0, before the file is read.
ResetHup(d) ==
    /\ pc[d] = "reset"
    /\ hup_received' = [hup_received EXCEPT ![d] = FALSE]
    /\ Goto(d, "reopen")
    /\ UNCHANGED <<unslept, pidVars, cfgVars>>

\* close_log, open_log.
ReopenLog(d) ==
    /\ pc[d] = "reopen"
    /\ Goto(d, "read_config")
    /\ UNCHANGED <<hup_received, unslept, pidVars, cfgVars>>

\* A slip: the flag is cleared after the file is read.
ReadConfigThenReset(d) ==
    /\ pc[d] = "read_config"
    /\ \/ /\ cfg[d] # config
          /\ cfg' = [cfg EXCEPT ![d] = config]
          /\ UNCHANGED <<pc, hup_received>>
       \/ /\ Goto(d, "rearm")
          /\ hup_received' = [hup_received EXCEPT ![d] = FALSE]
          /\ UNCHANGED cfg
    /\ UNCHANGED <<unslept, pidVars, config, want>>

ReadConfig(d) ==
    /\ pc[d] = "read_config"
    /\ cfg' = [cfg EXCEPT ![d] = config]
    /\ Goto(d, "rearm")
    /\ UNCHANGED <<hup_received, unslept, pidVars, config, want>>

\* A slip: the time left is not set again after a full sleep, so sleep( 0 ) spins.
RearmForgotten(d) ==
    /\ pc[d] = "rearm"
    /\ Goto(d, "sleep")
    /\ UNCHANGED <<hup_received, unslept, pidVars, cfgVars>>

\* A slip: the time to sleep is added to the time left.
RearmAdds(d) ==
    /\ pc[d] = "rearm"
    /\ unslept' = [unslept EXCEPT ![d] = @ + SleepTime]
    /\ Goto(d, "sleep")
    /\ UNCHANGED <<hup_received, pidVars, cfgVars>>

\* if( unslept == 0 ) { unslept = sleep_time; ... }
Rearm(d) ==
    /\ pc[d] = "rearm"
    /\ unslept' = [unslept EXCEPT ![d] = IF @ = 0 THEN SleepTime ELSE @]
    /\ Goto(d, "sleep")
    /\ UNCHANGED <<hup_received, pidVars, cfgVars>>

-----------------------------------------------------------------------------
(* Its operator.                                                           *)

\* The configuration file is edited.
Edit ==
    /\ config < MaxEdits
    /\ config' = config + 1
    /\ UNCHANGED <<pc, hup_received, unslept, pidVars, cfg, want>>

\* SIGHUP before the handlers are installed ends the process.
HupKills(d) ==
    /\ pc[d] \in Starting
    /\ Die(d, "exited")

\* sighup_handler; a sleep() it interrupts returns the time left.
Hup(d) ==
    /\ pc[d] \in Handling
    /\ hup_received' = [hup_received EXCEPT ![d] = TRUE]
    /\ want' = [want EXCEPT ![d] = config]
    /\ IF pc[d] = "sleep"
         THEN /\ Goto(d, "check")
              /\ \E left \in 0 .. unslept[d] : unslept' = [unslept EXCEPT ![d] = left]
         ELSE UNCHANGED <<pc, unslept>>
    /\ UNCHANGED <<pidVars, config, cfg>>

\* sigterm_handler exits; so does the default action before it is installed.
Term(d) ==
    /\ pc[d] \notin Dead
    /\ Die(d, "exited")

-----------------------------------------------------------------------------
Run(d) ==
    \/ OpenLog(d) \/ InstallHandlers(d)
    \/ PidOpen(d) \/ PidLock(d) \/ PidTruncate(d) \/ PidWrite(d) \/ PidFails(d)
    \/ Sleep(d) \/ Check(d) \/ ResetHup(d) \/ ReopenLog(d) \/ ReadConfig(d) \/ Rearm(d)

Next ==
    \/ \E d \in Daemons : \/ Start(d) \/ Run(d) \/ OpenLogFails(d)
                          \/ HupKills(d) \/ Hup(d) \/ Term(d)
    \/ Edit

Spec == Init /\ [][Next]_vars

\* A daemon that runs is scheduled, and sleep() returns after its time.
FairSpec == Spec /\ \A d \in Daemons : WF_vars(Run(d))

-----------------------------------------------------------------------------
Alive(d) == pc[d] \notin Dead

\* As long as a daemon lives whose write_pid succeeded, the pid file names it
\* and nobody else holds the lock: no later start, failed or not, overwrites it.
PidFileTruthful ==
    \A d \in Daemons : Alive(d) /\ wrote[d] => lock = d /\ content = d

\* A daemon in the loop never sleeps for no time: sleep( unslept ) is a real
\* wait however SIGHUPs interrupt it, and the loop does not spin.
NoSpin == \A d \in Daemons : pc[d] = "sleep" => unslept[d] > 0

\* A SIGHUP is never lost: the daemon goes on to read a configuration at least
\* as new as the one it was told of, even if the signal comes while it is
\* already reading, unless it ends.
HupServed ==
    \A d \in Daemons : cfg[d] < want[d] ~> (cfg[d] >= want[d] \/ ~Alive(d))
=============================================================================
