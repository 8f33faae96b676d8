-------------------------- MODULE DaemonizeProofs --------------------------
(***************************************************************************)
(* Proofs about the two ways to become a daemon, for any descriptor limit. *)
(*                                                                         *)
(* Of daemonize_ (Daemonize), with any flags, the inductive invariant says *)
(* which stages each of the three processes can be in, that a child exists *)
(* exactly if its parent is on its way out, and how the session and the    *)
(* process group follow from the stage. Of the policy-based dispatcher     *)
(* (MetaDaemon) two invariants say which stages each process can be in and *)
(* whose session it has left as long as no fork and no setsid() failed,    *)
(* and what the stage of a process says of its descriptors whatever        *)
(* failed; a third one, of both programs, that the processes follow one    *)
(* another.                                                                *)
(***************************************************************************)
EXTENDS MetaDaemon, FiniteSetTheorems, TLAPS

\* The stages each process can reach.
Launcher == {"dp_fork_background_proc", "dp_error", "terminated", "exiting", "exited"}
Child == {"unborn", "dp_make_session_leader", "dp_fork_no_session_leader", "dp_error",
          "terminated", "exiting", "exited"}
Grandchild == {"unborn", "dp_clear_file_create_mask", "dp_change_to_root_dir",
               "dp_close_all_open_files", "dp_reopen_streams_dev_null", "dp_daemonized",
               "dp_error", "running", "terminated"}

Left == {"exiting", "exited"}

\* One process after the other: a child exists exactly if its parent left.
Succession ==
    /\ dp[1] \in Launcher /\ dp[2] \in Child /\ dp[3] \in Grandchild
    /\ dp[1] \in Left <=> dp[2] # "unborn"
    /\ dp[2] \in Left <=> dp[3] # "unborn"

\* The child leads a session of its own by the time it forks.
Sessions ==
    /\ dp[2] \in {"dp_fork_no_session_leader", "exiting", "exited"}
          => session[2] = 2 /\ group[2] = 2
    /\ dp[3] # "unborn" => session[3] = 2 /\ group[3] = 2

DaemonizeInv == TypeOK /\ Succession /\ Sessions

LEMMA InitInv == Init => DaemonizeInv
  <1> SUFFICES ASSUME Init PROVE DaemonizeInv OBVIOUS
  <1>1. PICK f \in [FDs -> {"closed", "inherited"}] : fds = [p \in Procs |-> f]
    BY DEF Init
  <1>2. f \in [FDs -> {"closed", "inherited", "null"}]
    OBVIOUS
  <1>3. TypeOK
    BY <1>1, <1>2 DEF Init, TypeOK, Stages, Procs, Shell
  <1> QED BY <1>3 DEF Init, DaemonizeInv, Succession, Sessions, Launcher, Child,
                      Grandchild, Left, Procs

\* The type of the attributes that fork() copies.
LEMMA InheritType ==
  ASSUME TypeOK, NEW p \in Procs, p + 1 \in Procs, Inherit(p, p + 1)
  PROVE  /\ flags' \in FlagSets
         /\ session' \in [Procs -> Procs \union {Shell}]
         /\ group' \in [Procs -> Procs \union {Shell}]
         /\ fds' \in [Procs -> [FDs -> {"closed", "inherited", "null"}]]
         /\ cwd' \in [Procs -> {"start", "root"}]
         /\ mask' \in [Procs -> {"inherited", "zero"}]
  BY DEF TypeOK, Inherit

LEMMA StepType == DaemonizeInv /\ [Next]_vars => TypeOK'
  <1> SUFFICES ASSUME DaemonizeInv, [Next]_vars PROVE TypeOK' OBVIOUS
  <1> USE DEF DaemonizeInv, TypeOK, Stages, attrs
  <1>1. ASSUME NEW p \in Procs, ForkBackground(p) PROVE TypeOK'
    BY <1>1, InheritType DEF ForkBackground, Fork
  <1>2. ASSUME NEW p \in Procs, ForkNoSessionLeader(p) PROVE TypeOK'
    BY <1>2, InheritType DEF ForkNoSessionLeader, Fork
  <1>3. ASSUME NEW p \in Procs, ForkFails(p) PROVE TypeOK'
    BY <1>3 DEF ForkFails
  <1>4. ASSUME NEW p \in Procs, Exit(p) PROVE TypeOK'
    BY <1>4 DEF Exit
  <1>5. ASSUME NEW p \in Procs, MakeSessionLeader(p) PROVE TypeOK'
    <2>1. CASE group[p] = p
      BY <1>5, <2>1 DEF MakeSessionLeader
    <2>2. CASE group[p] # p
      <3>1. /\ dp' = [dp EXCEPT ![p] = "dp_fork_no_session_leader"]
            /\ session' = [session EXCEPT ![p] = p]
            /\ group' = [group EXCEPT ![p] = p]
            /\ UNCHANGED <<flags, fds, cwd, mask>>
        BY <1>5, <2>2 DEF MakeSessionLeader
      <3>2. session' \in [Procs -> Procs \union {Shell}]
        BY ONLY <3>1, session \in [Procs -> Procs \union {Shell}], p \in Procs
      <3>3. group' \in [Procs -> Procs \union {Shell}]
        BY ONLY <3>1, group \in [Procs -> Procs \union {Shell}], p \in Procs
      <3> QED BY <3>1, <3>2, <3>3
    <2> QED BY <2>1, <2>2
  <1>6. ASSUME NEW p \in Procs, ClearFileCreateMask(p) PROVE TypeOK'
    BY <1>6 DEF ClearFileCreateMask
  <1>7. ASSUME NEW p \in Procs, ChangeToRootDir(p) PROVE TypeOK'
    BY <1>7 DEF ChangeToRootDir
  <1>8. ASSUME NEW p \in Procs, CloseAllOpenFiles(p) PROVE TypeOK'
    BY <1>8 DEF CloseAllOpenFiles
  <1>9. ASSUME NEW p \in Procs, CloseNothing(p) PROVE TypeOK'
    BY <1>9 DEF CloseNothing, vars
  <1>10. ASSUME NEW p \in Procs, ReopenStreams(p) PROVE TypeOK'
    BY <1>10 DEF ReopenStreams
  <1>11. ASSUME NEW p \in Procs, ReopenFails(p) PROVE TypeOK'
    BY <1>11 DEF ReopenFails
  <1>12. ASSUME NEW p \in Procs, Main(p) PROVE TypeOK'
    BY <1>12 DEF Main
  <1>13. CASE UNCHANGED vars
    BY <1>13 DEF vars
  <1> QED BY <1>1, <1>2, <1>3, <1>4, <1>5, <1>6, <1>7, <1>8, <1>9, <1>10, <1>11, <1>12,
             <1>13 DEF Next, Step

\* Each process hands over to the next, in order.
LEMMA StepSuccession == DaemonizeInv /\ [Next]_vars => (Succession /\ Sessions)'
  <1> DEFINE Goal == (Succession /\ Sessions)'
  <1> SUFFICES ASSUME DaemonizeInv, [Next]_vars PROVE Goal OBVIOUS
  <1> USE DEF DaemonizeInv, TypeOK, Succession, Sessions, Launcher, Child, Grandchild, Left,
              Procs, Shell, attrs
  <1>1. ASSUME NEW p \in Procs, ForkBackground(p) PROVE Goal
    BY <1>1 DEF ForkBackground, Fork, Inherit
  <1>2. ASSUME NEW p \in Procs, ForkNoSessionLeader(p) PROVE Goal
    BY <1>2 DEF ForkNoSessionLeader, Fork, Inherit
  <1>3. ASSUME NEW p \in Procs, ForkFails(p) PROVE Goal
    BY <1>3 DEF ForkFails
  <1>4. ASSUME NEW p \in Procs, Exit(p) PROVE Goal
    BY <1>4 DEF Exit
  <1>5. ASSUME NEW p \in Procs, MakeSessionLeader(p) PROVE Goal
    BY <1>5 DEF MakeSessionLeader
  <1>6. ASSUME NEW p \in Procs, ClearFileCreateMask(p) PROVE Goal
    BY <1>6 DEF ClearFileCreateMask
  <1>7. ASSUME NEW p \in Procs, ChangeToRootDir(p) PROVE Goal
    BY <1>7 DEF ChangeToRootDir
  <1>8. ASSUME NEW p \in Procs, CloseAllOpenFiles(p) PROVE Goal
    BY <1>8 DEF CloseAllOpenFiles
  <1>9. ASSUME NEW p \in Procs, CloseNothing(p) PROVE Goal
    BY <1>9 DEF CloseNothing, vars
  <1>10. ASSUME NEW p \in Procs, ReopenStreams(p) PROVE Goal
    BY <1>10 DEF ReopenStreams
  <1>11. ASSUME NEW p \in Procs, ReopenFails(p) PROVE Goal
    BY <1>11 DEF ReopenFails
  <1>12. ASSUME NEW p \in Procs, Main(p) PROVE Goal
    BY <1>12 DEF Main
  <1>13. CASE UNCHANGED vars
    BY <1>13 DEF vars
  <1> QED BY <1>1, <1>2, <1>3, <1>4, <1>5, <1>6, <1>7, <1>8, <1>9, <1>10, <1>11, <1>12,
             <1>13 DEF Next, Step

LEMMA DaemonizeInvInductive == Spec => []DaemonizeInv
  <1>1. DaemonizeInv /\ [Next]_vars => DaemonizeInv'
    BY StepType, StepSuccession DEF DaemonizeInv
  <1> QED BY InitInv, <1>1, PTL DEF Spec

\* Whatever fails and whatever the flags, the loop of daemonize_ stays in its
\* stages, with sessions and groups led by its own processes or the terminal's.
THEOREM DaemonizeTyped == Spec => []TypeOK
  <1>1. DaemonizeInv => TypeOK
    BY DEF DaemonizeInv
  <1> QED BY <1>1, DaemonizeInvInductive, PTL

\* Whatever the flags and descriptors, exactly one of the processes carries
\* daemonize_ on: main's code after it never runs twice.
THEOREM SingleCarrier == Spec => []OneCarrier
  <1>1. DaemonizeInv => OneCarrier
    <2> SUFFICES ASSUME DaemonizeInv PROVE OneCarrier OBVIOUS
    <2> DEFINE Carriers == {p \in Procs : dp[p] \notin Gone}
    <2>1. \E p \in Procs : Carriers = {p}
      BY DEF DaemonizeInv, Succession, Launcher, Child, Grandchild, Left, Gone, Procs
    <2> QED BY <2>1, FS_Singleton DEF OneCarrier
  <1> QED BY <1>1, DaemonizeInvInductive, PTL

\* Whatever the flags and descriptors, the process that daemonize_ returns 0 to
\* has left the terminal's session and leads none.
THEOREM DaemonDetached == Spec => []Detached
  <1>1. DaemonizeInv => Detached
    BY DEF DaemonizeInv, Succession, Sessions, Launcher, Child, Grandchild, Left, Gone,
           Returned, Detached, Procs, Shell
  <1> QED BY <1>1, DaemonizeInvInductive, PTL

-----------------------------------------------------------------------------
(* Descriptors.                                                            *)

\* By the time the streams are reopened every descriptor has been closed.
ClosedBefore ==
    \A p \in Procs : dp[p] = "dp_reopen_streams_dev_null" =>
        \A f \in FDs : fds[p][f] = "closed"

DescriptorInv == DaemonizeInv /\ ClosedBefore /\ CleanDescriptors

\* A fork leaves the descriptors of the processes that reopen or return alone.
LEMMA ForkDescriptors ==
    ASSUME DescriptorInv, NEW p \in Procs, NEW from,
           NEW to \in {"dp_make_session_leader", "dp_clear_file_create_mask"}, Fork(p, from, to)
    PROVE  (ClosedBefore /\ CleanDescriptors)'
  <1> DEFINE Late == {"dp_reopen_streams_dev_null"} \union Returned
  <1>1. /\ dp' = [dp EXCEPT ![p] = "exiting", ![p + 1] = to]
        /\ fds' = [fds EXCEPT ![p + 1] = fds[p]]
        /\ flags' = flags /\ p + 1 \in Procs
    BY DEF Fork, Inherit
  <1>2. dp \in [Procs -> Stages \union {"unborn", "exiting", "exited", "running",
                                        "performing", "terminated"}]
        /\ fds \in [Procs -> [FDs -> {"closed", "inherited", "null"}]]
    BY DEF DescriptorInv, DaemonizeInv, TypeOK
  <1>3. ASSUME NEW q \in Procs, dp'[q] \in Late
        PROVE  dp'[q] = dp[q] /\ fds'[q] = fds[q]
    <2>1. p \in Procs /\ "exiting" \notin Late /\ to \notin Late
      BY DEF Returned
    <2>2. dp'[p + 1] = to /\ (p # p + 1 => dp'[p] = "exiting")
      BY ONLY <1>1, <1>2, <2>1
    <2>3. q # p /\ q # p + 1
      BY <1>3, <2>1, <2>2 DEF Procs
    <2>4. dp'[q] = dp[q]
      BY ONLY <1>1, <1>2, <2>3, q \in Procs
    <2>5. fds'[q] = fds[q]
      BY ONLY <1>1, <1>2, <2>3, q \in Procs
    <2> QED BY <2>4, <2>5
  <1>4. flags' = flags
    BY <1>1
  <1>5. ClosedBefore /\ CleanDescriptors
    BY DEF DescriptorInv
  <1>6. ClosedBefore'
    BY ONLY <1>3, <1>5 DEF ClosedBefore
  <1>7. CleanDescriptors'
    BY ONLY <1>3, <1>4, <1>5 DEF CleanDescriptors
  <1> QED BY <1>6, <1>7

\* A process that goes on to a stage before the reopening, with the descriptors
\* it has, leaves them closed or clean where they were.
LEMMA StageDescriptors ==
    ASSUME DescriptorInv, NEW p \in Procs,
           NEW to, to \notin {"dp_reopen_streams_dev_null"} \union Returned,
           dp' = [dp EXCEPT ![p] = to], UNCHANGED <<flags, fds>>
    PROVE  (ClosedBefore /\ CleanDescriptors)'
  <1>1. \A q \in Procs : dp'[q] \in {"dp_reopen_streams_dev_null"} \union Returned
                            => dp'[q] = dp[q]
    BY DEF DescriptorInv, DaemonizeInv, TypeOK
  <1> QED BY <1>1 DEF DescriptorInv, ClosedBefore, CleanDescriptors, Returned

\* Each step keeps the descriptors closed before the reopening, and clean after.
LEMMA StepDescriptors == DescriptorInv /\ [Next]_vars => (ClosedBefore /\ CleanDescriptors)'
  <1> DEFINE Goal == (ClosedBefore /\ CleanDescriptors)'
  <1> SUFFICES ASSUME DescriptorInv, [Next]_vars PROVE Goal OBVIOUS
  <1> USE DEF DescriptorInv, DaemonizeInv, TypeOK, ClosedBefore, CleanDescriptors, Returned, attrs
  <1>1. ASSUME NEW p \in Procs, ForkBackground(p) PROVE Goal
    BY <1>1, ForkDescriptors DEF ForkBackground
  <1>2. ASSUME NEW p \in Procs, ForkNoSessionLeader(p) PROVE Goal
    BY <1>2, ForkDescriptors DEF ForkNoSessionLeader
  <1>3. ASSUME NEW p \in Procs, ForkFails(p) PROVE Goal
    BY <1>3, StageDescriptors DEF ForkFails
  <1>4. ASSUME NEW p \in Procs, Exit(p) PROVE Goal
    BY <1>4, StageDescriptors DEF Exit
  <1>5. ASSUME NEW p \in Procs, MakeSessionLeader(p) PROVE Goal
    <2>1. /\ \/ dp' = [dp EXCEPT ![p] = "dp_error"]
             \/ dp' = [dp EXCEPT ![p] = "dp_fork_no_session_leader"]
          /\ UNCHANGED <<flags, fds>>
      BY <1>5 DEF MakeSessionLeader
    <2> QED BY <2>1, StageDescriptors
  <1>6. ASSUME NEW p \in Procs, ClearFileCreateMask(p) PROVE Goal
    BY <1>6, StageDescriptors DEF ClearFileCreateMask
  <1>7. ASSUME NEW p \in Procs, ChangeToRootDir(p) PROVE Goal
    BY <1>7, StageDescriptors DEF ChangeToRootDir
  <1>8. ASSUME NEW p \in Procs, CloseAllOpenFiles(p) PROVE Goal
    BY <1>8 DEF CloseAllOpenFiles
  <1>9. ASSUME NEW p \in Procs, CloseNothing(p) PROVE Goal
    BY <1>9 DEF CloseNothing, vars
  <1>10. ASSUME NEW p \in Procs, ReopenStreams(p) PROVE Goal
    BY <1>10 DEF ReopenStreams
  <1>11. ASSUME NEW p \in Procs, ReopenFails(p) PROVE Goal
    BY <1>11 DEF ReopenFails
  <1>12. ASSUME NEW p \in Procs, Main(p) PROVE Goal
    BY <1>12 DEF Main
  <1>13. CASE UNCHANGED vars
    BY <1>13 DEF vars
  <1> QED BY <1>1, <1>2, <1>3, <1>4, <1>5, <1>6, <1>7, <1>8, <1>9, <1>10, <1>11, <1>12,
             <1>13 DEF Next, Step

\* Whatever the flags and descriptors, the daemon starts with the null device
\* as its standard streams, or none, and with no other descriptor.
THEOREM DaemonDescriptors == Spec => []CleanDescriptors
  <1>1. Init => DescriptorInv
    BY InitInv DEF Init, DescriptorInv, ClosedBefore, CleanDescriptors, Returned
  <1>2. DescriptorInv /\ [Next]_vars => DescriptorInv'
    BY StepDescriptors, StepType, StepSuccession DEF DescriptorInv, DaemonizeInv
  <1>3. DescriptorInv => CleanDescriptors
    BY DEF DescriptorInv
  <1> QED BY <1>1, <1>2, <1>3, PTL DEF Spec

-----------------------------------------------------------------------------
(* The policy-based daemon.                                                *)

Places == Stages \union {"unborn", "exiting", "exited", "running", "performing", "terminated"}

\* Where the processes of the dispatcher are when no fork and no setsid() has
\* failed, and whose session they have left.
Lineage ==
    /\ dp[1] \in {"dp_clear_file_create_mask", "dp_close_all_open_files",
                  "dp_reopen_streams_dev_null", "dp_fork_background_proc",
                  "exiting", "exited", "terminated"}
    /\ dp[2] \in {"unborn", "dp_make_session_leader", "dp_fork_no_session_leader",
                  "exiting", "exited", "terminated"}
    /\ dp[3] \in {"unborn", "dp_change_to_root_dir", "performing", "terminated"}
    /\ dp[2] = "dp_fork_no_session_leader" => session[2] = 2 /\ group[2] = 2
    /\ dp[3] # "unborn" => session[3] = 2 /\ group[3] = 2

LineageInv ==
    /\ dp \in [Procs -> Places]
    /\ session \in [Procs -> Procs \union {Shell}] /\ group \in [Procs -> Procs \union {Shell}]
    /\ entry = "main" => \A p \in Procs : dp[p] # "performing"
    /\ entry = "daemonize" /\ "init" \notin failed => Lineage

\* What the stage of a process says of its descriptors.
Cleaned(p) ==
    /\ dp[p] = "dp_reopen_streams_dev_null" => \A f \in FDs : fds[p][f] = "closed"
    /\ dp[p] \in {"dp_fork_background_proc", "dp_make_session_leader",
                  "dp_fork_no_session_leader", "dp_error", "dp_change_to_root_dir", "performing"}
       => \A f \in FDs : fds[p][f] = IF f \in StdStreams THEN "null" ELSE "closed"

CleanInv ==
    /\ dp \in [Procs -> Places] /\ fds \in [Procs -> [FDs -> {"closed", "inherited", "null"}]]
    /\ entry = "main" => \A p \in Procs : dp[p] # "performing"
    /\ entry = "daemonize" /\ policy = "close_all_descriptors" /\ "streams" \notin failed
       => \A p \in Procs : Cleaned(p)

-----------------------------------------------------------------------------
\* Either program starts in one process.
LEMMA LineageInit == LaunchInit => LineageInv
  <1> SUFFICES ASSUME LaunchInit PROVE LineageInv OBVIOUS
  <1> USE DEF LineageInv, Lineage, Places, Stages, Procs, Shell
  <1>1. CASE Init /\ entry = "main"
    BY <1>1 DEF Init
  <1>2. CASE MetaInit
    BY <1>2 DEF MetaInit
  <1> QED BY <1>1, <1>2 DEF LaunchInit

\* cci-daemon's own main never comes to the procedure.
LEMMA LineageMain ==
    ASSUME LineageInv, entry = "main", NEW p \in Procs, MainStep(p) \/ Signal(p)
    PROVE  LineageInv'
  <1> USE DEF LineageInv, Places, Stages, attrs, choices
  <1> UNCHANGED <<entry, policy, failed>>
    BY DEF MainStep, Signal
  <1>1. CASE ForkBackground(p)
    BY <1>1 DEF ForkBackground, Fork, Inherit
  <1>2. CASE ForkNoSessionLeader(p)
    BY <1>2 DEF ForkNoSessionLeader, Fork, Inherit
  <1>3. CASE ForkFails(p)
    BY <1>3 DEF ForkFails
  <1>4. CASE Exit(p)
    BY <1>4 DEF Exit
  <1>5. CASE MakeSessionLeader(p)
    BY <1>5 DEF MakeSessionLeader
  <1>6. CASE ClearFileCreateMask(p)
    BY <1>6 DEF ClearFileCreateMask
  <1>7. CASE ChangeToRootDir(p)
    BY <1>7 DEF ChangeToRootDir
  <1>8. CASE CloseAllOpenFiles(p)
    BY <1>8 DEF CloseAllOpenFiles
  <1>9. CASE CloseNothing(p)
    BY <1>9 DEF CloseNothing, vars
  <1>10. CASE ReopenStreams(p)
    BY <1>10 DEF ReopenStreams
  <1>11. CASE ReopenFails(p)
    BY <1>11 DEF ReopenFails
  <1>12. CASE Main(p)
    BY <1>12 DEF Main
  <1>13. CASE Signal(p)
    BY <1>13 DEF Signal
  <1> QED
    BY <1>1, <1>2, <1>3, <1>4, <1>5, <1>6, <1>7, <1>8, <1>9, <1>10, <1>11, <1>12, <1>13
       DEF MainStep, Step

\* A process that goes on from one of its stages to another, its session and
\* its group as they were.
LEMMA LineageMoves ==
    ASSUME Lineage, dp \in [Procs -> Places], NEW p \in Procs, NEW to,
           dp' = [dp EXCEPT ![p] = to], UNCHANGED <<session, group>>,
           p = 1 => to \in {"dp_clear_file_create_mask", "dp_close_all_open_files",
                            "dp_reopen_streams_dev_null", "dp_fork_background_proc",
                            "exiting", "exited", "terminated"},
           p = 2 => to \in {"exiting", "exited", "terminated"},
           p = 3 => dp[3] # "unborn" /\ to \in {"performing", "terminated"}
    PROVE  Lineage'
  <1>1. CASE p = 1
    <2>1. dp'[1] = to /\ dp'[2] = dp[2] /\ dp'[3] = dp[3]
      BY <1>1 DEF Procs
    <2> QED BY <1>1, <2>1 DEF Lineage
  <1>2. CASE p = 2
    <2>1. dp'[2] = to /\ dp'[1] = dp[1] /\ dp'[3] = dp[3]
      BY <1>2 DEF Procs
    <2> QED BY <1>2, <2>1 DEF Lineage
  <1>3. CASE p = 3
    <2>1. dp'[3] = to /\ dp'[2] = dp[2] /\ dp'[1] = dp[1]
      BY <1>3 DEF Procs
    <2> QED BY <1>3, <2>1 DEF Lineage
  <1> QED BY <1>1, <1>2, <1>3 DEF Procs

\* Every step of the dispatcher hands over to the next process, or a failure is
\* remembered.
LEMMA LineageMeta ==
    ASSUME LineageInv, entry # "main", NEW p \in Procs, MetaStep(p) \/ Signal(p)
    PROVE  LineageInv'
  <1> DEFINE Before == entry = "daemonize" /\ "init" \notin failed
             Typed == /\ dp \in [Procs -> Places]
                      /\ session \in [Procs -> Procs \union {Shell}]
                      /\ group \in [Procs -> Procs \union {Shell}]
  <1> USE DEF attrs, choices, Goto, Places, Stages
  <1>0. Typed /\ (Before => Lineage)
    BY DEF LineageInv
  <1>s. 1 \in Procs /\ 2 \in Procs /\ 3 \in Procs /\ (p = 1 \/ p = 2 \/ p = 3)
    BY DEF Procs
  <1>1. CASE ClearMask(p)
    <2>1. Typed' /\ UNCHANGED <<entry, session, group>> /\ (Before' => Before)
      BY <1>0, <1>1 DEF ClearMask
    <2>2. ASSUME Before PROVE Lineage'
      BY <1>0, <1>s, <1>1, <2>2, LineageMoves DEF ClearMask, Lineage
    <2> QED BY <2>1, <2>2 DEF LineageInv
  <1>2. CASE CloseAll(p)
    <2>1. Typed' /\ UNCHANGED <<entry, session, group>> /\ (Before' => Before)
      BY <1>0, <1>2 DEF CloseAll
    <2>2. ASSUME Before PROVE Lineage'
      BY <1>0, <1>s, <1>2, <2>2, LineageMoves DEF CloseAll, Lineage
    <2> QED BY <2>1, <2>2 DEF LineageInv
  <1>3. CASE Reopen(p)
    <2>1. Typed' /\ UNCHANGED <<entry, session, group>> /\ (Before' => Before)
      BY <1>0, <1>3 DEF Reopen
    <2>2. ASSUME Before PROVE Lineage'
      BY <1>0, <1>s, <1>3, <2>2, LineageMoves DEF Reopen, Lineage
    <2> QED BY <2>1, <2>2 DEF LineageInv
  <1>4. CASE InitExit(p)
    <2>1. Typed' /\ UNCHANGED <<entry, session, group>> /\ (Before' => Before)
      BY <1>0, <1>4 DEF InitExit, Exit
    <2>2. ASSUME Before PROVE Lineage'
      BY <1>0, <1>s, <1>4, <2>2, LineageMoves DEF InitExit, Exit, Lineage
    <2> QED BY <2>1, <2>2 DEF LineageInv
  <1>5. CASE InitFailed(p)
    <2>1. Typed' /\ UNCHANGED <<entry, session, group>> /\ (Before' => Before)
      BY <1>0, <1>5 DEF InitFailed
    <2>2. ASSUME Before PROVE Lineage'
      BY <1>0, <1>s, <1>5, <2>2, LineageMoves DEF InitFailed, Lineage
    <2> QED BY <2>1, <2>2 DEF LineageInv
  <1>6. CASE CdToRoot(p)
    <2>1. Typed' /\ UNCHANGED <<entry, session, group>> /\ (Before' => Before)
      BY <1>0, <1>6 DEF CdToRoot
    <2>2. ASSUME Before PROVE Lineage'
      BY <1>0, <1>s, <1>6, <2>2, LineageMoves DEF CdToRoot, Lineage
    <2> QED BY <2>1, <2>2 DEF LineageInv
  <1>7. CASE Signal(p)
    <2>1. Typed' /\ UNCHANGED <<entry, session, group>> /\ (Before' => Before)
      BY <1>0, <1>7 DEF Signal, Gone
    <2>2. ASSUME Before PROVE Lineage'
      BY <1>0, <1>s, <1>7, <2>2, LineageMoves DEF Signal, Gone, Lineage
    <2> QED BY <2>1, <2>2 DEF LineageInv
  <1>8. CASE InitForkBackground(p)
    <2>1. Typed' /\ UNCHANGED <<entry, failed>>
      BY <1>0, <1>s, <1>8 DEF InitForkBackground, Fork, Inherit
    <2>2. ASSUME Before PROVE Lineage'
      <3>1. p = 1
        BY <1>0, <1>s, <1>8, <2>2 DEF InitForkBackground, Fork, Lineage
      <3>2. dp' = [dp EXCEPT ![1] = "exiting", ![2] = "dp_make_session_leader"]
        BY <3>1, <1>8 DEF InitForkBackground, Fork
      <3>3. dp'[1] = "exiting" /\ dp'[2] = "dp_make_session_leader" /\ dp'[3] = dp[3]
        BY <3>2, <1>0, <1>s
      <3>4. session'[3] = session[3] /\ group'[3] = group[3]
        BY <3>1, <1>8, <1>0, <1>s DEF InitForkBackground, Fork, Inherit
      <3> QED BY <3>3, <3>4, <1>0, <2>2 DEF Lineage
    <2> QED BY <2>1, <2>2 DEF LineageInv
  <1>9. CASE InitForkNoSessionLeader(p)
    <2>1. Typed' /\ UNCHANGED <<entry, failed>>
      BY <1>0, <1>s, <1>9 DEF InitForkNoSessionLeader, Fork, Inherit
    <2>2. ASSUME Before PROVE Lineage'
      <3>1. p = 2
        BY <1>0, <1>s, <1>9, <2>2 DEF InitForkNoSessionLeader, Fork, Lineage
      <3>2. dp' = [dp EXCEPT ![2] = "exiting", ![3] = "dp_change_to_root_dir"]
        BY <3>1, <1>9 DEF InitForkNoSessionLeader, Fork
      <3>3. dp'[1] = dp[1] /\ dp'[2] = "exiting" /\ dp'[3] = "dp_change_to_root_dir"
        BY <3>2, <1>0, <1>s
      <3>4. session[2] = 2 /\ group[2] = 2
        BY <3>1, <1>9, <1>0, <2>2 DEF InitForkNoSessionLeader, Fork, Lineage
      <3>5. session'[3] = 2 /\ group'[3] = 2
        BY <3>1, <3>4, <1>9, <1>0, <1>s DEF InitForkNoSessionLeader, Fork, Inherit
      <3> QED BY <3>3, <3>5, <1>0, <2>2 DEF Lineage
    <2> QED BY <2>1, <2>2 DEF LineageInv
  <1>10. CASE InitForkFails(p)
    <2>1. Typed' /\ UNCHANGED entry /\ "init" \in failed'
      BY <1>0, <1>10 DEF InitForkFails, ForkFails
    <2> QED BY <2>1 DEF LineageInv
  <1>11. CASE InitSessionLeader(p)
    <2>1. CASE group[p] = p
      <3>1. dp'[p] = "dp_error"
        BY <1>0, <1>11, <2>1 DEF InitSessionLeader, MakeSessionLeader
      <3>2. Typed' /\ UNCHANGED entry /\ "init" \in failed'
        BY <1>0, <1>11, <2>1, <3>1 DEF InitSessionLeader, MakeSessionLeader
      <3> QED BY <3>2 DEF LineageInv
    <2>2. CASE group[p] # p
      <3>1. /\ dp' = [dp EXCEPT ![p] = "dp_fork_no_session_leader"]
            /\ session' = [session EXCEPT ![p] = p]
            /\ group' = [group EXCEPT ![p] = p]
        BY <1>11, <2>2 DEF InitSessionLeader, MakeSessionLeader
      <3>2. dp'[p] = "dp_fork_no_session_leader"
        BY <3>1, <1>0
      <3>3. UNCHANGED <<entry, failed>>
        BY <1>11, <3>2 DEF InitSessionLeader
      <3>4. Typed'
        BY <3>1, <1>0, <1>s
      <3>5. ASSUME Before PROVE Lineage'
        <4>1. p = 2
          BY <1>0, <1>s, <1>11, <3>5 DEF InitSessionLeader, MakeSessionLeader, Lineage
        <4>2. /\ dp'[1] = dp[1] /\ dp'[2] = "dp_fork_no_session_leader" /\ dp'[3] = dp[3]
              /\ session'[2] = 2 /\ group'[2] = 2
              /\ session'[3] = session[3] /\ group'[3] = group[3]
          BY <3>1, <4>1, <1>0, <1>s
        <4> QED BY <4>2, <1>0, <3>5 DEF Lineage
      <3> QED BY <3>3, <3>4, <3>5 DEF LineageInv
    <2> QED BY <2>1, <2>2
  <1> QED
    BY <1>1, <1>2, <1>3, <1>4, <1>5, <1>6, <1>7, <1>8, <1>9, <1>10, <1>11 DEF MetaStep

\* The stages and the sessions go together in every step of either program.
LEMMA LineageStep == LineageInv /\ [LaunchNext]_metaVars => LineageInv'
  <1> SUFFICES ASSUME LineageInv, [LaunchNext]_metaVars PROVE LineageInv' OBVIOUS
  <1>1. CASE UNCHANGED metaVars
    BY <1>1 DEF metaVars, vars, LineageInv, Lineage
  <1>2. CASE LaunchNext
    BY <1>2, LineageMain, LineageMeta DEF LaunchNext, ProgramStep, MainStep
  <1> QED BY <1>1, <1>2

-----------------------------------------------------------------------------
\* Nothing is said of the descriptors at the start.
LEMMA CleanInit == LaunchInit => CleanInv
  <1> SUFFICES ASSUME LaunchInit PROVE CleanInv OBVIOUS
  <1> USE DEF CleanInv, Cleaned, Places, Stages, Procs
  <1>1. CASE Init /\ entry = "main"
    <2>1. PICK f \in [FDs -> {"closed", "inherited"}] : fds = [p \in Procs |-> f]
      BY <1>1 DEF Init
    <2>2. f \in [FDs -> {"closed", "inherited", "null"}]
      OBVIOUS
    <2> QED BY <1>1, <2>1, <2>2 DEF Init
  <1>2. CASE MetaInit
    <2>1. PICK f \in [FDs -> {"closed", "inherited"}] : fds = [p \in Procs |-> f]
      BY <1>2 DEF MetaInit
    <2>2. f \in [FDs -> {"closed", "inherited", "null"}]
      OBVIOUS
    <2> QED BY <1>2, <2>1, <2>2 DEF MetaInit
  <1> QED BY <1>1, <1>2 DEF LaunchInit

\* cci-daemon's own main is not concerned.
LEMMA CleanMain ==
    ASSUME CleanInv, entry = "main", NEW p \in Procs, MainStep(p) \/ Signal(p)
    PROVE  CleanInv'
  <1> USE DEF CleanInv, Places, Stages, attrs, choices
  <1> UNCHANGED <<entry, policy, failed>>
    BY DEF MainStep, Signal
  <1>1. CASE ForkBackground(p)
    BY <1>1 DEF ForkBackground, Fork, Inherit
  <1>2. CASE ForkNoSessionLeader(p)
    BY <1>2 DEF ForkNoSessionLeader, Fork, Inherit
  <1>3. CASE ForkFails(p)
    BY <1>3 DEF ForkFails
  <1>4. CASE Exit(p)
    BY <1>4 DEF Exit
  <1>5. CASE MakeSessionLeader(p)
    BY <1>5 DEF MakeSessionLeader
  <1>6. CASE ClearFileCreateMask(p)
    BY <1>6 DEF ClearFileCreateMask
  <1>7. CASE ChangeToRootDir(p)
    BY <1>7 DEF ChangeToRootDir
  <1>8. CASE CloseAllOpenFiles(p)
    BY <1>8 DEF CloseAllOpenFiles
  <1>9. CASE CloseNothing(p)
    BY <1>9 DEF CloseNothing, vars
  <1>10. CASE ReopenStreams(p)
    BY <1>10 DEF ReopenStreams
  <1>11. CASE ReopenFails(p)
    BY <1>11 DEF ReopenFails
  <1>12. CASE Main(p)
    BY <1>12 DEF Main
  <1>13. CASE Signal(p)
    BY <1>13 DEF Signal
  <1> QED
    BY <1>1, <1>2, <1>3, <1>4, <1>5, <1>6, <1>7, <1>8, <1>9, <1>10, <1>11, <1>12, <1>13
       DEF MainStep, Step

\* A child has the descriptors its parent has cleaned.
LEMMA CleanMeta ==
    ASSUME CleanInv, entry # "main", NEW p \in Procs, MetaStep(p) \/ Signal(p)
    PROVE  CleanInv'
  <1> USE DEF CleanInv, Cleaned, Places, Stages, attrs, choices, Goto
  <1>1. CASE ClearMask(p)
    BY <1>1 DEF ClearMask
  <1>2. CASE CloseAll(p)
    BY <1>2 DEF CloseAll
  <1>3. CASE Reopen(p)
    BY <1>3 DEF Reopen
  <1>4. CASE InitForkBackground(p)
    BY <1>4 DEF InitForkBackground, Fork, Inherit
  <1>5. CASE InitForkFails(p)
    BY <1>5 DEF InitForkFails, ForkFails
  <1>6. CASE InitSessionLeader(p)
    BY <1>6 DEF InitSessionLeader, MakeSessionLeader
  <1>7. CASE InitForkNoSessionLeader(p)
    BY <1>7 DEF InitForkNoSessionLeader, Fork, Inherit
  <1>8. CASE InitExit(p)
    BY <1>8 DEF InitExit, Exit
  <1>9. CASE InitFailed(p)
    BY <1>9 DEF InitFailed
  <1>10. CASE CdToRoot(p)
    BY <1>10 DEF CdToRoot
  <1>11. CASE Signal(p)
    BY <1>11 DEF Signal, Gone
  <1> QED
    BY <1>1, <1>2, <1>3, <1>4, <1>5, <1>6, <1>7, <1>8, <1>9, <1>10, <1>11 DEF MetaStep

\* What is clean stays clean in every step of either program.
LEMMA CleanStep == CleanInv /\ [LaunchNext]_metaVars => CleanInv'
  <1> SUFFICES ASSUME CleanInv, [LaunchNext]_metaVars PROVE CleanInv' OBVIOUS
  <1>1. CASE UNCHANGED metaVars
    BY <1>1 DEF metaVars, vars, CleanInv, Cleaned
  <1>2. CASE LaunchNext
    BY <1>2, CleanMain, CleanMeta DEF LaunchNext, ProgramStep, MainStep
  <1> QED BY <1>1, <1>2

-----------------------------------------------------------------------------
\* Whatever the launcher's group and whatever signals come, the process in which
\* cci_daemon_dispatcher::daemonize performs has left the terminal's session and
\* group and leads neither, unless a fork() or setsid() failed.
THEOREM DispatcherDetached == LaunchSteps => []PerformsDetached
  <1>1. LineageInv => PerformsDetached
    BY DEF LineageInv, Lineage, PerformsDetached, Procs, Shell
  <1> QED BY <1>1, LineageInit, LineageStep, PTL DEF LaunchSteps

\* However many descriptors the launcher leaves open, with close_all_descriptors
\* none reaches the process that performs, unless the null device failed.
THEOREM DispatcherClean == LaunchSteps => []PerformsClean
  <1>1. CleanInv => PerformsClean
    BY DEF CleanInv, Cleaned, PerformsClean
  <1> QED BY <1>1, CleanInit, CleanStep, PTL DEF LaunchSteps

-----------------------------------------------------------------------------
(* Both programs.                                                          *)

\* The baton: one process has it, the ones before it have left, and the ones
\* after it are not born.
Baton(p) ==
    /\ dp[p] \notin Gone
    /\ \A q \in Procs : (q < p => dp[q] \in Left) /\ (q > p => dp[q] = "unborn")

RelayInv == dp \in [Procs -> Places] /\ \E p \in Procs : Baton(p)

\* A process that goes on keeps the baton.
LEMMA BatonKept ==
    ASSUME RelayInv, NEW p \in Procs, dp[p] \notin Gone,
           NEW to \in Places \ Gone, dp' = [dp EXCEPT ![p] = to]
    PROVE  RelayInv'
<1>1. PICK h \in Procs : Baton(h)
  BY DEF RelayInv
<1>2. h = p
  BY <1>1 DEF Baton, Left, Gone, Procs
<1>3. dp \in [Procs -> Places] /\ dp' \in [Procs -> Places]
  BY DEF RelayInv
<1>4. dp'[p] = to /\ \A q \in Procs : q # p => dp'[q] = dp[q]
  BY <1>3
<1>5. Baton(p)'
  BY <1>1, <1>2, <1>4 DEF Baton, Procs
<1> QED BY <1>3, <1>5 DEF RelayInv

\* fork() hands it on.
LEMMA BatonHandedOn ==
    ASSUME RelayInv, NEW p \in Procs, p + 1 \in Procs, dp[p] \notin Gone,
           NEW to \in Places \ Gone, dp' = [dp EXCEPT ![p] = "exiting", ![p + 1] = to]
    PROVE  RelayInv'
<1>1. PICK h \in Procs : Baton(h)
  BY DEF RelayInv
<1>2. h = p
  BY <1>1 DEF Baton, Left, Gone, Procs
<1>3. dp \in [Procs -> Places] /\ dp' \in [Procs -> Places]
  BY DEF RelayInv, Places
<1>4. dp'[p] = "exiting" /\ dp'[p + 1] = to
  BY <1>3 DEF Procs
<1>5. \A q \in Procs : q # p /\ q # p + 1 => dp'[q] = dp[q]
  BY <1>3
<1>6. Baton(p + 1)'
  <2>1. ASSUME NEW q \in Procs, q < p + 1 PROVE dp'[q] \in Left
    BY <1>1, <1>2, <1>4, <1>5, <2>1 DEF Baton, Left, Procs
  <2>2. ASSUME NEW q \in Procs, q > p + 1 PROVE dp'[q] = "unborn"
    BY <1>1, <1>2, <1>5, <2>2 DEF Baton, Procs
  <2> QED BY <1>4, <2>1, <2>2 DEF Baton
<1> QED BY <1>3, <1>6 DEF RelayInv

\* One that has handed it on exits.
LEMMA BatonExit ==
    ASSUME RelayInv, NEW p \in Procs, Exit(p) PROVE RelayInv'
<1>1. PICK h \in Procs : Baton(h)
  BY DEF RelayInv
<1>2. dp[p] = "exiting" /\ dp' = [dp EXCEPT ![p] = "exited"]
  BY DEF Exit
<1>3. dp \in [Procs -> Places] /\ dp' \in [Procs -> Places]
  BY <1>2 DEF RelayInv, Places
<1>4. dp'[p] = "exited" /\ \A q \in Procs : q # p => dp'[q] = dp[q]
  BY <1>2, <1>3
<1>5. h # p /\ ~(p > h)
  BY <1>1, <1>2 DEF Baton, Gone
<1>6. Baton(h)'
  BY <1>1, <1>4, <1>5 DEF Baton, Left
<1> QED BY <1>3, <1>6 DEF RelayInv

\* Every step of either program is one of these, or leaves the stages alone.
LEMMA RelayStep == RelayInv /\ [LaunchNext]_metaVars => RelayInv'
<1> SUFFICES ASSUME RelayInv, [LaunchNext]_metaVars PROVE RelayInv'
  OBVIOUS
<1> DEFINE Moves(p) == dp[p] \notin Gone /\ \E to \in Places \ Gone : dp' = [dp EXCEPT ![p] = to]
           Hands(p) == /\ p + 1 \in Procs /\ dp[p] \notin Gone
                       /\ \E to \in Places \ Gone : dp' = [dp EXCEPT ![p] = "exiting", ![p + 1] = to]
<1>1. ASSUME NEW p \in Procs, Moves(p) \/ Hands(p) \/ Exit(p) \/ UNCHANGED dp PROVE RelayInv'
  <2>1. CASE UNCHANGED dp
    BY <2>1 DEF RelayInv, Baton
  <2> QED BY <1>1, <2>1, BatonKept, BatonHandedOn, BatonExit
<1>2. ASSUME NEW p \in Procs, MainStep(p) PROVE Moves(p) \/ Hands(p) \/ Exit(p) \/ UNCHANGED dp
  <2> USE DEF Places, Stages, Gone
  <2>1. CASE ForkBackground(p) \/ ForkNoSessionLeader(p)
    BY <2>1 DEF ForkBackground, ForkNoSessionLeader, Fork
  <2>2. CASE ForkFails(p)
    BY <2>2 DEF ForkFails
  <2>3. CASE MakeSessionLeader(p)
    BY <2>3 DEF MakeSessionLeader
  <2>4. CASE ClearFileCreateMask(p) \/ ChangeToRootDir(p)
    BY <2>4 DEF ClearFileCreateMask, ChangeToRootDir
  <2>5. CASE CloseAllOpenFiles(p)
    BY <2>5 DEF CloseAllOpenFiles
  <2>6. CASE CloseNothing(p)
    BY <2>6 DEF CloseNothing, vars
  <2>7. CASE ReopenStreams(p)
    BY <2>7 DEF ReopenStreams
  <2>8. CASE ReopenFails(p)
    BY <2>8 DEF ReopenFails
  <2>9. CASE Main(p)
    BY <2>9 DEF Main
  <2> QED BY <1>2, <2>1, <2>2, <2>3, <2>4, <2>5, <2>6, <2>7, <2>8, <2>9 DEF MainStep, Step
<1>3. ASSUME NEW p \in Procs, MetaStep(p) \/ Signal(p)
      PROVE  Moves(p) \/ Hands(p) \/ Exit(p) \/ UNCHANGED dp
  <2> USE DEF Places, Stages, Gone, Goto
  <2>1. CASE ClearMask(p)
    BY <2>1 DEF ClearMask
  <2>2. CASE CloseAll(p)
    BY <2>2 DEF CloseAll
  <2>3. CASE Reopen(p)
    BY <2>3 DEF Reopen
  <2>4. CASE InitForkBackground(p) \/ InitForkNoSessionLeader(p)
    BY <2>4 DEF InitForkBackground, InitForkNoSessionLeader, Fork
  <2>5. CASE InitForkFails(p)
    BY <2>5 DEF InitForkFails, ForkFails
  <2>6. CASE InitSessionLeader(p)
    BY <2>6 DEF InitSessionLeader, MakeSessionLeader
  <2>7. CASE InitExit(p)
    BY <2>7 DEF InitExit
  <2>8. CASE InitFailed(p)
    BY <2>8 DEF InitFailed
  <2>9. CASE CdToRoot(p)
    BY <2>9 DEF CdToRoot
  <2>10. CASE Signal(p)
    BY <2>10 DEF Signal
  <2> QED BY <1>3, <2>1, <2>2, <2>3, <2>4, <2>5, <2>6, <2>7, <2>8, <2>9, <2>10 DEF MetaStep
<1>4. CASE UNCHANGED metaVars
  BY <1>4 DEF metaVars, vars, RelayInv, Baton
<1> HIDE DEF Moves, Hands
<1> QED BY <1>1, <1>2, <1>3, <1>4 DEF LaunchNext, ProgramStep

\* Only daemonize_ returns, and what it promises is about itself.
LaunchInv ==
    /\ RelayInv
    /\ entry = "main" => DescriptorInv
    /\ entry # "main" => \A p \in Procs : dp[p] \notin Returned

\* Either program starts like that.
LEMMA LaunchInitInv == LaunchInit => LaunchInv
<1> SUFFICES ASSUME LaunchInit PROVE LaunchInv
  OBVIOUS
<1>1. RelayInv
  <2>1. dp \in [Procs -> Places] /\ Baton(1)
    BY DEF LaunchInit, Init, MetaInit, Places, Stages, Procs, Baton, Gone
  <2> QED BY <2>1 DEF RelayInv, Procs
<1>2. ASSUME entry = "main" PROVE DescriptorInv
  <2>1. Init
    BY <1>2 DEF LaunchInit, MetaInit
  <2> QED BY <2>1, InitInv DEF Init, DescriptorInv, ClosedBefore, CleanDescriptors, Returned
<1>3. ASSUME entry # "main", NEW p \in Procs PROVE dp[p] \notin Returned
  BY <1>3 DEF LaunchInit, MetaInit, Returned
<1> QED BY <1>1, <1>2, <1>3 DEF LaunchInv

\* A signal leaves the one that it ends without a successor, and the rest alone.
LEMMA SignalDescriptors ==
    ASSUME DescriptorInv, NEW p \in Procs, Signal(p) PROVE DescriptorInv'
<1>1. /\ dp[p] \notin Gone /\ dp' = [dp EXCEPT ![p] = "terminated"]
      /\ UNCHANGED <<flags, session, group, fds, cwd, mask>>
  BY DEF Signal, attrs
<1>2. TypeOK /\ Succession /\ Sessions
  BY DEF DescriptorInv, DaemonizeInv
<1>3. TypeOK'
  BY <1>1, <1>2 DEF TypeOK
<1>4. dp'[p] = "terminated" /\ \A q \in Procs : q # p => dp'[q] = dp[q]
  BY <1>1, <1>2 DEF TypeOK
<1>5. Succession' /\ Sessions'
  BY <1>1, <1>2, <1>4 DEF Succession, Sessions, Launcher, Child, Grandchild, Left, Gone, Procs
<1>6. (ClosedBefore /\ CleanDescriptors)'
  BY <1>1, StageDescriptors DEF Returned
<1> QED BY <1>3, <1>5, <1>6 DEF DescriptorInv, DaemonizeInv

\* Every step of either program keeps it.
LEMMA LaunchInvStep == LaunchInv /\ [LaunchNext]_metaVars => LaunchInv'
<1> SUFFICES ASSUME LaunchInv, [LaunchNext]_metaVars PROVE LaunchInv'
  OBVIOUS
<1>1. RelayInv'
  BY RelayStep DEF LaunchInv
<1>2. entry' = entry
  BY DEF LaunchNext, ProgramStep, MainStep, MetaStep, ClearMask, CloseAll, Reopen, InitForkBackground,
         InitForkFails, InitSessionLeader, InitForkNoSessionLeader, InitExit, InitFailed, CdToRoot,
         Signal, choices, metaVars
<1>3. ASSUME entry = "main" PROVE DescriptorInv'
  <2>1. [Next]_vars \/ \E p \in Procs : Signal(p)
    BY <1>3 DEF LaunchNext, ProgramStep, MainStep, Next, metaVars
  <2>2. CASE [Next]_vars
    BY <1>3, <2>2, StepDescriptors, StepType, StepSuccession
       DEF LaunchInv, DescriptorInv, DaemonizeInv
  <2> QED BY <1>3, <2>1, <2>2, SignalDescriptors DEF LaunchInv
<1>4. ASSUME entry # "main", NEW q \in Procs PROVE dp'[q] \notin Returned
  <2>0. dp \in [Procs -> Places] /\ dp[q] \notin Returned
    BY <1>4 DEF LaunchInv, RelayInv
  <2>1. CASE UNCHANGED metaVars
    BY <2>0, <2>1 DEF metaVars, vars
  <2>2. ASSUME NEW p \in Procs, MetaStep(p) \/ Signal(p) PROVE dp'[q] \notin Returned
    BY <2>0, <2>2 DEF MetaStep, ClearMask, CloseAll, Reopen, InitForkBackground, InitForkFails,
       InitSessionLeader, InitForkNoSessionLeader, InitExit, InitFailed, CdToRoot, Signal, Goto,
       Fork, ForkFails, MakeSessionLeader, Exit, Returned
  <2> QED BY <1>4, <2>1, <2>2 DEF LaunchNext, ProgramStep, MainStep
<1> QED BY <1>1, <1>2, <1>3, <1>4 DEF LaunchInv

\* Of either program exactly one process goes on, or has been ended by a signal, at
\* any time, whatever fails and whenever SIGTERM or SIGINT comes, so that no daemon
\* is started twice; the daemon that daemonize_ makes is detached, and its
\* descriptors are clean.
THEOREM OneDaemon == LaunchSteps => [](OneCarrier /\ Detached /\ CleanDescriptors)
<1>1. ASSUME LaunchInv PROVE OneCarrier
  <2>1. PICK p \in Procs : Baton(p)
    BY <1>1 DEF LaunchInv, RelayInv
  <2>2. {q \in Procs : dp[q] \notin Gone} = {p}
    BY <2>1 DEF Baton, Left, Gone, Procs
  <2> QED BY <2>2, FS_Singleton DEF OneCarrier
<1>2. ASSUME LaunchInv PROVE Detached /\ CleanDescriptors
  <2>1. CASE entry = "main"
    BY <1>2, <2>1 DEF LaunchInv, DescriptorInv, DaemonizeInv, Succession, Sessions, Launcher,
       Child, Grandchild, Left, Gone, Returned, Detached, Procs, Shell
  <2>2. CASE entry # "main"
    BY <1>2, <2>2 DEF LaunchInv, Detached, CleanDescriptors
  <2> QED BY <2>1, <2>2
<1>3. LaunchInv => OneCarrier /\ Detached /\ CleanDescriptors
  BY <1>1, <1>2
<1> QED BY LaunchInitInv, LaunchInvStep, <1>3, PTL DEF LaunchSteps

\* The two invariants of the dispatcher type all but these.
RestTyped ==
    /\ flags \in FlagSets /\ cwd \in [Procs -> {"start", "root"}]
    /\ mask \in [Procs -> {"inherited", "zero"}]

\* Who changes them keeps their types.
LEMMA RestStep == RestTyped /\ [LaunchNext]_metaVars => RestTyped'
<1> SUFFICES ASSUME RestTyped, [LaunchNext]_metaVars PROVE RestTyped'
  OBVIOUS
<1> USE DEF RestTyped, attrs
<1>1. ASSUME NEW p \in Procs, Step(p) PROVE RestTyped'
  <2>1. CASE ForkBackground(p) \/ ForkNoSessionLeader(p)
    BY <2>1 DEF ForkBackground, ForkNoSessionLeader, Fork, Inherit
  <2>2. CASE ClearFileCreateMask(p)
    BY <2>2 DEF ClearFileCreateMask
  <2>3. CASE ChangeToRootDir(p)
    BY <2>3 DEF ChangeToRootDir
  <2>4. CASE UNCHANGED <<flags, cwd, mask>>
    BY <2>4
  <2>5. ForkFails(p) \/ Exit(p) \/ MakeSessionLeader(p) \/ CloseAllOpenFiles(p) \/ CloseNothing(p)
          \/ ReopenStreams(p) \/ ReopenFails(p) \/ Main(p) => UNCHANGED <<flags, cwd, mask>>
    BY DEF ForkFails, Exit, MakeSessionLeader, CloseAllOpenFiles, CloseNothing, ReopenStreams,
           ReopenFails, Main, vars
  <2> QED BY <1>1, <2>1, <2>2, <2>3, <2>4, <2>5 DEF Step
<1>2. ASSUME NEW p \in Procs, MetaStep(p) \/ Signal(p) PROVE RestTyped'
  <2>1. CASE InitForkBackground(p) \/ InitForkNoSessionLeader(p)
    BY <2>1 DEF InitForkBackground, InitForkNoSessionLeader, Fork, Inherit
  <2>2. CASE ClearMask(p)
    BY <2>2 DEF ClearMask
  <2>3. CASE CdToRoot(p)
    BY <2>3 DEF CdToRoot
  <2>4. CASE UNCHANGED <<flags, cwd, mask>>
    BY <2>4
  <2>5. CloseAll(p) \/ Reopen(p) \/ InitForkFails(p) \/ InitSessionLeader(p) \/ InitExit(p)
          \/ InitFailed(p) \/ Signal(p) => UNCHANGED <<flags, cwd, mask>>
    BY DEF CloseAll, Reopen, InitForkFails, ForkFails, InitSessionLeader, MakeSessionLeader,
           InitExit, Exit, InitFailed, Signal
  <2> QED BY <1>2, <2>1, <2>2, <2>3, <2>4, <2>5 DEF MetaStep
<1>3. CASE UNCHANGED metaVars
  BY <1>3 DEF metaVars, vars
<1> QED BY <1>1, <1>2, <1>3 DEF LaunchNext, ProgramStep, MainStep

\* If the dispatcher's empty set of flags is among those considered, the
\* variables keep their types in either program, whatever fails in it.
THEOREM LaunchTyped == ASSUME {} \in FlagSets PROVE LaunchSteps => []TypeOK
<1>1. LaunchInit => RestTyped
  BY DEF LaunchInit, Init, MetaInit, RestTyped
<1>2. LineageInv /\ CleanInv /\ RestTyped => TypeOK
  BY DEF LineageInv, CleanInv, RestTyped, TypeOK, Places
<1> QED BY <1>1, <1>2, LineageInit, LineageStep, CleanInit, CleanStep, RestStep, PTL DEF LaunchSteps
=============================================================================
