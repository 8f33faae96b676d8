-------------------------- MODULE DaemonExecProofs --------------------------
(***************************************************************************)
(* Proofs about DaemonExec, for any number of daemons.                     *)
(***************************************************************************)
EXTENDS DaemonExec, TLAPS

\* What write_pid has done by the time a daemon is at a given place: past
\* lock_region it holds the lock, and before the end it has not yet succeeded.
PidProgress ==
    \A d \in Daemons :
        /\ pc[d] \in {"pid_truncate", "pid_write"} => lock = d
        /\ pc[d] \in {"unstarted"} \union Starting \union WritingPid => ~wrote[d]

PidTypeOK ==
    /\ pc \in [Daemons -> Dead \union Starting \union Handling]
    /\ wrote \in [Daemons -> BOOLEAN]
    /\ lock \in Daemons \union {NoPid}

PidInv == PidTypeOK /\ PidProgress /\ PidFileTruthful

LEMMA PidTypeStep == PidInv /\ [Next]_vars => PidTypeOK'
  <1> SUFFICES ASSUME PidInv, [Next]_vars PROVE PidTypeOK' OBVIOUS
  <1> USE DEF PidInv, PidTypeOK, Dead, Starting, Handling, WritingPid, Looping, Goto, Die,
              pidVars, cfgVars
  <1>1. ASSUME NEW d \in Daemons, Start(d) PROVE PidTypeOK'
    BY <1>1 DEF Start
  <1>2. ASSUME NEW d \in Daemons, OpenLog(d) PROVE PidTypeOK'
    BY <1>2 DEF OpenLog
  <1>3. ASSUME NEW d \in Daemons, OpenLogFails(d) PROVE PidTypeOK'
    BY <1>3 DEF OpenLogFails
  <1>4. ASSUME NEW d \in Daemons, InstallHandlers(d) PROVE PidTypeOK'
    BY <1>4 DEF InstallHandlers
  <1>5. ASSUME NEW d \in Daemons, PidOpen(d) PROVE PidTypeOK'
    BY <1>5 DEF PidOpen
  <1>6. ASSUME NEW d \in Daemons, PidLock(d) PROVE PidTypeOK'
    BY <1>6 DEF PidLock
  <1>7. ASSUME NEW d \in Daemons, PidTruncate(d) PROVE PidTypeOK'
    BY <1>7 DEF PidTruncate
  <1>8. ASSUME NEW d \in Daemons, PidWrite(d) PROVE PidTypeOK'
    BY <1>8 DEF PidWrite
  <1>9. ASSUME NEW d \in Daemons, PidFails(d) PROVE PidTypeOK'
    BY <1>9 DEF PidFails
  <1>10. ASSUME NEW d \in Daemons, Sleep(d) PROVE PidTypeOK'
    BY <1>10 DEF Sleep
  <1>11. ASSUME NEW d \in Daemons, Check(d) PROVE PidTypeOK'
    BY <1>11 DEF Check
  <1>12. ASSUME NEW d \in Daemons, ResetHup(d) PROVE PidTypeOK'
    BY <1>12 DEF ResetHup
  <1>13. ASSUME NEW d \in Daemons, ReopenLog(d) PROVE PidTypeOK'
    BY <1>13 DEF ReopenLog
  <1>14. ASSUME NEW d \in Daemons, ReadConfig(d) PROVE PidTypeOK'
    BY <1>14 DEF ReadConfig
  <1>15. ASSUME NEW d \in Daemons, Rearm(d) PROVE PidTypeOK'
    BY <1>15 DEF Rearm
  <1>16. ASSUME NEW d \in Daemons, HupKills(d) PROVE PidTypeOK'
    BY <1>16 DEF HupKills
  <1>17. ASSUME NEW d \in Daemons, Hup(d) PROVE PidTypeOK'
    BY <1>17 DEF Hup
  <1>18. ASSUME NEW d \in Daemons, Term(d) PROVE PidTypeOK'
    BY <1>18 DEF Term
  <1>19. CASE Edit
    BY <1>19 DEF Edit
  <1>20. CASE UNCHANGED vars
    BY <1>20 DEF vars
  <1> QED BY <1>1, <1>2, <1>3, <1>4, <1>5, <1>6, <1>7, <1>8, <1>9, <1>10,
             <1>11, <1>12, <1>13, <1>14, <1>15, <1>16, <1>17, <1>18, <1>19, <1>20 DEF Next, Run

\* Only the holder of the lock truncates or writes the file, and a daemon whose
\* write_pid succeeded keeps the lock until it ends.
LEMMA PidStep == PidInv /\ [Next]_vars => (PidProgress /\ PidFileTruthful)'
  <1> DEFINE Goal == (PidProgress /\ PidFileTruthful)'
  <1> SUFFICES ASSUME PidInv, [Next]_vars PROVE Goal OBVIOUS
  <1> USE ExecAssumption
      DEF PidInv, PidTypeOK, PidProgress, PidFileTruthful, Alive, Dead, Starting, Handling,
          WritingPid, Looping, Goto, Die, pidVars, cfgVars
  <1>1. ASSUME NEW d \in Daemons, Start(d) PROVE Goal
    BY <1>1 DEF Start
  <1>2. ASSUME NEW d \in Daemons, OpenLog(d) PROVE Goal
    BY <1>2 DEF OpenLog
  <1>3. ASSUME NEW d \in Daemons, OpenLogFails(d) PROVE Goal
    BY <1>3 DEF OpenLogFails
  <1>4. ASSUME NEW d \in Daemons, InstallHandlers(d) PROVE Goal
    BY <1>4 DEF InstallHandlers
  <1>5. ASSUME NEW d \in Daemons, PidOpen(d) PROVE Goal
    BY <1>5 DEF PidOpen
  <1>6. ASSUME NEW d \in Daemons, PidLock(d) PROVE Goal
    BY <1>6 DEF PidLock
  <1>7. ASSUME NEW d \in Daemons, PidTruncate(d) PROVE Goal
    BY <1>7 DEF PidTruncate
  <1>8. ASSUME NEW d \in Daemons, PidWrite(d) PROVE Goal
    BY <1>8 DEF PidWrite
  <1>9. ASSUME NEW d \in Daemons, PidFails(d) PROVE Goal
    BY <1>9 DEF PidFails
  <1>10. ASSUME NEW d \in Daemons, Sleep(d) PROVE Goal
    BY <1>10 DEF Sleep
  <1>11. ASSUME NEW d \in Daemons, Check(d) PROVE Goal
    BY <1>11 DEF Check
  <1>12. ASSUME NEW d \in Daemons, ResetHup(d) PROVE Goal
    BY <1>12 DEF ResetHup
  <1>13. ASSUME NEW d \in Daemons, ReopenLog(d) PROVE Goal
    BY <1>13 DEF ReopenLog
  <1>14. ASSUME NEW d \in Daemons, ReadConfig(d) PROVE Goal
    BY <1>14 DEF ReadConfig
  <1>15. ASSUME NEW d \in Daemons, Rearm(d) PROVE Goal
    BY <1>15 DEF Rearm
  <1>16. ASSUME NEW d \in Daemons, HupKills(d) PROVE Goal
    BY <1>16 DEF HupKills
  <1>17. ASSUME NEW d \in Daemons, Hup(d) PROVE Goal
    BY <1>17 DEF Hup
  <1>18. ASSUME NEW d \in Daemons, Term(d) PROVE Goal
    BY <1>18 DEF Term
  <1>19. CASE Edit
    BY <1>19 DEF Edit
  <1>20. CASE UNCHANGED vars
    BY <1>20 DEF vars
  <1> QED BY <1>1, <1>2, <1>3, <1>4, <1>5, <1>6, <1>7, <1>8, <1>9, <1>10,
             <1>11, <1>12, <1>13, <1>14, <1>15, <1>16, <1>17, <1>18, <1>19, <1>20 DEF Next, Run

\* However many daemons are started, and wherever any of them fails or is
\* killed: while a daemon lives whose write_pid succeeded, the pid file names
\* it and it holds the lock.
THEOREM PidFileNamesDaemon == Spec => []PidFileTruthful
  <1>1. Init => PidInv
    BY DEF Init, PidInv, PidTypeOK, PidProgress, PidFileTruthful, Alive, Dead
  <1>2. PidInv /\ [Next]_vars => PidInv'
    BY PidTypeStep, PidStep DEF PidInv
  <1>3. PidInv => PidFileTruthful
    BY DEF PidInv
  <1> QED BY <1>1, <1>2, <1>3, PTL DEF Spec
-----------------------------------------------------------------------------
(* The sleep loop.                                                         *)

\* A daemon has time left to sleep until it has slept: whatever happened to its
\* write_pid, it comes to the loop with the whole of sleep_time.
TimeLeft ==
    \A d \in Daemons :
        pc[d] \in {"unstarted", "sleep"} \union Starting \union WritingPid => unslept[d] > 0

LoopInv == TypeOK /\ TimeLeft

LEMMA ExecTypeStep == TypeOK /\ [Next]_vars => TypeOK'
  <1> DEFINE Goal == TypeOK'
  <1> SUFFICES ASSUME TypeOK, [Next]_vars PROVE Goal OBVIOUS
  <1> USE ExecAssumption
      DEF TypeOK, Dead, Starting, Handling, WritingPid, Looping, Goto, Die, pidVars, cfgVars
  <1>1. ASSUME NEW d \in Daemons, Start(d) PROVE Goal
    BY <1>1 DEF Start
  <1>2. ASSUME NEW d \in Daemons, OpenLog(d) PROVE Goal
    BY <1>2 DEF OpenLog
  <1>3. ASSUME NEW d \in Daemons, OpenLogFails(d) PROVE Goal
    BY <1>3 DEF OpenLogFails
  <1>4. ASSUME NEW d \in Daemons, InstallHandlers(d) PROVE Goal
    BY <1>4 DEF InstallHandlers
  <1>5. ASSUME NEW d \in Daemons, PidOpen(d) PROVE Goal
    BY <1>5 DEF PidOpen
  <1>6. ASSUME NEW d \in Daemons, PidLock(d) PROVE Goal
    BY <1>6 DEF PidLock
  <1>7. ASSUME NEW d \in Daemons, PidTruncate(d) PROVE Goal
    BY <1>7 DEF PidTruncate
  <1>8. ASSUME NEW d \in Daemons, PidWrite(d) PROVE Goal
    BY <1>8 DEF PidWrite
  <1>9. ASSUME NEW d \in Daemons, PidFails(d) PROVE Goal
    BY <1>9 DEF PidFails
  <1>10. ASSUME NEW d \in Daemons, Sleep(d) PROVE Goal
    BY <1>10 DEF Sleep
  <1>11. ASSUME NEW d \in Daemons, Check(d) PROVE Goal
    BY <1>11 DEF Check
  <1>12. ASSUME NEW d \in Daemons, ResetHup(d) PROVE Goal
    BY <1>12 DEF ResetHup
  <1>13. ASSUME NEW d \in Daemons, ReopenLog(d) PROVE Goal
    BY <1>13 DEF ReopenLog
  <1>14. ASSUME NEW d \in Daemons, ReadConfig(d) PROVE Goal
    BY <1>14 DEF ReadConfig
  <1>15. ASSUME NEW d \in Daemons, Rearm(d) PROVE Goal
    BY <1>15 DEF Rearm
  <1>16. ASSUME NEW d \in Daemons, HupKills(d) PROVE Goal
    BY <1>16 DEF HupKills
  <1>17. ASSUME NEW d \in Daemons, Hup(d) PROVE Goal
    BY <1>17 DEF Hup
  <1>18. ASSUME NEW d \in Daemons, Term(d) PROVE Goal
    BY <1>18 DEF Term
  <1>19. CASE Edit
    BY <1>19 DEF Edit
  <1>20. CASE UNCHANGED vars
    BY <1>20 DEF vars
  <1> QED BY <1>1, <1>2, <1>3, <1>4, <1>5, <1>6, <1>7, <1>8, <1>9, <1>10,
             <1>11, <1>12, <1>13, <1>14, <1>15, <1>16, <1>17, <1>18, <1>19, <1>20 DEF Next, Run

LEMMA TimeLeftStep == LoopInv /\ [Next]_vars => TimeLeft'
  <1> DEFINE Goal == TimeLeft'
  <1> SUFFICES ASSUME LoopInv, [Next]_vars PROVE Goal OBVIOUS
  <1> USE ExecAssumption
      DEF LoopInv, TypeOK, TimeLeft, Dead, Starting, Handling, WritingPid, Looping, Goto, Die,
          pidVars, cfgVars
  <1>1. ASSUME NEW d \in Daemons, Start(d) PROVE Goal
    BY <1>1 DEF Start
  <1>2. ASSUME NEW d \in Daemons, OpenLog(d) PROVE Goal
    BY <1>2 DEF OpenLog
  <1>3. ASSUME NEW d \in Daemons, OpenLogFails(d) PROVE Goal
    BY <1>3 DEF OpenLogFails
  <1>4. ASSUME NEW d \in Daemons, InstallHandlers(d) PROVE Goal
    BY <1>4 DEF InstallHandlers
  <1>5. ASSUME NEW d \in Daemons, PidOpen(d) PROVE Goal
    BY <1>5 DEF PidOpen
  <1>6. ASSUME NEW d \in Daemons, PidLock(d) PROVE Goal
    BY <1>6 DEF PidLock
  <1>7. ASSUME NEW d \in Daemons, PidTruncate(d) PROVE Goal
    BY <1>7 DEF PidTruncate
  <1>8. ASSUME NEW d \in Daemons, PidWrite(d) PROVE Goal
    BY <1>8 DEF PidWrite
  <1>9. ASSUME NEW d \in Daemons, PidFails(d) PROVE Goal
    BY <1>9 DEF PidFails
  <1>10. ASSUME NEW d \in Daemons, Sleep(d) PROVE Goal
    BY <1>10 DEF Sleep
  <1>11. ASSUME NEW d \in Daemons, Check(d) PROVE Goal
    BY <1>11 DEF Check
  <1>12. ASSUME NEW d \in Daemons, ResetHup(d) PROVE Goal
    BY <1>12 DEF ResetHup
  <1>13. ASSUME NEW d \in Daemons, ReopenLog(d) PROVE Goal
    BY <1>13 DEF ReopenLog
  <1>14. ASSUME NEW d \in Daemons, ReadConfig(d) PROVE Goal
    BY <1>14 DEF ReadConfig
  <1>15. ASSUME NEW d \in Daemons, Rearm(d) PROVE Goal
    BY <1>15 DEF Rearm
  <1>16. ASSUME NEW d \in Daemons, HupKills(d) PROVE Goal
    BY <1>16 DEF HupKills
  <1>17. ASSUME NEW d \in Daemons, Hup(d) PROVE Goal
    BY <1>17 DEF Hup
  <1>18. ASSUME NEW d \in Daemons, Term(d) PROVE Goal
    BY <1>18 DEF Term
  <1>19. CASE Edit
    BY <1>19 DEF Edit
  <1>20. CASE UNCHANGED vars
    BY <1>20 DEF vars
  <1> QED BY <1>1, <1>2, <1>3, <1>4, <1>5, <1>6, <1>7, <1>8, <1>9, <1>10,
             <1>11, <1>12, <1>13, <1>14, <1>15, <1>16, <1>17, <1>18, <1>19, <1>20 DEF Next, Run

LEMMA LoopInvInductive == Spec => []LoopInv
  <1>1. Init => LoopInv
    BY ExecAssumption DEF Init, LoopInv, TypeOK, TimeLeft, Dead
  <1>2. LoopInv /\ [Next]_vars => LoopInv'
    BY ExecTypeStep, TimeLeftStep DEF LoopInv
  <1> QED BY <1>1, <1>2, PTL DEF Spec

\* However often SIGHUP interrupts sleep(), the time left stays within
\* sleep_time, and no version read or asked for is one the file never had.
THEOREM ExecTyped == Spec => []TypeOK
  <1>1. LoopInv => TypeOK
    BY DEF LoopInv
  <1> QED BY <1>1, LoopInvInductive, PTL

\* The loop of daemon_default_exec never calls sleep( 0 ): however signals
\* divide its sleep, it does not spin.
THEOREM LoopSleeps == Spec => []NoSpin
  <1>1. LoopInv => NoSpin
    BY DEF LoopInv, TimeLeft, NoSpin
  <1> QED BY <1>1, LoopInvInductive, PTL
=============================================================================
