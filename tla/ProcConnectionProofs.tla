------------------------ MODULE ProcConnectionProofs ------------------------
(***************************************************************************)
(* Proofs about ProcConnection, for any set of connections and any limit.  *)
(* The invariant is strengthened by what the reactor thread's place in     *)
(* open() says of the new connection's thread: it cannot be gone before    *)
(* open() is, because its last step needs the token.                       *)
(***************************************************************************)
EXTENDS ProcConnection, TLAPS

\* How far open() is, and what there is of the thread it spawns.
Opening ==
    /\ rh # Null <=> upcall # "none"
    /\ upcall = "open" => cpc[rh] = "none"
    /\ upcall = "activated" => cpc[rh] # "none"

\* A thread that leaves svc() has read ctrl-c or ctrl-z.
CtrlSeen == \A h \in Handlers : cpc[h] = "close" => input[h] = "ctrl"

ConnInv == TypeOK /\ Opening /\ OneThreadEach /\ CtrlSeen

LEMMA ConnInit == Init => ConnInv
  <1> SUFFICES ASSUME Init PROVE ConnInv OBVIOUS
  <1>1. TypeOK
    <2>1. 0 \in 0 .. FragmentLimit
      BY ConnectionAssumption
    <2>2. crashed \in BOOLEAN
      BY Zenon DEF Init
    <2> QED BY <2>1, <2>2 DEF Init, TypeOK, Inputs
  <1>2. Opening /\ OneThreadEach /\ CtrlSeen
    BY DEF Init, Opening, OneThreadEach, CtrlSeen
  <1> QED BY <1>1, <1>2 DEF ConnInv

LEMMA ConnTypeStep == ConnInv /\ [Next]_vars => TypeOK'
  <1> SUFFICES ASSUME ConnInv, [Next]_vars PROVE TypeOK' OBVIOUS
  <1> USE ConnectionAssumption DEF ConnInv, TypeOK, Opening, Inputs, reactorVars
  <1>1. CASE Activate
    BY <1>1 DEF Activate
  <1>2. CASE ActivateFails
    BY <1>2 DEF ActivateFails
  <1>3. CASE OpenDone
    BY <1>3 DEF OpenDone
  <1>4. CASE Fini
    BY <1>4 DEF Fini
  <1>5. CASE Exit
    BY <1>5 DEF Exit
  <1>6. ASSUME NEW h \in Handlers, Accept(h) PROVE TypeOK'
    BY <1>6 DEF Accept, Selecting
  <1>7. ASSUME NEW h \in Handlers, HandleTimeout(h) PROVE TypeOK'
    BY <1>7 DEF HandleTimeout, Selecting
  <1>8. ASSUME NEW h \in Handlers, Readable(h) PROVE TypeOK'
    BY <1>8 DEF Readable, Goto
  <1>9. ASSUME NEW h \in Handlers, RecvTimeout(h) PROVE TypeOK'
    BY <1>9 DEF RecvTimeout, Goto
  <1>10. ASSUME NEW h \in Handlers, ProcessPartial(h) PROVE TypeOK'
    BY <1>10 DEF ProcessPartial
  <1>11. ASSUME NEW h \in Handlers, ProcessRequest(h) PROVE TypeOK'
    BY <1>11 DEF ProcessRequest, Complete, Goto
  <1>12. ASSUME NEW h \in Handlers, ProcessNothing(h) PROVE TypeOK'
    BY <1>12 DEF ProcessNothing, Goto
  <1>13. ASSUME NEW h \in Handlers, ProcessCtrl(h) PROVE TypeOK'
    BY <1>13 DEF ProcessCtrl, Goto
  <1>14. ASSUME NEW h \in Handlers, Perform(h) PROVE TypeOK'
    BY <1>14 DEF Perform, Goto
  <1>15. ASSUME NEW h \in Handlers, SleepDone(h) PROVE TypeOK'
    BY <1>15 DEF SleepDone, Goto
  <1>16. ASSUME NEW h \in Handlers, Close(h) PROVE TypeOK'
    BY <1>16 DEF Close, Goto, TokenFree, Selecting
  <1>17. ASSUME NEW h \in Handlers, NEW i \in Inputs, Client(h, i) PROVE TypeOK'
    BY <1>17 DEF Client
  <1>18. CASE UNCHANGED vars
    BY <1>18 DEF vars
  <1> QED
    BY <1>1, <1>2, <1>3, <1>4, <1>5, <1>6, <1>7, <1>8, <1>9, <1>10,
       <1>11, <1>12, <1>13, <1>14, <1>15, <1>16, <1>17, <1>18
       DEF Next, ReactorStep, ThreadStep

LEMMA ConnStep == ConnInv /\ [Next]_vars => (Opening /\ OneThreadEach /\ CtrlSeen)'
  <1> DEFINE Goal == (Opening /\ OneThreadEach /\ CtrlSeen)'
  <1> SUFFICES ASSUME ConnInv, [Next]_vars PROVE Goal OBVIOUS
  <1> USE ConnectionAssumption DEF ConnInv, TypeOK, Opening, OneThreadEach, CtrlSeen, Inputs,
              reactorVars
  <1>1. CASE Activate
    BY <1>1 DEF Activate
  <1>2. CASE ActivateFails
    BY <1>2 DEF ActivateFails
  <1>3. CASE OpenDone
    BY <1>3 DEF OpenDone
  <1>4. CASE Fini
    BY <1>4 DEF Fini
  <1>5. CASE Exit
    BY <1>5 DEF Exit
  <1>6. ASSUME NEW h \in Handlers, Accept(h) PROVE Goal
    BY <1>6 DEF Accept, Selecting
  <1>7. ASSUME NEW h \in Handlers, HandleTimeout(h) PROVE Goal
    BY <1>7 DEF HandleTimeout, Selecting
  <1>8. ASSUME NEW h \in Handlers, Readable(h) PROVE Goal
    BY <1>8 DEF Readable, Goto
  <1>9. ASSUME NEW h \in Handlers, RecvTimeout(h) PROVE Goal
    BY <1>9 DEF RecvTimeout, Goto
  <1>10. ASSUME NEW h \in Handlers, ProcessPartial(h) PROVE Goal
    BY <1>10 DEF ProcessPartial
  <1>11. ASSUME NEW h \in Handlers, ProcessRequest(h) PROVE Goal
    BY <1>11 DEF ProcessRequest, Complete, Goto
  <1>12. ASSUME NEW h \in Handlers, ProcessNothing(h) PROVE Goal
    BY <1>12 DEF ProcessNothing, Goto
  <1>13. ASSUME NEW h \in Handlers, ProcessCtrl(h) PROVE Goal
    BY <1>13 DEF ProcessCtrl, Goto
  <1>14. ASSUME NEW h \in Handlers, Perform(h) PROVE Goal
    BY <1>14 DEF Perform, Goto
  <1>15. ASSUME NEW h \in Handlers, SleepDone(h) PROVE Goal
    BY <1>15 DEF SleepDone, Goto
  <1>16. ASSUME NEW h \in Handlers, Close(h) PROVE Goal
    BY <1>16 DEF Close, Goto, TokenFree, Selecting
  <1>17. ASSUME NEW h \in Handlers, NEW i \in Inputs, Client(h, i) PROVE Goal
    BY <1>17 DEF Client
  <1>18. CASE UNCHANGED vars
    BY <1>18 DEF vars
  <1> QED
    BY <1>1, <1>2, <1>3, <1>4, <1>5, <1>6, <1>7, <1>8, <1>9, <1>10,
       <1>11, <1>12, <1>13, <1>14, <1>15, <1>16, <1>17, <1>18
       DEF Next, ReactorStep, ThreadStep

LEMMA ConnInvInductive == Spec => []ConnInv
  <1>1. ConnInv /\ [Next]_vars => ConnInv'
    BY ConnTypeStep, ConnStep DEF ConnInv
  <1> QED BY ConnInit, <1>1, PTL DEF Spec

\* For any number of connections the variables keep their types; in particular
\* process() never gathers more than its limit.
THEOREM ConnectionTyped == Spec => []TypeOK
  <1>1. ConnInv => TypeOK
    BY DEF ConnInv
  <1> QED BY ConnInvInductive, <1>1, PTL

\* No handler is deleted while the reactor thread is in its open(), however
\* soon the thread that open() spawned reads ctrl-c.
THEOREM OpenNeverOutlasts == Spec => []OpenOutlived
  <1>1. ConnInv => OpenOutlived
    BY DEF ConnInv, TypeOK, Opening, OneThreadEach, OpenOutlived
  <1> QED BY ConnInvInductive, <1>1, PTL

\* A handler and its thread come and go together: no handler is leaked and no
\* thread is left on a deleted one.
THEOREM ThreadOwnsHandler == Spec => []OneThreadEach
  <1>1. ConnInv => OneThreadEach
    BY DEF ConnInv
  <1> QED BY ConnInvInductive, <1>1, PTL

-----------------------------------------------------------------------------
(* Refinement.                                                             *)

\* Every step is a step of the service or changes nothing a client can tell.
LEMMA ConnServiceStep == ConnInv /\ [Next]_vars => [Service!ServiceNext]_<<connState, input>>
  <1> DEFINE Goal == [Service!ServiceNext]_<<connState, input>>
  <1> SUFFICES ASSUME ConnInv, [Next]_vars PROVE Goal OBVIOUS
  <1> USE ConnectionAssumption DEF ConnInv, TypeOK, Opening, OneThreadEach, CtrlSeen, reactorVars
  <1>1. CASE Activate
    <2>1. rh \in Handlers
      BY <1>1 DEF Activate
    <2>2. connState' = [connState EXCEPT ![rh] = "waiting"]
      BY <1>1, <2>1 DEF Activate, connState
    <2>3. Service!Greet(rh)
      BY <1>1, <2>1, <2>2 DEF Activate, connState, Service!Greet, Inputs
    <2> QED BY <2>1, <2>3 DEF Service!ServiceNext, Service!Inputs, Inputs
  <1>2. CASE ActivateFails
    <2>1. rh \in Handlers
      BY <1>2 DEF ActivateFails
    <2>2. connState' = [connState EXCEPT ![rh] = "none"]
      BY <1>2, <2>1 DEF ActivateFails, connState
    <2>3. Service!Refuse(rh)
      BY <1>2, <2>1, <2>2 DEF ActivateFails, connState, Service!Refuse, Inputs
    <2> QED BY <2>1, <2>3 DEF Service!ServiceNext, Service!Inputs, Inputs
  <1>3. CASE OpenDone
    <2>1. UNCHANGED <<connState, input>>
      BY <1>3 DEF OpenDone, connState
    <2> QED BY <2>1
  <1>4. CASE Fini
    <2>1. UNCHANGED <<connState, input>>
      BY <1>4 DEF Fini, connState
    <2> QED BY <2>1
  <1>5. CASE Exit
    <2>1. UNCHANGED <<connState, input>>
      BY <1>5 DEF Exit, connState
    <2> QED BY <2>1
  <1>6. ASSUME NEW h \in Handlers, Accept(h) PROVE Goal
    <2>1. h \in Handlers /\ (h \in alive <=> cpc[h] # "none" \/ (rh = h /\ upcall = "open"))
      BY DEF OneThreadEach
    <2>2. connState' = [connState EXCEPT ![h] = "new"]
      BY <1>6, <2>1 DEF Accept, Selecting, connState
    <2>3. Service!Connect(h)
      BY <1>6, <2>1, <2>2 DEF Accept, Selecting, connState, Service!Connect, Inputs
    <2> QED BY <2>1, <2>3 DEF Service!ServiceNext, Service!Inputs, Inputs
  <1>7. ASSUME NEW h \in Handlers, HandleTimeout(h) PROVE Goal
    <2>1. UNCHANGED <<connState, input>>
      BY <1>7 DEF HandleTimeout, Selecting, connState
    <2> QED BY <2>1
  <1>8. ASSUME NEW h \in Handlers, Readable(h) PROVE Goal
    <2>1. h \in Handlers /\ (h \in alive <=> cpc[h] # "none" \/ (rh = h /\ upcall = "open"))
      BY DEF OneThreadEach
    <2>2. connState' = [connState EXCEPT ![h] = "busy"]
      BY <1>8, <2>1 DEF Readable, Goto, connState
    <2>3. Service!Take(h)
      BY <1>8, <2>1, <2>2 DEF Readable, Goto, connState, Service!Take, Inputs
    <2> QED BY <2>1, <2>3 DEF Service!ServiceNext, Service!Inputs, Inputs
  <1>9. ASSUME NEW h \in Handlers, RecvTimeout(h) PROVE Goal
    <2>1. UNCHANGED <<connState, input>>
      BY <1>9 DEF RecvTimeout, Goto, connState
    <2> QED BY <2>1
  <1>10. ASSUME NEW h \in Handlers, ProcessPartial(h) PROVE Goal
    <2>1. h \in Handlers /\ (h \in alive <=> cpc[h] # "none" \/ (rh = h /\ upcall = "open"))
      BY DEF OneThreadEach
    <2>2. connState' = connState
      BY <1>10, <2>1 DEF ProcessPartial, connState
    <2>3. Service!Consume(h)
      BY <1>10, <2>1, <2>2 DEF ProcessPartial, connState, Service!Consume, Inputs
    <2> QED BY <2>1, <2>3 DEF Service!ServiceNext, Service!Inputs, Inputs
  <1>11. ASSUME NEW h \in Handlers, ProcessRequest(h) PROVE Goal
    <2>1. h \in Handlers /\ (h \in alive <=> cpc[h] # "none" \/ (rh = h /\ upcall = "open"))
      BY DEF OneThreadEach
    <2>2. connState' = connState
      BY <1>11, <2>1 DEF ProcessRequest, Complete, Goto, connState
    <2>3. Service!Consume(h)
      BY <1>11, <2>1, <2>2 DEF ProcessRequest, Complete, Goto, connState, Service!Consume, Inputs
    <2> QED BY <2>1, <2>3 DEF Service!ServiceNext, Service!Inputs, Inputs
  <1>12. ASSUME NEW h \in Handlers, ProcessNothing(h) PROVE Goal
    <2>1. h \in Handlers /\ (h \in alive <=> cpc[h] # "none" \/ (rh = h /\ upcall = "open"))
      BY DEF OneThreadEach
    <2>2. connState' = [connState EXCEPT ![h] = "waiting"]
      BY <1>12, <2>1 DEF ProcessNothing, Goto, connState
    <2>3. Service!Release(h)
      BY <1>12, <2>1, <2>2 DEF ProcessNothing, Goto, connState, Service!Release, Inputs
    <2> QED BY <2>1, <2>3 DEF Service!ServiceNext, Service!Inputs, Inputs
  <1>13. ASSUME NEW h \in Handlers, ProcessCtrl(h) PROVE Goal
    <2>1. UNCHANGED <<connState, input>>
      BY <1>13 DEF ProcessCtrl, Goto, connState
    <2> QED BY <2>1
  <1>14. ASSUME NEW h \in Handlers, Perform(h) PROVE Goal
    <2>1. h \in Handlers /\ (h \in alive <=> cpc[h] # "none" \/ (rh = h /\ upcall = "open"))
      BY DEF OneThreadEach
    <2>2. connState' = [connState EXCEPT ![h] = "waiting"]
      BY <1>14, <2>1 DEF Perform, Goto, connState
    <2>3. Service!Release(h)
      BY <1>14, <2>1, <2>2 DEF Perform, Goto, connState, Service!Release, Inputs
    <2> QED BY <2>1, <2>3 DEF Service!ServiceNext, Service!Inputs, Inputs
  <1>15. ASSUME NEW h \in Handlers, SleepDone(h) PROVE Goal
    <2>1. UNCHANGED <<connState, input>>
      BY <1>15 DEF SleepDone, Goto, connState
    <2> QED BY <2>1
  <1>16. ASSUME NEW h \in Handlers, Close(h) PROVE Goal
    <2>1. h \in Handlers /\ (h \in alive <=> cpc[h] # "none" \/ (rh = h /\ upcall = "open"))
      BY DEF OneThreadEach
    <2>2. connState' = [connState EXCEPT ![h] = "none"]
      BY <1>16, <2>1 DEF Close, Goto, TokenFree, Selecting, connState
    <2>3. Service!HangUp(h)
      BY <1>16, <2>1, <2>2 DEF Close, Goto, TokenFree, Selecting, connState, Service!HangUp, Inputs
    <2> QED BY <2>1, <2>3 DEF Service!ServiceNext, Service!Inputs, Inputs
  <1>17. ASSUME NEW h \in Handlers, NEW i \in Inputs, Client(h, i) PROVE Goal
    <2>1. h \in Handlers /\ (h \in alive <=> cpc[h] # "none" \/ (rh = h /\ upcall = "open"))
      BY DEF OneThreadEach
    <2>2. connState' = connState
      BY <1>17, <2>1 DEF Client, connState
    <2>3. Service!Send(h, i)
      BY <1>17, <2>1, <2>2 DEF Client, connState, Service!Send, Inputs
    <2> QED BY <2>1, <2>3 DEF Service!ServiceNext, Service!Inputs, Inputs
  <1>18. CASE UNCHANGED vars
    <2>1. UNCHANGED <<connState, input>>
      BY <1>18 DEF vars, connState
    <2> QED BY <2>1
  <1> QED
    BY <1>1, <1>2, <1>3, <1>4, <1>5, <1>6, <1>7, <1>8, <1>9, <1>10,
       <1>11, <1>12, <1>13, <1>14, <1>15, <1>16, <1>17, <1>18
       DEF Next, ReactorStep, ThreadStep

\* Under thread_per_connection_ the server implements the same service as
\* with a pool: input is consumed only in service, and the server hangs up only
\* on ctrl-c or ctrl-z.
THEOREM ConnectionImplementsService == Spec => ImplementsService
  <1>1. ConnInv /\ [Next]_vars => ConnInv'
    BY ConnTypeStep, ConnStep DEF ConnInv
  <1>2. Init => Service!ServiceInit
    BY DEF Init, connState, Service!ServiceInit
  <1>3. ConnInv /\ [Next]_vars => [Service!ServiceNext]_(Service!serviceVars)
    BY ConnServiceStep DEF Service!serviceVars
  <1> QED BY ConnInit, <1>1, <1>2, <1>3, PTL DEF Spec, ImplementsService, Service!ServiceSpec
=============================================================================
