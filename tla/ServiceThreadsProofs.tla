------------------------ MODULE ServiceThreadsProofs ------------------------
(***************************************************************************)
(* Proofs about ServiceThreads, for any number of events, buffers and      *)
(* queues of any size: the types, and that the watched file system's       *)
(* thread loses, repeats and reorders nothing that inotify gives it. What  *)
(* the thread has reported, what is in its buffer and what inotify holds   *)
(* are one sequence, in which a read() moves a boundary only, and          *)
(* displaying an event drops it if it is no creation. That needs the       *)
(* buffer to be full exactly while the thread displays, and a thread to    *)
(* start only when its service is opened.                                  *)
(***************************************************************************)
EXTENDS ServiceThreads, SequenceTheorems, TLAPS

Events == 0 .. MaxEvents

\* The thread has something to display exactly while it displays, and there is
\* no thread before the service is open.
ThreadInv ==
    /\ TypeOK
    /\ created <= events
    /\ thread["ccifs"] = "display" <=> buf # <<>>
    /\ \A s \in Services : object[s] \in {"none", "init"} => thread[s] = "none"

-----------------------------------------------------------------------------
(* Sequences of events.                                                    *)

\* The next file, or something else, after what is in order is in order.
LEMMA InOrderAppend ==
    ASSUME NEW s \in Seq(Nat), NEW n \in Nat, NEW files \in SUBSET (1 .. n),
           InOrder(s, files)
    PROVE  InOrder(Append(s, 0), files) /\ InOrder(Append(s, n + 1), files \union {n + 1})
<1> DEFINE l == Len(s) + 1
<1>1. ASSUME NEW x \in Nat
      PROVE  /\ DOMAIN Append(s, x) = DOMAIN s \union {l}
             /\ \A i \in DOMAIN s : i \in Nat /\ i < l /\ Append(s, x)[i] = s[i]
             /\ Append(s, x)[l] = x /\ l \in Nat
  OBVIOUS
<1>2. \A i \in DOMAIN s : s[i] \in Nat /\ (s[i] = 0 \/ s[i] \in 1 .. n)
  BY DEF InOrder
<1> HIDE DEF l
<1>3. ASSUME NEW x \in Nat, x = 0 \/ x = n + 1
      PROVE  \A i, j \in DOMAIN Append(s, x) :
                i < j /\ 0 \notin {Append(s, x)[i], Append(s, x)[j]}
                  => Append(s, x)[i] < Append(s, x)[j]
  <2> DEFINE t == Append(s, x)
  <2>1. /\ DOMAIN t = DOMAIN s \union {l} /\ t[l] = x /\ l \in Nat
        /\ \A i \in DOMAIN s : i \in Nat /\ i < l /\ t[i] = s[i]
    BY <1>1
  <2> HIDE DEF t
  <2> SUFFICES ASSUME NEW i \in DOMAIN t, NEW j \in DOMAIN t, i < j, t[i] # 0, t[j] # 0
               PROVE  t[i] < t[j]
    BY DEF t
  <2>2. i \in DOMAIN s
    BY <2>1
  <2>3. CASE j \in DOMAIN s
    BY <2>1, <2>2, <2>3 DEF InOrder
  <2>4. CASE j = l
    BY <1>2, <1>3, <2>1, <2>2, <2>4
  <2> QED BY <2>1, <2>3, <2>4
<1>4. ASSUME NEW x \in Nat
      PROVE  {Append(s, x)[i] : i \in DOMAIN Append(s, x)} = {s[i] : i \in DOMAIN s} \union {x}
  <2> DEFINE t == Append(s, x)
  <2>1. DOMAIN t = DOMAIN s \union {l} /\ t[l] = x /\ \A i \in DOMAIN s : t[i] = s[i]
    BY <1>1
  <2> HIDE DEF t
  <2> QED BY <2>1 DEF t
<1>5. {s[i] : i \in DOMAIN s} \ {0} = files
  BY DEF InOrder
<1>6. {Append(s, 0)[i] : i \in DOMAIN Append(s, 0)} \ {0} = files
  BY <1>4, <1>5
<1>7. {Append(s, n + 1)[i] : i \in DOMAIN Append(s, n + 1)} \ {0} = files \union {n + 1}
  <2>1. n + 1 # 0
    OBVIOUS
  <2>2. {Append(s, n + 1)[i] : i \in DOMAIN Append(s, n + 1)} = {s[i] : i \in DOMAIN s} \union {n + 1}
    BY <1>4, n + 1 \in Nat
  <2> QED BY ONLY <1>5, <2>1, <2>2
<1>8. InOrder(Append(s, 0), files)
  BY <1>3, <1>6 DEF InOrder
<1>9. InOrder(Append(s, n + 1), files \union {n + 1})
  BY <1>3, <1>7 DEF InOrder
<1> QED BY <1>8, <1>9

\* Where the elements of two sequences are when they are joined.
LEMMA Joined ==
    ASSUME NEW a \in Seq(Nat), NEW b \in Seq(Nat)
    PROVE  /\ DOMAIN (a \o b) = 1 .. Len(a) + Len(b)
           /\ \A i \in 1 .. Len(a) : (a \o b)[i] = a[i]
           /\ \A i \in 1 .. Len(b) : (a \o b)[Len(a) + i] = b[i]
  OBVIOUS

\* What is in order stays so without an event that is no creation.
LEMMA InOrderDrop ==
    ASSUME NEW a \in Seq(Nat), NEW b \in Seq(Nat), NEW files,
           InOrder((a \o << 0 >>) \o b, files)
    PROVE  InOrder(a \o b, files)
<1> DEFINE s == (a \o << 0 >>) \o b
           t == a \o b
           from(i) == IF i <= Len(a) THEN i ELSE i + 1
<1>1. /\ DOMAIN t = 1 .. Len(a) + Len(b) /\ DOMAIN s = 1 .. Len(a) + Len(b) + 1
      /\ Len(a) \in Nat /\ Len(b) \in Nat /\ s[Len(a) + 1] = 0
      /\ \A i \in DOMAIN t : t[i] = s[from(i)]
  <2>1. PICK c : c = a \o << 0 >>
    OBVIOUS
  <2>2. c \in Seq(Nat) /\ Len(c) = Len(a) + 1 /\ c[Len(a) + 1] = 0
        /\ \A i \in 1 .. Len(a) : c[i] = a[i]
    BY <2>1
  <2>3. Len(a) \in Nat /\ Len(b) \in Nat
    OBVIOUS
  <2>4. /\ DOMAIN (c \o b) = 1 .. Len(a) + 1 + Len(b)
        /\ \A i \in 1 .. Len(a) : (c \o b)[i] = a[i]
        /\ (c \o b)[Len(a) + 1] = 0
        /\ \A i \in 1 .. Len(b) : (c \o b)[Len(a) + 1 + i] = b[i]
    <3>1. /\ DOMAIN (c \o b) = 1 .. Len(c) + Len(b)
          /\ \A i \in 1 .. Len(c) : (c \o b)[i] = c[i]
          /\ \A i \in 1 .. Len(b) : (c \o b)[Len(c) + i] = b[i]
      BY <2>2, Joined
    <3>2. PICK m \in Nat : m = Len(a)
      BY <2>3
    <3>3. Len(c) = m + 1 /\ c[m + 1] = 0 /\ \A i \in 1 .. m : c[i] = a[i]
      BY <2>2, <3>2
    <3>4. m + 1 \in 1 .. m + 1 /\ \A i \in 1 .. m : i \in 1 .. m + 1
      OBVIOUS
    <3> QED BY ONLY <3>1, <3>2, <3>3, <3>4
  <2>5. /\ DOMAIN (a \o b) = 1 .. Len(a) + Len(b)
        /\ \A i \in 1 .. Len(a) : (a \o b)[i] = a[i]
        /\ \A i \in 1 .. Len(b) : (a \o b)[Len(a) + i] = b[i]
    BY Joined
  <2>6. ASSUME NEW i \in 1 .. Len(a) + Len(b) PROVE (a \o b)[i] = (c \o b)[from(i)]
    <3>1. CASE i <= Len(a)
      BY ONLY <2>3, <2>4, <2>5, <2>6, <3>1
    <3>2. CASE i > Len(a)
      <4>1. PICK k \in 1 .. Len(b) : i = Len(a) + k /\ from(i) = Len(a) + 1 + k
        <5>1. i - Len(a) \in 1 .. Len(b) /\ i = Len(a) + (i - Len(a))
              /\ i + 1 = Len(a) + 1 + (i - Len(a))
          BY ONLY <2>3, <2>6, <3>2
        <5>2. from(i) = i + 1
          BY ONLY <2>3, <2>6, <3>2
        <5> QED BY ONLY <5>1, <5>2
      <4> QED BY ONLY <2>4, <2>5, <4>1
    <3>3. i <= Len(a) \/ i > Len(a)
      BY ONLY <2>3, <2>6
    <3> QED BY ONLY <3>1, <3>2, <3>3
  <2>7. Len(a) + 1 + Len(b) = Len(a) + Len(b) + 1
    BY ONLY <2>3
  <2> QED BY ONLY <2>1, <2>3, <2>4, <2>5, <2>6, <2>7
<1> HIDE DEF s, t
<1>2. \A i \in DOMAIN t : from(i) \in DOMAIN s
  BY <1>1
<1>3. \A i, j \in DOMAIN t : i < j => from(i) < from(j)
  BY <1>1
<1>4. ASSUME NEW k \in DOMAIN s, s[k] # 0 PROVE \E i \in DOMAIN t : from(i) = k
  <2>1. k # Len(a) + 1
    BY <1>1, <1>4
  <2>2. CASE k <= Len(a)
    BY <1>1, <2>2
  <2>3. CASE k > Len(a) + 1
    <3>1. k - 1 \in DOMAIN t /\ from(k - 1) = k
      BY <1>1, <2>3
    <3> QED BY <3>1
  <2> QED BY <1>1, <2>1, <2>2, <2>3
<1>5. {t[i] : i \in DOMAIN t} \ {0} = {s[i] : i \in DOMAIN s} \ {0}
  BY <1>1, <1>2, <1>4
<1>6. \A i, j \in DOMAIN t : i < j /\ 0 \notin {t[i], t[j]} => t[i] < t[j]
  BY <1>1, <1>2, <1>3 DEF InOrder, s
<1> QED BY <1>5, <1>6 DEF InOrder, s, t

\* A queue's start and its rest, its head and its tail, and what is added to it
\* are of its elements.
LEMMA SplitQueue ==
    ASSUME NEW S, NEW q \in Seq(S), NEW n \in 1 .. Len(q)
    PROVE  /\ SubSeq(q, 1, n) \in Seq(S) /\ Len(SubSeq(q, 1, n)) = n
           /\ SubSeq(q, n + 1, Len(q)) \in Seq(S)
  OBVIOUS

LEMMA HeadAndTail ==
    ASSUME NEW S, NEW q \in Seq(S), q # <<>>
    PROVE  /\ Head(q) \in S /\ Tail(q) \in Seq(S) /\ Len(q) \in Nat
           /\ Len(Tail(q)) = Len(q) - 1 /\ (Tail(q) # <<>> <=> Len(q) > 1)
<1>1. /\ Head(q) \in S /\ Tail(q) \in Seq(S) /\ Len(q) \in Nat
      /\ Len(Tail(q)) = Len(q) - 1
  OBVIOUS
<1>2. Tail(q) = <<>> <=> Len(Tail(q)) = 0
  BY ONLY <1>1, EmptySeq
<1>3. PICK m, n : m = Len(q) /\ n = Len(Tail(q))
  OBVIOUS
<1>4. m \in Nat /\ n \in Nat /\ n = m - 1
  BY <1>1, <1>3
<1>5. n # 0 <=> m > 1
  BY ONLY <1>4
<1> QED BY <1>1, <1>2, <1>3, <1>5

LEMMA Added ==
    ASSUME NEW S, NEW q \in Seq(S), NEW x \in S PROVE Append(q, x) \in Seq(S)
  OBVIOUS

\* Sequences of events can be joined in any order.
LEMMA ConcatEvents ==
    ASSUME NEW a \in Seq(Nat), NEW b \in Seq(Nat), NEW c \in Seq(Nat)
    PROVE  (a \o b) \o c = a \o (b \o c)
  BY ConcatAssociative

\* What is read moves from the queue to the buffer, and the whole is the same.
LEMMA ReadMoves ==
    ASSUME NEW a \in Seq(Nat), NEW q \in Seq(Nat), NEW n \in 1 .. Len(q)
    PROVE  (a \o SubSeq(q, 1, n)) \o SubSeq(q, n + 1, Len(q)) = (a \o <<>>) \o q
<1> DEFINE b == SubSeq(q, 1, n)
           c == SubSeq(q, n + 1, Len(q))
<1>1. b \in Seq(Nat) /\ c \in Seq(Nat)
  OBVIOUS
<1>2. b \o c = q
  OBVIOUS
<1>3. a \o <<>> = a
  OBVIOUS
<1> HIDE DEF b, c
<1>4. (a \o b) \o c = a \o (b \o c)
  BY ONLY <1>1, a \in Seq(Nat), ConcatEvents
<1> QED BY ONLY <1>2, <1>3, <1>4 DEF b, c

\* What is displayed moves from the buffer to the reports, or is dropped.
LEMMA DisplayMoves ==
    ASSUME NEW a \in Seq(Nat), NEW b \in Seq(Nat), NEW q \in Seq(Nat), b # <<>>
    PROVE  /\ (Append(a, Head(b)) \o Tail(b)) \o q = (a \o b) \o q
           /\ (a \o b) \o q = (a \o <<Head(b)>>) \o (Tail(b) \o q)
           /\ (a \o Tail(b)) \o q = a \o (Tail(b) \o q)
<1>1. Head(b) \in Nat /\ Tail(b) \in Seq(Nat) /\ <<Head(b)>> \in Seq(Nat)
  OBVIOUS
<1>2. <<Head(b)>> \o Tail(b) = b
  OBVIOUS
<1>3. Append(a, Head(b)) = a \o <<Head(b)>>
  OBVIOUS
<1>4. PICK h, t : h = <<Head(b)>> /\ t = Tail(b)
  OBVIOUS
<1>5. h \in Seq(Nat) /\ t \in Seq(Nat)
  BY <1>1, <1>4
<1>6. (a \o h) \o t = a \o (h \o t)
  BY ONLY <1>5, a \in Seq(Nat), ConcatEvents, ZenonT(60)
<1>7. (a \o t) \o q = a \o (t \o q)
  BY ONLY <1>5, a \in Seq(Nat), q \in Seq(Nat), ConcatEvents, ZenonT(60)
<1>8. a \o h \in Seq(Nat)
  BY ONLY <1>5, a \in Seq(Nat), ConcatProperties
<1>9. ((a \o h) \o t) \o q = (a \o h) \o (t \o q)
  BY ONLY <1>5, <1>8, q \in Seq(Nat), ConcatEvents, ZenonT(60)
<1> QED BY ONLY <1>2, <1>3, <1>4, <1>6, <1>7, <1>9

-----------------------------------------------------------------------------
(* The threads and what they hold.                                         *)

\* Before anything is loaded nothing runs.
LEMMA ThreadInit == Init => ThreadInv
<1> SUFFICES ASSUME Init PROVE ThreadInv
  OBVIOUS
<1>1. <<>> \in Seq(Events) /\ <<>> \in Seq(1 .. MaxEvents) /\ Len(<<>>) = 0
  OBVIOUS
<1>2. /\ buf \in Seq(Events) /\ queue \in Seq(Events)
      /\ reported \in Seq(1 .. MaxEvents) /\ Len(buf) <= BufferEvents
  BY <1>1, ServiceAssumption DEF Init
<1>3. TypeOK
  <2>1. /\ object \in [Services -> {"none", "init", "open", "cancel", "finished", "deleted"}]
        /\ thread \in [Services -> CcifsLabels \union PythonLabels \union {"none", "gone"}]
        /\ handler \in [Signals -> {"bootstrap", "script"}]
    BY DEF Init
  <2>2. running \in BOOLEAN /\ stopping \in BOOLEAN /\ wild \in BOOLEAN
    BY Zenon DEF Init
  <2>3. ended \in {"no", "shutdown", "sys_exit"} /\ created \in 0 .. MaxEvents /\ events \in 0 .. MaxEvents
        /\ lost \subseteq 1 .. created
    BY ServiceAssumption DEF Init
  <2> QED BY <1>2, <2>1, <2>2, <2>3, Zenon DEF TypeOK, Events
<1> QED BY <1>3, ServiceAssumption DEF Init, ThreadInv, Services

\* The main thread, or a signal on top of it, opens and takes down services.
LEMMA ThreadMain ==
    ASSUME ThreadInv,
           \/ \E s \in Services : Make(s) \/ InitFails(s) \/ Spawn(s) \/ Fini(s) \/ Finalise(s)
           \/ \E sig \in Signals : Signal(sig)
           \/ Exit
    PROVE  ThreadInv'
<1> USE DEF ThreadInv, TypeOK, Object, watch, history, process
<1>1. ASSUME NEW s \in Services, Make(s) PROVE ThreadInv'
  BY <1>1 DEF Make
<1>2. ASSUME NEW s \in Services, InitFails(s) PROVE ThreadInv'
  BY <1>2 DEF InitFails
<1>3. ASSUME NEW s \in Services, Spawn(s) PROVE ThreadInv'
  <2>1. /\ object[s] = "init" /\ object' = [object EXCEPT ![s] = "open"]
        /\ thread[s] = "none"
        /\ thread' = thread \/ thread' = [thread EXCEPT ![s] = "start"]
        /\ UNCHANGED <<watch, process>>
    BY <1>3 DEF Spawn
  <2>2. thread' \in [Services -> CcifsLabels \union PythonLabels \union {"none", "gone"}]
    BY <2>1 DEF CcifsLabels
  <2>3. TypeOK'
    BY <2>1, <2>2
  <2>4. (thread["ccifs"] = "display")' <=> thread["ccifs"] = "display"
    BY <2>1 DEF Services
  <2>5. \A u \in Services : object'[u] \in {"none", "init"} => thread'[u] = "none"
    BY <2>1
  <2> QED BY <2>1, <2>3, <2>4, <2>5
<1>4. ASSUME NEW s \in Services, Fini(s) PROVE ThreadInv'
  <2>1. running' \in BOOLEAN
    BY <1>4 DEF Fini
  <2> QED BY <1>4, <2>1 DEF Fini
<1>5. ASSUME NEW s \in Services, FiniCancels(s) PROVE ThreadInv'
  BY <1>5 DEF FiniCancels
<1>6. ASSUME NEW s \in Services, Delete(s) PROVE ThreadInv'
  BY <1>6 DEF Delete
<1>7. ASSUME NEW sig \in Signals, Signal(sig) PROVE ThreadInv'
  BY <1>7 DEF Signal
<1>8. CASE Exit
  BY <1>8 DEF Exit
<1> QED BY <1>1, <1>2, <1>3, <1>4, <1>5, <1>6, <1>7, <1>8 DEF Finalise

\* A thread that goes on without touching the buffer, and not to or from its
\* display.
LEMMA ThreadGoesOn ==
    ASSUME ThreadInv, NEW s \in Services, NEW from, from \notin {"none", "display"},
           NEW to \in (CcifsLabels \union PythonLabels \union {"gone"}) \ {"display"},
           Thread(s, from, to), UNCHANGED <<object, watch, stopping, ended, wild>>,
           handler' \in [Signals -> {"bootstrap", "script"}]
    PROVE  ThreadInv'
<1> USE DEF ThreadInv, TypeOK, watch, history
<1>1. /\ thread[s] = from /\ thread' = [thread EXCEPT ![s] = to]
      /\ thread \in [Services -> CcifsLabels \union PythonLabels \union {"none", "gone"}]
  BY DEF Thread
<1>2. TypeOK'
  BY <1>1
<1>3. (thread["ccifs"] = "display")' <=> thread["ccifs"] = "display"
  BY <1>1 DEF Services
<1>4. \A u \in Services : object'[u] \in {"none", "init"} => thread'[u] = "none"
  BY <1>1
<1> QED BY <1>2, <1>3, <1>4

\* The buffer holds what the thread has to display.
LEMMA ThreadEvents ==
    ASSUME ThreadInv, Read \/ Display \/ FileEvent \/ FileEventDropped
    PROVE  ThreadInv'
<1> USE DEF ThreadInv, TypeOK, history, process
<1>0. BufferEvents \in Nat \ {0} /\ MaxEvents \in Nat /\ "ccifs" \in Services
  BY ServiceAssumption DEF Services
<1> DEFINE Labels == CcifsLabels \union PythonLabels \union {"none", "gone"}
<1>1. CASE Read
  <2>1. PICK n \in 1 .. Least(BufferEvents, Len(queue)) :
           buf' = SubSeq(queue, 1, n) /\ queue' = SubSeq(queue, n + 1, Len(queue))
    BY <1>1 DEF Read
  <2>2. n \in Nat /\ 1 <= n /\ n <= BufferEvents /\ n <= Len(queue)
    BY <1>0, <2>1 DEF Least
  <2>3. buf' \in Seq(0 .. MaxEvents) /\ Len(buf') = n /\ queue' \in Seq(0 .. MaxEvents)
    <3>1. queue \in Seq(0 .. MaxEvents) /\ n \in 1 .. Len(queue)
      BY <2>2
    <3> QED BY ONLY <2>1, <3>1, SplitQueue
  <2>4. buf' # <<>> /\ Len(buf') <= BufferEvents
    BY <2>2, <2>3
  <2>5. /\ thread["ccifs"] = "read" /\ thread' = [thread EXCEPT !["ccifs"] = "display"]
        /\ UNCHANGED <<object, running, reported, history, process>>
    BY <1>1 DEF Read, Thread
  <2>6. thread' \in [Services -> Labels] /\ thread'["ccifs"] = "display"
    BY <1>0, <2>5 DEF CcifsLabels
  <2>7. \A u \in Services : object'[u] \in {"none", "init"} => thread'[u] = "none"
    BY <2>5
  <2> QED BY <2>3, <2>4, <2>5, <2>6, <2>7
<1>2. CASE Display
  <2>1. /\ thread["ccifs"] = "display"
        /\ thread' = [thread EXCEPT !["ccifs"] = IF Len(buf) > 1 THEN "display" ELSE "check"]
        /\ reported' = IF Head(buf) = 0 THEN reported ELSE Append(reported, Head(buf))
        /\ buf' = Tail(buf)
        /\ UNCHANGED <<object, running, queue, history, process>>
    BY <1>2 DEF Display, Thread
  <2>2. buf \in Seq(0 .. MaxEvents) /\ buf # <<>>
    BY <2>1
  <2>3. Head(buf) \in 0 .. MaxEvents /\ Tail(buf) \in Seq(0 .. MaxEvents)
        /\ Len(buf) \in Nat /\ Len(Tail(buf)) = Len(buf) - 1 /\ (Tail(buf) # <<>> <=> Len(buf) > 1)
    BY ONLY <2>2, HeadAndTail
  <2>4. Head(buf) # 0 => Head(buf) \in 1 .. MaxEvents
    BY <1>0, <2>3
  <2>5. reported' \in Seq(1 .. MaxEvents)
    <3>1. reported \in Seq(1 .. MaxEvents)
      OBVIOUS
    <3>2. CASE Head(buf) = 0
      BY <2>1, <3>1, <3>2
    <3>3. CASE Head(buf) # 0
      <4>1. Append(reported, Head(buf)) \in Seq(1 .. MaxEvents)
        BY <2>4, <3>1, <3>3, Added
      <4> QED BY <2>1, <3>3, <4>1
    <3> QED BY <3>2, <3>3
  <2>6. thread' \in [Services -> Labels] /\ (thread'["ccifs"] = "display" <=> Len(buf) > 1)
    BY <1>0, <2>1 DEF CcifsLabels
  <2>7. Len(buf') <= BufferEvents
    BY <1>0, <2>1, <2>2, <2>3
  <2>8. \A u \in Services : object'[u] \in {"none", "init"} => thread'[u] = "none"
    BY <2>1
  <2> QED BY <2>1, <2>3, <2>5, <2>6, <2>7, <2>8
<1>3. CASE FileEvent
  <2>1. /\ events' = events + 1 /\ events < MaxEvents
        /\ UNCHANGED <<object, thread, running, buf, reported, lost, process>>
        /\ \/ queue' = Append(queue, 0) /\ created' = created
           \/ queue' = Append(queue, created + 1) /\ created' = created + 1
    BY <1>3 DEF FileEvent
  <2>2. /\ events' \in 0 .. MaxEvents /\ created' \in 0 .. MaxEvents /\ created' <= events'
        /\ lost' \subseteq 1 .. created'
        /\ created' = created + 1 => created + 1 \in 0 .. MaxEvents
    BY <1>0, <2>1
  <2>3. queue' \in Seq(0 .. MaxEvents)
    <3>1. queue \in Seq(0 .. MaxEvents) /\ 0 \in 0 .. MaxEvents
      BY <1>0
    <3>2. PICK x \in 0 .. MaxEvents : queue' = Append(queue, x)
      BY <2>1, <2>2, <3>1
    <3> QED BY ONLY <3>1, <3>2, Added
  <2> QED BY <2>1, <2>2, <2>3
<1>4. CASE FileEventDropped
  <2>1. /\ events' = events + 1 /\ events < MaxEvents
        /\ UNCHANGED <<object, thread, running, buf, reported, process>>
        /\ queue' = queue \/ queue' = Append(queue, 0)
        /\ \/ UNCHANGED <<created, lost>>
           \/ created' = created + 1 /\ lost' = lost \union {created + 1}
    BY <1>4 DEF FileEventDropped
  <2>2. /\ events \in Nat /\ created \in 0 .. events /\ lost \subseteq 1 .. created
    BY <1>0
  <2>4. /\ events' \in 0 .. MaxEvents /\ created' \in 0 .. MaxEvents /\ created' <= events'
    BY ONLY <1>0, <2>1, <2>2
  <2>5. lost' \subseteq 1 .. created'
    <3>1. created \in Nat /\ lost \union {created + 1} \subseteq 1 .. created + 1
      BY ONLY <2>2
    <3> QED BY ONLY <2>1, <2>2, <3>1
  <2>3. queue' \in Seq(0 .. MaxEvents)
    <3>1. queue \in Seq(0 .. MaxEvents) /\ 0 \in 0 .. MaxEvents
      BY <1>0
    <3>2. Append(queue, 0) \in Seq(0 .. MaxEvents)
      BY ONLY <3>1, Added
    <3> QED BY ONLY <2>1, <3>1, <3>2
  <2> QED BY <2>1, <2>3, <2>4, <2>5
<1> QED BY <1>1, <1>2, <1>3, <1>4

LEMMA ThreadNext == ThreadInv /\ [Next]_vars => ThreadInv'
<1> SUFFICES ASSUME ThreadInv, [Next]_vars PROVE ThreadInv'
  OBVIOUS
<1>0. handler \in [Signals -> {"bootstrap", "script"}] /\ "ccifs" \in Services /\ "python" \in Services
  BY DEF ThreadInv, TypeOK, Services
<1> USE DEF process, CcifsLabels, PythonLabels
<1>1. ASSUME NEW s \in Services, RunsWild(s) PROVE ThreadInv'
  BY <1>1 DEF RunsWild, ThreadInv, TypeOK, watch, history
<1>2. CASE NotifyInit
  BY <1>0, <1>2, ThreadGoesOn DEF NotifyInit
<1>3. CASE AddWatch
  BY <1>0, <1>3, ThreadGoesOn DEF AddWatch
<1>4. CASE NotifyFails
  BY <1>0, <1>4, ThreadGoesOn DEF NotifyFails
<1>5. CASE CheckRunning
  <2>1. \E to \in {"read", "gone"} : Thread("ccifs", "check", to)
    BY <1>5 DEF CheckRunning
  <2> QED BY <1>0, <1>5, <2>1, ThreadGoesOn DEF CheckRunning
<1>6. CASE Read \/ Display \/ FileEvent \/ FileEventDropped
  BY <1>6, ThreadEvents
<1>7. CASE PythonProceeds
  <2>1. \E from \in PythonLabels, to \in PythonLabels : Thread("python", from, to)
    BY <1>7 DEF PythonProceeds
  <2> QED BY <1>0, <1>7, <2>1, ThreadGoesOn DEF PythonProceeds
<1>8. CASE PythonFails
  BY <1>0, <1>8, ThreadGoesOn DEF PythonFails
<1>9. CASE PythonSignal
  <2>1. handler' \in [Signals -> {"bootstrap", "script"}]
    BY <1>0, <1>9 DEF PythonSignal
  <2>2. \E from \in PythonLabels, to \in PythonLabels : Thread("python", from, to)
    BY <1>9 DEF PythonSignal
  <2> QED BY <1>0, <1>9, <2>1, <2>2, ThreadGoesOn DEF PythonSignal
<1>10. CASE PythonReturns
  BY <1>0, <1>10, ThreadGoesOn DEF PythonReturns
<1>11. CASE PythonExits
  BY <1>11 DEF PythonExits, ThreadInv, TypeOK, watch, history
<1>12. CASE UNCHANGED vars
  BY <1>12 DEF vars, ThreadInv, TypeOK
<1> QED
  BY <1>1, <1>2, <1>3, <1>4, <1>5, <1>6, <1>7, <1>8, <1>9, <1>10, <1>11, <1>12, ThreadMain
     DEF Next, ThreadStep, CcifsStep, PythonStep

-----------------------------------------------------------------------------
\* All files that inotify had room for are reported, read or queued.
Ordered == InOrder(reported \o buf \o queue, (1 .. created) \ lost)

\* Only Read, Display and what happens in the directory touch the events.
LEMMA WatchKept ==
    ASSUME [Next]_vars
    PROVE  \/ Read \/ Display \/ FileEvent \/ FileEventDropped
           \/ UNCHANGED <<queue, buf, reported, created, lost>>
  BY DEF Next, ThreadStep, CcifsStep, PythonStep, Finalise, Make, InitFails, Spawn, Fini,
         FiniCancels, Delete, Signal, Exit, RunsWild, NotifyInit, AddWatch, NotifyFails,
         CheckRunning, PythonProceeds, PythonFails, PythonSignal, PythonReturns, PythonExits,
         watch, history, vars

\* None of them loses, repeats or reorders a file.
LEMMA CreationsStep ==
    ASSUME ThreadInv, Ordered, [Next]_vars PROVE Ordered'
<1> DEFINE files == (1 .. created) \ lost
<1>1. /\ reported \in Seq(Nat) /\ buf \in Seq(Nat) /\ queue \in Seq(Nat) /\ created \in Nat
      /\ lost \subseteq 1 .. created
      /\ thread["ccifs"] = "display" <=> buf # <<>>
  <2>1. /\ reported \in Seq(1 .. MaxEvents) /\ buf \in Seq(0 .. MaxEvents)
        /\ queue \in Seq(0 .. MaxEvents) /\ created \in 0 .. MaxEvents
        /\ lost \subseteq 1 .. created
        /\ thread["ccifs"] = "display" <=> buf # <<>>
    BY DEF ThreadInv, TypeOK
  <2>2. created \in Nat
    BY ONLY <2>1
  <2>3. 0 .. MaxEvents \subseteq Nat /\ 1 .. MaxEvents \subseteq Nat
    OBVIOUS
  <2>4. reported \in Seq(Nat) /\ buf \in Seq(Nat) /\ queue \in Seq(Nat)
    BY ONLY <2>1, <2>3, SeqMonotonic
  <2> QED BY ONLY <2>1, <2>2, <2>4
<1>2. CASE Read
  <2>1. PICK n \in 1 .. Least(BufferEvents, Len(queue)) :
           buf' = SubSeq(queue, 1, n) /\ queue' = SubSeq(queue, n + 1, Len(queue))
    BY <1>2 DEF Read
  <2>2. n \in 1 .. Len(queue)
    BY <1>1, <2>1, ServiceAssumption DEF Least
  <2>3. buf = <<>> /\ reported' = reported /\ UNCHANGED <<created, lost>>
    BY <1>1, <1>2 DEF Read, Thread, history
  <2>4. (reported' \o buf') \o queue' = (reported \o buf) \o queue
    BY <1>1, <2>1, <2>2, <2>3, ReadMoves
  <2> QED BY <2>3, <2>4 DEF Ordered
<1>3. CASE Display
  <2>1. /\ reported' = IF Head(buf) = 0 THEN reported ELSE Append(reported, Head(buf))
        /\ buf' = Tail(buf) /\ queue' = queue /\ UNCHANGED <<created, lost>> /\ buf # <<>>
    BY <1>1, <1>3 DEF Display, Thread, history
  <2>2. /\ (Append(reported, Head(buf)) \o Tail(buf)) \o queue = (reported \o buf) \o queue
        /\ (reported \o buf) \o queue = (reported \o <<Head(buf)>>) \o (Tail(buf) \o queue)
        /\ (reported \o Tail(buf)) \o queue = reported \o (Tail(buf) \o queue)
    BY <1>1, <2>1, DisplayMoves
  <2>3. CASE Head(buf) # 0
    <3>1. (reported' \o buf') \o queue' = (reported \o buf) \o queue
      BY <2>1, <2>2, <2>3
    <3> QED BY <2>1, <3>1 DEF Ordered
  <2>4. CASE Head(buf) = 0
    <3>1. PICK rest : rest = Tail(buf) \o queue
      OBVIOUS
    <3>2. rest \in Seq(Nat)
      BY <1>1, <2>1, <3>1
    <3>3. InOrder((reported \o << 0 >>) \o rest, files)
      BY <2>2, <2>4, <3>1 DEF Ordered
    <3>4. InOrder(reported \o rest, files)
      BY <1>1, <3>2, <3>3, InOrderDrop
    <3>5. (reported' \o buf') \o queue' = reported \o rest
      BY <2>1, <2>2, <2>4, <3>1
    <3> QED BY <2>1, <3>4, <3>5 DEF Ordered
  <2> QED BY <2>3, <2>4
<1>4. CASE FileEvent \/ FileEventDropped
  <2>1. PICK all : all = reported \o buf
    OBVIOUS
  <2>0. UNCHANGED <<reported, buf>>
    BY <1>4 DEF FileEvent, FileEventDropped
  <2>2. all \in Seq(Nat) /\ all \o queue \in Seq(Nat) /\ reported' \o buf' = all
    BY <1>1, <2>0, <2>1
  <2>3. InOrder(all \o queue, files)
    BY <2>1 DEF Ordered
  <2>4. ASSUME NEW x \in Nat PROVE all \o Append(queue, x) = Append(all \o queue, x)
    <3>1. PICK o : o = <<x>>
      OBVIOUS
    <3>2. o \in Seq(Nat) /\ Append(queue, x) = queue \o o
      BY <1>1, <3>1
    <3>3. Append(all \o queue, x) = (all \o queue) \o o
      BY ONLY <2>2, <3>1, x \in Nat
    <3>4. all \in Seq(Nat) /\ queue \in Seq(Nat) /\ o \in Seq(Nat)
      BY <1>1, <2>2, <3>2
    <3>5. (all \o queue) \o o = all \o (queue \o o)
      BY ONLY <3>4, ConcatEvents
    <3> QED BY <3>2, <3>3, <3>5
  <2>5. \/ queue' \in {queue, Append(queue, 0)} /\ UNCHANGED <<created, lost>>
        \/ queue' = Append(queue, created + 1) /\ created' = created + 1 /\ UNCHANGED lost
        \/ /\ queue' \in {queue, Append(queue, 0)} /\ created' = created + 1
           /\ lost' = lost \union {created + 1}
    BY <1>4 DEF FileEvent, FileEventDropped
  <2>6. files \in SUBSET (1 .. created)
    OBVIOUS
  <2>7. /\ (1 .. created + 1) \ lost = files \union {created + 1}
        /\ (1 .. created + 1) \ (lost \union {created + 1}) = files
    BY <1>1
  <2>8. InOrder(all \o queue', (1 .. created') \ lost')
    <3>1. PICK before : before = all \o queue
      OBVIOUS
    <3>2. /\ InOrder(before, files) /\ InOrder(Append(before, 0), files)
          /\ InOrder(Append(before, created + 1), files \union {created + 1})
      BY <1>1, <2>2, <2>3, <2>6, <3>1, InOrderAppend
    <3>3. all \o Append(queue, 0) = Append(before, 0)
      BY <2>4, <3>1
    <3>4. all \o Append(queue, created + 1) = Append(before, created + 1)
      <4>1. created + 1 \in Nat
        BY <1>1
      <4> QED BY ONLY <2>4, <3>1, <4>1
    <3> HIDE DEF files
    <3>5. CASE queue' \in {queue, Append(queue, 0)} /\ (1 .. created') \ lost' = files
      BY <3>1, <3>2, <3>3, <3>5
    <3>6. CASE /\ queue' = Append(queue, created + 1)
               /\ (1 .. created') \ lost' = files \union {created + 1}
      BY <3>2, <3>4, <3>6
    <3> QED BY <2>5, <2>7, <3>5, <3>6 DEF files
  <2> QED BY <2>2, <2>8 DEF Ordered
<1>5. CASE UNCHANGED <<queue, buf, reported, created, lost>>
  BY <1>5 DEF Ordered
<1> QED BY <1>2, <1>3, <1>4, <1>5, WatchKept

\* The threads stay in their functions, what the file system's thread reads fits
\* its buffer, and it reports files that were created only.
THEOREM ServicesTyped == Spec => []TypeOK
<1>1. ThreadInv => TypeOK
  BY DEF ThreadInv
<1> QED BY ThreadInit, ThreadNext, <1>1, PTL DEF Spec

\* With any number of events, a buffer and a queue of any size, the thread reports
\* the creations that inotify had room for, in order, none dropped or twice, and
\* all that it read before it looks at its flag again or leaves, whatever is done
\* to the service meanwhile.
THEOREM ReportsWhatIsRead == Spec => []CreationsReported
<1>1. Init => Ordered
  BY DEF Init, Ordered, InOrder
<1>2. ThreadInv /\ Ordered /\ [Next]_vars => Ordered'
  BY CreationsStep
<1>3. ThreadInv /\ Ordered => CreationsReported
  BY DEF ThreadInv, Ordered, CreationsReported
<1> QED BY ThreadInit, ThreadNext, <1>1, <1>2, <1>3, PTL DEF Spec
=============================================================================
