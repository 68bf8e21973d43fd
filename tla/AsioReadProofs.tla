--------------------------- MODULE AsioReadProofs ---------------------------
(* The bytes received: one read at a time, and a stream with nothing lost,   *)
(* doubled or out of order.                                                  *)
EXTENDS AsioBackendProofs

USE BoundsAssumption, ScratchAssumption, ReadSizesAssumption

\* Completions of reads.
ReadHandlers == {h \in Handlers : h.kind = "read"}

\* How the number of queued completions of reads changes with the queue.
LEMMA QueuedReadsStep ==
    ASSUME TypeOK, References, TypeOK'
    PROVE  /\ Cardinality(QueuedReads) \in Nat /\ Cardinality(QueuedReads)' \in Nat
           /\ UNCHANGED ready => Cardinality(QueuedReads)' = Cardinality(QueuedReads)
           /\ ready # <<>> /\ ready' = Tail(ready) =>
                Cardinality(QueuedReads)'
                  = Cardinality(QueuedReads) - (IF Head(ready).kind = "read" THEN 1 ELSE 0)
           /\ ready' = ready \o Aborted =>
                Cardinality(QueuedReads)' = Cardinality(QueuedReads) + pendingReads
           /\ \A h \in Handlers : ready' = Append(ready, h) =>
                Cardinality(QueuedReads)'
                  = Cardinality(QueuedReads) + (IF h.kind = "read" THEN 1 ELSE 0)
<1>1. ready \in Seq(Handlers) /\ ready' \in Seq(Handlers)
  BY DEF TypeOK, HandlersOK
<1>2. \A s \in Seq(Handlers) : {i \in DOMAIN s : s[i].kind = "read"} = Places(s, ReadHandlers)
  <2>1. \A s \in Seq(Handlers) : \A i \in DOMAIN s : s[i] \in Handlers
    BY ElementOfSeq, LenProperties
  <2> QED
    BY <2>1 DEF Places, ReadHandlers
<1>3. QueuedReads = Places(ready, ReadHandlers) /\ QueuedReads' = Places(ready', ReadHandlers)
  BY <1>1, <1>2 DEF QueuedReads
<1>4. Cardinality(QueuedReads) \in Nat /\ Cardinality(QueuedReads)' \in Nat
  BY <1>1, <1>3, PlacesFinite
<1>5. ASSUME ready # <<>>, ready' = Tail(ready)
      PROVE  Cardinality(QueuedReads)'
               = Cardinality(QueuedReads) - (IF Head(ready).kind = "read" THEN 1 ELSE 0)
  <2>1. Head(ready) \in Handlers
    BY <1>1, <1>5, HeadTailProperties
  <2>2. Cardinality(Places(Tail(ready), ReadHandlers))
          = Cardinality(Places(ready, ReadHandlers)) - (IF Head(ready) \in ReadHandlers THEN 1 ELSE 0)
    BY <1>1, <1>5, CountTail
  <2> QED
    BY <1>3, <1>5, <2>1, <2>2 DEF ReadHandlers
<1>6. ASSUME ready' = ready \o Aborted
      PROVE  Cardinality(QueuedReads)' = Cardinality(QueuedReads) + pendingReads
  <2>1. /\ Aborted \in Seq(Handlers) /\ DOMAIN Aborted = 1..(pendingReads + Len(pendingWrites))
        /\ pendingReads \in Nat /\ Len(pendingWrites) \in Nat
    BY AbortedHandlers, LenProperties DEF TypeOK, HandlersOK
  <2>2. \A i \in 1..pendingReads : Aborted[i] \in ReadHandlers
    <3>1. ReadDone(FALSE, 0) \in ReadHandlers
      BY DEF ReadDone, ReadHandlers, Handlers
    <3> QED
      BY <3>1, AbortedOrder
  <2>3. \A i \in 1..Len(pendingWrites) : Aborted[i + pendingReads] \notin ReadHandlers
    <3>1. \A w : WriteDone(w, FALSE, 0) \notin ReadHandlers
      BY DEF WriteDone, ReadHandlers
    <3> QED
      BY <3>1, AbortedOrder
  <2>4. \A i \in 1..(pendingReads + Len(pendingWrites)) :
          i \in 1..pendingReads
          \/ (i - pendingReads \in 1..Len(pendingWrites) /\ (i - pendingReads) + pendingReads = i)
    BY <2>1
  <2>5. \A i \in 1..(pendingReads + Len(pendingWrites)) :
          Aborted[i] \in ReadHandlers <=> i \in 1..pendingReads
    <3>1. SUFFICES ASSUME NEW i \in 1..(pendingReads + Len(pendingWrites)), i \notin 1..pendingReads
                   PROVE  Aborted[i] \notin ReadHandlers
      BY <2>2
    <3> QED
      BY <2>3, <2>4, <3>1
  <2>6. 1..pendingReads \subseteq 1..(pendingReads + Len(pendingWrites))
    BY <2>1
  <2>7. Places(Aborted, ReadHandlers) = 1..pendingReads
    BY <2>1, <2>5, <2>6 DEF Places
  <2>8. Cardinality(1..pendingReads) = pendingReads
    BY <2>1, FS_Interval
  <2> QED
    BY <1>1, <1>3, <1>6, <2>1, <2>7, <2>8, CountConcat
<1>7. ASSUME NEW h \in Handlers, ready' = Append(ready, h)
      PROVE  Cardinality(QueuedReads)'
               = Cardinality(QueuedReads) + (IF h.kind = "read" THEN 1 ELSE 0)
  <2>1. Cardinality(Places(Append(ready, h), ReadHandlers))
          = Cardinality(Places(ready, ReadHandlers)) + (IF h \in ReadHandlers THEN 1 ELSE 0)
    BY <1>1, CountAppend
  <2> QED
    BY <1>3, <1>7, <2>1 DEF ReadHandlers
<1> QED
  BY <1>3, <1>4, <1>5, <1>6, <1>7

\* A posted write enters the queue as it is.
LEMMA PostedHandlers ==
    ASSUME TypeOK, References, NEW t \in Threads, WritePost(t)
    PROVE  \E h \in Handlers : /\ h.kind = "post" /\ h.write = posting[t] /\ h.ok
                               /\ ready' = Append(ready, h)
<1>1. posting[t] \in 0..MaxWrites
  BY DEF TypeOK, ThreadsOK
<1>2. \A w \in 0..MaxWrites : /\ Posted(w) \in Handlers
                               /\ Posted(w).kind = "post" /\ Posted(w).write = w /\ Posted(w).ok
  BY DEF Posted, Handlers
<1>3. ready' = Append(ready, Posted(posting[t]))
  BY DEF WritePost
<1> QED
  BY <1>1, <1>2, <1>3

\* The next piece of a write is completed at once, or waits; when it fails at
\* once the device is gone.
LEMMA WriteSomeHandlers ==
    ASSUME TypeOK, References, WorkerWriteSome
    PROVE  /\ starting \in 1..Len(wsize) /\ starting \in 1..MaxWrites
           /\ \/ /\ UNCHANGED pendingWrites
                 /\ \E h \in Handlers : /\ h.kind = "write" /\ h.write = starting
                                        /\ ~h.ok => ~attached
                                        /\ ready' = Append(ready, h)
              \/ UNCHANGED ready /\ pendingWrites' = Append(pendingWrites, starting)
<1>1. starting \in 1..Len(wsize) /\ starting \in 1..MaxWrites
  BY LenProperties DEF WorkerWriteSome, References, ThreadsRefer, TypeOK, ThreadsOK, RequestsOK
<1>2. wsize[starting] \in 1..MaxSize /\ wsent[starting] \in 0..MaxSize
  BY <1>1, ElementOfSeq DEF TypeOK, RequestsOK
<1>3. \A n \in 1..(wsize[starting] - wsent[starting]) : n \in Nat
  BY <1>2
<1>4. \A w \in 1..MaxWrites, ok \in BOOLEAN, n \in Nat :
        /\ WriteDone(w, ok, n) \in Handlers
        /\ WriteDone(w, ok, n).kind = "write" /\ WriteDone(w, ok, n).write = w
        /\ WriteDone(w, ok, n).ok = ok
  BY DEF WriteDone, Handlers
<1>5. \/ /\ UNCHANGED pendingWrites
         /\ \E n \in 1..(wsize[starting] - wsent[starting]) :
              ready' = Append(ready, WriteDone(starting, TRUE, n))
      \/ /\ UNCHANGED pendingWrites /\ ~attached
         /\ ready' = Append(ready, WriteDone(starting, FALSE, 0))
      \/ UNCHANGED ready /\ pendingWrites' = Append(pendingWrites, starting)
  BY DEF WorkerWriteSome
<1>6. ASSUME UNCHANGED pendingWrites, NEW n \in 1..(wsize[starting] - wsent[starting]),
             ready' = Append(ready, WriteDone(starting, TRUE, n))
      PROVE  \E h \in Handlers : /\ h.kind = "write" /\ h.write = starting
                                 /\ ~h.ok => ~attached
                                 /\ ready' = Append(ready, h)
  BY <1>1, <1>3, <1>4, <1>6
<1>7. ASSUME ~attached, ready' = Append(ready, WriteDone(starting, FALSE, 0))
      PROVE  \E h \in Handlers : /\ h.kind = "write" /\ h.write = starting
                                 /\ ~h.ok => ~attached
                                 /\ ready' = Append(ready, h)
  <2>1. FALSE \in BOOLEAN /\ 0 \in Nat
    OBVIOUS
  <2>2. /\ WriteDone(starting, FALSE, 0) \in Handlers
        /\ WriteDone(starting, FALSE, 0).kind = "write"
        /\ WriteDone(starting, FALSE, 0).write = starting
    BY <1>1, <1>4, <2>1
  <2> QED
    BY <1>7, <2>2
<1> QED
  BY <1>1, <1>5, <1>6, <1>7

\* The queued handlers are finitely many.
LEMMA QueuedAreFinite ==
    ASSUME TypeOK
    PROVE  /\ Cardinality(QueuedReads) \in Nat
           /\ \A w : Cardinality(Queued(w)) \in Nat
<1>1. ready \in Seq(Handlers)
  BY DEF TypeOK, HandlersOK
<1>2. Len(ready) \in Nat /\ DOMAIN ready = 1..Len(ready)
  BY <1>1, LenProperties
<1>3. IsFiniteSet(DOMAIN ready)
  BY <1>2, FS_Interval
<1>4. \A S : S \subseteq DOMAIN ready => Cardinality(S) \in Nat
  BY <1>3, FS_Subset, FS_CardinalityType
<1> QED
  BY <1>4 DEF QueuedReads, Queued

\* A read that is started is completed at once, or waits; when it fails at once
\* the device is gone.
LEMMA ReadHandlersStep ==
    ASSUME TypeOK, AsyncReadSome
    PROVE  \/ /\ UNCHANGED pendingReads
              /\ \E h \in Handlers : /\ h.kind = "read" /\ (~h.ok => ~attached)
                                     /\ ready' = Append(ready, h)
           \/ UNCHANGED ready /\ pendingReads' = pendingReads + 1
<1>1. \A n \in Nat : ReadDone(TRUE, n) \in Handlers /\ ReadDone(FALSE, n) \in Handlers
  BY DEF ReadDone, Handlers
<1>2. \A n : /\ ReadDone(TRUE, n).kind = "read" /\ ReadDone(TRUE, n).ok
             /\ ReadDone(FALSE, n).kind = "read" /\ ~ReadDone(FALSE, n).ok
  BY DEF ReadDone
<1>3. CASE FillScratch /\ ready' = Append(ready, ReadDone(TRUE, ReadSize)) /\ UNCHANGED pendingReads
  BY <1>1, <1>2, <1>3, ScratchTypes
<1>4. CASE ~attached /\ ready' = Append(ready, ReadDone(FALSE, 0)) /\ UNCHANGED pendingReads
  BY <1>1, <1>2, <1>4
<1> QED
  BY <1>3, <1>4 DEF AsyncReadSome

\* Only a successful open() starts a session.
LEMMA SessionGrows ==
    ASSUME [Next]_vars, ~OpenSucceeds
    PROVE  UNCHANGED session
<1> USE DEF memberVars, portVars, threadVars, deviceVars, requestVars, sessionVars, historyVars
<1>1. CASE Open \/ CloseCall \/ CloseSteps
  BY <1>1 DEF Open, OpenCall, OpenFails, OpenCheckRunning, OpenAsyncRead, CloseCall, CloseSteps,
       CloseClearRunning, CloseCancel, CloseResetWork, CloseStop, CloseJoin
<1>2. CASE Calls \/ Device \/ UNCHANGED vars
  BY <1>2 DEF Calls, WriteNotOpen, ClearInput, ClearError, WriteCount, WritePost, ReadCall,
       Device, DeviceSends, DeviceUnplugged, vars
<1>3. CASE Worker
  BY <1>3 DEF Worker, WorkerCheckRunning, WorkerAsyncRead, WorkerWriteSome, CallbackReturns,
       RunPosted, RunReadDone, RunWriteDone, ReactorRead, ReactorWrite, WorkerExits
<1> QED
  BY <1>1, <1>2, <1>3 DEF Next

\* A read is outstanding in one place at a time: open() starts one, and every
\* other step moves a read on, or ends it.
LEMMA ReadsOutstandingStep ==
    ASSUME CoreInv, [Next]_vars, CoreInv'
    PROVE  /\ ReadsOutstanding \in Nat /\ ReadsOutstanding' \in Nat
           /\ ~OpenSucceeds => ReadsOutstanding' <= ReadsOutstanding
           /\ OpenSucceeds => /\ ReadsOutstanding' = ReadsOutstanding + 1
                              /\ clean => ReadsOutstanding = 0
<1> USE DEF memberVars, portVars, threadVars, deviceVars, requestVars, sessionVars, historyVars
<1> DEFINE U == IF user \in {"startRead", "asyncRead"} THEN 1 ELSE 0
           W == IF worker \in {"onReadyRead", "doRead", "asyncRead"} THEN 1 ELSE 0
           n == Cardinality(QueuedReads)
<1>1. TypeOK /\ References /\ Control /\ ClosedIsEmpty /\ FailureExplained /\ TypeOK'
  BY DEF CoreInv
<1>2. /\ n \in Nat /\ n' \in Nat /\ pendingReads \in Nat
      /\ UNCHANGED ready => n' = n
      /\ ready # <<>> /\ ready' = Tail(ready) =>
           n' = n - (IF Head(ready).kind = "read" THEN 1 ELSE 0)
      /\ ready' = ready \o Aborted => n' = n + pendingReads
      /\ \A h \in Handlers : ready' = Append(ready, h) => n' = n + (IF h.kind = "read" THEN 1 ELSE 0)
  BY <1>1, QueuedReadsStep DEF TypeOK, HandlersOK
<1>3. ReadsOutstanding = U + pendingReads + n + W
  BY DEF ReadsOutstanding
<1>4. ReadsOutstanding' = U' + pendingReads' + n' + W'
  BY DEF ReadsOutstanding
<1> HIDE DEF n
<1>5. ASSUME OpenSucceeds
      PROVE  /\ ReadsOutstanding' = ReadsOutstanding + 1
             /\ clean => ReadsOutstanding = 0
  <2>1. /\ ~isOpen /\ worker = "none" /\ pendingReads = 0
        /\ clean => ready = <<>>
    BY <1>1, <1>5 DEF OpenSucceeds, Control, ClosedIsEmpty, FailureExplained
  <2>2. U = 0 /\ W = 0 /\ U' = 1 /\ W' = 0 /\ UNCHANGED <<ready, pendingReads>>
    BY <1>5, <2>1 DEF OpenSucceeds
  <2>3. clean => n = 0
    BY <2>1, FS_EmptySet DEF n, QueuedReads
  <2> QED
    BY <1>2, <1>3, <1>4, <2>1, <2>2, <2>3
<1>6. ReadsOutstanding \in Nat /\ ReadsOutstanding' \in Nat
  <2>1. pendingReads' \in Nat
    BY <1>1 DEF TypeOK, HandlersOK
  <2>2. U \in Nat /\ U' \in Nat /\ W \in Nat /\ W' \in Nat
    OBVIOUS
  <2>3. n \in Nat /\ n' \in Nat /\ pendingReads \in Nat
    BY <1>2
  <2>4. \A a, b, c, d \in Nat : a + b + c + d \in Nat
    OBVIOUS
  <2>5. ReadsOutstanding \in Nat
    BY <1>3, <2>2, <2>3, <2>4, Zenon
  <2>6. ReadsOutstanding' \in Nat
    BY <1>4, <2>1, <2>2, <2>3, <2>4, Zenon
  <2> QED
    BY <2>5, <2>6
<1>7. SUFFICES ASSUME ~OpenSucceeds
                PROVE  ReadsOutstanding' <= ReadsOutstanding
  BY <1>5, <1>6
<1>8. ASSUME n' = n, UNCHANGED pendingReads, U' <= U, W' <= W
      PROVE  ReadsOutstanding' <= ReadsOutstanding
  BY <1>2, <1>3, <1>4, <1>8
<1>9. CASE OpenCall \/ OpenFails \/ OpenCheckRunning \/ CloseCall \/ CloseClearRunning
           \/ CloseResetWork \/ CloseStop
  BY <1>2, <1>8, <1>9 DEF OpenCall, OpenFails, OpenCheckRunning, CloseCall, CloseClearRunning,
       CloseResetWork, CloseStop, UserIdle
<1>10. CASE CloseCancel \/ CloseJoin
  <2>1. ready' = ready \o Aborted /\ pendingReads' = 0 /\ U' = 0 /\ W' <= W
    BY <1>10 DEF CloseCancel, CloseJoin, Joined
  <2>2. U \in Nat /\ W \in Nat /\ W' \in Nat
    OBVIOUS
  <2> QED
    BY <1>2, <1>3, <1>4, <2>1, <2>2
<1>11. CASE OpenAsyncRead \/ WorkerAsyncRead
  <2>1. AsyncReadSome
    BY <1>11 DEF OpenAsyncRead, WorkerAsyncRead
  <2>2. \/ n' = n + 1 /\ pendingReads' = pendingReads
        \/ n' = n /\ pendingReads' = pendingReads + 1
    BY <1>1, <1>2, <2>1, ReadHandlersStep
  <2>3. n \in Nat /\ n' \in Nat /\ pendingReads \in Nat /\ pendingReads' \in Nat
    BY <1>1, <1>2 DEF TypeOK, HandlersOK
  <2>4. \/ U = 1 /\ U' = 0 /\ W' = W /\ W \in {0, 1}
        \/ W = 1 /\ W' = 0 /\ U' = U /\ U \in {0, 1}
    BY <1>11 DEF OpenAsyncRead, WorkerAsyncRead
  <2>5. ASSUME n' = n + 1, pendingReads' = pendingReads
        PROVE  ReadsOutstanding' <= ReadsOutstanding
    BY <1>3, <1>4, <2>3, <2>4, <2>5
  <2>6. ASSUME n' = n, pendingReads' = pendingReads + 1
        PROVE  ReadsOutstanding' <= ReadsOutstanding
    BY <1>3, <1>4, <2>3, <2>4, <2>6
  <2> QED
    BY <2>2, <2>5, <2>6
<1>12. CASE WriteNotOpen \/ ClearInput \/ ClearError \/ Device \/ UNCHANGED vars
            \/ (\E t \in Threads : WriteCount(t) \/ ReadCall(t))
  BY <1>2, <1>8, <1>12 DEF WriteNotOpen, ClearInput, ClearError, Device, DeviceSends,
       DeviceUnplugged, WriteCount, ReadCall, vars
<1>13. ASSUME NEW t \in Threads, WritePost(t)
       PROVE  ReadsOutstanding' <= ReadsOutstanding
  <2>1. n' = n
    BY <1>1, <1>2, <1>13, PostedHandlers
  <2> QED
    BY <1>8, <1>13, <2>1 DEF WritePost
<1>14. CASE WorkerCheckRunning \/ CallbackReturns \/ WorkerExits
  <2>1. W' <= W /\ UNCHANGED <<ready, pendingReads, user>>
    BY <1>14 DEF WorkerCheckRunning, CallbackReturns, WorkerExits, AfterCallback, Callbacks
  <2> QED
    BY <1>2, <1>8, <2>1
<1>15. CASE RunPosted
  <2>1. /\ ready # <<>> /\ ready' = Tail(ready) /\ Head(ready).kind # "read" /\ W' = 0
        /\ UNCHANGED <<user, pendingReads>>
    BY <1>15 DEF RunPosted
  <2> QED
    BY <1>2, <1>8, <2>1
<1>16. CASE RunReadDone
  <2>1. /\ ready # <<>> /\ ready' = Tail(ready) /\ Head(ready).kind = "read" /\ W = 0
        /\ W' \in {0, 1} /\ UNCHANGED <<user, pendingReads>>
    BY <1>16 DEF RunReadDone, Running
  <2>2. U' = U /\ U \in Nat
    BY <2>1
  <2> QED
    BY <1>2, <1>3, <1>4, <2>1, <2>2
<1>17. ASSUME NEW w, NEW ok, PieceWritten(w, ok)
       PROVE  W' = 0
  BY <1>17 DEF PieceWritten
<1>18. CASE RunWriteDone
  <2>1. /\ ready # <<>> /\ ready' = Tail(ready) /\ Head(ready).kind # "read" /\ W' = 0
        /\ UNCHANGED <<user, pendingReads>>
    BY <1>17, <1>18 DEF RunWriteDone
  <2> QED
    BY <1>2, <1>8, <2>1
<1>19. CASE WorkerWriteSome
  <2>1. W' = 0 /\ UNCHANGED <<user, pendingReads>>
    BY <1>19 DEF WorkerWriteSome
  <2>2. n' = n
    BY <1>1, <1>2, <1>19, WriteSomeHandlers
  <2> QED
    BY <1>8, <2>1, <2>2
<1>20. CASE ReactorRead
  <2>1. /\ pendingReads' = pendingReads - 1 /\ W = 0 /\ W' \in {0, 1}
        /\ UNCHANGED <<user, ready>>
    BY <1>20 DEF ReactorRead, Running
  <2>2. U' = U /\ U \in Nat
    BY <2>1
  <2> QED
    BY <1>2, <1>3, <1>4, <2>1, <2>2
<1>21. CASE ReactorWrite
  <2>1. W' = 0 /\ UNCHANGED <<user, pendingReads, ready>>
    BY <1>17, <1>21 DEF ReactorWrite
  <2> QED
    BY <1>2, <1>8, <2>1
<1> QED
  BY <1>9, <1>10, <1>11, <1>12, <1>13, <1>14, <1>15, <1>16, <1>18, <1>19, <1>20, <1>21, <1>7
     DEF Next, Open, CloseSteps, Calls, Worker

\* So there is one read for each opening at most, and one in a clean history,
\* where a new session finds none.
LEMMA SingleReadLoopStep ==
    ASSUME CoreInv, SingleReadLoop, [Next]_vars, CoreInv'
    PROVE  SingleReadLoop'
<1>1. /\ ReadsOutstanding \in Nat /\ ReadsOutstanding' \in Nat
      /\ ~OpenSucceeds => ReadsOutstanding' <= ReadsOutstanding
      /\ OpenSucceeds => /\ ReadsOutstanding' = ReadsOutstanding + 1
                         /\ clean => ReadsOutstanding = 0
  BY ReadsOutstandingStep
<1>2. ~OpenSucceeds => UNCHANGED session
  BY SessionGrows
<1>3. OpenSucceeds => session' = session + 1
  BY DEF OpenSucceeds
<1>4. session \in Nat /\ (clean' => clean)
  BY CleanStep DEF CoreInv, TypeOK, FlagsOK
<1> QED
  BY <1>1, <1>2, <1>3, <1>4 DEF SingleReadLoop

-----------------------------------------------------------------------------
(***************************************************************************)
(* The bytes a queue of completions says are in readScratch_.               *)
(***************************************************************************)
CompletedIn(q) == {i \in DOMAIN q : q[i].kind = "read" /\ q[i].ok}
ScratchPart(q, s) == IF CompletedIn(q) = {} THEN <<>>
                     ELSE SubSeq(s, 1, q[CHOOSE i \in CompletedIn(q) : TRUE].bytes)

\* InScratch is that part, before and after a step.
LEMMA InScratchIs == InScratch = ScratchPart(ready, readScratch)
                     /\ InScratch' = ScratchPart(ready', readScratch')
BY DEF InScratch, ScratchPart, CompletedReads, CompletedIn

\* The places of completed reads in a queue, as they change with it.
LEMMA CompletedPlaces ==
    ASSUME NEW q \in Seq(Handlers)
    PROVE  /\ CompletedIn(q) \subseteq 1..Len(q)
           /\ \A h \in Handlers :
                /\ ~(h.kind = "read" /\ h.ok) => CompletedIn(Append(q, h)) = CompletedIn(q)
                /\ h.kind = "read" /\ h.ok /\ CompletedIn(q) = {} =>
                     CompletedIn(Append(q, h)) = {Len(q) + 1}
           /\ \A r \in Seq(Handlers) : (\A i \in 1..Len(r) : ~r[i].ok) =>
                CompletedIn(q \o r) = CompletedIn(q)
           /\ q # <<>> => CompletedIn(Tail(q)) = {i - 1 : i \in CompletedIn(q) \ {1}}
<1>1. DOMAIN q = 1..Len(q) /\ Len(q) \in Nat
  BY LenProperties
<1>2. ASSUME NEW h \in Handlers
      PROVE  /\ ~(h.kind = "read" /\ h.ok) => CompletedIn(Append(q, h)) = CompletedIn(q)
             /\ h.kind = "read" /\ h.ok /\ CompletedIn(q) = {} =>
                  CompletedIn(Append(q, h)) = {Len(q) + 1}
  <2>1. /\ DOMAIN Append(q, h) = 1..(Len(q) + 1) /\ Append(q, h)[Len(q) + 1] = h
        /\ \A i \in 1..Len(q) : Append(q, h)[i] = q[i]
    BY Appended
  <2>2. \A i : i \in 1..(Len(q) + 1) <=> i \in 1..Len(q) \/ i = Len(q) + 1
    BY <1>1
  <2>3. Len(q) + 1 \notin 1..Len(q)
    BY <1>1
  <2> QED
    BY <1>1, <2>1, <2>2, <2>3 DEF CompletedIn
<1>3. ASSUME NEW r \in Seq(Handlers), \A i \in 1..Len(r) : ~r[i].ok
      PROVE  CompletedIn(q \o r) = CompletedIn(q)
  <2>1. /\ DOMAIN (q \o r) = 1..(Len(q) + Len(r)) /\ Len(r) \in Nat
        /\ \A i \in 1..Len(q) + Len(r) : (q \o r)[i] = IF i <= Len(q) THEN q[i] ELSE r[i - Len(q)]
    BY ConcatProperties, LenProperties
  <2>2. \A i \in 1..Len(q) : i \in 1..(Len(q) + Len(r)) /\ (q \o r)[i] = q[i]
    BY <1>1, <2>1
  <2>3. \A i \in 1..(Len(q) + Len(r)) : i \notin 1..Len(q) => ~(q \o r)[i].ok
    <3>1. SUFFICES ASSUME NEW i \in 1..(Len(q) + Len(r)), i \notin 1..Len(q)
                   PROVE  ~(q \o r)[i].ok
      OBVIOUS
    <3>2. ~(i <= Len(q)) /\ i - Len(q) \in 1..Len(r)
      BY <1>1, <2>1, <3>1
    <3> QED
      BY <1>3, <2>1, <3>2
  <2> QED
    BY <1>1, <2>1, <2>2, <2>3 DEF CompletedIn
<1>4. ASSUME q # <<>>
      PROVE  CompletedIn(Tail(q)) = {i - 1 : i \in CompletedIn(q) \ {1}}
  <2>1. /\ DOMAIN Tail(q) = 1..(Len(q) - 1)
        /\ \A i \in 1..(Len(q) - 1) : Tail(q)[i] = q[i + 1]
    BY <1>4, HeadTailProperties, LenProperties
  <2>2. ASSUME NEW i \in CompletedIn(Tail(q))
        PROVE  i \in {j - 1 : j \in CompletedIn(q) \ {1}}
    <3>1. i \in 1..(Len(q) - 1) /\ i + 1 \in 1..Len(q) /\ i + 1 # 1 /\ i = (i + 1) - 1
      BY <1>1, <2>1 DEF CompletedIn
    <3>2. i + 1 \in CompletedIn(q) \ {1}
      BY <1>1, <2>1, <3>1 DEF CompletedIn
    <3> QED
      BY <3>1, <3>2
  <2>3. ASSUME NEW j \in CompletedIn(q) \ {1}
        PROVE  j - 1 \in CompletedIn(Tail(q))
    <3>1. j - 1 \in 1..(Len(q) - 1) /\ (j - 1) + 1 = j
      BY <1>1 DEF CompletedIn
    <3>2. Tail(q)[j - 1] = q[j]
      BY <2>1, <3>1
    <3> QED
      BY <2>1, <3>1, <3>2 DEF CompletedIn
  <2> QED
    BY <2>2, <2>3
<1> QED
  BY <1>1, <1>2, <1>3, <1>4 DEF CompletedIn

\* A queue without a completed read says nothing, one completed read speaks
\* for itself, and neither a new entry that is no completed read nor the
\* removal of one changes what the others say.
LEMMA ScratchPartIs ==
    ASSUME NEW q \in Seq(Handlers), NEW s
    PROVE  /\ CompletedIn(q) = {} => ScratchPart(q, s) = <<>>
           /\ \A i : CompletedIn(q) = {i} => ScratchPart(q, s) = SubSeq(s, 1, q[i].bytes)
           /\ \A h \in Handlers : ~(h.kind = "read" /\ h.ok) =>
                ScratchPart(Append(q, h), s) = ScratchPart(q, s)
           /\ \A r \in Seq(Handlers) : (\A i \in 1..Len(r) : ~r[i].ok) =>
                ScratchPart(q \o r, s) = ScratchPart(q, s)
<1>1. CompletedIn(q) = {} => ScratchPart(q, s) = <<>>
  BY DEF ScratchPart
<1>2. ASSUME NEW i, CompletedIn(q) = {i}
      PROVE  ScratchPart(q, s) = SubSeq(s, 1, q[i].bytes)
  <2>1. (CHOOSE j \in CompletedIn(q) : TRUE) = i
    BY <1>2
  <2> QED
    BY <1>2, <2>1 DEF ScratchPart
<1>3. ASSUME NEW t, CompletedIn(t) = CompletedIn(q), \A i \in CompletedIn(q) : t[i] = q[i]
      PROVE  ScratchPart(t, s) = ScratchPart(q, s)
  <2>1. CompletedIn(q) # {} => (CHOOSE j \in CompletedIn(q) : TRUE) \in CompletedIn(q)
    OBVIOUS
  <2> QED
    BY <1>3, <2>1 DEF ScratchPart
<1>4. ASSUME NEW h \in Handlers, ~(h.kind = "read" /\ h.ok)
      PROVE  ScratchPart(Append(q, h), s) = ScratchPart(q, s)
  <2>1. \A i \in 1..Len(q) : Append(q, h)[i] = q[i]
    BY Appended
  <2> QED
    BY <1>3, <1>4, <2>1, CompletedPlaces
<1>5. ASSUME NEW r \in Seq(Handlers), \A i \in 1..Len(r) : ~r[i].ok
      PROVE  ScratchPart(q \o r, s) = ScratchPart(q, s)
  <2>1. \A i \in 1..Len(q) : (q \o r)[i] = q[i]
    BY ConcatProperties, LenProperties
  <2> QED
    BY <1>3, <1>5, <2>1, CompletedPlaces
<1> QED
  BY <1>1, <1>2, <1>4, <1>5

\* Of at most one completed read, the head of the queue is it or leaves it alone.
LEMMA ScratchPartTail ==
    ASSUME NEW q \in Seq(Handlers), NEW s, q # <<>>,
           \A i, j \in CompletedIn(q) : i = j
    PROVE  /\ ~(Head(q).kind = "read" /\ Head(q).ok) =>
                ScratchPart(Tail(q), s) = ScratchPart(q, s)
           /\ Head(q).kind = "read" /\ Head(q).ok =>
                /\ ScratchPart(q, s) = SubSeq(s, 1, Head(q).bytes)
                /\ ScratchPart(Tail(q), s) = <<>>
<1>1. /\ Tail(q) \in Seq(Handlers) /\ 1 \in DOMAIN q /\ Head(q) = q[1]
      /\ \A i \in DOMAIN Tail(q) : Tail(q)[i] = q[i + 1]
  BY TailElements
<1>2. CompletedIn(q) \subseteq 1..Len(q) /\ Len(q) \in Nat
      /\ CompletedIn(Tail(q)) = {i - 1 : i \in CompletedIn(q) \ {1}}
      /\ CompletedIn(Tail(q)) \subseteq DOMAIN Tail(q)
  BY <1>1, CompletedPlaces, LenProperties
<1>3. Head(q).kind = "read" /\ Head(q).ok <=> 1 \in CompletedIn(q)
  BY <1>1 DEF CompletedIn
<1>4. CASE 1 \in CompletedIn(q)
  <2>1. CompletedIn(q) = {1} /\ CompletedIn(Tail(q)) = {}
    BY <1>2, <1>4
  <2>2. ScratchPart(q, s) = SubSeq(s, 1, q[1].bytes) /\ ScratchPart(Tail(q), s) = <<>>
    BY <1>1, <2>1, ScratchPartIs
  <2> QED
    BY <1>1, <1>3, <1>4, <2>2
<1>5. CASE CompletedIn(q) = {}
  <2>1. CompletedIn(Tail(q)) = {}
    BY <1>2, <1>5
  <2>2. ScratchPart(q, s) = <<>> /\ ScratchPart(Tail(q), s) = <<>>
    BY <1>1, <1>5, <2>1, ScratchPartIs
  <2> QED
    BY <1>3, <1>5, <2>2
<1>6. ASSUME NEW i \in CompletedIn(q), 1 \notin CompletedIn(q)
      PROVE  ScratchPart(Tail(q), s) = ScratchPart(q, s)
  <2>1. i \in Int /\ CompletedIn(q) = {i} /\ CompletedIn(q) \ {1} = {i}
    BY <1>2, <1>6
  <2>2. CompletedIn(Tail(q)) = {i - 1} /\ (i - 1) + 1 = i
    BY <1>2, <2>1
  <2>3. Tail(q)[i - 1] = q[i]
    BY <1>1, <1>2, <2>2
  <2>4. ScratchPart(q, s) = SubSeq(s, 1, q[i].bytes)
    BY <2>1, ScratchPartIs
  <2>5. ScratchPart(Tail(q), s) = SubSeq(s, 1, Tail(q)[i - 1].bytes)
    BY <1>1, <2>2, ScratchPartIs
  <2> QED
    BY <2>3, <2>4, <2>5
<1> QED
  BY <1>3, <1>4, <1>5, <1>6

\* What they say is a sequence of bytes.
LEMMA ScratchPartType ==
    ASSUME NEW q \in Seq(Handlers), NEW S, NEW s \in Seq(S),
           \A i \in 1..Len(q) : q[i].kind = "read" /\ q[i].ok => q[i].bytes <= Len(s)
    PROVE  ScratchPart(q, s) \in Seq(S)
<1>1. ASSUME CompletedIn(q) = {} PROVE ScratchPart(q, s) \in Seq(S)
  <2>1. ScratchPart(q, s) = <<>>
    BY <1>1, Zenon DEF ScratchPart
  <2> QED
    BY <2>1, EmptySeq
<1>2. ASSUME CompletedIn(q) # {} PROVE ScratchPart(q, s) \in Seq(S)
  <2> DEFINE c == CHOOSE i \in CompletedIn(q) : TRUE
  <2>1. c \in CompletedIn(q)
    BY <1>2
  <2>2. ScratchPart(q, s) = SubSeq(s, 1, q[c].bytes)
    BY <1>2, Zenon DEF ScratchPart
  <2> HIDE DEF c
  <2>3. c \in 1..Len(q) /\ q[c].kind = "read" /\ q[c].ok
    BY <2>1, LenProperties DEF CompletedIn
  <2>4. q[c] \in Handlers
    BY <2>3, ElementOfSeq
  <2>5. q[c].bytes \in 0..Len(s)
    BY <2>3, <2>4, LenProperties DEF Handlers
  <2>6. SubSeq(s, 1, q[c].bytes) \in Seq(S)
    BY <2>5, CutSequence
  <2> QED
    BY <2>2, <2>6
<1> QED
  BY <1>1, <1>2

LEMMA InScratchType ==
    ASSUME TypeOK, References
    PROVE  /\ InScratch \in Seq(1..MaxRx) /\ Buffered \in Seq(1..MaxRx)
           /\ Stream \in Seq(1..MaxRx)
<1> DEFINE S == 1..MaxRx
<1>1. /\ ready \in Seq(Handlers) /\ readScratch \in Seq(S) /\ readBuffer \in Seq(S)
      /\ kernelIn \in Seq(S) /\ received \in Seq(S)
  BY DEF TypeOK, HandlersOK, BytesOK
<1>2. \A i \in 1..Len(ready) :
        ready[i].kind = "read" /\ ready[i].ok => ready[i].bytes <= Len(readScratch)
  BY DEF References, ReadyRefers, HandlerRefers
<1> HIDE DEF S
<1>3. InScratch \in Seq(S)
  BY <1>1, <1>2, ScratchPartType, InScratchIs
<1>4. (readBuffer \o InScratch) \o kernelIn \in Seq(S)
  BY <1>1, <1>3, Regrouped
<1>5. received \o Buffered \in Seq(S)
  BY <1>1, <1>4, ConcatProperties DEF Buffered
<1> QED
  BY <1>3, <1>4, <1>5 DEF Buffered, Stream, S

\* The same after a step.
LEMMA InScratchTypeNext ==
    ASSUME TypeOK', References'
    PROVE  /\ InScratch' \in Seq(1..MaxRx) /\ Buffered' \in Seq(1..MaxRx)
           /\ Stream' \in Seq(1..MaxRx)
<1> DEFINE S == 1..MaxRx
<1>1. /\ ready' \in Seq(Handlers) /\ readScratch' \in Seq(S) /\ readBuffer' \in Seq(S)
      /\ kernelIn' \in Seq(S) /\ received' \in Seq(S)
  BY DEF TypeOK, HandlersOK, BytesOK
<1>2. \A i \in 1..Len(ready') :
        ready'[i].kind = "read" /\ ready'[i].ok => ready'[i].bytes <= Len(readScratch')
  BY DEF References, ReadyRefers, HandlerRefers
<1> HIDE DEF S
<1>3. InScratch' \in Seq(S)
  BY <1>1, <1>2, ScratchPartType, InScratchIs
<1>4. (readBuffer' \o InScratch') \o kernelIn' \in Seq(S)
  BY <1>1, <1>3, Regrouped
<1>5. received' \o Buffered' \in Seq(S)
  BY <1>1, <1>4, ConcatProperties DEF Buffered
<1> QED
  BY <1>3, <1>4, <1>5 DEF Buffered, Stream, S

\* With a single read outstanding at most one is completed and queued, and none
\* while it is in another place.
LEMMA QueuedOnce ==
    ASSUME CoreInv, SingleReadLoop, clean
    PROVE  /\ \A i, j \in CompletedIn(ready) : i = j
           /\ user = "asyncRead" \/ worker = "asyncRead" \/ pendingReads > 0 =>
                CompletedIn(ready) = {}
           /\ ready # <<>> /\ Head(ready).kind = "read" /\ ~Head(ready).ok =>
                CompletedIn(ready) = {}
<1> DEFINE n == Cardinality(QueuedReads)
           U == IF user \in {"startRead", "asyncRead"} THEN 1 ELSE 0
           W == IF worker \in {"onReadyRead", "doRead", "asyncRead"} THEN 1 ELSE 0
<1>1. TypeOK /\ ready \in Seq(Handlers) /\ pendingReads \in Nat
  BY DEF CoreInv, TypeOK, HandlersOK
<1>2. IsFiniteSet(QueuedReads) /\ n \in Nat
  <2>1. QueuedReads \subseteq 1..Len(ready) /\ Len(ready) \in Nat
    BY <1>1, LenProperties DEF QueuedReads
  <2>2. IsFiniteSet(1..Len(ready))
    BY <2>1, FS_Interval
  <2> QED
    BY <2>1, <2>2, FS_Subset, FS_CardinalityType
<1>3. U + pendingReads + n + W <= 1
  BY DEF SingleReadLoop, ReadsOutstanding
<1>4. CompletedIn(ready) \subseteq QueuedReads
  BY DEF CompletedIn, QueuedReads
<1> HIDE DEF n
<1>5. \A i, j \in QueuedReads : i = j
  <2>1. n <= 1
    BY <1>1, <1>2, <1>3
  <2> QED
    BY <1>2, <2>1, AtMostOne DEF n
<1>6. ASSUME user = "asyncRead" \/ worker = "asyncRead" \/ pendingReads > 0
      PROVE  CompletedIn(ready) = {}
  <2>1. n = 0
    BY <1>1, <1>2, <1>3, <1>6
  <2>2. QueuedReads = {}
    BY <1>2, <2>1, FS_EmptySet DEF n
  <2> QED
    BY <1>4, <2>2
<1>7. ASSUME ready # <<>>, Head(ready).kind = "read", ~Head(ready).ok
      PROVE  CompletedIn(ready) = {}
  <2>1. 1 \in DOMAIN ready /\ Head(ready) = ready[1]
    BY <1>1, <1>7, TailElements
  <2>2. 1 \in QueuedReads
    BY <1>7, <2>1 DEF QueuedReads
  <2>3. CompletedIn(ready) \subseteq {1}
    BY <1>4, <1>5, <2>2
  <2> QED
    BY <1>7, <2>1, <2>3 DEF CompletedIn
<1> QED
  BY <1>4, <1>5, <1>6, <1>7

-----------------------------------------------------------------------------
(***************************************************************************)
(* What each step does to the bytes between the device and read().          *)
(***************************************************************************)

\* One read takes the front of what the kernel holds into readScratch_.
LEMMA FillMoves ==
    ASSUME TypeOK, FillScratch
    PROVE  /\ SubSeq(readScratch', 1, ReadSize) \in Seq(1..MaxRx)
           /\ kernelIn = SubSeq(readScratch', 1, ReadSize) \o kernelIn'
<1> DEFINE front == SubSeq(kernelIn, 1, ReadSize)
           back == SubSeq(readScratch, ReadSize + 1, Len(readScratch))
<1>1. kernelIn \in Seq(1..MaxRx) /\ readScratch \in Seq(1..MaxRx) /\ Len(kernelIn) \in Nat
  BY LenProperties DEF TypeOK, BytesOK
<1>2. ReadSize \in Nat /\ ReadSize \in 0..Len(kernelIn)
  BY <1>1 DEF ReadSize
<1>3. front \in Seq(1..MaxRx) /\ Len(front) = ReadSize /\ back \in Seq(1..MaxRx)
  <2>1. front \in Seq(1..MaxRx) /\ Len(front) = ReadSize
    BY <1>1, <1>2, CutSequence
  <2>2. back \in Seq(1..MaxRx)
    BY <1>1, <1>2, RestOfSequence
  <2> QED
    BY <2>1, <2>2
<1>4. readScratch' = front \o back
  BY DEF FillScratch
<1>5. kernelIn = front \o kernelIn'
  BY <1>1, <1>2, CutAndJoined DEF FillScratch
<1> HIDE DEF front, back
<1>6. SubSeq(front \o back, 1, Len(front)) = front
  BY <1>3, PartsOfConcat
<1> QED
  BY <1>3, <1>4, <1>5, <1>6

\* A read that has been done at once, or waits, or has failed moves no byte
\* ahead of another.
LEMMA AsyncReadMoves ==
    ASSUME TypeOK, References, AsyncReadSome, UNCHANGED readBuffer,
           CompletedIn(ready) = {}
    PROVE  Buffered' = Buffered
<1>1. ready \in Seq(Handlers) /\ readBuffer \in Seq(1..MaxRx) /\ kernelIn \in Seq(1..MaxRx)
  BY DEF TypeOK, HandlersOK, BytesOK
<1>2. CASE UNCHANGED <<ready, readScratch, kernelIn>>
  BY <1>2, InScratchIs DEF Buffered
<1>3. CASE ready' = Append(ready, ReadDone(FALSE, 0)) /\ UNCHANGED <<readScratch, kernelIn>>
  <2>1. ReadDone(FALSE, 0) \in Handlers /\ ~ReadDone(FALSE, 0).ok
    BY DEF ReadDone, Handlers
  <2>2. ScratchPart(ready', readScratch) = ScratchPart(ready, readScratch)
    BY <1>1, <1>3, <2>1, ScratchPartIs
  <2> QED
    BY <1>3, <2>2, InScratchIs DEF Buffered
<1>4. CASE FillScratch /\ ready' = Append(ready, ReadDone(TRUE, ReadSize))
  <2> DEFINE front == SubSeq(readScratch', 1, ReadSize)
  <2>1. front \in Seq(1..MaxRx) /\ kernelIn = front \o kernelIn'
    BY <1>4, FillMoves
  <2>2. kernelIn' \in Seq(1..MaxRx) /\ ReadSize \in Nat
    BY <1>4, ScratchTypes
  <2>3. /\ ReadDone(TRUE, ReadSize) \in Handlers
        /\ ReadDone(TRUE, ReadSize).kind = "read" /\ ReadDone(TRUE, ReadSize).ok
        /\ ReadDone(TRUE, ReadSize).bytes = ReadSize
    <3>1. \A n \in Nat : ReadDone(TRUE, n) \in Handlers
      BY DEF ReadDone, Handlers
    <3>2. \A n : ReadDone(TRUE, n).kind = "read" /\ ReadDone(TRUE, n).ok /\ ReadDone(TRUE, n).bytes = n
      BY DEF ReadDone
    <3> QED
      BY <2>2, <3>1, <3>2
  <2>4. /\ CompletedIn(ready') = {Len(ready) + 1} /\ ready' \in Seq(Handlers)
        /\ ready'[Len(ready) + 1] = ReadDone(TRUE, ReadSize)
    <3>1. /\ Append(ready, ReadDone(TRUE, ReadSize)) \in Seq(Handlers)
          /\ Append(ready, ReadDone(TRUE, ReadSize))[Len(ready) + 1] = ReadDone(TRUE, ReadSize)
      <4>1. \A h \in Handlers : /\ Append(ready, h) \in Seq(Handlers)
                                 /\ Append(ready, h)[Len(ready) + 1] = h
        BY <1>1, Appended
      <4> QED
        BY <2>3, <4>1
    <3>2. \A h \in Handlers : h.kind = "read" /\ h.ok =>
            CompletedIn(Append(ready, h)) = {Len(ready) + 1}
      BY <1>1, CompletedPlaces
    <3>3. CompletedIn(Append(ready, ReadDone(TRUE, ReadSize))) = {Len(ready) + 1}
      BY <2>3, <3>2
    <3> QED
      BY <1>4, <3>1, <3>3
  <2>5. ScratchPart(ready', readScratch') = SubSeq(readScratch', 1, ready'[Len(ready) + 1].bytes)
    BY <2>4, ScratchPartIs
  <2>6. InScratch' = front
    BY <2>3, <2>4, <2>5, InScratchIs
  <2>7. InScratch = <<>>
    BY <1>1, InScratchIs, ScratchPartIs
  <2> HIDE DEF front
  <2>8. (readBuffer \o front) \o kernelIn' = readBuffer \o (front \o kernelIn')
    BY <1>1, <2>1, <2>2, ConcatAssociative
  <2>9. readBuffer \o <<>> = readBuffer
    BY <1>1, ConcatEmptySeq
  <2> QED
    BY <2>1, <2>6, <2>7, <2>8, <2>9 DEF Buffered
<1> QED
  BY <1>2, <1>3, <1>4 DEF AsyncReadSome

\* The read handler pushes the bytes of scratch behind those of readBuffer_.
LEMMA PushMoves ==
    ASSUME TypeOK, References, NEW p \in Seq(1..MaxRx), readBuffer' = readBuffer \o p,
           InScratch' = <<>>,
           (InScratch = p /\ kernelIn' = kernelIn)
             \/ (InScratch = <<>> /\ kernelIn = p \o kernelIn' /\ kernelIn' \in Seq(1..MaxRx))
    PROVE  Buffered' = Buffered
<1>1. readBuffer \in Seq(1..MaxRx) /\ kernelIn \in Seq(1..MaxRx)
  BY DEF TypeOK, BytesOK
<1>2. readBuffer \o p \in Seq(1..MaxRx)
  BY <1>1, ConcatProperties
<1> DEFINE Bytes == 1..MaxRx
<1>7. readBuffer \in Seq(Bytes) /\ p \in Seq(Bytes)
  BY <1>1
<1> HIDE DEF Bytes
<1>8. \A a, b, c \in Seq(Bytes) : (a \o b) \o c = a \o (b \o c)
  BY Regrouped, SMTT(25)
<1>3. (readBuffer \o p) \o <<>> = readBuffer \o p /\ readBuffer \o <<>> = readBuffer
  BY <1>1, <1>2, ConcatEmptySeq
<1>4. Buffered' = (readBuffer \o p) \o kernelIn'
  BY <1>3 DEF Buffered
<1>5. CASE InScratch = p /\ kernelIn' = kernelIn
  BY <1>4, <1>5 DEF Buffered
<1>6. CASE InScratch = <<>> /\ kernelIn = p \o kernelIn' /\ kernelIn' \in Seq(1..MaxRx)
  <2>1. kernelIn' \in Seq(Bytes)
    BY <1>6 DEF Bytes
  <2>2. (readBuffer \o p) \o kernelIn' = readBuffer \o (p \o kernelIn')
    BY <1>7, <1>8, <2>1, Zenon
  <2> QED
    BY <1>3, <1>4, <1>6, <2>2 DEF Buffered
<1> QED
  BY <1>5, <1>6

\* The steps that take no byte from the buffers and add none: what they hold is
\* the same, wherever the bytes now are.
QuietStep ==
    \/ OpenCall \/ OpenFails \/ OpenSucceeds \/ OpenCheckRunning \/ OpenAsyncRead
    \/ CloseCall \/ CloseClearRunning \/ CloseCancel \/ CloseResetWork \/ CloseStop
    \/ WriteNotOpen \/ ClearError \/ (\E t \in Threads : WriteCount(t) \/ WritePost(t))
    \/ Worker \/ UNCHANGED vars

LEMMA QuietBytes ==
    ASSUME CoreInv, SingleReadLoop, clean, TypeOK', QuietStep
    PROVE  UNCHANGED <<received, Buffered, rxSent, lost>>
<1> USE DEF memberVars, portVars, threadVars, deviceVars, requestVars, sessionVars, historyVars
<1>1. TypeOK /\ References /\ Control /\ ClosedIsEmpty
  BY DEF CoreInv
<1>2. /\ ready \in Seq(Handlers) /\ readBuffer \in Seq(1..MaxRx)
      /\ readScratch \in Seq(1..MaxRx) /\ kernelIn' \in Seq(1..MaxRx)
  BY <1>1 DEF TypeOK, HandlersOK, BytesOK
<1>3. UNCHANGED <<received, rxSent, lost>>
  BY DEF QuietStep, Worker, OpenCall, OpenFails, OpenSucceeds, OpenCheckRunning, OpenAsyncRead,
       CloseCall, CloseClearRunning, CloseCancel, CloseResetWork, CloseStop, WriteNotOpen,
       ClearError, WriteCount, WritePost, WorkerCheckRunning, WorkerAsyncRead, WorkerWriteSome,
       CallbackReturns, RunPosted, RunReadDone, RunWriteDone, ReactorRead, ReactorWrite,
       WorkerExits, vars
<1>4. ASSUME UNCHANGED <<readBuffer, readScratch, kernelIn>>,
             ScratchPart(ready', readScratch) = ScratchPart(ready, readScratch)
      PROVE  UNCHANGED Buffered
  BY <1>4, InScratchIs DEF Buffered
<1>5. ASSUME UNCHANGED <<readBuffer, readScratch, kernelIn, ready>>
      PROVE  UNCHANGED Buffered
  BY <1>4, <1>5
<1>6. \A h \in Handlers : ~(h.kind = "read" /\ h.ok) /\ ready' = Append(ready, h)
        => ScratchPart(ready', readScratch) = ScratchPart(ready, readScratch)
  BY <1>2, ScratchPartIs
<1>7. /\ \A i, j \in CompletedIn(ready) : i = j
      /\ user = "asyncRead" \/ worker = "asyncRead" \/ pendingReads > 0 => CompletedIn(ready) = {}
      /\ ready # <<>> /\ Head(ready).kind = "read" /\ ~Head(ready).ok => CompletedIn(ready) = {}
  BY QueuedOnce
<1>8. ready # <<>> =>
        /\ ~(Head(ready).kind = "read" /\ Head(ready).ok) =>
             ScratchPart(Tail(ready), readScratch) = ScratchPart(ready, readScratch)
        /\ Head(ready).kind = "read" /\ Head(ready).ok =>
             /\ ScratchPart(ready, readScratch) = SubSeq(readScratch, 1, Head(ready).bytes)
             /\ ScratchPart(Tail(ready), readScratch) = <<>>
  BY <1>2, <1>7, ScratchPartTail
<1>9. CASE OpenCall \/ OpenFails \/ OpenCheckRunning \/ CloseCall \/ CloseClearRunning
           \/ CloseResetWork \/ CloseStop \/ WriteNotOpen \/ ClearError
           \/ (\E t \in Threads : WriteCount(t)) \/ WorkerCheckRunning \/ CallbackReturns
           \/ WorkerExits \/ ReactorWrite \/ UNCHANGED vars
  <2>1. UNCHANGED <<readBuffer, readScratch, kernelIn, ready>>
    BY <1>9 DEF OpenCall, OpenFails, OpenCheckRunning, CloseCall, CloseClearRunning, CloseResetWork,
         CloseStop, WriteNotOpen, ClearError, WriteCount, WorkerCheckRunning, CallbackReturns,
         WorkerExits, ReactorWrite, vars
  <2> QED
    BY <1>3, <1>5, <2>1
<1>10. CASE OpenSucceeds
  <2>1. kernelIn = <<>>
    BY <1>1, <1>10 DEF OpenSucceeds, Control, ClosedIsEmpty
  <2>2. UNCHANGED <<readBuffer, readScratch, kernelIn, ready>>
    BY <1>10, <2>1 DEF OpenSucceeds
  <2> QED
    BY <1>3, <1>5, <2>2
<1>11. CASE CloseCancel
  <2>1. Aborted \in Seq(Handlers) /\ \A i \in 1..Len(Aborted) : ~Aborted[i].ok
    <3>1. /\ Aborted \in Seq(Handlers)
          /\ \A i \in DOMAIN Aborted : ~Aborted[i].ok
      BY <1>1, AbortedHandlers
    <3> QED
      BY <3>1, LenProperties
  <2>2. ScratchPart(ready \o Aborted, readScratch) = ScratchPart(ready, readScratch)
    BY <1>2, <2>1, ScratchPartIs
  <2> QED
    BY <1>3, <1>4, <1>11, <2>2 DEF CloseCancel
<1>12. CASE OpenAsyncRead \/ WorkerAsyncRead
  <2>1. AsyncReadSome /\ UNCHANGED readBuffer /\ CompletedIn(ready) = {}
    BY <1>7, <1>12 DEF OpenAsyncRead, WorkerAsyncRead
  <2> QED
    BY <1>1, <1>3, <2>1, AsyncReadMoves
<1>13. ASSUME NEW t \in Threads, WritePost(t)
       PROVE  UNCHANGED Buffered
  <2>1. UNCHANGED <<readBuffer, readScratch, kernelIn>>
    BY <1>13 DEF WritePost
  <2> QED
    BY <1>1, <1>4, <1>6, <1>13, <2>1, PostedHandlers
<1>14. CASE WorkerWriteSome
  <2>1. UNCHANGED <<readBuffer, readScratch, kernelIn>>
    BY <1>14 DEF WorkerWriteSome
  <2>2. (\E h \in Handlers : h.kind = "write" /\ ready' = Append(ready, h)) \/ UNCHANGED ready
    BY <1>1, <1>14, WriteSomeHandlers
  <2> QED
    BY <1>3, <1>4, <1>6, <2>1, <2>2
<1>15. CASE RunPosted \/ RunWriteDone
  <2>1. /\ ready # <<>> /\ ready' = Tail(ready) /\ Head(ready).kind # "read"
        /\ UNCHANGED <<readBuffer, readScratch, kernelIn>>
    BY <1>15 DEF RunPosted, RunWriteDone
  <2> QED
    BY <1>3, <1>4, <1>8, <2>1
<1>16. CASE RunReadDone
  <2>1. /\ ready # <<>> /\ ready' = Tail(ready) /\ Head(ready).kind = "read"
        /\ UNCHANGED <<readScratch, kernelIn>>
        /\ ~Head(ready).ok => UNCHANGED readBuffer
        /\ Head(ready).ok => readBuffer' = readBuffer \o SubSeq(readScratch, 1, Head(ready).bytes)
    BY <1>16 DEF RunReadDone, ReadSucceeded
  <2>2. ASSUME ~Head(ready).ok PROVE UNCHANGED Buffered
    BY <1>4, <1>8, <2>1, <2>2
  <2>3. ASSUME Head(ready).ok PROVE UNCHANGED Buffered
    <3> DEFINE p == SubSeq(readScratch, 1, Head(ready).bytes)
    <3>1. InScratch = p /\ InScratch' = <<>>
      BY <1>8, <2>1, <2>3, InScratchIs
    <3>2. p \in Seq(1..MaxRx)
      BY <1>1, <3>1, InScratchType
    <3>3. readBuffer' = readBuffer \o p /\ kernelIn' = kernelIn
      BY <2>1, <2>3
    <3> HIDE DEF p
    <3> QED
      BY <1>1, <3>1, <3>2, <3>3, PushMoves
  <2> QED
    BY <1>3, <2>2, <2>3
<1>17. CASE ReactorRead
  <2>1. UNCHANGED ready /\ CompletedIn(ready) = {}
    BY <1>7, <1>17 DEF ReactorRead
  <2>2. InScratch = <<>> /\ InScratch' = <<>>
    BY <1>2, <2>1, InScratchIs, ScratchPartIs
  <2>3. ASSUME UNCHANGED <<readBuffer, readScratch, kernelIn>>
        PROVE  UNCHANGED Buffered
    BY <1>5, <2>1, <2>3
  <2>4. ASSUME FillScratch, ReadSucceeded(readScratch', ReadSize)
        PROVE  UNCHANGED Buffered
    <3> DEFINE p == SubSeq(readScratch', 1, ReadSize)
    <3>1. p \in Seq(1..MaxRx) /\ kernelIn = p \o kernelIn'
      BY <1>1, <2>4, FillMoves
    <3>2. readBuffer' = readBuffer \o p
      BY <2>4 DEF ReadSucceeded
    <3> HIDE DEF p
    <3> QED
      BY <1>1, <1>2, <2>2, <3>1, <3>2, PushMoves
  <2> QED
    BY <1>3, <1>17, <2>3, <2>4 DEF ReactorRead
<1> QED
  BY <1>3, <1>9, <1>10, <1>11, <1>12, <1>13, <1>14, <1>15, <1>16, <1>17 DEF QuietStep, Worker

\* What any other step does: read() moves bytes on to the user, a clear(), a
\* close() or the unplugging drops the last of the stream.
Drops(d) == /\ Stream = Stream' \o d /\ lost' = lost \cup Range(d) /\ rxSent' = rxSent
            /\ Range(Buffered') \subseteq Range(Buffered)

\* The device adds its next byte.
Arrives == /\ Stream' = Append(Stream, rxSent + 1) /\ Buffered' = Append(Buffered, rxSent + 1)
           /\ rxSent' = rxSent + 1 /\ lost' = lost

\* Nothing is dropped when the stream stays the same.
LEMMA DropsNothing ==
    ASSUME TypeOK, References, Stream' = Stream, lost' = lost, rxSent' = rxSent,
           Range(Buffered') \subseteq Range(Buffered)
    PROVE  \E d \in Seq(1..MaxRx) : Drops(d)
<1> DEFINE S == 1..MaxRx
<1>1. Stream \in Seq(S)
  BY InScratchType
<1> HIDE DEF S
<1>2. Stream \o <<>> = Stream /\ <<>> \in Seq(S)
  BY <1>1, ConcatEmptySeq, EmptySeq
<1>3. Range(<<>>) = {}
  BY DEF Range
<1>4. Drops(<<>>)
  BY <1>2, <1>3 DEF Drops
<1> QED
  BY <1>2, <1>4 DEF S

\* read() takes the front of readBuffer_.
LEMMA ReadCallMoves ==
    ASSUME TypeOK, References, NEW t \in Threads, ReadCall(t)
    PROVE  Stream' = Stream /\ Range(Buffered') \subseteq Range(Buffered)
<1> DEFINE S == 1..MaxRx
<1>1. /\ readBuffer \in Seq(S) /\ kernelIn \in Seq(S) /\ InScratch \in Seq(S)
      /\ received \in Seq(S) /\ Len(readBuffer) \in Nat
  BY InScratchType, LenProperties DEF TypeOK, BytesOK
<1>2. PICK max \in ReadSizes :
        /\ received' = received \o SubSeq(readBuffer, 1, PopSize(max))
        /\ readBuffer' = AfterPop(max)
  BY DEF ReadCall
<1>3. PopSize(max) \in 0..Len(readBuffer)
  BY <1>1 DEF PopSize
<1> DEFINE a == SubSeq(readBuffer, 1, PopSize(max))
           b == SubSeq(readBuffer, PopSize(max) + 1, Len(readBuffer))
           rest == InScratch \o kernelIn
<1>4. a \in Seq(S) /\ b \in Seq(S) /\ readBuffer = a \o b
  BY <1>1, <1>3, CutSequence, CutAndJoined
<1>5. received' = received \o a /\ readBuffer' = b
  BY <1>2 DEF AfterPop
<1>6. InScratch' = InScratch /\ kernelIn' = kernelIn
  BY InScratchIs DEF ReadCall, portVars, deviceVars, threadVars
<1>7. rest \in Seq(S)
  BY <1>1, ConcatProperties
<1> HIDE DEF a, b, S
<1>8. \A x \in Seq(S) : (x \o InScratch) \o kernelIn = x \o rest
  BY <1>1, Regrouped, SMTT(25)
<1>9. Buffered = (a \o b) \o rest /\ Buffered' = b \o rest
  <2>1. a \o b \in Seq(S)
    BY <1>4, ConcatProperties
  <2>2. (b \o InScratch) \o kernelIn = b \o rest
    BY <1>4, <1>8
  <2>3. ((a \o b) \o InScratch) \o kernelIn = (a \o b) \o rest
    BY <1>8, <2>1
  <2> QED
    BY <1>4, <1>5, <1>6, <2>2, <2>3, Zenon DEF Buffered
<1> HIDE DEF rest
<1>10. Buffered = a \o Buffered' /\ Buffered' \in Seq(S)
  <2>1. (a \o b) \o rest = a \o (b \o rest) /\ b \o rest \in Seq(S)
    BY <1>4, <1>7, Regrouped
  <2> QED
    BY <1>9, <2>1
<1>11. received \o Buffered = (received \o a) \o Buffered'
  <2>1. received \in Seq(S) /\ a \in Seq(S) /\ Buffered' \in Seq(S)
    BY <1>1, <1>4, <1>10
  <2>2. (received \o a) \o Buffered' = received \o (a \o Buffered')
    BY <2>1, Regrouped
  <2> QED
    BY <1>10, <2>2
<1>12. Range(Buffered) = Range(a) \cup Range(Buffered')
  BY <1>4, <1>10, RangeConcatenation
<1> QED
  BY <1>5, <1>11, <1>12 DEF Stream

\* clear() and the unplugging drop what the kernel holds.
LEMMA KernelDropped ==
    ASSUME TypeOK, References, UNCHANGED <<received, readBuffer, readScratch, ready, rxSent>>,
           kernelIn' = <<>>, lost' = lost \cup Range(kernelIn)
    PROVE  Drops(kernelIn)
<1> DEFINE S == 1..MaxRx
<1>1. /\ readBuffer \in Seq(S) /\ kernelIn \in Seq(S) /\ InScratch \in Seq(S)
      /\ received \in Seq(S)
  BY InScratchType DEF TypeOK, BytesOK
<1>2. InScratch' = InScratch
  BY InScratchIs
<1> DEFINE kept == readBuffer \o InScratch
<1> HIDE DEF S
<1>4. kept \in Seq(S) /\ kept \o <<>> = kept
  BY <1>1, ConcatProperties, ConcatEmptySeq
<1>5. Buffered = kept \o kernelIn /\ Buffered' = kept
  BY <1>2, <1>4 DEF Buffered
<1> HIDE DEF kept
<1>6. received \o (kept \o kernelIn) = (received \o kept) \o kernelIn
  <2>1. \A a, b, c \in Seq(S) : (a \o b) \o c = a \o (b \o c)
    BY Regrouped
  <2> QED
    BY <1>1, <1>4, <2>1, ZenonT(25)
<1>7. Range(Buffered) = Range(kept) \cup Range(kernelIn)
  BY <1>1, <1>4, <1>5, RangeConcatenation
<1> QED
  BY <1>5, <1>6, <1>7 DEF Stream, Drops

\* A close() that leaves no handler behind drops all the backend holds.
LEMMA CloseDropped ==
    ASSUME TypeOK, References, CloseJoin, clean'
    PROVE  Drops(Buffered) /\ Buffered' = <<>>
<1> DEFINE S == 1..MaxRx
<1>1. /\ ready \in Seq(Handlers) /\ Buffered \in Seq(S) /\ received \in Seq(S)
      /\ readBuffer \in Seq(S) /\ kernelIn \in Seq(S)
  BY InScratchType DEF TypeOK, HandlersOK, BytesOK
<1>2. ready' = ready \o Aborted /\ ready' = <<>> /\ Aborted \in Seq(Handlers)
  BY AbortedHandlers DEF CloseJoin
<1>3. ready = <<>>
  <2>0. ready \o Aborted = <<>>
    BY <1>2
  <2>1. Len(ready \o Aborted) = Len(ready) + Len(Aborted)
    BY <1>1, <1>2, ConcatProperties
  <2>2. Len(ready) \in Nat /\ Len(Aborted) \in Nat
    BY <1>1, <1>2, LenProperties
  <2>3. Len(ready) = 0
    BY <2>0, <2>1, <2>2
  <2> QED
    BY <1>1, <2>3, EmptySeq
<1>4. CompletedIn(<<>>) = {} /\ <<>> \in Seq(Handlers)
  BY EmptySeq DEF CompletedIn
<1>5. InScratch = <<>> /\ InScratch' = <<>>
  BY <1>2, <1>3, <1>4, InScratchIs, ScratchPartIs
<1>6. readBuffer' = <<>> /\ kernelIn' = <<>> /\ UNCHANGED <<received, rxSent>>
      /\ lost' = lost \cup Range(readBuffer) \cup Range(kernelIn)
  BY DEF CloseJoin, ResetBuffers
<1> HIDE DEF S
<1>7. readBuffer \o <<>> = readBuffer /\ received \o <<>> = received /\ <<>> \o <<>> = <<>>
  BY <1>1, ConcatEmptySeq, EmptySeq
<1>8. Buffered = readBuffer \o kernelIn /\ Buffered' = <<>>
  BY <1>5, <1>6, <1>7 DEF Buffered
<1>9. Range(Buffered) = Range(readBuffer) \cup Range(kernelIn)
  BY <1>1, <1>8, RangeConcatenation
<1>10. Range(<<>>) = {}
  BY DEF Range
<1>11. Stream' = received
  BY <1>6, <1>7, <1>8 DEF Stream
<1> QED
  BY <1>6, <1>8, <1>9, <1>10, <1>11 DEF Drops, Stream

\* The device sends its next byte.
LEMMA DeviceArrives ==
    ASSUME TypeOK, References, DeviceSends
    PROVE  Arrives
<1> USE DEF memberVars, portVars, threadVars, requestVars, sessionVars, historyVars
<1> DEFINE S == 1..MaxRx
           e == rxSent + 1
<1>1. /\ readBuffer \in Seq(S) /\ kernelIn \in Seq(S) /\ InScratch \in Seq(S)
      /\ received \in Seq(S) /\ e \in S
  BY InScratchType DEF TypeOK, BytesOK, DeviceSends
<1>2. InScratch' = InScratch
  BY InScratchIs DEF DeviceSends
<1>3. kernelIn' = Append(kernelIn, e) /\ UNCHANGED <<received, readBuffer, lost>> /\ rxSent' = e
  BY DEF DeviceSends
<1> HIDE DEF S, e
<1>4. \A x, y \in Seq(S) : x \o y \in Seq(S)
  BY ConcatProperties
<1>5. \A x \in Seq(S) : Append(x, e) = x \o <<e>> /\ <<e>> \in Seq(S)
  BY <1>1, AppendIsConcat
<1>6. ASSUME NEW x \in Seq(S), NEW y \in Seq(S)
      PROVE  x \o Append(y, e) = Append(x \o y, e)
  <2>1. (x \o y) \o <<e>> = x \o (y \o <<e>>)
    BY <1>5, Regrouped
  <2> QED
    BY <1>4, <1>5, <2>1
<1>7. Buffered \in Seq(S) /\ Buffered' = Append(Buffered, e)
  BY <1>1, <1>2, <1>3, <1>4, <1>6 DEF Buffered
<1>8. Stream' = Append(Stream, e)
  BY <1>1, <1>3, <1>6, <1>7 DEF Stream
<1> QED
  BY <1>3, <1>7, <1>8 DEF Arrives, e

\* All steps together.
LEMMA StreamStep ==
    ASSUME CoreInv, SingleReadLoop, clean, clean', TypeOK', [Next]_vars
    PROVE  (\E d \in Seq(1..MaxRx) : Drops(d)) \/ Arrives
<1> USE DEF memberVars, portVars, threadVars, deviceVars, requestVars, sessionVars, historyVars
<1>1. TypeOK /\ References
  BY DEF CoreInv
<1>2. CASE QuietStep
  <2>1. UNCHANGED <<received, Buffered, rxSent, lost>>
    BY <1>2, QuietBytes
  <2>2. Stream' = Stream
    BY <2>1 DEF Stream
  <2> QED
    BY <1>1, <2>1, <2>2, DropsNothing
<1>3. CASE \E t \in Threads : ReadCall(t)
  <2>1. UNCHANGED <<lost, rxSent>>
    BY <1>3 DEF ReadCall
  <2> QED
    BY <1>1, <1>3, <2>1, ReadCallMoves, DropsNothing
<1>4. CASE ClearInput \/ DeviceUnplugged
  <2>1. /\ UNCHANGED <<received, readBuffer, readScratch, ready, rxSent>>
        /\ kernelIn' = <<>> /\ lost' = lost \cup Range(kernelIn)
    BY <1>4 DEF ClearInput, DeviceUnplugged
  <2>2. kernelIn \in Seq(1..MaxRx)
    BY <1>1 DEF TypeOK, BytesOK
  <2> QED
    BY <1>1, <2>1, <2>2, KernelDropped
<1>5. CASE CloseJoin
  BY <1>1, <1>5, CloseDropped, InScratchType
<1>6. CASE DeviceSends
  BY <1>1, <1>6, DeviceArrives
<1> QED
  BY <1>2, <1>3, <1>4, <1>5, <1>6 DEF Next, Open, CloseSteps, Calls, Worker, Device, QuietStep

\* A session starts behind the bytes sent so far.
LEMMA SessionStep ==
    ASSUME [Next]_vars
    PROVE  \/ UNCHANGED <<rxSent, rxBase>>
           \/ rxSent' = rxSent + 1 /\ rxBase' = rxBase
           \/ rxBase' = rxSent'
<1> USE DEF memberVars, portVars, threadVars, deviceVars, requestVars, sessionVars, historyVars
<1>1. CASE OpenSucceeds
  BY <1>1 DEF OpenSucceeds
<1>2. CASE DeviceSends
  BY <1>2 DEF DeviceSends
<1>3. CASE ~OpenSucceeds /\ ~DeviceSends
  BY <1>3 DEF Next, Open, CloseSteps, Calls, Worker, Device, OpenCall, OpenFails,
       OpenCheckRunning, OpenAsyncRead, CloseCall, CloseClearRunning, CloseCancel,
       CloseResetWork, CloseStop, CloseJoin, WriteNotOpen, ClearInput, ClearError, WriteCount,
       WritePost, ReadCall, WorkerCheckRunning, WorkerAsyncRead, WorkerWriteSome,
       CallbackReturns, RunPosted, RunReadDone, RunWriteDone, ReactorRead, ReactorWrite,
       WorkerExits, DeviceUnplugged, vars
<1> QED
  BY <1>1, <1>2, <1>3

\* It finds nothing in the buffers, if no handler is left in the queue.
LEMMA SessionBase ==
    ASSUME CoreInv, SingleReadLoop, clean, TypeOK', [Next]_vars
    PROVE  rxBase' = rxBase \/ Buffered' = <<>>
<1> USE DEF memberVars, portVars, threadVars, deviceVars, requestVars, sessionVars, historyVars
<1>1. CASE OpenSucceeds
  <2>1. /\ TypeOK /\ ~isOpen /\ ready = <<>> /\ readBuffer = <<>> /\ kernelIn = <<>>
    BY <1>1 DEF CoreInv, Control, ClosedIsEmpty, FailureExplained, OpenSucceeds
  <2>2. CompletedReads = {}
    BY <2>1 DEF CompletedReads
  <2>3. InScratch = <<>>
    BY <2>2, Zenon DEF InScratch
  <2>4. Buffered = <<>>
    BY <2>1, <2>3 DEF Buffered
  <2>5. Buffered' = Buffered
    BY <1>1, QuietBytes DEF QuietStep
  <2> QED
    BY <2>4, <2>5
<1>2. CASE ~OpenSucceeds
  BY <1>2 DEF Next, Open, CloseSteps, Calls, Worker, Device, OpenCall, OpenFails,
       OpenCheckRunning, OpenAsyncRead, CloseCall, CloseClearRunning, CloseCancel,
       CloseResetWork, CloseStop, CloseJoin, WriteNotOpen, ClearInput, ClearError, WriteCount,
       WritePost, ReadCall, WorkerCheckRunning, WorkerAsyncRead, WorkerWriteSome,
       CallbackReturns, RunPosted, RunReadDone, RunWriteDone, ReactorRead, ReactorWrite,
       WorkerExits, DeviceSends, DeviceUnplugged, vars
<1> QED
  BY <1>1, <1>2

\* The stream and the bytes of the session, through every step.
LEMMA ReadInvStep ==
    ASSUME CoreInv, ReadInv, [Next]_vars, CoreInv'
    PROVE  ReadInv'
<1> DEFINE S == 1..MaxRx
<1>1. SingleReadLoop'
  BY SingleReadLoopStep DEF ReadInv
<1>2. rxBase' <= rxSent'
  <2>1. rxBase \in Nat /\ rxSent \in Nat /\ rxSent' \in Nat /\ rxBase <= rxSent
    BY DEF CoreInv, TypeOK, BytesOK, ReadInv, BytesSent
  <2>2. UNCHANGED <<rxSent, rxBase>> \/ (rxSent' = rxSent + 1 /\ rxBase' = rxBase) \/ rxBase' = rxSent'
    BY SessionStep
  <2> QED
    BY <2>1, <2>2
<1>3. ASSUME clean'
      PROVE  /\ Increasing(Stream') /\ Range(Stream') = (1..rxSent') \ lost'
             /\ \A b \in Range(Buffered') : b > rxBase'
             /\ lost' \subseteq 1..rxSent'
  <2>1. TypeOK /\ References /\ clean /\ SingleReadLoop /\ TypeOK'
    BY <1>3, CleanStep DEF CoreInv, ReadInv
  <2>2. /\ Increasing(Stream) /\ Range(Stream) = (1..rxSent) \ lost
        /\ \A b \in Range(Buffered) : b > rxBase
        /\ lost \subseteq 1..rxSent /\ rxBase <= rxSent
    BY <2>1 DEF ReadInv, StreamIntegrity, SessionBytes, BytesSent, Increasing
  <2>3. Stream \in Seq(S) /\ Buffered \in Seq(S) /\ Stream' \in Seq(S) /\ Buffered' \in Seq(S)
        /\ rxSent \in Nat /\ rxBase \in Nat
    BY <2>1, InScratchType, InScratchTypeNext DEF CoreInv, TypeOK, BytesOK
  <2>4. S \subseteq Int
    OBVIOUS
  <2>5. (\E d \in Seq(S) : Drops(d)) \/ Arrives
    BY <1>3, <2>1, StreamStep
  <2>6. rxBase' = rxBase \/ Buffered' = <<>>
    BY <1>3, <2>1, SessionBase
  <2> HIDE DEF S
  <2>7. ASSUME NEW d \in Seq(S), Drops(d)
        PROVE  /\ Increasing(Stream') /\ Range(Stream') = (1..rxSent') \ lost'
               /\ \A b \in Range(Buffered') : b > rxBase
               /\ lost' \subseteq 1..rxSent'
    <3>1. Stream = Stream' \o d /\ lost' = lost \cup Range(d) /\ rxSent' = rxSent
          /\ Range(Buffered') \subseteq Range(Buffered)
      BY <2>7 DEF Drops
    <3>2. Increasing(Stream' \o d)
      BY <2>2, <3>1
    <3>3. Increasing(Stream') /\ Range(Stream') \cap Range(d) = {}
      BY <2>3, <2>4, <3>2, IncreasingParts
    <3>4. Range(Stream) = Range(Stream') \cup Range(d)
      BY <2>3, <3>1, RangeConcatenation
    <3> QED
      BY <2>2, <3>1, <3>3, <3>4
  <2>8. ASSUME Arrives
        PROVE  /\ Increasing(Stream') /\ Range(Stream') = (1..rxSent') \ lost'
               /\ \A b \in Range(Buffered') : b > rxBase
               /\ lost' \subseteq 1..rxSent'
    <3> DEFINE e == rxSent + 1
    <3>1. /\ Stream' = Append(Stream, e) /\ Buffered' = Append(Buffered, e)
          /\ rxSent' = e /\ lost' = lost
      BY <2>8 DEF Arrives
    <3>2. e \in S
      BY <2>1, <3>1 DEF TypeOK, BytesOK, S
    <3>3. \A x \in Range(Stream) : x < e
      BY <2>2, <2>3
    <3>4. e \notin lost /\ e > rxBase /\ 1..e = (1..rxSent) \cup {e}
      BY <2>2, <2>3
    <3> HIDE DEF e
    <3>5. Increasing(Stream') /\ Range(Stream') = Range(Stream) \cup {e}
      <4>1. Stream \in Seq(S) /\ Increasing(Stream)
        BY <2>2, <2>3
      <4>2. Increasing(Append(Stream, e)) /\ Range(Append(Stream, e)) = Range(Stream) \cup {e}
        BY <2>4, <3>2, <3>3, <4>1, IncreasingAppend, ZenonT(25)
      <4> QED
        BY <3>1, <4>2
    <3>6. Range(Buffered') = Range(Buffered) \cup {e}
      BY <2>3, <3>1, <3>2, RangeAppended
    <3> QED
      BY <2>2, <3>1, <3>4, <3>5, <3>6
  <2>9. Range(<<>>) = {}
    BY DEF Range
  <2> QED
    BY <2>5, <2>6, <2>7, <2>8, <2>9
<1>4. StreamIntegrity'
  BY <1>3 DEF StreamIntegrity, Increasing
<1>5. SessionBytes' /\ BytesSent'
  BY <1>2, <1>3 DEF SessionBytes, BytesSent
<1> QED
  BY <1>1, <1>4, <1>5 DEF ReadInv

\* Initially nothing has been sent.
LEMMA ReadInvInit == Init => ReadInv
<1>1. SUFFICES ASSUME Init PROVE ReadInv
  OBVIOUS
<1>2. /\ readBuffer = <<>> /\ kernelIn = <<>> /\ received = <<>> /\ ready = <<>> /\ rxSent = 0
      /\ rxBase = 0 /\ lost = {} /\ pendingReads = 0 /\ user = "idle" /\ worker = "none"
      /\ session = 0
  BY <1>1 DEF Init
<1>3. QueuedReads = {} /\ CompletedReads = {}
  BY <1>2 DEF QueuedReads, CompletedReads
<1>4. InScratch = <<>>
  BY <1>3, Zenon DEF InScratch
<1>5. Stream = <<>> /\ Buffered = <<>>
  BY <1>2, <1>4 DEF Stream, Buffered
<1>6. SingleReadLoop
  BY <1>2, <1>3, FS_EmptySet DEF SingleReadLoop, ReadsOutstanding
<1>7. Range(<<>>) = {} /\ DOMAIN <<>> = {} /\ 1..0 = {}
  BY DEF Range
<1>8. StreamIntegrity /\ SessionBytes /\ BytesSent
  BY <1>2, <1>5, <1>7 DEF StreamIntegrity, SessionBytes, BytesSent
<1> QED
  BY <1>6, <1>8 DEF ReadInv

\* For every value of the constants: one read at a time, a stream without loss,
\* doubling or disorder, and nothing of an earlier session in the buffers.
THEOREM ReadInvariant == Spec => []ReadInv
<1>1. Init => ReadInv
  BY ReadInvInit
<1>2. CoreInv /\ ReadInv /\ [Next]_vars /\ CoreInv' => ReadInv'
  BY ReadInvStep
<1> QED
  BY <1>1, <1>2, CoreInvariant, PTL DEF Spec

\* doRead() on two threads, open() and the read handler: never two reads on
\* readScratch_ at once, unless a close() has left a handler in the queue, and
\* even then one for each opening at most.
THEOREM OneReadAtATime == Spec => []SingleReadLoop
BY ReadInvariant, PTL DEF ReadInv

\* read() returns the bytes the device sent, in order, none twice, and none
\* missing but those a clear(), a close() or the unplugging dropped.
THEOREM BytesArriveInOrder == Spec => []StreamIntegrity
BY ReadInvariant, PTL DEF ReadInv
=============================================================================
