------------------------- MODULE AsioBackendProofs -------------------------
(* Theorems about AsioBackend for every value of its constants.              *)
EXTENDS AsioBackendProperties, SequenceLemmas, TLAPS

USE BoundsAssumption, ScratchAssumption, ReadSizesAssumption

\* The handlers that cancel() and port close() append: reads first, all failed.
LEMMA AbortedHandlers ==
    ASSUME TypeOK, References
    PROVE  /\ Aborted \in Seq(Handlers)
           /\ Len(Aborted) = pendingReads + Len(pendingWrites)
           /\ \A i \in 1..Len(Aborted) :
                /\ ~Aborted[i].ok
                /\ Aborted[i].kind # "read" => Aborted[i].write \in 1..Len(wsize)
<1> DEFINE R == [i \in 1..pendingReads |-> ReadDone(FALSE, 0)]
           W == [i \in 1..Len(pendingWrites) |-> WriteDone(pendingWrites[i], FALSE, 0)]
<1>1. pendingReads \in Nat /\ Len(pendingWrites) \in Nat /\ Len(wsize) \in 0..MaxWrites
  BY LenProperties DEF TypeOK, HandlersOK, RequestsOK
<1>2. \A i \in 1..Len(pendingWrites) : pendingWrites[i] \in 1..Len(wsize)
  BY DEF References, ReadyRefers, PendingRefers
<1>3. R \in [1..pendingReads -> Handlers]
  BY <1>1 DEF ReadDone, Handlers
<1>4. W \in [1..Len(pendingWrites) -> Handlers]
  BY <1>1, <1>2 DEF WriteDone, Handlers
<1>5. (\A i \in 1..pendingReads : ~R[i].ok /\ R[i].kind = "read")
  BY DEF ReadDone
<1>6. \A i \in 1..Len(pendingWrites) : ~W[i].ok /\ W[i].write \in 1..Len(wsize)
  BY <1>2 DEF WriteDone
<1>7. Aborted = R \o W
  BY DEF Aborted
<1> HIDE DEF R, W
<1>8. R \in Seq(Handlers) /\ Len(R) = pendingReads
  BY <1>1, <1>3, FunctionIsSequence
<1>9. W \in Seq(Handlers) /\ Len(W) = Len(pendingWrites)
  BY <1>1, <1>4, FunctionIsSequence
<1>10. /\ R \o W \in Seq(Handlers)
       /\ Len(R \o W) = Len(R) + Len(W)
       /\ \A i \in 1..Len(R) + Len(W) :
            (R \o W)[i] = IF i <= Len(R) THEN R[i] ELSE W[i - Len(R)]
  BY <1>8, <1>9, ConcatProperties
<1>11. \A i \in 1..Len(R) + Len(W) : i <= Len(R) \/ i - Len(R) \in 1..Len(W)
  BY <1>1, <1>8, <1>9
<1> QED
  BY <1>1, <1>5, <1>6, <1>7, <1>8, <1>9, <1>10, <1>11

\* In their order: one for each pending read, then one for each pending write.
LEMMA AbortedOrder ==
    ASSUME TypeOK
    PROVE  /\ \A i \in 1..pendingReads : Aborted[i] = ReadDone(FALSE, 0)
           /\ \A i \in 1..Len(pendingWrites) :
                Aborted[i + pendingReads] = WriteDone(pendingWrites[i], FALSE, 0)
<1> DEFINE R == [i \in 1..pendingReads |-> ReadDone(FALSE, 0)]
           W == [i \in 1..Len(pendingWrites) |-> WriteDone(pendingWrites[i], FALSE, 0)]
           A == {R[i] : i \in 1..pendingReads} \cup {W[i] : i \in 1..Len(pendingWrites)}
<1>1. pendingReads \in Nat /\ Len(pendingWrites) \in Nat
  BY LenProperties DEF TypeOK, HandlersOK
<1>2. R \in [1..pendingReads -> A] /\ W \in [1..Len(pendingWrites) -> A]
  OBVIOUS
<1>3. /\ \A i \in 1..pendingReads : R[i] = ReadDone(FALSE, 0)
      /\ \A i \in 1..Len(pendingWrites) : W[i] = WriteDone(pendingWrites[i], FALSE, 0)
  OBVIOUS
<1>4. Aborted = R \o W
  BY DEF Aborted
<1> HIDE DEF R, W, A
<1>5. R \in Seq(A) /\ Len(R) = pendingReads /\ W \in Seq(A) /\ Len(W) = Len(pendingWrites)
  BY <1>1, <1>2, FunctionIsSequence
<1>6. \A i \in 1..Len(R) + Len(W) : (R \o W)[i] = IF i <= Len(R) THEN R[i] ELSE W[i - Len(R)]
  BY <1>5, ConcatProperties
<1>7. \A i \in 1..pendingReads : i \in 1..Len(R) + Len(W) /\ i <= Len(R)
  BY <1>1, <1>5
<1>8. \A i \in 1..Len(pendingWrites) :
        /\ i + pendingReads \in 1..Len(R) + Len(W) /\ ~(i + pendingReads <= Len(R))
        /\ (i + pendingReads) - Len(R) = i
  BY <1>1, <1>5
<1> QED
  BY <1>3, <1>4, <1>6, <1>7, <1>8

\* The handler at the head of the queue is like all of them.
LEMMA HeadRefers ==
    ASSUME TypeOK, References, ready # <<>>
    PROVE  /\ Head(ready) \in Handlers /\ HandlerRefers(Head(ready))
           /\ Tail(ready) \in Seq(Handlers)
           /\ \A i \in 1..Len(Tail(ready)) : HandlerRefers(Tail(ready)[i])
<1>1. ready \in Seq(Handlers)
  BY DEF TypeOK, HandlersOK
<1>2. 1 \in 1..Len(ready) /\ Head(ready) = ready[1]
  BY <1>1, EmptySeq
<1>3. \A i \in 1..Len(Tail(ready)) : i + 1 \in 1..Len(ready) /\ Tail(ready)[i] = ready[i + 1]
  BY <1>1, HeadTailProperties, LenProperties
<1> QED
  BY <1>1, <1>2, <1>3, HeadTailProperties DEF References, ReadyRefers, PendingRefers

\* The first pending write exists, and so do the others.
LEMMA HeadPending ==
    ASSUME TypeOK, References, pendingWrites # <<>>
    PROVE  /\ Head(pendingWrites) \in 1..Len(wsize)
           /\ Tail(pendingWrites) \in Seq(1..MaxWrites)
           /\ \A i \in 1..Len(Tail(pendingWrites)) : Tail(pendingWrites)[i] \in 1..Len(wsize)
<1>1. pendingWrites \in Seq(1..MaxWrites)
  BY DEF TypeOK, HandlersOK
<1>2. 1 \in 1..Len(pendingWrites) /\ Head(pendingWrites) = pendingWrites[1]
  BY <1>1, EmptySeq
<1>3. \A i \in 1..Len(Tail(pendingWrites)) :
        i + 1 \in 1..Len(pendingWrites) /\ Tail(pendingWrites)[i] = pendingWrites[i + 1]
  BY <1>1, HeadTailProperties, LenProperties
<1> QED
  BY <1>1, <1>2, <1>3, HeadTailProperties DEF References, ReadyRefers, PendingRefers

\* What async_write's intermediate handler leaves behind.
LEMMA PieceTypes ==
    ASSUME TypeOK, NEW w \in 1..Len(wsize), NEW ok \in BOOLEAN, PieceWritten(w, ok)
    PROVE  /\ error' \in SerialErrors /\ bytesToWrite' \in Int
           /\ worker' \in {"writeSome", "onBytesWritten", "onWriteError", "run"}
           /\ starting' = (IF worker' = "writeSome" THEN w ELSE starting)
           /\ wresult' \in Seq({"open", "written", "failed"})
           /\ Len(wresult') = Len(wresult)
<1>1. wsize[w] \in 1..MaxSize
  BY ElementOfSeq DEF TypeOK, RequestsOK
<1>2. wresult \in Seq({"open", "written", "failed"}) /\ w \in 1..Len(wresult)
  BY DEF TypeOK, RequestsOK
<1>3. CASE Unfinished(w, ok)
  BY <1>2, <1>3 DEF PieceWritten, TypeOK, FlagsOK
<1>4. CASE ~Unfinished(w, ok)
  <2>1. bytesToWrite' = bytesToWrite - wsize[w]
    BY <1>4 DEF PieceWritten, SettledBytes
  <2>2. \E r \in {"written", "failed"} : wresult' = [wresult EXCEPT ![w] = r]
    BY <1>4 DEF PieceWritten
  <2>3. wresult' \in Seq({"open", "written", "failed"}) /\ Len(wresult') = Len(wresult)
    BY <1>2, <2>2, ExceptSeq
  <2>4. /\ error' \in {error, "ResourceError"} /\ starting' = starting
        /\ worker' \in {"onBytesWritten", "onWriteError", "run"}
    BY <1>4 DEF PieceWritten
  <2> QED
    BY <1>1, <2>1, <2>3, <2>4 DEF TypeOK, FlagsOK, SerialErrors
<1> QED
  BY <1>3, <1>4

\* Flags, error and counters keep their types.
LEMMA FlagsStep ==
    ASSUME TypeOK, References, [Next]_vars
    PROVE  FlagsOK'
<1> USE DEF memberVars, portVars, threadVars, deviceVars, requestVars, sessionVars, historyVars
<1>1. CASE OpenCall \/ OpenCheckRunning \/ OpenAsyncRead
  BY <1>1, ZenonT(25) DEF TypeOK, FlagsOK, OpenCall, OpenCheckRunning, OpenAsyncRead
<1>2. CASE OpenFails
  BY <1>2 DEF TypeOK, FlagsOK, OpenFails, MapError, SerialErrors
<1>3. CASE OpenSucceeds
  <2>1. session' \in Nat /\ error' \in SerialErrors /\ bytesToWrite' \in Int
    BY <1>3 DEF TypeOK, FlagsOK, OpenSucceeds, SerialErrors
  <2> QED
    BY <1>3, <2>1 DEF TypeOK, FlagsOK, OpenSucceeds
<1>4. CASE CloseCall \/ CloseClearRunning \/ CloseCancel \/ CloseResetWork \/ CloseStop
  <2>1. CASE CloseCall \/ CloseClearRunning
    BY <2>1 DEF TypeOK, FlagsOK, CloseCall, CloseClearRunning
  <2>2. CASE CloseCancel
    BY <2>2 DEF TypeOK, FlagsOK, CloseCancel
  <2>3. CASE CloseResetWork \/ CloseStop
    BY <2>3 DEF TypeOK, FlagsOK, CloseResetWork, CloseStop
  <2> QED
    BY <1>4, <2>1, <2>2, <2>3
<1>5. CASE CloseJoin
  <2>1. session' \in Nat /\ error' \in SerialErrors /\ bytesToWrite' \in Int
    BY <1>5 DEF TypeOK, FlagsOK, CloseJoin, ResetBuffers
  <2>2. clean' \in BOOLEAN
    BY <1>5 DEF CloseJoin
  <2> QED
    BY <1>5, <2>1, <2>2 DEF TypeOK, FlagsOK, CloseJoin
<1>6. CASE WriteNotOpen \/ ClearInput \/ ClearError
  BY <1>6 DEF TypeOK, FlagsOK, WriteNotOpen, ClearInput, ClearError, SerialErrors
<1>7. CASE \E t \in Threads : WriteCount(t) \/ WritePost(t) \/ ReadCall(t)
  <2>1. ASSUME NEW t \in Threads, WriteCount(t) PROVE FlagsOK'
    <3>1. bytesToWrite' \in Int /\ session' \in Nat /\ error' \in SerialErrors
      BY <2>1 DEF TypeOK, FlagsOK, RequestsOK, WriteCount, CountedBytes
    <3>2. paced' \in BOOLEAN
      BY <2>1 DEF WriteCount
    <3>3. UNCHANGED <<running, closing, work, stopped, isOpen, reopening, attached, clean>>
      BY <2>1 DEF WriteCount
    <3> QED
      BY <3>1, <3>2, <3>3 DEF TypeOK, FlagsOK
  <2>2. ASSUME NEW t \in Threads, WritePost(t) \/ ReadCall(t) PROVE FlagsOK'
    BY <2>2 DEF TypeOK, FlagsOK, WritePost, ReadCall
  <2> QED
    BY <1>7, <2>1, <2>2
<1>8. CASE WorkerCheckRunning \/ WorkerAsyncRead \/ WorkerWriteSome \/ CallbackReturns
           \/ RunPosted \/ WorkerExits
  <2>1. CASE CallbackReturns
    <3>1. running' \in BOOLEAN
      BY <2>1 DEF CallbackReturns
    <3> QED
      BY <2>1, <3>1 DEF TypeOK, FlagsOK, CallbackReturns
  <2>2. CASE WorkerCheckRunning \/ WorkerAsyncRead \/ WorkerWriteSome \/ RunPosted \/ WorkerExits
    <3>1. UNCHANGED <<running, closing, error, bytesToWrite, work, stopped, isOpen,
                      reopening, attached, session, clean, paced>>
      BY <2>2 DEF WorkerCheckRunning, WorkerAsyncRead, WorkerWriteSome, RunPosted, WorkerExits
    <3> QED
      BY <3>1 DEF TypeOK, FlagsOK
  <2> QED
    BY <1>8, <2>1, <2>2
<1>9. CASE RunReadDone
  BY <1>9, ZenonT(25) DEF TypeOK, FlagsOK, RunReadDone, ReadFailed, SerialErrors
<1>10. CASE RunWriteDone
  <2>1. Head(ready) \in Handlers /\ HandlerRefers(Head(ready))
    BY <1>10, HeadRefers DEF RunWriteDone
  <2>2. Head(ready).write \in 1..Len(wsize)
    BY <1>10, <2>1 DEF RunWriteDone, HandlerRefers
  <2>3. PieceWritten(Head(ready).write, Head(ready).ok) /\ Head(ready).ok \in BOOLEAN
    BY <1>10, <2>1 DEF RunWriteDone, Handlers
  <2>4. error' \in SerialErrors /\ bytesToWrite' \in Int
    BY <2>2, <2>3, PieceTypes
  <2> QED
    BY <1>10, <2>4 DEF TypeOK, FlagsOK, RunWriteDone
<1>11. CASE ReactorRead
  BY <1>11, ZenonT(25) DEF TypeOK, FlagsOK, ReactorRead, ReadFailed, SerialErrors
<1>12. CASE ReactorWrite
  <2>1. Head(pendingWrites) \in 1..Len(wsize)
    BY <1>12, HeadPending DEF ReactorWrite
  <2>2. PieceWritten(Head(pendingWrites), TRUE) \/ PieceWritten(Head(pendingWrites), FALSE)
    BY <1>12 DEF ReactorWrite
  <2>3. error' \in SerialErrors /\ bytesToWrite' \in Int
    BY <2>1, <2>2, PieceTypes
  <2> QED
    BY <1>12, <2>3 DEF TypeOK, FlagsOK, ReactorWrite
<1>13. CASE DeviceSends \/ DeviceUnplugged
  BY <1>13 DEF TypeOK, FlagsOK, DeviceSends, DeviceUnplugged
<1>14. CASE UNCHANGED vars
  BY <1>14 DEF TypeOK, FlagsOK, vars
<1> QED
  BY <1>1, <1>2, <1>3, <1>4, <1>5, <1>6, <1>7, <1>8, <1>9, <1>10, <1>11, <1>12, <1>13, <1>14
     DEF Next, Open, CloseSteps, Calls, Worker, Device

\* The threads stay at points that exist, with writes that exist.
LEMMA ThreadsStep ==
    ASSUME TypeOK, References, [Next]_vars
    PROVE  ThreadsOK'
<1> USE DEF memberVars, portVars, threadVars, deviceVars, requestVars, sessionVars, historyVars
<1> USE DEF UserPoints, ClosePoints, WorkerPoints, Callbacks
<1>1. CASE Open \/ CloseCall \/ CloseSteps
  BY <1>1 DEF TypeOK, ThreadsOK, Open, CloseSteps, OpenCall, OpenFails, OpenSucceeds,
              OpenCheckRunning, OpenAsyncRead, CloseCall, CloseClearRunning, CloseCancel,
              CloseResetWork, CloseStop, CloseJoin
<1>2. CASE WriteNotOpen \/ ClearInput \/ ClearError \/ (\E t \in Threads : ReadCall(t)) \/ Device
  BY <1>2 DEF TypeOK, ThreadsOK, WriteNotOpen, ClearInput, ClearError, ReadCall, Device,
              DeviceSends, DeviceUnplugged
<1>3. ASSUME NEW t \in Threads, WriteCount(t)
      PROVE  ThreadsOK'
  <2>1. Len(wsize) + 1 \in 0..MaxWrites
    BY <1>3, LenProperties DEF WriteCount, TypeOK, RequestsOK
  <2> QED
    BY <1>3, <2>1 DEF TypeOK, ThreadsOK, WriteCount
<1>4. ASSUME NEW t \in Threads, WritePost(t)
      PROVE  ThreadsOK'
  BY <1>4 DEF TypeOK, ThreadsOK, WritePost
<1>5. CASE WorkerCheckRunning \/ WorkerAsyncRead \/ WorkerWriteSome \/ WorkerExits
  <2>1. /\ worker' \in {"asyncRead", "run", "exited"} /\ starting' \in {starting, 0}
        /\ UNCHANGED <<user, posting>>
    BY <1>5 DEF WorkerCheckRunning, WorkerAsyncRead, WorkerWriteSome, WorkerExits
  <2> QED
    BY <2>1 DEF TypeOK, ThreadsOK
<1>6. CASE CallbackReturns
  <2>1. worker' \in WorkerPoints
    BY <1>6 DEF CallbackReturns, AfterCallback
  <2> QED
    BY <1>6, <2>1 DEF TypeOK, ThreadsOK, CallbackReturns
<1>7. CASE RunReadDone \/ ReactorRead
  <2>1. worker' \in {"onReadyRead", "onReadError", "run"}
    BY <1>7 DEF RunReadDone, ReactorRead, ReadSucceeded, ReadFailed
  <2> QED
    BY <1>7, <2>1 DEF TypeOK, ThreadsOK, RunReadDone, ReactorRead
<1>8. CASE RunPosted
  <2>1. Head(ready).write \in 0..MaxWrites
    BY <1>8, HeadRefers DEF RunPosted, Handlers
  <2> QED
    BY <1>8, <2>1 DEF TypeOK, ThreadsOK, RunPosted
<1>9. ASSUME NEW w \in 1..Len(wsize), NEW ok \in BOOLEAN, PieceWritten(w, ok),
             UNCHANGED <<user, posting>>
      PROVE  ThreadsOK'
  <2>1. w \in 0..MaxWrites
    BY LenProperties DEF TypeOK, RequestsOK
  <2> QED
    BY <1>9, <2>1, PieceTypes DEF TypeOK, ThreadsOK
<1>10. CASE RunWriteDone
  <2>1. Head(ready).write \in 1..Len(wsize) /\ Head(ready).ok \in BOOLEAN
    BY <1>10, HeadRefers DEF RunWriteDone, HandlerRefers, Handlers
  <2> QED
    BY <1>9, <1>10, <2>1 DEF RunWriteDone
<1>11. CASE ReactorWrite
  <2>1. Head(pendingWrites) \in 1..Len(wsize)
    BY <1>11, HeadPending DEF ReactorWrite
  <2> QED
    BY <1>9, <1>11, <2>1 DEF ReactorWrite
<1>12. CASE UNCHANGED vars
  BY <1>12 DEF TypeOK, ThreadsOK, vars
<1> QED
  BY <1>1, <1>2, <1>3, <1>4, <1>5, <1>6, <1>7, <1>8, <1>10, <1>11, <1>12
     DEF Next, Calls, Worker

\* One read: what it takes fits readScratch_ and leaves a sequence of bytes.
LEMMA ScratchTypes ==
    ASSUME TypeOK, FillScratch
    PROVE  /\ readScratch' \in Seq(1..MaxRx) /\ kernelIn' \in Seq(1..MaxRx)
           /\ ReadSize \in Nat /\ ReadSize <= Len(readScratch')
           /\ Len(readScratch) <= Len(readScratch') /\ Len(readScratch') <= ScratchSize
<1> DEFINE front == SubSeq(kernelIn, 1, ReadSize)
           back == SubSeq(readScratch, ReadSize + 1, Len(readScratch))
<1>1. kernelIn \in Seq(1..MaxRx) /\ readScratch \in Seq(1..MaxRx) /\ Len(readScratch) <= ScratchSize
  BY DEF TypeOK, BytesOK
<1>2. Len(kernelIn) \in Nat /\ Len(readScratch) \in Nat
  BY <1>1, LenProperties
<1>3. ReadSize \in Nat /\ ReadSize \in 0..Len(kernelIn) /\ ReadSize <= ScratchSize
  BY <1>2 DEF ReadSize
<1>4. front \in Seq(1..MaxRx) /\ Len(front) = ReadSize /\ kernelIn' \in Seq(1..MaxRx)
  BY <1>1, <1>3, CutSequence, SMTT(25) DEF FillScratch
<1>5. /\ back \in Seq(1..MaxRx)
      /\ Len(back) = IF ReadSize <= Len(readScratch) THEN Len(readScratch) - ReadSize ELSE 0
  BY <1>1, <1>3, RestOfSequence
<1>6. readScratch' = front \o back
  BY DEF FillScratch
<1> HIDE DEF front, back
<1>7. readScratch' \in Seq(1..MaxRx) /\ Len(readScratch') = Len(front) + Len(back)
  BY <1>4, <1>5, <1>6, ConcatProperties
<1> QED
  BY <1>1, <1>2, <1>3, <1>4, <1>5, <1>7

\* The bytes on their way from the device to read() keep their types.
LEMMA BytesStep ==
    ASSUME TypeOK, References, [Next]_vars
    PROVE  BytesOK'
<1> DEFINE bytes == <<readBuffer, readScratch, kernelIn, received, rxSent, rxBase, lost>>
<1> USE DEF memberVars, portVars, threadVars, deviceVars, requestVars, sessionVars, historyVars
<1>1. BytesOK
  BY DEF TypeOK
<1>2. CASE UNCHANGED bytes
  BY <1>1, <1>2 DEF BytesOK
<1>3. CASE OpenSucceeds
  BY <1>1, <1>3 DEF BytesOK, OpenSucceeds
<1>4. CASE CloseJoin
  <2>1. Range(readBuffer) \subseteq 1..MaxRx /\ Range(kernelIn) \subseteq 1..MaxRx
    BY <1>1, RangeOfSeq DEF BytesOK
  <2>2. lost' \subseteq 1..MaxRx
    BY <1>1, <1>4, <2>1 DEF BytesOK, CloseJoin
  <2> QED
    BY <1>1, <1>4, <2>2 DEF BytesOK, CloseJoin, ResetBuffers
<1>5. CASE OpenAsyncRead \/ WorkerAsyncRead
  <2>1. CASE FillScratch
    BY <1>1, <1>5, <2>1, ScratchTypes DEF BytesOK, OpenAsyncRead, WorkerAsyncRead
  <2>2. CASE UNCHANGED <<readScratch, kernelIn>>
    BY <1>1, <1>5, <2>2 DEF BytesOK, OpenAsyncRead, WorkerAsyncRead
  <2> QED
    BY <1>5, <2>1, <2>2 DEF OpenAsyncRead, WorkerAsyncRead, AsyncReadSome
<1>6. ASSUME NEW t \in Threads, ReadCall(t)
      PROVE  BytesOK'
  <2>1. PICK max \in ReadSizes :
           /\ received' = received \o SubSeq(readBuffer, 1, PopSize(max))
           /\ readBuffer' = AfterPop(max)
    BY <1>6 DEF ReadCall
  <2>2. PopSize(max) \in 0..Len(readBuffer)
    BY <1>1, LenProperties DEF PopSize, BytesOK
  <2>3. SubSeq(readBuffer, 1, PopSize(max)) \in Seq(1..MaxRx) /\ readBuffer' \in Seq(1..MaxRx)
    BY <1>1, <2>1, <2>2, CutSequence DEF AfterPop, BytesOK
  <2>4. received' \in Seq(1..MaxRx)
    BY <1>1, <2>1, <2>3, ConcatProperties DEF BytesOK
  <2> QED
    BY <1>1, <1>6, <2>3, <2>4 DEF BytesOK, ReadCall
<1>7. CASE ClearInput \/ DeviceUnplugged
  <2>1. Range(kernelIn) \subseteq 1..MaxRx
    BY <1>1, RangeOfSeq DEF BytesOK
  <2>2. lost' \subseteq 1..MaxRx
    BY <1>1, <1>7, <2>1 DEF BytesOK, ClearInput, DeviceUnplugged
  <2>3. kernelIn' = <<>> /\ UNCHANGED <<readBuffer, readScratch, received, rxSent, rxBase>>
    BY <1>7 DEF ClearInput, DeviceUnplugged
  <2> QED
    BY <1>1, <2>2, <2>3 DEF BytesOK
<1>8. ASSUME NEW scratch \in Seq(1..MaxRx), NEW n \in 0..Len(scratch), ReadSucceeded(scratch, n)
      PROVE  readBuffer' \in Seq(1..MaxRx)
  <2>1. SubSeq(scratch, 1, n) \in Seq(1..MaxRx)
    BY CutSequence
  <2> QED
    BY <1>1, <1>8, <2>1, ConcatProperties DEF ReadSucceeded, BytesOK
<1>9. CASE RunReadDone
  <2>1. CASE Head(ready).ok
    <3>1. Head(ready).bytes \in 0..Len(readScratch)
      BY <1>1, <1>9, <2>1, HeadRefers, LenProperties
         DEF RunReadDone, HandlerRefers, Handlers, BytesOK
    <3>2. readScratch \in Seq(1..MaxRx) /\ ReadSucceeded(readScratch, Head(ready).bytes)
      BY <1>1, <1>9, <2>1 DEF RunReadDone, BytesOK
    <3>3. readBuffer' \in Seq(1..MaxRx)
      BY <1>8, <3>1, <3>2
    <3> QED
      BY <1>1, <1>9, <3>3 DEF BytesOK, RunReadDone
  <2>2. CASE ~Head(ready).ok
    BY <1>1, <1>9, <2>2 DEF BytesOK, RunReadDone
  <2> QED
    BY <2>1, <2>2
<1>10. CASE ReactorRead
  <2>1. CASE FillScratch /\ ReadSucceeded(readScratch', ReadSize)
    <3>1. readScratch' \in Seq(1..MaxRx) /\ ReadSize \in 0..Len(readScratch')
      BY <2>1, ScratchTypes, LenProperties
    <3>2. readBuffer' \in Seq(1..MaxRx)
      BY <1>8, <2>1, <3>1
    <3> QED
      BY <1>1, <1>10, <2>1, <3>2, ScratchTypes DEF BytesOK, ReactorRead
  <2>2. CASE UNCHANGED <<readBuffer, readScratch, kernelIn>>
    BY <1>1, <1>10, <2>2 DEF BytesOK, ReactorRead
  <2> QED
    BY <1>10, <2>1, <2>2 DEF ReactorRead
<1>11. CASE DeviceSends
  <2>1. rxSent + 1 \in 1..MaxRx
    BY <1>1, <1>11 DEF BytesOK, DeviceSends
  <2> QED
    BY <1>1, <1>11, <2>1, AppendProperties DEF BytesOK, DeviceSends
<1>12. CASE OpenCall \/ OpenFails \/ OpenCheckRunning \/ CloseCall \/ CloseClearRunning
            \/ CloseCancel \/ CloseResetWork \/ CloseStop \/ WriteNotOpen \/ ClearError
  BY <1>2, <1>12 DEF OpenCall, OpenFails, OpenCheckRunning, CloseCall, CloseClearRunning,
       CloseCancel, CloseResetWork, CloseStop, WriteNotOpen, ClearError
<1>13. CASE (\E t \in Threads : WriteCount(t) \/ WritePost(t)) \/ WorkerCheckRunning
            \/ WorkerWriteSome \/ CallbackReturns \/ RunPosted \/ RunWriteDone \/ ReactorWrite
            \/ WorkerExits \/ UNCHANGED vars
  BY <1>2, <1>13 DEF WriteCount, WritePost, WorkerCheckRunning, WorkerWriteSome, KernelTakes,
       CallbackReturns, RunPosted, RunWriteDone, ReactorWrite, WorkerExits, vars
<1> QED
  BY <1>3, <1>4, <1>5, <1>6, <1>7, <1>9, <1>10, <1>11, <1>12, <1>13
     DEF Next, Open, CloseSteps, Calls, Worker, Device

\* The kernel takes at most what is left of a write.
LEMMA KernelTakesTypes ==
    ASSUME TypeOK, NEW w \in 1..Len(wsize), NEW n \in 1..(wsize[w] - wsent[w]), KernelTakes(w, n)
    PROVE  wsent' \in Seq(0..MaxSize) /\ Len(wsent') = Len(wsize) /\ wire' \in Seq(1..MaxWrites)
<1>1. /\ wsize \in Seq(1..MaxSize) /\ wsent \in Seq(0..MaxSize) /\ Len(wsent) = Len(wsize)
      /\ wire \in Seq(1..MaxWrites) /\ Len(wsize) <= MaxWrites
  BY DEF TypeOK, RequestsOK
<1>2. wsize[w] \in 1..MaxSize /\ wsent[w] \in 0..MaxSize /\ Len(wsize) \in Nat
  BY <1>1, ElementOfSeq, LenProperties
<1>3. wsent[w] + n \in 0..MaxSize /\ n \in Nat /\ w \in 1..MaxWrites
  <2>1. MaxSize \in Nat /\ wsize[w] - wsent[w] \in Int /\ wsize[w] <= MaxSize /\ wsent[w] \in Nat
    BY <1>2
  <2>2. n \in Nat /\ n <= wsize[w] - wsent[w]
    BY <2>1
  <2>3. wsent[w] + n \in Nat /\ wsent[w] + n <= MaxSize
    BY <1>2, <2>1, <2>2
  <2> QED
    BY <1>1, <1>2, <2>1, <2>2, <2>3
<1>4. wsent' = [wsent EXCEPT ![w] = wsent[w] + n]
  BY DEF KernelTakes
<1>5. wsent' \in Seq(0..MaxSize) /\ Len(wsent') = Len(wsize)
  BY <1>1, <1>3, <1>4, ExceptSeq
<1> DEFINE piece == [i \in 1..n |-> w]
<1>6. piece \in [1..n -> 1..MaxWrites]
  BY <1>3
<1>7. wire' = wire \o piece
  BY DEF KernelTakes
<1> HIDE DEF piece
<1>8. piece \in Seq(1..MaxWrites)
  BY <1>3, <1>6, FunctionIsSequence
<1> QED
  BY <1>1, <1>5, <1>7, <1>8, ConcatProperties

\* The writes and the wire keep their types.
LEMMA RequestsStep ==
    ASSUME TypeOK, References, [Next]_vars
    PROVE  RequestsOK'
<1> DEFINE requests == <<wsize, wsent, wresult, writeBase, wire>>
<1> USE DEF memberVars, portVars, threadVars, deviceVars, requestVars, sessionVars, historyVars
<1>1. RequestsOK
  BY DEF TypeOK
<1>2. CASE UNCHANGED requests
  BY <1>1, <1>2 DEF RequestsOK
<1>3. CASE OpenSucceeds
  BY <1>1, <1>3, LenProperties DEF RequestsOK, OpenSucceeds
<1>4. ASSUME NEW t \in Threads, WriteCount(t)
      PROVE  RequestsOK'
  <2>1. /\ wsent' \in Seq(0..MaxSize) /\ Len(wsent') = Len(wsent) + 1
        /\ wresult' \in Seq({"open", "written", "failed"}) /\ Len(wresult') = Len(wresult) + 1
    BY <1>1, <1>4, AppendProperties DEF RequestsOK, WriteCount
  <2>2. wsize' \in Seq(1..MaxSize) /\ Len(wsize') = Len(wsize) + 1
    BY <1>1, <1>4, AppendProperties DEF RequestsOK, WriteCount
  <2>3. Len(wsize) + 1 <= MaxWrites
    BY <1>1, <1>4, LenProperties DEF RequestsOK, WriteCount
  <2> QED
    BY <1>1, <1>4, <2>1, <2>2, <2>3 DEF RequestsOK, WriteCount
<1>5. ASSUME NEW w \in 1..Len(wsize), NEW ok \in BOOLEAN, PieceWritten(w, ok),
             UNCHANGED <<wsize, writeBase>>,
             wsent' \in Seq(0..MaxSize) /\ Len(wsent') = Len(wsize)
               /\ wire' \in Seq(1..MaxWrites)
      PROVE  RequestsOK'
  BY <1>1, <1>5, PieceTypes DEF RequestsOK
<1>6. CASE RunWriteDone
  <2>1. Head(ready).write \in 1..Len(wsize) /\ Head(ready).ok \in BOOLEAN
    BY <1>6, HeadRefers DEF RunWriteDone, HandlerRefers, Handlers
  <2> QED
    BY <1>1, <1>5, <1>6, <2>1 DEF RunWriteDone, RequestsOK
<1>7. CASE ReactorWrite
  <2> DEFINE w == Head(pendingWrites)
  <2>1. w \in 1..Len(wsize)
    BY <1>7, HeadPending DEF ReactorWrite
  <2>2. ASSUME NEW n \in 1..(wsize[w] - wsent[w]), KernelTakes(w, n), PieceWritten(w, TRUE)
        PROVE  RequestsOK'
    <3>1. wsent' \in Seq(0..MaxSize) /\ Len(wsent') = Len(wsize) /\ wire' \in Seq(1..MaxWrites)
      BY <2>1, <2>2, KernelTakesTypes
    <3> QED
      BY <1>5, <1>7, <2>1, <2>2, <3>1 DEF ReactorWrite
  <2>3. CASE PieceWritten(w, FALSE) /\ UNCHANGED <<wsent, wire>>
    BY <1>1, <1>5, <1>7, <2>1, <2>3 DEF ReactorWrite, RequestsOK
  <2> QED
    BY <1>7, <2>2, <2>3 DEF ReactorWrite
<1>8. CASE WorkerWriteSome
  <2>1. starting \in 1..Len(wsize)
    BY <1>8, LenProperties DEF WorkerWriteSome, References, ThreadsRefer, TypeOK, ThreadsOK, RequestsOK
  <2>2. ASSUME NEW n \in 1..(wsize[starting] - wsent[starting]), KernelTakes(starting, n)
        PROVE  RequestsOK'
    BY <1>1, <1>8, <2>1, <2>2, KernelTakesTypes DEF RequestsOK, WorkerWriteSome
  <2>3. CASE UNCHANGED <<wsent, wire>>
    BY <1>2, <1>8, <2>3 DEF WorkerWriteSome
  <2> QED
    BY <1>8, <2>2, <2>3 DEF WorkerWriteSome
<1>9. CASE OpenCall \/ OpenFails \/ OpenCheckRunning \/ OpenAsyncRead \/ CloseCall
           \/ CloseClearRunning \/ CloseCancel \/ CloseResetWork \/ CloseStop \/ CloseJoin
  BY <1>2, <1>9 DEF OpenCall, OpenFails, OpenCheckRunning, OpenAsyncRead, CloseCall,
       CloseClearRunning, CloseCancel, CloseResetWork, CloseStop, CloseJoin
<1>10. CASE WriteNotOpen \/ ClearInput \/ ClearError
            \/ (\E t \in Threads : WritePost(t) \/ ReadCall(t)) \/ Device \/ UNCHANGED vars
  BY <1>2, <1>10 DEF WriteNotOpen, ClearInput, ClearError, WritePost, ReadCall, Device,
       DeviceSends, DeviceUnplugged, vars
<1>11. CASE WorkerCheckRunning \/ WorkerAsyncRead \/ CallbackReturns \/ RunPosted \/ RunReadDone
            \/ ReactorRead \/ WorkerExits
  BY <1>2, <1>11 DEF WorkerCheckRunning, WorkerAsyncRead, CallbackReturns, RunPosted,
       RunReadDone, ReactorRead, WorkerExits
<1> QED
  BY <1>3, <1>4, <1>6, <1>7, <1>8, <1>9, <1>10, <1>11
     DEF Next, Open, CloseSteps, Calls, Worker

\* Writes are only added and readScratch_ only grows, so a handler that refers
\* to what exists keeps doing so.
LEMMA Growth ==
    ASSUME TypeOK, References, [Next]_vars
    PROVE  /\ Len(wsize) \in Nat /\ Len(wsize') \in Nat /\ Len(wsize) <= Len(wsize')
           /\ Len(readScratch) \in Nat /\ Len(readScratch') \in Nat
           /\ Len(readScratch) <= Len(readScratch')
<1>1. Len(wsize) \in Nat /\ Len(readScratch) \in Nat
  BY LenProperties DEF TypeOK, RequestsOK, BytesOK
<1>2. RequestsOK' /\ BytesOK'
  BY RequestsStep, BytesStep
<1>3. Len(wsize') \in Nat /\ Len(readScratch') \in Nat
  BY <1>2, LenProperties DEF RequestsOK, BytesOK
<1>4. ASSUME NEW t \in Threads, WriteCount(t)
      PROVE  Len(wsize') = Len(wsize) + 1
  BY <1>4, AppendProperties DEF WriteCount, TypeOK, RequestsOK
<1>5. UNCHANGED wsize \/ \E t \in Threads : WriteCount(t)
  <2> USE DEF memberVars, portVars, threadVars, deviceVars, requestVars, sessionVars, historyVars
  <2>1. CASE Open \/ CloseCall \/ CloseSteps
    BY <2>1 DEF Open, CloseSteps, OpenCall, OpenFails, OpenSucceeds, OpenCheckRunning,
         OpenAsyncRead, CloseCall, CloseClearRunning, CloseCancel, CloseResetWork, CloseStop,
         CloseJoin
  <2>2. CASE Calls \/ Device \/ UNCHANGED vars
    BY <2>2 DEF Calls, WriteNotOpen, ClearInput, ClearError, WritePost, ReadCall, Device,
         DeviceSends, DeviceUnplugged, vars
  <2>3. CASE Worker
    BY <2>3 DEF Worker, WorkerCheckRunning, WorkerAsyncRead, WorkerWriteSome, CallbackReturns,
         RunPosted, RunReadDone, RunWriteDone, ReactorRead, ReactorWrite, WorkerExits
  <2> QED
    BY <2>1, <2>2, <2>3 DEF Next
<1>6. UNCHANGED readScratch \/ FillScratch
  <2> USE DEF memberVars, portVars, threadVars, deviceVars, requestVars, sessionVars, historyVars
  <2>1. CASE Open \/ CloseCall \/ CloseSteps
    BY <2>1 DEF Open, CloseSteps, OpenCall, OpenFails, OpenSucceeds, OpenCheckRunning,
         OpenAsyncRead, AsyncReadSome, CloseCall, CloseClearRunning, CloseCancel,
         CloseResetWork, CloseStop, CloseJoin
  <2>2. CASE Calls \/ Device \/ UNCHANGED vars
    BY <2>2 DEF Calls, WriteNotOpen, ClearInput, ClearError, WriteCount, WritePost, ReadCall,
         Device, DeviceSends, DeviceUnplugged, vars
  <2>3. CASE Worker
    BY <2>3 DEF Worker, WorkerCheckRunning, WorkerAsyncRead, AsyncReadSome, WorkerWriteSome,
         CallbackReturns, RunPosted, RunReadDone, RunWriteDone, ReactorRead, ReactorWrite,
         WorkerExits
  <2> QED
    BY <2>1, <2>2, <2>3 DEF Next
<1> QED
  BY <1>1, <1>3, <1>4, <1>5, <1>6, ScratchTypes

\* The four ways the queue changes.
LEMMA QueueSteps ==
    ASSUME TypeOK, References, [Next]_vars,
           \/ UNCHANGED ready
           \/ ready # <<>> /\ ready' = Tail(ready)
           \/ ready' = ready \o Aborted
           \/ \E h \in Handlers : ready' = Append(ready, h) /\ HandlerRefers(h)'
    PROVE  ready' \in Seq(Handlers) /\ ReadyRefers'
<1>1. ready \in Seq(Handlers) /\ \A i \in 1..Len(ready) : ready[i] \in Handlers
  BY ElementOfSeq DEF TypeOK, HandlersOK
<1>2. \A h \in Handlers : HandlerRefers(h) => HandlerRefers(h)'
  BY Growth DEF HandlerRefers, Handlers
<1>3. \A i \in 1..Len(ready) : HandlerRefers(ready[i])
  BY DEF References, ReadyRefers
<1>4. CASE UNCHANGED ready
  BY <1>1, <1>2, <1>3, <1>4 DEF ReadyRefers, HandlerRefers
<1>5. CASE ready # <<>> /\ ready' = Tail(ready)
  <2>1. \A i \in 1..Len(ready') : ready'[i] \in Handlers /\ HandlerRefers(ready'[i])
    BY <1>5, HeadRefers, ElementOfSeq
  <2> QED
    BY <1>2, <1>5, <2>1, HeadRefers DEF ReadyRefers, HandlerRefers
<1>6. CASE ready' = ready \o Aborted
  <2>1. /\ Aborted \in Seq(Handlers)
        /\ \A i \in 1..Len(Aborted) : Aborted[i] \in Handlers /\ HandlerRefers(Aborted[i])
    BY AbortedHandlers, ElementOfSeq DEF HandlerRefers
  <2>2. ready' \in Seq(Handlers)
    BY <1>1, <1>6, <2>1, ConcatProperties
  <2>3. \A i \in 1..Len(ready') : ready'[i] \in Handlers /\ HandlerRefers(ready'[i])
    BY <1>1, <1>3, <1>6, <2>1, ConcatProperties, LenProperties
  <2> QED
    BY <1>2, <2>2, <2>3 DEF ReadyRefers, HandlerRefers
<1>7. ASSUME NEW h \in Handlers, ready' = Append(ready, h), HandlerRefers(h)'
      PROVE  ready' \in Seq(Handlers) /\ ReadyRefers'
  <2>1. /\ ready' \in Seq(Handlers) /\ Len(ready') = Len(ready) + 1 /\ ready'[Len(ready) + 1] = h
        /\ \A i \in 1..Len(ready) : ready'[i] = ready[i]
    BY <1>1, <1>7, AppendProperties
  <2>2. \A i \in 1..Len(ready') : i \in 1..Len(ready) \/ i = Len(ready) + 1
    BY <1>1, <2>1, LenProperties
  <2> QED
    BY <1>1, <1>2, <1>3, <1>7, <2>1, <2>2 DEF ReadyRefers, HandlerRefers
<1> QED
  BY <1>4, <1>5, <1>6, <1>7

\* The queue and the pending operations keep their types and references.
LEMMA HandlersStep ==
    ASSUME TypeOK, References, [Next]_vars
    PROVE  HandlersOK' /\ ReadyRefers' /\ PendingRefers'
<1> USE DEF memberVars, portVars, threadVars, deviceVars, requestVars, sessionVars, historyVars
<1>1. HandlersOK /\ PendingRefers
  BY DEF TypeOK, References
<1>2. Len(wsize) \in Nat /\ Len(wsize') \in Nat /\ Len(wsize) <= Len(wsize')
  BY Growth
<1>3. ASSUME ready' \in Seq(Handlers), ReadyRefers', pendingReads' \in Nat,
             \/ pendingWrites' \in {pendingWrites, <<>>}
             \/ pendingWrites # <<>> /\ pendingWrites' = Tail(pendingWrites)
             \/ starting # 0 /\ pendingWrites' = Append(pendingWrites, starting)
      PROVE  HandlersOK' /\ ReadyRefers' /\ PendingRefers'
  <2>1. pendingWrites \in Seq(1..MaxWrites)
    BY <1>1 DEF HandlersOK
  <2>2. CASE pendingWrites' = pendingWrites
    BY <1>1, <1>2, <1>3, <2>2 DEF HandlersOK, PendingRefers
  <2>3. CASE pendingWrites # <<>> /\ pendingWrites' = Tail(pendingWrites)
    BY <1>2, <1>3, <2>3, HeadPending DEF HandlersOK, PendingRefers
  <2>4. CASE starting # 0 /\ pendingWrites' = Append(pendingWrites, starting)
    <3>1. starting \in 1..MaxWrites /\ starting \in 1..Len(wsize)
      BY <1>2, <2>4 DEF TypeOK, ThreadsOK, References, ThreadsRefer
    <3>2. /\ pendingWrites' \in Seq(1..MaxWrites) /\ Len(pendingWrites') = Len(pendingWrites) + 1
          /\ \A i \in 1..Len(pendingWrites) : pendingWrites'[i] = pendingWrites[i]
          /\ pendingWrites'[Len(pendingWrites) + 1] = starting
      BY <2>1, <2>4, <3>1, AppendProperties
    <3>3. \A i \in 1..Len(pendingWrites') : i \in 1..Len(pendingWrites) \/ i = Len(pendingWrites) + 1
      BY <2>1, <3>2, LenProperties
    <3>4. \A i \in 1..Len(pendingWrites') : pendingWrites'[i] \in 1..Len(wsize')
      BY <1>1, <1>2, <3>1, <3>2, <3>3 DEF PendingRefers
    <3> QED
      BY <1>3, <3>2, <3>4 DEF HandlersOK, PendingRefers
  <2>5. CASE pendingWrites' = <<>>
    <3>1. pendingWrites' \in Seq(1..MaxWrites) /\ Len(pendingWrites') = 0
      BY <2>5, EmptySeq
    <3> QED
      BY <1>3, <3>1 DEF HandlersOK, PendingRefers
  <2> QED
    BY <1>3, <2>2, <2>3, <2>4, <2>5
<1>4. CASE UNCHANGED <<ready, pendingReads, pendingWrites>>
  BY <1>1, <1>3, <1>4, QueueSteps DEF HandlersOK
<1>5. CASE CloseCancel \/ CloseJoin
  BY <1>3, <1>5, QueueSteps DEF CloseCancel, CloseJoin
<1>6. CASE OpenAsyncRead \/ WorkerAsyncRead
  <2>1. UNCHANGED pendingWrites /\ AsyncReadSome
    BY <1>6 DEF OpenAsyncRead, WorkerAsyncRead
  <2>2. CASE FillScratch /\ ready' = Append(ready, ReadDone(TRUE, ReadSize)) /\ UNCHANGED pendingReads
    <3>1. PICK n \in Nat : n = ReadSize /\ n <= Len(readScratch')
      BY <2>2, ScratchTypes
    <3>2. ReadDone(TRUE, n) \in Handlers /\ HandlerRefers(ReadDone(TRUE, n))'
      BY <3>1 DEF ReadDone, Handlers, HandlerRefers
    <3>3. ready' = Append(ready, ReadDone(TRUE, n))
      BY <2>2, <3>1
    <3> QED
      BY <1>1, <1>3, <2>1, <2>2, <3>2, <3>3, QueueSteps DEF HandlersOK
  <2>3. CASE ready' = Append(ready, ReadDone(FALSE, 0)) /\ UNCHANGED pendingReads
    <3>1. ReadDone(FALSE, 0) \in Handlers /\ HandlerRefers(ReadDone(FALSE, 0))'
      BY DEF ReadDone, Handlers, HandlerRefers
    <3> QED
      BY <1>1, <1>3, <2>1, <2>3, <3>1, QueueSteps DEF HandlersOK
  <2>4. CASE UNCHANGED ready /\ pendingReads' = pendingReads + 1
    BY <1>1, <1>3, <2>1, <2>4, QueueSteps DEF HandlersOK
  <2> QED
    BY <2>1, <2>2, <2>3, <2>4 DEF AsyncReadSome
<1>7. ASSUME NEW t \in Threads, WritePost(t)
      PROVE  HandlersOK' /\ ReadyRefers' /\ PendingRefers'
  <2>1. posting[t] \in 0..MaxWrites /\ posting[t] # 0 /\ posting[t] <= Len(wsize)
    BY <1>7 DEF WritePost, TypeOK, ThreadsOK, References, ThreadsRefer
  <2>2. Posted(posting[t]) \in Handlers
    BY <2>1 DEF Posted, Handlers
  <2>3. \A w \in 1..Len(wsize) : HandlerRefers(Posted(w))'
    BY <1>2 DEF Posted, HandlerRefers
  <2>4. \E h \in Handlers : ready' = Append(ready, h) /\ HandlerRefers(h)'
    <3>1. PICK w \in 1..Len(wsize) : w = posting[t]
      BY <1>2, <2>1
    <3>2. Posted(w) \in Handlers /\ ready' = Append(ready, Posted(w))
      BY <1>7, <2>2, <3>1 DEF WritePost
    <3> QED
      BY <2>3, <3>2
  <2> QED
    BY <1>1, <1>3, <1>7, <2>4, QueueSteps DEF WritePost, HandlersOK
<1>8. CASE RunPosted \/ RunReadDone \/ RunWriteDone
  BY <1>1, <1>3, <1>8, QueueSteps DEF RunPosted, RunReadDone, RunWriteDone, HandlersOK
<1>9. CASE WorkerWriteSome
  <2>1. starting \in 1..Len(wsize) /\ starting \in 0..MaxWrites /\ starting # 0
    BY <1>2, <1>9 DEF WorkerWriteSome, TypeOK, ThreadsOK, References, ThreadsRefer
  <2>2. \A n \in Nat, ok \in BOOLEAN :
           WriteDone(starting, ok, n) \in Handlers
    BY <2>1 DEF WriteDone, Handlers
  <2>3. \A w \in 1..Len(wsize), n \in Nat, ok \in BOOLEAN : HandlerRefers(WriteDone(w, ok, n))'
    BY <1>2 DEF WriteDone, HandlerRefers
  <2>4. 1..(wsize[starting] - wsent[starting]) \subseteq Nat
    <3>1. wsize[starting] \in 1..MaxSize /\ wsent[starting] \in 0..MaxSize
      BY <2>1, ElementOfSeq DEF TypeOK, RequestsOK
    <3> QED
      BY <3>1
  <2>5. /\ UNCHANGED pendingReads
        /\ \/ UNCHANGED pendingWrites
              /\ \E n \in Nat, ok \in BOOLEAN : ready' = Append(ready, WriteDone(starting, ok, n))
           \/ UNCHANGED ready /\ pendingWrites' = Append(pendingWrites, starting)
    <3>1. UNCHANGED pendingReads
      BY <1>9 DEF WorkerWriteSome
    <3>2. \/ /\ UNCHANGED pendingWrites
             /\ \E n \in 1..(wsize[starting] - wsent[starting]) :
                  ready' = Append(ready, WriteDone(starting, TRUE, n))
          \/ UNCHANGED pendingWrites /\ ready' = Append(ready, WriteDone(starting, FALSE, 0))
          \/ UNCHANGED ready /\ pendingWrites' = Append(pendingWrites, starting)
      BY <1>9 DEF WorkerWriteSome
    <3> QED
      BY <2>4, <3>1, <3>2
  <2>6. CASE UNCHANGED ready /\ pendingWrites' = Append(pendingWrites, starting)
    BY <1>1, <1>3, <2>1, <2>5, <2>6, QueueSteps DEF HandlersOK
  <2>7. ASSUME UNCHANGED pendingWrites, NEW n \in Nat, NEW ok \in BOOLEAN,
               ready' = Append(ready, WriteDone(starting, ok, n))
        PROVE  HandlersOK' /\ ReadyRefers' /\ PendingRefers'
    <3>1. PICK w \in 1..Len(wsize) : w = starting
      BY <2>1
    <3>2. \E h \in Handlers : ready' = Append(ready, h) /\ HandlerRefers(h)'
      BY <2>2, <2>3, <2>7, <3>1
    <3> QED
      BY <1>1, <1>3, <2>5, <2>7, <3>2, QueueSteps DEF HandlersOK
  <2> QED
    BY <2>5, <2>6, <2>7
<1>10. CASE ReactorRead
  <2>1. pendingReads' \in Nat
    BY <1>1, <1>10 DEF ReactorRead, HandlersOK
  <2> QED
    BY <1>3, <1>10, <2>1, QueueSteps DEF ReactorRead
<1>11. CASE ReactorWrite
  BY <1>1, <1>3, <1>11, QueueSteps DEF ReactorWrite, HandlersOK
<1>12. CASE OpenCall \/ OpenFails \/ OpenSucceeds \/ OpenCheckRunning \/ CloseCall
            \/ CloseClearRunning \/ CloseResetWork \/ CloseStop
  BY <1>4, <1>12 DEF OpenCall, OpenFails, OpenSucceeds, OpenCheckRunning, CloseCall,
       CloseClearRunning, CloseResetWork, CloseStop
<1>13. CASE WriteNotOpen \/ ClearInput \/ ClearError
            \/ (\E t \in Threads : WriteCount(t) \/ ReadCall(t)) \/ WorkerCheckRunning
            \/ CallbackReturns \/ WorkerExits \/ Device \/ UNCHANGED vars
  BY <1>4, <1>13 DEF WriteNotOpen, ClearInput, ClearError, WriteCount, ReadCall,
       WorkerCheckRunning, CallbackReturns, WorkerExits, Device, DeviceSends, DeviceUnplugged, vars
<1> QED
  BY <1>5, <1>6, <1>7, <1>8, <1>9, <1>10, <1>11, <1>12, <1>13
     DEF Next, Open, CloseSteps, Calls, Worker

\* What the threads hold refers to writes that exist.
LEMMA ThreadsReferStep ==
    ASSUME TypeOK, References, [Next]_vars
    PROVE  ThreadsRefer'
<1> USE DEF memberVars, portVars, threadVars, deviceVars, requestVars, sessionVars, historyVars
<1>1. ThreadsOK /\ ThreadsRefer
  BY DEF TypeOK, References
<1>2. Len(wsize) \in Nat /\ Len(wsize') \in Nat /\ Len(wsize) <= Len(wsize')
  BY Growth
<1>3. CASE /\ UNCHANGED posting
           /\ \/ UNCHANGED <<worker, starting>>
              \/ worker # "writeSome" /\ worker' # "writeSome" /\ UNCHANGED starting
              \/ worker' # "writeSome" /\ starting' = 0
  BY <1>1, <1>2, <1>3 DEF ThreadsOK, ThreadsRefer
<1>4. ASSUME NEW t \in Threads, WriteCount(t)
      PROVE  ThreadsRefer'
  <2>1. Len(wsize') = Len(wsize) + 1
    BY <1>4, AppendProperties DEF WriteCount, TypeOK, RequestsOK
  <2>2. posting' = [posting EXCEPT ![t] = Len(wsize) + 1] /\ UNCHANGED <<starting, worker>>
    BY <1>4 DEF WriteCount
  <2> QED
    BY <1>1, <1>2, <2>1, <2>2 DEF ThreadsOK, ThreadsRefer
<1>5. ASSUME NEW t \in Threads, WritePost(t)
      PROVE  ThreadsRefer'
  <2>1. posting' = [posting EXCEPT ![t] = 0] /\ UNCHANGED <<starting, worker, wsize>>
    BY <1>5 DEF WritePost
  <2> QED
    BY <1>1, <1>2, <2>1 DEF ThreadsOK, ThreadsRefer
<1>6. CASE RunPosted
  <2>1. Head(ready).write \in 1..Len(wsize)
    BY <1>6, HeadRefers DEF RunPosted, HandlerRefers
  <2> QED
    BY <1>1, <1>2, <1>6, <2>1 DEF ThreadsOK, ThreadsRefer, RunPosted
<1>7. ASSUME NEW w \in 1..Len(wsize), NEW ok \in BOOLEAN, PieceWritten(w, ok),
             UNCHANGED <<posting, wsize>>, worker = "run"
      PROVE  ThreadsRefer'
  <2>1. starting = 0 /\ w # 0
    BY <1>1, <1>2, <1>7 DEF ThreadsRefer, ThreadsOK
  <2>2. starting' = IF worker' = "writeSome" THEN w ELSE starting
    BY <1>7, PieceTypes
  <2> QED
    BY <1>1, <1>2, <1>7, <2>1, <2>2 DEF ThreadsOK, ThreadsRefer
<1>8. CASE RunWriteDone
  <2>1. Head(ready).write \in 1..Len(wsize) /\ Head(ready).ok \in BOOLEAN
    BY <1>8, HeadRefers DEF RunWriteDone, HandlerRefers, Handlers
  <2> QED
    BY <1>7, <1>8, <2>1 DEF RunWriteDone, Running
<1>9. CASE ReactorWrite
  <2>1. Head(pendingWrites) \in 1..Len(wsize)
    BY <1>9, HeadPending DEF ReactorWrite
  <2> QED
    BY <1>7, <1>9, <2>1 DEF ReactorWrite, Running
<1>10. CASE Open \/ CloseCall \/ CloseSteps
  BY <1>3, <1>10 DEF Open, CloseSteps, OpenCall, OpenFails, OpenSucceeds, OpenCheckRunning,
       OpenAsyncRead, CloseCall, CloseClearRunning, CloseCancel, CloseResetWork, CloseStop,
       CloseJoin, Joined
<1>11. CASE WriteNotOpen \/ ClearInput \/ ClearError \/ (\E t \in Threads : ReadCall(t))
            \/ Device \/ UNCHANGED vars
  BY <1>3, <1>11 DEF WriteNotOpen, ClearInput, ClearError, ReadCall, Device, DeviceSends,
       DeviceUnplugged, vars
<1>12. CASE WorkerCheckRunning \/ WorkerAsyncRead \/ WorkerWriteSome \/ WorkerExits
  BY <1>3, <1>12 DEF WorkerCheckRunning, WorkerAsyncRead, WorkerWriteSome, WorkerExits
<1>13. CASE CallbackReturns
  <2>1. worker' \in {"doRead", "run"}
    BY <1>13 DEF CallbackReturns, AfterCallback
  <2> QED
    BY <1>3, <1>13, <2>1 DEF CallbackReturns, Callbacks
<1>14. CASE RunReadDone \/ ReactorRead
  <2>1. /\ worker = "run" /\ worker' \in {"onReadyRead", "onReadError", "run"}
        /\ UNCHANGED <<starting, posting>>
    BY <1>14 DEF RunReadDone, ReactorRead, ReadSucceeded, ReadFailed, Running
  <2> QED
    BY <1>3, <2>1
<1> QED
  BY <1>4, <1>5, <1>6, <1>8, <1>9, <1>10, <1>11, <1>12, <1>13, <1>14 DEF Next, Calls, Worker

\* Every step keeps the types and the references.
LEMMA TypeStep ==
    ASSUME TypeOK, References, [Next]_vars
    PROVE  TypeOK' /\ References'
BY FlagsStep, ThreadsStep, BytesStep, HandlersStep, RequestsStep, ThreadsReferStep
   DEF TypeOK, References

\* They hold initially.
LEMMA TypeInit ==
    ASSUME Init
    PROVE  TypeOK /\ References
<1> USE DEF Init
<1>1. FlagsOK
  <2>1. error \in SerialErrors /\ bytesToWrite \in Int /\ session \in Nat
    BY DEF SerialErrors
  <2> QED
    BY <2>1 DEF FlagsOK
<1>2. ThreadsOK
  BY DEF ThreadsOK, UserPoints, WorkerPoints
<1>3. BytesOK /\ HandlersOK /\ RequestsOK
  BY EmptySeq DEF BytesOK, HandlersOK, RequestsOK
<1>4. References
  BY DEF References, ReadyRefers, PendingRefers, ThreadsRefer
<1> QED
  BY <1>1, <1>2, <1>3, <1>4 DEF TypeOK

\* The types hold in every reachable state, and readScratch_ is never overrun.
THEOREM TypeCorrect == Spec => []TypeOK
<1>1. Init => TypeOK /\ References
  BY TypeInit
<1>2. TypeOK /\ References /\ [Next]_vars => TypeOK' /\ References'
  BY TypeStep
<1> QED
  BY <1>1, <1>2, PTL DEF Spec

\* The flags and the points of the threads stay consistent.
LEMMA ControlStep ==
    ASSUME TypeOK, References, Control, [Next]_vars
    PROVE  Control'
<1> USE DEF memberVars, portVars, threadVars, deviceVars, requestVars, sessionVars, historyVars
<1> USE DEF Control, ClosePoints, Callbacks
<1>1. CASE OpenCall \/ OpenFails \/ OpenCheckRunning \/ OpenAsyncRead
  BY <1>1 DEF OpenCall, OpenFails, OpenCheckRunning, OpenAsyncRead, UserIdle, MayRead
<1>2. CASE OpenSucceeds
  BY <1>2 DEF OpenSucceeds
<1>3. CASE CloseCall \/ CloseClearRunning \/ CloseCancel \/ CloseResetWork \/ CloseStop
  BY <1>3 DEF CloseCall, CloseClearRunning, CloseCancel, CloseResetWork, CloseStop, UserIdle
<1>4. CASE CloseJoin
  BY <1>4 DEF CloseJoin, Joined
<1>5. CASE WriteNotOpen \/ ClearInput \/ ClearError \/ (\E t \in Threads : ReadCall(t))
           \/ Device \/ UNCHANGED vars
  BY <1>5 DEF WriteNotOpen, ClearInput, ClearError, ReadCall, Device, DeviceSends,
       DeviceUnplugged, vars
<1>6. ASSUME NEW t \in Threads, WriteCount(t)
      PROVE  Control'
  <2>1. /\ posting' = [posting EXCEPT ![t] = Len(wsize) + 1]
        /\ isOpen /\ CanCall(t)
        /\ UNCHANGED <<running, closing, stopped, isOpen, user, worker>>
    BY <1>6 DEF WriteCount
  <2>2. posting'["user"] # posting["user"] => user = "idle"
    BY <2>1 DEF CanCall, UserIdle, TypeOK, ThreadsOK, Threads
  <2>3. posting'["worker"] # posting["worker"] => worker \in Callbacks
    BY <2>1 DEF CanCall, TypeOK, ThreadsOK, Threads
  <2> QED
    BY <2>1, <2>2, <2>3
<1>7. ASSUME NEW t \in Threads, WritePost(t)
      PROVE  Control'
  <2>1. \A u \in Threads : posting'[u] \in {posting[u], 0}
    BY <1>7 DEF WritePost, TypeOK, ThreadsOK
  <2>2. UNCHANGED <<running, closing, stopped, isOpen, user, worker>>
    BY <1>7 DEF WritePost
  <2> QED
    BY <2>1, <2>2 DEF Threads
<1>8. ASSUME worker \notin {"none"} \cup Callbacks \/ (worker \in Callbacks /\ posting["worker"] = 0),
             UNCHANGED <<closing, stopped, isOpen, user, posting>>, running' => running
      PROVE  Control'
  BY <1>8 DEF TypeOK, FlagsOK
<1>9. CASE WorkerCheckRunning \/ WorkerAsyncRead \/ WorkerWriteSome \/ RunPosted \/ WorkerExits
  BY <1>8, <1>9 DEF WorkerCheckRunning, WorkerAsyncRead, WorkerWriteSome, RunPosted, WorkerExits,
       Running
<1>10. CASE CallbackReturns
  BY <1>8, <1>10 DEF CallbackReturns
<1>11. CASE RunReadDone
  BY <1>8, <1>11 DEF RunReadDone, ReadFailed, Running
<1>12. CASE ReactorRead
  BY <1>8, <1>12 DEF ReactorRead, ReadFailed, Running
<1>13. CASE RunWriteDone
  BY <1>8, <1>13 DEF RunWriteDone, Running
<1>14. CASE ReactorWrite
  BY <1>8, <1>14 DEF ReactorWrite, Running
<1> QED
  BY <1>1, <1>2, <1>3, <1>4, <1>5, <1>6, <1>7, <1>9, <1>10, <1>11, <1>12, <1>13, <1>14
     DEF Next, Open, CloseSteps, Calls, Worker

\* On a closed port nothing starts.
LEMMA ClosedIsEmptyStep ==
    ASSUME TypeOK, References, Control, ClosedIsEmpty, [Next]_vars
    PROVE  ClosedIsEmpty'
<1> USE DEF memberVars, portVars, threadVars, deviceVars, requestVars, sessionVars, historyVars
<1>1. CASE CloseJoin
  BY <1>1 DEF CloseJoin, ResetBuffers, ClosedIsEmpty
<1>2. CASE OpenSucceeds
  BY <1>2 DEF OpenSucceeds, ClosedIsEmpty
<1>3. ASSUME isOpen, UNCHANGED isOpen
      PROVE  ClosedIsEmpty'
  BY <1>3 DEF ClosedIsEmpty
<1>4. CASE CloseCancel
  BY <1>4 DEF CloseCancel, ClosedIsEmpty
<1>5. CASE OpenCall \/ OpenFails \/ OpenCheckRunning \/ CloseCall \/ CloseClearRunning
           \/ CloseResetWork \/ CloseStop
  BY <1>5 DEF ClosedIsEmpty, OpenCall, OpenFails, OpenCheckRunning, CloseCall,
       CloseClearRunning, CloseResetWork, CloseStop
<1>6. CASE OpenAsyncRead
  BY <1>3, <1>6 DEF OpenAsyncRead, Control
<1>7. CASE WriteNotOpen \/ ClearInput \/ ClearError \/ Device \/ UNCHANGED vars
           \/ (\E t \in Threads : WritePost(t))
  BY <1>7 DEF ClosedIsEmpty, WriteNotOpen, ClearInput, ClearError, Device, DeviceSends,
       DeviceUnplugged, vars, WritePost
<1>8. CASE \E t \in Threads : WriteCount(t)
  BY <1>3, <1>8 DEF WriteCount
<1>9. CASE \E t \in Threads : ReadCall(t)
  BY <1>3, <1>9 DEF ReadCall, ClosedIsEmpty
<1>10. CASE Worker
  <2>1. worker # "none" /\ UNCHANGED isOpen
    BY <1>10 DEF Worker, WorkerCheckRunning, WorkerAsyncRead, WorkerWriteSome, CallbackReturns,
       Callbacks, RunPosted, RunReadDone, RunWriteDone, ReactorRead, ReactorWrite, WorkerExits,
       Running
  <2> QED
    BY <1>3, <2>1 DEF Control
<1> QED
  BY <1>1, <1>2, <1>4, <1>5, <1>6, <1>7, <1>8, <1>9, <1>10
     DEF Next, Open, CloseSteps, Calls

\* A failed completion enters the queue only by an append of one, or by the
\* cancelled operations.
LEMMA FailedQueuedSteps ==
    ASSUME TypeOK, References
    PROVE  /\ UNCHANGED ready => (FailedQueued' => FailedQueued)
           /\ ready # <<>> /\ ready' = Tail(ready) => (FailedQueued' => FailedQueued)
           /\ \A h \in Handlers : ready' = Append(ready, h) /\ h.ok => (FailedQueued' => FailedQueued)
           /\ ready # <<>> /\ ~Head(ready).ok => FailedQueued
<1>1. ready \in Seq(Handlers) /\ Len(ready) \in Nat
  BY LenProperties DEF TypeOK, HandlersOK
<1>2. UNCHANGED ready => (FailedQueued' => FailedQueued)
  BY DEF FailedQueued
<1>3. ASSUME ready # <<>>, ready' = Tail(ready), FailedQueued'
      PROVE  FailedQueued
  <2>1. PICK i \in 1..Len(ready') : ~ready'[i].ok
    BY <1>3 DEF FailedQueued
  <2>2. i + 1 \in 1..Len(ready) /\ ready'[i] = ready[i + 1]
    BY <1>1, <1>3, HeadTailProperties
  <2> QED
    BY <2>1, <2>2 DEF FailedQueued
<1>4. ASSUME NEW h \in Handlers, ready' = Append(ready, h), h.ok, FailedQueued'
      PROVE  FailedQueued
  <2>1. PICK i \in 1..Len(ready') : ~ready'[i].ok
    BY <1>4 DEF FailedQueued
  <2>2. /\ Len(ready') = Len(ready) + 1 /\ ready'[Len(ready) + 1] = h
        /\ \A j \in 1..Len(ready) : ready'[j] = ready[j]
    BY <1>1, <1>4, AppendProperties
  <2>3. i \in 1..Len(ready)
    BY <1>1, <1>4, <2>1, <2>2
  <2> QED
    BY <2>1, <2>2, <2>3 DEF FailedQueued
<1>5. ready # <<>> /\ ~Head(ready).ok => FailedQueued
  BY <1>1, EmptySeq DEF FailedQueued
<1> QED
  BY <1>2, <1>3, <1>4, <1>5

\* A history that is not clean stays so.
LEMMA CleanStep ==
    ASSUME TypeOK, [Next]_vars
    PROVE  clean' => clean
<1> USE DEF memberVars, portVars, threadVars, deviceVars, requestVars, sessionVars, historyVars
<1>1. CASE CloseJoin
  BY <1>1 DEF CloseJoin
<1>2. CASE Open \/ CloseCall \/ CloseClearRunning \/ CloseCancel \/ CloseResetWork \/ CloseStop
  BY <1>2 DEF Open, OpenCall, OpenFails, OpenSucceeds, OpenCheckRunning, OpenAsyncRead,
       CloseCall, CloseClearRunning, CloseCancel, CloseResetWork, CloseStop
<1>3. CASE Calls \/ Device \/ UNCHANGED vars
  BY <1>3 DEF Calls, WriteNotOpen, ClearInput, ClearError, WriteCount, WritePost, ReadCall,
       Device, DeviceSends, DeviceUnplugged, vars
<1>4. CASE Worker
  BY <1>4 DEF Worker, WorkerCheckRunning, WorkerAsyncRead, WorkerWriteSome, CallbackReturns,
       RunPosted, RunReadDone, RunWriteDone, ReactorRead, ReactorWrite, WorkerExits
<1> QED
  BY <1>1, <1>2, <1>3, <1>4 DEF Next, CloseSteps

\* A handler that fails is explained by the device or by close().
LEMMA FailureExplainedStep ==
    ASSUME TypeOK, References, Control, ClosedIsEmpty, FailureExplained, [Next]_vars
    PROVE  FailureExplained'
<1> USE DEF memberVars, portVars, threadVars, deviceVars, requestVars, sessionVars, historyVars
<1> DEFINE reporting == worker \in {"onReadError", "onWriteError"}
           explained == ~attached \/ (closing /\ ~running)
<1>1. SUFFICES ASSUME clean, clean'
               PROVE  /\ ~isOpen' => ready' = <<>>
                      /\ FailedQueued' => explained'
                      /\ reporting' => ~attached'
  BY CleanStep DEF FailureExplained
<1>2. /\ ~isOpen => ready = <<>>
      /\ FailedQueued => explained
      /\ reporting => ~attached
  BY <1>1 DEF FailureExplained
<1>3. CASE UNCHANGED <<ready, isOpen, attached, closing, running, worker>>
  BY <1>2, <1>3 DEF FailedQueued
<1>4. ASSUME isOpen, UNCHANGED <<isOpen, attached, closing>>, running' => running,
             FailedQueued' => FailedQueued, reporting' => reporting \/ ~attached
      PROVE  /\ ~isOpen' => ready' = <<>>
             /\ FailedQueued' => explained'
             /\ reporting' => ~attached'
  BY <1>2, <1>4
<1>5. CASE OpenCall \/ CloseCall \/ CloseClearRunning \/ CloseResetWork \/ CloseStop
  <2>1. /\ UNCHANGED <<ready, isOpen, attached, worker>>
        /\ closing => closing' 
        /\ running' => running
    BY <1>5 DEF OpenCall, CloseCall, CloseClearRunning, CloseResetWork, CloseStop
  <2> QED
    BY <1>2, <2>1 DEF FailedQueued
<1>6. CASE OpenFails \/ OpenCheckRunning
  BY <1>3, <1>6 DEF OpenFails, OpenCheckRunning
<1>7. CASE OpenSucceeds
  <2>1. ready' = <<>> /\ worker' = "run" /\ isOpen'
    BY <1>2, <1>7 DEF OpenSucceeds, Control
  <2>2. ~FailedQueued'
    BY <2>1, EmptySeq DEF FailedQueued
  <2> QED
    BY <2>1, <2>2
<1>8. CASE CloseCancel
  <2>1. closing /\ ~running /\ UNCHANGED <<isOpen, attached, closing, running, worker>>
    BY <1>8 DEF CloseCancel, Control, ClosePoints
  <2>2. ~isOpen => ready' = <<>>
    <3>1. SUFFICES ASSUME ~isOpen PROVE ready' = <<>>
      OBVIOUS
    <3>2. Aborted \in Seq(Handlers) /\ Len(Aborted) = 0
      BY <3>1, AbortedHandlers, EmptySeq DEF ClosedIsEmpty
    <3> QED
      BY <1>2, <1>8, <3>1, <3>2, EmptySeq, ConcatEmptySeq DEF CloseCancel
  <2> QED
    BY <1>2, <2>1, <2>2
<1>9. CASE CloseJoin
  <2>1. ready' = <<>> /\ ~attached' /\ worker' = "none"
    BY <1>1, <1>9 DEF CloseJoin, Joined
  <2> QED
    BY <2>1
<1>10. CASE OpenAsyncRead \/ WorkerAsyncRead
  <2>1. isOpen /\ UNCHANGED <<isOpen, attached, closing, running>> /\ AsyncReadSome
    BY <1>10 DEF OpenAsyncRead, WorkerAsyncRead, Control
  <2>2. reporting' => reporting
    BY <1>10 DEF OpenAsyncRead, WorkerAsyncRead
  <2>3. CASE attached
    <3>1. FailedQueued' => FailedQueued
      <4>1. CASE UNCHANGED ready
        BY <4>1, FailedQueuedSteps
      <4>2. CASE FillScratch /\ ready' = Append(ready, ReadDone(TRUE, ReadSize))
        <5>1. PICK n \in Nat : n = ReadSize
          BY <4>2, ScratchTypes
        <5>2. ReadDone(TRUE, n) \in Handlers /\ ReadDone(TRUE, n).ok
          BY DEF ReadDone, Handlers
        <5> QED
          BY <4>2, <5>1, <5>2, FailedQueuedSteps
      <4> QED
        BY <2>1, <2>3, <4>1, <4>2 DEF AsyncReadSome
    <3> QED
      BY <1>4, <2>1, <2>2, <3>1
  <2>4. CASE ~attached
    BY <2>1, <2>4
  <2> QED
    BY <2>3, <2>4
<1>11. CASE WriteNotOpen \/ ClearInput \/ ClearError \/ DeviceSends \/ UNCHANGED vars
            \/ (\E t \in Threads : WriteCount(t) \/ ReadCall(t))
  BY <1>3, <1>11 DEF WriteNotOpen, ClearInput, ClearError, DeviceSends, vars, WriteCount, ReadCall
<1>12. CASE DeviceUnplugged
  BY <1>2, <1>12 DEF DeviceUnplugged
<1>13. ASSUME NEW t \in Threads, WritePost(t)
       PROVE  /\ ~isOpen' => ready' = <<>>
              /\ FailedQueued' => explained'
              /\ reporting' => ~attached'
  <2>1. isOpen
    BY <1>13 DEF WritePost, Control, Threads, Callbacks
  <2>2. Posted(posting[t]) \in Handlers /\ Posted(posting[t]).ok
    BY DEF Posted, Handlers, TypeOK, ThreadsOK
  <2>3. FailedQueued' => FailedQueued
    BY <1>13, <2>2, FailedQueuedSteps DEF WritePost
  <2> QED
    BY <1>4, <1>13, <2>1, <2>3 DEF WritePost
<1>14. CASE WorkerCheckRunning \/ WorkerExits
  BY <1>2, <1>14 DEF WorkerCheckRunning, WorkerExits, FailedQueued
<1>15. CASE CallbackReturns
  <2>1. worker' \in {"doRead", "run"} /\ (running' => running)
        /\ UNCHANGED <<ready, isOpen, attached, closing>>
    BY <1>15 DEF CallbackReturns, AfterCallback
  <2> QED
    BY <1>2, <2>1 DEF FailedQueued
<1>16. CASE RunPosted
  <2>1. isOpen /\ ready # <<>> /\ ready' = Tail(ready) /\ worker' = "writeSome"
        /\ UNCHANGED <<isOpen, attached, closing, running>>
    BY <1>16 DEF RunPosted, Running, Control
  <2> QED
    BY <1>4, <2>1, FailedQueuedSteps
<1>17. CASE RunReadDone
  <2>1. isOpen /\ ready # <<>> /\ ready' = Tail(ready) /\ (running' => running)
        /\ UNCHANGED <<isOpen, attached, closing>>
    BY <1>17 DEF RunReadDone, Running, Control, ReadFailed
  <2>2. worker' \in {"onReadError", "onWriteError"} => ~Head(ready).ok /\ running
    BY <1>17 DEF RunReadDone, ReadSucceeded, ReadFailed
  <2>3. reporting' => ~attached
    BY <1>2, <2>1, <2>2, FailedQueuedSteps
  <2> QED
    BY <1>4, <2>1, <2>3, FailedQueuedSteps
<1>18. CASE RunWriteDone
  <2>1. isOpen /\ ready # <<>> /\ ready' = Tail(ready)
        /\ UNCHANGED <<isOpen, attached, closing, running>>
    BY <1>18 DEF RunWriteDone, Running, Control
  <2>2. worker' \in {"onReadError", "onWriteError"} => ~Head(ready).ok /\ ~closing
    BY <1>18 DEF RunWriteDone, PieceWritten, ReportsWriteError
  <2>3. reporting' => ~attached
    BY <1>2, <2>1, <2>2, FailedQueuedSteps
  <2> QED
    BY <1>4, <2>1, <2>3, FailedQueuedSteps
<1>19. CASE WorkerWriteSome
  <2>1. isOpen /\ worker' = "run" /\ UNCHANGED <<isOpen, attached, closing, running>>
    BY <1>19 DEF WorkerWriteSome, Control
  <2>2. CASE UNCHANGED ready
    BY <1>4, <2>1, <2>2, FailedQueuedSteps
  <2>3. CASE ~attached
    BY <2>1, <2>3
  <2>4. ASSUME NEW n \in 1..(wsize[starting] - wsent[starting]),
               ready' = Append(ready, WriteDone(starting, TRUE, n))
        PROVE  FailedQueued' => FailedQueued
    <3>1. starting \in 1..Len(wsize) /\ starting \in 0..MaxWrites
      BY <1>19, Growth DEF WorkerWriteSome, TypeOK, ThreadsOK, References, ThreadsRefer
    <3>2. wsize[starting] \in 1..MaxSize /\ wsent[starting] \in 0..MaxSize
      BY <3>1, ElementOfSeq DEF TypeOK, RequestsOK
    <3>3. n \in Nat
      BY <3>2
    <3>4. WriteDone(starting, TRUE, n) \in Handlers /\ WriteDone(starting, TRUE, n).ok
      BY <3>1, <3>3 DEF WriteDone, Handlers
    <3> QED
      BY <2>4, <3>4, FailedQueuedSteps
  <2>5. \/ UNCHANGED ready
        \/ ~attached
        \/ \E n \in 1..(wsize[starting] - wsent[starting]) :
             ready' = Append(ready, WriteDone(starting, TRUE, n))
    BY <1>19 DEF WorkerWriteSome
  <2>6. CASE \E n \in 1..(wsize[starting] - wsent[starting]) :
             ready' = Append(ready, WriteDone(starting, TRUE, n))
    BY <1>4, <2>1, <2>4, <2>6
  <2> QED
    BY <2>2, <2>3, <2>5, <2>6
<1>20. CASE ReactorRead
  <2>1. isOpen /\ (running' => running) /\ UNCHANGED <<ready, isOpen, attached, closing>>
    BY <1>20 DEF ReactorRead, Running, Control, ReadFailed
  <2>2. reporting' => ~attached
    BY <1>20 DEF ReactorRead, ReadSucceeded
  <2> QED
    BY <1>4, <2>1, <2>2, FailedQueuedSteps
<1>21. CASE ReactorWrite
  <2>1. isOpen /\ UNCHANGED <<ready, isOpen, attached, closing, running>>
    BY <1>21 DEF ReactorWrite, Running, Control
  <2>2. reporting' => ~attached
    BY <1>21 DEF ReactorWrite, PieceWritten
  <2> QED
    BY <1>4, <2>1, <2>2, FailedQueuedSteps
<1> QED
  BY <1>5, <1>6, <1>7, <1>8, <1>9, <1>10, <1>11, <1>12, <1>13, <1>14, <1>15, <1>16, <1>17,
     <1>18, <1>19, <1>20, <1>21
     DEF Next, Open, CloseSteps, Calls, Worker, Device

\* The core of the inductive invariant holds for every value of the bounds.
THEOREM CoreInvariant == Spec => []CoreInv
<1>1. Init => CoreInv
  <2>1. ASSUME Init PROVE Control /\ ClosedIsEmpty /\ FailureExplained
    BY <2>1, EmptySeq DEF Init, Control, ClosedIsEmpty, FailureExplained, FailedQueued,
       ClosePoints, Threads
  <2> QED
    BY <2>1, TypeInit DEF CoreInv
<1>2. CoreInv /\ [Next]_vars => CoreInv'
  BY TypeStep, ControlStep, ClosedIsEmptyStep, FailureExplainedStep DEF CoreInv
<1> QED
  BY <1>1, <1>2, PTL DEF Spec

\* Until a close() leaves handlers behind, the error callback means that the
\* device is gone, however open(), close(), the worker and the device interleave.
THEOREM ErrorsAreReal == Spec => []NoSpuriousError
<1>1. CoreInv => NoSpuriousError
  BY DEF CoreInv, FailureExplained, NoSpuriousError, SpuriousError
<1> QED
  BY <1>1, CoreInvariant, PTL
=============================================================================
