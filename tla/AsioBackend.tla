---------------------------- MODULE AsioBackend ----------------------------
(***************************************************************************)
(* The desktop backend (src/detail/AsioBackend.cpp): one user thread that   *)
(* calls the public methods, the worker thread that runs io_->run(), the    *)
(* io_context's queue of ready handlers, the operations pending on the      *)
(* serial port, and the device at the other end.                            *)
(*                                                                          *)
(* A byte received from the device is its number in the order the device    *)
(* sent it; a write is its number in the order of the calls of write().     *)
(* The calls the user thread makes are sequential; write() and read() are   *)
(* also called from the callbacks, on the worker thread.  close() is not:   *)
(* there it would join the thread it runs on.                               *)
(***************************************************************************)
EXTENDS Integers, Sequences, FiniteSets, Functions

CONSTANTS
    MaxSessions,  \* bound: successful calls of open()
    MaxRx,        \* bound: bytes the device sends
    MaxWrites,    \* bound: calls of write() that queue something
    MaxSize,      \* bound: size of one write
    ScratchSize,  \* sizeof readScratch_ (4096 in the code)
    ReadSizes     \* the values of max the user passes to read()

ASSUME BoundsAssumption ==
    /\ MaxSessions \in Nat /\ MaxRx \in Nat /\ MaxWrites \in Nat
    /\ MaxSize \in Nat \ {0}
ASSUME ScratchAssumption == ScratchSize \in Nat \ {0}
ASSUME ReadSizesAssumption == ReadSizes \subseteq Nat \ {0}

VARIABLES
    \* the members of AsioBackend
    running, closing, error, bytesToWrite, readBuffer, readScratch, work,
    \* io_ and port_
    ready,        \* handlers ready to run, in the order io_->run() takes them
    stopped,      \* io_->stop() has been called
    isOpen,       \* port_->is_open()
    pendingReads, \* number of read operations waiting in the reactor
    pendingWrites,\* writes whose next piece waits in the reactor
    \* the two threads
    user,         \* where the user thread is in open() or close()
    reopening,    \* this close() was called by open()
    worker,       \* where the worker thread is
    starting,     \* the write whose next piece the worker is starting
    posting,      \* the write each thread has counted but not yet posted
    \* the device
    attached, kernelIn, rxSent,
    \* write requests: size, bytes the kernel has taken, outcome
    wsize, wsent, wresult,
    \* history; clean: no close() has left a handler in the queue; paced: every
    \* write() so far was called when bytesToWrite() was 0
    session, received, wire, lost, clean, paced, rxBase, writeBase

memberVars  == <<running, closing, error, bytesToWrite, readBuffer, readScratch, work>>
portVars    == <<ready, stopped, isOpen, pendingReads, pendingWrites>>
threadVars  == <<user, reopening, worker, starting, posting>>
deviceVars  == <<attached, kernelIn, rxSent>>
requestVars == <<wsize, wsent, wresult>>
sessionVars == <<session, clean, paced, rxBase, writeBase>>
historyVars == <<sessionVars, received, wire, lost>>
vars == <<memberVars, portVars, threadVars, deviceVars, requestVars, historyVars>>

Threads == {"user", "worker"}
Callbacks == {"onReadyRead", "onReadError", "onBytesWritten", "onWriteError"}
ClosePoints == {"clearRunning", "cancel", "resetWork", "stop", "join"}
UserPoints == {"idle", "openPort", "startRead", "asyncRead"} \cup ClosePoints
WorkerPoints == {"none", "run", "doRead", "asyncRead", "writeSome", "exited"} \cup Callbacks

(***************************************************************************)
(* The error a failed open() records, by errno.                             *)
(***************************************************************************)
OpenErrnos == {"ENOENT", "ENXIO", "EACCES", "EPERM", "EBUSY", "EIO"}
MapError(errno) ==
    CASE errno \in {"ENOENT", "ENXIO"} -> "DeviceNotFoundError"
      [] errno \in {"EACCES", "EPERM"} -> "PermissionError"
      [] errno = "EBUSY"               -> "ResourceError"
      [] OTHER                         -> "UnknownError"
SerialErrors == {"NoError", "NotOpenError", "DeviceNotFoundError",
                 "PermissionError", "ResourceError", "UnknownError"}

(***************************************************************************)
(* Entries of the io_context's queue: a lambda write() posted, and the      *)
(* completions of a piece of a write and of a read.                         *)
(***************************************************************************)
Posted(w)          == [kind |-> "post",  write |-> w, ok |-> TRUE, bytes |-> 0]
WriteDone(w, k, n) == [kind |-> "write", write |-> w, ok |-> k, bytes |-> n]
ReadDone(k, n)     == [kind |-> "read",  write |-> 0, ok |-> k, bytes |-> n]
Handlers == [kind : {"post", "write", "read"}, write : 0..MaxWrites,
             ok : BOOLEAN, bytes : Nat]

OpenWrites == {w \in DOMAIN wresult : wresult[w] = "open"}

Init ==
    /\ running = FALSE /\ closing = FALSE /\ error = "NoError"
    /\ bytesToWrite = 0 /\ readBuffer = <<>> /\ readScratch = <<>> /\ work = FALSE
    /\ ready = <<>> /\ stopped = FALSE /\ isOpen = FALSE
    /\ pendingReads = 0 /\ pendingWrites = <<>>
    /\ user = "idle" /\ reopening = FALSE /\ worker = "none"
    /\ starting = 0 /\ posting = [t \in Threads |-> 0]
    /\ attached = FALSE /\ kernelIn = <<>> /\ rxSent = 0
    /\ wsize = <<>> /\ wsent = <<>> /\ wresult = <<>>
    /\ session = 0 /\ received = <<>> /\ wire = <<>> /\ lost = {}
    /\ clean = TRUE /\ paced = TRUE /\ rxBase = 0 /\ writeBase = 0

UserIdle == user = "idle" /\ posting["user"] = 0

-----------------------------------------------------------------------------
(***************************************************************************)
(* open()                                                                   *)
(***************************************************************************)

\* open(): on an open port the first thing it does is close().
OpenCall ==
    /\ UserIdle
    /\ session < MaxSessions
    /\ IF isOpen
         THEN closing' = TRUE /\ reopening' = TRUE /\ user' = "clearRunning"
         ELSE user' = "openPort" /\ UNCHANGED <<closing, reopening>>
    /\ UNCHANGED <<running, error, bytesToWrite, readBuffer, readScratch, work, portVars,
                   worker, starting, posting, deviceVars, requestVars, historyVars>>

\* port_->open fails: the errno is mapped, open() returns false.
OpenFails ==
    /\ user = "openPort"
    /\ \E errno \in OpenErrnos : error' = MapError(errno)
    /\ user' = "idle"
    /\ UNCHANGED <<running, closing, bytesToWrite, readBuffer, readScratch, work, portVars,
                   reopening, worker, starting, posting, deviceVars, requestVars, historyVars>>

\* port_->open succeeds: members reset, guard made, the worker thread started
\* unless one is joinable.
OpenSucceeds ==
    /\ user = "openPort"
    /\ isOpen' = TRUE /\ attached' = TRUE /\ kernelIn' = <<>>
    /\ error' = "NoError" /\ running' = TRUE /\ closing' = FALSE /\ work' = TRUE
    /\ worker' = IF worker = "none" THEN "run" ELSE worker
    /\ user' = "startRead"
    /\ session' = session + 1 /\ rxBase' = rxSent /\ writeBase' = Len(wsize)
    /\ UNCHANGED <<bytesToWrite, readBuffer, readScratch, ready, stopped, pendingReads,
                   pendingWrites, reopening, starting, posting, rxSent, requestVars,
                   received, wire, lost, clean, paced>>

-----------------------------------------------------------------------------
(***************************************************************************)
(* close(), one step per statement the worker can run between.              *)
(***************************************************************************)
CloseCall ==
    /\ UserIdle
    /\ closing' = TRUE /\ user' = "clearRunning"
    /\ UNCHANGED <<running, error, bytesToWrite, readBuffer, readScratch, work, portVars,
                   reopening, worker, starting, posting, deviceVars, requestVars, historyVars>>

CloseClearRunning ==
    /\ user = "clearRunning"
    /\ running' = FALSE /\ user' = "cancel"
    /\ UNCHANGED <<closing, error, bytesToWrite, readBuffer, readScratch, work, portVars,
                   reopening, worker, starting, posting, deviceVars, requestVars, historyVars>>

\* Mutant: the cancelled writes get no completion.
AbortedReads == [i \in 1..pendingReads |-> ReadDone(FALSE, 0)]

\* cancel() and close() of a serial_port turn every pending operation into a
\* failed completion, reads before writes, at the end of the queue.
Aborted == [i \in 1..pendingReads |-> ReadDone(FALSE, 0)]
             \o [i \in 1..Len(pendingWrites) |-> WriteDone(pendingWrites[i], FALSE, 0)]

CloseCancel ==
    /\ user = "cancel"
    /\ user' = "resetWork"
    /\ ready' = ready \o Aborted /\ pendingReads' = 0 /\ pendingWrites' = <<>>
    /\ UNCHANGED <<memberVars, stopped, isOpen, reopening, worker, starting, posting,
                   deviceVars, requestVars, historyVars>>

CloseResetWork ==
    /\ user = "resetWork"
    /\ work' = FALSE /\ user' = "stop"
    /\ UNCHANGED <<running, closing, error, bytesToWrite, readBuffer, readScratch, portVars,
                   reopening, worker, starting, posting, deviceVars, requestVars, historyVars>>

\* Mutant: close() without io_->stop().
CloseWithoutStop ==
    /\ user = "stop"
    /\ user' = "join"
    /\ UNCHANGED <<memberVars, portVars, reopening, worker, starting, posting, deviceVars,
                   requestVars, historyVars>>

CloseStop ==
    /\ user = "stop"
    /\ stopped' = TRUE /\ user' = "join"
    /\ UNCHANGED <<memberVars, ready, isOpen, pendingReads, pendingWrites, reopening, worker,
                   starting, posting, deviceVars, requestVars, historyVars>>

\* Mutant: close() without the join.
NotJoined == TRUE

\* The thread to join has returned from io_->run(), or there is none.
Joined == worker \in {"none", "exited"}

\* Mutant: readBuffer_ survives close().
ResetCounterOnly == bytesToWrite' = 0 /\ UNCHANGED readBuffer

ResetBuffers == readBuffer' = <<>> /\ bytesToWrite' = 0

\* The rest of close(), once nothing else runs: join, restart, port close
\* (which aborts an operation started after the cancel), the buffers.
CloseJoin ==
    /\ user = "join" /\ Joined
    /\ worker' = IF worker = "exited" THEN "none" ELSE worker
    /\ stopped' = FALSE
    /\ isOpen' = FALSE /\ attached' = FALSE
    /\ ready' = ready \o Aborted /\ pendingReads' = 0 /\ pendingWrites' = <<>>
    /\ ResetBuffers /\ kernelIn' = <<>>
    /\ user' = IF reopening THEN "openPort" ELSE "idle"
    /\ reopening' = FALSE
    /\ lost' = lost \cup Range(readBuffer) \cup Range(kernelIn)
    /\ clean' = (clean /\ ready' = <<>>)
    /\ UNCHANGED <<running, closing, error, readScratch, work, starting, posting, rxSent,
                   requestVars, session, received, wire, paced, rxBase, writeBase>>

-----------------------------------------------------------------------------
(***************************************************************************)
(* doRead(): the check of running_ and the start of the operation are two   *)
(* steps, and another thread can close() between them.  open() runs it on   *)
(* the user thread, the read handler on the worker thread.                  *)
(***************************************************************************)
MayRead == running /\ isOpen

OpenCheckRunning ==
    /\ user = "startRead"
    /\ user' = IF MayRead THEN "asyncRead" ELSE "idle"
    /\ UNCHANGED <<memberVars, portVars, reopening, worker, starting, posting,
                   deviceVars, requestVars, historyVars>>

WorkerCheckRunning ==
    /\ worker = "doRead"
    /\ worker' = IF MayRead THEN "asyncRead" ELSE "run"
    /\ UNCHANGED <<memberVars, portVars, user, reopening, starting, posting,
                   deviceVars, requestVars, historyVars>>

\* Mutant: the buffer's size is not passed to the read.
ReadSizeUnbounded == Len(kernelIn)

\* What one read takes: all the kernel has, up to the size of readScratch_.
ReadSize == IF Len(kernelIn) < ScratchSize THEN Len(kernelIn) ELSE ScratchSize

\* It overwrites the front of the array; what a longer read left behind stays.
FillScratch ==
    /\ attached /\ kernelIn # <<>>
    /\ readScratch' = SubSeq(kernelIn, 1, ReadSize)
                         \o SubSeq(readScratch, ReadSize + 1, Len(readScratch))
    /\ kernelIn' = SubSeq(kernelIn, ReadSize + 1, Len(kernelIn))

\* async_read_some: tried at once when no read is waiting (the completion is
\* queued), else left to the reactor.
AsyncReadSome ==
    \/ /\ pendingReads = 0 /\ FillScratch
       /\ ready' = Append(ready, ReadDone(TRUE, ReadSize))
       /\ UNCHANGED pendingReads
    \/ /\ pendingReads = 0 /\ ~attached
       /\ ready' = Append(ready, ReadDone(FALSE, 0))
       /\ UNCHANGED <<pendingReads, readScratch, kernelIn>>
    \/ /\ pendingReads > 0 \/ (attached /\ kernelIn = <<>>)
       /\ pendingReads' = pendingReads + 1
       /\ UNCHANGED <<ready, readScratch, kernelIn>>

OpenAsyncRead ==
    /\ user = "asyncRead" /\ AsyncReadSome
    /\ user' = "idle"
    /\ UNCHANGED <<running, closing, error, bytesToWrite, readBuffer, work, stopped, isOpen,
                   pendingWrites, reopening, worker, starting, posting, attached, rxSent,
                   requestVars, historyVars>>

WorkerAsyncRead ==
    /\ worker = "asyncRead" /\ AsyncReadSome
    /\ worker' = "run"
    /\ UNCHANGED <<running, closing, error, bytesToWrite, readBuffer, work, stopped, isOpen,
                   pendingWrites, user, reopening, starting, posting, attached, rxSent,
                   requestVars, historyVars>>

-----------------------------------------------------------------------------
(***************************************************************************)
(* write(), read(), clear(), clearError()                                   *)
(***************************************************************************)

\* A thread can call write() and read(): the user between its calls, the
\* worker inside a callback.
CanCall(t) == IF t = "user" THEN UserIdle
                            ELSE worker \in Callbacks /\ posting["worker"] = 0

\* write() on a closed port.
WriteNotOpen ==
    /\ UserIdle /\ ~isOpen
    /\ error' = "NotOpenError"
    /\ UNCHANGED <<running, closing, bytesToWrite, readBuffer, readScratch, work, portVars,
                   threadVars, deviceVars, requestVars, historyVars>>

\* Mutant: write() does not add to bytesToWrite_.
CountedNothing(size) == 0

\* What write() adds to bytesToWrite_.
CountedBytes(size) == size

\* write() counts the bytes first ...
WriteCount(t) ==
    /\ CanCall(t) /\ isOpen
    /\ Len(wsize) < MaxWrites
    /\ paced' = (paced /\ bytesToWrite = 0)
    /\ \E size \in 1..MaxSize :
         /\ wsize' = Append(wsize, size)
         /\ bytesToWrite' = bytesToWrite + CountedBytes(size)
    /\ wsent' = Append(wsent, 0) /\ wresult' = Append(wresult, "open")
    /\ posting' = [posting EXCEPT ![t] = Len(wsize) + 1]
    /\ UNCHANGED <<running, closing, error, readBuffer, readScratch, work, portVars, user,
                   reopening, worker, starting, deviceVars, session, clean, rxBase, writeBase,
                   received, wire, lost>>

\* ... and then posts the lambda that starts async_write on the worker.
WritePost(t) ==
    /\ posting[t] # 0
    /\ ready' = Append(ready, Posted(posting[t]))
    /\ posting' = [posting EXCEPT ![t] = 0]
    /\ UNCHANGED <<memberVars, stopped, isOpen, pendingReads, pendingWrites, user, reopening,
                   worker, starting, deviceVars, requestVars, historyVars>>

\* ReadBuffer::pop: how many bytes it copies out, and (AfterPop) what it keeps.
PopSize(max) == IF Len(readBuffer) < max THEN Len(readBuffer) ELSE max
\* Mutant: the last byte copied out is not erased.
AfterPopKeepsLast(max) == SubSeq(readBuffer, PopSize(max), Len(readBuffer))
AfterPop(max) == SubSeq(readBuffer, PopSize(max) + 1, Len(readBuffer))

ReadCall(t) ==
    /\ CanCall(t) /\ readBuffer # <<>>
    /\ \E max \in ReadSizes :
         /\ received' = received \o SubSeq(readBuffer, 1, PopSize(max))
         /\ readBuffer' = AfterPop(max)
    /\ UNCHANGED <<running, closing, error, bytesToWrite, readScratch, work, portVars,
                   threadVars, deviceVars, requestVars, sessionVars, wire, lost>>

\* clear(Input), of either thread: tcflush drops what the kernel holds;
\* readBuffer_ keeps what the worker has already read.
ClearInput ==
    /\ \E t \in Threads : CanCall(t)
    /\ isOpen /\ kernelIn # <<>>
    /\ kernelIn' = <<>> /\ lost' = lost \cup Range(kernelIn)
    /\ UNCHANGED <<memberVars, portVars, threadVars, attached, rxSent, requestVars,
                   sessionVars, received, wire>>

ClearError ==
    /\ \E t \in Threads : CanCall(t)
    /\ error # "NoError"
    /\ error' = "NoError"
    /\ UNCHANGED <<running, closing, bytesToWrite, readBuffer, readScratch, work, portVars,
                   threadVars, deviceVars, requestVars, historyVars>>

-----------------------------------------------------------------------------
(***************************************************************************)
(* The read handler and the write handler, on the worker thread.            *)
(***************************************************************************)

\* Mutant: a read that returns nothing is taken for silence, not for the end.
ReadFailedSilently == running' = FALSE /\ worker' = "run" /\ UNCHANGED error

\* A read that failed is reported while running_ is set, and ends the loop.
ReadFailed ==
    IF running
      THEN /\ error' = "ResourceError" /\ worker' = "onReadError"
           /\ UNCHANGED running
      ELSE running' = FALSE /\ worker' = "run" /\ UNCHANGED error

\* The bytes of scratch are pushed on readBuffer_, then onReadyRead() is called.
ReadSucceeded(scratch, n) ==
    /\ readBuffer' = readBuffer \o SubSeq(scratch, 1, n)
    /\ worker' = "onReadyRead"

\* Mutant: the handler takes off the bytes written instead of the size.
SettledSent(w) == wsent[w]

\* What the handler of a completed write takes off bytesToWrite_.
SettledBytes(w) == wsize[w]

\* Mutant: an aborted write is reported like any failure.
ReportsAlways == TRUE

\* A failed write is an error of the device unless we are closing.
ReportsWriteError == ~closing

\* Mutants: async_write_some instead of async_write; a comparison one off.
NeverUnfinished(w, ok) == FALSE
UnfinishedOneOff(w, ok) == ok /\ wsent'[w] <= wsize[w]

\* A piece that succeeded leaves bytes of the write to be sent.
Unfinished(w, ok) == ok /\ wsent'[w] < wsize[w]

\* async_write: an unfinished write starts its next piece; otherwise the
\* write's handler runs.
PieceWritten(w, ok) ==
    IF Unfinished(w, ok)
      THEN /\ worker' = "writeSome" /\ starting' = w
           /\ UNCHANGED <<error, bytesToWrite, wresult>>
      ELSE /\ bytesToWrite' = bytesToWrite - SettledBytes(w)
           /\ wresult' = [wresult EXCEPT ![w] = IF ok THEN "written" ELSE "failed"]
           /\ CASE ok -> worker' = "onBytesWritten" /\ UNCHANGED error
                [] ~ok /\ ReportsWriteError ->
                     error' = "ResourceError" /\ worker' = "onWriteError"
                [] OTHER -> worker' = "run" /\ UNCHANGED error
           /\ UNCHANGED starting

\* Mutant: every callback goes on to doRead().
AfterAnyCallback == [c \in Callbacks |-> "doRead"]

\* What the worker does after each callback: the read handler goes on to
\* doRead(), the others return to the io_context.
AfterCallback == [c \in Callbacks |-> IF c = "onReadyRead" THEN "doRead" ELSE "run"]

CallbackReturns ==
    /\ worker \in Callbacks /\ posting["worker"] = 0
    /\ worker' = AfterCallback[worker]
    /\ running' = (running /\ worker # "onReadError")
    /\ UNCHANGED <<closing, error, bytesToWrite, readBuffer, readScratch, work, portVars, user,
                   reopening, starting, posting, deviceVars, requestVars, historyVars>>

-----------------------------------------------------------------------------
(***************************************************************************)
(* io_->run(): the worker takes the handlers of the queue in order, and     *)
(* lets the reactor finish pending operations, until stop() or until        *)
(* nothing is left to wait for.                                             *)
(***************************************************************************)
Running == worker = "run" /\ ~stopped

RunPosted ==
    /\ Running /\ ready # <<>> /\ Head(ready).kind = "post"
    /\ starting' = Head(ready).write /\ worker' = "writeSome"
    /\ ready' = Tail(ready)
    /\ UNCHANGED <<memberVars, stopped, isOpen, pendingReads, pendingWrites, user, reopening,
                   posting, deviceVars, requestVars, historyVars>>

RunReadDone ==
    /\ Running /\ ready # <<>> /\ Head(ready).kind = "read"
    /\ IF Head(ready).ok
         THEN ReadSucceeded(readScratch, Head(ready).bytes) /\ UNCHANGED <<running, error>>
         ELSE ReadFailed /\ UNCHANGED readBuffer
    /\ ready' = Tail(ready)
    /\ UNCHANGED <<closing, bytesToWrite, readScratch, work, stopped, isOpen, pendingReads,
                   pendingWrites, user, reopening, starting, posting, deviceVars, requestVars,
                   historyVars>>

RunWriteDone ==
    /\ Running /\ ready # <<>> /\ Head(ready).kind = "write"
    /\ UNCHANGED wsent
    /\ PieceWritten(Head(ready).write, Head(ready).ok)
    /\ ready' = Tail(ready)
    /\ UNCHANGED <<running, closing, readBuffer, readScratch, work, stopped, isOpen,
                   pendingReads, pendingWrites, user, reopening, posting, deviceVars, wsize,
                   historyVars>>

\* The kernel takes n bytes of write w.  wire has the bytes in the order the
\* kernel took them; what becomes of them then (it may still drop them when the
\* device goes, or for clear(Output)) is outside the model.
KernelTakes(w, n) ==
    /\ wsent' = [wsent EXCEPT ![w] = @ + n]
    /\ wire' = wire \o [i \in 1..n |-> w]

\* async_write_some for the next piece: tried at once when no write waits,
\* else (or when the kernel's buffer is full) left to the reactor.
WorkerWriteSome ==
    /\ worker = "writeSome"
    /\ \/ /\ pendingWrites = <<>> /\ attached
          /\ \E n \in 1..(wsize[starting] - wsent[starting]) :
               /\ KernelTakes(starting, n)
               /\ ready' = Append(ready, WriteDone(starting, TRUE, n))
          /\ UNCHANGED pendingWrites
       \/ /\ pendingWrites = <<>> /\ ~attached
          /\ ready' = Append(ready, WriteDone(starting, FALSE, 0))
          /\ UNCHANGED <<pendingWrites, wsent, wire>>
       \/ /\ pendingWrites # <<>> \/ attached
          /\ pendingWrites' = Append(pendingWrites, starting)
          /\ UNCHANGED <<ready, wsent, wire>>
    /\ worker' = "run" /\ starting' = 0
    /\ UNCHANGED <<memberVars, stopped, isOpen, pendingReads, user, reopening, posting,
                   deviceVars, wsize, wresult, sessionVars, received, lost>>

\* The reactor finds the port readable (or gone): it performs the first
\* waiting read and its handler runs at once.
ReactorRead ==
    /\ Running /\ pendingReads > 0
    /\ pendingReads' = pendingReads - 1
    /\ \/ /\ FillScratch
          /\ ReadSucceeded(readScratch', ReadSize)
          /\ UNCHANGED <<running, error>>
       \/ /\ ~attached /\ ReadFailed
          /\ UNCHANGED <<readBuffer, readScratch, kernelIn>>
    /\ UNCHANGED <<closing, bytesToWrite, work, ready, stopped, isOpen, pendingWrites, user,
                   reopening, starting, posting, attached, rxSent, requestVars, historyVars>>

\* The reactor finds the port writable (or gone): it performs the first
\* waiting write.
ReactorWrite ==
    /\ Running /\ pendingWrites # <<>>
    /\ pendingWrites' = Tail(pendingWrites)
    /\ LET w == Head(pendingWrites)
       IN \/ /\ attached
             /\ \E n \in 1..(wsize[w] - wsent[w]) : KernelTakes(w, n)
             /\ PieceWritten(w, TRUE)
          \/ /\ ~attached /\ UNCHANGED <<wsent, wire>>
             /\ PieceWritten(w, FALSE)
    /\ UNCHANGED <<running, closing, readBuffer, readScratch, work, ready, stopped, isOpen,
                   pendingReads, user, reopening, posting, deviceVars, wsize, sessionVars,
                   received, lost>>

\* Mutant: no work guard.
OutOfWorkUnguarded == ready = <<>> /\ pendingReads = 0 /\ pendingWrites = <<>>

\* io_->run() returns.
OutOfWork == ~work /\ ready = <<>> /\ pendingReads = 0 /\ pendingWrites = <<>>
WorkerExits ==
    /\ worker = "run" /\ (stopped \/ OutOfWork)
    /\ worker' = "exited"
    /\ UNCHANGED <<memberVars, portVars, user, reopening, starting, posting, deviceVars,
                   requestVars, historyVars>>

-----------------------------------------------------------------------------
(***************************************************************************)
(* The device sends bytes and may be unplugged while the port is open.      *)
(***************************************************************************)
DeviceSends ==
    /\ isOpen /\ attached /\ rxSent < MaxRx
    /\ rxSent' = rxSent + 1 /\ kernelIn' = Append(kernelIn, rxSent + 1)
    /\ UNCHANGED <<memberVars, portVars, threadVars, attached, requestVars, historyVars>>

DeviceUnplugged ==
    /\ isOpen /\ attached
    /\ attached' = FALSE /\ kernelIn' = <<>> /\ lost' = lost \cup Range(kernelIn)
    /\ UNCHANGED <<memberVars, portVars, threadVars, rxSent, requestVars, sessionVars,
                   received, wire>>

Open  == OpenCall \/ OpenFails \/ OpenSucceeds \/ OpenCheckRunning \/ OpenAsyncRead
CloseSteps == CloseClearRunning \/ CloseCancel \/ CloseResetWork \/ CloseStop \/ CloseJoin
Calls == \/ WriteNotOpen \/ ClearInput \/ ClearError
         \/ \E t \in Threads : WriteCount(t) \/ WritePost(t) \/ ReadCall(t)
Worker == \/ WorkerCheckRunning \/ WorkerAsyncRead \/ WorkerWriteSome \/ CallbackReturns
          \/ RunPosted \/ RunReadDone \/ RunWriteDone \/ ReactorRead \/ ReactorWrite
          \/ WorkerExits
Device == DeviceSends \/ DeviceUnplugged

Next == Open \/ CloseCall \/ CloseSteps \/ Calls \/ Worker \/ Device

Spec == Init /\ [][Next]_vars

\* Both threads are scheduled by the operating system; callbacks return.  The
\* user need not call anything, and the device need not send or drain anything.
Fairness ==
    /\ WF_vars(OpenFails \/ OpenSucceeds \/ OpenCheckRunning \/ OpenAsyncRead \/ CloseSteps
               \/ WritePost("user"))
    /\ WF_vars(WorkerCheckRunning) /\ WF_vars(WorkerAsyncRead) /\ WF_vars(WorkerWriteSome)
    /\ WF_vars(WritePost("worker")) /\ WF_vars(CallbackReturns)
    /\ WF_vars(RunPosted \/ RunReadDone \/ RunWriteDone)
    /\ WF_vars(ReactorRead) /\ WF_vars(ReactorWrite /\ ~attached) /\ WF_vars(WorkerExits)
FairSpec == Spec /\ Fairness

\* A device that keeps draining what is written to it.
DeviceDrains == WF_vars(ReactorWrite)
=============================================================================
