------------------------ MODULE AsioBackendProperties ------------------------
(* What should hold of AsioBackend, and the inductive invariant behind it.    *)
EXTENDS AsioBackend

\* The types, by group of variables.
FlagsOK ==
    /\ running \in BOOLEAN /\ closing \in BOOLEAN /\ work \in BOOLEAN
    /\ stopped \in BOOLEAN /\ isOpen \in BOOLEAN /\ reopening \in BOOLEAN
    /\ attached \in BOOLEAN /\ clean \in BOOLEAN /\ paced \in BOOLEAN
    /\ error \in SerialErrors /\ bytesToWrite \in Int /\ session \in Nat

ThreadsOK ==
    /\ user \in UserPoints /\ worker \in WorkerPoints
    /\ starting \in 0..MaxWrites /\ posting \in [Threads -> 0..MaxWrites]

BytesOK ==
    /\ readBuffer \in Seq(1..MaxRx) /\ readScratch \in Seq(1..MaxRx)
    /\ kernelIn \in Seq(1..MaxRx) /\ received \in Seq(1..MaxRx)
    /\ rxSent \in 0..MaxRx /\ rxBase \in 0..MaxRx /\ lost \subseteq 1..MaxRx
    /\ Len(readScratch) <= ScratchSize

HandlersOK ==
    /\ ready \in Seq(Handlers)
    /\ pendingReads \in Nat /\ pendingWrites \in Seq(1..MaxWrites)

RequestsOK ==
    /\ wsize \in Seq(1..MaxSize) /\ wsent \in Seq(0..MaxSize)
    /\ wresult \in Seq({"open", "written", "failed"})
    /\ Len(wsize) <= MaxWrites
    /\ Len(wsent) = Len(wsize) /\ Len(wresult) = Len(wsize)
    /\ writeBase \in 0..MaxWrites /\ wire \in Seq(1..MaxWrites)

\* Every variable has its type; in particular a read never puts more than
\* ScratchSize bytes in readScratch_ (doRead passes asio::buffer(readScratch_)).
TypeOK == FlagsOK /\ ThreadsOK /\ BytesOK /\ HandlersOK /\ RequestsOK

\* As long as no close() has left handlers in the queue (clean), the error
\* callback is called only for a device that is gone: never for the operations
\* close() itself cancels (the tests of running_ and closing_ in the handlers).
SpuriousError == worker \in {"onReadError", "onWriteError"} /\ attached
NoSpuriousError == clean => ~SpuriousError

\* The same without the condition, as the comments in the two handlers say it.
NeverSpuriousError == ~SpuriousError

\* A read is outstanding, on whichever thread, while it is being started, waits,
\* is completed and queued, or is in its handler.  There is at most one, as they
\* share readScratch_; and where close() has left a completion that starts a
\* second read loop in the next session, still at most one for each opening.
QueuedReads == {i \in DOMAIN ready : ready[i].kind = "read"}
ReadsOutstanding ==
    (IF user \in {"startRead", "asyncRead"} THEN 1 ELSE 0)
    + pendingReads + Cardinality(QueuedReads)
    + (IF worker \in {"onReadyRead", "doRead", "asyncRead"} THEN 1 ELSE 0)
SingleReadLoop ==
    /\ ReadsOutstanding <= session
    /\ clean => ReadsOutstanding <= 1

\* Bytes reach read() in the order the device sent them, none twice, and none
\* missing but those a clear(), a close() or the unplugging dropped.
CompletedReads == {i \in DOMAIN ready : ready[i].kind = "read" /\ ready[i].ok}
InScratch == IF CompletedReads = {} THEN <<>>
             ELSE SubSeq(readScratch, 1, ready[CHOOSE i \in CompletedReads : TRUE].bytes)
Buffered == readBuffer \o InScratch \o kernelIn
Stream == received \o Buffered
StreamIntegrity ==
    clean => /\ \A i, j \in DOMAIN Stream : i < j => Stream[i] < Stream[j]
             /\ Range(Stream) = (1..rxSent) \ lost

\* bytesToWrite() is the size of the writes whose outcome is not known yet,
\* whatever the interleaving of write() with the handlers.
OpenBytes == {p \in OpenWrites \X (1..MaxSize) : p[2] <= wsize[p[1]]}
ByteAccounting == clean => bytesToWrite = Cardinality(OpenBytes)

\* In every session, clean or not: a write without an outcome is in exactly one
\* place from which its handler will still run, one with an outcome in none.
Queued(w) == {i \in DOMAIN ready : ready[i].kind # "read" /\ ready[i].write = w}
Waiting(w) == {i \in DOMAIN pendingWrites : pendingWrites[i] = w}
Counting(w) == {t \in Threads : posting[t] = w}
Carriers(w) == Cardinality(Queued(w)) + Cardinality(Waiting(w)) + Cardinality(Counting(w))
                 + (IF starting = w THEN 1 ELSE 0)
NoLostWrite == \A w \in DOMAIN wresult : Carriers(w) = (IF w \in OpenWrites THEN 1 ELSE 0)

\* As long as no close() has left a handler in the queue, nothing of an earlier
\* session is anywhere in a later one: every byte in readBuffer_, in the scratch
\* buffer of a completed read and in the kernel was sent in this session, and
\* every write that has no outcome yet, or that a thread, the queue or the
\* reactor still carries, was made in it.
SessionIsolation ==
    clean => /\ \A b \in Range(Buffered) : b > rxBase
             /\ \A w \in DOMAIN wresult :
                    w \in OpenWrites \/ Carriers(w) > 0 => w > writeBase

\* A write reported by onBytesWritten has been taken by the kernel in full, and no write is
\* there more than once.
OnWire(w) == Cardinality({i \in DOMAIN wire : wire[i] = w})
WrittenIsOnWire ==
    \A w \in DOMAIN wresult : /\ OnWire(w) <= wsize[w]
                              /\ wresult[w] = "written" => OnWire(w) = wsize[w]

\* The bytes of the writes go out in the order of the calls.  It takes a user
\* that waits for bytesToWrite() = 0 between writes.
WireInCallOrder == \A i, j \in DOMAIN wire : i < j => wire[i] <= wire[j]
PacedWireOrder == clean /\ paced => WireInCallOrder

\* Once close() is over, no thread of the backend runs, no operation waits in the
\* reactor and the buffers are empty ("joins the cps worker thread -> no more
\* callbacks after this", examples/qt_serial/serialcontroller.cpp:68).  Only the
\* queue may keep handlers, for the next session to run: exactly one for each
\* write without an outcome, none of any other write, and one read for each
\* opening at most.
CloseQuiesces ==
    ~isOpen /\ user \in {"idle", "openPort"} =>
        /\ worker = "none" /\ ~stopped
        /\ starting = 0 /\ posting = [t \in Threads |-> 0]
        /\ pendingReads = 0 /\ pendingWrites = <<>>
        /\ readBuffer = <<>> /\ bytesToWrite = 0
        /\ \A w \in DOMAIN wresult :
               Cardinality(Queued(w)) = (IF w \in OpenWrites THEN 1 ELSE 0)
        /\ Cardinality(QueuedReads) <= session

\* close() returns, also when the device takes no more bytes, and even when a
\* read was started just after its cancel().
CloseReturns == user \in ClosePoints ~> user \notin ClosePoints

\* A byte the device sent gets to readBuffer_, unless it is dropped.
DataArrives ==
    \A b \in 1..MaxRx :
        b \in Range(kernelIn) /\ clean
            ~> b \in Range(received \o readBuffer) \cup lost \/ user \in ClosePoints

\* With a device that drains, a write gets its outcome unless close() intervenes.
WriteSettles ==
    DeviceDrains =>
        \A w \in 1..MaxWrites :
            w \in OpenWrites /\ clean ~> w \notin OpenWrites \/ user \in ClosePoints

\* While the read loop runs, unplugging the device ends in the error callback,
\* unless close() intervenes.
UnplugReported ==
    clean /\ running /\ ~attached ~> worker = "onReadError" \/ user \in ClosePoints

-----------------------------------------------------------------------------
(***************************************************************************)
(* The inductive invariant behind these properties.                         *)
(***************************************************************************)

\* Every reference to a write is to one that exists, and a completed read
\* speaks of bytes readScratch_ has.
HandlerRefers(h) ==
    /\ h.kind # "read" => h.write \in 1..Len(wsize)
    /\ h.kind = "read" /\ h.ok => h.bytes <= Len(readScratch)

ReadyRefers == \A i \in 1..Len(ready) : HandlerRefers(ready[i])
PendingRefers == \A i \in 1..Len(pendingWrites) : pendingWrites[i] \in 1..Len(wsize)
ThreadsRefer ==
    /\ starting <= Len(wsize)
    /\ worker = "writeSome" <=> starting # 0
    /\ \A t \in Threads : posting[t] <= Len(wsize)
References == ReadyRefers /\ PendingRefers /\ ThreadsRefer

\* Where the threads can be, given the port and the flags.
Control ==
    /\ worker # "none" => isOpen
    /\ user = "openPort" => ~isOpen
    /\ user \in {"startRead", "asyncRead"} => isOpen
    /\ user \in ClosePoints => closing
    /\ user \in ClosePoints \ {"clearRunning"} => ~running
    /\ posting["user"] # 0 => user = "idle" /\ isOpen
    /\ posting["worker"] # 0 => worker \in Callbacks
    /\ stopped => user = "join"

\* A closed port has no device, nothing pending and empty buffers.
ClosedIsEmpty ==
    ~isOpen => /\ pendingReads = 0 /\ pendingWrites = <<>>
               /\ readBuffer = <<>> /\ bytesToWrite = 0
               /\ ~attached /\ kernelIn = <<>>

\* In a clean history a failed completion means that the device is gone, or
\* that close() has already set both flags the handlers test.
FailedQueued == \E i \in 1..Len(ready) : ~ready[i].ok
FailureExplained ==
    clean => /\ ~isOpen => ready = <<>>
             /\ FailedQueued => ~attached \/ (closing /\ ~running)
             /\ worker \in {"onReadError", "onWriteError"} => ~attached

CoreInv == TypeOK /\ References /\ Control /\ ClosedIsEmpty /\ FailureExplained

\* Behind the properties of the bytes received: every byte in the backend is
\* one of this session, also those that a queued completion says are at the
\* front of readScratch_, and only bytes that were sent are lost.
SessionBytes == clean => \A b \in Range(Buffered) : b > rxBase
BytesSent == rxBase <= rxSent /\ (clean => lost \subseteq 1..rxSent)
ReadInv == SingleReadLoop /\ StreamIntegrity /\ SessionBytes /\ BytesSent

\* Behind those of the bytes written: what is on the wire of a write is what
\* async_write has counted as sent, and a user that waits for bytesToWrite() = 0
\* has at most its last write open.
WireCounts ==
    /\ \A i \in DOMAIN wire : wire[i] <= Len(wsize)
    /\ \A w \in DOMAIN wresult :
         /\ OnWire(w) = wsent[w] /\ wsent[w] <= wsize[w]
         /\ wresult[w] = "written" => wsent[w] = wsize[w]
LastOpen == clean /\ paced => \A w \in OpenWrites : w = Len(wsize)
SessionWrites ==
    /\ writeBase <= Len(wsize)
    /\ clean => \A w \in OpenWrites : w > writeBase
WriteInv ==
    NoLostWrite /\ ByteAccounting /\ WireCounts /\ LastOpen /\ PacedWireOrder /\ SessionWrites

IInv == CoreInv /\ ReadInv /\ WriteInv
=============================================================================
