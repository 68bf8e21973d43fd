---------------------- MODULE AndroidBackendProperties ----------------------
(* What should hold of AndroidBackend.                                       *)
EXTENDS AndroidBackend

NativeOK ==
    /\ loaded \in BOOLEAN /\ registered \in BOOLEAN /\ isOpen \in BOOLEAN
    /\ error \in SerialErrors /\ readBuffer \in Seq(1..MaxRx)
JavaOK ==
    /\ entry \in 0..Len(io) /\ closing \in 0..Len(io)
    /\ io \in Seq(IoPoints) /\ held \in Seq(Seq(1..MaxRx))
    /\ Len(io) <= MaxSessions /\ Len(held) = Len(io)
    /\ stopping \subseteq Sessions /\ ports \subseteq Sessions
UserOK == user \in {"idle"} \cup OpenPoints \cup ClosePoints
PermitOK ==
    /\ permitted \in BOOLEAN /\ granted \in BOOLEAN /\ onMain \in BOOLEAN
    /\ dialogs \in 0..MaxDialogs /\ asked \in 0..MaxDialogs /\ dialogs <= asked
    /\ broadcasts \in Seq(BOOLEAN)
DeviceOK ==
    /\ attached \in BOOLEAN /\ rxSent \in 0..MaxRx /\ kernelIn \in Seq(1..MaxRx)
    /\ received \in Seq(1..MaxRx) /\ clean \in BOOLEAN
    /\ dropped \subseteq 1..MaxRx /\ lost \subseteq 1..MaxRx

\* Every variable has its type.
TypeOK == NativeOK /\ JavaOK /\ UserOK /\ PermitOK /\ DeviceOK

\* Bytes reach read() in the order the device sent them, none twice and none
\* missing but those dropped or lost, as long as no two io threads of this
\* handle live at once (clean); what is read and not delivered is then with the
\* newest.  The push in handleData() and the pop in read() are in different
\* threads.
Undelivered == IF io = <<>> THEN <<>> ELSE held[Len(io)]
Stream == received \o readBuffer \o Undelivered \o kernelIn
Gone == dropped \cup lost
StreamIntegrity ==
    clean => /\ \A s \in Sessions : s # Len(io) => held[s] = <<>>
             /\ \A i, j \in DOMAIN Stream : i < j => Stream[i] < Stream[j]
             /\ Range(Stream) = (1..rxSent) \ Gone

\* While isOpen() is true the object can be found by the io thread's callbacks,
\* and write() finds an open Java port in sOpen: open() sets open_ last, close()
\* clears it first.
OpenIsBacked == isOpen => registered /\ entry \in ports

\* Every Java port that is open has somebody to close it: it is the one sOpen
\* has, or the one open() is about to put there, or close() is closing.  Only a
\* setParameters() that fails leaves one that nobody can close, an open() on an
\* open port makes sOpen forget one, and so does an open() after a close() that
\* did not reach Java.  The newest port is owned in any history.
OpenPortsAreOwned ==
    \A s \in ports :
        \/ io[s] = "leaked" \/ s \in {entry, closing}
        \/ s = Len(io) /\ user \in {"ioStart", "put"}
        \/ s # Len(io) /\ ~clean

\* No byte is dropped while the port stays open: what the io thread reads is
\* handed to this object, whatever else happens, a second open() included.
NoDropWhileOpen == [][isOpen /\ isOpen' => dropped' = dropped]_vars

\* The error callback means that the device is gone, and not that close() has
\* closed the port under a waiting read: close() unregisters first.
ErrorIsReal == clean /\ (\E s \in Sessions : io[s] = "onError") => ~attached

\* open() goes on to the device only when the user has permitted it, whichever
\* request an answer that comes late was meant for.
OpensWithPermission == user = "openDevice" /\ attached => permitted

(***************************************************************************)
(* The inductive invariant: behind OpenIsBacked, OpenPortsAreOwned,         *)
(* NoDropWhileOpen, OpensWithPermission and ErrorIsReal, and behind         *)
(* StreamIntegrity.                                                         *)
(***************************************************************************)

\* What the user thread's place says of the port; where an object can be found
\* by callbacks, the newest Java port is open.
Control ==
    /\ user \in {"ioStart", "put", "register", "setOpen"} => Len(io) \in ports
    /\ user \in {"register", "setOpen"} => entry = Len(io)
    /\ user = "setOpen" => registered
    /\ user \in ClosePoints => ~isOpen
    /\ user = "ioStop" => closing # 0
    /\ closing # 0 => user \in {"ioStop", "portClose"}
    /\ user \in ClosePoints \ {"unregister"} => ~registered
    /\ registered => Len(io) \in ports

\* Behind OpenPortsAreOwned: in a clean history sOpen has nothing of a closed
\* port for the next open() to forget.
EntryWhenOpen ==
    clean => /\ user \in {"ioStart", "put", "register", "setOpen"} => ~isOpen
             /\ ~isOpen /\ user \notin {"register", "setOpen", "unregister", "remove"}
                  => entry = 0

\* An answer that says yes, on the way or received, has been given.
AnswersAreGiven ==
    /\ granted /\ attached => permitted
    /\ \A i \in DOMAIN broadcasts : broadcasts[i] /\ attached => permitted

\* In a clean history only the newest session has a living thread, and a read
\* fails because the device is gone or close() has closed the port.
FailureExplained ==
    clean => \A s \in Sessions :
                /\ s # Len(io) => io[s] \in {"done", "leaked"}
                /\ io[s] = "failed" /\ attached => s \notin ports
                /\ io[s] = "onError" => ~attached

\* Behind StreamIntegrity: an io thread holds bytes only between its read and
\* handleData(), a thread to be started none; only bytes that were sent are gone.
DataHeld ==
    /\ user = "ioStart" => io[Len(io)] = "new"
    /\ \A s \in Sessions : held[s] # <<>> => io[s] \in {"data", "found"}
SentBeforeGone == clean => Gone \subseteq 1..rxSent

\* Between its steps the code keeps all of this, whatever the interleaving of
\* open(), close(), the io threads and the permission dialogs.
BackedInv == /\ TypeOK /\ Control /\ OpenIsBacked /\ AnswersAreGiven
             /\ OpensWithPermission /\ FailureExplained
             /\ EntryWhenOpen /\ OpenPortsAreOwned
StreamInv == StreamIntegrity /\ DataHeld /\ SentBeforeGone
AndroidInv == BackedInv /\ StreamInv

\* After close() no callback runs in the object and none is on the way to it.
\* This is what serialcontroller.cpp counts on when it closes the port.
Closed == user = "idle" /\ ~isOpen
QuietAfterClose ==
    Closed => \A s \in Sessions : io[s] \notin {"found"} \cup InCallback

\* open() returns, also when the dialog is never answered, or cannot be heard
\* because open() blocks the main thread.
OpenReturns == user \in OpenPoints ~> user = "idle"

\* The io thread of a port that close() has stopped ends, although it may be
\* waiting for bytes that never come.
ThreadEnds == \A s \in 1..MaxSessions : s \in stopping ~> s \in Sessions /\ io[s] = "done"

\* A byte the device has sent reaches the buffer, whoever else runs, as long as
\* the port is open.
DataArrives ==
    \A b \in 1..MaxRx :
        isOpen /\ b \in Range(kernelIn)
            ~> b \in Range(received \o readBuffer) \cup lost \/ ~isOpen \/ ~clean
=============================================================================
