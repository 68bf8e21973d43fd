--------------------------- MODULE AndroidBackend ---------------------------
(***************************************************************************)
(* The Android backend: src/detail/AndroidBackend.cpp, its Java helper      *)
(* CpsUsbSerial, and what they use of usb-serial-for-android (an io thread  *)
(* per open port) and of Android (permission dialog, broadcast).            *)
(*                                                                          *)
(* One backend object, one user thread.  A session is a Java port that has  *)
(* been opened; sessions are numbered, as are the bytes the device sends.   *)
(* The handle of all sessions is the same: the address of the object.       *)
(***************************************************************************)
EXTENDS Integers, Sequences, FiniteSets, Functions

CONSTANTS
    MaxSessions,  \* bound: Java ports opened
    MaxRx,        \* bound: bytes the device sends
    MaxDialogs,   \* bound: permission dialogs asked for
    ReadSizes     \* the values of max the user passes to read()

ASSUME BoundsAssumption == MaxSessions \in Nat /\ MaxRx \in Nat /\ MaxDialogs \in Nat
ASSUME ReadSizesAssumption == ReadSizes \subseteq Nat \ {0}

VARIABLES
    \* native: g_bridgeClass is loaded; this object is in registry(); members
    loaded, registered, isOpen, error, readBuffer,
    \* Java: sOpen.get(handle), the session of its Entry or 0
    entry,
    \* per session: where its io thread is, the bytes it has read and not yet
    \* delivered; the sessions whose manager was stopped, and whose port is open
    io, held, stopping, ports,
    \* the user thread, and the session close() has taken out of sOpen
    user, closing,
    \* permission: UsbManager's, dialogs not yet answered, their answers on the
    \* way, requestPermission()'s granted[0], whether it runs on the main thread
    permitted, dialogs, asked, broadcasts, granted, onMain,
    \* the device
    attached, kernelIn, rxSent,
    \* history: bytes read(), dropped by a callback that found no backend, and
    \* lost to clear(), close() or the unplugging; clean: every Java port
    \* was opened when isOpen() was false and the io threads before had ended,
    \* and every close() has reached Java
    received, dropped, lost, clean

nativeVars  == <<loaded, registered, isOpen, error, readBuffer>>
javaVars    == <<entry, io, held, stopping, ports>>
userVars    == <<user, closing>>
permitVars  == <<permitted, dialogs, asked, broadcasts, granted, onMain>>
deviceVars  == <<attached, kernelIn, rxSent>>
historyVars == <<received, dropped, lost, clean>>
vars == <<nativeVars, javaVars, userVars, permitVars, deviceVars, historyVars>>

OpenPoints  == {"permission", "openDevice", "ioStart", "put", "register", "setOpen"}
ClosePoints == {"unregister", "remove", "ioStop", "portClose", "clearBuffer"}
IoPoints == {"new", "leaked", "run", "reading", "data", "found", "onReadyRead",
             "failed", "onError", "done"}
InCallback == {"onReadyRead", "onError"}
SerialErrors == {"NoError", "OpenError", "WriteError", "UnsupportedOperationError",
                 "UnknownError", "NotOpenError"}
Sessions == DOMAIN io

Init ==
    /\ loaded = FALSE /\ registered = FALSE /\ isOpen = FALSE
    /\ error = "NoError" /\ readBuffer = <<>>
    /\ entry = 0 /\ io = <<>> /\ held = <<>> /\ stopping = {} /\ ports = {}
    /\ user = "idle" /\ closing = 0
    /\ permitted = FALSE /\ dialogs = 0 /\ asked = 0 /\ broadcasts = <<>>
    /\ granted = FALSE /\ onMain = FALSE
    /\ attached = TRUE /\ kernelIn = <<>> /\ rxSent = 0
    /\ received = <<>> /\ dropped = {} /\ lost = {} /\ clean = TRUE

-----------------------------------------------------------------------------
(***************************************************************************)
(* androidInit(): loadBridge() loads the Java class once.  Where it fails   *)
(* it changes nothing.                                                      *)
(***************************************************************************)
AndroidInit ==
    /\ user = "idle" /\ ~loaded
    /\ loaded' = TRUE
    /\ UNCHANGED <<registered, isOpen, error, readBuffer, javaVars, userVars, permitVars,
                   deviceVars, historyVars>>

(***************************************************************************)
(* open().  A failure leaves all but error_ as it is, on an open port too.  *)
(***************************************************************************)
FailOpen(e) == error' = e /\ user' = "idle"

\* No bridge; or the thread cannot be attached, or there is no such driver.
OpenRefused ==
    /\ user = "idle"
    /\ \/ ~loaded /\ FailOpen("UnsupportedOperationError")
       \/ loaded /\ FailOpen("UnknownError")
       \/ loaded /\ FailOpen("OpenError")
    /\ UNCHANGED <<loaded, registered, isOpen, readBuffer, javaVars, closing, permitVars,
                   deviceVars, historyVars>>

OpenPermitted ==
    /\ user = "idle" /\ loaded /\ attached /\ permitted
    /\ user' = "openDevice"
    /\ UNCHANGED <<nativeVars, javaVars, closing, permitVars, deviceVars, historyVars>>

\* requestPermission() up to latch.await(): a fresh receiver, a dialog.
RequestPermission ==
    /\ user = "idle" /\ loaded /\ attached /\ ~permitted /\ asked < MaxDialogs
    /\ dialogs' = dialogs + 1 /\ asked' = asked + 1
    /\ granted' = FALSE /\ onMain' \in BOOLEAN
    /\ user' = "permission"
    /\ UNCHANGED <<nativeVars, javaVars, closing, permitted, broadcasts, deviceVars,
                   historyVars>>

\* Android shows one dialog per request and broadcasts the answer.
UserAnswers ==
    /\ dialogs > 0
    /\ dialogs' = dialogs - 1
    /\ \E yes \in BOOLEAN :
         /\ permitted' = (permitted \/ (yes /\ attached))
         /\ broadcasts' = Append(broadcasts, yes)
    /\ UNCHANGED <<nativeVars, javaVars, userVars, asked, granted, onMain, deviceVars,
                   historyVars>>

\* onReceive() runs on the main thread, unless open() blocks that; an answer
\* that finds no receiver is gone, one to an earlier request counts for this.
Received(yes) == IF user = "permission" THEN yes ELSE granted
BroadcastArrives ==
    /\ broadcasts # <<>> /\ ~onMain
    /\ broadcasts' = Tail(broadcasts)
    /\ granted' = Received(Head(broadcasts))
    /\ UNCHANGED <<nativeVars, javaVars, userVars, permitted, dialogs, asked, onMain,
                   deviceVars, historyVars>>

\* Mutant: the wait goes on until it is granted.
PermissionAwaited == IF granted THEN user' = "openDevice" /\ UNCHANGED error
                                ELSE UNCHANGED <<user, error>>
PermissionOutcome == IF granted THEN user' = "openDevice" /\ UNCHANGED error
                                ELSE FailOpen("OpenError")
PermissionUnchanged ==
    UNCHANGED <<loaded, registered, isOpen, readBuffer, javaVars, closing, permitted, dialogs,
                asked, broadcasts, granted, deviceVars, historyVars>>

\* Mutant: the answer is not looked at.
PermissionAssumed ==
    /\ user = "permission" /\ onMain' = FALSE
    /\ user' = "openDevice" /\ UNCHANGED error
    /\ PermissionUnchanged

\* latch.await() has its answer, or 30 seconds are over.
PermissionReturns ==
    /\ user = "permission" /\ onMain' = FALSE
    /\ PermissionOutcome
    /\ PermissionUnchanged

StillClean == clean /\ ~isOpen /\ \A s \in Sessions : io[s] \in {"done", "leaked"}

\* openDevice(), port.open() or setParameters() fails; the last leaves a port
\* open that nothing refers to.
OpenDeviceFails ==
    /\ user = "openDevice" /\ FailOpen("OpenError")
    /\ \/ UNCHANGED <<io, held, ports, clean>>
       \/ /\ attached /\ permitted /\ Len(io) < MaxSessions
          /\ clean' = StillClean
          /\ io' = Append(io, "leaked") /\ held' = Append(held, <<>>)
          /\ ports' = ports \cup {Len(io) + 1}
    /\ UNCHANGED <<loaded, registered, isOpen, readBuffer, entry, stopping, closing,
                   permitVars, deviceVars, received, dropped, lost>>

OpenDevice ==
    /\ user = "openDevice" /\ attached /\ permitted /\ Len(io) < MaxSessions
    /\ clean' = StillClean
    /\ io' = Append(io, "new") /\ held' = Append(held, <<>>)
    /\ ports' = ports \cup {Len(io) + 1}
    /\ user' = "ioStart"
    /\ UNCHANGED <<nativeVars, entry, stopping, closing, permitVars, deviceVars, received,
                   dropped, lost>>

\* Mutant: the manager is made and not started.
IoNotStarted ==
    /\ user = "ioStart" /\ user' = "put"
    /\ UNCHANGED <<nativeVars, javaVars, closing, permitVars, deviceVars, historyVars>>

\* e.io.start(): the io thread runs before anyone can find the port or the object.
IoStart ==
    /\ user = "ioStart"
    /\ io' = [io EXCEPT ![Len(io)] = "run"]
    /\ user' = "put"
    /\ UNCHANGED <<nativeVars, entry, held, stopping, ports, closing, permitVars, deviceVars,
                   historyVars>>

\* Mutant: putIfAbsent.
PutIfAbsent ==
    /\ user = "put"
    /\ entry' = IF entry = 0 THEN Len(io) ELSE entry
    /\ user' = "register"
    /\ UNCHANGED <<nativeVars, io, held, stopping, ports, closing, permitVars, deviceVars,
                   historyVars>>

\* sOpen.put(handle, e): on an open port the Entry before is forgotten.
Put ==
    /\ user = "put"
    /\ entry' = Len(io)
    /\ user' = "register"
    /\ UNCHANGED <<nativeVars, io, held, stopping, ports, closing, permitVars, deviceVars,
                   historyVars>>

\* Mutant: open_ is stored before registerHandle().
RegisterLate ==
    /\ user = "register"
    /\ isOpen' = TRUE
    /\ user' = "setOpen"
    /\ UNCHANGED <<loaded, registered, error, readBuffer, javaVars, closing, permitVars,
                   deviceVars, historyVars>>

Register ==
    /\ user = "register"
    /\ registered' = TRUE
    /\ user' = "setOpen"
    /\ UNCHANGED <<loaded, isOpen, error, readBuffer, javaVars, closing, permitVars,
                   deviceVars, historyVars>>

SetOpen ==
    /\ user = "setOpen"
    /\ isOpen' = TRUE /\ error' = "NoError"
    /\ user' = "idle"
    /\ UNCHANGED <<loaded, registered, readBuffer, javaVars, closing, permitVars, deviceVars,
                   historyVars>>

-----------------------------------------------------------------------------
(***************************************************************************)
(* close(): nothing waits for the io thread.                                *)
(***************************************************************************)

\* Mutant: open_ is left set.
CloseCallLate ==
    /\ user = "idle" /\ isOpen
    /\ user' = "unregister"
    /\ UNCHANGED <<nativeVars, javaVars, closing, permitVars, deviceVars, historyVars>>

CloseCall ==
    /\ user = "idle" /\ isOpen
    /\ isOpen' = FALSE
    /\ user' = "unregister"
    /\ UNCHANGED <<loaded, registered, error, readBuffer, javaVars, closing, permitVars,
                   deviceVars, historyVars>>

\* Mutant: unregisterHandle() is missing.
StayRegistered ==
    /\ user = "unregister" /\ user' = "remove"
    /\ UNCHANGED <<nativeVars, javaVars, closing, permitVars, deviceVars, historyVars>>

Unregister ==
    /\ user = "unregister"
    /\ registered' = FALSE
    /\ user' = "remove"
    /\ UNCHANGED <<loaded, isOpen, error, readBuffer, javaVars, closing, permitVars,
                   deviceVars, historyVars>>

\* The thread of close() cannot be attached: Java is not told, and goes on.
CloseUnattached ==
    /\ user = "unregister"
    /\ registered' = FALSE /\ clean' = FALSE
    /\ user' = "clearBuffer"
    /\ UNCHANGED <<loaded, isOpen, error, readBuffer, javaVars, closing, permitVars,
                   deviceVars, received, dropped, lost>>

Remove ==
    /\ user = "remove"
    /\ closing' = entry /\ entry' = 0
    /\ user' = IF entry = 0 THEN "clearBuffer" ELSE "ioStop"
    /\ UNCHANGED <<nativeVars, io, held, stopping, ports, permitVars, deviceVars, historyVars>>

IoStop ==
    /\ user = "ioStop"
    /\ stopping' = stopping \cup {closing}
    /\ user' = "portClose"
    /\ UNCHANGED <<nativeVars, entry, io, held, ports, closing, permitVars, deviceVars,
                   historyVars>>

\* Mutant: the port is left open, and a read that waits goes on waiting.
PortStaysOpen ==
    /\ user = "portClose" /\ user' = "clearBuffer" /\ closing' = 0
    /\ UNCHANGED <<nativeVars, javaVars, permitVars, deviceVars, historyVars>>

PortClose ==
    /\ user = "portClose"
    /\ ports' = ports \ {closing} /\ closing' = 0
    /\ user' = "clearBuffer"
    /\ UNCHANGED <<nativeVars, entry, io, held, stopping, permitVars, deviceVars, historyVars>>

DropBuffer == readBuffer' = <<>> /\ lost' = lost \cup Range(readBuffer)

CloseClearBuffer ==
    /\ user = "clearBuffer"
    /\ DropBuffer
    /\ user' = "idle"
    /\ UNCHANGED <<loaded, registered, isOpen, error, javaVars, closing, permitVars,
                   deviceVars, received, dropped, clean>>

-----------------------------------------------------------------------------
(***************************************************************************)
(* read(), clear(), write(), clearError(): by the user thread between its   *)
(* calls, or from a callback on an io thread.  What write() sends is not    *)
(* modelled.                                                                *)
(***************************************************************************)
MayCall == user = "idle" \/ \E s \in Sessions : io[s] \in InCallback

ReadCall ==
    /\ MayCall /\ readBuffer # <<>>
    /\ \E max \in ReadSizes :
         LET n == IF Len(readBuffer) < max THEN Len(readBuffer) ELSE max
         IN /\ received' = received \o SubSeq(readBuffer, 1, n)
            /\ readBuffer' = SubSeq(readBuffer, n + 1, Len(readBuffer))
    /\ UNCHANGED <<loaded, registered, isOpen, error, javaVars, userVars, permitVars,
                   deviceVars, dropped, lost, clean>>

Clear ==
    /\ MayCall /\ readBuffer # <<>>
    /\ DropBuffer
    /\ UNCHANGED <<loaded, registered, isOpen, error, javaVars, userVars, permitVars,
                   deviceVars, received, dropped, clean>>

\* What write() can record: the port is not open; the bridge is not loaded; the
\* thread cannot be attached; the call has left an exception.  One that Java
\* catches itself makes write() return -1 and records nothing.
WriteErrors ==
    CASE ~isOpen          -> {"NotOpenError"}
      [] isOpen /\ ~loaded -> {"UnsupportedOperationError"}
      [] isOpen /\ loaded  -> {"UnknownError", "WriteError"}

\* write() that fails, and clearError().
RecordError ==
    /\ MayCall
    /\ error' \in {"NoError"} \cup WriteErrors
    /\ UNCHANGED <<loaded, registered, isOpen, readBuffer, javaVars, userVars, permitVars,
                   deviceVars, historyVars>>

-----------------------------------------------------------------------------
(***************************************************************************)
(* The io thread of session s.                                              *)
(***************************************************************************)

\* The manager's loop looks at its state, then reads and waits.
IoLoops(s) ==
    /\ io[s] = "run"
    /\ io' = [io EXCEPT ![s] = IF s \in stopping THEN "done" ELSE "reading"]
    /\ UNCHANGED <<nativeVars, entry, held, stopping, ports, userVars, permitVars, deviceVars,
                   historyVars>>

IoReads(s) ==
    /\ io[s] = "reading" /\ s \in ports
    /\ \E n \in 1..Len(kernelIn) :
         /\ held' = [held EXCEPT ![s] = SubSeq(kernelIn, 1, n)]
         /\ kernelIn' = SubSeq(kernelIn, n + 1, Len(kernelIn))
    /\ io' = [io EXCEPT ![s] = "data"]
    /\ UNCHANGED <<nativeVars, entry, stopping, ports, userVars, permitVars, attached, rxSent,
                   historyVars>>

\* The port is closed or gone, or a newer session has taken the device.
IoFails(s) ==
    /\ io[s] = "reading" /\ (~attached \/ s \notin ports \/ s # Len(io))
    /\ io' = [io EXCEPT ![s] = "failed"]
    /\ UNCHANGED <<nativeVars, entry, held, stopping, ports, userVars, permitVars, deviceVars,
                   historyVars>>

\* cpsNativeOnRead(): findInstance(), whose mutex protects no more than itself.
OnRead(s) ==
    /\ io[s] = "data"
    /\ IF registered
         THEN io' = [io EXCEPT ![s] = "found"] /\ UNCHANGED <<held, dropped>>
         ELSE /\ io' = [io EXCEPT ![s] = "run"]
              /\ held' = [held EXCEPT ![s] = <<>>]
              /\ dropped' = dropped \cup Range(held[s])
    /\ UNCHANGED <<nativeVars, entry, stopping, ports, userVars, permitVars, deviceVars,
                   received, lost, clean>>

\* Mutant: the bytes go in front of what is already there.
HandleDataInFront(s) ==
    /\ io[s] = "found"
    /\ readBuffer' = held[s] \o readBuffer
    /\ held' = [held EXCEPT ![s] = <<>>]
    /\ io' = [io EXCEPT ![s] = "onReadyRead"]
    /\ UNCHANGED <<loaded, registered, isOpen, error, entry, stopping, ports, userVars,
                   permitVars, deviceVars, historyVars>>

HandleData(s) ==
    /\ io[s] = "found"
    /\ readBuffer' = readBuffer \o held[s]
    /\ held' = [held EXCEPT ![s] = <<>>]
    /\ io' = [io EXCEPT ![s] = "onReadyRead"]
    /\ UNCHANGED <<loaded, registered, isOpen, error, entry, stopping, ports, userVars,
                   permitVars, deviceVars, historyVars>>

\* cpsNativeOnError().
OnError(s) ==
    /\ io[s] = "failed"
    /\ io' = [io EXCEPT ![s] = IF registered THEN "onError" ELSE "done"]
    /\ UNCHANGED <<nativeVars, entry, held, stopping, ports, userVars, permitVars, deviceVars,
                   historyVars>>

\* After onError the manager's run() ends; after onReadyRead it goes on.
CallbackReturns(s) ==
    /\ io[s] \in InCallback
    /\ io' = [io EXCEPT ![s] = IF @ = "onError" THEN "done" ELSE "run"]
    /\ UNCHANGED <<nativeVars, entry, held, stopping, ports, userVars, permitVars, deviceVars,
                   historyVars>>

-----------------------------------------------------------------------------
\* The device sends to a port that is open, and may be unplugged: with it go
\* the bytes not read and the permission.
DeviceSends ==
    /\ attached /\ ports # {} /\ rxSent < MaxRx
    /\ rxSent' = rxSent + 1 /\ kernelIn' = Append(kernelIn, rxSent + 1)
    /\ UNCHANGED <<nativeVars, javaVars, userVars, permitVars, attached, historyVars>>

DeviceUnplugged ==
    /\ attached
    /\ attached' = FALSE /\ permitted' = FALSE
    /\ kernelIn' = <<>> /\ lost' = lost \cup Range(kernelIn)
    /\ UNCHANGED <<nativeVars, javaVars, userVars, dialogs, asked, broadcasts, granted, onMain,
                   rxSent, received, dropped, clean>>

OpenSteps == \/ PermissionReturns \/ OpenDeviceFails \/ OpenDevice
             \/ IoStart \/ Put \/ Register \/ SetOpen
CloseSteps == Unregister \/ CloseUnattached \/ Remove \/ IoStop \/ PortClose \/ CloseClearBuffer
Calls == \/ AndroidInit \/ OpenRefused \/ OpenPermitted \/ RequestPermission \/ CloseCall
         \/ ReadCall \/ Clear \/ RecordError
Io(s) == \/ IoLoops(s) \/ IoReads(s) \/ IoFails(s) \/ OnRead(s) \/ HandleData(s)
         \/ OnError(s) \/ CallbackReturns(s)
Environment == UserAnswers \/ BroadcastArrives \/ DeviceSends \/ DeviceUnplugged

Next == OpenSteps \/ CloseSteps \/ Calls \/ (\E s \in Sessions : Io(s)) \/ Environment
Spec == Init /\ [][Next]_vars

\* The threads are scheduled, callbacks return, the await is limited.  The one
\* who holds the telephone need not answer, and no call is owed.
Fairness ==
    /\ WF_vars(OpenSteps \/ CloseSteps)
    /\ \A s \in 1..MaxSessions : WF_vars(s \in Sessions /\ Io(s))
FairSpec == Spec /\ Fairness
=============================================================================
