----------------------------- MODULE SerialPort -----------------------------
(***************************************************************************)
(* A SerialPort as the programs that use it see it (src/SerialPort.cpp): the *)
(* callbacks its Impl holds, the backend it owns, and a worker thread for    *)
(* each opening.  The backend is the one AsioBackend and AndroidBackend      *)
(* detail, without what a close() may leave to the next session (SerialLink).*)
(* Bytes are counted; QtController and Consumers are the programs.           *)
(***************************************************************************)
EXTENDS Integers

CONSTANTS
    MaxSessions,  \* bound: openings of the port
    MaxRx,        \* bound: bytes the device sends
    ChunkSize     \* the most one read of the worker takes (4096 in the code)

ASSUME PortAssumption == MaxSessions \in Nat \ {0} /\ MaxRx \in Nat /\ ChunkSize \in Nat \ {0}

VARIABLES
    program, platform,  \* which program runs where: never changes
    cbs,       \* Impl::cbs: "none", "set" or "dead" (destroyed)
    isOpen, session, buffered,       \* the backend: session counts the openings
    worker,    \* where the worker thread of each session is
    sent, incoming, attached         \* the device, and the bytes it sent not read yet

portVars == <<program, platform, cbs, isOpen, session, buffered, worker, sent, incoming, attached>>

Programs == {"qt", "cabi", "go", "c", "list"}
Platforms == {"posix", "windows", "android"}
Sessions == 1..MaxSessions
Callbacks == {"onReadyRead", "onError"}
WorkerPoints == {"none", "run", "ended"} \cup Callbacks

\* The callbacks a program sets: Go and C leave onError out.
HasOnError == program \in {"qt", "cabi"}

PortInit ==
    /\ isOpen = FALSE /\ session = 0 /\ buffered = 0
    /\ worker = [s \in Sessions |-> "none"]
    /\ sent = 0 /\ incoming = 0 /\ attached = FALSE

SetCallbacks == cbs' = "set"

\* The desktop's close() joins the worker, Android's does not wait.
Joined == \A s \in Sessions : worker[s] \notin Callbacks
Join == IF platform = "android" THEN UNCHANGED worker
        ELSE Joined /\ worker' = [s \in Sessions |-> IF worker[s] = "run" THEN "ended" ELSE worker[s]]

ClosePort ==
    /\ Join
    /\ isOpen' = FALSE /\ attached' = FALSE /\ buffered' = 0 /\ incoming' = 0
    /\ UNCHANGED <<program, platform, cbs, session, sent>>

\* The desktop's open() closes an open port first; Android's does not.
MustClose == isOpen /\ platform # "android"

OpenSucceeds ==
    /\ ~MustClose /\ session < MaxSessions
    /\ isOpen' = TRUE /\ session' = session + 1 /\ attached' = TRUE /\ incoming' = 0
    /\ worker' = [worker EXCEPT ![session + 1] = "run"]
    /\ UNCHANGED <<program, platform, cbs, buffered, sent>>

OpenFails == ~MustClose /\ UNCHANGED portVars

\* ~Impl: cbs is destroyed first, backend (whose destructor closes) last.
DestroyCallbacks ==
    /\ cbs' = "dead"
    /\ UNCHANGED <<program, platform, isOpen, session, buffered, worker, sent, incoming, attached>>

\* read() on whichever thread: what is there, up to max.
Pop(max) == buffered' = IF buffered < max THEN 0 ELSE buffered - max

-----------------------------------------------------------------------------
\* The worker pushes a chunk and calls onReadyRead if there is one (wire()).
\* What the call of a destroyed callback does is not modelled.
WorkerReads(s) ==
    /\ worker[s] = "run" /\ isOpen /\ s = session /\ attached
    /\ \E n \in 1..ChunkSize :
         /\ n <= incoming
         /\ incoming' = incoming - n /\ buffered' = buffered + n
    /\ worker' = [worker EXCEPT ![s] = IF cbs = "set" THEN "onReadyRead" ELSE "run"]
    /\ UNCHANGED <<program, platform, cbs, isOpen, session, sent, attached>>

\* A read fails: the device is gone, or, on Android, a newer session has
\* claimed it.  That ends the read loop, after onError if there is one.
WorkerFails(s) ==
    /\ worker[s] = "run" /\ isOpen /\ (~attached \/ s # session)
    /\ worker' = [worker EXCEPT ![s] = IF cbs = "set" /\ HasOnError THEN "onError" ELSE "ended"]
    /\ UNCHANGED <<program, platform, cbs, isOpen, session, buffered, sent, incoming, attached>>

\* Android: the io thread of a closed port ends without a word.
WorkerEnds(s) ==
    /\ worker[s] = "run" /\ ~isOpen
    /\ worker' = [worker EXCEPT ![s] = "ended"]
    /\ UNCHANGED <<program, platform, cbs, isOpen, session, buffered, sent, incoming, attached>>

CallbackReturns(s) ==
    worker' = [worker EXCEPT ![s] = IF worker[s] = "onReadyRead" THEN "run" ELSE "ended"]

DeviceSends ==
    /\ isOpen /\ attached /\ sent < MaxRx
    /\ sent' = sent + 1 /\ incoming' = incoming + 1
    /\ UNCHANGED <<program, platform, cbs, isOpen, session, buffered, worker, attached>>

DeviceUnplugged ==
    /\ isOpen /\ attached
    /\ attached' = FALSE /\ incoming' = 0
    /\ UNCHANGED <<program, platform, cbs, isOpen, session, buffered, worker, sent>>

WorkerStep(s) == WorkerReads(s) \/ WorkerFails(s) \/ WorkerEnds(s)
PortStep == (\E s \in Sessions : WorkerStep(s)) \/ DeviceSends \/ DeviceUnplugged
=============================================================================
