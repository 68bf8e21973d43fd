---------------------------- MODULE QtController ----------------------------
(***************************************************************************)
(* The Qt terminals' controllers (examples/qt_serial/serialcontroller.cpp,   *)
(* examples/qt_serial_cabi/cabicontroller.cpp): the GUI thread with its      *)
(* event queue, the background thread connectPort() starts, the mutex        *)
(* openMx_, and the callbacks on the worker thread.  The two differ in what  *)
(* the read callback takes and in their destructors.                         *)
(*                                                                          *)
(* The user presses the one button of Main.qml: disconnectPort() when        *)
(* connected_ is set, else connectPort(), whose own test of connected_ is    *)
(* therefore never true.  Of send() only a write that fails is modelled;     *)
(* clear() is called by nobody.                                             *)
(***************************************************************************)
EXTENDS SerialPort, Sequences

CONSTANT CabiBufSize  \* bytes CabiController::handleReadyRead reads at a time

\* handleReadyRead() has room for the most one read of the worker takes: both
\* are 4096 bytes in the code.
ASSUME CabiAssumption == CabiBufSize \in Nat \ {0} /\ ChunkSize <= CabiBufSize

VARIABLES
    gui,         \* where the GUI thread is
    quitting,    \* the destructor has been called
    connThread,  \* connectThread_: where it is; "none" is not joinable
    openMx,      \* owner of openMx_: "free", "gui" or "conn"
    queue,       \* lambdas queued to the GUI thread
    connected,   \* connected_
    failed,      \* the session whose error the GUI thread is handling, or 0
    connects,    \* bound by MaxSessions: calls of connectPort()
    \* history: no connectPort() was called with the result of an earlier one to
    \* come; sessions whose error was queued before connectPort()'s result
    orderly, early

qtVars == <<gui, quitting, connThread, openMx, queue, connected, failed, connects, orderly, early>>

GuiPoints == {"off", "idle", "c.join", "d.join", "d.lock", "d.close", "e.lock", "e.close",
              "q.join", "q.callbacks", "q.backend", "gone"}
ConnPoints == {"none", "lock", "open", "asking", "post", "postFailure", "done"}
Results == [kind : {"result"}, ok : BOOLEAN, session : {0}]
Errors == [kind : {"error"}, ok : {FALSE}, session : Sessions]
Result(ok) == [kind |-> "result", ok |-> ok, session |-> 0]
ErrorOf(s) == [kind |-> "error", ok |-> FALSE, session |-> s]

IsQt == program \in {"qt", "cabi"}

\* The constructors set the callbacks.
QtInit ==
    /\ gui = (IF IsQt THEN "idle" ELSE "off")
    /\ quitting = FALSE /\ connThread = "none" /\ openMx = "free" /\ queue = <<>>
    /\ connected = FALSE /\ failed = 0 /\ connects = 0 /\ orderly = TRUE /\ early = {}

ConnJoinable == connThread \in {"none", "done"}
ResultToCome == ~ConnJoinable \/ \E i \in 1..Len(queue) : queue[i].kind = "result"

-----------------------------------------------------------------------------
(***************************************************************************)
(* connectPort(), on the GUI thread, and the thread it starts.               *)
(***************************************************************************)
ConnectPort ==
    /\ gui = "idle" /\ ~connected /\ connects < MaxSessions
    /\ gui' = "c.join" /\ connects' = connects + 1
    /\ orderly' = (orderly /\ ~ResultToCome)
    /\ UNCHANGED <<portVars, quitting, connThread, openMx, queue, connected, failed, early>>

ConnectStart ==
    /\ gui = "c.join" /\ ConnJoinable
    /\ connThread' = "lock" /\ gui' = "idle"
    /\ UNCHANGED <<portVars, quitting, openMx, queue, connected, failed, connects, orderly, early>>

ConnLock ==
    /\ connThread = "lock" /\ openMx = "free"
    /\ openMx' = "conn" /\ connThread' = "open"
    /\ UNCHANGED <<portVars, gui, quitting, queue, connected, failed, connects, orderly, early>>

\* port_.open() on an open port starts with close().
ConnReopens ==
    /\ connThread = "open" /\ MustClose /\ ClosePort
    /\ UNCHANGED qtVars

\* Android without the permission: open() waits for the user's answer.
ConnAsks ==
    /\ connThread = "open" /\ platform = "android"
    /\ connThread' = "asking"
    /\ UNCHANGED <<portVars, gui, quitting, openMx, queue, connected, failed, connects, orderly, early>>

Opened(ok) ==
    /\ IF ok THEN OpenSucceeds ELSE OpenFails
    /\ connThread' = IF ok THEN "post" ELSE "postFailure"
    /\ UNCHANGED <<gui, quitting, openMx, queue, connected, failed, connects, orderly, early>>

ConnOpens == connThread = "open" /\ \E ok \in BOOLEAN : Opened(ok)

\* The answer is delivered by the Looper of the GUI thread, when that is idle.
AnswerArrives == connThread = "asking" /\ gui = "idle" /\ \E ok \in BOOLEAN : Opened(ok)

\* Mutant: open() waits for the answer without limit.
AnswerAwaited == FALSE /\ UNCHANGED <<portVars, qtVars>>

\* After 30 s open() gives up.
AnswerTimesOut == connThread = "asking" /\ Opened(FALSE)

ConnPosts ==
    /\ connThread \in {"post", "postFailure"}
    /\ queue' = Append(queue, Result(connThread = "post"))
    /\ openMx' = "free" /\ connThread' = "done"
    /\ UNCHANGED <<portVars, gui, quitting, connected, failed, connects, orderly, early>>

-----------------------------------------------------------------------------
(***************************************************************************)
(* disconnectPort()                                                         *)
(***************************************************************************)
DisconnectPort ==
    /\ gui = "idle" /\ connected
    /\ gui' = "d.join"
    /\ UNCHANGED <<portVars, quitting, connThread, openMx, queue, connected, failed, connects,
                   orderly, early>>

AfterDisconnect == IF quitting THEN "q.join" ELSE "idle"

DisconnectJoin ==
    /\ gui = "d.join" /\ ConnJoinable
    /\ connThread' = "none" /\ gui' = "d.lock"
    /\ UNCHANGED <<portVars, quitting, openMx, queue, connected, failed, connects, orderly, early>>

DisconnectLock ==
    /\ gui = "d.lock" /\ openMx = "free"
    /\ IF connected THEN gui' = "d.close" /\ openMx' = "gui"
                    ELSE gui' = AfterDisconnect /\ UNCHANGED openMx
    /\ UNCHANGED <<portVars, quitting, connThread, queue, connected, failed, connects, orderly,
                   early>>

DisconnectClose ==
    /\ gui = "d.close" /\ ClosePort
    /\ connected' = FALSE /\ openMx' = "free" /\ gui' = AfterDisconnect
    /\ UNCHANGED <<quitting, connThread, queue, failed, connects, orderly, early>>

-----------------------------------------------------------------------------
(***************************************************************************)
(* The lambdas queued to the GUI thread.                                     *)
(***************************************************************************)
HandleResult ==
    /\ gui = "idle" /\ queue # <<>> /\ Head(queue).kind = "result"
    /\ connected' = (connected \/ Head(queue).ok)
    /\ queue' = Tail(queue)
    /\ UNCHANGED <<portVars, gui, quitting, connThread, openMx, failed, connects, orderly, early>>

HandleError ==
    /\ gui = "idle" /\ queue # <<>> /\ Head(queue).kind = "error"
    /\ failed' = Head(queue).session /\ gui' = "e.lock"
    /\ queue' = Tail(queue)
    /\ UNCHANGED <<portVars, quitting, connThread, openMx, connected, connects, orderly, early>>

\* Mutant: the error lambda does not take the mutex.
ErrorUnlocked == TRUE

ErrorMayLock == openMx = "free"

ErrorLock ==
    /\ gui = "e.lock" /\ ErrorMayLock
    /\ IF connected THEN gui' = "e.close" /\ openMx' = "gui" /\ UNCHANGED failed
                    ELSE gui' = "idle" /\ failed' = 0 /\ UNCHANGED openMx
    /\ UNCHANGED <<portVars, quitting, connThread, queue, connected, connects, orderly, early>>

\* Mutant: the error lambda leaves connected_ set.
ErrorCloseOnly ==
    /\ gui = "e.close" /\ ClosePort
    /\ openMx' = "free" /\ gui' = "idle" /\ failed' = 0
    /\ UNCHANGED <<quitting, connThread, queue, connected, connects, orderly, early>>

\* Mutant: the error lambda only clears connected_.
ErrorForgets ==
    /\ gui = "e.close"
    /\ connected' = FALSE /\ openMx' = "free" /\ gui' = "idle" /\ failed' = 0
    /\ UNCHANGED <<portVars, quitting, connThread, queue, connects, orderly, early>>

ErrorClose ==
    /\ gui = "e.close" /\ ClosePort
    /\ connected' = FALSE /\ openMx' = "free" /\ gui' = "idle" /\ failed' = 0
    /\ UNCHANGED <<quitting, connThread, queue, connects, orderly, early>>

-----------------------------------------------------------------------------
(***************************************************************************)
(* The callbacks, on the worker thread.                                      *)
(***************************************************************************)

\* readAll() takes everything, handleReadyRead() one buffer.
ReadyReadMax == IF program = "qt" THEN buffered ELSE CabiBufSize
OnReadyRead(s) ==
    /\ IsQt /\ worker[s] = "onReadyRead"
    /\ Pop(ReadyReadMax) /\ CallbackReturns(s)
    /\ UNCHANGED <<program, platform, cbs, isOpen, session, sent, incoming, attached, qtVars>>

\* Bound: lambdas in the queue when a send() fails.
MaxQueue == 2 * MaxSessions

\* What send() wrote to a device that is gone fails on the desktop's worker,
\* which reports it beside the read that failed.
SendFails(s) ==
    /\ connected /\ isOpen /\ ~attached /\ platform # "android" /\ Len(queue) < MaxQueue
    /\ s = session /\ worker[s] = "ended"
    /\ worker' = [worker EXCEPT ![s] = "onError"]
    /\ UNCHANGED <<program, platform, cbs, isOpen, session, buffered, sent, incoming, attached, qtVars>>

\* The error is marshalled: close() would join the thread it runs on.
OnError(s) ==
    /\ worker[s] = "onError"
    /\ queue' = IF gui = "gone" THEN queue ELSE Append(queue, ErrorOf(s))
    /\ early' = IF connThread = "post" /\ s = session THEN early \cup {s} ELSE early
    /\ CallbackReturns(s)
    /\ UNCHANGED <<program, platform, cbs, isOpen, session, buffered, sent, incoming, attached,
                   gui, quitting, connThread, openMx, connected, failed, connects, orderly>>

-----------------------------------------------------------------------------
(***************************************************************************)
(* The destructors, once the event loop has ended.  CabiController calls     *)
(* disconnectPort(), joins and frees the handle; SerialController joins, and  *)
(* its members, the SerialPort last, are destroyed.                          *)
(***************************************************************************)
Quit ==
    /\ gui = "idle" /\ ~quitting
    /\ quitting' = TRUE
    /\ gui' = IF program = "cabi" THEN "d.join" ELSE "q.join"
    /\ UNCHANGED <<portVars, connThread, openMx, queue, connected, failed, connects, orderly, early>>

\* Mutant: the destructor does not join.
QuitWithoutJoin ==
    /\ gui = "q.join"
    /\ gui' = "q.callbacks"
    /\ UNCHANGED <<portVars, quitting, connThread, openMx, queue, connected, failed, connects,
                   orderly, early>>

QuitJoin ==
    /\ gui = "q.join" /\ ConnJoinable
    /\ connThread' = "none" /\ gui' = "q.callbacks"
    /\ UNCHANGED <<portVars, quitting, openMx, queue, connected, failed, connects, orderly, early>>

QuitCallbacks ==
    /\ gui = "q.callbacks" /\ DestroyCallbacks
    /\ gui' = "q.backend"
    /\ UNCHANGED <<quitting, connThread, openMx, queue, connected, failed, connects, orderly, early>>

QuitBackend ==
    /\ gui = "q.backend" /\ ClosePort
    /\ gui' = "gone"
    /\ UNCHANGED <<quitting, connThread, openMx, queue, connected, failed, connects, orderly, early>>

ConnStep == ConnLock \/ ConnReopens \/ ConnAsks \/ ConnOpens \/ AnswerArrives \/ ConnPosts
GuiStep == \/ ConnectStart \/ DisconnectJoin \/ DisconnectLock \/ DisconnectClose
           \/ HandleResult \/ HandleError \/ ErrorLock \/ ErrorClose
           \/ QuitJoin \/ QuitCallbacks \/ QuitBackend
UserStep == ConnectPort \/ DisconnectPort \/ Quit \/ \E s \in Sessions : SendFails(s)
QtCallbacks == \E s \in Sessions : OnReadyRead(s) \/ OnError(s)
QtStep == ConnStep \/ AnswerTimesOut \/ GuiStep \/ UserStep \/ QtCallbacks
=============================================================================
