--------------------------- MODULE ProgramsProofs ---------------------------
(* Theorems about Programs for every value of its constants.                 *)
EXTENDS PortListProofs

USE PortAssumption, CabiAssumption, ConsumersAssumption

-----------------------------------------------------------------------------
(***************************************************************************)
(* The types.                                                               *)
(***************************************************************************)

\* The environment and the workers keep the types.
LEMMA TypePort ==
    PortOK /\ QtOK /\ ConsumerOK /\ PortStep /\ UNCHANGED <<qtVars, consumerVars>>
        => PortOK' /\ QtOK' /\ ConsumerOK'
<1> SUFFICES ASSUME PortOK, QtOK, ConsumerOK, PortStep, UNCHANGED <<qtVars, consumerVars>>
             PROVE  PortOK' /\ QtOK' /\ ConsumerOK'
  OBVIOUS
<1>1. QtOK' /\ ConsumerOK'
  BY DEF QtOK, ConsumerOK, qtVars, consumerVars
<1>2. ASSUME DeviceSends \/ DeviceUnplugged PROVE PortOK'
  <2>1. CASE DeviceSends
    BY <2>1 DEF PortOK, DeviceSends
  <2>2. CASE DeviceUnplugged
    <3>1. attached' \in BOOLEAN
      BY <2>2 DEF DeviceUnplugged
    <3> QED
      BY <2>2, <3>1 DEF PortOK, DeviceUnplugged
  <2> QED
    BY <1>2, <2>1, <2>2
<1>3. ASSUME NEW s \in Sessions, WorkerReads(s) PROVE PortOK'
  BY <1>3 DEF PortOK, WorkerReads, WorkerPoints, Callbacks
<1>4. ASSUME NEW s \in Sessions, WorkerFails(s) \/ WorkerEnds(s) PROVE PortOK'
  BY <1>4 DEF PortOK, WorkerFails, WorkerEnds, WorkerPoints, Callbacks
<1>5. CASE \E s \in Sessions : WorkerStep(s)
  <2>1. PICK s \in Sessions : WorkerStep(s)
    BY <1>5
  <2> QED
    BY <1>1, <1>3, <1>4, <2>1 DEF WorkerStep
<1> QED
  BY <1>1, <1>2, <1>5 DEF PortStep

\* What open() and close() do to the port.
LEMMA TypeOpenClose ==
    ASSUME PortOK, OpenSucceeds \/ OpenFails \/ ClosePort \/ DestroyCallbacks
    PROVE  PortOK'
<1>1. CASE OpenSucceeds
  BY <1>1 DEF PortOK, OpenSucceeds, Sessions, WorkerPoints
<1>2. CASE OpenFails
  BY <1>2 DEF PortOK, OpenFails, portVars
<1>3. CASE ClosePort
  BY <1>3 DEF PortOK, ClosePort, Join, WorkerPoints, Callbacks
<1>4. CASE DestroyCallbacks
  BY <1>4 DEF PortOK, DestroyCallbacks
<1> QED
  BY <1>1, <1>2, <1>3, <1>4

\* What the callbacks do to it.
LEMMA TypeCallbacks ==
    ASSUME PortOK, NEW s \in Sessions,
           CallbackReturns(s), buffered' \in Nat,
           UNCHANGED <<program, platform, cbs, isOpen, session, sent, incoming, attached>>
    PROVE  PortOK'
BY DEF PortOK, CallbackReturns, WorkerPoints

\* A read leaves a number of bytes.
LEMMA TypePop ==
    ASSUME PortOK, NEW max \in Nat, Pop(max)
    PROVE  buffered' \in Nat
BY DEF PortOK, Pop

\* A lambda joins the queue at its end.
LEMMA QueueGrows ==
    ASSUME QtOK, NEW m \in Results \cup Errors, queue' = Append(queue, m)
    PROVE  /\ queue' \in Seq(Results \cup Errors) /\ Len(queue) \in Nat
           /\ Len(queue') = Len(queue) + 1 /\ queue'[Len(queue) + 1] = m
           /\ \A i \in 1..Len(queue) : queue'[i] = queue[i]
<1>1. queue \in Seq(Results \cup Errors)
  BY DEF QtOK
<1> QED
  BY <1>1, Appended, LenProperties

\* The first lambda leaves the queue, the others move up.
LEMMA QueueShrinks ==
    ASSUME QtOK, queue # <<>>, queue' = Tail(queue)
    PROVE  /\ queue' \in Seq(Results \cup Errors) /\ Len(queue) \in Nat \ {0}
           /\ Len(queue') = Len(queue) - 1
           /\ Head(queue) = queue[1] /\ Head(queue) \in Results \cup Errors
           /\ \A i \in 1..Len(queue') : i + 1 \in 2..Len(queue) /\ queue'[i] = queue[i + 1]
<1>1. queue \in Seq(Results \cup Errors)
  BY DEF QtOK
<1>2. Len(queue) \in Nat \ {0} /\ Len(Tail(queue)) = Len(queue) - 1
  BY <1>1, HeadTailProperties, LenProperties, EmptySeq
<1> QED
  BY <1>1, <1>2, TailElements, LenProperties

\* The steps of connectPort() and of its thread.
LEMMA TypeConnect ==
    ASSUME PortOK, QtOK, ConnectPort \/ ConnectStart \/ ConnStep \/ AnswerTimesOut
    PROVE  PortOK' /\ QtOK'
<1>1. CASE ConnectPort
  <2>1. orderly' \in BOOLEAN
    BY <1>1 DEF ConnectPort
  <2>2. connects' \in 0..MaxSessions
    BY <1>1 DEF ConnectPort, QtOK
  <2> QED
    BY <1>1, <2>1, <2>2 DEF ConnectPort, PortOK, QtOK, portVars, GuiPoints
<1>2. CASE ConnectStart \/ ConnLock \/ ConnAsks
  BY <1>2 DEF ConnectStart, ConnLock, ConnAsks, PortOK, QtOK, portVars, GuiPoints, ConnPoints
<1>3. CASE ConnReopens
  <2>1. PortOK'
    BY <1>3, TypeOpenClose DEF ConnReopens
  <2> QED
    BY <1>3, <2>1 DEF ConnReopens, QtOK, qtVars
<1>4. ASSUME NEW ok \in BOOLEAN, Opened(ok) PROVE PortOK' /\ QtOK'
  <2>1. PortOK'
    BY <1>4, TypeOpenClose DEF Opened
  <2>2. connThread' \in ConnPoints
    BY <1>4 DEF Opened, ConnPoints
  <2> QED
    BY <1>4, <2>1, <2>2 DEF Opened, QtOK
<1>5. CASE ConnPosts
  <2>1. Result(connThread = "post") \in Results \cup Errors
    BY DEF Result, Results
  <2>2. queue' \in Seq(Results \cup Errors)
    BY <1>5, <2>1, QueueGrows DEF ConnPosts
  <2> QED
    BY <1>5, <2>2 DEF ConnPosts, PortOK, QtOK, portVars, ConnPoints
<1>6. CASE ConnOpens \/ AnswerArrives
  BY <1>4, <1>6 DEF ConnOpens, AnswerArrives
<1>7. CASE AnswerTimesOut
  BY <1>4, <1>7 DEF AnswerTimesOut
<1> QED
  BY <1>1, <1>2, <1>3, <1>5, <1>6, <1>7 DEF ConnStep

\* The steps of disconnectPort(), of the queued lambdas and of the destructors.
LEMMA TypeGui ==
    ASSUME PortOK, QtOK, GuiStep \/ DisconnectPort \/ Quit, ~ConnectStart
    PROVE  PortOK' /\ QtOK'
<1>1. CASE DisconnectPort \/ Quit \/ DisconnectJoin \/ DisconnectLock \/ QuitJoin
  <2>1. gui' \in GuiPoints
    BY <1>1 DEF DisconnectPort, Quit, DisconnectJoin, DisconnectLock, QuitJoin, AfterDisconnect,
       GuiPoints
  <2>2. quitting' \in BOOLEAN
    BY <1>1 DEF DisconnectPort, Quit, DisconnectJoin, DisconnectLock, QuitJoin, QtOK
  <2> QED
    BY <1>1, <2>1, <2>2 DEF DisconnectPort, Quit, DisconnectJoin, DisconnectLock, QuitJoin,
       PortOK, QtOK, portVars, ConnPoints
<1>2. CASE DisconnectClose \/ ErrorClose
  <2>1. PortOK'
    BY <1>2, TypeOpenClose DEF DisconnectClose, ErrorClose
  <2>2. connected' \in BOOLEAN /\ gui' \in GuiPoints
    BY <1>2 DEF DisconnectClose, ErrorClose, AfterDisconnect, GuiPoints
  <2> QED
    BY <1>2, <2>1, <2>2 DEF DisconnectClose, ErrorClose, QtOK
<1>3. CASE HandleResult
  <2>1. queue' \in Seq(Results \cup Errors)
    BY <1>3, QueueShrinks DEF HandleResult
  <2>2. connected' \in BOOLEAN
    BY <1>3 DEF HandleResult
  <2> QED
    BY <1>3, <2>1, <2>2 DEF HandleResult, PortOK, QtOK, portVars
<1>4. CASE HandleError
  <2>1. queue' \in Seq(Results \cup Errors) /\ Head(queue) \in Results \cup Errors
    BY <1>4, QueueShrinks DEF HandleError
  <2>2. Head(queue).session \in {0} \cup Sessions
    BY <2>1 DEF Results, Errors
  <2>3. failed' \in 0..MaxSessions
    BY <1>4, <2>2 DEF HandleError, Sessions
  <2> QED
    BY <1>4, <2>1, <2>3 DEF HandleError, PortOK, QtOK, portVars, GuiPoints
<1>5. CASE ErrorLock
  BY <1>5 DEF ErrorLock, PortOK, QtOK, portVars, GuiPoints
<1>6. CASE QuitCallbacks \/ QuitBackend
  <2>1. PortOK'
    BY <1>6, TypeOpenClose DEF QuitCallbacks, QuitBackend
  <2> QED
    BY <1>6, <2>1 DEF QuitCallbacks, QuitBackend, QtOK, GuiPoints
<1> QED
  BY <1>1, <1>2, <1>3, <1>4, <1>5, <1>6 DEF GuiStep

\* The callbacks of the Qt terminals, and the failing send().
LEMMA TypeQtCallbacks ==
    ASSUME PortOK, QtOK, NEW s \in Sessions, OnReadyRead(s) \/ OnError(s) \/ SendFails(s)
    PROVE  PortOK' /\ QtOK'
<1>1. CASE OnReadyRead(s)
  <2>1. ReadyReadMax \in Nat
    BY DEF ReadyReadMax, PortOK
  <2>2. PortOK'
    BY <1>1, <2>1, TypePop, TypeCallbacks DEF OnReadyRead
  <2> QED
    BY <1>1, <2>2 DEF OnReadyRead, QtOK, qtVars
<1>2. CASE OnError(s)
  <2>1. PortOK'
    BY <1>2, TypeCallbacks DEF OnError, PortOK
  <2>2. ErrorOf(s) \in Results \cup Errors
    BY DEF ErrorOf, Errors
  <2>3. queue' \in Seq(Results \cup Errors)
    BY <1>2, <2>2, QueueGrows DEF OnError, QtOK
  <2> QED
    BY <1>2, <2>1, <2>3 DEF OnError, QtOK
<1>3. CASE SendFails(s)
  BY <1>3 DEF SendFails, PortOK, QtOK, qtVars, WorkerPoints, Callbacks
<1> QED
  BY <1>1, <1>2, <1>3

\* The steps of the console programs.
LEMMA TypeConsumer ==
    ASSUME PortOK, ConsumerOK, ConsumerStep
    PROVE  PortOK' /\ ConsumerOK'
<1> USE DEF ProgramPoints
<1>1. CASE AvailablePortsCalled \/ FindPortByVID \/ ReleasePorts \/ ListPrinted \/ WriteHello
           \/ EnterPressed \/ BytesAvailable \/ IdleTick
  BY <1>1 DEF AvailablePortsCalled, FindPortByVID, ReleasePorts, ListPrinted, WriteHello,
     EnterPressed, BytesAvailable, IdleTick, PortOK, ConsumerOK, portVars, consumerVars
<1>2. CASE InstallCallbacks
  BY <1>2 DEF InstallCallbacks, SetCallbacks, PortOK, ConsumerOK
<1>3. CASE OpenPort \/ ClosesPort \/ FreesCallbacks \/ FreesBackend
  <2>1. PortOK'
    BY <1>3, TypeOpenClose DEF OpenPort, ClosesPort, FreesCallbacks, FreesBackend
  <2> QED
    BY <1>3, <2>1 DEF OpenPort, ClosesPort, FreesCallbacks, FreesBackend, ConsumerOK
<1>4. CASE SignalReceived
  <2>1. signal' \in BOOLEAN
    BY <1>4 DEF SignalReceived
  <2> QED
    BY <1>4, <2>1 DEF SignalReceived, PortOK, ConsumerOK, portVars
<1>5. CASE GoReads
  <2>1. buffered' \in Nat
    BY <1>5, TypePop DEF GoReads
  <2> QED
    BY <1>5, <2>1 DEF GoReads, AfterRead, PortOK, ConsumerOK
<1>6. ASSUME NEW s \in Sessions, CReadyRead(s) PROVE PortOK' /\ ConsumerOK'
  <2>1. PortOK'
    BY <1>6, TypePop, TypeCallbacks DEF CReadyRead
  <2> QED
    BY <1>6, <2>1 DEF CReadyRead, ConsumerOK, consumerVars
<1>7. ASSUME NEW s \in Sessions, GoReadyRead(s) PROVE PortOK' /\ ConsumerOK'
  <2>1. signal' \in BOOLEAN
    BY <1>7 DEF GoReadyRead, Signalled
  <2>2. PortOK'
    BY <1>7, TypeCallbacks DEF GoReadyRead, PortOK
  <2> QED
    BY <1>7, <2>1, <2>2 DEF GoReadyRead, ConsumerOK
<1> QED
  BY <1>1, <1>2, <1>3, <1>4, <1>5, <1>6, <1>7 DEF ConsumerStep, MainStep, ConsumerCallbacks

\* The type invariant.
Types == PortOK /\ QtOK /\ ConsumerOK

\* Every step keeps the types.
LEMMA TypeStep == Types /\ Next => Types'
<1> SUFFICES ASSUME Types, Next PROVE Types'
  OBVIOUS
<1> USE DEF Types
<1>1. CASE PortStep /\ UNCHANGED <<qtVars, consumerVars>>
  BY <1>1, TypePort
<1>2. CASE QtStep /\ UNCHANGED consumerVars
  <2>1. ConsumerOK'
    BY <1>2 DEF ConsumerOK, consumerVars
  <2>2. CASE \E s \in Sessions : OnReadyRead(s) \/ OnError(s) \/ SendFails(s)
    BY <2>1, <2>2, TypeQtCallbacks
  <2>3. CASE ConnectPort \/ ConnectStart \/ ConnStep \/ AnswerTimesOut
    BY <2>1, <2>3, TypeConnect
  <2>4. CASE (GuiStep \/ DisconnectPort \/ Quit) /\ ~ConnectStart
    BY <2>1, <2>4, TypeGui
  <2> QED
    BY <1>2, <2>2, <2>3, <2>4 DEF QtStep, UserStep, QtCallbacks
<1>3. CASE ConsumerStep /\ UNCHANGED qtVars
  BY <1>3, TypeConsumer DEF QtOK, qtVars
<1>4. CASE Ended
  BY <1>4 DEF Ended, vars, PortOK, QtOK, ConsumerOK, portVars, qtVars, consumerVars
<1> QED
  BY <1>1, <1>2, <1>3, <1>4 DEF Next

-----------------------------------------------------------------------------
(***************************************************************************)
(* The mutex and the threads.                                               *)
(***************************************************************************)

\* Which program runs where does not change.
LEMMA ProgramFixed == [Next]_vars => program' = program /\ platform' = platform
<1> SUFFICES ASSUME [Next]_vars PROVE program' = program /\ platform' = platform
  OBVIOUS
<1>1. CASE PortStep
  BY <1>1 DEF PortStep, WorkerStep, WorkerReads, WorkerFails, WorkerEnds, DeviceSends,
     DeviceUnplugged
<1>2. CASE QtStep
  BY <1>2 DEF QtStep, ConnStep, AnswerTimesOut, GuiStep, UserStep, QtCallbacks, portVars,
     ConnLock, ConnReopens, ConnAsks, ConnOpens, AnswerArrives, ConnPosts, Opened, OpenSucceeds,
     OpenFails, ClosePort, DestroyCallbacks, ConnectStart, DisconnectJoin, DisconnectLock,
     DisconnectClose, HandleResult, HandleError, ErrorLock, ErrorClose, QuitJoin, QuitCallbacks,
     QuitBackend, ConnectPort, DisconnectPort, Quit, SendFails, OnReadyRead, OnError
<1>3. CASE ConsumerStep
  BY <1>3 DEF ConsumerStep, MainStep, ConsumerCallbacks, portVars, OpenSucceeds, OpenFails,
     ClosePort, DestroyCallbacks, AvailablePortsCalled, FindPortByVID, ReleasePorts, ListPrinted,
     InstallCallbacks, OpenPort, WriteHello, EnterPressed, ClosesPort, FreesCallbacks,
     FreesBackend, SignalReceived, IdleTick, BytesAvailable, GoReads, CReadyRead, GoReadyRead
<1> QED
  BY <1>1, <1>2, <1>3 DEF Next, Ended, vars, portVars

\* The steps of a Qt terminal keep the mutex right.
LEMMA MutexQt ==
    ASSUME MutexHeld, QtStep, pc' = pc, program' = program
    PROVE  MutexHeld'
<1> USE DEF MutexHeld, HoldsAsConn, HoldsAsGui, IsQt, ConnJoinable
<1>1. CASE ConnectPort \/ ConnectStart \/ ConnLock \/ ConnAsks \/ ConnPosts
  BY <1>1 DEF ConnectPort, ConnectStart, ConnLock, ConnAsks, ConnPosts
<1>2. CASE ConnReopens \/ AnswerTimesOut \/ ConnOpens \/ AnswerArrives
  BY <1>2 DEF ConnReopens, AnswerTimesOut, ConnOpens, AnswerArrives, Opened, qtVars
<1>3. CASE DisconnectPort \/ DisconnectJoin
  BY <1>3 DEF DisconnectPort, DisconnectJoin
<1>4. CASE DisconnectLock
  BY <1>4 DEF DisconnectLock, AfterDisconnect
<1>5. CASE DisconnectClose
  BY <1>5 DEF DisconnectClose, AfterDisconnect
<1>6. CASE HandleResult \/ HandleError \/ ErrorLock \/ ErrorClose
  BY <1>6 DEF HandleResult, HandleError, ErrorLock, ErrorMayLock, ErrorClose
<1>7. CASE Quit \/ QuitJoin
  BY <1>7 DEF Quit, QuitJoin
<1>8. CASE QuitCallbacks \/ QuitBackend
  BY <1>8 DEF QuitCallbacks, QuitBackend
<1>9. CASE \E s \in Sessions : OnReadyRead(s) \/ OnError(s) \/ SendFails(s)
  BY <1>9 DEF OnReadyRead, OnError, SendFails, qtVars
<1> QED
  BY <1>1, <1>2, <1>3, <1>4, <1>5, <1>6, <1>7, <1>8, <1>9
     DEF QtStep, ConnStep, GuiStep, UserStep, QtCallbacks

\* So does every step.
LEMMA MutexStep == MutexHeld /\ [Next]_vars => MutexHeld'
<1> SUFFICES ASSUME MutexHeld, [Next]_vars PROVE MutexHeld'
  OBVIOUS
<1> USE DEF MutexHeld
<1>1. CASE QtStep /\ UNCHANGED consumerVars
  BY <1>1, MutexQt, ProgramFixed DEF consumerVars
<1>2. CASE UNCHANGED qtVars /\ UNCHANGED consumerVars
  BY <1>2, ProgramFixed DEF qtVars, consumerVars, IsQt
<1>3. CASE ConsumerStep /\ UNCHANGED qtVars
  <2>1. (pc' = "off") <=> (pc = "off")
    BY <1>3 DEF ConsumerStep, MainStep, ConsumerCallbacks, AvailablePortsCalled, FindPortByVID,
       ReleasePorts, ListPrinted, InstallCallbacks, OpenPort, WriteHello, EnterPressed, ClosesPort,
       FreesCallbacks, FreesBackend, SignalReceived, IdleTick, BytesAvailable, AfterRead, GoReads,
       CReadyRead, GoReadyRead, consumerVars
  <2> QED
    BY <1>3, <2>1, ProgramFixed DEF qtVars, IsQt
<1> QED
  BY <1>1, <1>2, <1>3 DEF Next, Ended, vars

-----------------------------------------------------------------------------
(***************************************************************************)
(* The port: every step opens it, closes it, moves one worker or keeps it.   *)
(***************************************************************************)
Moves(s) ==
    \/ WorkerStep(s) \/ SendFails(s)
    \/ /\ worker[s] \in Callbacks /\ CallbackReturns(s)
       /\ UNCHANGED <<cbs, isOpen, session, attached>>
Keeps == UNCHANGED <<isOpen, session, worker>>

\* What a step can do to it.
LEMMA StepKinds ==
    ASSUME [Next]_vars
    PROVE  \/ OpenSucceeds \/ ClosePort \/ Keeps
           \/ \E s \in Sessions : Moves(s)
<1> USE DEF Keeps
<1>1. CASE PortStep
  BY <1>1 DEF PortStep, Moves, DeviceSends, DeviceUnplugged
<1>2. CASE QtStep
  <2>1. CASE \E s \in Sessions : OnReadyRead(s) \/ OnError(s) \/ SendFails(s)
    BY <2>1 DEF Moves, OnReadyRead, OnError, Callbacks
  <2>2. CASE ConnStep \/ AnswerTimesOut
    BY <2>2 DEF ConnStep, AnswerTimesOut, ConnLock, ConnReopens, ConnAsks, ConnOpens,
       AnswerArrives, ConnPosts, Opened, OpenFails, portVars
  <2>3. CASE GuiStep \/ ConnectPort \/ DisconnectPort \/ Quit
    BY <2>3 DEF GuiStep, ConnectPort, DisconnectPort, Quit, ConnectStart, DisconnectJoin,
       DisconnectLock, DisconnectClose, HandleResult, HandleError, ErrorLock, ErrorClose, QuitJoin,
       QuitCallbacks, QuitBackend, DestroyCallbacks, portVars
  <2> QED
    BY <1>2, <2>1, <2>2, <2>3 DEF QtStep, UserStep, QtCallbacks
<1>3. CASE ConsumerStep
  <2>1. CASE ConsumerCallbacks
    BY <2>1 DEF ConsumerCallbacks, Moves, CReadyRead, GoReadyRead, Callbacks
  <2>2. CASE MainStep \/ IdleTick \/ EnterPressed
    BY <2>2 DEF MainStep, AvailablePortsCalled, FindPortByVID, ReleasePorts, ListPrinted,
       InstallCallbacks,
       OpenPort, WriteHello, EnterPressed, ClosesPort, FreesCallbacks, FreesBackend,
       SignalReceived, IdleTick, BytesAvailable, GoReads, OpenFails, DestroyCallbacks, portVars
  <2> QED
    BY <1>3, <2>1, <2>2 DEF ConsumerStep
<1> QED
  BY <1>1, <1>2, <1>3 DEF Next, Ended, vars, portVars

\* On the desktop close() leaves no worker behind.
LEMMA WorkersStep == PortOK /\ WorkersJoined /\ [Next]_vars => WorkersJoined'
<1> SUFFICES ASSUME PortOK, WorkersJoined, [Next]_vars, platform # "android"
             PROVE  WorkersJoined'
  BY ProgramFixed DEF WorkersJoined
<1>1. /\ \A s \in Sessions : s # session \/ ~isOpen => worker[s] \in {"none", "ended"}
      /\ worker \in [Sessions -> WorkerPoints] /\ session \in 0..MaxSessions
  BY DEF WorkersJoined, PortOK
<1> SUFFICES ASSUME NEW s \in Sessions, s # session' \/ ~isOpen'
             PROVE  worker'[s] \in {"none", "ended"}
  BY DEF WorkersJoined
<1>2. CASE OpenSucceeds
  BY <1>1, <1>2 DEF OpenSucceeds, MustClose
<1>3. CASE ClosePort
  BY <1>1, <1>3 DEF ClosePort, Join, Joined, WorkerPoints
<1>4. CASE Keeps
  BY <1>1, <1>4 DEF Keeps
<1>5. ASSUME NEW r \in Sessions, Moves(r) PROVE worker'[s] \in {"none", "ended"}
  <2>1. UNCHANGED <<isOpen, session>> /\ worker[r] \notin {"none"}
    BY <1>5 DEF Moves, WorkerStep, WorkerReads, WorkerFails, WorkerEnds, SendFails, Callbacks
  <2>2. \E p \in WorkerPoints : worker' = [worker EXCEPT ![r] = p]
    BY <1>5 DEF Moves, WorkerStep, WorkerReads, WorkerFails, WorkerEnds, SendFails,
       CallbackReturns, WorkerPoints, Callbacks
  <2>3. r = session /\ isOpen
    BY <1>1, <1>5 DEF Moves, WorkerStep, WorkerReads, WorkerFails, WorkerEnds, SendFails, Callbacks
  <2> QED
    BY <1>1, <2>1, <2>2, <2>3
<1> QED
  BY <1>2, <1>3, <1>4, <1>5, StepKinds

\* A console program has its port closed where ConsoleClosed says so.
LEMMA ConsoleStep == ConsumerOK /\ MutexHeld /\ ConsoleClosed /\ [Next]_vars => ConsoleClosed'
<1> SUFFICES ASSUME ConsumerOK, MutexHeld, ConsoleClosed, [Next]_vars PROVE ConsoleClosed'
  OBVIOUS
<1> USE DEF ConsoleClosed, ClosedHere
<1>1. CASE PortStep /\ UNCHANGED <<qtVars, consumerVars>>
  BY <1>1 DEF PortStep, WorkerStep, WorkerReads, WorkerFails, WorkerEnds, DeviceSends,
     DeviceUnplugged, consumerVars
<1>2. CASE QtStep /\ UNCHANGED consumerVars
  <2>1. CASE \E s \in Sessions : OnReadyRead(s) \/ OnError(s) \/ SendFails(s)
    BY <1>2, <2>1 DEF OnReadyRead, OnError, SendFails, consumerVars
  <2>2. CASE ConnStep \/ AnswerTimesOut
    <3>1. connThread # "none"
      BY <2>2 DEF ConnStep, AnswerTimesOut, ConnLock, ConnReopens, ConnAsks, ConnOpens,
         AnswerArrives, ConnPosts
    <3> QED
      BY <1>2, <3>1 DEF MutexHeld, consumerVars
  <2>3. CASE GuiStep \/ ConnectPort \/ DisconnectPort \/ Quit
    <3>1. gui # "off"
      BY <2>3 DEF GuiStep, ConnectPort, DisconnectPort, Quit, ConnectStart, DisconnectJoin,
         DisconnectLock, DisconnectClose, HandleResult, HandleError, ErrorLock, ErrorClose,
         QuitJoin, QuitCallbacks, QuitBackend
    <3> QED
      BY <1>2, <3>1 DEF MutexHeld, consumerVars
  <2> QED
    BY <1>2, <2>1, <2>2, <2>3 DEF QtStep, UserStep, QtCallbacks
<1>3. CASE ConsumerStep
  <2>1. CASE OpenPort \/ ClosesPort \/ FreesCallbacks \/ FreesBackend
    BY <2>1 DEF OpenPort, ClosesPort, FreesCallbacks, FreesBackend, OpenSucceeds, OpenFails,
       ClosePort, DestroyCallbacks, portVars
  <2>2. CASE AvailablePortsCalled \/ FindPortByVID \/ ReleasePorts \/ ListPrinted
          \/ InstallCallbacks \/ WriteHello
             \/ SignalReceived \/ BytesAvailable \/ GoReads \/ IdleTick \/ EnterPressed
    BY <2>2 DEF AvailablePortsCalled, FindPortByVID, ReleasePorts, ListPrinted, InstallCallbacks,
       WriteHello,
       SignalReceived, BytesAvailable, GoReads, AfterRead, IdleTick, EnterPressed, portVars,
       consumerVars
  <2>3. CASE ConsumerCallbacks
    BY <2>3 DEF ConsumerCallbacks, CReadyRead, GoReadyRead, consumerVars
  <2> QED
    BY <1>3, <2>1, <2>2, <2>3 DEF ConsumerStep, MainStep
<1>4. CASE UNCHANGED vars
  BY <1>4 DEF vars, portVars, consumerVars
<1> QED
  BY <1>1, <1>2, <1>3, <1>4 DEF Next, Ended

-----------------------------------------------------------------------------
(***************************************************************************)
(* The list of ports, and the port Go chooses from it.                      *)
(***************************************************************************)

\* The list of the devices found is right for the platform.
LEMMA KnownListRight ==
    ASSUME platform \in Platforms, ProperDevices(platform, devices),
           ports = AvailablePorts(platform, devices)
    PROVE  /\ DOMAIN ports \in SUBSET Nat /\ Len(ports) \in Nat
           /\ CASE platform = "posix"   -> PosixListRight
                [] platform = "windows" -> WindowsListRight
                [] platform = "android" -> AndroidListRight
           /\ platform = "posix" => \A k, l \in DOMAIN ports :
                k < l => NameBefore(ports[k].portName, ports[l].portName)
<1>1. CASE platform = "posix"
  BY <1>1, PosixRight
<1>2. CASE platform = "windows"
  BY <1>2, WindowsRight
<1>3. CASE platform = "android"
  BY <1>3, AndroidRight
<1> QED
  BY <1>1, <1>2, <1>3 DEF Platforms

\* The list stays that of the devices found, and Go takes the first port it looks for.
LEMMA ListKnownStep ==
    ASSUME PortOK, ReadsOwed, ListKnown, [Next]_vars
    PROVE  ListKnown'
<1>1. platform' = platform /\ program' = program
  BY ProgramFixed
<1>2. CASE AvailablePortsCalled
  <2>1. /\ pc \in {"list", "listAll"} /\ chosen' = chosen
        /\ devices' \in Systems[platform] /\ ports' = AvailablePorts(platform, devices')
        /\ pc' = CASE pc = "listAll" -> "print" [] program = "go" -> "find" [] OTHER -> "exit"
    BY <1>2 DEF AvailablePortsCalled
  <2>2. ProperDevices(platform, devices')
    BY <2>1, SystemsAssumption DEF PortOK
  <2>3. chosen' = NoPort /\ (pc = "listAll" => program = "go")
    BY <2>1 DEF ListKnown
  <2> QED
    BY <1>1, <2>1, <2>2, <2>3 DEF ListKnown, HasList, HoldsList
<1>3. CASE FindPortByVID
  <2> DEFINE found == {i \in DOMAIN ports : ports[i].vendorId = TargetVid}
  <2>1. /\ pc = "find" /\ pc' = "release" /\ devices' = devices /\ ports' = ports
        /\ chosen' = IF found = {} THEN NoPort
                     ELSE ports[CHOOSE i \in found : \A j \in found : i <= j]
    BY <1>3 DEF FindPortByVID
  <2>2. /\ ProperDevices(platform, devices) /\ ports = AvailablePorts(platform, devices)
        /\ program = "go"
    BY <2>1 DEF ListKnown, HasList, HoldsList
  <2>3. DOMAIN ports \in SUBSET Nat
    BY <2>2, KnownListRight DEF PortOK
  <2>4. CASE found = {}
    <3>1. chosen' = NoPort
      BY <2>1, <2>4
    <3> QED
      BY <1>1, <2>1, <2>2, <3>1 DEF ListKnown
  <2>5. CASE found # {}
    <3>1. found \in SUBSET Nat
      BY <2>3
    <3>2. \A i : i \in found <=> i \in DOMAIN ports /\ ports[i].vendorId = TargetVid
      OBVIOUS
    <3> HIDE DEF found
    <3>3. \E i \in found : \A j \in found : i <= j
      BY <2>5, <3>1, SmallestNumber
    <3>4. PICK i \in found : chosen' = ports[i] /\ \A j \in found : i <= j
      BY <2>1, <2>5, <3>3
    <3> QED
      BY <1>1, <2>1, <2>2, <3>2, <3>4 DEF ListKnown
  <2> QED
    BY <2>4, <2>5
<1>4. CASE ReleasePorts
  <2>1. /\ pc = "release" /\ chosen' = chosen
        /\ \/ chosen = NoPort /\ pc' = "listAll"
           \/ chosen # NoPort /\ pc' = "new" /\ devices' = devices /\ ports' = ports
    BY <1>4 DEF ReleasePorts
  <2>2. program = "go"
    BY <2>1 DEF ListKnown, HoldsList
  <2> QED
    BY <1>1, <2>1, <2>2 DEF ListKnown, HasList, HoldsList
<1>5. CASE ListPrinted
  <2>1. /\ pc = "print" /\ pc' = "exit"
        /\ devices' = devices /\ ports' = ports /\ chosen' = chosen
    BY <1>5 DEF ListPrinted
  <2>2. program = "go"
    BY <2>1 DEF ListKnown, HoldsList
  <2> QED
    BY <1>1, <2>1, <2>2 DEF ListKnown, HasList, HoldsList
<1> DEFINE NoList == HoldsList \cup {"list", "listAll"}
<1>6. CASE /\ devices' = devices /\ ports' = ports /\ chosen' = chosen
           /\ pc' = pc \/ (pc' \notin NoList /\ program # "list")
  BY <1>1, <1>6 DEF ListKnown, HasList, HoldsList
<1>7. ASSUME InstallCallbacks \/ OpenPort \/ WriteHello \/ ClosesPort \/ FreesCallbacks
             \/ FreesBackend \/ SignalReceived \/ BytesAvailable \/ GoReads \/ EnterPressed
      PROVE  /\ devices' = devices /\ ports' = ports /\ chosen' = chosen
             /\ pc' \notin NoList /\ program # "list"
  <2>1. /\ devices' = devices /\ ports' = ports /\ chosen' = chosen
        /\ pc' \notin NoList /\ pc \notin {"list", "exit"}
    BY <1>7 DEF InstallCallbacks, OpenPort, WriteHello, ClosesPort, FreesCallbacks, FreesBackend,
       SignalReceived, BytesAvailable, GoReads, AfterRead, EnterPressed, HoldsList
  <2> QED
    BY <2>1 DEF ReadsOwed
<1>8. CASE UNCHANGED <<pc, devices, ports, chosen>>
  BY <1>6, <1>8
<1> QED
  BY <1>2, <1>3, <1>4, <1>5, <1>6, <1>7, <1>8
     DEF Next, Ended, ConsumerStep, MainStep, IdleTick, ConsumerCallbacks, CReadyRead, GoReadyRead,
         vars, consumerVars

\* A list has one header, that of its length, and freeing it by that header frees all of it.
LEMMA FreedAsCounted ==
    ASSUME NEW n \in Nat, heap = CopiedOut(n)
    PROVE  FreePorts = {}
<1>1. ASSUME NEW x \in heap PROVE x \in UNION {Strings(h[2]) \cup {h} : h \in Headers}
  <2>1. n # 0 /\ heap = Strings(n) \cup {Header(n)}
    BY <1>1 DEF CopiedOut
  <2>2. Header(n) \in Headers /\ Header(n)[2] = n
    BY <2>1 DEF Headers, Header
  <2>3. x \in Strings(n) \cup {Header(n)}
    BY <1>1, <2>1
  <2> QED
    BY <2>2, <2>3
<1> QED
  BY <1>1 DEF FreePorts

\* The list stays allocated as long as Go has it, and no longer; its header is right.
LEMMA ListStep ==
    ASSUME PortOK, ReadsOwed, ListKnown, ListHeld, [Next]_vars
    PROVE  ListHeld'
<1>1. CASE AvailablePortsCalled
  <2>1. /\ pc \in {"list", "listAll"}
        /\ heap' = IF program = "go" THEN heap \cup CopiedOut(Len(ports')) ELSE heap
        /\ pc' = CASE pc = "listAll" -> "print" [] program = "go" -> "find" [] OTHER -> "exit"
    BY <1>1 DEF AvailablePortsCalled
  <2>2. heap = {}
    BY <2>1 DEF ListHeld, HoldsList
  <2>3. pc = "listAll" => program = "go"
    BY <2>1 DEF ListKnown, HoldsList
  <2> QED
    BY <2>1, <2>2, <2>3 DEF ListHeld, HoldsList
<1>2. CASE FindPortByVID
  BY <1>2 DEF FindPortByVID, ListHeld, HoldsList
<1>3. CASE ReleasePorts \/ ListPrinted
  <2>1. pc \in HoldsList /\ pc' \notin HoldsList /\ heap' = FreePorts
    BY <1>3 DEF ReleasePorts, ListPrinted, HoldsList
  <2>2. Len(ports) \in Nat
    BY <2>1, KnownListRight DEF ListKnown, HasList, PortOK
  <2>3. FreePorts = {}
    BY <2>1, <2>2, FreedAsCounted DEF ListHeld
  <2> QED
    BY <2>1, <2>3 DEF ListHeld
<1>4. CASE InstallCallbacks \/ OpenPort \/ WriteHello \/ ClosesPort \/ FreesCallbacks \/ FreesBackend
           \/ SignalReceived \/ BytesAvailable \/ GoReads \/ EnterPressed
  BY <1>4 DEF InstallCallbacks, OpenPort, WriteHello, ClosesPort, FreesCallbacks, FreesBackend,
     SignalReceived, BytesAvailable, GoReads, AfterRead, EnterPressed, ListHeld, HoldsList
<1>5. CASE UNCHANGED <<pc, ports, heap>>
  BY <1>5 DEF ListHeld
<1> QED
  BY <1>1, <1>2, <1>3, <1>4, <1>5
     DEF Next, Ended, ConsumerStep, MainStep, IdleTick, ConsumerCallbacks, CReadyRead, GoReadyRead,
         vars, consumerVars

-----------------------------------------------------------------------------
(***************************************************************************)
(* The lambdas in the queue.                                                *)
(***************************************************************************)

\* The steps of a console program are no steps of a Qt terminal.
LEMMA ConsumersAlone ==
    ASSUME MutexHeld, ConsumerStep
    PROVE  ~IsQt
BY DEF MutexHeld, IsQt, ConsumerStep, MainStep, ConsumerCallbacks, AvailablePortsCalled,
   FindPortByVID, ReleasePorts, ListPrinted, InstallCallbacks, OpenPort, WriteHello, EnterPressed,
   ClosesPort,
   FreesCallbacks, FreesBackend, SignalReceived, IdleTick, BytesAvailable, GoReads, CReadyRead,
   GoReadyRead

\* A lambda that joins the queue is behind all others.
LEMMA KindsGrow ==
    ASSUME QtOK, NEW m \in Results \cup Errors, queue' = Append(queue, m)
    PROVE  /\ ResultAt' = ResultAt \cup (IF m.kind = "result" THEN {Len(queue) + 1} ELSE {})
           /\ OkAt' = OkAt \cup (IF m.kind = "result" /\ m.ok THEN {Len(queue) + 1} ELSE {})
           /\ ErrorAt' = ErrorAt \cup (IF m.kind = "error" THEN {Len(queue) + 1} ELSE {})
           /\ \A i \in ResultAt \cup ErrorAt : i \in 1..Len(queue) /\ queue'[i] = queue[i]
           /\ queue'[Len(queue) + 1] = m /\ Len(queue) \in Nat
<1>1. /\ Len(queue) \in Nat
      /\ Len(queue') = Len(queue) + 1 /\ queue'[Len(queue) + 1] = m
      /\ \A i \in 1..Len(queue) : queue'[i] = queue[i]
  BY QueueGrows
<1>2. 1..Len(queue') = 1..Len(queue) \cup {Len(queue) + 1}
  BY <1>1
<1>3. /\ ResultAt' = {i \in 1..Len(queue') : queue'[i].kind = "result"}
      /\ OkAt' = {i \in ResultAt' : queue'[i].ok}
      /\ ErrorAt' = {i \in 1..Len(queue') : queue'[i].kind = "error"}
  BY DEF ResultAt, OkAt, ErrorAt
<1>4. ResultAt' = ResultAt \cup (IF m.kind = "result" THEN {Len(queue) + 1} ELSE {})
  BY <1>1, <1>2, <1>3 DEF ResultAt
<1>5. ErrorAt' = ErrorAt \cup (IF m.kind = "error" THEN {Len(queue) + 1} ELSE {})
  BY <1>1, <1>2, <1>3 DEF ErrorAt
<1>6. OkAt' = OkAt \cup (IF m.kind = "result" /\ m.ok THEN {Len(queue) + 1} ELSE {})
  BY <1>1, <1>3, <1>4 DEF OkAt, ResultAt
<1> QED
  BY <1>1, <1>4, <1>5, <1>6 DEF ResultAt, ErrorAt

\* When the first lambda is taken out, the others move up by one.
LEMMA KindsShrink ==
    ASSUME QtOK, queue # <<>>, queue' = Tail(queue)
    PROVE  /\ \A i \in ResultAt' : i + 1 \in ResultAt
           /\ \A i \in ResultAt : i # 1 => i - 1 \in ResultAt'
           /\ \A i \in OkAt' : i + 1 \in OkAt
           /\ \A i \in OkAt : i # 1 => i - 1 \in OkAt'
           /\ \A i \in ErrorAt' : i + 1 \in ErrorAt /\ queue'[i] = queue[i + 1]
           /\ 1 \in ResultAt <=> Head(queue).kind = "result"
           /\ 1 \in OkAt <=> Head(queue).kind = "result" /\ Head(queue).ok
           /\ 1 \in ErrorAt <=> Head(queue).kind = "error"
           /\ ResultAt' \cup ErrorAt' \cup OkAt' \subseteq Nat \ {0} /\ Head(queue) = queue[1]
<1>1. /\ Len(queue) \in Nat \ {0} /\ Len(queue') = Len(queue) - 1 /\ Head(queue) = queue[1]
      /\ \A i \in 1..Len(queue') : i + 1 \in 2..Len(queue) /\ queue'[i] = queue[i + 1]
  BY QueueShrinks
<1>2. /\ ResultAt' = {i \in 1..Len(queue') : queue'[i].kind = "result"}
      /\ OkAt' = {i \in ResultAt' : queue'[i].ok}
      /\ ErrorAt' = {i \in 1..Len(queue') : queue'[i].kind = "error"}
  BY DEF ResultAt, OkAt, ErrorAt
<1>3. ASSUME NEW i \in 1..Len(queue), i # 1
      PROVE  i - 1 \in 1..Len(queue') /\ queue'[i - 1] = queue[i]
  BY <1>1, <1>3
<1> QED
  BY <1>1, <1>2, <1>3 DEF ResultAt, OkAt, ErrorAt

-----------------------------------------------------------------------------
(***************************************************************************)
(* connected_ and the results to come.                                      *)
(***************************************************************************)

\* A port that is open is known to be, or will be.
LEMMA ReportedStep ==
    QtOK /\ MutexHeld /\ OpenIsReported /\ [Next]_vars => OpenIsReported'
<1> SUFFICES ASSUME QtOK, MutexHeld, OpenIsReported, [Next]_vars PROVE OpenIsReported'
  OBVIOUS
<1> USE DEF OpenIsReported
<1>1. /\ program' = program /\ (IsQt' <=> IsQt)
      /\ IsQt /\ isOpen /\ ~connected => connThread = "post" \/ OkAt # {}
      /\ program = "cabi" /\ gui \in {"q.join", "q.callbacks"} => ~connected
  BY ProgramFixed DEF IsQt
<1>2. ASSUME queue' = queue PROVE OkAt' = OkAt
  BY <1>2 DEF OkAt, ResultAt
<1>3. CASE PortStep /\ UNCHANGED <<qtVars, consumerVars>>
  <2>1. isOpen' = isOpen
    BY <1>3 DEF PortStep, WorkerStep, WorkerReads, WorkerFails, WorkerEnds, DeviceSends,
       DeviceUnplugged
  <2> QED
    BY <1>1, <1>2, <1>3, <2>1 DEF qtVars
<1>4. CASE ConsumerStep /\ UNCHANGED qtVars
  <2>1. ~IsQt
    BY <1>4, ConsumersAlone
  <2> QED
    BY <1>1, <2>1 DEF IsQt
<1>5. CASE ConnectPort \/ ConnectStart \/ ConnLock \/ ConnAsks
  BY <1>1, <1>2, <1>5 DEF ConnectPort, ConnectStart, ConnLock, ConnAsks, ConnJoinable, portVars
<1>6. CASE ConnReopens
  BY <1>1, <1>6 DEF ConnReopens, ClosePort, qtVars
<1>7. ASSUME NEW ok \in BOOLEAN, Opened(ok), connThread # "post" PROVE OpenIsReported'
  <2>1. CASE ok
    BY <1>1, <1>7, <2>1 DEF Opened
  <2>2. CASE ~ok
    BY <1>1, <1>2, <1>7, <2>2 DEF Opened, OpenFails, portVars
  <2> QED
    BY <2>1, <2>2
<1>8. CASE ConnOpens \/ AnswerArrives \/ AnswerTimesOut
  BY <1>7, <1>8 DEF ConnOpens, AnswerArrives, AnswerTimesOut
<1>9. CASE ConnPosts
  <2>1. /\ Result(connThread = "post") \in Results \cup Errors
        /\ Result(connThread = "post").kind = "result"
        /\ Result(connThread = "post").ok <=> connThread = "post"
    BY DEF Result, Results
  <2>2. OkAt \subseteq OkAt' /\ (connThread = "post" => Len(queue) + 1 \in OkAt')
    <3>1. queue' = Append(queue, Result(connThread = "post"))
      BY <1>9 DEF ConnPosts
    <3>2. OkAt' = OkAt \cup (IF connThread = "post" THEN {Len(queue) + 1} ELSE {})
      BY <2>1, <3>1, KindsGrow
    <3> QED
      BY <3>2
  <2> QED
    BY <1>1, <1>9, <2>2 DEF ConnPosts, portVars
<1>10. CASE HandleResult
  <2>1. OkAt # {} /\ OkAt' = {} => Head(queue).ok
    BY <1>10, KindsShrink DEF HandleResult
  <2> QED
    BY <1>1, <1>10, <2>1 DEF HandleResult, portVars
<1>11. CASE HandleError
  <2>1. OkAt # {} => OkAt' # {}
    BY <1>11, KindsShrink DEF HandleError
  <2> QED
    BY <1>1, <1>11, <2>1 DEF HandleError, portVars
<1>12. CASE DisconnectPort \/ DisconnectJoin \/ DisconnectLock \/ ErrorLock
  BY <1>1, <1>2, <1>12 DEF DisconnectPort, DisconnectJoin, DisconnectLock, ErrorLock, ConnJoinable,
     AfterDisconnect, portVars
<1>13. CASE DisconnectClose \/ ErrorClose \/ QuitBackend
  BY <1>1, <1>13 DEF DisconnectClose, ErrorClose, QuitBackend, ClosePort
<1>14. CASE Quit \/ QuitJoin \/ QuitCallbacks
  BY <1>1, <1>2, <1>14 DEF Quit, QuitJoin, QuitCallbacks, ConnJoinable, DestroyCallbacks, portVars
<1>15. ASSUME NEW s \in Sessions, OnReadyRead(s) \/ OnError(s) \/ SendFails(s)
       PROVE  OpenIsReported'
  <2>1. OkAt \subseteq OkAt'
    <3>1. ErrorOf(s) \in Results \cup Errors
      BY DEF ErrorOf, Errors
    <3> QED
      BY <1>2, <1>15, <3>1, KindsGrow DEF OnReadyRead, OnError, SendFails, qtVars
  <2> QED
    BY <1>1, <1>15, <2>1 DEF OnReadyRead, OnError, SendFails, qtVars
<1>16. CASE UNCHANGED vars
  BY <1>1, <1>2, <1>16 DEF vars, portVars, qtVars
<1> QED
  BY <1>3, <1>4, <1>5, <1>6, <1>8, <1>9, <1>10, <1>11, <1>12, <1>13, <1>14, <1>15, <1>16
     DEF Next, Ended, QtStep, ConnStep, GuiStep, UserStep, QtCallbacks

\* What was in order to the end was so before.
LEMMA OrderlyBefore ==
    ASSUME QtOK, [Next]_vars
    PROVE  (orderly' => orderly) /\ (~quitting' => ~quitting)
<1>1. CASE UNCHANGED qtVars
  BY <1>1 DEF qtVars
<1>2. CASE ConnStep \/ AnswerTimesOut
  BY <1>2 DEF ConnStep, AnswerTimesOut, ConnLock, ConnReopens, ConnAsks, ConnOpens,
     AnswerArrives, ConnPosts, Opened, qtVars, QtOK
<1>3. CASE QtCallbacks \/ UserStep
  BY <1>3 DEF QtCallbacks, UserStep, ConnectPort, DisconnectPort, Quit, SendFails, OnReadyRead,
     OnError, qtVars, QtOK
<1>4. CASE ConnectStart \/ HandleResult \/ HandleError \/ ErrorLock \/ ErrorClose
  BY <1>4 DEF ConnectStart, HandleResult, HandleError, ErrorLock, ErrorClose, QtOK
<1>5. CASE DisconnectJoin \/ DisconnectLock \/ DisconnectClose
  BY <1>5 DEF DisconnectJoin, DisconnectLock, DisconnectClose, QtOK
<1>6. CASE QuitJoin \/ QuitCallbacks \/ QuitBackend
  BY <1>6 DEF QuitJoin, QuitCallbacks, QuitBackend, QtOK
<1> QED
  BY <1>1, <1>2, <1>3, <1>4, <1>5, <1>6 DEF Next, Ended, vars, QtStep, GuiStep

\* connected_ and the results in the queue say what is so.
LEMMA ResultStep ==
    QtOK /\ MutexHeld /\ ResultIsTrue /\ [Next]_vars => ResultIsTrue'
<1> SUFFICES ASSUME QtOK, MutexHeld, ResultIsTrue, [Next]_vars, IsQt, orderly', ~quitting'
             PROVE  ResultIsTrue'
  BY ProgramFixed DEF ResultIsTrue, IsQt
<1>1. orderly /\ ~quitting
  BY OrderlyBefore
<1>2. /\ \A i, j \in ResultAt : i = j
      /\ ~ConnJoinable => ResultAt = {}
      /\ ~ConnJoinable \/ ResultAt # {} => ~connected
      /\ connected \/ connThread = "post" \/ OkAt # {} => isOpen
      /\ gui = "c.join" => ~connected /\ ConnJoinable /\ ResultAt = {}
      /\ gui \in HoldsAsGui => connected
  BY <1>1 DEF ResultIsTrue
<1>3. OkAt \subseteq ResultAt
  BY DEF OkAt
<1>4. ASSUME queue' = queue PROVE ResultAt' = ResultAt /\ OkAt' = OkAt
  BY <1>4 DEF OkAt, ResultAt
<1> USE DEF ResultIsTrue, ConnJoinable, HoldsAsGui
<1>5. CASE PortStep /\ UNCHANGED <<qtVars, consumerVars>>
  <2>1. isOpen' = isOpen
    BY <1>5 DEF PortStep, WorkerStep, WorkerReads, WorkerFails, WorkerEnds, DeviceSends,
       DeviceUnplugged
  <2> QED
    BY <1>2, <1>4, <1>5, <2>1 DEF qtVars
<1>6. CASE ConsumerStep
  BY <1>6, ConsumersAlone
<1>7. CASE ConnectPort
  <2>1. ~ResultToCome
    BY <1>7 DEF ConnectPort
  <2>2. ConnJoinable /\ ResultAt = {}
    BY <2>1 DEF ResultToCome, ResultAt
  <2> QED
    BY <1>2, <1>3, <1>4, <1>7, <2>2 DEF ConnectPort, portVars
<1>8. CASE ConnectStart \/ ConnLock \/ ConnAsks
  BY <1>2, <1>3, <1>4, <1>8 DEF ConnectStart, ConnLock, ConnAsks, portVars
<1>9. CASE ConnReopens
  BY <1>2, <1>3, <1>4, <1>9 DEF ConnReopens, ClosePort, qtVars
<1>10. ASSUME NEW ok \in BOOLEAN, Opened(ok), ~ConnJoinable PROVE ResultIsTrue'
  BY <1>2, <1>3, <1>4, <1>10 DEF Opened, OpenSucceeds, OpenFails, portVars
<1>11. CASE ConnOpens \/ AnswerArrives \/ AnswerTimesOut
  BY <1>10, <1>11 DEF ConnOpens, AnswerArrives, AnswerTimesOut
<1>12. CASE ConnPosts
  <2>1. Result(connThread = "post") \in Results \cup Errors
    BY DEF Result, Results
  <2>2. /\ ResultAt' = ResultAt \cup {Len(queue) + 1}
        /\ OkAt' = OkAt \cup (IF connThread = "post" THEN {Len(queue) + 1} ELSE {})
    BY <1>12, <2>1, KindsGrow DEF ConnPosts, Result
  <2> QED
    BY <1>2, <1>3, <1>12, <2>2 DEF ConnPosts, portVars
<1>13. CASE HandleResult
  <2>1. 1 \in ResultAt /\ (Head(queue).ok => 1 \in OkAt)
    BY <1>13, KindsShrink DEF HandleResult
  <2>2. ResultAt' = {}
    <3> SUFFICES ASSUME NEW i \in ResultAt' PROVE FALSE
      OBVIOUS
    <3>1. i + 1 \in ResultAt /\ i \in Nat \ {0}
      BY <1>13, KindsShrink DEF HandleResult
    <3> QED
      BY <1>2, <2>1, <3>1
  <2>3. OkAt' = {}
    BY <2>2 DEF OkAt
  <2> QED
    BY <1>2, <1>13, <2>1, <2>2, <2>3 DEF HandleResult, portVars
<1>14. CASE HandleError
  <2>1. /\ \A i \in ResultAt' : i + 1 \in ResultAt /\ i \in Nat
        /\ \A i \in OkAt' : i + 1 \in OkAt
    BY <1>14, KindsShrink DEF HandleError
  <2>2. \A i, j \in ResultAt' : i = j
    BY <1>2, <2>1
  <2>3. (ResultAt = {} => ResultAt' = {}) /\ (OkAt = {} => OkAt' = {})
    BY <2>1
  <2> QED
    BY <1>2, <1>14, <2>2, <2>3 DEF HandleError, portVars
<1>15. CASE DisconnectPort \/ DisconnectJoin
  BY <1>2, <1>4, <1>15 DEF DisconnectPort, DisconnectJoin, portVars
<1>16. CASE DisconnectLock \/ ErrorLock
  BY <1>1, <1>2, <1>4, <1>16 DEF DisconnectLock, ErrorLock, AfterDisconnect, portVars
<1>17. CASE DisconnectClose \/ ErrorClose
  <2>1. ConnJoinable /\ ResultAt = {}
    BY <1>2, <1>17 DEF DisconnectClose, ErrorClose
  <2> QED
    BY <1>1, <1>2, <1>3, <1>4, <1>17, <2>1 DEF DisconnectClose, ErrorClose, AfterDisconnect
<1>18. CASE QuitJoin \/ QuitCallbacks \/ QuitBackend
  BY <1>1, <1>18 DEF QuitJoin, QuitCallbacks, QuitBackend, MutexHeld
<1>19. CASE Quit
  BY <1>19 DEF Quit
<1>20. ASSUME NEW s \in Sessions, OnReadyRead(s) \/ OnError(s) \/ SendFails(s)
       PROVE  ResultIsTrue'
  <2>1. ResultAt' = ResultAt /\ OkAt' = OkAt
    <3>1. ErrorOf(s) \in Results \cup Errors /\ ErrorOf(s).kind = "error"
      BY DEF ErrorOf, Errors
    <3> QED
      BY <1>4, <1>20, <3>1, KindsGrow DEF OnReadyRead, OnError, SendFails, qtVars
  <2> QED
    BY <1>2, <1>20, <2>1 DEF OnReadyRead, OnError, SendFails, qtVars
<1>21. CASE UNCHANGED vars
  BY <1>2, <1>4, <1>21 DEF vars, portVars, qtVars
<1> QED
  BY <1>5, <1>6, <1>7, <1>8, <1>9, <1>11, <1>12, <1>13, <1>14, <1>15, <1>16, <1>17, <1>18, <1>19,
     <1>20, <1>21
     DEF Next, Ended, QtStep, ConnStep, GuiStep, UserStep, QtCallbacks

-----------------------------------------------------------------------------
(***************************************************************************)
(* The errors in the queue.                                                 *)
(***************************************************************************)

\* The worker of a session that is to come has not been started.
LEMMA NoneToComeStep ==
    ASSUME PortOK, [Next]_vars, \A s \in Sessions : worker[s] # "none" => s <= session
    PROVE  /\ session' \in {session, session + 1}
           /\ \A s \in Sessions : worker'[s] # "none" => s <= session'
<1> USE DEF PortOK
<1>1. CASE OpenSucceeds
  BY <1>1 DEF OpenSucceeds, Sessions
<1>2. CASE ClosePort
  BY <1>2 DEF ClosePort, Join
<1>3. CASE Keeps
  BY <1>3 DEF Keeps
<1>4. ASSUME NEW r \in Sessions, Moves(r)
      PROVE  session' = session /\ \A s \in Sessions : worker'[s] # "none" => s <= session'
  <2>1. session' = session /\ r <= session
    BY <1>4 DEF Moves, WorkerStep, WorkerReads, WorkerFails, WorkerEnds, SendFails, Callbacks,
       Sessions
  <2>2. \E p \in WorkerPoints : worker' = [worker EXCEPT ![r] = p]
    BY <1>4 DEF Moves, WorkerStep, WorkerReads, WorkerFails, WorkerEnds, SendFails,
       CallbackReturns, WorkerPoints, Callbacks
  <2> QED
    BY <2>1, <2>2
<1> QED
  BY <1>1, <1>2, <1>3, <1>4, StepKinds

\* A session's errors are behind the result of the connectPort() that opened it.
LEMMA ErrorsFollowStep ==
    PortOK /\ QtOK /\ ErrorsFollowResult /\ [Next]_vars => ErrorsFollowResult'
<1> SUFFICES ASSUME PortOK, QtOK, ErrorsFollowResult, [Next]_vars
             PROVE  ErrorsFollowResult'
  OBVIOUS
<1>1. /\ session \in Nat /\ failed \in Nat
      /\ failed <= session /\ \A i \in ErrorAt : queue[i].session <= session
      /\ \A s \in Sessions : worker[s] # "none" => s <= session
      /\ session \notin early =>
           /\ \A i \in ErrorAt : queue[i].session = session =>
                connThread # "post" /\ \A j \in OkAt : j < i
           /\ session \in Handled => connThread # "post" /\ OkAt = {}
  BY DEF ErrorsFollowResult, PortOK, QtOK
<1>2. /\ session' \in {session, session + 1}
      /\ \A s \in Sessions : worker'[s] # "none" => s <= session'
  BY <1>1, NoneToComeStep
<1>3. ASSUME queue' = queue PROVE OkAt' = OkAt /\ ErrorAt' = ErrorAt
  BY <1>3 DEF OkAt, ErrorAt, ResultAt
<1>4. ASSUME UNCHANGED <<queue, session, early>>, Handled' \subseteq Handled,
             failed' \in {failed, 0}, connThread' = "post" => connThread = "post"
      PROVE  ErrorsFollowResult'
  BY <1>1, <1>2, <1>3, <1>4 DEF ErrorsFollowResult
<1> USE DEF Handled
<1>5. CASE UNCHANGED qtVars /\ session' = session
  BY <1>4, <1>5 DEF qtVars
<1>6. CASE PortStep /\ UNCHANGED <<qtVars, consumerVars>>
  <2>1. session' = session
    BY <1>6 DEF PortStep, WorkerStep, WorkerReads, WorkerFails, WorkerEnds, DeviceSends,
       DeviceUnplugged
  <2> QED
    BY <1>5, <1>6, <2>1
<1>7. ASSUME UNCHANGED <<queue, failed, gui>>, session' = session + 1 PROVE ErrorsFollowResult'
  <2>1. failed' <= session' /\ session' \notin Handled'
    BY <1>1, <1>7
  <2>2. \A i \in ErrorAt' : queue'[i].session <= session
    BY <1>1, <1>3, <1>7
  <2>3. ASSUME NEW i \in ErrorAt' PROVE queue'[i].session \in Nat
    <3>1. queue \in Seq(Results \cup Errors) /\ i \in 1..Len(queue) /\ queue' = queue
      BY <1>3, <1>7 DEF ErrorAt, QtOK
    <3>2. queue[i] \in Results \cup Errors
      BY <3>1, ElementOfSeq
    <3>3. \A m \in Results \cup Errors : m.session \in {0} \cup Sessions
      BY DEF Results, Errors
    <3>4. queue[i].session \in {0} \cup Sessions
      BY <3>2, <3>3
    <3> QED
      BY <3>1, <3>4 DEF Sessions
  <2>4. \A i \in ErrorAt' : queue'[i].session <= session' /\ queue'[i].session # session'
    BY <1>1, <1>7, <2>2, <2>3
  <2> QED
    BY <1>2, <2>1, <2>4 DEF ErrorsFollowResult
<1>8. CASE ConsumerStep /\ UNCHANGED qtVars
  BY <1>2, <1>5, <1>7, <1>8 DEF qtVars
<1>9. CASE ConnectPort \/ ConnectStart \/ ConnLock \/ ConnAsks
  BY <1>4, <1>9 DEF ConnectPort, ConnectStart, ConnLock, ConnAsks, portVars
<1>10. CASE ConnReopens
  BY <1>5, <1>10 DEF ConnReopens, ClosePort
<1>11. ASSUME NEW ok \in BOOLEAN, Opened(ok) PROVE ErrorsFollowResult'
  <2>1. CASE ok
    <3>1. UNCHANGED <<queue, failed, gui>> /\ session' = session + 1
      BY <1>11, <2>1 DEF Opened, OpenSucceeds
    <3> QED
      BY <1>7, <3>1
  <2>2. CASE ~ok
    BY <1>4, <1>11, <2>2 DEF Opened, OpenFails, portVars
  <2> QED
    BY <2>1, <2>2
<1>12. CASE ConnOpens \/ AnswerArrives \/ AnswerTimesOut
  BY <1>11, <1>12 DEF ConnOpens, AnswerArrives, AnswerTimesOut
<1>13. CASE ConnPosts
  <2>1. Result(connThread = "post") \in Results \cup Errors
    BY DEF Result, Results
  <2>2. /\ ErrorAt' = ErrorAt
        /\ OkAt' = OkAt \cup (IF connThread = "post" THEN {Len(queue) + 1} ELSE {})
        /\ \A i \in ErrorAt : queue'[i] = queue[i]
    BY <1>13, <2>1, KindsGrow DEF ConnPosts, Result
  <2>3. UNCHANGED <<session, failed, early, gui>> /\ connThread' # "post"
    BY <1>13 DEF ConnPosts, portVars
  <2> QED
    BY <1>1, <1>2, <2>2, <2>3 DEF ErrorsFollowResult
<1>14. CASE HandleResult
  <2>1. /\ \A i \in ErrorAt' : i + 1 \in ErrorAt /\ queue'[i] = queue[i + 1] /\ i \in Nat
        /\ \A i \in OkAt' : i + 1 \in OkAt /\ i \in Nat
    BY <1>14, KindsShrink DEF HandleResult
  <2>2. UNCHANGED <<session, failed, early, connThread>> /\ Handled' = {}
    BY <1>14 DEF HandleResult, portVars
  <2> QED
    BY <1>1, <1>2, <2>1, <2>2 DEF ErrorsFollowResult
<1>15. CASE HandleError
  <2>1. /\ \A i \in ErrorAt' : i + 1 \in ErrorAt /\ queue'[i] = queue[i + 1] /\ i \in Nat
        /\ \A i \in OkAt' : i + 1 \in OkAt /\ i \in Nat
        /\ 1 \in ErrorAt /\ Head(queue) = queue[1]
    BY <1>15, KindsShrink DEF HandleError
  <2>2. UNCHANGED <<session, early, connThread>> /\ failed' = queue[1].session
    BY <1>15, <2>1 DEF HandleError, portVars
  <2>3. ASSUME session \notin early, failed' = session PROVE connThread # "post" /\ OkAt' = {}
    <3>1. connThread # "post" /\ \A j \in OkAt : j < 1
      BY <1>1, <2>1, <2>2, <2>3
    <3>2. \A i \in OkAt' : FALSE
      BY <2>1, <3>1
    <3> QED
      BY <3>1, <3>2
  <2> QED
    BY <1>1, <1>2, <2>1, <2>2, <2>3 DEF ErrorsFollowResult
<1>16. CASE DisconnectPort \/ DisconnectJoin \/ DisconnectLock \/ ErrorLock
  BY <1>4, <1>16 DEF DisconnectPort, DisconnectJoin, DisconnectLock, ErrorLock, AfterDisconnect,
     portVars
<1>17. CASE DisconnectClose \/ ErrorClose \/ QuitBackend
  BY <1>4, <1>17 DEF DisconnectClose, ErrorClose, QuitBackend, ClosePort, AfterDisconnect
<1>18. CASE Quit \/ QuitJoin \/ QuitCallbacks
  BY <1>4, <1>18 DEF Quit, QuitJoin, QuitCallbacks, DestroyCallbacks, portVars
<1>19. ASSUME NEW s \in Sessions, OnReadyRead(s) \/ SendFails(s)
       PROVE  ErrorsFollowResult'
  BY <1>5, <1>19 DEF OnReadyRead, SendFails
<1>20. ASSUME NEW s \in Sessions, OnError(s) PROVE ErrorsFollowResult'
  <2>1. UNCHANGED <<session, failed, gui, connThread>> /\ s <= session
    BY <1>1, <1>20 DEF OnError
  <2>2. early' = (IF connThread = "post" /\ s = session THEN early \cup {s} ELSE early)
    BY <1>20 DEF OnError
  <2>3. CASE queue' = queue
    BY <1>1, <1>2, <1>3, <2>1, <2>2, <2>3 DEF ErrorsFollowResult
  <2>4. CASE queue' = Append(queue, ErrorOf(s))
    <3>1. ErrorOf(s) \in Results \cup Errors /\ ErrorOf(s).kind = "error" /\ ErrorOf(s).session = s
      BY DEF ErrorOf, Errors
    <3>2. /\ OkAt' = OkAt /\ ErrorAt' = ErrorAt \cup {Len(queue) + 1}
          /\ \A i \in ErrorAt : queue'[i] = queue[i]
          /\ queue'[Len(queue) + 1].session = s /\ Len(queue) \in Nat
      BY <2>4, <3>1, KindsGrow
    <3>3. \A j \in OkAt : j < Len(queue) + 1
      BY <3>2 DEF OkAt, ResultAt
    <3>4. \A i \in ErrorAt' : queue'[i].session <= session
      BY <1>1, <2>1, <3>2
    <3>5. ASSUME session \notin early', NEW i \in ErrorAt', queue'[i].session = session
          PROVE  connThread # "post" /\ \A j \in OkAt : j < i
      BY <1>1, <2>1, <2>2, <3>2, <3>3, <3>5
    <3> QED
      BY <1>1, <1>2, <2>1, <2>2, <3>2, <3>4, <3>5 DEF ErrorsFollowResult
  <2> QED
    BY <1>20, <2>3, <2>4 DEF OnError
<1>21. CASE UNCHANGED vars
  BY <1>5, <1>21 DEF vars, portVars
<1> QED
  BY <1>6, <1>8, <1>9, <1>10, <1>12, <1>13, <1>14, <1>15, <1>16, <1>17, <1>18, <1>19, <1>20, <1>21
     DEF Next, Ended, QtStep, ConnStep, GuiStep, UserStep, QtCallbacks

\* On the desktop the errors there are once connected_ is set are the port's.
LEMMA ErrorsOfSessionStep ==
    /\ QtOK /\ MutexHeld /\ WorkersJoined /\ ResultIsTrue /\ ErrorsAreOfSession
    /\ [Next]_vars
    => ErrorsAreOfSession'
<1> SUFFICES ASSUME QtOK, MutexHeld, WorkersJoined, ResultIsTrue, ErrorsAreOfSession,
                    [Next]_vars, IsQt, orderly', ~quitting', platform # "android"
             PROVE  ErrorsAreOfSession'
  BY ProgramFixed DEF ErrorsAreOfSession, IsQt
<1>1. orderly /\ ~quitting
  BY OrderlyBefore
<1>2. /\ \A i \in ErrorAt, j \in OkAt : j < i => queue[i].session = session
      /\ connected => Handled \subseteq {session} /\ \A i \in ErrorAt : queue[i].session = session
  BY <1>1 DEF ErrorsAreOfSession
<1>3. /\ ~ConnJoinable => ResultAt = {} /\ ~connected
      /\ connected \/ OkAt # {} => isOpen
      /\ OkAt \subseteq ResultAt
  BY <1>1 DEF ResultIsTrue, OkAt
<1>4. ASSUME queue' = queue PROVE OkAt' = OkAt /\ ErrorAt' = ErrorAt
  BY <1>4 DEF OkAt, ErrorAt, ResultAt
<1>5. ASSUME UNCHANGED <<queue, session>>, Handled' \subseteq Handled, connected' => connected
      PROVE  ErrorsAreOfSession'
  BY <1>2, <1>4, <1>5 DEF ErrorsAreOfSession
<1> USE DEF Handled
<1>6. CASE PortStep /\ UNCHANGED <<qtVars, consumerVars>>
  <2>1. session' = session
    BY <1>6 DEF PortStep, WorkerStep, WorkerReads, WorkerFails, WorkerEnds, DeviceSends,
       DeviceUnplugged
  <2> QED
    BY <1>5, <1>6, <2>1 DEF qtVars
<1>7. CASE ConsumerStep
  BY <1>7, ConsumersAlone
<1>8. CASE ConnectPort \/ ConnectStart \/ ConnLock \/ ConnAsks
  BY <1>5, <1>8 DEF ConnectPort, ConnectStart, ConnLock, ConnAsks, portVars
<1>9. CASE ConnReopens
  BY <1>5, <1>9 DEF ConnReopens, ClosePort, qtVars
<1>10. ASSUME NEW ok \in BOOLEAN, Opened(ok), ~ConnJoinable PROVE ErrorsAreOfSession'
  <2>1. OkAt' = {} /\ ~connected'
    BY <1>3, <1>4, <1>10 DEF Opened
  <2> QED
    BY <2>1 DEF ErrorsAreOfSession
<1>11. CASE ConnOpens \/ AnswerArrives \/ AnswerTimesOut
  BY <1>10, <1>11 DEF ConnOpens, AnswerArrives, AnswerTimesOut, ConnJoinable
<1>12. CASE ConnPosts
  <2>1. Result(connThread = "post") \in Results \cup Errors
    BY DEF Result, Results
  <2>2. /\ ErrorAt' = ErrorAt /\ OkAt' \subseteq OkAt \cup {Len(queue) + 1}
        /\ \A i \in ErrorAt : i \in 1..Len(queue) /\ Len(queue) \in Nat
    BY <1>12, <2>1, KindsGrow DEF ConnPosts, Result
  <2>3. OkAt = {} /\ ~connected
    BY <1>3, <1>12 DEF ConnPosts, ConnJoinable
  <2>4. \A i \in ErrorAt', j \in OkAt' : ~(j < i)
    BY <2>2, <2>3
  <2> QED
    BY <1>12, <2>3, <2>4 DEF ErrorsAreOfSession, ConnPosts
<1>13. CASE HandleResult
  <2>1. /\ \A i \in ErrorAt' : i + 1 \in ErrorAt /\ queue'[i] = queue[i + 1] /\ i \in Nat \ {0}
        /\ \A i \in OkAt' : i + 1 \in OkAt /\ i \in Nat
        /\ Head(queue).ok => 1 \in OkAt
    BY <1>13, KindsShrink DEF HandleResult
  <2>2. session' = session /\ Handled' = {} /\ connected' = (connected \/ Head(queue).ok)
    BY <1>13 DEF HandleResult, portVars
  <2>3. \A i \in ErrorAt', j \in OkAt' : j < i => queue'[i].session = session
    BY <1>2, <2>1
  <2>4. ASSUME connected', NEW i \in ErrorAt' PROVE queue'[i].session = session
    <3>1. CASE connected
      BY <1>2, <2>1, <3>1
    <3>2. CASE Head(queue).ok
      <4>1. 1 \in OkAt /\ i + 1 \in ErrorAt /\ 1 < i + 1 /\ queue'[i] = queue[i + 1]
        BY <2>1, <2>4, <3>2
      <4> QED
        BY <1>2, <4>1
    <3> QED
      BY <2>2, <2>4, <3>1, <3>2
  <2> QED
    BY <2>2, <2>3, <2>4 DEF ErrorsAreOfSession
<1>14. CASE HandleError
  <2>1. /\ \A i \in ErrorAt' : i + 1 \in ErrorAt /\ queue'[i] = queue[i + 1] /\ i \in Nat \ {0}
        /\ \A i \in OkAt' : i + 1 \in OkAt /\ i \in Nat
        /\ 1 \in ErrorAt /\ Head(queue) = queue[1]
    BY <1>14, KindsShrink DEF HandleError
  <2>2. UNCHANGED <<session, connected>> /\ failed' = queue[1].session
    BY <1>14, <2>1 DEF HandleError, portVars
  <2>3. \A i \in ErrorAt', j \in OkAt' : j < i => queue'[i].session = session
    BY <1>2, <2>1
  <2>4. connected => failed' = session /\ \A i \in ErrorAt' : queue'[i].session = session
    BY <1>2, <2>1, <2>2
  <2> QED
    BY <2>2, <2>3, <2>4 DEF ErrorsAreOfSession
<1>15. CASE DisconnectPort \/ DisconnectJoin \/ DisconnectLock \/ ErrorLock
  BY <1>5, <1>15 DEF DisconnectPort, DisconnectJoin, DisconnectLock, ErrorLock, AfterDisconnect,
     portVars
<1>16. CASE DisconnectClose \/ ErrorClose
  BY <1>5, <1>16 DEF DisconnectClose, ErrorClose, ClosePort, AfterDisconnect
<1>17. CASE QuitJoin \/ QuitCallbacks \/ QuitBackend
  BY <1>1, <1>17 DEF QuitJoin, QuitCallbacks, QuitBackend, MutexHeld
<1>18. CASE Quit
  BY <1>18 DEF Quit
<1>19. ASSUME NEW s \in Sessions, OnReadyRead(s) \/ SendFails(s)
       PROVE  ErrorsAreOfSession'
  BY <1>5, <1>19 DEF OnReadyRead, SendFails, qtVars
<1>20. ASSUME NEW s \in Sessions, OnError(s) PROVE ErrorsAreOfSession'
  <2>1. UNCHANGED <<session, failed, gui, connected>> /\ worker[s] = "onError"
    BY <1>20 DEF OnError
  <2>2. isOpen => s = session
    BY <2>1 DEF WorkersJoined
  <2>3. CASE queue' = queue
    BY <1>5, <2>1, <2>3
  <2>4. CASE queue' = Append(queue, ErrorOf(s))
    <3>1. ErrorOf(s) \in Results \cup Errors /\ ErrorOf(s).kind = "error" /\ ErrorOf(s).session = s
      BY DEF ErrorOf, Errors
    <3>2. /\ OkAt' = OkAt /\ ErrorAt' = ErrorAt \cup {Len(queue) + 1}
          /\ \A i \in ErrorAt : queue'[i] = queue[i]
          /\ queue'[Len(queue) + 1].session = s
      BY <2>4, <3>1, KindsGrow
    <3>3. \A i \in ErrorAt', j \in OkAt' : j < i => queue'[i].session = session
      BY <1>2, <1>3, <2>2, <3>2
    <3>4. connected => \A i \in ErrorAt' : queue'[i].session = session
      BY <1>2, <1>3, <2>2, <3>2
    <3> QED
      BY <1>2, <2>1, <3>3, <3>4 DEF ErrorsAreOfSession
  <2> QED
    BY <1>20, <2>3, <2>4 DEF OnError
<1>21. CASE UNCHANGED vars
  BY <1>5, <1>21 DEF vars, portVars, qtVars
<1> QED
  BY <1>6, <1>7, <1>8, <1>9, <1>11, <1>12, <1>13, <1>14, <1>15, <1>16, <1>17, <1>18, <1>19, <1>20,
     <1>21
     DEF Next, Ended, QtStep, ConnStep, GuiStep, UserStep, QtCallbacks

-----------------------------------------------------------------------------
(***************************************************************************)
(* The bytes in readBuffer_.                                                *)
(***************************************************************************)

\* A worker goes on, and neither into onReadyRead nor out of it.
Passes(s) ==
    /\ worker[s] # "onReadyRead" /\ \E p \in WorkerPoints \ {"onReadyRead"} :
                                     worker' = [worker EXCEPT ![s] = p]
    /\ UNCHANGED <<cbs, isOpen, session, buffered>>
ReadCallback(s) == OnReadyRead(s) \/ CReadyRead(s) \/ GoReadyRead(s)

\* What a step can do to them.
LEMMA BufferKinds ==
    ASSUME PortOK, [Next]_vars
    PROVE  \/ OpenSucceeds \/ ClosePort \/ GoReads
           \/ Keeps /\ buffered' = buffered
           \/ \E s \in Sessions : WorkerReads(s) \/ ReadCallback(s) \/ Passes(s)
<1> USE DEF Keeps
<1>1. CASE PortStep
  <2>1. ASSUME NEW s \in Sessions, WorkerFails(s) \/ WorkerEnds(s) PROVE Passes(s)
    BY <2>1 DEF WorkerFails, WorkerEnds, Passes, WorkerPoints, Callbacks
  <2>2. CASE DeviceSends \/ DeviceUnplugged
    BY <2>2 DEF DeviceSends, DeviceUnplugged
  <2> QED
    BY <1>1, <2>1, <2>2 DEF PortStep, WorkerStep
<1>2. CASE QtStep
  <2>1. ASSUME NEW s \in Sessions, OnError(s) \/ SendFails(s) PROVE Passes(s)
    BY <2>1 DEF OnError, SendFails, CallbackReturns, Passes, WorkerPoints, Callbacks
  <2>2. CASE ConnStep \/ AnswerTimesOut
    BY <2>2 DEF ConnStep, AnswerTimesOut, ConnLock, ConnReopens, ConnAsks, ConnOpens,
       AnswerArrives, ConnPosts, Opened, OpenFails, portVars
  <2>3. CASE GuiStep \/ ConnectPort \/ DisconnectPort \/ Quit
    BY <2>3 DEF GuiStep, ConnectPort, DisconnectPort, Quit, ConnectStart, DisconnectJoin,
       DisconnectLock, DisconnectClose, HandleResult, HandleError, ErrorLock, ErrorClose, QuitJoin,
       QuitCallbacks, QuitBackend, DestroyCallbacks, portVars
  <2> QED
    BY <1>2, <2>1, <2>2, <2>3 DEF QtStep, UserStep, QtCallbacks, ReadCallback
<1>3. CASE ConsumerStep
  <2>1. CASE ConsumerCallbacks
    BY <2>1 DEF ConsumerCallbacks, ReadCallback
  <2>2. CASE MainStep \/ IdleTick \/ EnterPressed
    BY <2>2 DEF MainStep, AvailablePortsCalled, FindPortByVID, ReleasePorts, ListPrinted,
       InstallCallbacks,
       OpenPort, WriteHello, EnterPressed, ClosesPort, FreesCallbacks, FreesBackend,
       SignalReceived, IdleTick, BytesAvailable, OpenFails, DestroyCallbacks, portVars
  <2> QED
    BY <1>3, <2>1, <2>2 DEF ConsumerStep
<1> QED
  BY <1>1, <1>2, <1>3 DEF Next, Ended, vars, portVars

\* What a step of each kind does to the workers in onReadyRead.
LEMMA ReadersMove ==
    ASSUME PortOK, ErrorsFollowResult
    PROVE  /\ OpenSucceeds \/ Keeps => InReadyRead' = InReadyRead
           /\ \A s \in Sessions :
                /\ Passes(s) => InReadyRead' = InReadyRead
                /\ WorkerReads(s) =>
                     /\ s \notin InReadyRead
                     /\ cbs = "set" => InReadyRead' = InReadyRead \cup {s}
                /\ ReadCallback(s) => s \in InReadyRead /\ InReadyRead' = InReadyRead \ {s}
<1>1. worker \in [Sessions -> WorkerPoints]
  BY DEF PortOK
<1>2. ASSUME OpenSucceeds PROVE InReadyRead' = InReadyRead
  <2>1. session + 1 \in Sessions /\ worker[session + 1] = "none"
    BY <1>1, <1>2 DEF OpenSucceeds, ErrorsFollowResult, PortOK, Sessions
  <2> QED
    BY <1>1, <1>2, <2>1 DEF OpenSucceeds, InReadyRead
<1>3. Keeps => InReadyRead' = InReadyRead
  BY DEF Keeps, InReadyRead
<1>4. ASSUME NEW s \in Sessions
      PROVE  /\ Passes(s) => InReadyRead' = InReadyRead
             /\ WorkerReads(s) =>
                  /\ s \notin InReadyRead
                  /\ cbs = "set" => InReadyRead' = InReadyRead \cup {s}
             /\ ReadCallback(s) => s \in InReadyRead /\ InReadyRead' = InReadyRead \ {s}
  <2>1. Passes(s) => InReadyRead' = InReadyRead
    BY <1>1 DEF Passes, InReadyRead
  <2>2. WorkerReads(s) =>
          /\ s \notin InReadyRead
          /\ cbs = "set" => InReadyRead' = InReadyRead \cup {s}
    BY <1>1 DEF WorkerReads, InReadyRead
  <2>3. ReadCallback(s) => s \in InReadyRead /\ InReadyRead' = InReadyRead \ {s}
    BY <1>1 DEF ReadCallback, OnReadyRead, CReadyRead, GoReadyRead, CallbackReturns, InReadyRead
  <2> QED
    BY <2>1, <2>2, <2>3
<1> QED
  BY <1>2, <1>3, <1>4

\* There are finitely many of them.
LEMMA ReadersCounted ==
    /\ \A S \in SUBSET Sessions : IsFiniteSet(S) /\ Cardinality(S) \in Nat
    /\ InReadyRead \in SUBSET Sessions
<1>1. IsFiniteSet(Sessions)
  BY FS_Interval DEF Sessions
<1> QED
  BY <1>1, FS_Subset, FS_CardinalityType DEF InReadyRead

\* A closed port has no byte.
LEMMA ClosedIsEmpty ==
    ASSUME PortOK, ReadsOwed, [Next]_vars
    PROVE  ~isOpen' => buffered' = 0
<1> USE DEF PortOK, ReadsOwed
<1>1. CASE OpenSucceeds \/ ClosePort \/ (Keeps /\ buffered' = buffered)
  BY <1>1 DEF OpenSucceeds, ClosePort, Keeps
<1>2. CASE GoReads
  BY <1>2 DEF GoReads, Pop
<1>3. CASE \E s \in Sessions : WorkerReads(s) \/ Passes(s)
  BY <1>3 DEF WorkerReads, Passes
<1>4. CASE \E s \in Sessions : ReadCallback(s)
  BY <1>4 DEF ReadCallback, OnReadyRead, CReadyRead, GoReadyRead, Pop, ReadyReadMax
<1> QED
  BY <1>1, <1>2, <1>3, <1>4, BufferKinds

\* The callbacks are set where the port is closed, and else only destroyed.
LEMMA SetWhenClosed ==
    ASSUME ConsoleClosed, [Next]_vars, cbs' = "set"
    PROVE  cbs = "set" \/ (~isOpen /\ UNCHANGED buffered)
<1>1. CASE PortStep
  BY <1>1 DEF PortStep, WorkerStep, WorkerReads, WorkerFails, WorkerEnds, DeviceSends,
     DeviceUnplugged
<1>2. CASE QtStep
  BY <1>2 DEF QtStep, ConnStep, AnswerTimesOut, GuiStep, UserStep, QtCallbacks, portVars,
     ConnLock, ConnReopens, ConnAsks, ConnOpens, AnswerArrives, ConnPosts, Opened, OpenSucceeds,
     OpenFails, ClosePort, DestroyCallbacks, ConnectStart, DisconnectJoin, DisconnectLock,
     DisconnectClose, HandleResult, HandleError, ErrorLock, ErrorClose, QuitJoin, QuitCallbacks,
     QuitBackend, ConnectPort, DisconnectPort, Quit, SendFails, OnReadyRead, OnError
<1>3. CASE InstallCallbacks
  BY <1>3 DEF InstallCallbacks, ConsoleClosed, ClosedHere
<1>4. CASE ConsumerStep /\ ~InstallCallbacks
  BY <1>4 DEF ConsumerStep, MainStep, ConsumerCallbacks, portVars, OpenSucceeds, OpenFails,
     ClosePort, DestroyCallbacks, AvailablePortsCalled, FindPortByVID, ReleasePorts, ListPrinted,
     OpenPort, WriteHello, EnterPressed, ClosesPort, FreesCallbacks,
     FreesBackend, SignalReceived, IdleTick, BytesAvailable, GoReads, CReadyRead, GoReadyRead
<1> QED
  BY <1>1, <1>2, <1>3, <1>4 DEF Next, Ended, vars, portVars

\* In a Qt terminal each worker in onReadyRead has left a chunk at most: it takes
\* as much out.
LEMMA ChunksOwed ==
    ASSUME PortOK, MutexHeld, ErrorsFollowResult, ConsoleClosed, ReadsOwed, [Next]_vars,
           cbs' = "set", IsQt
    PROVE  buffered' <= ChunkSize * Cardinality(InReadyRead')
<1> DEFINE n == Cardinality(InReadyRead)
           m == Cardinality(InReadyRead')
<1>1. InReadyRead \in SUBSET Sessions /\ IsFiniteSet(InReadyRead) /\ n \in Nat
  BY ReadersCounted
<1>2. InReadyRead' \in SUBSET Sessions /\ m \in Nat
  <2>1. InReadyRead' \in SUBSET Sessions
    BY DEF InReadyRead
  <2> QED
    BY <2>1, ReadersCounted
<1>3. buffered \in Nat /\ ChunkSize \in Nat /\ CabiBufSize \in Nat /\ ChunkSize <= CabiBufSize
  BY DEF PortOK
<1>4. \A k \in Nat : /\ ChunkSize * k >= 0
                     /\ ChunkSize * (k + 1) = ChunkSize * k + ChunkSize
  BY <1>3
<1>5. buffered <= ChunkSize * n
  BY <1>1, <1>3, <1>4, SetWhenClosed DEF ReadsOwed
<1>6. CASE OpenSucceeds \/ (Keeps /\ buffered' = buffered)
  <2>1. InReadyRead' = InReadyRead /\ buffered' = buffered
    BY <1>6, ReadersMove DEF OpenSucceeds
  <2> QED
    BY <1>5, <2>1
<1>7. CASE ClosePort
  <2>1. buffered' = 0
    BY <1>7 DEF ClosePort
  <2> QED
    BY <1>2, <1>4, <2>1
<1>8. CASE GoReads
  BY <1>8 DEF GoReads, MutexHeld
<1>9. ASSUME NEW s \in Sessions, Passes(s) PROVE buffered' <= ChunkSize * m
  <2>1. InReadyRead' = InReadyRead /\ buffered' = buffered
    BY <1>9, ReadersMove DEF Passes
  <2> QED
    BY <1>5, <2>1
<1>10. ASSUME NEW s \in Sessions, WorkerReads(s) PROVE buffered' <= ChunkSize * m
  <2>1. cbs = "set" /\ buffered' \in Nat /\ buffered' <= buffered + ChunkSize
    BY <1>3, <1>10 DEF WorkerReads
  <2>2. s \notin InReadyRead /\ InReadyRead' = InReadyRead \cup {s}
    BY <1>10, <2>1, ReadersMove
  <2>3. m = n + 1
    BY <1>1, <2>2, FS_AddElement
  <2> HIDE DEF n, m
  <2>4. ChunkSize * m = ChunkSize * n + ChunkSize /\ ChunkSize * n \in Int
    BY <1>1, <1>3, <1>4, <2>3
  <2> QED
    BY <1>3, <1>5, <2>1, <2>4
<1>11. ASSUME NEW s \in Sessions, ReadCallback(s) PROVE buffered' <= ChunkSize * m
  <2>1. OnReadyRead(s)
    BY <1>11 DEF ReadCallback, CReadyRead, GoReadyRead, IsQt
  <2>2. s \in InReadyRead /\ InReadyRead' = InReadyRead \ {s}
    BY <1>11, ReadersMove
  <2>3. n = m + 1
    <3>1. m = n - 1
      BY <1>1, <2>2, FS_RemoveElement
    <3> QED
      BY <1>1, <1>2, <3>1
  <2>4. buffered' = 0 \/ (buffered' \in Nat /\ buffered' <= buffered - ChunkSize)
    BY <1>3, <2>1 DEF OnReadyRead, Pop, ReadyReadMax
  <2> HIDE DEF n, m
  <2>5. ChunkSize * n = ChunkSize * m + ChunkSize /\ ChunkSize * m \in Nat
    BY <1>2, <1>3, <1>4, <2>3
  <2> QED
    BY <1>3, <1>5, <2>4, <2>5
<1> QED
  BY <1>6, <1>7, <1>8, <1>9, <1>10, <1>11, BufferKinds

\* Go is told of every byte, and is at it until there are none.
LEMMA SignalOwed ==
    ASSUME PortOK, MutexHeld, ErrorsFollowResult, ConsoleClosed, ReadsOwed, [Next]_vars,
           cbs' = "set", program = "go", buffered' # 0
    PROVE  ToBeRead'
<1>1. ~IsQt
  BY DEF IsQt
<1>2. CASE cbs # "set"
  BY <1>2, SetWhenClosed DEF ReadsOwed
<1>3. CASE cbs = "set" /\ UNCHANGED consumerVars
  <2>1. CASE OpenSucceeds \/ (Keeps /\ buffered' = buffered)
    BY <1>3, <2>1, ReadersMove DEF ReadsOwed, ToBeRead, OpenSucceeds, consumerVars
  <2>2. CASE ClosePort
    BY <2>2 DEF ClosePort
  <2>3. CASE GoReads
    BY <1>3, <2>3 DEF GoReads, AfterRead, consumerVars
  <2>4. ASSUME NEW s \in Sessions, WorkerReads(s) PROVE ToBeRead'
    <3>1. InReadyRead' = InReadyRead \cup {s}
      BY <1>3, <2>4, ReadersMove
    <3> QED
      BY <3>1 DEF ToBeRead
  <2>5. ASSUME NEW s \in Sessions, Passes(s) PROVE ToBeRead'
    BY <1>3, <2>5, ReadersMove DEF ReadsOwed, ToBeRead, Passes, consumerVars
  <2>6. ASSUME NEW s \in Sessions, ReadCallback(s) PROVE ToBeRead'
    BY <1>1, <1>3, <2>6 DEF ReadCallback, OnReadyRead, CReadyRead, GoReadyRead, Signalled,
       ToBeRead, consumerVars
  <2> QED
    BY <2>1, <2>2, <2>3, <2>4, <2>5, <2>6, BufferKinds
<1>4. CASE cbs = "set" /\ ConsumerStep
  <2>1. CASE SignalReceived \/ GoReads
    BY <2>1 DEF SignalReceived, GoReads, AfterRead, ToBeRead
  <2>2. CASE BytesAvailable
    BY <2>2 DEF BytesAvailable, PortOK, ToBeRead, portVars
  <2>3. CASE \E s \in Sessions : CReadyRead(s) \/ GoReadyRead(s)
    BY <2>3 DEF CReadyRead, GoReadyRead, Signalled, ToBeRead
  <2>4. CASE ClosesPort \/ FreesBackend \/ FreesCallbacks
    BY <2>4 DEF ClosesPort, FreesBackend, FreesCallbacks, DestroyCallbacks, ClosePort
  <2>5. CASE OpenPort
    <3>1. InReadyRead' = InReadyRead /\ UNCHANGED <<buffered, signal>> /\ pc = "open"
      BY <2>5, ReadersMove DEF OpenPort, OpenSucceeds, OpenFails, portVars, Keeps
    <3> QED
      BY <1>4, <3>1 DEF ReadsOwed, ToBeRead
  <2>6. CASE AvailablePortsCalled \/ FindPortByVID \/ ReleasePorts \/ ListPrinted
             \/ InstallCallbacks \/ WriteHello \/ EnterPressed \/ IdleTick
    <3>1. /\ UNCHANGED <<worker, buffered, signal>>
          /\ pc \in {"available", "read"} => pc' = pc
      BY <2>6 DEF AvailablePortsCalled, FindPortByVID, ReleasePorts, ListPrinted,
         InstallCallbacks, WriteHello,
         EnterPressed, IdleTick, portVars, consumerVars
    <3> QED
      BY <1>4, <3>1 DEF ReadsOwed, ToBeRead, InReadyRead
  <2> QED
    BY <1>4, <2>1, <2>2, <2>3, <2>4, <2>5, <2>6 DEF ConsumerStep, MainStep, ConsumerCallbacks
<1> QED
  BY <1>2, <1>3, <1>4 DEF Next, Ended, vars

\* The list program opens no port.
LEMMA ListOpensNothing ==
    ASSUME MutexHeld, ReadsOwed, [Next]_vars, program = "list"
    PROVE  ~isOpen' /\ pc' \in {"list", "exit"}
<1>1. ~IsQt /\ gui = "off" /\ connThread = "none" /\ ~isOpen /\ pc \in {"list", "exit"}
  BY DEF MutexHeld, IsQt, ReadsOwed
<1>2. CASE PortStep /\ UNCHANGED consumerVars
  BY <1>1, <1>2 DEF PortStep, WorkerStep, WorkerReads, WorkerFails, WorkerEnds, DeviceSends,
     DeviceUnplugged, consumerVars
<1>3. CASE QtStep /\ UNCHANGED consumerVars
  <2>1. CASE \E s \in Sessions : OnReadyRead(s) \/ OnError(s) \/ SendFails(s)
    BY <1>1, <1>3, <2>1 DEF OnReadyRead, OnError, SendFails, consumerVars
  <2>2. CASE ConnStep \/ AnswerTimesOut
    BY <1>1, <2>2 DEF ConnStep, AnswerTimesOut, ConnLock, ConnReopens, ConnAsks, ConnOpens,
       AnswerArrives, ConnPosts
  <2>3. CASE GuiStep \/ ConnectPort \/ DisconnectPort \/ Quit
    BY <1>1, <2>3 DEF GuiStep, ConnectPort, DisconnectPort, Quit, ConnectStart, DisconnectJoin,
       DisconnectLock, DisconnectClose, HandleResult, HandleError, ErrorLock, ErrorClose,
       QuitJoin, QuitCallbacks, QuitBackend
  <2> QED
    BY <1>3, <2>1, <2>2, <2>3 DEF QtStep, UserStep, QtCallbacks
<1>4. CASE ConsumerStep
  BY <1>1, <1>4 DEF ConsumerStep, MainStep, ConsumerCallbacks, portVars, consumerVars,
     AvailablePortsCalled, FindPortByVID, ReleasePorts, ListPrinted, InstallCallbacks, OpenPort,
     WriteHello, EnterPressed, ClosesPort, FreesCallbacks, FreesBackend, SignalReceived, IdleTick,
     BytesAvailable, GoReads, CReadyRead, GoReadyRead
<1> QED
  BY <1>1, <1>2, <1>3, <1>4 DEF Next, Ended, vars, portVars, consumerVars

\* All of it together.
LEMMA ReadsOwedStep ==
    PortOK /\ MutexHeld /\ ErrorsFollowResult /\ ConsoleClosed /\ ReadsOwed /\ [Next]_vars
        => ReadsOwed'
<1> SUFFICES ASSUME PortOK, MutexHeld, ErrorsFollowResult, ConsoleClosed, ReadsOwed, [Next]_vars
             PROVE  ReadsOwed'
  OBVIOUS
<1>1. program' = program
  BY ProgramFixed
<1>2. ~isOpen' => buffered' = 0
  BY ClosedIsEmpty
<1>3. program' = "list" => ~isOpen' /\ pc' \in {"list", "exit"}
  BY <1>1, ListOpensNothing
<1>4. cbs' = "set" /\ IsQt' => buffered' <= ChunkSize * Cardinality(InReadyRead')
  BY <1>1, ChunksOwed DEF IsQt
<1>5. cbs' = "set" /\ program' = "go" => buffered' = 0 \/ ToBeRead'
  BY <1>1, SignalOwed
<1> QED
  BY <1>2, <1>3, <1>4, <1>5 DEF ReadsOwed

-----------------------------------------------------------------------------
(***************************************************************************)
(* The theorems.                                                            *)
(***************************************************************************)

\* The invariant holds before the program has done anything.
LEMMA InvInit == Init => ProgramsInv
<1> SUFFICES ASSUME Init PROVE ProgramsInv
  OBVIOUS
<1> USE DEF Init, PortInit, QtInit, ConsumersInit
<1>1. program \in Programs /\ platform \in Platforms
  BY BuildsAssumption
<1>2. PortOK
  <2>1. cbs \in {"none", "set", "dead"}
    OBVIOUS
  <2>2. isOpen \in BOOLEAN /\ attached \in BOOLEAN
    OBVIOUS
  <2> QED
    BY <1>1, <2>1, <2>2 DEF PortOK, Sessions, WorkerPoints
<1>3. queue = <<>> /\ Len(queue) = 0
  BY EmptySeq
<1>4. QtOK
  <2>1. quitting \in BOOLEAN /\ connected \in BOOLEAN /\ orderly \in BOOLEAN
    OBVIOUS
  <2> QED
    BY <1>3, <2>1, EmptySeq DEF QtOK, GuiPoints, ConnPoints
<1>5. ConsumerOK
  <2>1. signal \in BOOLEAN
    OBVIOUS
  <2> QED
    BY <2>1 DEF ConsumerOK, ProgramPoints
<1>6. MutexHeld
  BY <1>1 DEF MutexHeld, HoldsAsConn, HoldsAsGui, IsQt, Programs
<1>7. ErrorAt = {} /\ ResultAt = {} /\ OkAt = {} /\ Handled = {}
  BY <1>3 DEF ErrorAt, ResultAt, OkAt, Handled
<1>8. WorkersJoined /\ ConsoleClosed
  BY DEF WorkersJoined, ConsoleClosed
<1>9. OpenIsReported /\ ResultIsTrue
  BY <1>7 DEF OpenIsReported, ResultIsTrue, ConnJoinable, HoldsAsGui
<1>10. ErrorsFollowResult /\ ErrorsAreOfSession
  BY <1>7 DEF ErrorsFollowResult, ErrorsAreOfSession
<1>11. ListHeld
  BY DEF ListHeld, HoldsList
<1>12. ReadsOwed
  <2>1. ChunkSize * Cardinality(InReadyRead) \in Nat
    BY ReadersCounted
  <2> QED
    BY <1>1, <2>1 DEF ReadsOwed, Programs, IsQt
<1>13. ListKnown
  <2>1. ~HasList /\ chosen = NoPort
    BY DEF HasList, HoldsList
  <2> QED
    BY <2>1 DEF ListKnown, HoldsList
<1> QED
  BY <1>2, <1>4, <1>5, <1>6, <1>8, <1>9, <1>10, <1>11, <1>12, <1>13 DEF ProgramsInv

\* Every step keeps it.
LEMMA InvStep == ProgramsInv /\ [Next]_vars => ProgramsInv'
<1> SUFFICES ASSUME ProgramsInv, [Next]_vars PROVE ProgramsInv'
  OBVIOUS
<1>1. Types'
  <2>1. Types
    BY DEF ProgramsInv, Types
  <2>2. CASE Next
    BY <2>1, <2>2, TypeStep
  <2>3. CASE UNCHANGED vars
    BY <2>1, <2>3 DEF vars, Types, PortOK, QtOK, ConsumerOK, portVars, qtVars, consumerVars
  <2> QED
    BY <2>2, <2>3
<1>2. MutexHeld' /\ WorkersJoined' /\ ConsoleClosed'
  BY MutexStep, WorkersStep, ConsoleStep DEF ProgramsInv
<1>3. OpenIsReported' /\ ResultIsTrue'
  BY ReportedStep, ResultStep DEF ProgramsInv
<1>4. ErrorsFollowResult' /\ ErrorsAreOfSession'
  BY ErrorsFollowStep, ErrorsOfSessionStep DEF ProgramsInv
<1>5. ListHeld'
  BY ListStep DEF ProgramsInv
<1>6. ReadsOwed'
  BY ReadsOwedStep DEF ProgramsInv
<1>7. ListKnown'
  BY ListKnownStep DEF ProgramsInv
<1> QED
  BY <1>1, <1>2, <1>3, <1>4, <1>5, <1>6, <1>7 DEF ProgramsInv, Types

\* The inductive invariant: types, owner of openMx_, joined threads, results and
\* errors in the queue, the allocated list.  The controllers of examples/qt_serial
\* and qt_serial_cabi, and the console programs, for every bound.
THEOREM InvariantHolds == Spec => []ProgramsInv
<1>1. Init => ProgramsInv
  BY InvInit
<1>2. ProgramsInv /\ [Next]_vars => ProgramsInv'
  BY InvStep
<1> QED
  BY <1>1, <1>2, PTL DEF Spec

\* open() and close() of the port never overlap: connectPort()'s thread and the
\* GUI thread exclude each other by openMx_ (serialcontroller.cpp, cabicontroller.cpp)
\* and, in the destructors, by the join.
THEOREM PortIsSerialized == Spec => []PortSerialized
<1>1. ProgramsInv => PortSerialized
  BY DEF ProgramsInv, MutexHeld, HoldsAsConn, HoldsAsGui, PortSerialized, InOpen, InClose
<1> QED
  BY <1>1, InvariantHolds, PTL

\* When connected_ is set the port is open and no connectPort() is under way, if
\* the user has waited for each result (the lambda of connectPort()).
THEOREM ConnectedMeansOpen == Spec => []ConnectedIsOpen
<1>1. ProgramsInv => ConnectedIsOpen
  BY DEF ProgramsInv, MutexHeld, ResultIsTrue, ConnectedIsOpen
<1> QED
  BY <1>1, InvariantHolds, PTL

\* Go walks over the entries of a list of cps_available_ports() only while their strings are
\* allocated, in findPortByVID() and in listPorts(); and cps_free_ports(), which finds their
\* number in the header, gives back all of a list, of any length, before the program goes on.
THEOREM ListIsReleased == Spec => []ListReleased
<1>1. ProgramsInv => ListReleased
  <2> SUFFICES ASSUME ListHeld PROVE ListReleased
    BY DEF ProgramsInv
  <2>1. pc \in {"find", "print"} => heap = CopiedOut(Len(ports))
    BY DEF ListHeld, HoldsList
  <2>2. Strings(Len(ports)) \subseteq CopiedOut(Len(ports))
    BY DEF Strings, CopiedOut
  <2> QED
    BY <2>1, <2>2 DEF ListHeld, ListReleased
<1> QED
  BY <1>1, InvariantHolds, PTL

\* The list of ports is right on every platform, for any devices, and Go opens the first
\* port of it with the vendor id (enumeratePorts(), findPortByVID() of examples/go/main.go).
THEOREM PortListIsRight == Spec => []PortListRight
<1>1. ASSUME ProgramsInv PROVE PortListRight
  <2>1. platform \in Platforms /\ ListKnown
    BY <1>1 DEF ProgramsInv, PortOK
  <2>2. CASE ~HasList
    BY <2>2 DEF PortListRight, HasList, HoldsList
  <2>3. CASE HasList
    <3>1. /\ DOMAIN ports \in SUBSET Nat
          /\ CASE platform = "posix"   -> PosixListRight
               [] platform = "windows" -> WindowsListRight
               [] platform = "android" -> AndroidListRight
          /\ platform = "posix" => \A k, l \in DOMAIN ports :
               k < l => NameBefore(ports[k].portName, ports[l].portName)
      BY <2>1, <2>3, KnownListRight DEF ListKnown
    <3>2. ASSUME chosen # NoPort
          PROVE  /\ chosen.vendorId = TargetVid
                 /\ \A k \in DOMAIN ports :
                      ports[k].vendorId = TargetVid /\ platform = "posix" /\ ports[k] # chosen
                        => NameBefore(chosen.portName, ports[k].portName)
      <4>1. PICK i \in DOMAIN ports :
              /\ ports[i] = chosen /\ chosen.vendorId = TargetVid
              /\ \A j \in DOMAIN ports : ports[j].vendorId = TargetVid => i <= j
        BY <2>1, <3>2 DEF ListKnown
      <4> SUFFICES ASSUME NEW k \in DOMAIN ports, ports[k].vendorId = TargetVid,
                          platform = "posix", ports[k] # chosen
                   PROVE  NameBefore(chosen.portName, ports[k].portName)
        BY <4>1
      <4>2. i < k
        BY <3>1, <4>1
      <4> QED
        BY <3>1, <4>1, <4>2
    <3> QED
      BY <3>1, <3>2 DEF PortListRight
  <2> QED
    BY <2>2, <2>3
<1> QED
  BY <1>1, InvariantHolds, PTL

\* No byte stays in readBuffer_ that nobody is about to read, however many callbacks
\* run at once and however Go's signals merge (handleReadyRead(), main.go's loop).
THEOREM NoByteIsStranded == Spec => []NoStrandedBytes
<1>1. ProgramsInv => NoStrandedBytes
  <2> SUFFICES ASSUME ProgramsInv, buffered > 0, cbs = "set", program # "c"
               PROVE  ToBeRead
    BY DEF NoStrandedBytes
  <2>1. /\ buffered \in Nat /\ program \in Programs /\ ReadsOwed
    BY DEF ProgramsInv, PortOK
  <2>2. CASE IsQt
    <3>1. Cardinality(InReadyRead) # 0
      <4>1. ChunkSize * 0 = 0
        OBVIOUS
      <4> QED
        BY <2>1, <2>2, <4>1 DEF ReadsOwed
    <3>2. InReadyRead # {}
      BY <3>1, FS_EmptySet
    <3> QED
      BY <3>2 DEF ToBeRead
  <2>3. CASE program = "go"
    BY <2>1, <2>3 DEF ReadsOwed
  <2>4. program # "list"
    BY <2>1 DEF ReadsOwed
  <2> QED
    BY <2>1, <2>2, <2>3, <2>4 DEF Programs, IsQt
<1> QED
  BY <1>1, InvariantHolds, PTL

\* The callbacks are set and destroyed while no worker can call them, but on
\* Android and where a program destroys an open port (SerialPort::~Impl).
THEOREM CallbacksAreStable == Spec => CallbacksStable
<1>1. ProgramsInv /\ [Next]_vars
        => (cbs' # cbs => ~CanCall \/ platform = "android" \/ DestroysOpenPort)
  <2> SUFFICES ASSUME ProgramsInv, [Next]_vars, cbs' # cbs, CanCall, platform # "android"
               PROVE  DestroysOpenPort
    OBVIOUS
  <2>1. isOpen
    BY DEF ProgramsInv, WorkersJoined, CanCall, Callbacks
  <2>2. QuitCallbacks \/ FreesCallbacks \/ InstallCallbacks
    <3>1. ~PortStep /\ ~UNCHANGED vars
      BY DEF PortStep, WorkerStep, WorkerReads, WorkerFails, WorkerEnds, DeviceSends,
         DeviceUnplugged, vars, portVars
    <3>2. CASE QtStep
      BY <3>2 DEF QtStep, ConnStep, AnswerTimesOut, GuiStep, UserStep, QtCallbacks, portVars,
         ConnLock, ConnReopens, ConnAsks, ConnOpens, AnswerArrives, ConnPosts, Opened,
         OpenSucceeds, OpenFails, ClosePort, ConnectStart, DisconnectJoin, DisconnectLock,
         DisconnectClose, HandleResult, HandleError, ErrorLock, ErrorClose, QuitJoin,
         QuitBackend, ConnectPort, DisconnectPort, Quit, SendFails, OnReadyRead, OnError
    <3>3. CASE ConsumerStep
      BY <3>3 DEF ConsumerStep, MainStep, ConsumerCallbacks, portVars, OpenSucceeds, OpenFails,
         ClosePort, AvailablePortsCalled, FindPortByVID, ReleasePorts, ListPrinted, OpenPort,
         WriteHello,
         EnterPressed, ClosesPort, FreesBackend, SignalReceived, IdleTick, BytesAvailable,
         GoReads, CReadyRead, GoReadyRead
    <3> QED
      BY <3>1, <3>2, <3>3 DEF Next, Ended
  <2>3. ~FreesCallbacks /\ ~InstallCallbacks
    BY <2>1 DEF ProgramsInv, ConsoleClosed, ClosedHere, FreesCallbacks, InstallCallbacks
  <2>4. QuitCallbacks
    BY <2>2, <2>3
  <2>5. IsQt /\ (program = "cabi" => ~connected)
    BY <2>4 DEF ProgramsInv, MutexHeld, OpenIsReported, QuitCallbacks
  <2>6. program = "cabi" => OkAt # {} \/ connThread = "post"
    BY <2>1, <2>5 DEF ProgramsInv, OpenIsReported, IsQt
  <2>7. program = "cabi" => ResultToCome
    BY <2>6 DEF ResultToCome, OkAt, ResultAt, ConnJoinable
  <2> QED
    BY <2>1, <2>5, <2>7 DEF DestroysOpenPort, IsQt
<1> QED
  BY <1>1, InvariantHolds, PTL DEF Spec, CallbacksStable

\* The lambda of onError closes the port of its own session, and on the desktop no
\* other's, if the user has waited for each result (setupCallbacks()).
THEOREM ErrorLambdaCloses == Spec => ErrorClosesItsSession
<1>1. ProgramsInv /\ [Next]_vars
        => (ErrorHandled /\ orderly =>
              /\ failed = session /\ failed \notin early => ~isOpen'
              /\ isOpen /\ ~isOpen' /\ platform # "android" => failed = session)
  <2> SUFFICES ASSUME ProgramsInv, [Next]_vars, ErrorHandled, orderly
               PROVE  /\ failed = session /\ failed \notin early => ~isOpen'
                      /\ isOpen /\ ~isOpen' /\ platform # "android" => failed = session
    OBVIOUS
  <2>1. IsQt /\ ~quitting /\ Handled = {failed}
    BY DEF ErrorHandled, ProgramsInv, MutexHeld, Handled
  <2>2. (ErrorLock /\ ~connected) \/ ErrorClose
    <3>1. ~UNCHANGED qtVars
      BY DEF ErrorHandled, qtVars
    <3>2. QtStep
      BY <3>1 DEF Next, Ended, vars
    <3>3. ~ConnStep /\ ~AnswerTimesOut /\ ~UserStep /\ ~QtCallbacks
      BY DEF ErrorHandled, ConnStep, AnswerTimesOut, UserStep, QtCallbacks, ConnLock, ConnReopens,
         ConnAsks, ConnOpens, AnswerArrives, ConnPosts, Opened, ConnectPort, DisconnectPort, Quit,
         SendFails, OnReadyRead, OnError, qtVars
    <3>4. ErrorLock \/ ErrorClose
      BY <3>2, <3>3 DEF ErrorHandled, QtStep, GuiStep, ConnectStart, DisconnectJoin,
         DisconnectLock, DisconnectClose, HandleResult, HandleError, QuitJoin, QuitCallbacks,
         QuitBackend
    <3> QED
      BY <3>4 DEF ErrorHandled, ErrorLock
  <2>3. CASE ErrorLock /\ ~connected
    <3>1. isOpen' = isOpen
      BY <2>3 DEF ErrorLock, portVars
    <3>2. failed = session /\ failed \notin early => ~isOpen
      BY <2>1, <2>3 DEF ProgramsInv, ErrorsFollowResult, OpenIsReported
    <3> QED
      BY <3>1, <3>2
  <2>4. CASE ErrorClose
    <3>1. ~isOpen' /\ connected
      BY <2>1, <2>4 DEF ErrorClose, ClosePort, ProgramsInv, ResultIsTrue, HoldsAsGui
    <3>2. platform # "android" => failed = session
      BY <2>1, <3>1 DEF ProgramsInv, ErrorsAreOfSession
    <3> QED
      BY <3>1, <3>2
  <2> QED
    BY <2>2, <2>3, <2>4
<1> QED
  BY <1>1, InvariantHolds, PTL DEF Spec, ErrorClosesItsSession
=============================================================================
