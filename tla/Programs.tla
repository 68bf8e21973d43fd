------------------------------ MODULE Programs ------------------------------
(***************************************************************************)
(* The programs of examples/ over one SerialPort: which of them runs, and on *)
(* which platform, is chosen at the start.                                   *)
(***************************************************************************)
EXTENDS QtController, Consumers

CONSTANT Builds  \* the programs, each with a platform it is built for

ASSUME BuildsAssumption == Builds \subseteq Programs \X Platforms

vars == <<portVars, qtVars, consumerVars>>

Init ==
    /\ \E b \in Builds : program = b[1] /\ platform = b[2]
    /\ cbs = (IF program \in {"qt", "cabi"} THEN "set" ELSE "none")
    /\ PortInit /\ QtInit /\ ConsumersInit

\* A program that has ended.
Ended == (gui = "gone" \/ pc = "exit") /\ UNCHANGED vars

Next ==
    \/ PortStep /\ UNCHANGED <<qtVars, consumerVars>>
    \/ QtStep /\ UNCHANGED consumerVars
    \/ ConsumerStep /\ UNCHANGED qtVars
    \/ Ended

Spec == Init /\ [][Next]_vars

\* Threads are scheduled, the event loop runs, what arrives is read, and the
\* wait for an answer is limited.  The user need not do or answer anything.
Fairness ==
    /\ \A s \in Sessions :
         /\ WF_vars(WorkerStep(s) /\ UNCHANGED <<qtVars, consumerVars>>)
         /\ WF_vars((OnReadyRead(s) \/ OnError(s)) /\ UNCHANGED consumerVars)
         /\ WF_vars((CReadyRead(s) \/ GoReadyRead(s)) /\ UNCHANGED qtVars)
    /\ WF_vars((ConnLock \/ ConnReopens \/ ConnOpens \/ ConnPosts) /\ UNCHANGED consumerVars)
    /\ WF_vars(AnswerTimesOut /\ UNCHANGED consumerVars)
    /\ WF_vars(GuiStep /\ UNCHANGED consumerVars)
    /\ WF_vars(MainStep /\ UNCHANGED qtVars)
FairSpec == Spec /\ Fairness

-----------------------------------------------------------------------------
(***************************************************************************)
(* The types, and the inductive invariant.                                  *)
(***************************************************************************)
PortOK ==
    /\ program \in Programs /\ platform \in Platforms
    /\ cbs \in {"none", "set", "dead"} /\ isOpen \in BOOLEAN /\ attached \in BOOLEAN
    /\ session \in 0..MaxSessions /\ worker \in [Sessions -> WorkerPoints]
    /\ buffered \in Nat /\ incoming \in Nat /\ sent \in 0..MaxRx
QtOK ==
    /\ gui \in GuiPoints /\ connThread \in ConnPoints /\ openMx \in {"free", "gui", "conn"}
    /\ queue \in Seq(Results \cup Errors) /\ connects \in 0..MaxSessions
    /\ quitting \in BOOLEAN /\ connected \in BOOLEAN /\ orderly \in BOOLEAN
    /\ failed \in 0..MaxSessions /\ early \subseteq Sessions
ConsumerOK == pc \in ProgramPoints /\ signal \in BOOLEAN

\* Who has the mutex, who runs at all, and where the background thread has been
\* joined.
HoldsAsConn == {"open", "asking", "post", "postFailure"}
HoldsAsGui == {"d.close", "e.close"}
MutexHeld ==
    /\ (openMx = "conn") <=> connThread \in HoldsAsConn
    /\ (openMx = "gui") <=> gui \in HoldsAsGui
    /\ gui \in {"d.lock", "q.callbacks", "q.backend", "gone"} => connThread = "none"
    /\ gui = "off" => connThread = "none" /\ ~connected
    /\ gui \in {"q.join", "q.callbacks", "q.backend", "gone"} => quitting
    /\ gui \in {"idle", "c.join", "e.lock", "e.close"} => ~quitting
    /\ gui = "off" <=> ~IsQt
    /\ pc = "off" <=> IsQt

\* On the desktop only the worker of the open port is alive.
WorkersJoined ==
    platform # "android" =>
        \A s \in Sessions : s # session \/ ~isOpen => worker[s] \in {"none", "ended"}

\* A console program's port is closed but between open() and close().
ClosedHere == {"list", "find", "release", "listAll", "print", "new", "open", "free", "backend"}
ConsoleClosed == pc \in ClosedHere => ~isOpen

\* The results of connectPort() in the queue, and those of a port that is open.
ResultAt == {i \in 1..Len(queue) : queue[i].kind = "result"}
OkAt == {i \in ResultAt : queue[i].ok}

\* A port that is open without connected_ has its result still to come; a
\* program that quits after disconnectPort() has left connected_ unset.
OpenIsReported ==
    /\ IsQt /\ isOpen /\ ~connected => connThread = "post" \/ OkAt # {}
    /\ program = "cabi" /\ gui \in {"q.join", "q.callbacks"} => ~connected

\* As long as the user waits for results, there is one at most, and the port it
\* speaks of is open until it is there.
ResultIsTrue ==
    IsQt /\ orderly /\ ~quitting =>
        /\ \A i, j \in ResultAt : i = j
        /\ ~ConnJoinable => ResultAt = {}
        /\ ~ConnJoinable \/ ResultAt # {} => ~connected
        /\ connected \/ connThread = "post" \/ OkAt # {} => isOpen
        /\ gui = "c.join" => ~connected /\ ConnJoinable /\ ResultAt = {}
        /\ gui \in HoldsAsGui => connected

\* An error, queued or being handled, belongs to the newest session only if it
\* comes after the result of its connectPort(), or is in early.
ErrorAt == {i \in 1..Len(queue) : queue[i].kind = "error"}
Handled == {s \in {failed} : gui \in {"e.lock", "e.close"}}
ErrorsFollowResult ==
    /\ failed <= session /\ \A i \in ErrorAt : queue[i].session <= session
    /\ \A s \in Sessions : worker[s] # "none" => s <= session
    /\ session \notin early =>
         /\ \A i \in ErrorAt : queue[i].session = session =>
              connThread # "post" /\ \A j \in OkAt : j < i
         /\ session \in Handled => connThread # "post" /\ OkAt = {}

\* On the desktop, once connected_ is set, or its setting is in the queue, no
\* error of an older session comes any more.
ErrorsAreOfSession ==
    IsQt /\ orderly /\ ~quitting /\ platform # "android" =>
        /\ \A i \in ErrorAt, j \in OkAt : j < i => queue[i].session = session
        /\ connected => Handled \subseteq {session} /\ \A i \in ErrorAt : queue[i].session = session

\* The list from cps_available_ports() is allocated as long as Go has it, and its
\* header has the number of the entries.
HoldsList == {"find", "release", "print"}
ListHeld == heap = IF pc \in HoldsList THEN CopiedOut(Len(ports)) ELSE {}

\* The list is that of the devices the program found, and Go's port the first in
\* it with the vendor id.
HasList == pc \in HoldsList \/ (program = "list" /\ pc = "exit") \/ chosen # NoPort
ListKnown ==
    /\ pc \in {"list", "listAll", "print"} => chosen = NoPort
    /\ pc \in HoldsList \cup {"listAll"} => program = "go"
    /\ HasList => ProperDevices(platform, devices) /\ ports = AvailablePorts(platform, devices)
    /\ chosen # NoPort =>
         \E i \in DOMAIN ports : /\ ports[i] = chosen /\ chosen.vendorId = TargetVid
                                /\ \A j \in DOMAIN ports : ports[j].vendorId = TargetVid => i <= j

\* A byte in readBuffer_ is owed to a read: each worker in onReadyRead has left a
\* chunk at most, and Go's signals outlive the callbacks.  A closed port has none.
InReadyRead == {s \in Sessions : worker[s] = "onReadyRead"}
ToBeRead == InReadyRead # {} \/ signal \/ pc \in {"available", "read"}
ReadsOwed ==
    /\ ~isOpen => buffered = 0
    /\ program = "list" => ~isOpen /\ pc \in {"list", "exit"}
    /\ cbs = "set" /\ IsQt => buffered <= ChunkSize * Cardinality(InReadyRead)
    /\ cbs = "set" /\ program = "go" => buffered = 0 \/ ToBeRead

ProgramsInv ==
    /\ PortOK /\ QtOK /\ ConsumerOK /\ MutexHeld /\ WorkersJoined /\ ConsoleClosed
    /\ OpenIsReported /\ ResultIsTrue /\ ErrorsFollowResult /\ ErrorsAreOfSession /\ ListHeld
    /\ ListKnown /\ ReadsOwed

\* open() and close() of the port are never in progress on two threads: the
\* error lambda, disconnectPort(), the destructor and the background thread
\* exclude each other by openMx_ and by joining ("serializes open()/close()",
\* examples/qt_serial/serialcontroller.h:57).
InOpen == connThread \in {"open", "asking"}
InClose == gui \in {"d.close", "e.close", "q.callbacks", "q.backend"}
PortSerialized == ~(InOpen /\ InClose)

\* What the window shows is so, as long as the user waits for the result of
\* one connectPort() before the next: when connected_ is set the port is open
\* and no background thread is at it.
ConnectedIsOpen == orderly /\ connected /\ ~quitting => isOpen /\ ConnJoinable

\* The lambda of an error leaves the port of its session closed, unless it was
\* queued before connectPort()'s own result; and on the desktop it never closes
\* the port of another session.
ErrorHandled == gui \in {"e.lock", "e.close"} /\ gui' = "idle"
ErrorClosesItsSession ==
    [][ErrorHandled /\ orderly =>
         /\ failed = session /\ failed \notin early => ~isOpen'
         /\ isOpen /\ ~isOpen' /\ platform # "android" => failed = session]_vars

\* The callbacks are set and destroyed while no worker can be calling them.  On
\* the desktop only a program that destroys an open port fails to: the C++ Qt
\* controller, and the other when it quits with a result still to come.
CanCall == isOpen \/ \E s \in Sessions : worker[s] \in Callbacks \cup {"run"}
DestroysOpenPort == isOpen /\ (program = "qt" \/ ResultToCome)
CallbacksStable ==
    [][cbs' # cbs => ~CanCall \/ platform = "android" \/ DestroysOpenPort]_vars

\* No byte is stranded in readBuffer_: while the port is open, one that is there
\* is about to be read, though Go's callback merges signals and each read takes
\* a limited number.  The C callback reads less than a chunk and is left out.
NoStrandedBytes == buffered > 0 /\ cbs = "set" /\ program # "c" => ToBeRead

\* The GUI thread always comes back to its event loop: what it joins ends, what
\* it locks is unlocked, also when a connectPort() is under way on Android and
\* waits for an answer the GUI thread itself would have to deliver.
GuiReturns == gui \notin {"off", "idle", "gone"} ~> gui \in {"idle", "gone"}

\* Bytes in readBuffer_ are read, or dropped by a close().
Drained == buffered > 0 /\ program # "c" ~> buffered = 0

\* The strings of every entry Go walks over are allocated, in the list it looks for
\* its port in and in the one it prints; and cps_free_ports(), which is told no
\* length and goes by the header, has given back all of a list before Go asks for
\* the next, opens the port or exits.
ListReleased ==
    /\ pc \in {"find", "print"} => Strings(Len(ports)) \subseteq heap
    /\ pc \notin HoldsList => heap = {}

-----------------------------------------------------------------------------
(***************************************************************************)
(* What the list should be, said without the code's loops.                   *)
(***************************************************************************)
Levels(dirs, attr) == {i \in DOMAIN dirs : i <= MaxLevels /\ dirs[i][attr] # <<>>}
Nearest(dirs, attr) ==
    LET at == Levels(dirs, attr)
    IN dirs[CHOOSE i \in at : \A j \in at : i <= j][attr]

\* A tty with a device is in the list once, in the order of the names, and has
\* the ids of the nearest directory above it that has them.
HasIds(p, dirs) ==
    IF Levels(dirs, "idVendor") = {} \/ Levels(dirs, "idProduct") = {}
      THEN p.vendorId = 0 /\ p.productId = 0
      ELSE /\ p.vendorId = HexToInt(Nearest(dirs, "idVendor"))
           /\ p.productId = HexToInt(Nearest(dirs, "idProduct"))
PosixListRight ==
    LET shown == {i \in DOMAIN devices : LooksSerial(devices[i].name) /\ devices[i].hardware}
    IN /\ Len(ports) = Cardinality(shown)
       /\ \A i \in shown : \E k \in DOMAIN ports :
            ports[k].portName = devices[i].name /\ HasIds(ports[k], devices[i].dirs)
       /\ \A k \in 1..(Len(ports) - 1) : NameBefore(ports[k].portName, ports[k + 1].portName)

\* On Windows an entry is listed when the text it is shown by names a COM port,
\* under the number of the first one.
ComNames(text) == {i \in 1..(Len(text) - 1) : text[i] = Com /\ text[i + 1] \in Digit}
WindowsListRight ==
    LET text(d) == IF d.friendly # <<>> THEN d.friendly ELSE d.devDesc
        shown == {i \in DOMAIN devices : ComNames(text(devices[i])) # {}}
    IN /\ Len(ports) = Cardinality(shown)
       /\ \A i \in shown : \E k \in DOMAIN ports :
            /\ k = Cardinality({j \in shown : j <= i})
            /\ \E n \in ComNames(text(devices[i])), m \in 1..Len(text(devices[i])) :
                 /\ \A j \in ComNames(text(devices[i])) : n <= j
                 /\ ports[k].portName.unit = SubSeq(text(devices[i]), n + 1, m)
                 /\ \A j \in (n + 1)..m : text(devices[i])[j] \in Digit
                 /\ m = Len(text(devices[i])) \/ text(devices[i])[m + 1] \notin Digit

\* On Android no serial number is shown without the permission.
AndroidListRight ==
    /\ Len(ports) = Len(devices)
    /\ \A i \in DOMAIN devices : devices[i].permitted \/ ports[i].serialNumber = <<>>

\* The list the program got is right, and Go opens the first port of it that
\* has the vendor id, not merely one that has it.
PortListRight ==
    /\ pc \in {"find", "print"} \/ (program = "list" /\ pc = "exit") =>
         CASE platform = "posix"   -> PosixListRight
           [] platform = "windows" -> WindowsListRight
           [] platform = "android" -> AndroidListRight
    /\ chosen # NoPort =>
         /\ chosen.vendorId = TargetVid
         /\ \A k \in DOMAIN ports :
              ports[k].vendorId = TargetVid /\ platform = "posix" /\ ports[k] # chosen
                => NameBefore(chosen.portName, ports[k].portName)
=============================================================================
