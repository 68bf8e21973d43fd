----------------------------- MODULE Consumers -----------------------------
(***************************************************************************)
(* The console programs: the Go program (examples/go/main.go), the C program *)
(* (examples/c_minimal.c) and the list program (examples/cpp_list_ports.cpp). *)
(* Each has one thread of its own; the callback of Go sends a signal, that   *)
(* of C reads.  Go and the list program ask for the available ports first,   *)
(* Go through cps_available_ports() and cps_free_ports().                    *)
(***************************************************************************)
EXTENDS SerialPort, PortEnumerator, FiniteSets

CONSTANTS
    CBufSize, GoBufSize,  \* bytes the C callback, and the Go loop, read at a time
    TargetVid,            \* the vendor id Go looks for (0x1a86)
    Systems               \* for each platform, the systems it may find itself on

ASSUME ConsumersAssumption == CBufSize \in Nat \ {0} /\ GoBufSize \in Nat \ {0}
ASSUME SystemsAssumption == \A p \in Platforms : \A d \in Systems[p] : ProperDevices(p, d)

VARIABLES
    pc,        \* where the program's thread is
    devices,   \* what the system knows of its devices
    ports,     \* the list of ports it got
    heap,      \* what cps_available_ports() has allocated: strings and headers
    chosen,    \* the port Go opens
    signal     \* readyCh holds a signal

consumerVars == <<pc, devices, ports, heap, chosen, signal>>

ProgramPoints == {"off", "list", "find", "release", "listAll", "print", "new", "open", "write",
                  "select", "available", "read", "enter", "close", "free", "backend", "exit"}
NoPort == PortInfo(<<>>, <<>>, <<>>, <<>>, 0, 0)

ConsumersInit ==
    /\ \/ program \in {"go", "list"} /\ pc = "list"
       \/ program \in {"go", "c"} /\ pc = "new"  \* the port is named
       \/ program \in {"qt", "cabi"} /\ pc = "off"
    /\ devices = <<>> /\ ports = <<>> /\ heap = {} /\ chosen = NoPort /\ signal = FALSE

-----------------------------------------------------------------------------
(***************************************************************************)
(* The list of ports.  In C it is a block with a header that keeps the count, *)
(* and five strings per entry; a list without entries is a null pointer, and *)
(* has no block.                                                             *)
(***************************************************************************)
Strings(n) == (1..n) \X (1..5)
Header(n) == <<0, n>>
Headers == {h \in heap : h[1] = 0}
CopiedOut(n) == IF n = 0 THEN {} ELSE Strings(n) \cup {Header(n)}

\* Mutant: the loop ends one entry too early.
FreePortsButLast == heap \ UNION {Strings(h[2] - 1) \cup {h} : h \in Headers}

\* cps_free_ports: the strings of as many entries as the header of the list says,
\* and the block; nothing for a null pointer.
FreePorts == heap \ UNION {Strings(h[2]) \cup {h} : h \in Headers}

\* The program asks for the ports; Go a second time, for another list, when it has
\* not found the one it looks for.  Devices come and go between the two.
AvailablePortsCalled ==
    /\ pc \in {"list", "listAll"}
    /\ devices' \in Systems[platform]
    /\ ports' = AvailablePorts(platform, devices')
    /\ heap' = IF program = "go" THEN heap \cup CopiedOut(Len(ports')) ELSE heap
    /\ pc' = CASE pc = "listAll" -> "print" [] program = "go" -> "find" [] OTHER -> "exit"
    /\ UNCHANGED <<portVars, chosen, signal>>

\* findPortByVID: the first port of the list with the vendor id.
FindPortByVID ==
    /\ pc = "find"
    /\ LET found == {i \in DOMAIN ports : ports[i].vendorId = TargetVid}
       IN chosen' = IF found = {} THEN NoPort
                    ELSE ports[CHOOSE i \in found : \A j \in found : i <= j]
    /\ pc' = "release"
    /\ UNCHANGED <<portVars, devices, ports, heap, signal>>

\* The deferred cps_free_ports() of findPortByVID().
ReleasePorts ==
    /\ pc = "release"
    /\ heap' = FreePorts
    /\ \/ chosen = NoPort /\ pc' = "listAll" /\ devices' = <<>> /\ ports' = <<>>
       \/ chosen # NoPort /\ pc' = "new" /\ UNCHANGED <<devices, ports>>
    /\ UNCHANGED <<portVars, chosen, signal>>

\* listPorts(): the second list is printed, and freed; then Go exits.
ListPrinted ==
    /\ pc = "print"
    /\ heap' = FreePorts
    /\ pc' = "exit"
    /\ UNCHANGED <<portVars, devices, ports, chosen, signal>>

-----------------------------------------------------------------------------
(***************************************************************************)
(* The life of the port.  On a failed open() C frees the handle; Go leaves   *)
(* it to the end of the process, as it does with the open port.              *)
(***************************************************************************)
InstallCallbacks ==
    /\ pc = "new" /\ SetCallbacks
    /\ pc' = "open"
    /\ UNCHANGED <<program, platform, isOpen, session, buffered, worker, sent, incoming,
                   attached, devices, ports, heap, chosen, signal>>

OpenPort ==
    /\ pc = "open"
    /\ \/ OpenSucceeds /\ pc' = "write"
       \/ OpenFails /\ pc' = IF program = "go" THEN "exit" ELSE "free"
    /\ UNCHANGED <<devices, ports, heap, chosen, signal>>

\* The greeting; then Go waits for signals and C for Enter.
WriteHello ==
    /\ pc = "write"
    /\ pc' = IF program = "go" THEN "select" ELSE "enter"
    /\ UNCHANGED <<portVars, devices, ports, heap, chosen, signal>>

\* Mutant: the handle is freed without closing the port.
EnterFrees ==
    /\ pc = "enter"
    /\ pc' = "free"
    /\ UNCHANGED <<portVars, devices, ports, heap, chosen, signal>>

EnterPressed ==
    /\ pc = "enter"
    /\ pc' = "close"
    /\ UNCHANGED <<portVars, devices, ports, heap, chosen, signal>>

ClosesPort ==
    /\ pc = "close" /\ ClosePort
    /\ pc' = "free"
    /\ UNCHANGED <<devices, ports, heap, chosen, signal>>

FreesCallbacks ==
    /\ pc = "free" /\ DestroyCallbacks
    /\ pc' = "backend"
    /\ UNCHANGED <<devices, ports, heap, chosen, signal>>

FreesBackend ==
    /\ pc = "backend" /\ ClosePort
    /\ pc' = "exit"
    /\ UNCHANGED <<devices, ports, heap, chosen, signal>>

-----------------------------------------------------------------------------
(***************************************************************************)
(* The callbacks, on the worker thread, and Go's loop.                       *)
(***************************************************************************)
CReadyRead(s) ==
    /\ program = "c" /\ worker[s] = "onReadyRead"
    /\ Pop(CBufSize) /\ CallbackReturns(s)
    /\ UNCHANGED <<program, platform, cbs, isOpen, session, sent, incoming, attached, consumerVars>>

\* Mutant: a signal is sent only when the loop waits for one.
SignalIfWaiting == signal \/ pc = "select"

\* A send that does not block: one signal stands for many.
Signalled == TRUE

GoReadyRead(s) ==
    /\ program = "go" /\ worker[s] = "onReadyRead"
    /\ signal' = Signalled /\ CallbackReturns(s)
    /\ UNCHANGED <<program, platform, cbs, isOpen, session, buffered, sent, incoming, attached,
                   pc, devices, ports, heap, chosen>>

SignalReceived ==
    /\ pc = "select" /\ signal
    /\ signal' = FALSE /\ pc' = "available"
    /\ UNCHANGED <<portVars, devices, ports, heap, chosen>>

\* Every five seconds without a signal.
IdleTick == pc = "select" /\ UNCHANGED <<portVars, consumerVars>>

BytesAvailable ==
    /\ pc = "available"
    /\ pc' = IF buffered > 0 THEN "read" ELSE "select"
    /\ UNCHANGED <<portVars, devices, ports, heap, chosen, signal>>

\* Mutant: one read per signal.
SelectAgain == "select"

\* The inner loop goes on as long as there are bytes.
AfterRead == "available"
GoReads ==
    /\ pc = "read" /\ Pop(GoBufSize)
    /\ pc' = AfterRead
    /\ UNCHANGED <<program, platform, cbs, isOpen, session, worker, sent, incoming, attached,
                   devices, ports, heap, chosen, signal>>

MainStep == \/ AvailablePortsCalled \/ FindPortByVID \/ ReleasePorts \/ ListPrinted
            \/ InstallCallbacks \/ OpenPort \/ WriteHello \/ ClosesPort \/ FreesCallbacks \/ FreesBackend
            \/ SignalReceived \/ BytesAvailable \/ GoReads
ConsumerCallbacks == \E s \in Sessions : CReadyRead(s) \/ GoReadyRead(s)
ConsumerStep == MainStep \/ IdleTick \/ EnterPressed \/ ConsumerCallbacks
=============================================================================
