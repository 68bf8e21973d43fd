----------------------------- MODULE PortConfig -----------------------------
(***************************************************************************)
(* The configuration of a desktop port, from the C functions down to the    *)
(* terminal settings (POSIX): the copy the facade keeps (src/SerialPort.cpp)*)
(* and pushes on open(), the copy AsioBackend keeps and applies, the        *)
(* settings the kernel holds for the line, and the code each C function     *)
(* returns.  One thread configures the port; the worker only records that   *)
(* the device has gone.                                                     *)
(***************************************************************************)
EXTENDS Naturals

CONSTANTS
    BaudRates,       \* the rates the user asks for, 9600 (the default) among them
    SupportedRates,  \* the rates asio::serial_port::baud_rate accepts
    Parities, StopBitValues, FlowControls  \* the values the user asks for

AllParities     == {"NoParity", "EvenParity", "OddParity", "SpaceParity", "MarkParity"}
AllStopBits     == {"OneStop", "OneAndHalfStop", "TwoStop"}
AllFlowControls == {"NoFlowControl", "HardwareControl", "SoftwareControl"}
Sticky          == {"SpaceParity", "MarkParity"}  \* the parities that use CMSPAR
DataBits        == {7, 8}   \* bound: 5 and 6 behave alike

ASSUME RatesAssumption == 9600 \in BaudRates \cap SupportedRates
ASSUME ValuesAssumption ==
    /\ Parities \subseteq AllParities /\ StopBitValues \subseteq AllStopBits
    /\ FlowControls \subseteq AllFlowControls

VARIABLES
    facade,    \* baudRate_, ... of SerialPort::Impl
    stored,    \* baud_, ... of AsioBackend
    isOpen, error,
    attached,  \* the device has not been unplugged since the last open()
    tty,       \* the terminal settings of the device
    call,      \* the last C function: its name, whether it worked, its code
    stick      \* history: space or mark parity has been asked for

vars == <<facade, stored, isOpen, error, attached, tty, call, stick>>

Configs == [baud : BaudRates \cup {9600}, bits : DataBits, parity : AllParities,
            stop : AllStopBits, flow : AllFlowControls]
DefaultConfig == [baud |-> 9600, bits |-> 8, parity |-> "NoParity", stop |-> "OneStop",
                  flow |-> "NoFlowControl"]

\* The flags of a termios the configuration is about: c_cflag's speed, CSIZE,
\* PARENB, PARODD, CMSPAR, CSTOPB and CRTSCTS, c_iflag's IXON (with IXOFF).
Termios == [speed : SupportedRates, csize : DataBits, parenb : BOOLEAN, parodd : BOOLEAN,
            cmspar : BOOLEAN, cstopb : BOOLEAN, crtscts : BOOLEAN, ixon : BOOLEAN]
\* A device just plugged in is in cooked mode, with software flow control.
NewTermios == [speed |-> 9600, csize |-> 8, parenb |-> FALSE, parodd |-> FALSE,
               cmspar |-> FALSE, cstopb |-> FALSE, crtscts |-> FALSE, ixon |-> TRUE]

Errors == {"NoError", "NotOpenError", "DeviceNotFoundError", "PermissionError",
           "ResourceError", "UnknownError"}
OpenErrors == Errors \ {"NoError", "NotOpenError"}  \* the values of mapError
Functions == {"none", "open", "close", "write", "set", "flush", "clear_error"}

-----------------------------------------------------------------------------
(***************************************************************************)
(* One set_option each: what asio stores in a termios.  A value it does not *)
(* support leaves the termios as it is.                                     *)
(***************************************************************************)
BaudOption(t, rate) == IF rate \in SupportedRates THEN [t EXCEPT !.speed = rate] ELSE t
BitsOption(t, bits) == [t EXCEPT !.csize = bits]
ParityOption(t, p)  == [t EXCEPT !.parenb = (p # "NoParity"), !.parodd = (p = "OddParity")]
StopOption(t, s)    == IF s = "OneAndHalfStop" THEN t
                                               ELSE [t EXCEPT !.cstopb = (s = "TwoStop")]
FlowOption(t, f)    == [t EXCEPT !.ixon = (f = "SoftwareControl"),
                                 !.crtscts = (f = "HardwareControl")]

\* port_->open: cfmakeraw, which leaves the speed and the other bits of c_cflag.
MakeRaw(t) == [t EXCEPT !.csize = 8, !.parenb = FALSE, !.ixon = FALSE]

\* Mutant: the flow control is not applied.
ApplyConfigNoFlow(t, c) ==
    LET framed == BitsOption(BaudOption(t, c.baud), c.bits)
        parity == IF c.parity \in Sticky THEN framed
                                                             ELSE ParityOption(framed, c.parity)
    IN StopOption(parity, c.stop)

\* applyConfig(): one option after the other; space and mark are left alone.
ApplyConfig(t, c) ==
    LET framed == BitsOption(BaudOption(t, c.baud), c.bits)
        parity == IF c.parity \in Sticky THEN framed
                                                             ELSE ParityOption(framed, c.parity)
    IN FlowOption(StopOption(parity, c.stop), c.flow)

\* Mutant: mark parity set as space parity.
ApplyNativeNoMark(t, c) ==
    IF c.parity \in Sticky
      THEN [t EXCEPT !.ixon = FALSE, !.parenb = TRUE, !.cmspar = TRUE, !.parodd = FALSE]
      ELSE [t EXCEPT !.ixon = FALSE]

\* Mutant: CMSPAR set for every parity.
ApplyNativeStick(t, c) == [t EXCEPT !.ixon = FALSE, !.cmspar = TRUE]

\* applyNativeTimeouts(): raw mode, and the bits of space and mark parity.
ApplyNative(t, c) ==
    IF c.parity \in Sticky
      THEN [t EXCEPT !.ixon = FALSE, !.parenb = TRUE, !.cmspar = TRUE,
                     !.parodd = (c.parity = "MarkParity")]
      ELSE [t EXCEPT !.ixon = FALSE]

\* A change of the line's settings reaches it only through an open descriptor
\* of a device that is there.
OnLine(t) == IF isOpen /\ attached THEN t ELSE tty

-----------------------------------------------------------------------------
Init ==
    /\ facade = DefaultConfig /\ stored = DefaultConfig
    /\ isOpen = FALSE /\ error = "NoError"
    /\ attached = TRUE /\ tty = NewTermios
    /\ call = [fn |-> "none", ok |-> TRUE, code |-> "NoError"]
    /\ stick = FALSE

\* The C functions: CPS_ERR_NONE, or the last error recorded.
Returns(fn, ok, lastError) ==
    call' = [fn |-> fn, ok |-> ok, code |-> IF ok THEN "NoError" ELSE lastError]

SetBaudRate(rate) ==
    /\ facade' = [facade EXCEPT !.baud = rate] /\ stored' = [stored EXCEPT !.baud = rate]
    /\ tty' = OnLine(BaudOption(tty, rate))
    /\ Returns("set", isOpen => attached /\ rate \in SupportedRates, error)
    /\ UNCHANGED <<isOpen, error, attached, stick>>

SetDataBits(bits) ==
    /\ facade' = [facade EXCEPT !.bits = bits] /\ stored' = [stored EXCEPT !.bits = bits]
    /\ tty' = OnLine(BitsOption(tty, bits))
    /\ Returns("set", isOpen => attached, error)
    /\ UNCHANGED <<isOpen, error, attached, stick>>

SetParity(p) ==
    /\ facade' = [facade EXCEPT !.parity = p] /\ stored' = [stored EXCEPT !.parity = p]
    /\ tty' = OnLine(ApplyNative(ApplyConfig(tty, stored'), stored'))
    /\ stick' = (stick \/ p \in Sticky)
    /\ Returns("set", TRUE, error)
    /\ UNCHANGED <<isOpen, error, attached>>

SetStopBits(s) ==
    /\ facade' = [facade EXCEPT !.stop = s] /\ stored' = [stored EXCEPT !.stop = s]
    /\ tty' = OnLine(ApplyConfig(tty, stored'))
    /\ Returns("set", TRUE, error)
    /\ UNCHANGED <<isOpen, error, attached, stick>>

SetFlowControl(f) ==
    /\ facade' = [facade EXCEPT !.flow = f] /\ stored' = [stored EXCEPT !.flow = f]
    /\ tty' = OnLine(ApplyConfig(tty, stored'))
    /\ Returns("set", TRUE, error)
    /\ UNCHANGED <<isOpen, error, attached, stick>>

\* pushConfig(): the backend's five setters, with the facade's values.
PushConfig ==
    LET c1 == [facade EXCEPT !.stop = stored.stop, !.flow = stored.flow]
        c2 == [c1 EXCEPT !.stop = facade.stop]
        t1 == BitsOption(BaudOption(tty, facade.baud), facade.bits)
        t2 == ApplyNative(ApplyConfig(t1, c1), c1)
    IN ApplyConfig(ApplyConfig(t2, c2), facade)

\* Mutant: the errno of a failed open() is not recorded.
OpenFailsUnrecorded ==
    /\ stored' = facade /\ tty' = OnLine(PushConfig)
    /\ isOpen' = FALSE /\ UNCHANGED error
    /\ Returns("open", FALSE, error)
    /\ UNCHANGED <<facade, attached, stick>>

\* open(): the configuration is pushed (to the line, if the port was open), an
\* open port is closed, and port_->open fails.
OpenFails ==
    /\ stored' = facade /\ tty' = OnLine(PushConfig)
    /\ isOpen' = FALSE /\ error' \in OpenErrors
    /\ Returns("open", FALSE, error')
    /\ UNCHANGED <<facade, attached, stick>>

\* The same, and port_->open succeeds.  The settings of a device survive the
\* close; one that was plugged in again has new ones.
OpenSucceeds ==
    /\ stored' = facade
    /\ isOpen' = TRUE /\ error' = "NoError" /\ attached' = TRUE
    /\ LET found == IF attached THEN OnLine(PushConfig) ELSE NewTermios
       IN tty' = ApplyNative(ApplyConfig(MakeRaw(found), facade), facade)
    /\ Returns("open", TRUE, error')
    /\ UNCHANGED <<facade, stick>>

Close ==
    /\ isOpen' = FALSE /\ Returns("close", TRUE, error)
    /\ UNCHANGED <<facade, stored, error, attached, tty, stick>>

WriteNotOpen ==
    /\ ~isOpen
    /\ error' = "NotOpenError"
    /\ call' = [fn |-> "write", ok |-> FALSE, code |-> error']
    /\ UNCHANGED <<facade, stored, isOpen, attached, tty, stick>>

\* flush() and clear(): tcdrain and tcflush fail when the device is gone.
FlushOrClear ==
    /\ Returns("flush", isOpen /\ attached, error)
    /\ UNCHANGED <<facade, stored, isOpen, error, attached, tty, stick>>

ClearError ==
    /\ error' = "NoError" /\ Returns("clear_error", TRUE, error)
    /\ UNCHANGED <<facade, stored, isOpen, attached, tty, stick>>

\* The device goes; some time later the worker's read or write fails and
\* notifyError records it.
Unplugged ==
    /\ isOpen /\ attached
    /\ attached' = FALSE
    /\ UNCHANGED <<facade, stored, isOpen, error, tty, call, stick>>

NotifyError ==
    /\ isOpen /\ ~attached
    /\ error' = "ResourceError"
    /\ UNCHANGED <<facade, stored, isOpen, attached, tty, call, stick>>

Setters == \/ \E rate \in BaudRates : SetBaudRate(rate)
           \/ \E bits \in DataBits : SetDataBits(bits)
           \/ \E p \in Parities : SetParity(p)
           \/ \E s \in StopBitValues : SetStopBits(s)
           \/ \E f \in FlowControls : SetFlowControl(f)

Next == Setters \/ OpenFails \/ OpenSucceeds \/ Close \/ WriteNotOpen \/ FlushOrClear
        \/ ClearError \/ Unplugged \/ NotifyError

Spec == Init /\ [][Next]_vars

-----------------------------------------------------------------------------
(***************************************************************************)
(* Properties                                                               *)
(***************************************************************************)
TypeOK ==
    /\ facade \in Configs /\ stored \in Configs
    /\ isOpen \in BOOLEAN /\ attached \in BOOLEAN /\ stick \in BOOLEAN
    /\ error \in Errors /\ tty \in Termios
    /\ call \in [fn : Functions, ok : BOOLEAN, code : Errors]

Live == isOpen /\ attached

\* What the settings of a line amount to.
ParityOf(t) == CASE ~t.parenb -> "NoParity"
                 [] t.parenb /\ t.cmspar -> IF t.parodd THEN "MarkParity" ELSE "SpaceParity"
                 [] t.parenb /\ ~t.cmspar -> IF t.parodd THEN "OddParity" ELSE "EvenParity"
FlowOf(t) == CASE t.crtscts -> "HardwareControl"
               [] ~t.crtscts /\ t.ixon -> "SoftwareControl"
               [] ~t.crtscts /\ ~t.ixon -> "NoFlowControl"

\* Whatever the order of setters, openings and closings, the line of an open
\* port has the rate, data bits, stop bits and flow control the getters of
\* SerialPort report, but for the values asio refuses and for software flow.
LineHas(t, c) ==
    /\ c.baud \in SupportedRates => t.speed = c.baud
    /\ t.csize = c.bits
    /\ c.stop # "OneAndHalfStop" => t.cstopb = (c.stop = "TwoStop")
    /\ c.flow # "SoftwareControl" => FlowOf(t) = c.flow
LineAsConfigured == Live => LineHas(tty, facade)

\* The same for the parity; even and odd, only as long as space and mark have
\* not been used.
ParityAsConfigured ==
    Live /\ (facade.parity \in {"EvenParity", "OddParity"} => ~stick)
        => ParityOf(tty) = facade.parity

\* The facade and the backend never disagree on the configuration, so that
\* pushConfig() in open() brings back no value of an earlier setter.
OneConfiguration == facade = stored

\* cps_serial_open returns CPS_ERR_NONE exactly when it left the port open: not
\* when it closed an open port and then failed to open it again.
OpenTellsOutcome == call.fn = "open" => (call.code = "NoError" <=> isOpen)

\* Not so: software flow control on an open port's line (AsioBackend.hpp:65,
\* "configuration (stored, applied on open + setters)").
SoftwareFlowApplied == Live /\ facade.flow = "SoftwareControl" => FlowOf(tty) = "SoftwareControl"

\* Not so: even and odd parity on an open port's line, the same comment.
ParityApplied == Live => ParityOf(tty) = facade.parity

-----------------------------------------------------------------------------
\* The inductive invariant: CMSPAR is set on the line only after space or mark
\* parity was asked for, whether the port is open or not.
StickOrigin ==
    ~stick => ~tty.cmspar /\ facade.parity \notin Sticky
ConfigInv == TypeOK /\ OneConfiguration /\ StickOrigin /\ LineAsConfigured
             /\ ParityAsConfigured /\ OpenTellsOutcome
=============================================================================
