----------------------------- MODULE MCPrograms -----------------------------
(* An instance of Programs for TLC.                                          *)
EXTENDS Programs

AllBuilds == ({"qt", "cabi"} \X {"posix", "android"})
             \cup {<<"c", "posix">>, <<"go", "posix">>, <<"go", "windows">>}
             \cup ({"list"} \X Platforms)
Vid == 6790  \* 0x1a86
VidDigits == <<1, 10, 8, 6>>
PidDigits == <<7, 5, 2, 3>>

\* Directories: of an interface, of the CH340 with and without a serial number,
\* of a hub, of a hub controller that has other ids, and one without files.
Bare == [idVendor |-> <<>>, idProduct |-> <<>>, manufacturer |-> <<>>, product |-> <<>>,
         serial |-> <<>>, interface |-> <<>>]
Interface == [Bare EXCEPT !.interface = <<"data">>]
Device == [Bare EXCEPT !.idVendor = VidDigits, !.idProduct = PidDigits, !.product = <<"CH340">>]
Named == [Device EXCEPT !.serial = <<"A1">>, !.manufacturer = <<"QinHeng">>]
Hub == [Bare EXCEPT !.idVendor = <<1, 13, 6, 11>>, !.idProduct = <<2>>, !.serial = <<"hub">>]
Junk == [Bare EXCEPT !.idVendor = <<20, 1>>, !.idProduct = <<1, 20>>]
\* " 0x1a86", and a product that is too long for an unsigned long; "-1" and "+1".
Odd == [Bare EXCEPT !.idVendor = <<Blank, 0, Ex>> \o VidDigits,
                    !.idProduct = [i \in 1..17 |-> 1]]
Signed == [Bare EXCEPT !.idVendor = <<Minus, 1>>, !.idProduct = <<Plus, 1>>]
Chains == {<<Interface, Device, Hub>>, <<Named, Hub>>, <<Bare, Bare, Bare, Device>>,
           <<Junk, Device>>, <<Odd>>, <<Signed>>}
Tty(f, u, h, d) == [name |-> [family |-> f, unit |-> u], hardware |-> h, dirs |-> d]

\* Three ttys in the order of readdir(): two adapters and a port without a
\* device, or a virtual terminal.
PosixSystems ==
    {<<>>} \cup
    {<<Tty("ttyUSB", <<2>>, TRUE, c), Tty("ttyUSB", <<1, 0>>, TRUE, d), t>> :
        c \in Chains, d \in Chains,
        t \in {Tty("ttyS", <<0>>, FALSE, <<>>), Tty("ttySAC", <<0>>, TRUE, <<Bare>>),
               Tty("ttyprintk", <<>>, TRUE, <<Bare>>), Tty("ttyACM", <<0>>, TRUE, <<Named>>)}}

\* Names as tokens: "Port (COM12)", "COM port (COM3)", "COM1 adapter (COM4)", none.
Texts == {<<11, Com, 1, 2, 11>>, <<Com, 11, Com, 3>>, <<Com, 1, 11, Com, 4>>, <<11, Com>>, <<>>}
Com_(f, d, v) == [friendly |-> f, devDesc |-> d, mfg |-> <<"QinHeng">>, vid |-> v, pid |-> PidDigits]
WindowsSystems ==
    {<<Com_(f, d, v), Com_(g, <<Com, 7>>, VidDigits)>> :
        f \in Texts, d \in Texts, g \in Texts, v \in {<<>>, <<1, 10, 8, 6, 5>>, <<0, Ex, 7, 20>>}}

Usb(n, p) == [name |-> [family |-> "usb", unit |-> <<n>>], driver |-> <<"Ch34x">>,
              manufacturer |-> <<>>, serial |-> <<"A1">>, permitted |-> p, vid |-> Vid, pid |-> 1]
AndroidSystems == {<<>>} \cup {<<Usb(1, p), Usb(2, q)>> : p \in BOOLEAN, q \in BOOLEAN}

SystemsOf == [posix |-> PosixSystems, windows |-> WindowsSystems, android |-> AndroidSystems]
=============================================================================
