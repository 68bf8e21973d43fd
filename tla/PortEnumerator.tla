--------------------------- MODULE PortEnumerator ---------------------------
(***************************************************************************)
(* The list of available ports (src/detail/PortEnumerator.cpp,              *)
(* src/detail/AndroidBackend.cpp, CpsUsbSerial.java), as operators from what *)
(* the system knows of its devices to what SerialPortInfo::availablePorts()  *)
(* returns.                                                                 *)
(*                                                                          *)
(* A name is a family ("ttyUSB") and a unit, the sequence of its digits.  A  *)
(* text is a sequence of tokens, <<>> when absent or empty: hexadecimal      *)
(* digits and other characters for an id, digits and Com for a Windows name, *)
(* one word for others.                                                      *)
(***************************************************************************)
EXTENDS Integers, Sequences, SequencesExt

CONSTANT MaxLevels  \* directories findAttrUpwards looks into (10 in the code)
ASSUME MaxLevelsAssumption == MaxLevels \in Nat \ {0}

PortInfo(name, description, manufacturer, serial, vid, pid) ==
    [portName |-> name, description |-> description, manufacturer |-> manufacturer,
     serialNumber |-> serial, vendorId |-> vid, productId |-> pid]

\* The characters of an id: digits, blanks, signs, the x of "0x"; others are greater.
HexDigit == 0..15
Blank == 16
Plus == 17
Minus == 18
Ex == 19
LongDigits == 16  \* of an unsigned long

\* The value of a sequence of hexadecimal digits, kept in 16 bits.
HexValue(digits) == FoldLeft(LAMBDA v, d : (16 * v + d) % 65536, 0, digits)

\* Where a run of elements of T that starts at from ends; before it when there is none.
RunEnd(s, from, T) ==
    CHOOSE k \in (from - 1)..Len(s) : /\ \A i \in from..k : s[i] \in T
                                     /\ k < Len(s) => s[k + 1] \notin T

\* std::stoul() of base 16, as 16 bits: blanks, a sign, "0x", then the digits, up to
\* anything else.  Without digits, or with more than fit, it throws, which is 0 too.
HexToInt(content) ==
    LET Has(k, T) == k <= Len(content) /\ content[k] \in T
        first == RunEnd(content, 1, {Blank}) + 1
        body == IF Has(first, {Plus, Minus}) THEN first + 1 ELSE first
        digits == IF Has(body, {0}) /\ Has(body + 1, {Ex}) THEN body + 2 ELSE body
        last == RunEnd(content, digits, HexDigit)
        value == HexValue(SubSeq(content, digits, last))
    IN CASE last - RunEnd(content, digits, {0}) > LongDigits -> 0
         [] Has(first, {Minus}) -> (65536 - value) % 65536
         [] OTHER -> value

\* The loop that appends the entries it does not skip: those at the places at.
Picked(s, at) ==
    LET upTo[n \in 0..Len(s)] ==
          IF n = 0 THEN <<>>
          ELSE IF n \in at THEN Append(upTo[n - 1], s[n]) ELSE upTo[n - 1]
    IN upTo[Len(s)]

-----------------------------------------------------------------------------
(***************************************************************************)
(* POSIX: an entry of /sys/class/tty has a name, a device directory or none  *)
(* (a virtual terminal), and the directories from there upwards, each with   *)
(* the content of its attribute files.                                       *)
(***************************************************************************)

\* Families of names in the order of their strings, and those of them that begin with
\* another.
Families == <<"console", "ptmx", "rfcomm", "tty", "ttyACM", "ttyAMA", "ttyAT", "ttyGS", "ttyHS",
              "ttyHSL", "ttyLP", "ttyMAX", "ttyMI", "ttyMSL", "ttyO", "ttyS", "ttySAC", "ttySC",
              "ttySPI", "ttyTHS", "ttyUSB", "ttyXRUSB", "ttymxc", "ttyprintk">>
Longer == {<<"ttyHSL", "ttyHS">>} \cup ({"ttySAC", "ttySC", "ttySPI"} \X {"ttyS"})
StartsWith(family, prefix) == family = prefix \/ <<family, prefix>> \in Longer

SerialPrefixes == {"ttyUSB", "ttyACM", "ttyS", "ttyAMA", "ttyXRUSB", "ttyMAX", "ttyHS", "ttyMSL",
                   "ttyO", "ttyAT", "rfcomm", "ttyGS", "ttyMI", "ttySPI"}
LooksSerial(name) == \E prefix \in SerialPrefixes : StartsWith(name.family, prefix)
Digit == 0..9
Names == [family : Range(Families), unit : Seq(Digit)]

\* std::string's order: "ttyUSB10" comes before "ttyUSB2".
LexBefore(u, v) ==
    \E k \in 1..Len(v) : /\ \A j \in 1..(k - 1) : j <= Len(u) /\ u[j] = v[j]
                         /\ k = Len(u) + 1 \/ (k <= Len(u) /\ u[k] < v[k])
Rank(family) == CHOOSE i \in DOMAIN Families : Families[i] = family
NameBefore(a, b) ==
    \/ Rank(a.family) < Rank(b.family)
    \/ a.family = b.family /\ LexBefore(a.unit, b.unit)

\* Mutant: the loop starts above the device's own directory.
FindAttrAbove(dirs, attr) ==
    LET from[i \in 1..(MaxLevels + 1)] ==
          IF i > MaxLevels \/ i > Len(dirs) THEN <<>>
          ELSE IF i > 1 /\ dirs[i][attr] # <<>> THEN dirs[i][attr] ELSE from[i + 1]
    IN from[1]

\* The first non-empty file of that name, in at most MaxLevels directories.
FindAttrUpwards(dirs, attr) ==
    LET from[i \in 1..(MaxLevels + 1)] ==
          IF i > MaxLevels \/ i > Len(dirs) THEN <<>>
          ELSE IF dirs[i][attr] # <<>> THEN dirs[i][attr] ELSE from[i + 1]
    IN from[1]

PosixInfo(tty) ==
    LET attr(a) == FindAttrUpwards(tty.dirs, a)
        usb == attr("idVendor") # <<>> /\ attr("idProduct") # <<>>
    IN PortInfo(tty.name,
                IF attr("product") = <<>> THEN attr("interface") ELSE attr("product"),
                attr("manufacturer"), attr("serial"),
                IF usb THEN HexToInt(attr("idVendor")) ELSE 0,
                IF usb THEN HexToInt(attr("idProduct")) ELSE 0)

\* std::sort: a permutation of the entries in which none is before an earlier one.
SortedByName(infos) ==
    LET at == DOMAIN infos
        orders == {p \in [at -> at] : \A i, j \in at : p[i] = p[j] => i = j}
    IN CHOOSE t \in {[i \in at |-> infos[p[i]]] : p \in orders} :
         \A i, j \in at : i < j => ~NameBefore(t[j].portName, t[i].portName)

EnumeratePosix(ttys) ==
    SortedByName(Picked([i \in DOMAIN ttys |-> PosixInfo(ttys[i])],
                        {i \in DOMAIN ttys : LooksSerial(ttys[i].name) /\ ttys[i].hardware}))

-----------------------------------------------------------------------------
(***************************************************************************)
(* Windows: the texts of SetupDi's entries.  A token of a name is a digit,   *)
(* Com (the letters "COM") or any other number.                              *)
(***************************************************************************)
Com == 10

\* The digits after the first "COM" that is followed by one; <<>> if none is.
ExtractComName(text) ==
    LET at == {i \in 1..(Len(text) - 1) : text[i] = Com /\ text[i + 1] \in Digit}
        first == CHOOSE i \in at : \A j \in at : i <= j
        last == CHOOSE k \in (first + 1)..Len(text) :
                  /\ \A j \in (first + 1)..k : text[j] \in Digit
                  /\ k < Len(text) => text[k + 1] \notin Digit
    IN IF at = {} THEN <<>> ELSE SubSeq(text, first + 1, last)

\* sscanf() of "%4x": as above, over at most four characters after the blanks.
ExtractHexId(text) ==
    LET blanks == RunEnd(text, 1, {Blank})
    IN HexToInt(SubSeq(text, blanks + 1, IF Len(text) < blanks + 4 THEN Len(text) ELSE blanks + 4))

OrElse(text, other) == IF text # <<>> THEN text ELSE other

WindowsInfo(d, unit) ==
    PortInfo([family |-> "COM", unit |-> unit], OrElse(d.devDesc, d.friendly), d.mfg, <<>>,
             ExtractHexId(d.vid), ExtractHexId(d.pid))
EnumerateWindows(devices) ==
    LET com(d) == ExtractComName(OrElse(d.friendly, d.devDesc))
    IN Picked([i \in DOMAIN devices |-> WindowsInfo(devices[i], com(devices[i]))],
              {i \in DOMAIN devices : com(devices[i]) # <<>>})

-----------------------------------------------------------------------------
(***************************************************************************)
(* Android: one entry per driver usb-serial-for-android finds; the serial    *)
(* number only with the permission.  No entry before setContext().           *)
(***************************************************************************)
SafeSerial(device) == IF device.permitted THEN device.serial ELSE <<>>
EnumerateAndroid(devices) ==
    [i \in DOMAIN devices |->
       PortInfo(devices[i].name, devices[i].driver, devices[i].manufacturer,
                SafeSerial(devices[i]), devices[i].vid % 65536, devices[i].pid % 65536)]

-----------------------------------------------------------------------------
\* What each system can know: entries of one directory differ in their names.
Directories == [idVendor : Seq(Nat), idProduct : Seq(Nat), manufacturer : Seq(STRING),
                product : Seq(STRING), serial : Seq(STRING), interface : Seq(STRING)]
Ttys == [name : Names, hardware : BOOLEAN, dirs : Seq(Directories)]
ComPorts == [friendly : Seq(Nat), devDesc : Seq(Nat), mfg : Seq(STRING),
             vid : Seq(Nat), pid : Seq(Nat)]
Drivers == [name : [family : {"usb"}, unit : Seq(Digit)], driver : Seq(STRING),
            manufacturer : Seq(STRING), serial : Seq(STRING), permitted : BOOLEAN,
            vid : Nat, pid : Nat]
ProperDevices(platform, devices) ==
    CASE platform = "posix"   -> /\ devices \in Seq(Ttys)
                                 /\ \A i, j \in DOMAIN devices :
                                      devices[i].name = devices[j].name => i = j
      [] platform = "windows" -> devices \in Seq(ComPorts)
      [] platform = "android" -> devices \in Seq(Drivers)

AvailablePorts(platform, devices) ==
    CASE platform = "posix"   -> EnumeratePosix(devices)
      [] platform = "windows" -> EnumerateWindows(devices)
      [] platform = "android" -> EnumerateAndroid(devices)
=============================================================================
