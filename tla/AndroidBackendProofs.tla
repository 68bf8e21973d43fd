------------------------ MODULE AndroidBackendProofs ------------------------
(* Theorems about AndroidBackend for every value of its constants.           *)
EXTENDS AndroidBackendProperties, SequenceLemmas, TLAPS

USE BoundsAssumption, ReadSizesAssumption

\* The two bounds on a byte's number and on a session's are naturals.
LEMMA SequenceTypes ==
    ASSUME TypeOK
    PROVE  /\ Len(io) \in Nat /\ Len(held) = Len(io) /\ Sessions = 1..Len(io)
           /\ \A s \in Sessions : io[s] \in IoPoints /\ held[s] \in Seq(1..MaxRx)
<1>1. io \in Seq(IoPoints) /\ held \in Seq(Seq(1..MaxRx)) /\ Len(held) = Len(io)
  BY DEF TypeOK, JavaOK
<1> QED
  BY <1>1, LenProperties, ElementOfSeq DEF Sessions

\* The bytes of a sequence are bytes.
LEMMA RangeOfBytes ==
    ASSUME NEW s \in Seq(1..MaxRx)
    PROVE  Range(s) \subseteq 1..MaxRx
BY ElementOfSeq, LenProperties DEF Range

\* A new session keeps the types of the Java side.
LEMMA NewSession ==
    ASSUME TypeOK, NEW p \in IoPoints, Len(io) < MaxSessions,
           io' = Append(io, p), held' = Append(held, <<>>),
           ports' = ports \cup {Len(io) + 1}
    PROVE  /\ io' \in Seq(IoPoints) /\ held' \in Seq(Seq(1..MaxRx))
           /\ Len(io') = Len(io) + 1 /\ Len(held') = Len(io') /\ Len(io') <= MaxSessions
           /\ DOMAIN io' = 1..(Len(io) + 1) /\ ports' \subseteq DOMAIN io'
           /\ io'[Len(io) + 1] = p /\ \A s \in Sessions : io'[s] = io[s]
<1>1. /\ io \in Seq(IoPoints) /\ held \in Seq(Seq(1..MaxRx)) /\ Len(held) = Len(io)
      /\ Len(io) \in Nat /\ Sessions = 1..Len(io) /\ ports \subseteq Sessions
  BY SequenceTypes DEF TypeOK, JavaOK
<1>2. <<>> \in Seq(1..MaxRx)
  BY EmptySeq
<1>3. /\ io' \in Seq(IoPoints) /\ Len(io') = Len(io) + 1 /\ DOMAIN io' = 1..(Len(io) + 1)
      /\ io'[Len(io) + 1] = p /\ \A s \in 1..Len(io) : io'[s] = io[s]
  BY <1>1, Appended
<1>4. held' \in Seq(Seq(1..MaxRx)) /\ Len(held') = Len(held) + 1
  BY <1>1, <1>2, Appended
<1>5. Len(io') <= MaxSessions /\ Len(held') = Len(io')
  BY <1>1, <1>3, <1>4
<1>6. ports' \subseteq DOMAIN io'
  <2>1. 1..Len(io) \subseteq 1..(Len(io) + 1) /\ Len(io) + 1 \in 1..(Len(io) + 1)
    BY <1>1
  <2>2. ports \subseteq 1..(Len(io) + 1)
    BY <1>1, <2>1
  <2> QED
    BY <1>3, <2>1, <2>2
<1> QED
  BY <1>1, <1>3, <1>4, <1>5, <1>6

\* A step of an io thread keeps them too.
LEMMA IoStep ==
    ASSUME TypeOK, NEW s \in Sessions, NEW p \in IoPoints, NEW d \in Seq(1..MaxRx),
           io' = [io EXCEPT ![s] = p], held' \in {held, [held EXCEPT ![s] = d]}
    PROVE  /\ io' \in Seq(IoPoints) /\ held' \in Seq(Seq(1..MaxRx))
           /\ Len(io') = Len(io) /\ Len(held') = Len(io') /\ DOMAIN io' = Sessions
           /\ io'[s] = p /\ \A r \in Sessions \ {s} : io'[r] = io[r]
<1>1. /\ io \in Seq(IoPoints) /\ held \in Seq(Seq(1..MaxRx)) /\ Len(held) = Len(io)
      /\ s \in 1..Len(io) /\ Sessions = 1..Len(io)
  BY SequenceTypes DEF TypeOK, JavaOK
<1>2. io' \in Seq(IoPoints) /\ Len(io') = Len(io)
  BY <1>1, ExceptSeq
<1>3. [held EXCEPT ![s] = d] \in Seq(Seq(1..MaxRx)) /\ Len([held EXCEPT ![s] = d]) = Len(held)
  BY <1>1, ExceptSeq
<1>4. DOMAIN io' = Sessions /\ io'[s] = p /\ \A r \in Sessions \ {s} : io'[r] = io[r]
  BY <1>1 DEF Sessions
<1> QED
  BY <1>1, <1>2, <1>3, <1>4

-----------------------------------------------------------------------------
\* The types hold at the start.
LEMMA TypeInit == Init => TypeOK
<1> SUFFICES ASSUME Init PROVE TypeOK
  OBVIOUS
<1>1. /\ <<>> \in Seq(1..MaxRx) /\ <<>> \in Seq(IoPoints) /\ <<>> \in Seq(Seq(1..MaxRx))
      /\ <<>> \in Seq(BOOLEAN) /\ Len(<<>>) = 0
  BY EmptySeq
<1>2. JavaOK
  BY <1>1 DEF Init, JavaOK, Sessions
<1>3. PermitOK
  <2>1. 0 \in 0..MaxDialogs /\ 0 <= 0
    OBVIOUS
  <2>2. /\ permitted = FALSE /\ granted = FALSE /\ onMain = FALSE
        /\ dialogs = 0 /\ asked = 0 /\ broadcasts = <<>>
    BY DEF Init
  <2> QED
    BY <1>1, <2>1, <2>2 DEF PermitOK
<1>4. NativeOK /\ UserOK
  BY <1>1 DEF Init, NativeOK, UserOK, SerialErrors
<1>5. DeviceOK
  BY <1>1 DEF Init, DeviceOK
<1> QED
  BY <1>2, <1>3, <1>4, <1>5 DEF TypeOK

\* open() keeps the types.
LEMMA OpenTypes ==
    TypeOK /\ Control /\ (OpenSteps \/ OpenRefused \/ OpenPermitted \/ RequestPermission)
        => TypeOK'
<1> SUFFICES ASSUME TypeOK, Control,
                    OpenSteps \/ OpenRefused \/ OpenPermitted \/ RequestPermission
             PROVE  TypeOK'
  OBVIOUS
<1> USE DEF nativeVars, javaVars, userVars, permitVars, deviceVars, historyVars
<1>1. Len(io) \in Nat /\ Sessions = 1..Len(io)
  BY SequenceTypes
<1>2. CASE OpenRefused
  BY <1>2 DEF OpenRefused, FailOpen, TypeOK, NativeOK, JavaOK, UserOK, PermitOK, DeviceOK,
     SerialErrors, Sessions
<1>3. CASE OpenPermitted
  BY <1>3 DEF OpenPermitted, TypeOK, NativeOK, JavaOK, UserOK, PermitOK, DeviceOK, OpenPoints,
     Sessions
<1>4. CASE RequestPermission
  <2>1. dialogs' \in 0..MaxDialogs /\ asked' \in 0..MaxDialogs /\ dialogs' <= asked'
    BY <1>4 DEF RequestPermission, TypeOK, PermitOK
  <2>2. PermitOK'
    BY <1>4, <2>1 DEF RequestPermission, TypeOK, PermitOK
  <2> QED
    BY <1>4, <2>2 DEF RequestPermission, TypeOK, NativeOK, JavaOK, UserOK, DeviceOK,
       OpenPoints, Sessions
<1>5. CASE PermissionReturns
  BY <1>5 DEF PermissionReturns, PermissionOutcome, PermissionUnchanged, FailOpen, TypeOK,
     NativeOK, JavaOK, UserOK, PermitOK, DeviceOK, OpenPoints, SerialErrors, Sessions
<1>6. CASE OpenDeviceFails
  <2>1. NativeOK' /\ UserOK' /\ PermitOK'
    BY <1>6 DEF OpenDeviceFails, FailOpen, TypeOK, NativeOK, UserOK, PermitOK, SerialErrors
  <2>2. DeviceOK'
    BY <1>6 DEF OpenDeviceFails, StillClean, TypeOK, DeviceOK, NativeOK
  <2>3. CASE UNCHANGED <<io, held, ports, clean>>
    BY <1>6, <2>1, <2>2, <2>3 DEF OpenDeviceFails, TypeOK, JavaOK, Sessions
  <2>4. CASE /\ Len(io) < MaxSessions
             /\ io' = Append(io, "leaked") /\ held' = Append(held, <<>>)
             /\ ports' = ports \cup {Len(io) + 1}
    <3>1. "leaked" \in IoPoints
      BY DEF IoPoints
    <3> QED
      BY <1>1, <1>6, <2>1, <2>2, <2>4, <3>1, NewSession, SMTT(25)
         DEF OpenDeviceFails, TypeOK, JavaOK, Sessions
  <2> QED
    BY <1>6, <2>3, <2>4 DEF OpenDeviceFails
<1>7. CASE OpenDevice
  <2>1. NativeOK' /\ UserOK' /\ PermitOK' /\ DeviceOK'
    BY <1>7 DEF OpenDevice, StillClean, TypeOK, NativeOK, UserOK, PermitOK, DeviceOK, OpenPoints
  <2>2. "new" \in IoPoints
    BY DEF IoPoints
  <2> QED
    BY <1>1, <1>7, <2>1, <2>2, NewSession DEF OpenDevice, TypeOK, JavaOK, Sessions
<1>8. CASE IoStart
  <2>1. "run" \in IoPoints /\ io \in Seq(IoPoints)
    BY DEF IoPoints, TypeOK, JavaOK
  <2>2. Len(io) \in 1..Len(io)
    BY <1>8, <1>1 DEF IoStart, Control, TypeOK, JavaOK
  <2>3. io' \in Seq(IoPoints) /\ Len(io') = Len(io) /\ DOMAIN io' = Sessions
    BY <1>8, <1>1, <2>1, <2>2, ExceptSeq DEF IoStart, Sessions
  <2> QED
    BY <1>8, <2>3 DEF IoStart, TypeOK, NativeOK, JavaOK, UserOK, PermitOK, DeviceOK, OpenPoints,
       Sessions
<1>9. CASE Put
  <2>1. entry' \in 0..Len(io)
    BY <1>1, <1>9 DEF Put
  <2> QED
    BY <1>9, <2>1 DEF Put, TypeOK, NativeOK, JavaOK, UserOK, PermitOK, DeviceOK, OpenPoints,
       Sessions
<1>10. CASE Register
  BY <1>10 DEF Register, TypeOK, NativeOK, JavaOK, UserOK, PermitOK, DeviceOK, OpenPoints,
     Sessions
<1>11. CASE SetOpen
  BY <1>11 DEF SetOpen, TypeOK, NativeOK, JavaOK, UserOK, PermitOK, DeviceOK, SerialErrors,
     Sessions
<1> QED
  BY <1>2, <1>3, <1>4, <1>5, <1>6, <1>7, <1>8, <1>9, <1>10, <1>11 DEF OpenSteps

\* close() keeps them.
LEMMA CloseTypes == TypeOK /\ Control /\ (CloseCall \/ CloseSteps) => TypeOK'
<1> SUFFICES ASSUME TypeOK, Control, CloseCall \/ CloseSteps
             PROVE  TypeOK'
  OBVIOUS
<1> USE DEF nativeVars, javaVars, userVars, permitVars, deviceVars, historyVars
<1>1. Len(io) \in Nat /\ Sessions = 1..Len(io)
  BY SequenceTypes
<1>2. CASE CloseCall
  BY <1>2 DEF CloseCall, TypeOK, NativeOK, JavaOK, UserOK, PermitOK, DeviceOK, ClosePoints,
     Sessions
<1>3. CASE Unregister \/ CloseUnattached
  BY <1>3 DEF Unregister, CloseUnattached, TypeOK, NativeOK, JavaOK, UserOK, PermitOK, DeviceOK, ClosePoints,
     Sessions
<1>4. CASE Remove
  <2>1. entry' \in 0..Len(io) /\ closing' \in 0..Len(io)
    BY <1>1, <1>4 DEF Remove, TypeOK, JavaOK
  <2>2. UserOK'
    BY <1>4 DEF Remove, UserOK, ClosePoints
  <2> QED
    BY <1>4, <2>1, <2>2 DEF Remove, TypeOK, NativeOK, JavaOK, PermitOK, DeviceOK, Sessions
<1>5. CASE IoStop
  <2>1. closing \in Sessions
    BY <1>1, <1>5 DEF IoStop, Control, TypeOK, JavaOK
  <2> QED
    BY <1>5, <2>1 DEF IoStop, TypeOK, NativeOK, JavaOK, UserOK, PermitOK, DeviceOK,
       ClosePoints, Sessions
<1>6. CASE PortClose
  <2>1. 0 \in 0..Len(io)
    BY <1>1
  <2> QED
    BY <1>6, <2>1 DEF PortClose, TypeOK, NativeOK, JavaOK, UserOK, PermitOK, DeviceOK,
       ClosePoints, Sessions
<1>7. CASE CloseClearBuffer
  <2>1. <<>> \in Seq(1..MaxRx) /\ Range(readBuffer) \subseteq 1..MaxRx
    BY EmptySeq, RangeOfBytes DEF TypeOK, NativeOK
  <2> QED
    BY <1>7, <2>1 DEF CloseClearBuffer, DropBuffer, TypeOK, NativeOK, JavaOK, UserOK, PermitOK,
       DeviceOK, Sessions
<1> QED
  BY <1>2, <1>3, <1>4, <1>5, <1>6, <1>7 DEF CloseSteps

\* So do the other calls and the environment.
LEMMA CallTypes ==
    TypeOK /\ (AndroidInit \/ ReadCall \/ Clear \/ RecordError \/ Environment) => TypeOK'
<1> SUFFICES ASSUME TypeOK, AndroidInit \/ ReadCall \/ Clear \/ RecordError \/ Environment
             PROVE  TypeOK'
  OBVIOUS
<1> USE DEF nativeVars, javaVars, userVars, permitVars, deviceVars, historyVars
<1>1. CASE AndroidInit
  BY <1>1 DEF AndroidInit, TypeOK, NativeOK, JavaOK, UserOK, PermitOK, DeviceOK, Sessions
<1>2. CASE ReadCall
  <2>1. PICK max \in ReadSizes :
          LET n == IF Len(readBuffer) < max THEN Len(readBuffer) ELSE max
          IN /\ received' = received \o SubSeq(readBuffer, 1, n)
             /\ readBuffer' = SubSeq(readBuffer, n + 1, Len(readBuffer))
    BY <1>2 DEF ReadCall
  <2> DEFINE n == IF Len(readBuffer) < max THEN Len(readBuffer) ELSE max
  <2>2. readBuffer \in Seq(1..MaxRx) /\ received \in Seq(1..MaxRx) /\ Len(readBuffer) \in Nat
    BY LenProperties DEF TypeOK, NativeOK, DeviceOK
  <2>3. n \in 0..Len(readBuffer)
    BY <2>2
  <2>4. /\ SubSeq(readBuffer, 1, n) \in Seq(1..MaxRx)
        /\ SubSeq(readBuffer, n + 1, Len(readBuffer)) \in Seq(1..MaxRx)
    BY <2>2, <2>3, CutSequence
  <2>5. received' \in Seq(1..MaxRx) /\ readBuffer' \in Seq(1..MaxRx)
    BY <2>1, <2>2, <2>4, ConcatProperties
  <2> QED
    BY <1>2, <2>5 DEF ReadCall, TypeOK, NativeOK, JavaOK, UserOK, PermitOK, DeviceOK, Sessions
<1>3. CASE Clear
  <2>1. <<>> \in Seq(1..MaxRx) /\ Range(readBuffer) \subseteq 1..MaxRx
    BY EmptySeq, RangeOfBytes DEF TypeOK, NativeOK
  <2> QED
    BY <1>3, <2>1 DEF Clear, DropBuffer, TypeOK, NativeOK, JavaOK, UserOK, PermitOK, DeviceOK,
       Sessions
<1>4. CASE RecordError
  <2>1. WriteErrors \subseteq SerialErrors
    BY DEF WriteErrors, SerialErrors, TypeOK, NativeOK
  <2>2. error' \in SerialErrors
    BY <1>4, <2>1 DEF RecordError, SerialErrors
  <2> QED
    BY <1>4, <2>2 DEF RecordError, TypeOK, NativeOK, JavaOK, UserOK, PermitOK, DeviceOK, Sessions
<1>5. CASE UserAnswers
  <2>1. dialogs' \in 0..MaxDialogs /\ dialogs' <= asked
    BY <1>5 DEF UserAnswers, TypeOK, PermitOK
  <2>2. broadcasts' \in Seq(BOOLEAN)
    BY <1>5, Appended DEF UserAnswers, TypeOK, PermitOK
  <2>3. permitted' \in BOOLEAN
    BY <1>5 DEF UserAnswers, TypeOK, PermitOK
  <2> QED
    BY <1>5, <2>1, <2>2, <2>3 DEF UserAnswers, TypeOK, NativeOK, JavaOK, UserOK, PermitOK,
       DeviceOK, Sessions
<1>6. CASE BroadcastArrives
  <2>1. Tail(broadcasts) \in Seq(BOOLEAN) /\ Head(broadcasts) \in BOOLEAN
    BY <1>6, TailElements DEF BroadcastArrives, TypeOK, PermitOK
  <2>2. granted' \in BOOLEAN
    BY <1>6, <2>1 DEF BroadcastArrives, Received, TypeOK, PermitOK
  <2> QED
    BY <1>6, <2>1, <2>2 DEF BroadcastArrives, TypeOK, NativeOK, JavaOK, UserOK, PermitOK,
       DeviceOK, Sessions
<1>7. CASE DeviceSends
  <2>1. rxSent' \in 0..MaxRx /\ rxSent + 1 \in 1..MaxRx
    BY <1>7 DEF DeviceSends, TypeOK, DeviceOK
  <2>2. kernelIn' \in Seq(1..MaxRx)
    BY <1>7, <2>1, Appended DEF DeviceSends, TypeOK, DeviceOK
  <2> QED
    BY <1>7, <2>1, <2>2 DEF DeviceSends, TypeOK, NativeOK, JavaOK, UserOK, PermitOK, DeviceOK,
       Sessions
<1>8. CASE DeviceUnplugged
  <2>1. <<>> \in Seq(1..MaxRx) /\ Range(kernelIn) \subseteq 1..MaxRx
    BY EmptySeq, RangeOfBytes DEF TypeOK, DeviceOK
  <2> QED
    BY <1>8, <2>1 DEF DeviceUnplugged, TypeOK, NativeOK, JavaOK, UserOK, PermitOK, DeviceOK,
       Sessions
<1> QED
  BY <1>1, <1>2, <1>3, <1>4, <1>5, <1>6, <1>7, <1>8 DEF Environment

\* So does an io thread.
LEMMA IoTypes == ASSUME TypeOK, NEW s \in Sessions, Io(s) PROVE TypeOK'
<1> USE DEF nativeVars, javaVars, userVars, permitVars, deviceVars, historyVars
<1>1. <<>> \in Seq(1..MaxRx) /\ held[s] \in Seq(1..MaxRx) /\ IoPoints = IoPoints \cup {"run"}
  BY EmptySeq, SequenceTypes DEF IoPoints
<1>2. \E p \in IoPoints, d \in Seq(1..MaxRx) :
        io' = [io EXCEPT ![s] = p] /\ held' \in {held, [held EXCEPT ![s] = d]}
  <2>1. CASE IoReads(s)
    <3>1. PICK n \in 1..Len(kernelIn) : held' = [held EXCEPT ![s] = SubSeq(kernelIn, 1, n)]
      BY <2>1 DEF IoReads
    <3>2. SubSeq(kernelIn, 1, n) \in Seq(1..MaxRx)
      BY CutSequence, LenProperties DEF TypeOK, DeviceOK
    <3> QED
      BY <2>1, <3>1, <3>2 DEF IoReads, IoPoints
  <2>2. CASE ~IoReads(s)
    BY <1>1, <2>2 DEF Io, IoLoops, IoFails, OnRead, HandleData, OnError, CallbackReturns, IoPoints
  <2> QED
    BY <2>1, <2>2
<1>3. /\ io' \in Seq(IoPoints) /\ held' \in Seq(Seq(1..MaxRx))
      /\ Len(io') = Len(io) /\ Len(held') = Len(io') /\ DOMAIN io' = Sessions
  BY <1>2, IoStep
<1>4. JavaOK'
  BY <1>3 DEF Io, IoLoops, IoReads, IoFails, OnRead, HandleData, OnError, CallbackReturns,
     TypeOK, JavaOK, Sessions
<1>5. readBuffer' \in Seq(1..MaxRx)
  <2>1. readBuffer' = readBuffer \/ readBuffer' = readBuffer \o held[s]
    BY DEF Io, IoLoops, IoReads, IoFails, OnRead, HandleData, OnError, CallbackReturns
  <2>2. readBuffer \in Seq(1..MaxRx)
    BY DEF TypeOK, NativeOK
  <2>3. held[s] \in Seq(1..MaxRx)
    BY <1>1
  <2>4. readBuffer \o held[s] \in Seq(1..MaxRx)
    BY <2>2, <2>3, ConcatProperties
  <2> QED
    BY <2>1, <2>2, <2>4
<1>6. NativeOK' /\ UserOK' /\ PermitOK'
  BY <1>5 DEF Io, IoLoops, IoReads, IoFails, OnRead, HandleData, OnError, CallbackReturns,
     TypeOK, NativeOK, UserOK, PermitOK
<1>7. kernelIn' \in Seq(1..MaxRx)
  <2>1. CASE IoReads(s)
    <3>1. PICK n \in 1..Len(kernelIn) : kernelIn' = SubSeq(kernelIn, n + 1, Len(kernelIn))
      BY <2>1 DEF IoReads
    <3>2. kernelIn \in Seq(1..MaxRx) /\ Len(kernelIn) \in Nat
      BY LenProperties DEF TypeOK, DeviceOK
    <3>3. n \in 0..Len(kernelIn)
      BY <3>1, <3>2
    <3> QED
      BY <3>1, <3>2, <3>3, CutSequence
  <2> QED
    BY <2>1 DEF Io, IoLoops, IoFails, OnRead, HandleData, OnError, CallbackReturns, TypeOK,
       DeviceOK
<1>8. dropped' \subseteq 1..MaxRx
  BY <1>1, RangeOfBytes DEF Io, IoLoops, IoReads, IoFails, OnRead, HandleData, OnError,
     CallbackReturns, TypeOK, DeviceOK
<1>9. DeviceOK'
  BY <1>7, <1>8 DEF Io, IoLoops, IoReads, IoFails, OnRead, HandleData, OnError,
     CallbackReturns, TypeOK, DeviceOK
<1> QED
  BY <1>4, <1>6, <1>9 DEF TypeOK

\* A step keeps the types.
LEMMA TypeStep == TypeOK /\ Control /\ [Next]_vars => TypeOK'
<1>1. TypeOK /\ UNCHANGED vars => TypeOK'
  BY DEF vars, nativeVars, javaVars, userVars, permitVars, deviceVars, historyVars, TypeOK,
     NativeOK, JavaOK, UserOK, PermitOK, DeviceOK, Sessions
<1> QED
  BY <1>1, OpenTypes, CloseTypes, CallTypes, IoTypes DEF Next, Calls

-----------------------------------------------------------------------------
\* A step keeps the places of the user thread and the port in agreement, and
\* what is open backed.
LEMMA ControlStep ==
    TypeOK /\ Control /\ OpenIsBacked /\ [Next]_vars => Control' /\ OpenIsBacked'
<1> SUFFICES ASSUME TypeOK, Control, OpenIsBacked, [Next]_vars
             PROVE  Control' /\ OpenIsBacked'
  OBVIOUS
<1> USE DEF nativeVars, javaVars, userVars, permitVars, deviceVars, historyVars, OpenPoints,
            ClosePoints
<1>1. Len(io) \in Nat /\ ports \subseteq 1..Len(io) /\ Sessions = 1..Len(io)
  BY SequenceTypes DEF TypeOK, JavaOK
<1>2. CASE UNCHANGED vars
  BY <1>2 DEF vars, Control, OpenIsBacked
<1>3. CASE AndroidInit \/ OpenRefused \/ OpenPermitted \/ RequestPermission \/ PermissionReturns
  BY <1>3 DEF AndroidInit, OpenRefused, OpenPermitted, RequestPermission, PermissionReturns,
     PermissionOutcome, PermissionUnchanged, FailOpen, Control, OpenIsBacked
<1>4. CASE OpenDeviceFails
  <2>1. CASE UNCHANGED <<io, held, ports, clean>>
    BY <1>4, <2>1 DEF OpenDeviceFails, FailOpen, Control, OpenIsBacked
  <2>2. CASE /\ Len(io) < MaxSessions
             /\ io' = Append(io, "leaked") /\ held' = Append(held, <<>>)
             /\ ports' = ports \cup {Len(io) + 1}
    <3>1. "leaked" \in IoPoints
      BY DEF IoPoints
    <3>2. Len(io') = Len(io) + 1
      BY <2>2, <3>1, NewSession
    <3> QED
      BY <1>4, <2>2, <3>2 DEF OpenDeviceFails, FailOpen, Control, OpenIsBacked
  <2> QED
    BY <1>4, <2>1, <2>2 DEF OpenDeviceFails
<1>5. CASE OpenDevice
  <2>1. "new" \in IoPoints
    BY DEF IoPoints
  <2>2. Len(io') = Len(io) + 1
    BY <1>5, <2>1, NewSession DEF OpenDevice
  <2> QED
    BY <1>5, <2>2 DEF OpenDevice, Control, OpenIsBacked
<1>6. CASE IoStart
  <2>1. Len(io') = Len(io)
    BY <1>6, ExceptSeq DEF IoStart, TypeOK, JavaOK, IoPoints, Control, Sessions
  <2> QED
    BY <1>6, <2>1 DEF IoStart, Control, OpenIsBacked
<1>7. CASE Put \/ Register \/ SetOpen
  BY <1>7 DEF Put, Register, SetOpen, Control, OpenIsBacked
<1>8. CASE CloseCall \/ CloseSteps
  BY <1>8 DEF CloseCall, CloseSteps, Unregister, CloseUnattached, Remove, IoStop, PortClose,
     CloseClearBuffer, Control, OpenIsBacked
<1>9. CASE ReadCall \/ Clear \/ RecordError \/ Environment
  <2>1. UNCHANGED <<user, isOpen, registered, entry, io, ports, closing>>
    BY <1>9 DEF ReadCall, Clear, RecordError, Environment, UserAnswers, BroadcastArrives,
       DeviceSends, DeviceUnplugged
  <2> QED
    BY <2>1 DEF Control, OpenIsBacked
<1>10. CASE \E s \in Sessions : Io(s)
  <2>1. PICK s \in Sessions : Io(s)
    BY <1>10
  <2>2. Len(io') = Len(io)
    <3>1. \E p : io' = [io EXCEPT ![s] = p]
      BY <2>1 DEF Io, IoLoops, IoReads, IoFails, OnRead, HandleData, OnError, CallbackReturns
    <3>2. DOMAIN io' = 1..Len(io)
      BY <1>1, <3>1 DEF Sessions
    <3>3. io' \in Seq(IoPoints)
      BY <2>1, IoTypes DEF TypeOK, JavaOK
    <3> QED
      BY <1>1, <3>2, <3>3, LenProperties
  <2> QED
    BY <2>1, <2>2 DEF Io, IoLoops, IoReads, IoFails, OnRead, HandleData, OnError,
       CallbackReturns, Control, OpenIsBacked
<1> QED
  BY <1>2, <1>3, <1>4, <1>5, <1>6, <1>7, <1>8, <1>9, <1>10 DEF Next, Calls, OpenSteps

\* A step keeps the answers honest.
LEMMA AnswersStep ==
    TypeOK /\ AnswersAreGiven /\ OpensWithPermission /\ [Next]_vars
        => AnswersAreGiven' /\ OpensWithPermission'
<1> SUFFICES ASSUME TypeOK, AnswersAreGiven, OpensWithPermission, [Next]_vars
             PROVE  AnswersAreGiven' /\ OpensWithPermission'
  OBVIOUS
<1> USE DEF nativeVars, javaVars, userVars, permitVars, deviceVars, historyVars
<1>1. CASE UNCHANGED vars
  BY <1>1 DEF vars, AnswersAreGiven, OpensWithPermission
<1>2. CASE OpenSteps
  BY <1>2 DEF OpenSteps, PermissionReturns, PermissionOutcome, PermissionUnchanged, FailOpen,
     OpenDeviceFails, OpenDevice, IoStart, Put, Register, SetOpen, AnswersAreGiven,
     OpensWithPermission
<1>3. CASE CloseSteps
  BY <1>3 DEF CloseSteps, Unregister, CloseUnattached, Remove, IoStop, PortClose,
     CloseClearBuffer, AnswersAreGiven, OpensWithPermission
<1>4. CASE Calls
  <2>1. /\ UNCHANGED <<permitted, broadcasts, attached>> /\ (granted' => granted)
        /\ user' = "openDevice" => permitted \/ user = "openDevice"
    <3>1. CASE AndroidInit \/ ReadCall \/ Clear \/ RecordError
      <4>1. UNCHANGED <<permitted, broadcasts, attached, granted, user>>
        BY <3>1 DEF AndroidInit, ReadCall, Clear, RecordError
      <4> QED
        BY <4>1
    <3>4. CASE OpenPermitted \/ CloseCall
      BY <3>4 DEF OpenPermitted, CloseCall
    <3>2. CASE OpenRefused
      BY <3>2 DEF OpenRefused, FailOpen
    <3>3. CASE RequestPermission
      BY <3>3 DEF RequestPermission
    <3> QED
      BY <1>4, <3>1, <3>2, <3>3, <3>4 DEF Calls
  <2> QED
    BY <2>1 DEF AnswersAreGiven, OpensWithPermission
<1>5. CASE \E s \in Sessions : Io(s)
  BY <1>5 DEF Io, IoLoops, IoReads, IoFails, OnRead, HandleData, OnError, CallbackReturns,
     AnswersAreGiven, OpensWithPermission
<1>6. CASE UserAnswers
  <2>1. PICK yes \in BOOLEAN : /\ permitted' = (permitted \/ (yes /\ attached))
                             /\ broadcasts' = Append(broadcasts, yes)
    BY <1>6 DEF UserAnswers
  <2>2. /\ DOMAIN broadcasts' = 1..(Len(broadcasts) + 1)
        /\ broadcasts'[Len(broadcasts) + 1] = yes
        /\ DOMAIN broadcasts = 1..Len(broadcasts) /\ Len(broadcasts) \in Nat
        /\ \A i \in 1..Len(broadcasts) : broadcasts'[i] = broadcasts[i]
    BY <2>1, Appended, LenProperties DEF TypeOK, PermitOK
  <2>3. \A i \in DOMAIN broadcasts' : i \in DOMAIN broadcasts \/ i = Len(broadcasts) + 1
    BY <2>2
  <2>4. attached' = attached /\ granted' = granted /\ user' = user
    BY <1>6 DEF UserAnswers
  <2> QED
    BY <2>1, <2>2, <2>3, <2>4 DEF AnswersAreGiven, OpensWithPermission
<1>7. CASE BroadcastArrives
  <2>1. /\ 1 \in DOMAIN broadcasts /\ Head(broadcasts) = broadcasts[1]
        /\ \A i \in DOMAIN Tail(broadcasts) :
             i + 1 \in DOMAIN broadcasts /\ Tail(broadcasts)[i] = broadcasts[i + 1]
    BY <1>7, TailElements DEF BroadcastArrives, TypeOK, PermitOK
  <2>2. /\ broadcasts' = Tail(broadcasts) /\ granted' \in {granted, Head(broadcasts)}
        /\ UNCHANGED <<attached, permitted, user>>
    BY <1>7 DEF BroadcastArrives, Received
  <2> QED
    BY <2>1, <2>2 DEF AnswersAreGiven, OpensWithPermission
<1>8. CASE DeviceSends \/ DeviceUnplugged
  BY <1>8 DEF DeviceSends, DeviceUnplugged, AnswersAreGiven, OpensWithPermission
<1> QED
  BY <1>1, <1>2, <1>3, <1>4, <1>5, <1>6, <1>7, <1>8 DEF Next, Environment

\* A step in which no thread moves and no port opens leaves failures explained.
LEMMA NoFailure ==
    ASSUME FailureExplained, io' = io, ports' \subseteq ports,
           clean' => clean, attached' => attached
    PROVE  FailureExplained'
BY DEF FailureExplained, Sessions

\* A session that begins cleanly is the only living one.
LEMMA OnlyNewest ==
    ASSUME TypeOK, NEW p \in {"new", "leaked"}, Len(io) < MaxSessions, clean' = StillClean,
           io' = Append(io, p), held' = Append(held, <<>>), ports' = ports \cup {Len(io) + 1}
    PROVE  FailureExplained'
<1>1. p \in IoPoints
  BY DEF IoPoints
<1>2. /\ DOMAIN io' = 1..(Len(io) + 1) /\ Len(io') = Len(io) + 1
      /\ io'[Len(io) + 1] = p /\ \A s \in Sessions : io'[s] = io[s]
  BY <1>1, NewSession
<1>3. Len(io) \in Nat /\ Sessions = 1..Len(io)
  BY SequenceTypes
<1>4. \A s \in DOMAIN io' : s \in Sessions \/ s = Len(io')
  BY <1>2, <1>3
<1> QED
  BY <1>2, <1>3, <1>4 DEF FailureExplained, StillClean, Sessions

\* A step of an io thread leaves failures explained.
LEMMA IoExplained ==
    ASSUME TypeOK, Control, FailureExplained, NEW s \in Sessions, Io(s)
    PROVE  FailureExplained'
<1> USE DEF nativeVars, javaVars, userVars, permitVars, deviceVars, historyVars
<1>1. UNCHANGED <<ports, clean, attached>>
  BY DEF Io, IoLoops, IoReads, IoFails, OnRead, HandleData, OnError, CallbackReturns
<1>2. io[s] \notin {"done", "leaked"}
  BY DEF Io, IoLoops, IoReads, IoFails, OnRead, HandleData, OnError, CallbackReturns, InCallback
<1>3. clean => s = Len(io)
  BY <1>2 DEF FailureExplained
<1>4. \E p : io' = [io EXCEPT ![s] = p]
  BY DEF Io, IoLoops, IoReads, IoFails, OnRead, HandleData, OnError, CallbackReturns
<1>5. Len(io') = Len(io) /\ DOMAIN io' = Sessions /\ \A r \in Sessions \ {s} : io'[r] = io[r]
  <2>1. io \in Seq(IoPoints) /\ io' \in Seq(IoPoints) /\ Sessions = 1..Len(io)
    BY IoTypes, SequenceTypes DEF TypeOK, JavaOK
  <2>2. DOMAIN io' = Sessions /\ \A r \in Sessions \ {s} : io'[r] = io[r]
    BY <1>4 DEF Sessions
  <2> QED
    BY <2>1, <2>2, LenProperties
<1>6. io'[s] = "failed" => ~attached \/ s \notin ports \/ s # Len(io)
  BY DEF Io, IoLoops, IoReads, IoFails, OnRead, HandleData, OnError, CallbackReturns, Sessions
<1>7. io'[s] = "onError" => io[s] = "failed" /\ registered
  BY DEF Io, IoLoops, IoReads, IoFails, OnRead, HandleData, OnError, CallbackReturns, Sessions
<1>8. registered => Len(io) \in ports
  BY DEF Control
<1>9. clean /\ io'[s] = "onError" => ~attached
  BY <1>3, <1>7, <1>8 DEF FailureExplained
<1> QED
  BY <1>1, <1>3, <1>5, <1>6, <1>9 DEF FailureExplained, Sessions

\* A step keeps failures explained.
LEMMA FailureExplainedStep ==
    TypeOK /\ Control /\ FailureExplained /\ [Next]_vars => FailureExplained'
<1> SUFFICES ASSUME TypeOK, Control, FailureExplained, [Next]_vars
             PROVE  FailureExplained'
  OBVIOUS
<1> USE DEF nativeVars, javaVars, userVars, permitVars, deviceVars, historyVars
<1>1. CASE UNCHANGED vars
  BY <1>1, NoFailure DEF vars
<1>2. CASE PermissionReturns \/ Put \/ Register \/ SetOpen
  BY <1>2, NoFailure DEF PermissionReturns, PermissionUnchanged, Put, Register, SetOpen
<1>3. CASE OpenDeviceFails
  BY <1>3, NoFailure, OnlyNewest DEF OpenDeviceFails
<1>4. CASE OpenDevice
  BY <1>4, OnlyNewest DEF OpenDevice
<1>5. CASE IoStart
  <2>1. /\ UNCHANGED <<ports, clean, attached>> /\ DOMAIN io' = Sessions
        /\ \A r \in Sessions : io'[r] = io[r] \/ (r = Len(io) /\ io'[r] = "run")
    BY <1>5 DEF IoStart, Sessions
  <2>2. Len(io') = Len(io)
    <3>1. io \in Seq(IoPoints) /\ "run" \in IoPoints /\ Len(io) \in 1..Len(io)
      BY <1>5, SequenceTypes DEF IoStart, Control, IoPoints, TypeOK, JavaOK
    <3> QED
      BY <1>5, <3>1, ExceptSeq DEF IoStart
  <2> QED
    BY <2>1, <2>2 DEF FailureExplained, Sessions
<1>6. CASE CloseSteps
  BY <1>6, NoFailure DEF CloseSteps, Unregister, CloseUnattached, FailureExplained, Remove,
     IoStop, PortClose, CloseClearBuffer
<1>7. CASE Calls
  <2>1. UNCHANGED <<io, ports, clean, attached>>
    BY <1>7 DEF Calls, AndroidInit, OpenRefused, OpenPermitted, RequestPermission, CloseCall,
       ReadCall, Clear, RecordError
  <2> QED
    BY <2>1, NoFailure
<1>8. CASE \E s \in Sessions : Io(s)
  BY <1>8, IoExplained
<1>9. CASE Environment
  BY <1>9, NoFailure DEF Environment, UserAnswers, BroadcastArrives, DeviceSends,
     DeviceUnplugged
<1> QED
  BY <1>1, <1>2, <1>3, <1>4, <1>5, <1>6, <1>7, <1>8, <1>9 DEF Next, OpenSteps

\* Only the io thread of a started session moves in io.
LEMMA OthersRest ==
    ASSUME TypeOK, NEW s \in Sessions, Io(s)
    PROVE  /\ Len(io') = Len(io) /\ io[s] # "leaked"
           /\ \A r \in Sessions \ {s} : io'[r] = io[r]
           /\ UNCHANGED <<user, entry, closing, ports, isOpen, clean>>
<1> USE DEF nativeVars, javaVars, userVars, permitVars, deviceVars, historyVars
<1>1. (\E p : io' = [io EXCEPT ![s] = p]) /\ io[s] # "leaked"
  BY DEF Io, IoLoops, IoReads, IoFails, OnRead, HandleData, OnError, CallbackReturns, InCallback
<1>2. Len(io) \in Nat /\ Sessions = 1..Len(io)
  BY SequenceTypes
<1>3. Len(io') = Len(io)
  <2>1. DOMAIN io' = 1..Len(io)
    BY <1>1, <1>2 DEF Sessions
  <2>2. io' \in Seq(IoPoints)
    BY IoTypes DEF TypeOK, JavaOK
  <2> QED
    BY <1>2, <2>1, <2>2, LenProperties
<1>4. \A r \in Sessions \ {s} : io'[r] = io[r]
  BY <1>1 DEF Sessions
<1>5. UNCHANGED <<user, entry, closing, ports, isOpen, clean>>
  BY DEF Io, IoLoops, IoReads, IoFails, OnRead, HandleData, OnError, CallbackReturns
<1> QED
  BY <1>1, <1>3, <1>4, <1>5

\* A step leaves no open port without an owner.
LEMMA OwnedStep ==
    ASSUME TypeOK, Control, EntryWhenOpen, OpenPortsAreOwned, [Next]_vars
    PROVE  EntryWhenOpen' /\ OpenPortsAreOwned'
<1> USE DEF nativeVars, javaVars, userVars, permitVars, deviceVars, historyVars, ClosePoints
<1>1. Len(io) \in Nat /\ ports \subseteq 1..Len(io) /\ Sessions = 1..Len(io)
  BY SequenceTypes DEF TypeOK, JavaOK
<1>2. CASE AndroidInit \/ OpenRefused \/ OpenPermitted \/ RequestPermission \/ PermissionReturns
           \/ ReadCall \/ Clear \/ RecordError \/ Environment \/ UNCHANGED vars
  <2>1. UNCHANGED <<entry, closing, io, ports, isOpen, clean>>
    BY <1>2 DEF AndroidInit, OpenRefused, OpenPermitted, RequestPermission, PermissionReturns,
       PermissionUnchanged, ReadCall, Clear, RecordError, Environment, UserAnswers,
       BroadcastArrives, DeviceSends, DeviceUnplugged, vars
  <2>2. \/ UNCHANGED user
        \/ user \in {"idle", "permission"} /\ user' \in {"idle", "permission", "openDevice"}
    BY <1>2 DEF AndroidInit, OpenRefused, OpenPermitted, RequestPermission, PermissionReturns,
       PermissionOutcome, FailOpen, ReadCall, Clear, RecordError, Environment, UserAnswers,
       BroadcastArrives, DeviceSends, DeviceUnplugged, vars
  <2> QED
    BY <2>1, <2>2 DEF EntryWhenOpen, OpenPortsAreOwned
<1>3. ASSUME user = "openDevice", NEW p \in {"new", "leaked"}, clean' = StillClean,
             io' = Append(io, p), ports' = ports \cup {Len(io) + 1},
             UNCHANGED <<entry, closing, isOpen>>,
             p = "new" => user' = "ioStart", p = "leaked" => user' = "idle"
      PROVE  EntryWhenOpen' /\ OpenPortsAreOwned'
  <2>1. io \in Seq(IoPoints) /\ p \in IoPoints
    BY DEF TypeOK, JavaOK, IoPoints
  <2>2. /\ Len(io') = Len(io) + 1 /\ io'[Len(io) + 1] = p
        /\ \A s \in 1..Len(io) : io'[s] = io[s]
    BY <1>3, <2>1, Appended
  <2>3. clean' => clean /\ ~isOpen
    BY <1>3 DEF StillClean
  <2>4. clean' => entry = 0 /\ closing = 0
    BY <1>3, <2>3 DEF EntryWhenOpen, Control
  <2>5. EntryWhenOpen'
    BY <1>3, <2>3, <2>4 DEF EntryWhenOpen
  <2>6. ASSUME NEW s \in ports'
        PROVE  \/ io'[s] = "leaked" \/ s \in {entry', closing'}
               \/ s = Len(io') /\ user' \in {"ioStart", "put"}
               \/ s # Len(io') /\ ~clean'
    <3>1. CASE s = Len(io) + 1
      BY <1>3, <2>2, <3>1
    <3>2. CASE s \in ports
      <4>1. s \in 1..Len(io) /\ s # Len(io') /\ s # 0
        BY <1>1, <2>2, <3>2
      <4>2. CASE clean'
        BY <1>3, <2>2, <2>3, <2>4, <3>2, <4>1, <4>2 DEF OpenPortsAreOwned
      <4> QED
        BY <4>1, <4>2
    <3> QED
      BY <1>3, <2>6, <3>1, <3>2
  <2> QED
    BY <2>5, <2>6 DEF OpenPortsAreOwned
<1>4. CASE OpenDeviceFails
  <2>1. CASE UNCHANGED <<io, held, ports, clean>>
    BY <1>4, <2>1 DEF OpenDeviceFails, FailOpen, EntryWhenOpen, OpenPortsAreOwned
  <2> QED
    BY <1>3, <1>4, <2>1 DEF OpenDeviceFails, FailOpen
<1>5. CASE OpenDevice
  BY <1>3, <1>5 DEF OpenDevice
<1>6. CASE IoStart
  <2>1. io \in Seq(IoPoints) /\ "run" \in IoPoints /\ Len(io) \in 1..Len(io)
    BY <1>1, <1>6 DEF IoStart, Control, TypeOK, JavaOK, IoPoints
  <2>2. Len(io') = Len(io) /\ \A s \in 1..Len(io) : s # Len(io) => io'[s] = io[s]
    BY <1>6, <2>1, ExceptSeq DEF IoStart
  <2> QED
    BY <1>1, <1>6, <2>2 DEF IoStart, EntryWhenOpen, OpenPortsAreOwned
<1>7. CASE Put
  <2>1. clean => entry = 0 /\ closing = 0
    BY <1>7 DEF Put, EntryWhenOpen, Control
  <2>2. ASSUME NEW s \in ports
        PROVE  io[s] = "leaked" \/ s = Len(io) \/ (s # Len(io) /\ ~clean)
    BY <1>1, <2>1 DEF OpenPortsAreOwned
  <2> QED
    BY <1>7, <2>2 DEF Put, EntryWhenOpen, OpenPortsAreOwned
<1>8. CASE Register \/ SetOpen \/ CloseCall \/ Unregister \/ CloseUnattached
           \/ CloseClearBuffer
  <2>1. UNCHANGED <<entry, closing, io, ports>> /\ (clean' => clean)
    BY <1>8 DEF Register, SetOpen, CloseCall, Unregister, CloseUnattached, CloseClearBuffer
  <2>2. user \notin {"ioStart", "put"} /\ user' \notin {"ioStart", "put"}
    BY <1>8 DEF Register, SetOpen, CloseCall, Unregister, CloseUnattached, CloseClearBuffer
  <2>3. OpenPortsAreOwned'
    BY <2>1, <2>2 DEF OpenPortsAreOwned
  <2>4. EntryWhenOpen'
    BY <1>8, <2>1 DEF Register, SetOpen, CloseCall, Unregister, CloseUnattached,
       CloseClearBuffer, EntryWhenOpen, Control
  <2> QED
    BY <2>3, <2>4
<1>9. CASE Remove \/ IoStop
  BY <1>9 DEF Remove, IoStop, EntryWhenOpen, OpenPortsAreOwned, Control
<1>10. CASE PortClose
  <2>1. EntryWhenOpen'
    BY <1>10 DEF PortClose, EntryWhenOpen
  <2> QED
    BY <1>10, <2>1 DEF PortClose, OpenPortsAreOwned
<1>11. CASE \E s \in Sessions : Io(s)
  <2>1. PICK s \in Sessions : Io(s)
    BY <1>11
  <2>2. /\ Len(io') = Len(io) /\ io[s] # "leaked"
        /\ \A r \in Sessions \ {s} : io'[r] = io[r]
        /\ UNCHANGED <<user, entry, closing, ports, isOpen, clean>>
    BY <2>1, OthersRest
  <2> QED
    BY <1>1, <2>2 DEF EntryWhenOpen, OpenPortsAreOwned
<1> QED
  BY <1>2, <1>4, <1>5, <1>6, <1>7, <1>8, <1>9, <1>10, <1>11
     DEF Next, Calls, OpenSteps, CloseSteps

-----------------------------------------------------------------------------
\* The port, its owner, the permission and the errors: for every number of sessions, bytes
\* and dialogs.
THEOREM BackedInvariant == Spec => []BackedInv
<1>1. Init => BackedInv
  <2>1. ASSUME Init PROVE Control /\ OpenIsBacked /\ AnswersAreGiven /\ OpensWithPermission
    BY <2>1, EmptySeq DEF Init, Control, OpenIsBacked, AnswersAreGiven, OpensWithPermission,
       ClosePoints
  <2>2. ASSUME Init PROVE FailureExplained
    BY <2>2, EmptySeq DEF Init, FailureExplained, Sessions
  <2>3. ASSUME Init PROVE EntryWhenOpen /\ OpenPortsAreOwned
    BY <2>3 DEF Init, EntryWhenOpen, OpenPortsAreOwned
  <2> QED
    BY <2>1, <2>2, <2>3, TypeInit DEF BackedInv
<1>2. BackedInv /\ [Next]_vars => BackedInv'
  BY TypeStep, ControlStep, AnswersStep, FailureExplainedStep, OwnedStep DEF BackedInv
<1> QED
  BY <1>1, <1>2, PTL DEF Spec

\* An open port can be found by its callbacks and by write(), whatever the
\* interleaving of open(), close() and the io threads.
THEOREM OpenPortsAreBacked == Spec => []OpenIsBacked
<1>1. BackedInv => OpenIsBacked
  BY DEF BackedInv
<1> QED
  BY <1>1, BackedInvariant, PTL

\* A Java port that is open can be closed by somebody: whatever fails or runs in
\* between, only a setParameters() that throws, an open() on an open port and a
\* close() that does not reach Java leave one behind.
THEOREM PortsAreOwned == Spec => []OpenPortsAreOwned
<1>1. BackedInv => OpenPortsAreOwned
  BY DEF BackedInv
<1> QED
  BY <1>1, BackedInvariant, PTL

\* As long as no two io threads live at once, the error callback means that the
\* device is gone.
THEOREM ErrorsAreReal == Spec => []ErrorIsReal
<1>1. BackedInv => ErrorIsReal
  BY DEF BackedInv, FailureExplained, ErrorIsReal
<1> QED
  BY <1>1, BackedInvariant, PTL

\* No byte is dropped in a step that begins and ends with the port open.
THEOREM NothingDropped == Spec => NoDropWhileOpen
<1>1. BackedInv /\ [Next]_vars => [isOpen /\ isOpen' => dropped' = dropped]_vars
  <2> SUFFICES ASSUME BackedInv, Next, isOpen
               PROVE  dropped' = dropped
    BY DEF vars, historyVars
  <2> USE DEF nativeVars, javaVars, userVars, permitVars, deviceVars, historyVars
  <2>1. registered
    BY DEF BackedInv, OpenIsBacked
  <2>2. CASE OpenSteps \/ CloseSteps
    BY <2>2 DEF OpenSteps, PermissionReturns, PermissionUnchanged, OpenDeviceFails, OpenDevice,
       IoStart, Put, Register, SetOpen, CloseSteps, Unregister, CloseUnattached, Remove,
       IoStop, PortClose, CloseClearBuffer
  <2>3. CASE Calls \/ Environment
    BY <2>3 DEF Calls, AndroidInit, OpenRefused, OpenPermitted, RequestPermission, CloseCall,
       ReadCall, Clear, RecordError, Environment, UserAnswers, BroadcastArrives, DeviceSends,
       DeviceUnplugged
  <2>4. CASE \E s \in Sessions : Io(s)
    BY <2>1, <2>4 DEF Io, IoLoops, IoReads, IoFails, OnRead, HandleData, OnError,
       CallbackReturns
  <2> QED
    BY <2>2, <2>3, <2>4 DEF Next
<1> QED
  BY <1>1, BackedInvariant, PTL DEF Spec, NoDropWhileOpen

\* open() never goes on to a device that is there and whose permission the user
\* has not given, whatever the order of requests and answers
\* (CpsUsbSerial.requestPermission()).
THEOREM OpenNeedsPermission == Spec => []OpensWithPermission
<1>1. BackedInv => OpensWithPermission
  BY DEF BackedInv
<1> QED
  BY <1>1, BackedInvariant, PTL

-----------------------------------------------------------------------------
(***************************************************************************)
(* The bytes from the device to read().                                     *)
(***************************************************************************)

\* Where an io thread can be when it holds bytes, it is not about to be started;
\* every step keeps that.
LEMMA DataHeldStep ==
    ASSUME TypeOK, Control, DataHeld, [Next]_vars
    PROVE  DataHeld'
<1> USE DEF nativeVars, javaVars, userVars, permitVars, deviceVars, historyVars
<1>1. /\ Sessions = 1..Len(io) /\ Len(io) \in Nat
      /\ io \in Seq(IoPoints) /\ held \in Seq(Seq(1..MaxRx)) /\ DOMAIN held = Sessions
  BY SequenceTypes, LenProperties DEF TypeOK, JavaOK
<1>2. ASSUME UNCHANGED <<io, held>>, user' = "ioStart" => user = "ioStart"
      PROVE  DataHeld'
  BY <1>2 DEF DataHeld, Sessions
<1>3. CASE OpenDevice \/ OpenDeviceFails
  <2>1. CASE OpenDeviceFails /\ UNCHANGED <<io, held, ports, clean>>
    BY <1>2, <2>1 DEF OpenDeviceFails, FailOpen
  <2>2. ASSUME NEW p \in {"new", "leaked"}, user' = "ioStart" => p = "new",
               Len(io) < MaxSessions, io' = Append(io, p), held' = Append(held, <<>>)
        PROVE  DataHeld'
    <3>1. p \in IoPoints /\ <<>> \in Seq(1..MaxRx) /\ Len(held) = Len(io)
      BY EmptySeq, SequenceTypes DEF IoPoints
    <3>2. /\ DOMAIN io' = 1..(Len(io) + 1) /\ Len(io') = Len(io) + 1
          /\ io'[Len(io) + 1] = p /\ \A s \in 1..Len(io) : io'[s] = io[s]
      BY <1>1, <2>2, <3>1, Appended
    <3>3. held'[Len(io) + 1] = <<>> /\ \A s \in 1..Len(io) : held'[s] = held[s]
      BY <1>1, <2>2, <3>1, Appended
    <3>4. \A s \in 1..(Len(io) + 1) : s \in 1..Len(io) \/ s = Len(io) + 1
      BY <1>1
    <3> QED
      BY <1>1, <2>2, <3>2, <3>3, <3>4 DEF DataHeld, Sessions
  <2> QED
    BY <1>3, <2>1, <2>2 DEF OpenDevice, OpenDeviceFails, FailOpen
<1>4. CASE IoStart
  <2>1. Len(io) \in Sessions /\ io[Len(io)] = "new"
    BY <1>1, <1>4 DEF IoStart, Control, DataHeld, TypeOK, JavaOK
  <2>2. held[Len(io)] = <<>>
    BY <2>1 DEF DataHeld
  <2> QED
    BY <1>4, <2>2 DEF IoStart, DataHeld, Sessions
<1>5. CASE \E s \in Sessions : Io(s)
  <2>1. PICK s \in Sessions : Io(s)
    BY <1>5
  <2>2. /\ io[s] # "new" /\ UNCHANGED user /\ \E p : io' = [io EXCEPT ![s] = p]
        /\ UNCHANGED held \/ \E d : held' = [held EXCEPT ![s] = d]
        /\ held'[s] # <<>> => io'[s] \in {"data", "found"}
    <3>1. CASE IoReads(s)
      BY <1>1, <3>1 DEF IoReads, Sessions
    <3>2. CASE OnRead(s) \/ HandleData(s)
      BY <1>1, <3>2 DEF OnRead, HandleData, Sessions
    <3>3. CASE IoLoops(s) \/ IoFails(s) \/ OnError(s) \/ CallbackReturns(s)
      <4>1. UNCHANGED <<user, held>> /\ io[s] \notin {"new", "data", "found"}
            /\ \E p : io' = [io EXCEPT ![s] = p]
        BY <3>3 DEF IoLoops, IoFails, OnError, CallbackReturns, InCallback
      <4>2. held[s] = <<>>
        BY <4>1 DEF DataHeld
      <4> QED
        BY <4>1, <4>2
    <3> QED
      BY <2>1, <3>1, <3>2, <3>3 DEF Io
  <2>3. DOMAIN io' = Sessions /\ Len(io') = Len(io)
    <3>1. PICK p : io' = [io EXCEPT ![s] = p]
      BY <2>2
    <3>2. io' \in Seq(IoPoints)
      BY <2>1, IoTypes DEF TypeOK, JavaOK
    <3> QED
      BY <1>1, <3>1, <3>2, LenProperties DEF Sessions
  <2>4. \A r \in Sessions \ {s} : io'[r] = io[r] /\ held'[r] = held[r]
    BY <1>1, <2>2 DEF Sessions
  <2>5. user = "ioStart" => Len(io) \in Sessions /\ Len(io) # s
    BY <1>1, <2>2 DEF DataHeld, Control, TypeOK, JavaOK
  <2> QED
    BY <2>2, <2>3, <2>4, <2>5 DEF DataHeld, Sessions
<1>6. CASE PermissionReturns \/ Put \/ Register \/ SetOpen \/ CloseSteps
  BY <1>2, <1>6 DEF PermissionReturns, PermissionUnchanged, PermissionOutcome, FailOpen, Put,
     Register, SetOpen, CloseSteps, Unregister, CloseUnattached, Remove, IoStop, PortClose,
     CloseClearBuffer
<1>7. CASE Calls \/ Environment \/ UNCHANGED vars
  BY <1>2, <1>7 DEF Calls, AndroidInit, OpenRefused, FailOpen, OpenPermitted, RequestPermission,
     CloseCall, ReadCall, Clear, RecordError, Environment, UserAnswers, BroadcastArrives,
     DeviceSends, DeviceUnplugged, vars
<1> QED
  BY <1>3, <1>4, <1>5, <1>6, <1>7 DEF Next, OpenSteps

\* In a clean history only the newest session can hold bytes.
LEMMA OnlyNewestHolds ==
    ASSUME FailureExplained, DataHeld, clean
    PROVE  \A s \in Sessions : s # Len(io) => held[s] = <<>>
BY DEF FailureExplained, DataHeld

\* What the io threads hold is a sequence of bytes.
LEMMA StreamTypes ==
    ASSUME TypeOK
    PROVE  /\ received \in Seq(1..MaxRx) /\ readBuffer \in Seq(1..MaxRx)
           /\ Undelivered \in Seq(1..MaxRx) /\ kernelIn \in Seq(1..MaxRx)
<1>1. io # <<>> => Len(io) \in Sessions
  BY SequenceTypes, EmptySeq DEF TypeOK, JavaOK
<1>2. Undelivered \in Seq(1..MaxRx)
  BY <1>1, SequenceTypes, EmptySeq DEF Undelivered
<1> QED
  BY <1>2 DEF TypeOK, NativeOK, DeviceOK

\* A step takes d out of the stream; whatever stood before and after it stays.
TakenOut(d) ==
    \E a, c \in Seq(1..MaxRx) :
        Stream = a \o (d \o c) /\ Stream' = a \o c /\ Gone' = Gone \cup Range(d)

\* A step adds the device's next byte.
Arrives ==
    /\ Stream' = Append(Stream, rxSent + 1) /\ rxSent' = rxSent + 1 /\ Gone' = Gone

\* read() moves the front of readBuffer to the user.
LEMMA ReadMoves ==
    ASSUME TypeOK, ReadCall
    PROVE  UNCHANGED <<Stream, Gone>>
<1> USE DEF javaVars, userVars, permitVars, deviceVars
<1> DEFINE S == 1..MaxRx
<1>1. /\ received \in Seq(S) /\ readBuffer \in Seq(S) /\ Undelivered \in Seq(S)
      /\ kernelIn \in Seq(S) /\ Len(readBuffer) \in Nat
  BY StreamTypes, LenProperties
<1>2. PICK n \in Nat :
        /\ n \in 0..Len(readBuffer)
        /\ received' = received \o SubSeq(readBuffer, 1, n)
        /\ readBuffer' = SubSeq(readBuffer, n + 1, Len(readBuffer))
  <2>1. PICK max \in ReadSizes :
          LET n == IF Len(readBuffer) < max THEN Len(readBuffer) ELSE max
          IN /\ received' = received \o SubSeq(readBuffer, 1, n)
             /\ readBuffer' = SubSeq(readBuffer, n + 1, Len(readBuffer))
    BY DEF ReadCall
  <2>2. max \in Nat
    BY ReadSizesAssumption
  <2> DEFINE m == IF Len(readBuffer) < max THEN Len(readBuffer) ELSE max
  <2>3. m \in 0..Len(readBuffer) /\ m \in Nat
    BY <1>1, <2>2
  <2>4. /\ received' = received \o SubSeq(readBuffer, 1, m)
        /\ readBuffer' = SubSeq(readBuffer, m + 1, Len(readBuffer))
    BY <2>1
  <2> HIDE DEF m
  <2> QED
    BY <2>3, <2>4
<1> DEFINE a == SubSeq(readBuffer, 1, n)
           b == SubSeq(readBuffer, n + 1, Len(readBuffer))
<1>3. a \in Seq(S) /\ b \in Seq(S) /\ readBuffer = a \o b
  BY <1>1, <1>2, CutSequence, CutAndJoined
<1>4. UNCHANGED <<Undelivered, kernelIn, Gone>> /\ received' = received \o a /\ readBuffer' = b
  BY <1>2 DEF ReadCall, Undelivered, Gone
<1> HIDE DEF a, b, S
<1>5. (received \o a) \o b = received \o (a \o b)
  BY <1>1, <1>3, Regrouped, SMTT(25)
<1>6. Stream = (((received \o (a \o b)) \o Undelivered) \o kernelIn)
  BY <1>3 DEF Stream
<1>7. Stream' = ((((received \o a) \o b) \o Undelivered) \o kernelIn)
  BY <1>4 DEF Stream
<1> QED
  BY <1>4, <1>5, <1>6, <1>7

\* clear() and the end of close() take readBuffer out.
LEMMA BufferTaken ==
    ASSUME TypeOK, DropBuffer, UNCHANGED <<received, io, held, kernelIn, dropped>>
    PROVE  TakenOut(readBuffer)
<1> DEFINE S == 1..MaxRx
<1>1. /\ received \in Seq(S) /\ readBuffer \in Seq(S) /\ Undelivered \in Seq(S)
      /\ kernelIn \in Seq(S)
  BY StreamTypes
<1>2. /\ Undelivered' = Undelivered /\ readBuffer' = <<>>
      /\ Gone' = Gone \cup Range(readBuffer)
  BY DEF DropBuffer, Undelivered, Gone
<1> HIDE DEF S
<1>3. received \o <<>> = received
  BY <1>1, ConcatEmptySeq
<1>4. /\ Stream = received \o (readBuffer \o (Undelivered \o kernelIn))
      /\ Undelivered \o kernelIn \in Seq(S)
  <2> DEFINE p == received \o readBuffer
             q == Undelivered \o kernelIn
  <2>1. p \in Seq(S) /\ q \in Seq(S)
    BY <1>1, ConcatProperties
  <2>2. Stream = (p \o Undelivered) \o kernelIn
    BY DEF Stream
  <2>3. (p \o Undelivered) \o kernelIn = p \o q
    <3> HIDE DEF p
    <3> QED
      BY <1>1, <2>1, Regrouped, SMTT(25)
  <2>4. (received \o readBuffer) \o q = received \o (readBuffer \o q)
    <3> HIDE DEF p, q
    <3>1. received \in Seq(S) /\ readBuffer \in Seq(S) /\ q \in Seq(S)
      BY <1>1, <2>1
    <3> QED
      BY <3>1, Regrouped
  <2> QED
    BY <2>1, <2>2, <2>3, <2>4
<1>5. Stream' = received \o (Undelivered \o kernelIn)
  <2>1. Stream' = (received \o Undelivered) \o kernelIn
    BY <1>2, <1>3 DEF Stream
  <2>2. (received \o Undelivered) \o kernelIn = received \o (Undelivered \o kernelIn)
    BY <1>1, Regrouped, SMTT(25)
  <2> QED
    BY <2>1, <2>2
<1> QED
  BY <1>1, <1>2, <1>4, <1>5 DEF TakenOut, S

\* The unplugging takes out what the kernel has.
LEMMA KernelTaken ==
    ASSUME TypeOK, DeviceUnplugged
    PROVE  TakenOut(kernelIn)
<1> USE DEF nativeVars, javaVars, userVars
<1> DEFINE S == 1..MaxRx
           front == received \o readBuffer \o Undelivered
<1>1. /\ received \in Seq(S) /\ readBuffer \in Seq(S) /\ Undelivered \in Seq(S)
      /\ kernelIn \in Seq(S)
  BY StreamTypes
<1>2. /\ UNCHANGED <<received, readBuffer, Undelivered>> /\ kernelIn' = <<>>
      /\ Gone' = Gone \cup Range(kernelIn)
  BY DEF DeviceUnplugged, Undelivered, Gone
<1> HIDE DEF S
<1>3. front \in Seq(S)
  BY <1>1, FourParts
<1>4. Stream = front \o kernelIn /\ Stream' = front \o <<>>
  BY <1>2 DEF Stream
<1>5. kernelIn \o <<>> = kernelIn /\ <<>> \in Seq(S)
  BY <1>1, ConcatEmptySeq, EmptySeq
<1> QED
  BY <1>2, <1>3, <1>4, <1>5 DEF TakenOut, S

\* A byte the device sends is the last of the stream.
LEMMA ByteArrives ==
    ASSUME TypeOK, DeviceSends
    PROVE  Arrives
<1> USE DEF nativeVars, javaVars, userVars, permitVars, historyVars
<1> DEFINE S == 1..MaxRx
           front == received \o readBuffer \o Undelivered
           e == rxSent + 1
<1>1. /\ received \in Seq(S) /\ readBuffer \in Seq(S) /\ Undelivered \in Seq(S)
      /\ kernelIn \in Seq(S) /\ e \in S
  BY StreamTypes DEF TypeOK, DeviceOK, DeviceSends
<1>2. /\ UNCHANGED <<received, readBuffer, Undelivered, Gone>> /\ rxSent' = e
      /\ kernelIn' = Append(kernelIn, e)
  BY DEF DeviceSends, Undelivered, Gone
<1> HIDE DEF S, e
<1>3. front \in Seq(S)
  BY <1>1, FourParts
<1>4. Stream = front \o kernelIn /\ Stream' = front \o Append(kernelIn, e)
  BY <1>2 DEF Stream
<1>5. front \o Append(kernelIn, e) = Append(front \o kernelIn, e)
  <2>1. \A x \in Seq(S) : Append(x, e) = x \o <<e>> /\ <<e>> \in Seq(S)
    BY <1>1, AppendIsConcat
  <2>2. front \o kernelIn \in Seq(S)
    BY <1>1, <1>3, ConcatProperties
  <2>3. (front \o kernelIn) \o <<e>> = front \o (kernelIn \o <<e>>)
    BY <1>1, <1>3, <2>1, Regrouped, SMTT(25)
  <2> QED
    BY <1>1, <2>1, <2>2, <2>3
<1> QED
  BY <1>2, <1>4, <1>5 DEF Arrives, e

\* An io thread moves bytes on towards read(), or drops those it holds.
LEMMA IoMoves ==
    ASSUME TypeOK, FailureExplained, DataHeld, clean, NEW s \in Sessions, Io(s)
    PROVE  UNCHANGED <<Stream, Gone>> \/ TakenOut(Undelivered)
<1> USE DEF nativeVars, javaVars, userVars, permitVars, deviceVars, historyVars
<1> DEFINE S == 1..MaxRx
           p == received \o readBuffer
<1>1. /\ received \in Seq(S) /\ readBuffer \in Seq(S) /\ Undelivered \in Seq(S)
      /\ kernelIn \in Seq(S) /\ p \in Seq(S) /\ Len(kernelIn) \in Nat
  BY StreamTypes, ConcatProperties, LenProperties
<1>2. s = Len(io) /\ DOMAIN held = Sessions
  <2>1. io[s] \notin {"done", "leaked"}
    BY DEF Io, IoLoops, IoReads, IoFails, OnRead, HandleData, OnError, CallbackReturns, InCallback
  <2> QED
    BY <2>1, SequenceTypes, LenProperties DEF FailureExplained, TypeOK, JavaOK
<1>3. /\ Len(io') = Len(io) /\ io # <<>> /\ io' # <<>>
  <2>1. \E q : io' = [io EXCEPT ![s] = q]
    BY DEF Io, IoLoops, IoReads, IoFails, OnRead, HandleData, OnError, CallbackReturns
  <2>2. io \in Seq(IoPoints) /\ io' \in Seq(IoPoints) /\ DOMAIN io' = DOMAIN io
    BY <2>1, IoTypes DEF TypeOK, JavaOK
  <2>3. Len(io') = Len(io) /\ s \in 1..Len(io) /\ s \in 1..Len(io')
    BY <2>2, LenProperties DEF Sessions
  <2> QED
    BY <2>2, <2>3, EmptySeq
<1>4. Undelivered = held[s] /\ Undelivered' = held'[s]
  BY <1>2, <1>3 DEF Undelivered
<1>5. /\ UNCHANGED <<received, lost>>
      /\ Stream = (p \o Undelivered) \o kernelIn
      /\ Stream' = (received \o readBuffer') \o Undelivered' \o kernelIn'
  BY DEF Stream, Io, IoLoops, IoReads, IoFails, OnRead, HandleData, OnError, CallbackReturns
<1>6. /\ \A x \in Seq(S) : x \o <<>> = x
      /\ <<>> \in Seq(S)
  BY ConcatEmptySeq, EmptySeq
<1>7. CASE IoReads(s)
  <2>1. PICK n \in 1..Len(kernelIn) :
          /\ held' = [held EXCEPT ![s] = SubSeq(kernelIn, 1, n)]
          /\ kernelIn' = SubSeq(kernelIn, n + 1, Len(kernelIn))
    BY <1>7 DEF IoReads
  <2> DEFINE a == SubSeq(kernelIn, 1, n)
  <2>2. n \in 0..Len(kernelIn)
    BY <1>1, <2>1
  <2>3. a \in Seq(S) /\ kernelIn' \in Seq(S) /\ kernelIn = a \o kernelIn'
    BY <1>1, <2>1, <2>2, CutSequence, CutAndJoined
  <2>4. Undelivered = <<>> /\ Undelivered' = a /\ UNCHANGED <<readBuffer, Gone>>
    BY <1>2, <1>4, <1>7, <2>1 DEF IoReads, DataHeld, Gone
  <2> HIDE DEF a, p, S
  <2>5. (p \o a) \o kernelIn' = p \o (a \o kernelIn')
    <3>1. p \in Seq(S) /\ a \in Seq(S) /\ kernelIn' \in Seq(S)
      BY <1>1, <2>3
    <3> QED
      BY <3>1, Regrouped
  <2>6. Stream = p \o (a \o kernelIn')
    BY <1>1, <1>5, <1>6, <2>3, <2>4
  <2>7. Stream' = (p \o a) \o kernelIn'
    BY <1>5, <2>4 DEF p
  <2> QED
    BY <2>4, <2>5, <2>6, <2>7
<1>8. CASE HandleData(s)
  <2>1. /\ Undelivered' = <<>> /\ readBuffer' = readBuffer \o Undelivered
        /\ UNCHANGED <<kernelIn, Gone>>
    BY <1>2, <1>4, <1>8 DEF HandleData, Gone
  <2>2. p \o Undelivered = received \o (readBuffer \o Undelivered)
        /\ p \o Undelivered \in Seq(S)
    <3> HIDE DEF S
    <3>1. received \in Seq(S) /\ readBuffer \in Seq(S) /\ Undelivered \in Seq(S)
      BY <1>1
    <3> QED
      BY <1>1, <3>1, Regrouped, ConcatProperties, SMTT(25)
  <2> HIDE DEF p, S
  <2>3. Stream' = (received \o (readBuffer \o Undelivered)) \o <<>> \o kernelIn
    BY <1>5, <2>1
  <2>4. Stream' = (p \o Undelivered) \o kernelIn
    BY <1>6, <2>2, <2>3
  <2> QED
    BY <1>5, <2>1, <2>4
<1>9. CASE OnRead(s) /\ ~registered
  <2>1. /\ Undelivered' = <<>> /\ UNCHANGED <<readBuffer, kernelIn>>
        /\ Gone' = Gone \cup Range(Undelivered)
    BY <1>2, <1>4, <1>9 DEF OnRead, Gone
  <2> HIDE DEF p, S
  <2>2. Stream = p \o (Undelivered \o kernelIn)
    <3>1. p \in Seq(S) /\ Undelivered \in Seq(S) /\ kernelIn \in Seq(S)
      BY <1>1
    <3>2. (p \o Undelivered) \o kernelIn = p \o (Undelivered \o kernelIn)
      BY <3>1, Regrouped
    <3> QED
      BY <1>5, <3>2
  <2>3. Stream' = p \o kernelIn
    <3>1. Stream' = (p \o <<>>) \o kernelIn
      BY <1>5, <2>1 DEF p
    <3> QED
      BY <1>1, <1>6, <3>1
  <2> QED
    BY <1>1, <2>1, <2>2, <2>3 DEF TakenOut, S
<1>10. CASE IoLoops(s) \/ IoFails(s) \/ (OnRead(s) /\ registered) \/ OnError(s) \/ CallbackReturns(s)
  <2>1. UNCHANGED <<readBuffer, kernelIn, held, Gone>>
    BY <1>10 DEF IoLoops, IoFails, OnRead, OnError, CallbackReturns, Gone
  <2> QED
    BY <1>4, <1>5, <2>1
<1> QED
  BY <1>7, <1>8, <1>9, <1>10 DEF Io

\* A new session begins when no thread holds a byte, and holds none.
LEMMA NewSessionMoves ==
    ASSUME TypeOK, DataHeld, StillClean, NEW q \in IoPoints,
           io' = Append(io, q), held' = Append(held, <<>>),
           UNCHANGED <<received, readBuffer, kernelIn, dropped, lost>>
    PROVE  UNCHANGED <<Stream, Gone>>
<1>1. /\ io \in Seq(IoPoints) /\ held \in Seq(Seq(1..MaxRx)) /\ Len(held) = Len(io)
      /\ <<>> \in Seq(1..MaxRx) /\ Len(io) \in Nat /\ Sessions = 1..Len(io)
  BY SequenceTypes, EmptySeq DEF TypeOK, JavaOK
<1>2. Len(io') = Len(io) + 1 /\ held'[Len(io) + 1] = <<>> /\ io' # <<>>
  <2>1. Len(io') = Len(io) + 1 /\ io' \in Seq(IoPoints)
    BY <1>1, Appended
  <2>2. held'[Len(io) + 1] = <<>>
    BY <1>1, Appended
  <2>3. io' # <<>>
    <3>1. Len(<<>>) = 0
      BY EmptySeq
    <3>2. Len(io') # 0
      BY <1>1, <2>1
    <3> QED
      BY <3>1, <3>2
  <2> QED
    BY <2>1, <2>2, <2>3
<1>3. Undelivered' = <<>>
  BY <1>2 DEF Undelivered
<1>4. Undelivered = <<>>
  <2>1. io # <<>> => Len(io) \in Sessions
    BY <1>1, EmptySeq
  <2> QED
    BY <2>1 DEF Undelivered, StillClean, DataHeld
<1> QED
  BY <1>3, <1>4 DEF Stream, Gone

\* All steps together.
LEMMA StreamStep ==
    ASSUME TypeOK, Control, FailureExplained, DataHeld, clean, clean', [Next]_vars
    PROVE  \/ UNCHANGED <<Stream, Gone, rxSent>>
           \/ UNCHANGED rxSent /\ \E d \in Seq(1..MaxRx) : TakenOut(d)
           \/ Arrives
<1> USE DEF nativeVars, javaVars, userVars, permitVars, deviceVars, historyVars
<1>1. ASSUME UNCHANGED <<received, readBuffer, io, held, kernelIn, dropped, lost>>
      PROVE  UNCHANGED <<Stream, Gone>>
  BY <1>1 DEF Stream, Undelivered, Gone
<1>2. CASE PermissionReturns \/ Put \/ Register \/ SetOpen \/ Unregister \/ Remove \/ IoStop
           \/ PortClose
  BY <1>1, <1>2 DEF PermissionReturns, PermissionUnchanged, Put, Register, SetOpen, Unregister,
     Remove, IoStop, PortClose
<1>3. CASE AndroidInit \/ OpenRefused \/ OpenPermitted \/ RequestPermission \/ CloseCall
           \/ RecordError \/ UserAnswers \/ BroadcastArrives \/ UNCHANGED vars
  BY <1>1, <1>3 DEF AndroidInit, OpenRefused, OpenPermitted, RequestPermission, CloseCall,
     RecordError, UserAnswers, BroadcastArrives, vars
<1>4. CASE OpenDevice \/ OpenDeviceFails
  <2>1. CASE UNCHANGED <<io, held, ports, clean>>
    <3>1. UNCHANGED <<received, readBuffer, kernelIn, dropped, lost, rxSent>>
      BY <1>4 DEF OpenDevice, OpenDeviceFails
    <3> QED
      BY <1>1, <2>1, <3>1
  <2>2. CASE ~UNCHANGED <<io, held, ports, clean>>
    <3>1. /\ StillClean /\ held' = Append(held, <<>>)
          /\ \E q \in IoPoints : io' = Append(io, q)
          /\ UNCHANGED <<received, readBuffer, kernelIn, dropped, lost, rxSent>>
      BY <1>4, <2>2 DEF OpenDevice, OpenDeviceFails, IoPoints
    <3> QED
      BY <3>1, NewSessionMoves
  <2> QED
    BY <2>1, <2>2
<1>5. CASE IoStart
  <2>1. /\ UNCHANGED <<received, readBuffer, held, kernelIn, dropped, lost, rxSent>>
        /\ Len(io) \in Sessions
    BY <1>5, SequenceTypes DEF IoStart, Control, TypeOK, JavaOK
  <2>2. Len(io') = Len(io) /\ io # <<>> /\ io' # <<>>
    <3>1. io \in Seq(IoPoints) /\ "run" \in IoPoints /\ Len(io) \in 1..Len(io)
      BY <2>1, SequenceTypes DEF IoPoints, TypeOK, JavaOK
    <3>2. io' \in Seq(IoPoints) /\ Len(io') = Len(io)
      BY <1>5, <3>1, ExceptSeq DEF IoStart
    <3> QED
      BY <3>1, <3>2, EmptySeq
  <2> QED
    BY <2>1, <2>2 DEF Stream, Undelivered, Gone
<1>6. CASE CloseClearBuffer \/ Clear
  <2>1. DropBuffer /\ UNCHANGED <<received, io, held, kernelIn, dropped, rxSent>>
    BY <1>6 DEF CloseClearBuffer, Clear
  <2> QED
    BY <2>1, BufferTaken, StreamTypes
<1>7. CASE ReadCall
  <2>1. UNCHANGED rxSent
    BY <1>7 DEF ReadCall
  <2> QED
    BY <1>7, <2>1, ReadMoves
<1>8. ASSUME NEW s \in Sessions, Io(s)
      PROVE  UNCHANGED <<Stream, Gone, rxSent>>
             \/ (UNCHANGED rxSent /\ \E d \in Seq(1..MaxRx) : TakenOut(d))
  <2>1. UNCHANGED rxSent
    BY <1>8 DEF Io, IoLoops, IoReads, IoFails, OnRead, HandleData, OnError, CallbackReturns
  <2>2. UNCHANGED <<Stream, Gone>> \/ TakenOut(Undelivered)
    BY <1>8, IoMoves
  <2>3. Undelivered \in Seq(1..MaxRx)
    BY StreamTypes
  <2>4. CASE UNCHANGED <<Stream, Gone>>
    <3>1. Stream' = Stream /\ Gone' = Gone
      BY <2>4
    <3> HIDE DEF Stream, Gone
    <3> QED
      BY <2>1, <3>1
  <2>5. CASE TakenOut(Undelivered)
    <3> HIDE DEF TakenOut
    <3> QED
      BY <2>1, <2>3, <2>5
  <2> QED
    BY <2>2, <2>4, <2>5
<1>9. CASE DeviceUnplugged
  <2>1. UNCHANGED rxSent
    BY <1>9 DEF DeviceUnplugged
  <2> QED
    BY <1>9, <2>1, KernelTaken, StreamTypes
<1>10. CASE DeviceSends
  BY <1>10, ByteArrives
<1>11. ~CloseUnattached
  BY DEF CloseUnattached
<1> QED
  BY <1>2, <1>3, <1>4, <1>5, <1>6, <1>7, <1>8, <1>9, <1>10, <1>11
     DEF Next, OpenSteps, CloseSteps, Calls, Environment

\* The two sides of a step out of a clean history: it was clean before.
LEMMA CleanBefore ==
    ASSUME [Next]_vars, clean'
    PROVE  clean
<1> USE DEF nativeVars, javaVars, userVars, permitVars, deviceVars, historyVars
<1>1. CASE OpenSteps \/ CloseSteps
  BY <1>1 DEF OpenSteps, PermissionReturns, PermissionUnchanged, OpenDeviceFails, OpenDevice,
     StillClean, IoStart, Put, Register, SetOpen, CloseSteps, Unregister, CloseUnattached,
     Remove, IoStop, PortClose, CloseClearBuffer
<1>2. CASE Calls \/ Environment \/ UNCHANGED vars
  BY <1>2 DEF Calls, AndroidInit, OpenRefused, OpenPermitted, RequestPermission, CloseCall,
     ReadCall, Clear, RecordError, Environment, UserAnswers, BroadcastArrives, DeviceSends,
     DeviceUnplugged, vars
<1>3. CASE \E s \in Sessions : Io(s)
  BY <1>3 DEF Io, IoLoops, IoReads, IoFails, OnRead, HandleData, OnError, CallbackReturns
<1> QED
  BY <1>1, <1>2, <1>3 DEF Next

\* The stream keeps its order, and its bytes are those sent and not gone.
Ordered == Increasing(Stream) /\ Range(Stream) = (1..rxSent) \ Gone

\* Taking bytes out and adding the next one both keep that.
LEMMA OrderedStep ==
    ASSUME TypeOK, Ordered, Gone \subseteq 1..rxSent,
           \/ UNCHANGED <<Stream, Gone, rxSent>>
           \/ UNCHANGED rxSent /\ \E d \in Seq(1..MaxRx) : TakenOut(d)
           \/ Arrives /\ rxSent' \in 1..MaxRx
    PROVE  Ordered' /\ Gone' \subseteq 1..rxSent'
<1> DEFINE S == 1..MaxRx
<1>1. S \subseteq Int /\ rxSent \in 0..MaxRx /\ Stream \in Seq(S)
  BY StreamTypes, FourParts, ConcatProperties DEF TypeOK, DeviceOK, Stream
<1> HIDE DEF Stream, Gone
<1>2. CASE UNCHANGED <<Stream, Gone, rxSent>>
  <2>1. Stream' = Stream /\ Gone' = Gone /\ rxSent' = rxSent
    BY <1>2
  <2> QED
    BY <2>1 DEF Ordered, Increasing
<1>3. CASE UNCHANGED rxSent /\ \E d \in Seq(S) : TakenOut(d)
  <2>1. PICK d \in Seq(S), a \in Seq(S), c \in Seq(S) :
          Stream = a \o (d \o c) /\ Stream' = a \o c /\ Gone' = Gone \cup Range(d)
    BY <1>3 DEF TakenOut
  <2>2. Increasing(a \o (d \o c))
    BY <2>1 DEF Ordered
  <2> HIDE DEF S
  <2>3. /\ Increasing(a \o c)
        /\ Range(a \o c) = Range(a \o (d \o c)) \ Range(d)
    <3>1. \A x, y, z \in Seq(S) : Increasing(x \o (y \o z)) =>
              /\ Increasing(x \o z)
              /\ Range(x \o z) = Range(x \o (y \o z)) \ Range(y)
      BY <1>1, PartTakenOut
    <3> QED
      BY <2>1, <2>2, <3>1
  <2>4. Range(d) \subseteq Range(a \o (d \o c))
    <3>1. d \o c \in Seq(S)
      BY <2>1, ConcatProperties
    <3>2. \A s, t \in Seq(S) : Range(s \o t) = Range(s) \cup Range(t)
      BY RangeConcatenation
    <3>3. /\ Range(a \o (d \o c)) = Range(a) \cup Range(d \o c)
          /\ Range(d \o c) = Range(d) \cup Range(c)
      BY <2>1, <3>1, <3>2, Zenon
    <3> QED
      BY <3>3
  <2>5. Increasing(Stream')
    BY <2>1, <2>3
  <2>6. Range(Stream') = Range(Stream) \ Range(d) /\ Range(d) \subseteq Range(Stream)
    BY <2>1, <2>3, <2>4
  <2>7. Range(Stream) = (1..rxSent) \ Gone
    BY DEF Ordered
  <2> QED
    BY <1>3, <2>1, <2>5, <2>6, <2>7 DEF Ordered, Increasing
<1>4. CASE Arrives /\ rxSent' \in S
  <2> DEFINE e == rxSent + 1
  <2>1. Stream' = Append(Stream, e) /\ rxSent' = e /\ Gone' = Gone /\ e \in S
    BY <1>4 DEF Arrives
  <2>2. \A x \in Range(Stream) : x < e
    BY <1>1 DEF Ordered
  <2>3. Increasing(Stream)
    BY DEF Ordered
  <2> HIDE DEF e, S
  <2>4. Increasing(Append(Stream, e)) /\ Range(Append(Stream, e)) = Range(Stream) \cup {e}
    BY <1>1, <2>1, <2>2, <2>3, IncreasingAppend, ZenonT(25)
  <2>5. Increasing(Stream') /\ Range(Stream') = Range(Stream) \cup {e}
    BY <2>1, <2>4
  <2>6. (1..e) \ Gone = ((1..rxSent) \ Gone) \cup {e} /\ Gone \subseteq 1..e
    BY <1>1 DEF e
  <2> QED
    BY <2>1, <2>5, <2>6 DEF Ordered, Increasing
<1> QED
  BY <1>2, <1>3, <1>4

\* All steps together keep the order, from a clean history into a clean one.
LEMMA StreamInvStep == BackedInv /\ BackedInv' /\ StreamInv /\ [Next]_vars => StreamInv'
<1> SUFFICES ASSUME BackedInv, BackedInv', StreamInv, [Next]_vars
             PROVE  StreamInv'
  OBVIOUS
<1>1. /\ TypeOK /\ Control /\ FailureExplained /\ DataHeld
      /\ TypeOK' /\ FailureExplained'
  BY DEF BackedInv, StreamInv
<1>2. DataHeld'
  BY <1>1, DataHeldStep
<1>3. ASSUME clean'
      PROVE  /\ \A s \in Sessions' : s # Len(io') => held'[s] = <<>>
             /\ Ordered' /\ Gone' \subseteq 1..rxSent'
  <2>1. clean
    BY <1>3, CleanBefore
  <2>2. \A s \in Sessions' : s # Len(io') => held'[s] = <<>>
    BY <1>1, <1>2, <1>3 DEF FailureExplained, DataHeld
  <2>3. Ordered /\ Gone \subseteq 1..rxSent
    BY <2>1 DEF StreamInv, StreamIntegrity, SentBeforeGone, Ordered, Increasing
  <2>4. \/ UNCHANGED <<Stream, Gone, rxSent>>
        \/ UNCHANGED rxSent /\ \E d \in Seq(1..MaxRx) : TakenOut(d)
        \/ Arrives
    BY <1>1, <1>3, <2>1, StreamStep
  <2>5. Arrives => rxSent' \in 1..MaxRx
    BY <1>1 DEF Arrives, TypeOK, DeviceOK
  <2> HIDE DEF Ordered, Arrives, TakenOut, Stream, Gone
  <2>6. Ordered' /\ Gone' \subseteq 1..rxSent'
    BY <1>1, <2>3, <2>4, <2>5, OrderedStep
  <2> QED
    BY <2>2, <2>6
<1>4. StreamIntegrity' /\ SentBeforeGone'
  BY <1>3 DEF StreamIntegrity, SentBeforeGone, Ordered, Increasing
<1> QED
  BY <1>2, <1>4 DEF StreamInv

\* Everything that AndroidBackend keeps between its steps.
THEOREM AndroidInvariant == Spec => []AndroidInv
<1>1. Init => StreamInv
  <2> SUFFICES ASSUME Init PROVE StreamInv
    OBVIOUS
  <2>1. /\ io = <<>> /\ held = <<>> /\ received = <<>> /\ readBuffer = <<>> /\ kernelIn = <<>>
        /\ rxSent = 0 /\ dropped = {} /\ lost = {} /\ user = "idle"
    BY DEF Init
  <2>2. Sessions = {}
    BY <2>1, EmptySeq DEF Sessions
  <2>3. <<>> \in Seq(Nat) /\ \A x \in Seq(Nat) : x \o <<>> = x
    BY EmptySeq, ConcatEmptySeq
  <2>4. Stream = <<>>
    BY <2>1, <2>3 DEF Stream, Undelivered
  <2>5. DOMAIN <<>> = {} /\ Range(<<>>) = {}
    BY DEF Range
  <2> QED
    BY <2>1, <2>2, <2>4, <2>5
       DEF StreamInv, StreamIntegrity, DataHeld, SentBeforeGone, Gone
<1>2. BackedInv /\ BackedInv' /\ StreamInv /\ [Next]_vars => StreamInv'
  BY StreamInvStep
<1>3. BackedInv /\ StreamInv => AndroidInv
  BY DEF AndroidInv
<1> QED
  BY <1>1, <1>2, <1>3, BackedInvariant, PTL DEF Spec

\* As long as no two io threads of the object live at once, what read() returns,
\* readBuffer and the io thread hold and the kernel has is what the device sent, in its
\* order, but for what was dropped or lost (handleData(), read(), clear(), close()).
THEOREM BytesArriveInOrder == Spec => []StreamIntegrity
<1>1. AndroidInv => StreamIntegrity
  BY DEF AndroidInv, StreamInv
<1> QED
  BY <1>1, AndroidInvariant, PTL
=============================================================================
