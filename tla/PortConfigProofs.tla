-------------------------- MODULE PortConfigProofs --------------------------
(* The line of an open port has the configuration that was asked for.        *)
EXTENDS PortConfig, TLAPS

\* A set_option returns a termios.
LEMMA OptionTypes ==
    ASSUME NEW t \in Termios, NEW c \in Configs
    PROVE  /\ BaudOption(t, c.baud) \in Termios /\ BitsOption(t, c.bits) \in Termios
           /\ ParityOption(t, c.parity) \in Termios /\ StopOption(t, c.stop) \in Termios
           /\ FlowOption(t, c.flow) \in Termios /\ MakeRaw(t) \in Termios
<1>. c.bits \in DataBits
  BY DEF Configs
<1>1. BaudOption(t, c.baud) \in Termios
  BY DEF BaudOption, Termios
<1>2. BitsOption(t, c.bits) \in Termios
  BY DEF BitsOption, Termios
<1>3. ParityOption(t, c.parity) \in Termios
  BY DEF ParityOption, Termios
<1>4. StopOption(t, c.stop) \in Termios
  BY DEF StopOption, Termios
<1>5. FlowOption(t, c.flow) \in Termios
  BY DEF FlowOption, Termios
<1>6. MakeRaw(t) \in Termios
  BY DEF MakeRaw, Termios, DataBits
<1>. QED BY <1>1, <1>2, <1>3, <1>4, <1>5, <1>6

\* What applyConfig() makes of any settings of the line.
LEMMA Applied ==
    ASSUME NEW t \in Termios, NEW c \in Configs
    PROVE  LET u == ApplyConfig(t, c)
           IN /\ u \in Termios
              /\ c.baud \in SupportedRates => u.speed = c.baud
              /\ u.csize = c.bits
              /\ c.stop # "OneAndHalfStop" => u.cstopb = (c.stop = "TwoStop")
              /\ u.crtscts = (c.flow = "HardwareControl")
              /\ u.ixon = (c.flow = "SoftwareControl")
              /\ u.cmspar = t.cmspar
              /\ c.parity \notin Sticky =>
                     /\ u.parenb = (c.parity # "NoParity")
                     /\ u.parodd = (c.parity = "OddParity")
              /\ c.parity \in Sticky =>
                     u.parenb = t.parenb /\ u.parodd = t.parodd
<1> DEFINE framed == BitsOption(BaudOption(t, c.baud), c.bits)
           parity == IF c.parity \in Sticky THEN framed
                     ELSE ParityOption(framed, c.parity)
           stop   == StopOption(parity, c.stop)
<1>1. /\ framed \in Termios /\ framed.cmspar = t.cmspar /\ framed.csize = c.bits
      /\ c.baud \in SupportedRates => framed.speed = c.baud
      /\ framed.parenb = t.parenb /\ framed.parodd = t.parodd
  BY DEF BaudOption, BitsOption, Termios, Configs, DataBits
<1>2. /\ parity \in Termios /\ parity.cmspar = t.cmspar /\ parity.csize = c.bits
      /\ c.baud \in SupportedRates => parity.speed = c.baud
      /\ c.parity \notin Sticky =>
             /\ parity.parenb = (c.parity # "NoParity")
             /\ parity.parodd = (c.parity = "OddParity")
      /\ c.parity \in Sticky =>
             parity.parenb = t.parenb /\ parity.parodd = t.parodd
  BY <1>1 DEF ParityOption, Termios
<1>3. /\ stop \in Termios /\ stop.cmspar = t.cmspar /\ stop.csize = c.bits
      /\ stop.speed = parity.speed /\ stop.parenb = parity.parenb
      /\ stop.parodd = parity.parodd
      /\ c.stop # "OneAndHalfStop" => stop.cstopb = (c.stop = "TwoStop")
  <2> HIDE DEF parity
  <2>. QED BY <1>2 DEF StopOption, Termios
<1>4. ApplyConfig(t, c) = FlowOption(stop, c.flow)
  BY DEF ApplyConfig
<1>. HIDE DEF stop, parity
<1>. QED BY <1>2, <1>3, <1>4, ZenonT(25) DEF FlowOption, Termios

\* What applyNativeTimeouts() makes of them.
LEMMA NativelyApplied ==
    ASSUME NEW t \in Termios, NEW c \in Configs
    PROVE  LET u == ApplyNative(t, c)
           IN /\ u \in Termios
              /\ u.speed = t.speed /\ u.csize = t.csize /\ u.cstopb = t.cstopb
              /\ u.crtscts = t.crtscts /\ u.ixon = FALSE
              /\ c.parity \in Sticky =>
                     /\ u.parenb = TRUE /\ u.cmspar = TRUE
                     /\ u.parodd = (c.parity = "MarkParity")
              /\ c.parity \notin Sticky =>
                     u.parenb = t.parenb /\ u.cmspar = t.cmspar /\ u.parodd = t.parodd
BY DEF ApplyNative, Termios

\* How parity p shows in settings u made of t: even and odd leave CMSPAR alone.
ParitySet(u, t, p) ==
    IF p \in Sticky THEN u.parenb = TRUE /\ u.cmspar = TRUE /\ u.parodd = (p = "MarkParity")
    ELSE u.parenb = (p # "NoParity") /\ u.cmspar = t.cmspar /\ u.parodd = (p = "OddParity")

\* Both, in the order open() and setParity() call them: the settings of the line
\* are those of the configuration, software flow control excepted.
LEMMA Configured ==
    ASSUME NEW t \in Termios, NEW c \in Configs
    PROVE  LET u == ApplyNative(ApplyConfig(t, c), c)
           IN u \in Termios /\ LineHas(u, c) /\ ParitySet(u, t, c.parity)
<1> DEFINE v == ApplyConfig(t, c)
           u == ApplyNative(v, c)
<1>1. v \in Termios
  BY Applied
<1>2. /\ c.baud \in SupportedRates => v.speed = c.baud
      /\ v.csize = c.bits
      /\ c.stop # "OneAndHalfStop" => v.cstopb = (c.stop = "TwoStop")
      /\ v.crtscts = (c.flow = "HardwareControl")
      /\ v.cmspar = t.cmspar
      /\ c.parity \notin Sticky =>
             v.parenb = (c.parity # "NoParity") /\ v.parodd = (c.parity = "OddParity")
  BY Applied
<1>. HIDE DEF v
<1>3. u \in Termios
  BY <1>1, NativelyApplied
<1>4. ParitySet(u, t, c.parity)
  BY <1>1, <1>2, NativelyApplied DEF ParitySet
<1>5. /\ u.speed = v.speed /\ u.csize = v.csize /\ u.cstopb = v.cstopb
      /\ u.crtscts = v.crtscts /\ u.ixon = FALSE
  BY <1>1, NativelyApplied
<1>6. c.flow \in AllFlowControls
  BY DEF Configs
<1>. HIDE DEF u
<1>7. LineHas(u, c)
  <2>1. c.flow # "SoftwareControl" => FlowOf(u) = c.flow
    BY <1>2, <1>5, <1>6 DEF FlowOf, AllFlowControls
  <2>. QED BY <1>2, <1>5, <2>1 DEF LineHas
<1>. QED BY <1>3, <1>4, <1>7 DEF u, v

\* The new configuration a setter stores.
LEMMA ConfigTypes ==
    ASSUME NEW c \in Configs, NEW d \in Configs
    PROVE  /\ [c EXCEPT !.baud = d.baud] \in Configs /\ [c EXCEPT !.bits = d.bits] \in Configs
           /\ [c EXCEPT !.parity = d.parity] \in Configs
           /\ [c EXCEPT !.stop = d.stop] \in Configs /\ [c EXCEPT !.flow = d.flow] \in Configs
BY DEF Configs

\* pushConfig() gives a termios, and CMSPAR appears in it only through space or
\* mark parity.
LEMMA Pushed ==
    ASSUME tty \in Termios, facade \in Configs, stored \in Configs
    PROVE  /\ PushConfig \in Termios
           /\ facade.parity \notin Sticky => PushConfig.cmspar = tty.cmspar
<1> DEFINE c0 == [facade EXCEPT !.stop = stored.stop]
           c1 == [facade EXCEPT !.stop = stored.stop, !.flow = stored.flow]
           c2 == [c1 EXCEPT !.stop = facade.stop]
           t1 == BitsOption(BaudOption(tty, facade.baud), facade.bits)
           t2 == ApplyNative(ApplyConfig(t1, c1), c1)
           t3 == ApplyConfig(t2, c2)
<1>1. c1 \in Configs /\ c1.parity = facade.parity
  <2>1. c0 \in Configs /\ c0.parity = facade.parity
    BY DEF Configs
  <2>2. c1 = [c0 EXCEPT !.flow = stored.flow]
    BY DEF Configs
  <2>. HIDE DEF c0, c1
  <2>. QED BY <2>1, <2>2 DEF Configs
<1>. HIDE DEF c1
<1>2. c2 \in Configs
  BY <1>1 DEF Configs
<1>3. t1 \in Termios /\ t1.cmspar = tty.cmspar
  BY DEF BaudOption, BitsOption, Termios, Configs
<1>. HIDE DEF c2, t1
<1>4. /\ t2 \in Termios
      /\ facade.parity \notin Sticky => t2.cmspar = tty.cmspar
  BY <1>1, <1>3, Configured DEF ParitySet
<1>. HIDE DEF t2
<1>5. t3 \in Termios /\ t3.cmspar = t2.cmspar
  BY <1>2, <1>4, Applied
<1>6. PushConfig = ApplyConfig(t3, facade)
  BY DEF PushConfig, c1, c2, t1, t2
<1>. HIDE DEF t3
<1>. QED BY <1>4, <1>5, <1>6, Applied

\* Settings in which a parity was set show it, if CMSPAR was off or does not matter.
LEMMA ParityShows ==
    ASSUME NEW u \in Termios, NEW t \in Termios, NEW p \in AllParities,
           ParitySet(u, t, p), p \in {"EvenParity", "OddParity"} => ~t.cmspar
    PROVE  ParityOf(u) = p
<1>1. CASE p \in Sticky
  BY <1>1 DEF ParitySet, ParityOf, Sticky
<1>2. CASE p = "NoParity"
  BY <1>2 DEF ParitySet, ParityOf, Sticky
<1>3. CASE p \in {"EvenParity", "OddParity"}
  BY <1>3 DEF ParitySet, ParityOf, Sticky, Termios
<1>. QED BY <1>1, <1>2, <1>3 DEF AllParities, Sticky

\* applyConfig() alone gives the line all of the configuration but the parities
\* it leaves alone.
LEMMA AppliedLine ==
    ASSUME NEW t \in Termios, NEW c \in Configs
    PROVE  LineHas(ApplyConfig(t, c), c)
<1> DEFINE u == ApplyConfig(t, c)
<1>1. /\ c.baud \in SupportedRates => u.speed = c.baud
      /\ u.csize = c.bits
      /\ c.stop # "OneAndHalfStop" => u.cstopb = (c.stop = "TwoStop")
      /\ u.crtscts = (c.flow = "HardwareControl")
      /\ u.ixon = (c.flow = "SoftwareControl")
  BY Applied
<1>2. c.flow \in AllFlowControls
  BY DEF Configs
<1>. HIDE DEF u
<1>3. c.flow # "SoftwareControl" => FlowOf(u) = c.flow
  BY <1>1, <1>2 DEF FlowOf, AllFlowControls
<1>. QED BY <1>1, <1>3 DEF u, LineHas

-----------------------------------------------------------------------------

\* The initial state.
LEMMA ConfigInit == Init => ConfigInv
<1> SUFFICES ASSUME Init PROVE ConfigInv
  OBVIOUS
<1>1. DefaultConfig \in Configs
  BY DEF DefaultConfig, Configs, DataBits, AllParities, AllStopBits, AllFlowControls
<1>2. NewTermios \in Termios
  BY RatesAssumption DEF NewTermios, Termios, DataBits
<1>3. TypeOK
  BY <1>1, <1>2 DEF Init, TypeOK, Functions, Errors
<1>4. StickOrigin
  BY DEF Init, StickOrigin, DefaultConfig, NewTermios, Sticky
<1>. QED BY <1>3, <1>4 DEF Init, ConfigInv, OneConfiguration, LineAsConfigured,
                           ParityAsConfigured, OpenTellsOutcome, Live

\* Of a step that stores one configuration in both places, it is enough to look
\* at a live line.
LEMMA ConfigStep ==
    ASSUME ConfigInv, TypeOK', facade' = stored', OpenTellsOutcome',
           ~stick' => ~tty'.cmspar /\ facade'.parity \notin Sticky,
           Live' => LineHas(tty', facade'),
           Live' /\ (facade'.parity \in {"EvenParity", "OddParity"} => ~stick')
               => ParityOf(tty') = facade'.parity
    PROVE  ConfigInv'
BY DEF ConfigInv, OneConfiguration, StickOrigin, LineAsConfigured, ParityAsConfigured

\* The C function's outcome has its type.
LEMMA ReturnTypes ==
    ASSUME NEW fn \in Functions, NEW ok \in BOOLEAN, NEW code \in Errors, Returns(fn, ok, code)
    PROVE  call' \in [fn : Functions, ok : BOOLEAN, code : Errors] /\ call'.fn = fn
BY DEF Returns, Errors

\* setBaudRate() changes the speed only, and that only to a rate asio accepts.
LEMMA BaudStep ==
    ASSUME ConfigInv, NEW rate \in BaudRates, SetBaudRate(rate)
    PROVE  ConfigInv'
<1>. facade \in Configs /\ stored = facade /\ tty \in Termios /\ error \in Errors
  BY DEF ConfigInv, TypeOK, OneConfiguration
<1>1. facade' \in Configs /\ facade' = stored' /\ facade' = [facade EXCEPT !.baud = rate]
  BY DEF SetBaudRate, Configs
<1>2. BaudOption(tty, rate) \in Termios
  BY DEF BaudOption, Termios
<1>3. call' \in [fn : Functions, ok : BOOLEAN, code : Errors] /\ call'.fn = "set"
  <2>1. Returns("set", isOpen => attached /\ rate \in SupportedRates, error)
    BY DEF SetBaudRate
  <2>. QED BY <2>1, ReturnTypes DEF Functions
<1>4. TypeOK'
  BY <1>1, <1>2, <1>3 DEF SetBaudRate, OnLine, ConfigInv, TypeOK
<1>5. tty'.cmspar = tty.cmspar /\ facade'.parity = facade.parity /\ stick' = stick
  BY <1>1 DEF SetBaudRate, OnLine, BaudOption, Termios, Configs
<1>6. Live' => Live /\ tty' = BaudOption(tty, rate)
  BY DEF SetBaudRate, Live, OnLine
<1>7. Live' => LineHas(tty', facade')
  <2> SUFFICES ASSUME Live' PROVE LineHas(tty', facade')
    OBVIOUS
  <2>1. LineHas(tty, facade)
    BY <1>6 DEF ConfigInv, LineAsConfigured
  <2>2. FlowOf(tty') = FlowOf(tty)
    BY <1>6 DEF BaudOption, Termios, FlowOf
  <2>3. /\ tty'.csize = tty.csize /\ tty'.cstopb = tty.cstopb
        /\ rate \in SupportedRates => tty'.speed = rate
    BY <1>6 DEF BaudOption, Termios
  <2>4. /\ facade'.baud = rate /\ facade'.bits = facade.bits
        /\ facade'.stop = facade.stop /\ facade'.flow = facade.flow
    BY <1>1 DEF Configs
  <2>. QED BY <2>1, <2>2, <2>3, <2>4 DEF LineHas
<1>8. Live' => ParityOf(tty') = ParityOf(tty)
  BY <1>6 DEF BaudOption, Termios, ParityOf
<1>9. StickOrigin /\ ParityAsConfigured
  BY DEF ConfigInv
<1>10. OpenTellsOutcome'
  BY <1>3 DEF OpenTellsOutcome
<1>. QED BY <1>1, <1>4, <1>5, <1>6, <1>7, <1>8, <1>9, <1>10, ConfigStep
         DEF StickOrigin, ParityAsConfigured

\* setDataBits() changes the size only.
LEMMA BitsStep ==
    ASSUME ConfigInv, NEW bits \in DataBits, SetDataBits(bits)
    PROVE  ConfigInv'
<1>. facade \in Configs /\ stored = facade /\ tty \in Termios /\ error \in Errors
  BY DEF ConfigInv, TypeOK, OneConfiguration
<1>1. facade' \in Configs /\ facade' = stored' /\ facade' = [facade EXCEPT !.bits = bits]
  BY DEF SetDataBits, Configs
<1>2. BitsOption(tty, bits) \in Termios
  BY DEF BitsOption, Termios
<1>3. call' \in [fn : Functions, ok : BOOLEAN, code : Errors] /\ call'.fn = "set"
  <2>1. Returns("set", isOpen => attached, error)
    BY DEF SetDataBits
  <2>. QED BY <2>1, ReturnTypes DEF Functions
<1>4. TypeOK'
  BY <1>1, <1>2, <1>3 DEF SetDataBits, OnLine, ConfigInv, TypeOK
<1>5. tty'.cmspar = tty.cmspar /\ facade'.parity = facade.parity /\ stick' = stick
  BY <1>1 DEF SetDataBits, OnLine, BitsOption, Termios, Configs
<1>6. Live' => Live /\ tty' = BitsOption(tty, bits)
  BY DEF SetDataBits, Live, OnLine
<1>7. Live' => LineHas(tty', facade')
  <2> SUFFICES ASSUME Live' PROVE LineHas(tty', facade')
    OBVIOUS
  <2>1. LineHas(tty, facade)
    BY <1>6 DEF ConfigInv, LineAsConfigured
  <2>2. FlowOf(tty') = FlowOf(tty)
    BY <1>6 DEF BitsOption, Termios, FlowOf
  <2>3. tty'.csize = bits /\ tty'.cstopb = tty.cstopb /\ tty'.speed = tty.speed
    BY <1>6 DEF BitsOption, Termios
  <2>4. /\ facade'.baud = facade.baud /\ facade'.bits = bits
        /\ facade'.stop = facade.stop /\ facade'.flow = facade.flow
    BY <1>1 DEF Configs
  <2>. QED BY <2>1, <2>2, <2>3, <2>4 DEF LineHas
<1>8. Live' => ParityOf(tty') = ParityOf(tty)
  BY <1>6 DEF BitsOption, Termios, ParityOf
<1>9. StickOrigin /\ ParityAsConfigured
  BY DEF ConfigInv
<1>10. OpenTellsOutcome'
  BY <1>3 DEF OpenTellsOutcome
<1>. QED BY <1>1, <1>4, <1>5, <1>6, <1>7, <1>8, <1>9, <1>10, ConfigStep
         DEF StickOrigin, ParityAsConfigured

\* setParity() sets the whole configuration, space and mark included.
LEMMA ParityStep ==
    ASSUME ConfigInv, NEW p \in AllParities, SetParity(p)
    PROVE  ConfigInv'
<1> DEFINE u == ApplyNative(ApplyConfig(tty, stored'), stored')
<1>. /\ facade \in Configs /\ stored = facade /\ tty \in Termios /\ error \in Errors
     /\ stick \in BOOLEAN
  BY DEF ConfigInv, TypeOK, OneConfiguration
<1>1. facade' \in Configs /\ facade' = stored' /\ facade'.parity = p
  BY DEF SetParity, Configs
<1>2. u \in Termios /\ LineHas(u, facade') /\ ParitySet(u, tty, p)
  BY <1>1, Configured
<1>3. call' \in [fn : Functions, ok : BOOLEAN, code : Errors] /\ call'.fn = "set"
  <2>1. Returns("set", TRUE, error)
    BY DEF SetParity
  <2>. QED BY <2>1, ReturnTypes DEF Functions
<1>. HIDE DEF u
<1>4. tty' = OnLine(u) /\ isOpen' = isOpen /\ attached' = attached /\ error' = error
  BY DEF SetParity, u
<1>5. stick' = (stick \/ p \in Sticky)
  BY DEF SetParity
<1>6. TypeOK'
  BY <1>1, <1>2, <1>3, <1>4, <1>5 DEF OnLine, ConfigInv, TypeOK
<1>7. ~stick' => ~tty.cmspar /\ p \notin Sticky
  BY <1>5 DEF ConfigInv, StickOrigin
<1>8. ~stick' => ~tty'.cmspar
  BY <1>2, <1>4, <1>7 DEF OnLine, ParitySet
<1>9. Live' => tty' = u
  BY <1>4 DEF Live, OnLine
<1>10. (p \in {"EvenParity", "OddParity"} => ~stick') => ParityOf(u) = p
  BY <1>2, <1>7, ParityShows
<1>11. OpenTellsOutcome'
  BY <1>3 DEF OpenTellsOutcome
<1>. QED BY <1>1, <1>2, <1>6, <1>7, <1>8, <1>9, <1>10, <1>11, ConfigStep

\* After applyConfig() alone the line of an open port still has the parity it had,
\* which is the one of the configuration.
LEMMA ParityKept ==
    ASSUME ConfigInv, Live, NEW c \in Configs, c.parity = facade.parity,
           facade.parity \in {"EvenParity", "OddParity"} => ~stick
    PROVE  ParityOf(ApplyConfig(tty, c)) = facade.parity
<1> DEFINE u == ApplyConfig(tty, c)
<1>. facade \in Configs /\ tty \in Termios
  BY DEF ConfigInv, TypeOK
<1>1. /\ u \in Termios /\ u.cmspar = tty.cmspar
      /\ c.parity \notin Sticky =>
             u.parenb = (c.parity # "NoParity") /\ u.parodd = (c.parity = "OddParity")
      /\ c.parity \in Sticky => u.parenb = tty.parenb /\ u.parodd = tty.parodd
  BY Applied
<1>. HIDE DEF u
<1>2. CASE c.parity \in Sticky
  <2>1. ParityOf(tty) = facade.parity
    BY <1>2 DEF ConfigInv, ParityAsConfigured, Sticky
  <2>2. ParityOf(u) = ParityOf(tty)
    BY <1>1, <1>2 DEF ParityOf
  <2>. QED BY <2>1, <2>2 DEF u
<1>3. CASE c.parity \notin Sticky
  <2>1. ParitySet(u, tty, c.parity)
    BY <1>1, <1>3 DEF ParitySet
  <2>2. c.parity \in {"EvenParity", "OddParity"} => ~tty.cmspar
    BY DEF ConfigInv, StickOrigin
  <2>3. c.parity \in AllParities
    BY DEF Configs
  <2>. QED BY <1>1, <2>1, <2>2, <2>3, ParityShows DEF u
<1>. QED BY <1>2, <1>3

\* setStopBits() and setFlowControl() apply the whole configuration.
LEMMA ApplyStep ==
    ASSUME ConfigInv, NEW c \in Configs, c.parity = facade.parity,
           facade' = c, stored' = c, tty' = OnLine(ApplyConfig(tty, c)),
           Returns("set", TRUE, error), UNCHANGED <<isOpen, error, attached, stick>>
    PROVE  ConfigInv'
<1> DEFINE u == ApplyConfig(tty, c)
<1>. facade \in Configs /\ tty \in Termios /\ error \in Errors
  BY DEF ConfigInv, TypeOK
<1>1. u \in Termios /\ u.cmspar = tty.cmspar /\ LineHas(u, c)
  BY Applied, AppliedLine
<1>2. call' \in [fn : Functions, ok : BOOLEAN, code : Errors] /\ call'.fn = "set"
  BY ReturnTypes DEF Functions
<1>3. Live /\ (c.parity \in {"EvenParity", "OddParity"} => ~stick) => ParityOf(u) = c.parity
  BY ParityKept
<1>. HIDE DEF u
<1>4. tty' = OnLine(u)
  BY DEF u
<1>5. TypeOK'
  BY <1>1, <1>2, <1>4 DEF OnLine, ConfigInv, TypeOK
<1>6. Live' => Live /\ tty' = u
  BY <1>4 DEF Live, OnLine
<1>7. tty'.cmspar = tty.cmspar
  BY <1>1, <1>4 DEF OnLine
<1>8. OpenTellsOutcome'
  BY <1>2 DEF OpenTellsOutcome
<1>. QED BY <1>1, <1>3, <1>5, <1>6, <1>7, <1>8, ConfigStep DEF ConfigInv, StickOrigin

\* A failed open() leaves the port closed, with an error recorded.
LEMMA OpenFailsStep ==
    ASSUME ConfigInv, OpenFails
    PROVE  ConfigInv'
<1>. /\ facade \in Configs /\ stored = facade /\ tty \in Termios
  BY DEF ConfigInv, TypeOK, OneConfiguration
<1>1. error' \in OpenErrors /\ error' \in Errors
  BY DEF OpenFails, OpenErrors
<1>2. call' \in [fn : Functions, ok : BOOLEAN, code : Errors] /\ call'.code = error'
  BY <1>1 DEF OpenFails, Returns, Functions, Errors
<1>3. tty' \in Termios /\ (facade.parity \notin Sticky => tty'.cmspar = tty.cmspar)
  BY Pushed DEF OpenFails, OnLine, ConfigInv, TypeOK
<1>4. TypeOK'
  BY <1>1, <1>2, <1>3 DEF OpenFails, ConfigInv, TypeOK
<1>5. facade' = facade /\ stored' = facade /\ stick' = stick /\ ~isOpen'
  BY DEF OpenFails
<1>6. OpenTellsOutcome'
  BY <1>1, <1>2, <1>5 DEF OpenTellsOutcome, OpenErrors
<1>. QED BY <1>3, <1>4, <1>5, <1>6, ConfigStep DEF ConfigInv, StickOrigin, Live

\* A successful open() configures the line, whatever it finds there.
LEMMA OpenSucceedsStep ==
    ASSUME ConfigInv, OpenSucceeds
    PROVE  ConfigInv'
<1> DEFINE found == IF attached THEN OnLine(PushConfig) ELSE NewTermios
           raw == MakeRaw(found)
<1>. facade \in Configs /\ stored = facade /\ tty \in Termios
  BY DEF ConfigInv, TypeOK, OneConfiguration
<1>1. NewTermios \in Termios /\ ~NewTermios.cmspar
  BY RatesAssumption DEF NewTermios, Termios, DataBits
<1>2. PushConfig \in Termios /\ (facade.parity \notin Sticky => PushConfig.cmspar = tty.cmspar)
  BY Pushed DEF ConfigInv, TypeOK
<1>3. ~stick => ~tty.cmspar /\ facade.parity \notin Sticky
  BY DEF ConfigInv, StickOrigin
<1>4. found \in Termios /\ (~stick => ~found.cmspar)
  BY <1>1, <1>2, <1>3 DEF OnLine
<1>. HIDE DEF found
<1>5. raw \in Termios /\ (~stick => ~raw.cmspar)
  BY <1>4 DEF MakeRaw, Termios, DataBits
<1>. HIDE DEF raw
<1>6. tty' = ApplyNative(ApplyConfig(raw, facade), facade)
  BY DEF OpenSucceeds, found, raw
<1>7. tty' \in Termios /\ LineHas(tty', facade) /\ ParitySet(tty', raw, facade.parity)
  BY <1>5, <1>6, Configured
<1>8. facade' = facade /\ stored' = facade /\ stick' = stick /\ isOpen' /\ isOpen' \in BOOLEAN
      /\ attached' \in BOOLEAN /\ error' = "NoError"
  BY DEF OpenSucceeds
<1>9. call' \in [fn : Functions, ok : BOOLEAN, code : Errors] /\ call'.code = "NoError"
  BY DEF OpenSucceeds, Returns, Functions, Errors
<1>10. TypeOK'
  BY <1>7, <1>8, <1>9 DEF ConfigInv, TypeOK, Errors
<1>11. ~stick => ~tty'.cmspar
  BY <1>3, <1>5, <1>7 DEF ParitySet
<1>12. (facade.parity \in {"EvenParity", "OddParity"} => ~stick)
           => ParityOf(tty') = facade.parity
  <2>1. facade.parity \in AllParities
    BY DEF Configs
  <2>. QED BY <1>5, <1>7, <2>1, ParityShows
<1>13. OpenTellsOutcome'
  BY <1>8, <1>9 DEF OpenTellsOutcome
<1>. QED BY <1>3, <1>7, <1>8, <1>10, <1>11, <1>12, <1>13, ConfigStep

\* Steps that change neither the configuration nor the line.
LEMMA OtherSteps ==
    ASSUME ConfigInv,
           \/ Close \/ WriteNotOpen \/ FlushOrClear \/ ClearError \/ Unplugged \/ NotifyError
           \/ UNCHANGED vars
    PROVE  ConfigInv'
<1>. /\ isOpen \in BOOLEAN /\ attached \in BOOLEAN /\ error \in Errors
     /\ call \in [fn : Functions, ok : BOOLEAN, code : Errors]
  BY DEF ConfigInv, TypeOK
<1>1. UNCHANGED <<facade, stored, tty, stick>>
  BY DEF Close, WriteNotOpen, FlushOrClear, ClearError, Unplugged, NotifyError, vars
<1>2. /\ Live' => Live
      /\ isOpen' \in BOOLEAN /\ attached' \in BOOLEAN /\ error' \in Errors
      /\ call' \in [fn : Functions, ok : BOOLEAN, code : Errors]
  <2>1. CASE Close
    BY <2>1, ReturnTypes DEF Close, Live, Functions
  <2>2. CASE WriteNotOpen
    BY <2>2 DEF WriteNotOpen, Live, Functions, Errors
  <2>3. CASE FlushOrClear
    <3>1. Returns("flush", isOpen /\ attached, error)
      BY <2>3 DEF FlushOrClear
    <3>2. call' \in [fn : Functions, ok : BOOLEAN, code : Errors]
      BY <3>1, ReturnTypes DEF Functions
    <3>. QED BY <2>3, <3>2 DEF FlushOrClear, Live
  <2>4. CASE ClearError
    BY <2>4, ReturnTypes DEF ClearError, Live, Functions, Errors
  <2>5. CASE Unplugged
    BY <2>5 DEF Unplugged, Live
  <2>6. CASE NotifyError
    BY <2>6 DEF NotifyError, Live, Errors
  <2>7. CASE UNCHANGED vars
    BY <2>7 DEF vars, Live
  <2>. QED BY <2>1, <2>2, <2>3, <2>4, <2>5, <2>6, <2>7
<1>3. TypeOK'
  BY <1>1, <1>2 DEF ConfigInv, TypeOK
<1>4. call'.fn = "open" => call' = call /\ isOpen' = isOpen
  BY DEF Close, WriteNotOpen, FlushOrClear, ClearError, Unplugged, NotifyError, vars,
         Returns
<1>5. OpenTellsOutcome'
  BY <1>4 DEF ConfigInv, OpenTellsOutcome
<1>. QED BY <1>1, <1>2, <1>3, <1>5, ConfigStep
         DEF ConfigInv, OneConfiguration, StickOrigin, LineAsConfigured, ParityAsConfigured

-----------------------------------------------------------------------------

\* In every reachable state, for any rates and any values the user sets: the line
\* of an open port has the configuration SerialPort reports, the two copies of it
\* agree, and cps_serial_open's code says whether the port is open.
THEOREM ConfigCorrect == Spec => []ConfigInv
<1>1. ASSUME ConfigInv, [Next]_vars
      PROVE  ConfigInv'
  <2>. facade \in Configs /\ stored = facade
    BY <1>1 DEF ConfigInv, TypeOK, OneConfiguration
  <2>1. ASSUME NEW s \in StopBitValues, SetStopBits(s) PROVE ConfigInv'
    <3>1. /\ [facade EXCEPT !.stop = s] \in Configs
          /\ [facade EXCEPT !.stop = s].parity = facade.parity
      BY ValuesAssumption DEF Configs
    <3>. QED BY <1>1, <2>1, <3>1, ApplyStep DEF SetStopBits
  <2>2. ASSUME NEW f \in FlowControls, SetFlowControl(f) PROVE ConfigInv'
    <3>1. /\ [facade EXCEPT !.flow = f] \in Configs
          /\ [facade EXCEPT !.flow = f].parity = facade.parity
      BY ValuesAssumption DEF Configs
    <3>. QED BY <1>1, <2>2, <3>1, ApplyStep DEF SetFlowControl
  <2>3. CASE Setters
    BY <1>1, <2>1, <2>2, <2>3, BaudStep, BitsStep, ParityStep, ValuesAssumption DEF Setters
  <2>4. CASE OpenFails
    BY <1>1, <2>4, OpenFailsStep
  <2>5. CASE OpenSucceeds
    BY <1>1, <2>5, OpenSucceedsStep
  <2>. QED BY <1>1, <2>3, <2>4, <2>5, OtherSteps DEF Next
<1>. QED BY <1>1, ConfigInit, PTL DEF Spec

\* The line of an open port is as SerialPort's getters say.
THEOREM LineIsConfigured == Spec => []LineAsConfigured
<1>1. ConfigInv => LineAsConfigured
  BY DEF ConfigInv
<1>. QED BY <1>1, ConfigCorrect, PTL

\* So is its parity, as far as the code gets it right.
THEOREM ParityIsConfigured == Spec => []ParityAsConfigured
<1>1. ConfigInv => ParityAsConfigured
  BY DEF ConfigInv
<1>. QED BY <1>1, ConfigCorrect, PTL

\* cps_serial_open() returns CPS_ERR_NONE exactly when the port is open.
THEOREM OpenCodeIsOutcome == Spec => []OpenTellsOutcome
<1>1. ConfigInv => OpenTellsOutcome
  BY DEF ConfigInv
<1>. QED BY <1>1, ConfigCorrect, PTL
=============================================================================
