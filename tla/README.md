# A verification model of CrossPlatformSerial

This directory models CrossPlatformSerial, a C++ serial-port library with a C
interface, a desktop backend on boost::asio and an Android backend on a Java
helper, in TLA+; TLC checks small instances and TLAPS proves the central
invariants for every value of the constants. Paths below are relative to the
repository root (`src/` of the source map).

## The system

| Part | State | Operations | Interacts with |
|---|---|---|---|
| `SerialPort` (`src/SerialPort.cpp`) | name, configuration, open mode, callbacks, the backend it owns | open/close, read/write, setters, clear/flush, setCallbacks, move | pushes its configuration into the backend at every open(); forwards callbacks from the worker thread |
| `AsioBackend` (`src/detail/AsioBackend.cpp`, `ReadBuffer.hpp`) | `running_`, `closing_`, `error_`, `bytesToWrite_`, `readBuffer_`, `readScratch_`, io_context, serial_port, work guard, thread, configuration | open, close, write, read, clear, flush, setters; the read handler, the write handler | a user thread and a worker thread share everything; the kernel and the device at the other end |
| `AndroidBackend` (`src/detail/AndroidBackend.cpp`), `CpsUsbSerial.java` | registry of instances, `open_`, `readBuffer_`, the Java map of ports, the permission latch | open, close, write, read; native callbacks from the Java read thread | JNI both ways; USB permission broadcast |
| C functions (`src/CAbi.cpp`) | a `SerialPort` per handle | one per method, port lists, callbacks | turns a bool into an error code by asking `error()` |
| `PortEnumerator`, `SerialPortInfo` | none | a scan of sysfs, of the registry, of Android's drivers | the file system; JNI |
| Qt controllers, Go and C examples | connected flag, queued lambdas; a channel of signals | connect, disconnect, send, drain | call the library from one thread, are called back on another |

Hard behaviour: close() against a running read loop and pending writes; handlers
that outlive the session they belong to; concurrent writes in pieces; the
counter settled on another thread than it is counted on; unplugging at any
point; settings of the line that survive a close and depend on the order of
setters; error codes asked for after the fact; on Android callbacks through a
raw pointer, and a permission answer that races its timeout; in the terminals three
threads of control that open and close one port, and lambdas queued by two threads;
in Go one signal for many arrivals. `PROJECT.json`
lists each hazard at its line. What makes the parts correct: a received byte
arrives once and in order; a write gets one outcome and the counter is the sum of
those without; an error means a lost device; after close() no thread runs and nothing
waits but the handlers left in the queue; close() returns; the line has the configuration the getters report.

## Modules

`AsioBackend` is the desktop backend. Its variables are the members of the class,
the io_context's queue of ready handlers (`ready`), what is pending in the
reactor, a program counter for each thread (`user`, `worker`), the device, one
record per write, and history (`received`, `wire`, `lost`, `session`, `clean`,
`paced`). One action stands for the code between two points where the other
thread or the device can make a difference:

* `open()`: `OpenCall`, `OpenFails`/`OpenSucceeds`, then `doRead()` in two steps:
  `OpenCheckRunning` (the test of `running_`) and `OpenAsyncRead`.
* `close()`: one action per statement (`CloseCall` to `CloseJoin`). A thread joined
  leaves nothing to interleave with, so all that follows the join is one action.
* `write()`: `WriteCount` (the fetch_add) and `WritePost` (the post); `read()` is
  `ReadCall`; `clear(Input)` is `ClearInput`. The user thread and the worker, inside
  a callback, both make them.
* the worker: `RunPosted`, `RunReadDone`, `RunWriteDone` take the head of the queue;
  `ReactorRead` and `ReactorWrite` finish a pending operation and run its handler;
  callbacks are program points of their own, so that anything may happen during one.

boost::asio, the kernel and the device are external: an operation is tried at
once when none of its kind waits, else the reactor does it; the kernel takes any
part of a write, and `wire` is the order it took the bytes in (what the device gets of
them is another matter, see Limits); `cancel()` and `close()` of a port turn what is pending into failed
completions at the end of the queue; `stop()` makes run() return and leaves the
queue as it is.

`AsioBackendProperties` states the properties and the inductive invariant;
`SerialLink` is the abstract contract of a backend over all openings of a port (a FIFO
of received bytes, writes with one outcome each, a counter, nothing of one opening in
the next) as long as no close() has left a handler behind; `AsioBackendLink` maps
the one on the other. The proofs are in three modules, each of which extends the one
before: `AsioBackendProofs` (types, control, errors), `AsioReadProofs` (the read loop and
the stream) and `AsioWriteProofs` (writes, counter, wire, sessions, and at its end the
refinement). `MCAsioBackend` has the instances.

`PortConfig` is the configuration: the facade's copy and the backend's, the
termios flags of the line, each setter down to `set_option`, `pushConfig`,
`applyConfig`, `applyNativeTimeouts`, open and close, and the code the C function
returns. It is sequential: one thread configures a port, and the worker only
records a lost device. `ApplyConfig`, `ApplyNative`, `PushConfig` are operators on
termios records. asio's own part (which flags each option sets, cfmakeraw at
open) is external. `PortConfigProofs` holds its proofs and `MCPortConfig` its instances.

`AndroidBackend` is the Android backend with its Java helper: one object and one
user thread, and an io thread per Java port (a session) that has been opened, all
under the same handle. Its variables are the object's members, whether it is in
`registry()`, the session of its Entry in `sOpen`, each io thread's place and the
bytes it holds, the permission (UsbManager's, dialogs, answers on their way,
`granted[0]`) and the device; `dropped` and `lost` tell bytes no callback could
deliver from bytes cleared. `open()` is one action per step that another thread
can see (`RequestPermission`, `PermissionReturns`, `OpenDevice`, `IoStart`, `Put`,
`Register`, `SetOpen`), so is `close()`; an io thread's callback is `OnRead` (the lookup
under the mutex), `HandleData` (the push, after the unlock), `CallbackReturns`. A close()
that cannot attach its thread to the VM skips Java (`CloseUnattached`). Of write() only
what it records when it fails is there (`WriteErrors`); a Java write that catches its own
exception returns -1 and records nothing.
usb-serial-for-android (a submodule) and Android are external: a manager's thread
looks whether it was stopped, then reads and waits; a read fails when its port is
closed, the device is gone or a newer session has claimed it; each request shows
one dialog, whose answer is broadcast on the main thread. `AndroidBackendProperties`,
`AndroidBackendProofs` and `MCAndroidBackend` are as for the desktop backend.

The programs of `examples/` share a model of their own, `Programs`, in which the first
state chooses the program and its platform:

* `SerialPort` is the port as they see it: the callbacks its Impl holds (not set, set,
  destroyed), the backend it owns, and one worker per opening. The backend is that of the
  modules above reduced to what a caller can tell: bytes are counted, close() joins the
  worker on the desktop and does not on Android, a failed read ends the worker after
  onError. What a close() leaves to the next session is not repeated here.
* `QtController` is both Qt controllers: the GUI thread (`gui`, with its queue of
  lambdas), the background thread of connectPort() (`connThread`), `openMx_`,
  `connected_`, and the callbacks on the worker. Each lambda, lock, join, open and close is
  a step. The two controllers differ in the read callback (everything, or one buffer) and in
  the destructor (`CabiController` disconnects first); the definitions say where. On
  Android open() may wait for an answer that only the idle GUI thread can deliver.
* `Consumers` is the Go, the C and the list program: the list of ports and its
  release, the life of the handle, the callback that signals (Go) or reads (C), the drain.
  `heap` is what cps_available_ports() has allocated, string by string, with the header that
  keeps the count; cps_free_ports() frees as many entries as the header it finds says. Go asks
  for a second list, of devices that may be others, when its port is not in the first.
* `PortEnumerator` has the three enumerations as operators from what the system knows
  to the list the program gets. A text is a sequence of tokens; comparison, parsing of
  numbers and the search upwards are modelled as the code does them: `HexToInt` is
  std::stoul (blanks, a sign, `0x`, digits up to anything else, 0 for a text without digits or
  with more than an unsigned long has), `ExtractHexId` the same over the four characters
  sscanf takes. A name is one of a set of families (`Families`, those of the code's prefixes
  and others that begin with one of them or with none) with a number; `LooksSerial` tests
  the prefixes. `Picked` is the loop
  that skips some entries and appends the others; `SortedByName` is what std::sort promises,
  a permutation in which no entry is before an earlier one. `ProperDevices` says what a
  system can know: entries of one directory differ in name.

`Programs` composes them and states their properties; `PortListProofs` has the proofs about
the enumerations, `ProgramsProofs`, which extends it, those about the programs,
`MCPrograms` the instance. `SequenceLemmas` has the facts on sequences all proofs use.

## Runs

| Run | Shows | Bounds |
|---|---|---|
| `asio_stream` | types (the scratch buffer is not overrun), stream integrity | 1 session, 3 bytes, scratch 2 (a short read over a long one), 1 write |
| `asio` | accounting, the wire, isolation of sessions, one read loop (or one per opening), one carrier per write, what close() leaves, no spurious error, the inductive invariant, the refinement of `SerialLink` | 2 sessions, 2 writes of up to 2 bytes from both threads (so pieces interleave), 1 byte received |
| `asio_live` | close() returns, bytes arrive, unplugging is reported, writes settle | 2 sessions, 1 write of up to 2 bytes, 1 byte |
| `config` | the line has the configuration, codes of open | every parity, stop bits and flow control, a rate asio accepts and one it refuses |
| `android` | the stream, registry and errors, who owns the open Java ports, permission, the inductive invariant, no drop while open | 2 Java ports, 2 bytes, 2 dialogs (so a late answer meets a later request) |
| `android_live` | open() returns, threads end, bytes arrive | 2 Java ports, 1 byte, 1 dialog |
| `programs` | openings and closings exclude each other, what the window shows is so, errors close their own session, callbacks change under no worker, no byte is stranded, the GUI thread returns, the list of ports is right, and both of Go's lists are given back as their headers count | 2 openings, 2 bytes, chunks of 2, buffers of 2 (`CabiBufSize`), 1 and 1, 3 directory levels; `SendFails` only below `MaxQueue` lambdas |
| `asio_spurious` (violation) | stale handlers report an error in the next session | 2 sessions |
| `asio_wire_order` (violation) | concurrent writes interleave | 2 writes |
| `config_software_flow` (violation) | software flow control is lost at open() | one rate refused, one accepted |
| `config_sticky_parity` (violation) | CMSPAR sticks | the same |
| `android_quiet` (violation) | a callback outlives close() | 1 Java port, 1 byte |

Two sessions are enough for what one session leaves to the next, as close() leaves
nothing but the queue; two writes for any order between writes, of two bytes for a
write cut in pieces; three bytes and a scratch buffer of two for a long read, a
short one and a byte left in the kernel. `SessionIsolation`, `ByteAccounting` and
others speak of histories that are `clean`: no close() has left a handler in the
queue. What happens otherwise is the finding of `asio_spurious`; `NoLostWrite`,
`WrittenIsOnWire`, `CloseQuiesces`, the types and the first part of `SingleReadLoop` hold there
too. `CloseQuiesces` says what close() may leave: no thread, nothing in the reactor, empty
buffers, and in the queue one handler for each write without an outcome, none for another,
and no more reads than openings. A read completed before close() starts a second
loop in the next session: `SingleReadLoop` allows one loop per opening, and the run reaches two.

In `programs` two openings let an error, a result or a read of the first meet the
second, two bytes make a program with a buffer of one read twice for one signal, and
the systems enumerated have ids at several levels, hubs, missing files, ids with `0x`, a
sign, other characters or too many digits, names in an order that is not theirs, one that
begins with another's prefix, texts with several COM.

For `AndroidBackend`, `clean` says that every Java port was opened while `isOpen()` was
false and no earlier io thread was alive, and that every close() reached Java: the handle is the same in all sessions,
so that an older thread's bytes and failures reach the object otherwise. Two Java
ports are enough for one session and what is left of an older one.

Deadlock is checked in every run: a state with no step at all does not exist, as
the user may always open or close; a program that has ended stutters (`Ended`).

Fairness (`FairSpec`): both threads are scheduled by the operating system and
callbacks return, so every step of a thread is weakly fair. The user owes no call.
The device owes nothing either: a pending write completes only if the device
drains (`DeviceDrains`, the premise of `WriteSettles`) or is gone. close() must
return without that. On Android the user's steps inside a call and each io thread
are weakly fair; the await of the permission is limited, and nobody need answer. In
`Programs` every thread's steps are weakly fair, the event loop runs, and open()'s wait
ends after its 30 s; the user need not press, answer or quit, nor the device send.

## Findings

* close() cancels, then stops the io_context: the aborted handlers stay queued and
  the next session runs them with its own flags (`src/detail/AsioBackend.cpp:104`):
  a `ResourceError` for a device that is there, and the end of its read loop.
* Each write() is an async_write of its own, and asio asks that the user not
  start one before the other is over (`AsioBackend.cpp:275`): bytes of two writes
  interleave. `PacedWireOrder` is what a user can rely on.
* `applyNativeTimeouts()` clears the software flow control `applyConfig()` has just
  set (`AsioBackend.cpp:167`).
* Nothing clears CMSPAR (`AsioBackend.cpp:175`).
* On Android close() does not wait for the io thread: a callback may run, and push into
  the cleared buffer, after it (`AndroidBackend.cpp:262`); bytes of an old session
  can then be read in the next.

Seen while modelling, without a run:

* on Android a Java write that fails returns -1 and leaves error() as it was, and bytes
  read before open() registers the object are dropped; a setter the line refuses, and
  flush() and clear() on a closed port, return the last recorded error, which may be
  CPS_ERR_NONE (`src/CAbi.cpp:196-267`); a close() that cannot attach its thread leaves the
  Java port open and its thread running (`AndroidBackend.cpp:264`); stop bits 1.5 are silently not applied on POSIX;
* an error can be queued to the Qt thread before the result of the connectPort() that
  opened its port: its lambda finds `connected_` unset and does nothing, and the result then
  sets it on a dead port (`early` in the model; `serialcontroller.cpp:48`, `:105`);
* a second connectPort() pressed before the first has reported can leave `connected_`
  set on a closed port, or let an old error close the newer session; `orderly` leaves this
  out of `ConnectedIsOpen` and `ErrorClosesItsSession`;
* on Android a GUI thread that joins or locks cannot deliver the permission answer, and
  is stuck until the 30 s are over (`GuiReturns` holds thanks to them only);
* `SerialController` destroys an open port, and its callbacks before the worker is
  joined; `CabiController` does when it quits with a result to come (`DestroysOpenPort`);
* the C callback reads at most its buffer and leaves the rest until the next signal;
* a device without a `serial` file shows that of its hub; `ttyUSB10` sorts before `ttyUSB2`;
* the terminal's Clear button only empties its text, though `examples/qt_serial/README.md:13`
  says that it also flushes the port's buffers.

## Proofs

The desktop backend, for every number of sessions, bytes, writes, sizes and every
scratch size. The inductive invariant `IInv` (`InductiveInvariant`) has three parts, and the
two later ones are inductive only with the first:

* `CoreInv` (`CoreInvariant`, in `AsioBackendProofs`): the types; `References` (every handler,
  pending operation and thread refers to a write that exists, and a completed read to
  bytes `readScratch_` has), without which the types are not inductive; `Control` (where the
  threads can be, given the port and the flags); `ClosedIsEmpty`; `FailureExplained`: in
  a clean history a failed completion in the queue means that the device is gone or that
  close() has set both flags. From it `TypeCorrect` and `ErrorsAreReal` (`NoSpuriousError`).
* `ReadInv` (`ReadInvariant`, in `AsioReadProofs`): `SingleReadLoop`, `StreamIntegrity`,
  and behind them `SessionBytes` (no byte of an older session, also not one a queued
  completion speaks of) and `BytesSent` (only bytes that were sent are lost). One read at
  a time is what makes the stream inductive: two would share `readScratch_`, and a read
  that completes would overwrite bytes another completion promises. Without `clean` what is
  inductive is the bound by openings: only open() starts a loop (`ReadsOutstandingStep`). Every step moves the
  stream's bytes on, drops some of its end, or appends the device's next byte. From it
  `OneReadAtATime` and `BytesArriveInOrder`.
* `WriteInv` (`WriteInvariant`, in `AsioWriteProofs`): `NoLostWrite` counts for each write the
  places from which a handler will still come; `ByteAccounting`; `WireCounts` (the wire has
  of each write what async_write has counted as sent, which is what makes
  `WrittenIsOnWire` inductive); `LastOpen` (a user that waits has at most its last write
  open) behind `PacedWireOrder`; `SessionWrites`. From it `WritesAreCarriedOnce`,
  `BytesAreAccounted`, `ReportedIsOnWire`, `WritesInOrder`, and with the two others
  `SessionsAreApart` and `CloseIsFinal` (`CloseQuiesces`).

The end of `AsioWriteProofs` proves `LinkRefined`, that `AsioBackend` implements `SerialLink`: the initial
state is one of the contract, and under `IInv` every action is a step of it or a stutter.
What is received and not read yet is `Buffered`: `readBuffer_`, the bytes of
a completed read, and the kernel's, so that a read handler stutters. A failed outcome
maps to the contract's failure since `FailureExplained` says why it failed.

`PortConfigProofs`, for any rates and values: `ConfigCorrect` (the inductive
`ConfigInv`: `StickOrigin` says that CMSPAR comes from space or mark parity only, which
makes `ParityAsConfigured` inductive), `LineIsConfigured` and `ParityIsConfigured`. The
lemmas `Applied`, `NativelyApplied` and `Configured` say what the two functions make of
any settings of the line.

`AndroidBackendProofs`, for any number of Java ports, bytes and dialogs, proves `AndroidInv`
(`AndroidInvariant`) in two parts:

* `BackedInv` (`BackedInvariant`): types; `Control`, where open() and close() are and
  what is then registered and open; `AnswersAreGiven`, no yes without a permission;
  `FailureExplained`, in a clean history only the newest session has a living thread and a
  failed read means a closed port or a lost device; `OpenPortsAreOwned` and, behind it,
  `EntryWhenOpen`: in a clean history sOpen has nothing of a closed port, so that the next
  open() makes it forget nothing. From it `PortsAreOwned`, `OpenPortsAreBacked`, `ErrorsAreReal` (`ErrorIsReal`), `OpenNeedsPermission` and
  `NothingDropped` (the action property `NoDropWhileOpen`). `registered` implying that the newest
  port is open is what makes the errors inductive: close() unregisters first.
* `StreamInv`: `StreamIntegrity`, with `DataHeld` (a thread holds bytes only between its
  read and handleData(), a thread to be started none) and `SentBeforeGone`. A
  step leaves the stream as it is, takes a part out of its middle (a callback that finds no
  object, clear(), close(), the unplugging: `TakenOut`) or appends a byte. From it
  `BytesArriveInOrder`.

`OpenCodeIsOutcome` reads the code of open() off `ConfigInv`.

`ProgramsProofs`, for every set of builds, number of openings, bytes and buffer sizes, proves
`InvariantHolds`: `ProgramsInv` is inductive. Its parts are the types; `MutexHeld` (which
program points own `openMx_`, where the background thread has been joined, where the
destructor is); `WorkersJoined` and `ConsoleClosed`; `OpenIsReported` and `ResultIsTrue` (a
port that is open has `connected_` set or its result on the way, and, for an orderly user,
the other way round); `ErrorsFollowResult` and `ErrorsAreOfSession` (an error of the newest
session is behind its result in the queue; nothing behind a good result is of an older one);
`ListHeld` (the allocated strings are those of the list Go has, and the header has its length,
so that freeing by the header, `FreedAsCounted`, frees all); `ListKnown` (the list a program holds is the enumeration of its devices, and Go's
port the first of it with the vendor id); `ReadsOwed` (a closed port has no byte; in a Qt terminal `readBuffer_` has at most a
chunk for each worker in onReadyRead, which on Android can be several; in Go a byte has a
callback, a signal or the loop to come). `StepKinds` says that a step opens the port, closes it, moves one worker or
keeps it; `KindsGrow` and `KindsShrink` say what the queue's ends do to positions of results and
errors. From the invariant: `PortIsSerialized`, `ConnectedMeansOpen`,
`ErrorLambdaCloses`, `CallbacksAreStable`, `ListIsReleased`, `NoByteIsStranded`, `PortListIsRight`.

`PortListProofs` is about operators, for any devices; `PortListRight` says what the list should
be without the code's loops, and `ListKnown` connects the two.

* `PickedRight`: the loop gives one entry per place it does not skip, in their order: the
  entry of a place is at the number of such places up to it. Its recursive function is shown
  to have a solution first (`PickedRounds`).
* `SortRight`: std::sort's comparison is a strict total order on names (`NamesOrdered`, from
  `LexTransitive` and `LexTotal` on digits), so that a sorted permutation exists, which
  `OrderedPermutation` builds by counting the entries before each; without that the CHOOSE in
  `SortedByName` would say nothing.
* `IdsAreNearest`: whatever the directories and the number of levels, each id of `PosixInfo`
  is that of the nearest directory with its file, and both are 0 when one has no file at all.
* `ComNameRight`: the Windows name is all the digits after the first COM that has one.
* `PosixRight`, `WindowsRight`, `AndroidRight` put them together for each platform.

What a recursive function gives is proved through the least counterexample of a set of naturals
(`SmallestNumber`, from `WFMin`), or of an explicit solution, in place of an induction theorem.

The assumptions are the named ASSUMEs of the models: bounds are naturals, sizes
positive, 9600 is a rate asio accepts, builds are pairs of program and platform, and a chunk
fits `handleReadyRead()`'s buffer (`CabiAssumption`: both are 4096 bytes,
`src/detail/AsioBackend.hpp:85`, `examples/qt_serial_cabi/cabicontroller.cpp:101`; without it
`NoStrandedBytes` is false). `SystemsAssumption` is `ProperDevices` for each system: without
different names two entries would have no order; the records' fields are of the kinds the
systems give.

Every safety property a passing run checks is proved. Liveness (`CloseReturns`, `DataArrives`,
`UnplugReported`, `WriteSettles`, `OpenReturns`, `ThreadEnds`, `GuiReturns`, `Drained`) is
model-checked only: fairness and ENABLED are beyond TLAPS. The numbers `HexToInt` and
`ExtractHexId` compute from digits are definitions of the model (folds, whose value for every
input cannot be proved); the theorems say whose digits they are applied to.

## Limits

One user thread; callbacks do not call close() or open() (the join would be of the
thread itself) nor replace callbacks; POSIX; the reactor performs one ready
operation per step. flush() changes no state of the backend and clear(Output) only
the kernel's; neither is modelled in `AsioBackend`. `wire`, and with it `WrittenIsOnWire`,
ends at the kernel: the handler of async_write runs when the kernel has taken the bytes, and
a clear(Output) (`AsioBackend.cpp:320`) or an unplugging may still drop them, though
onBytesWritten speaks of bytes flushed to the device (`SerialBackend.hpp:51`). Data bits 5 and 6 are as 7 and 8.
In `AndroidBackend` what write() sends and a device plugged in again
are left out; in `SerialPort` a worker's lookup, push and callback are one step, so that
Android's push after close() is in `AndroidBackend` only; close() and open() are not called from a callback.

Of `SerialPort` moves are not modelled: a moved port keeps lambdas that capture the
old Impl, but no program of the repository moves one. Of the controllers, clear() is called
by nobody, and of send() only the failing write is there. What the call of a destroyed
callback does is undefined and not followed: `CallbacksStable` says when it cannot
happen. The port's name, the version, error texts and what programs print are left out,
as are build files, scripts and the look of the QML.

## Plan

1. `AsioBackend` with properties, contract and proofs: done.
2. `PortConfig` with proofs: done.
3. `AndroidBackend` with proofs: done.
4. `SerialPort`, `QtController`, `Consumers`, `PortEnumerator`, composed in `Programs`, with
   proofs: done.
5. The stream, the counter, the wire and the refinement of `SerialLink`, the stream of
   `AndroidBackend`, stranded bytes, the nearest ids, proved: done.
6. The list of ports (filtering, order, ids, names) proved, with definitions of its own in place
   of SelectSeq and SortSeq: done.
