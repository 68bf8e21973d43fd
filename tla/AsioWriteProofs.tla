-------------------------- MODULE AsioWriteProofs --------------------------
(* The bytes written: no write is lost, each is reported once, what is        *)
(* reported is on the wire, and bytesToWrite() says what is still to come.    *)
(* Then the whole: the backend implements the contract of SerialLink.         *)
EXTENDS AsioReadProofs, AsioBackendLink

USE BoundsAssumption, ScratchAssumption, ReadSizesAssumption

\* The queued handlers of one write.
WriteHandlers(w) == {h \in Handlers : h.kind # "read" /\ h.write = w}

\* How the number of queued handlers of a write changes with the queue, and
\* that of its waiting pieces with the list of those that wait.
LEMMA QueuedSteps ==
    ASSUME TypeOK, References, TypeOK', NEW w
    PROVE  /\ Cardinality(Queued(w)) \in Nat /\ Cardinality(Queued(w))' \in Nat
           /\ UNCHANGED ready => Cardinality(Queued(w))' = Cardinality(Queued(w))
           /\ ready # <<>> /\ ready' = Tail(ready) =>
                Cardinality(Queued(w))' = Cardinality(Queued(w))
                  - (IF Head(ready).kind # "read" /\ Head(ready).write = w THEN 1 ELSE 0)
           /\ ready' = ready \o Aborted =>
                Cardinality(Queued(w))' = Cardinality(Queued(w)) + Cardinality(Waiting(w))
           /\ \A h \in Handlers : ready' = Append(ready, h) =>
                Cardinality(Queued(w))' = Cardinality(Queued(w))
                  + (IF h.kind # "read" /\ h.write = w THEN 1 ELSE 0)
<1> DEFINE T == WriteHandlers(w)
<1>1. ready \in Seq(Handlers) /\ ready' \in Seq(Handlers)
  BY DEF TypeOK, HandlersOK
<1>2. \A s \in Seq(Handlers) :
        {i \in DOMAIN s : s[i].kind # "read" /\ s[i].write = w} = Places(s, T)
  <2>1. \A s \in Seq(Handlers) : \A i \in DOMAIN s : s[i] \in Handlers
    BY ElementOfSeq, LenProperties
  <2> QED
    BY <2>1 DEF Places, WriteHandlers
<1>3. Queued(w) = Places(ready, T) /\ Queued(w)' = Places(ready', T)
  BY <1>1, <1>2 DEF Queued
<1>4. \A h \in Handlers : h \in T <=> h.kind # "read" /\ h.write = w
  BY DEF WriteHandlers
<1> HIDE DEF T
<1>5. Cardinality(Queued(w)) \in Nat /\ Cardinality(Queued(w))' \in Nat
  BY <1>1, <1>3, PlacesFinite
<1>6. ASSUME ready # <<>>, ready' = Tail(ready)
      PROVE  Cardinality(Queued(w))' = Cardinality(Queued(w))
               - (IF Head(ready).kind # "read" /\ Head(ready).write = w THEN 1 ELSE 0)
  <2>1. Head(ready) \in Handlers
    BY <1>1, <1>6, HeadTailProperties
  <2>2. Cardinality(Places(Tail(ready), T))
          = Cardinality(Places(ready, T)) - (IF Head(ready) \in T THEN 1 ELSE 0)
    BY <1>1, <1>6, CountTail
  <2> QED
    BY <1>3, <1>4, <1>6, <2>1, <2>2
<1>7. ASSUME ready' = ready \o Aborted
      PROVE  Cardinality(Queued(w))' = Cardinality(Queued(w)) + Cardinality(Waiting(w))
  <2>1. /\ Aborted \in Seq(Handlers) /\ DOMAIN Aborted = 1..(pendingReads + Len(pendingWrites))
        /\ pendingReads \in Nat /\ Len(pendingWrites) \in Nat
        /\ pendingWrites \in Seq(1..MaxWrites)
    BY AbortedHandlers, LenProperties DEF TypeOK, HandlersOK
  <2>2. \A i \in 1..pendingReads : Aborted[i] \notin T
    <3>1. ReadDone(FALSE, 0) \notin T
      BY DEF ReadDone, T, WriteHandlers
    <3> QED
      BY <3>1, AbortedOrder
  <2>3. \A i \in 1..Len(pendingWrites) :
          Aborted[i + pendingReads] \in T <=> pendingWrites[i] = w
    <3>1. \A v \in 1..MaxWrites : WriteDone(v, FALSE, 0) \in T <=> v = w
      BY DEF WriteDone, T, WriteHandlers, Handlers
    <3>2. \A i \in 1..Len(pendingWrites) : pendingWrites[i] \in 1..MaxWrites
      BY <2>1, ElementOfSeq
    <3> QED
      BY <3>1, <3>2, AbortedOrder
  <2>4. \A i \in 1..(pendingReads + Len(pendingWrites)) :
          i \in 1..pendingReads
          \/ (i - pendingReads \in 1..Len(pendingWrites) /\ (i - pendingReads) + pendingReads = i)
    BY <2>1
  <2>5. \A i \in 1..Len(pendingWrites) : i + pendingReads \in 1..(pendingReads + Len(pendingWrites))
    BY <2>1
  <2>6. DOMAIN pendingWrites = 1..Len(pendingWrites)
    BY <2>1, LenProperties
  <2>7. Places(Aborted, T) = {i + pendingReads : i \in Waiting(w)}
    <3>1. ASSUME NEW i \in Places(Aborted, T)
          PROVE  i \in {j + pendingReads : j \in Waiting(w)}
      <4>1. i \in 1..(pendingReads + Len(pendingWrites)) /\ Aborted[i] \in T
        BY <2>1 DEF Places
      <4>2. i - pendingReads \in 1..Len(pendingWrites) /\ (i - pendingReads) + pendingReads = i
        BY <2>2, <2>4, <4>1
      <4>3. pendingWrites[i - pendingReads] = w
        BY <2>3, <4>1, <4>2
      <4>4. i - pendingReads \in Waiting(w)
        BY <2>6, <4>2, <4>3 DEF Waiting
      <4> QED
        BY <4>2, <4>4
    <3>2. ASSUME NEW j \in Waiting(w)
          PROVE  j + pendingReads \in Places(Aborted, T)
      <4>1. j \in 1..Len(pendingWrites) /\ pendingWrites[j] = w
        BY <2>6 DEF Waiting
      <4> QED
        BY <2>1, <2>3, <2>5, <4>1 DEF Places
    <3> QED
      BY <3>1, <3>2
  <2>8. Waiting(w) \subseteq Int /\ IsFiniteSet(Waiting(w))
    <3>1. Waiting(w) \subseteq 1..Len(pendingWrites) /\ IsFiniteSet(1..Len(pendingWrites))
      BY <2>1, <2>6, FS_Interval DEF Waiting
    <3> QED
      BY <2>1, <3>1, FS_Subset
  <2>9. Cardinality({i + pendingReads : i \in Waiting(w)}) = Cardinality(Waiting(w))
    <3>1. ASSUME NEW A, A = Waiting(w)
          PROVE  Cardinality({i + pendingReads : i \in A}) = Cardinality(A)
      <4>1. IsFiniteSet(A) /\ A \subseteq Int /\ pendingReads \in Int
        BY <2>1, <2>8, <3>1
      <4> QED
        BY <4>1, ShiftedSet
    <3> QED
      BY <3>1
  <2>10. Cardinality(Places(ready \o Aborted, T))
           = Cardinality(Places(ready, T)) + Cardinality(Places(Aborted, T))
    BY <1>1, <2>1, CountConcat
  <2> QED
    BY <1>3, <1>7, <2>7, <2>9, <2>10
<1>8. ASSUME NEW h \in Handlers, ready' = Append(ready, h)
      PROVE  Cardinality(Queued(w))' = Cardinality(Queued(w))
               + (IF h.kind # "read" /\ h.write = w THEN 1 ELSE 0)
  <2>1. Cardinality(Places(Append(ready, h), T))
          = Cardinality(Places(ready, T)) + (IF h \in T THEN 1 ELSE 0)
    BY <1>1, CountAppend
  <2> QED
    BY <1>3, <1>4, <1>8, <2>1
<1> QED
  BY <1>3, <1>5, <1>6, <1>7, <1>8

LEMMA WaitingSteps ==
    ASSUME TypeOK, TypeOK', NEW w
    PROVE  /\ Cardinality(Waiting(w)) \in Nat /\ Cardinality(Waiting(w))' \in Nat
           /\ UNCHANGED pendingWrites => Cardinality(Waiting(w))' = Cardinality(Waiting(w))
           /\ pendingWrites' = <<>> => Cardinality(Waiting(w))' = 0
           /\ pendingWrites # <<>> /\ pendingWrites' = Tail(pendingWrites) =>
                Cardinality(Waiting(w))' = Cardinality(Waiting(w))
                  - (IF Head(pendingWrites) = w THEN 1 ELSE 0)
           /\ \A v \in 1..MaxWrites : pendingWrites' = Append(pendingWrites, v) =>
                Cardinality(Waiting(w))' = Cardinality(Waiting(w)) + (IF v = w THEN 1 ELSE 0)
<1> DEFINE S == 1..MaxWrites
<1>1. pendingWrites \in Seq(S) /\ pendingWrites' \in Seq(S)
  BY DEF TypeOK, HandlersOK
<1>2. Waiting(w) = Places(pendingWrites, {w}) /\ Waiting(w)' = Places(pendingWrites', {w})
  BY DEF Waiting, Places
<1> HIDE DEF S
<1>3. Cardinality(Waiting(w)) \in Nat /\ Cardinality(Waiting(w))' \in Nat
  BY <1>1, <1>2, PlacesFinite
<1>4. ASSUME pendingWrites' = <<>> PROVE Cardinality(Waiting(w))' = 0
  <2>1. Waiting(w)' = {}
    BY <1>4 DEF Waiting
  <2> QED
    BY <2>1, FS_EmptySet
<1>5. ASSUME pendingWrites # <<>>, pendingWrites' = Tail(pendingWrites)
      PROVE  Cardinality(Waiting(w))' = Cardinality(Waiting(w))
               - (IF Head(pendingWrites) = w THEN 1 ELSE 0)
  <2>1. Cardinality(Places(Tail(pendingWrites), {w}))
          = Cardinality(Places(pendingWrites, {w})) - (IF Head(pendingWrites) \in {w} THEN 1 ELSE 0)
    BY <1>1, <1>5, CountTail
  <2> QED
    BY <1>2, <1>5, <2>1
<1>6. ASSUME NEW v \in S, pendingWrites' = Append(pendingWrites, v)
      PROVE  Cardinality(Waiting(w))' = Cardinality(Waiting(w)) + (IF v = w THEN 1 ELSE 0)
  <2>1. Cardinality(Places(Append(pendingWrites, v), {w}))
          = Cardinality(Places(pendingWrites, {w})) + (IF v \in {w} THEN 1 ELSE 0)
    BY <1>1, CountAppend
  <2> QED
    BY <1>2, <1>6, <2>1
<1> QED
  BY <1>2, <1>3, <1>4, <1>5, <1>6 DEF S

\* The threads that have counted a write and not posted it.
LEMMA CountingIs ==
    ASSUME NEW w
    PROVE  /\ Cardinality(Counting(w)) = (IF posting["user"] = w THEN 1 ELSE 0)
                                         + (IF posting["worker"] = w THEN 1 ELSE 0)
           /\ Cardinality(Counting(w))' = (IF posting'["user"] = w THEN 1 ELSE 0)
                                          + (IF posting'["worker"] = w THEN 1 ELSE 0)
<1>1. ASSUME NEW p
      PROVE  Cardinality({t \in Threads : p[t] = w})
               = (IF p["user"] = w THEN 1 ELSE 0) + (IF p["worker"] = w THEN 1 ELSE 0)
  <2> DEFINE C == {t \in Threads : p[t] = w}
  <2>1. "user" # "worker" /\ Cardinality({}) = 0 /\ Cardinality({"user"}) = 1
        /\ Cardinality({"worker"}) = 1 /\ IsFiniteSet({"user"})
    BY FS_EmptySet, FS_Singleton
  <2>2. Cardinality({"user"} \cup {"worker"}) = 2
    <3>1. "worker" \notin {"user"}
      OBVIOUS
    <3>2. Cardinality({"user"} \cup {"worker"}) = Cardinality({"user"}) + 1
      BY <2>1, <3>1, FS_AddElement
    <3> QED
      BY <2>1, <3>2
  <2>3. CASE p["user"] = w /\ p["worker"] = w
    <3>1. C = {"user"} \cup {"worker"}
      BY <2>3 DEF Threads
    <3> QED
      BY <2>2, <2>3, <3>1
  <2>4. CASE p["user"] = w /\ p["worker"] # w
    <3>1. C = {"user"}
      BY <2>4 DEF Threads
    <3> QED
      BY <2>1, <2>4, <3>1
  <2>5. CASE p["user"] # w /\ p["worker"] = w
    <3>1. C = {"worker"}
      BY <2>5 DEF Threads
    <3> QED
      BY <2>1, <2>5, <3>1
  <2>6. CASE p["user"] # w /\ p["worker"] # w
    <3>1. C = {}
      BY <2>6 DEF Threads
    <3> QED
      BY <2>1, <2>6, <3>1
  <2> QED
    BY <2>3, <2>4, <2>5, <2>6
<1> QED
  BY <1>1 DEF Counting

\* Nothing refers to a write that has not been made.
LEMMA NoneBeyond ==
    ASSUME TypeOK, References, NEW w \in Nat, w > Len(wsize)
    PROVE  /\ Cardinality(Queued(w)) = 0 /\ Cardinality(Waiting(w)) = 0
           /\ posting["user"] # w /\ posting["worker"] # w /\ starting # w
<1>1. /\ Len(wsize) \in Nat /\ DOMAIN ready = 1..Len(ready)
      /\ DOMAIN pendingWrites = 1..Len(pendingWrites)
  BY LenProperties DEF TypeOK, RequestsOK, HandlersOK
<1>2. w \notin 1..Len(wsize) /\ \A v \in 0..MaxWrites : v <= Len(wsize) => v # w
  BY <1>1
<1>3. Queued(w) = {}
  BY <1>1, <1>2 DEF Queued, References, ReadyRefers, HandlerRefers
<1>4. Waiting(w) = {}
  BY <1>1, <1>2 DEF Waiting, References, PendingRefers
<1>5. posting["user"] # w /\ posting["worker"] # w /\ starting # w
  BY <1>2 DEF References, ThreadsRefer, TypeOK, ThreadsOK, Threads
<1> QED
  BY <1>3, <1>4, <1>5, FS_EmptySet

\* async_write goes on with the write, or settles it.
LEMMA PieceOutcome ==
    ASSUME TypeOK, NEW v \in DOMAIN wresult, NEW ok \in BOOLEAN, PieceWritten(v, ok)
    PROVE  /\ DOMAIN wresult' = DOMAIN wresult
           /\ \A w \in DOMAIN wresult : w # v => wresult'[w] = wresult[w]
           /\ \/ starting' = v /\ UNCHANGED <<wresult, bytesToWrite>>
              \/ /\ starting' = starting /\ wresult'[v] \in {"written", "failed"}
                 /\ wresult'[v] = "written" => ~(wsent'[v] < wsize[v])
                 /\ bytesToWrite' = bytesToWrite - wsize[v]
<1>1. CASE Unfinished(v, ok)
  BY <1>1 DEF PieceWritten
<1>2. CASE ~Unfinished(v, ok)
  <2>1. /\ wresult' = [wresult EXCEPT ![v] = IF ok THEN "written" ELSE "failed"]
        /\ starting' = starting /\ bytesToWrite' = bytesToWrite - wsize[v]
    BY <1>2 DEF PieceWritten, SettledBytes
  <2>2. ok => ~(wsent'[v] < wsize[v])
    BY <1>2 DEF Unfinished
  <2> QED
    BY <2>1, <2>2
<1> QED
  BY <1>1, <1>2

\* A counted write is posted, started and completed once: it moves on.
LEMMA NoLostWriteStep ==
    ASSUME CoreInv, NoLostWrite, [Next]_vars, CoreInv'
    PROVE  NoLostWrite'
<1> USE DEF memberVars, portVars, threadVars, deviceVars, requestVars, sessionVars, historyVars
<1>1. /\ TypeOK /\ References /\ Control /\ TypeOK'
      /\ posting \in [Threads -> 0..MaxWrites] /\ Threads = {"user", "worker"}
      /\ wresult \in Seq({"open", "written", "failed"}) /\ wsize \in Seq(1..MaxSize)
      /\ Len(wresult) = Len(wsize) /\ DOMAIN wresult = 1..Len(wsize) /\ Len(wsize) \in Nat
  BY LenProperties DEF CoreInv, TypeOK, ThreadsOK, RequestsOK, Threads
<1>2. SUFFICES ASSUME NEW w \in DOMAIN wresult'
               PROVE  Carriers(w)' = IF wresult'[w] = "open" THEN 1 ELSE 0
  BY DEF NoLostWrite, OpenWrites
<1> DEFINE q == Cardinality(Queued(w))
           p == Cardinality(Waiting(w))
           u == IF posting["user"] = w THEN 1 ELSE 0
           k == IF posting["worker"] = w THEN 1 ELSE 0
           s == IF starting = w THEN 1 ELSE 0
<1>3. Carriers(w) = q + p + (u + k) + s /\ Carriers(w)' = q' + p' + (u' + k') + s'
  BY CountingIs DEF Carriers
<1>4. w \in DOMAIN wresult => q + p + (u + k) + s = IF wresult[w] = "open" THEN 1 ELSE 0
  BY <1>3 DEF NoLostWrite, OpenWrites
<1>5. /\ q \in Nat /\ q' \in Nat
      /\ UNCHANGED ready => q' = q
      /\ ready # <<>> /\ ready' = Tail(ready) =>
           q' = q - (IF Head(ready).kind # "read" /\ Head(ready).write = w THEN 1 ELSE 0)
      /\ ready' = ready \o Aborted => q' = q + p
      /\ \A h \in Handlers : ready' = Append(ready, h) =>
           q' = q + (IF h.kind # "read" /\ h.write = w THEN 1 ELSE 0)
  BY <1>1, QueuedSteps
<1>6. /\ p \in Nat /\ p' \in Nat
      /\ UNCHANGED pendingWrites => p' = p
      /\ pendingWrites' = <<>> => p' = 0
      /\ pendingWrites # <<>> /\ pendingWrites' = Tail(pendingWrites) =>
           p' = p - (IF Head(pendingWrites) = w THEN 1 ELSE 0)
      /\ \A v \in 1..MaxWrites : pendingWrites' = Append(pendingWrites, v) =>
           p' = p + (IF v = w THEN 1 ELSE 0)
  BY <1>1, WaitingSteps
<1>7. UNCHANGED posting => u' = u /\ k' = k
  OBVIOUS
<1>8. UNCHANGED starting => s' = s
  OBVIOUS
<1>9. w \in Nat \ {0}
  <2>1. wresult' \in Seq({"open", "written", "failed"})
    BY <1>1 DEF TypeOK, RequestsOK
  <2>2. DOMAIN wresult' = 1..Len(wresult') /\ Len(wresult') \in Nat
    BY <2>1, LenProperties
  <2> QED
    BY <2>2
<1>10. worker # "writeSome" => starting = 0 /\ s = 0
  BY <1>1, <1>9 DEF References, ThreadsRefer
<1>23. q \in Nat /\ q' \in Nat /\ p \in Nat /\ p' \in Nat
  BY <1>5, <1>6
<1> DEFINE Goal == Carriers(w)' = IF wresult'[w] = "open" THEN 1 ELSE 0
<1>11. ASSUME UNCHANGED <<wresult, posting, starting>>, q' = q, p' = p
       PROVE  Goal
  BY <1>2, <1>3, <1>4, <1>7, <1>8, <1>11
<1>12. CASE OpenCall \/ OpenFails \/ OpenSucceeds \/ OpenCheckRunning \/ CloseCall
            \/ CloseClearRunning \/ CloseResetWork \/ CloseStop \/ WriteNotOpen \/ ClearInput
            \/ ClearError \/ (\E t \in Threads : ReadCall(t)) \/ WorkerCheckRunning
            \/ CallbackReturns \/ ReactorRead \/ WorkerExits \/ Device \/ UNCHANGED vars
  <2>1. UNCHANGED <<wresult, posting, starting, ready, pendingWrites>>
    BY <1>12 DEF OpenCall, OpenFails, OpenSucceeds, OpenCheckRunning, CloseCall,
         CloseClearRunning, CloseResetWork, CloseStop, WriteNotOpen, ClearInput, ClearError,
         ReadCall, WorkerCheckRunning, CallbackReturns, ReactorRead, WorkerExits, Device,
         DeviceSends, DeviceUnplugged, vars
  <2> QED
    BY <1>5, <1>6, <1>11, <2>1
<1>13. CASE CloseCancel \/ CloseJoin
  <2>1. /\ UNCHANGED <<wresult, posting, starting>>
        /\ ready' = ready \o Aborted /\ pendingWrites' = <<>>
    BY <1>13 DEF CloseCancel, CloseJoin
  <2>2. q' = q + p /\ p' = 0
    BY <1>5, <1>6, <2>1
  <2>3. s \in Nat /\ u \in Nat /\ k \in Nat
    OBVIOUS
  <2> QED
    BY <1>2, <1>3, <1>4, <1>5, <1>6, <1>7, <1>8, <2>1, <2>2, <2>3
<1>14. CASE OpenAsyncRead \/ WorkerAsyncRead
  <2>1. UNCHANGED <<wresult, posting, starting, pendingWrites>> /\ AsyncReadSome
    BY <1>14 DEF OpenAsyncRead, WorkerAsyncRead
  <2>2. q' = q
    BY <1>1, <1>5, <2>1, ReadHandlersStep
  <2> QED
    BY <1>6, <1>11, <2>1, <2>2
<1>15. ASSUME NEW t \in Threads, WriteCount(t)
       PROVE  Goal
  <2> DEFINE n == Len(wsize) + 1
  <2>1. /\ wresult' = Append(wresult, "open") /\ UNCHANGED <<ready, pendingWrites, starting>>
        /\ posting' = [posting EXCEPT ![t] = n] /\ posting[t] = 0
    BY <1>15 DEF WriteCount, CanCall, UserIdle, Threads
  <2>2. /\ n \in Nat /\ n > Len(wsize)
        /\ DOMAIN wresult' = 1..n /\ wresult'[n] = "open"
        /\ \A i \in 1..Len(wsize) : wresult'[i] = wresult[i]
    BY <1>1, <2>1, Appended
  <2>3. q' = q /\ p' = p /\ s' = s
    BY <1>5, <1>6, <1>8, <2>1
  <2>4. CASE w = n
    <3>1. q = 0 /\ p = 0 /\ s = 0 /\ posting["user"] # n /\ posting["worker"] # n
      BY <1>1, <2>2, <2>4, NoneBeyond
    <3>2. u' + k' = 1
      BY <1>1, <2>1, <2>4, <3>1
    <3> QED
      BY <1>3, <2>2, <2>3, <2>4, <3>1, <3>2
  <2>5. CASE w # n
    <3>1. w \in DOMAIN wresult /\ wresult'[w] = wresult[w]
      BY <1>1, <1>2, <2>2, <2>5
    <3>2. u' = u /\ k' = k
      BY <1>1, <1>9, <2>1, <2>5
    <3> QED
      BY <1>3, <1>4, <2>3, <3>1, <3>2
  <2> QED
    BY <2>4, <2>5
<1>16. ASSUME NEW t \in Threads, WritePost(t)
       PROVE  Goal
  <2>1. /\ UNCHANGED <<wresult, pendingWrites, starting>>
        /\ posting' = [posting EXCEPT ![t] = 0]
    BY <1>16 DEF WritePost
  <2>2. q' = q + (IF posting[t] = w THEN 1 ELSE 0)
    BY <1>1, <1>5, <1>16, PostedHandlers
  <2>3. u' + k' = (u + k) - (IF posting[t] = w THEN 1 ELSE 0)
    BY <1>1, <1>9, <2>1
  <2>4. p' = p /\ s' = s /\ u \in Nat /\ k \in Nat
    BY <1>6, <1>8, <2>1
  <2>5. u' \in Nat /\ k' \in Nat /\ s \in Nat
    OBVIOUS
  <2> QED
    BY <1>2, <1>3, <1>4, <1>5, <1>6, <2>1, <2>2, <2>3, <2>4, <2>5
<1>17. CASE RunPosted
  <2>1. /\ UNCHANGED <<wresult, pendingWrites, posting>> /\ worker = "run"
        /\ ready # <<>> /\ ready' = Tail(ready) /\ Head(ready).kind # "read"
        /\ starting' = Head(ready).write
    BY <1>17 DEF RunPosted, Running
  <2>2. q' = q - (IF Head(ready).write = w THEN 1 ELSE 0)
    BY <1>5, <2>1
  <2>3. s' = (IF Head(ready).write = w THEN 1 ELSE 0) /\ s = 0
    BY <1>10, <2>1
  <2>4. p' = p /\ u' = u /\ k' = k /\ u \in Nat /\ k \in Nat
    BY <1>6, <1>7, <2>1
  <2> QED
    BY <1>2, <1>3, <1>4, <1>5, <1>6, <2>1, <2>2, <2>3, <2>4
<1>18. CASE RunReadDone
  <2>1. /\ UNCHANGED <<wresult, pendingWrites, posting, starting>>
        /\ ready # <<>> /\ ready' = Tail(ready) /\ Head(ready).kind = "read"
    BY <1>18 DEF RunReadDone
  <2>2. q' = q
    BY <1>5, <2>1
  <2> QED
    BY <1>6, <1>11, <2>1, <2>2
<1>24. u \in Nat /\ k \in Nat /\ s \in Nat /\ u' \in Nat /\ k' \in Nat /\ s' \in Nat
  OBVIOUS
\* The handler of write v runs: it is counted once less, and starts the next
\* piece or settles the write.
<1>19. ASSUME NEW v \in DOMAIN wresult, NEW ok \in BOOLEAN, PieceWritten(v, ok),
              worker = "run", UNCHANGED posting,
              q' + p' = (q + p) - (IF v = w THEN 1 ELSE 0)
       PROVE  Goal
  <2>1. /\ DOMAIN wresult' = DOMAIN wresult
        /\ \A x \in DOMAIN wresult : x # v => wresult'[x] = wresult[x]
        /\ \/ starting' = v /\ UNCHANGED wresult
           \/ starting' = starting /\ wresult'[v] \in {"written", "failed"}
    BY <1>1, <1>19, PieceOutcome
  <2>2. s = 0 /\ starting = 0 /\ u' = u /\ k' = k /\ u \in Nat /\ k \in Nat
    BY <1>7, <1>10, <1>19, <1>24
  <2>3. q + p + (u + k) = IF wresult[w] = "open" THEN 1 ELSE 0
    BY <1>2, <1>4, <1>5, <1>6, <2>1, <2>2
  <2>4. ASSUME starting' = v, UNCHANGED wresult
        PROVE  Goal
    <3>1. s' = (IF v = w THEN 1 ELSE 0)
      BY <2>4
    <3>2. wresult' = wresult /\ q' + p' = (q + p) - s'
      BY <1>19, <2>4, <3>1
    <3>3. q' + p' + (u + k) + s' = IF wresult[w] = "open" THEN 1 ELSE 0
      BY <1>23, <1>24, <2>2, <2>3, <3>2
    <3>4. Carriers(w)' = q' + p' + (u + k) + s'
      BY <1>3, <2>2
    <3> QED
      BY <3>2, <3>3, <3>4
  <2>5. ASSUME starting' = starting, wresult'[v] \in {"written", "failed"}
        PROVE  Goal
    <3>1. s' = 0
      BY <1>9, <2>2, <2>5
    <3>2. CASE v = w
      <4>1. q' + p' = (q + p) - 1 /\ (q + p) + (u + k) <= 1
        BY <1>19, <2>3, <3>2
      <4>2. q' + p' + (u + k) = 0
        BY <1>23, <2>2, <4>1
      <4>3. Carriers(w)' = 0
        BY <1>3, <1>23, <2>2, <3>1, <4>2
      <4> QED
        BY <2>5, <3>2, <4>3
    <3>3. CASE v # w
      <4>1. wresult'[w] = wresult[w]
        BY <1>2, <2>1, <3>3
      <4>2. q' + p' = q + p
        BY <1>19, <1>23, <3>3
      <4>3. Carriers(w)' = (q + p) + (u + k)
        BY <1>3, <1>23, <2>2, <3>1, <4>2
      <4> QED
        BY <2>3, <4>1, <4>3
    <3> QED
      BY <3>2, <3>3
  <2> QED
    BY <2>1, <2>4, <2>5
<1>20. CASE RunWriteDone
  <2>1. /\ UNCHANGED <<pendingWrites, posting>> /\ worker = "run"
        /\ ready # <<>> /\ ready' = Tail(ready) /\ Head(ready).kind # "read"
        /\ PieceWritten(Head(ready).write, Head(ready).ok)
    BY <1>20 DEF RunWriteDone, Running
  <2>2. Head(ready).write \in DOMAIN wresult /\ Head(ready).ok \in BOOLEAN
    <3>1. Head(ready) \in Handlers /\ HandlerRefers(Head(ready))
      BY <1>1, <2>1, HeadRefers
    <3>2. Head(ready).write \in 1..Len(wsize)
      BY <2>1, <3>1 DEF HandlerRefers
    <3> QED
      BY <1>1, <3>1, <3>2 DEF Handlers
  <2>3. q' = q - (IF Head(ready).write = w THEN 1 ELSE 0) /\ p' = p
    BY <1>5, <1>6, <2>1
  <2>4. q' + p' = (q + p) - (IF Head(ready).write = w THEN 1 ELSE 0)
    BY <1>5, <1>6, <2>3
  <2> QED
    BY <1>19, <2>1, <2>2, <2>4
<1>21. CASE ReactorWrite
  <2>1. /\ UNCHANGED <<ready, posting>> /\ worker = "run"
        /\ pendingWrites # <<>> /\ pendingWrites' = Tail(pendingWrites)
        /\ \E ok \in BOOLEAN : PieceWritten(Head(pendingWrites), ok)
    BY <1>21 DEF ReactorWrite, Running
  <2>2. Head(pendingWrites) \in DOMAIN wresult
    BY <1>1, <2>1, HeadPending
  <2>3. p' = p - (IF Head(pendingWrites) = w THEN 1 ELSE 0) /\ q' = q
    BY <1>5, <1>6, <2>1
  <2>4. q' + p' = (q + p) - (IF Head(pendingWrites) = w THEN 1 ELSE 0)
    BY <1>5, <1>6, <2>3
  <2> QED
    BY <1>19, <2>1, <2>2, <2>4
<1>22. CASE WorkerWriteSome
  <2>1. UNCHANGED <<wresult, posting>> /\ starting' = 0
    BY <1>22 DEF WorkerWriteSome
  <2>2. s' = 0 /\ s = (IF starting = w THEN 1 ELSE 0) /\ u' = u /\ k' = k
    BY <1>7, <1>9, <2>1
  <2>3. q' + p' = (q + p) + s
    <3>1. \/ UNCHANGED pendingWrites
             /\ \E h \in Handlers : h.kind = "write" /\ h.write = starting
                                    /\ ready' = Append(ready, h)
          \/ UNCHANGED ready /\ pendingWrites' = Append(pendingWrites, starting)
      BY <1>1, <1>22, WriteSomeHandlers
    <3>2. starting \in 1..MaxWrites
      BY <1>1, <1>22, WriteSomeHandlers
    <3>3. (q' = q + s /\ p' = p) \/ (q' = q /\ p' = p + s)
      BY <1>5, <1>6, <3>1, <3>2
    <3>4. ASSUME q' = q + s, p' = p PROVE q' + p' = (q + p) + s
      BY <1>5, <1>6, <3>4
    <3>5. ASSUME q' = q, p' = p + s PROVE q' + p' = (q + p) + s
      BY <1>5, <1>6, <3>5
    <3> QED
      BY <3>3, <3>4, <3>5
  <2>4. w \in DOMAIN wresult /\ wresult'[w] = wresult[w] 
    BY <1>2, <2>1
  <2>5. Carriers(w)' = (q + p) + s + (u + k)
    BY <1>3, <1>23, <1>24, <2>2, <2>3
  <2> QED
    BY <1>4, <1>23, <1>24, <2>4, <2>5
<1> QED
  BY <1>12, <1>13, <1>14, <1>15, <1>16, <1>17, <1>18, <1>20, <1>21, <1>22
     DEF Next, Open, CloseSteps, Calls, Worker

-----------------------------------------------------------------------------
(***************************************************************************)
(* What a step does to the requests: it makes one, takes one further, or    *)
(* lets them rest.                                                          *)
(***************************************************************************)
Counted(size) ==
    /\ wsize' = Append(wsize, size) /\ wsent' = Append(wsent, 0)
    /\ wresult' = Append(wresult, "open")
    /\ bytesToWrite' = bytesToWrite + size /\ paced' = (paced /\ bytesToWrite = 0)
    /\ UNCHANGED <<wire, clean, writeBase>>

Settles(v) ==
    /\ bytesToWrite' = bytesToWrite - wsize[v]
    /\ DOMAIN wresult' = DOMAIN wresult
    /\ wresult'[v] \in {"written", "failed"}
    /\ \A w \in DOMAIN wresult : w # v => wresult'[w] = wresult[w]
    /\ wresult'[v] = "written" => ~(wsent'[v] < wsize[v])

GoesOn(v) ==
    /\ v \in OpenWrites /\ UNCHANGED <<wsize, paced, clean, writeBase>>
    /\ UNCHANGED <<wsent, wire>> \/ \E n \in 1..(wsize[v] - wsent[v]) : KernelTakes(v, n)
    /\ UNCHANGED <<wresult, bytesToWrite>> \/ Settles(v)

Rests ==
    /\ UNCHANGED <<wsize, wsent, wresult, wire, paced>>
    /\ clean' => clean
    /\ UNCHANGED bytesToWrite \/ (bytesToWrite' = 0 /\ (clean' => OpenWrites = {}))
    /\ UNCHANGED writeBase \/ (writeBase' = Len(wsize) /\ (clean => OpenWrites = {}))

\* A write that is being started, that waits or whose handler is queued has no
\* outcome yet.
LEMMA CarriedIsOpen ==
    ASSUME TypeOK, TypeOK', References, NoLostWrite, NEW v \in DOMAIN wresult,
           \/ starting = v
           \/ pendingWrites # <<>> /\ Head(pendingWrites) = v
           \/ ready # <<>> /\ Head(ready).kind # "read" /\ Head(ready).write = v
    PROVE  v \in OpenWrites
<1> DEFINE q == Cardinality(Queued(v))
           p == Cardinality(Waiting(v))
<1>1. q \in Nat /\ p \in Nat
  BY QueuedSteps, WaitingSteps
<1>2. Carriers(v) = q + p + ((IF posting["user"] = v THEN 1 ELSE 0)
                    + (IF posting["worker"] = v THEN 1 ELSE 0)) + (IF starting = v THEN 1 ELSE 0)
  BY CountingIs DEF Carriers
<1>3. pendingWrites # <<>> /\ Head(pendingWrites) = v => p # 0
  <2>1. SUFFICES ASSUME pendingWrites # <<>>, Head(pendingWrites) = v PROVE p # 0
    OBVIOUS
  <2>2. pendingWrites \in Seq(1..MaxWrites)
    BY DEF TypeOK, HandlersOK
  <2>3. 1 \in 1..Len(pendingWrites) /\ pendingWrites[1] = v
    BY <2>1, <2>2, TailElements, LenProperties
  <2>4. Waiting(v) = Places(pendingWrites, {v})
    BY DEF Waiting, Places
  <2>5. p = 0 <=> \A i \in 1..Len(pendingWrites) : pendingWrites[i] \notin {v}
    BY <2>2, <2>4, PlacesFinite
  <2> QED
    BY <2>3, <2>5
<1>4. ready # <<>> /\ Head(ready).kind # "read" /\ Head(ready).write = v => q # 0
  <2>1. SUFFICES ASSUME ready # <<>>, Head(ready).kind # "read", Head(ready).write = v
                 PROVE  q # 0
    OBVIOUS
  <2>2. ready \in Seq(Handlers)
    BY DEF TypeOK, HandlersOK
  <2>3. 1 \in DOMAIN ready /\ ready[1] = Head(ready)
    BY <2>1, <2>2, TailElements
  <2>4. 1 \in Queued(v)
    BY <2>1, <2>3 DEF Queued
  <2>5. IsFiniteSet(Queued(v))
    <3>1. Queued(v) \subseteq 1..Len(ready) /\ Len(ready) \in Nat
      BY <2>2, LenProperties DEF Queued
    <3>2. IsFiniteSet(1..Len(ready))
      BY <3>1, FS_Interval
    <3> QED
      BY <3>1, <3>2, FS_Subset
  <2> QED
    BY <2>4, <2>5, FS_EmptySet
<1>5. Carriers(v) # 0
  BY <1>1, <1>2, <1>3, <1>4
<1> QED
  BY <1>5 DEF NoLostWrite

\* With nothing queued, pending, counted or being started every write is settled.
LEMMA NothingCarried ==
    ASSUME TypeOK, NoLostWrite, ready = <<>>, pendingWrites = <<>>, starting = 0,
           posting["user"] = 0, posting["worker"] = 0
    PROVE  OpenWrites = {}
<1>1. SUFFICES ASSUME NEW w \in OpenWrites PROVE FALSE
  OBVIOUS
<1>2. w \in DOMAIN wresult /\ w # 0
  <2>1. wresult \in Seq({"open", "written", "failed"})
    BY DEF TypeOK, RequestsOK
  <2> QED
    BY <2>1, LenProperties DEF OpenWrites
<1>3. Queued(w) = {} /\ Waiting(w) = {}
  BY DEF Queued, Waiting
<1>4. Carriers(w) = 0
  BY <1>2, <1>3, CountingIs, FS_EmptySet DEF Carriers
<1> QED
  BY <1>2, <1>4 DEF NoLostWrite

\* In a closed port of a clean history every write is settled.
LEMMA ClosedIsSettled ==
    ASSUME CoreInv, NoLostWrite, clean, ~isOpen
    PROVE  OpenWrites = {}
<1>1. /\ TypeOK /\ ready = <<>> /\ pendingWrites = <<>> /\ worker = "none"
      /\ posting["user"] = 0 /\ posting["worker"] = 0
  BY DEF CoreInv, FailureExplained, ClosedIsEmpty, Control, Callbacks
<1>2. starting = 0
  BY <1>1 DEF CoreInv, References, ThreadsRefer
<1> QED
  BY <1>1, <1>2, NothingCarried

\* The three kinds of step are all there are.
LEMMA RequestStep ==
    ASSUME CoreInv, NoLostWrite, [Next]_vars, CoreInv'
    PROVE  (\E size \in 1..MaxSize : Counted(size)) \/ (\E v \in DOMAIN wresult : GoesOn(v)) \/ Rests
<1> USE DEF memberVars, portVars, threadVars, deviceVars, requestVars, sessionVars, historyVars
<1>1. /\ TypeOK /\ References /\ Control /\ TypeOK' /\ (clean' => clean)
      /\ DOMAIN wresult = 1..Len(wsize)
  BY CleanStep, LenProperties DEF CoreInv, TypeOK, RequestsOK
<1>2. CASE OpenCall \/ OpenFails \/ OpenCheckRunning \/ OpenAsyncRead \/ CloseCall
           \/ CloseClearRunning \/ CloseCancel \/ CloseResetWork \/ CloseStop \/ WriteNotOpen
           \/ ClearInput \/ ClearError \/ (\E t \in Threads : WritePost(t) \/ ReadCall(t))
           \/ WorkerCheckRunning \/ WorkerAsyncRead \/ CallbackReturns \/ RunPosted
           \/ RunReadDone \/ ReactorRead \/ WorkerExits \/ Device \/ UNCHANGED vars
  <2>1. UNCHANGED <<wsize, wsent, wresult, wire, paced, bytesToWrite, writeBase>>
    BY <1>2 DEF OpenCall, OpenFails, OpenCheckRunning, OpenAsyncRead, CloseCall,
         CloseClearRunning, CloseCancel, CloseResetWork, CloseStop, WriteNotOpen, ClearInput,
         ClearError, WritePost, ReadCall, WorkerCheckRunning, WorkerAsyncRead, CallbackReturns,
         RunPosted, RunReadDone, ReactorRead, WorkerExits, Device, DeviceSends,
         DeviceUnplugged, vars
  <2> QED
    BY <1>1, <2>1 DEF Rests
<1>3. CASE OpenSucceeds
  <2>1. /\ UNCHANGED <<wsize, wsent, wresult, wire, paced, bytesToWrite, clean>>
        /\ writeBase' = Len(wsize) /\ ~isOpen
    BY <1>1, <1>3 DEF OpenSucceeds, Control
  <2>2. clean => OpenWrites = {}
    BY <2>1, ClosedIsSettled
  <2> QED
    BY <2>1, <2>2 DEF Rests
<1>4. CASE CloseJoin
  <2>1. /\ UNCHANGED <<wsize, wsent, wresult, wire, paced, writeBase>>
        /\ bytesToWrite' = 0 /\ ready' = ready \o Aborted /\ (clean' => ready' = <<>>)
        /\ user = "join" /\ worker \in {"none", "exited"}
    BY <1>4 DEF CloseJoin, ResetBuffers, Joined
  <2>2. ASSUME clean' PROVE OpenWrites = {}
    <3>1. ready \o Aborted = <<>>
      BY <2>1, <2>2
    <3>2. /\ ready \in Seq(Handlers) /\ Aborted \in Seq(Handlers)
          /\ Len(Aborted) = pendingReads + Len(pendingWrites)
          /\ pendingWrites \in Seq(1..MaxWrites) /\ pendingReads \in Nat
      BY <1>1, AbortedHandlers DEF TypeOK, HandlersOK
    <3>3. Len(ready \o Aborted) = Len(ready) + Len(Aborted)
      BY <3>2, ConcatProperties
    <3>4. Len(ready) \in Nat /\ Len(pendingWrites) \in Nat
      BY <3>2, LenProperties
    <3>5. Len(ready) = 0 /\ Len(pendingWrites) = 0
      BY <3>1, <3>2, <3>3, <3>4
    <3>6. ready = <<>> /\ pendingWrites = <<>>
      BY <3>2, <3>5, EmptySeq
    <3>7. posting["user"] = 0 /\ posting["worker"] = 0 /\ starting = 0
      BY <1>1, <2>1 DEF Control, Callbacks, References, ThreadsRefer
    <3> QED
      BY <1>1, <3>6, <3>7, NothingCarried
  <2> QED
    BY <1>1, <2>1, <2>2 DEF Rests
<1>5. ASSUME NEW t \in Threads, WriteCount(t)
      PROVE  \E size \in 1..MaxSize : Counted(size)
  BY <1>5 DEF WriteCount, CountedBytes, Counted
<1>6. CASE RunWriteDone
  <2> DEFINE v == Head(ready).write
  <2>1. /\ UNCHANGED <<wsize, wsent, wire, paced, clean, writeBase>>
        /\ ready # <<>> /\ Head(ready).kind # "read" /\ PieceWritten(v, Head(ready).ok)
    BY <1>6 DEF RunWriteDone
  <2>2. v \in DOMAIN wresult /\ Head(ready).ok \in BOOLEAN
    <3>1. Head(ready) \in Handlers /\ HandlerRefers(Head(ready))
      BY <1>1, <2>1, HeadRefers
    <3>2. v \in 1..Len(wsize)
      BY <2>1, <3>1 DEF HandlerRefers
    <3> QED
      BY <1>1, <3>1, <3>2 DEF Handlers
  <2>3. v \in OpenWrites
    BY <1>1, <2>1, <2>2, CarriedIsOpen
  <2>4. UNCHANGED <<wresult, bytesToWrite>> \/ Settles(v)
    BY <1>1, <2>1, <2>2, PieceOutcome DEF Settles
  <2> QED
    BY <2>1, <2>2, <2>3, <2>4 DEF GoesOn
<1>7. CASE ReactorWrite
  <2> DEFINE v == Head(pendingWrites)
  <2>1. /\ UNCHANGED <<wsize, paced, clean, writeBase>> /\ pendingWrites # <<>>
        /\ UNCHANGED <<wsent, wire>> \/ \E n \in 1..(wsize[v] - wsent[v]) : KernelTakes(v, n)
        /\ \E ok \in BOOLEAN : PieceWritten(v, ok)
    BY <1>7 DEF ReactorWrite
  <2>2. v \in DOMAIN wresult
    BY <1>1, <2>1, HeadPending
  <2>3. v \in OpenWrites
    BY <1>1, <2>1, <2>2, CarriedIsOpen
  <2>4. UNCHANGED <<wresult, bytesToWrite>> \/ Settles(v)
    BY <1>1, <2>1, <2>2, PieceOutcome DEF Settles
  <2> QED
    BY <2>1, <2>2, <2>3, <2>4 DEF GoesOn
<1>8. CASE WorkerWriteSome
  <2>1. /\ UNCHANGED <<wsize, wresult, bytesToWrite, paced, clean, writeBase>>
        /\ UNCHANGED <<wsent, wire>>
           \/ \E n \in 1..(wsize[starting] - wsent[starting]) : KernelTakes(starting, n)
    BY <1>8 DEF WorkerWriteSome
  <2>2. starting \in DOMAIN wresult
    BY <1>1, <1>8, WriteSomeHandlers
  <2>3. starting \in OpenWrites
    BY <1>1, <2>2, CarriedIsOpen
  <2> QED
    BY <2>1, <2>2, <2>3 DEF GoesOn
<1> QED
  BY <1>2, <1>3, <1>4, <1>5, <1>6, <1>7, <1>8 DEF Next, Open, CloseSteps, Calls, Worker

-----------------------------------------------------------------------------
(***************************************************************************)
(* What is on the wire.                                                     *)
(***************************************************************************)

\* The kernel takes n bytes of write v: n more of v at the end of the wire.
LEMMA WireGrows ==
    ASSUME TypeOK, NEW v \in 1..MaxWrites, NEW n \in Nat, KernelTakes(v, n)
    PROVE  /\ \A w : OnWire(w) \in Nat /\ OnWire(w)' = OnWire(w) + (IF w = v THEN n ELSE 0)
           /\ Len(wire) \in Nat /\ DOMAIN wire = 1..Len(wire)
           /\ DOMAIN wire' = 1..(Len(wire) + n)
           /\ \A i \in 1..(Len(wire) + n) :
                wire'[i] = IF i <= Len(wire) THEN wire[i] ELSE v
<1> DEFINE S == 1..MaxWrites
           new == [i \in 1..n |-> v]
<1>1. wire \in Seq(S) /\ new \in Seq(S) /\ Len(new) = n /\ \A i \in 1..n : new[i] = v
  <2>1. new \in [1..n -> S] /\ \A i \in 1..n : new[i] = v
    OBVIOUS
  <2>2. new \in Seq(S) /\ Len(new) = n
    BY <2>1, FunctionIsSequence
  <2> QED
    BY <2>1, <2>2 DEF TypeOK, RequestsOK
<1>2. wire' = wire \o new
  BY DEF KernelTakes
<1> HIDE DEF S, new
<1>3. /\ wire \o new \in Seq(S) /\ Len(wire \o new) = Len(wire) + n
      /\ DOMAIN (wire \o new) = 1..(Len(wire) + n) /\ Len(wire) \in Nat
      /\ DOMAIN wire = 1..Len(wire) /\ DOMAIN new = 1..n
      /\ \A i \in 1..Len(wire) + n :
           (wire \o new)[i] = IF i <= Len(wire) THEN wire[i] ELSE new[i - Len(wire)]
  <2>1. /\ Len(wire) \in Nat /\ DOMAIN wire = 1..Len(wire) /\ DOMAIN new = 1..n
    BY <1>1, LenProperties
  <2>2. /\ wire \o new \in Seq(S) /\ Len(wire \o new) = Len(wire) + Len(new)
        /\ \A i \in 1..Len(wire) + Len(new) :
             (wire \o new)[i] = IF i <= Len(wire) THEN wire[i] ELSE new[i - Len(wire)]
    BY <1>1, ConcatProperties
  <2>3. DOMAIN (wire \o new) = 1..Len(wire \o new)
    BY <2>2, LenProperties
  <2> QED
    BY <1>1, <2>1, <2>2, <2>3
<1>4. ASSUME NEW i \in 1..(Len(wire) + n)
      PROVE  wire'[i] = IF i <= Len(wire) THEN wire[i] ELSE v
  <2>1. CASE i <= Len(wire)
    BY <1>2, <1>3, <2>1
  <2>2. CASE ~(i <= Len(wire))
    <3>1. i - Len(wire) \in 1..n
      BY <1>3, <2>2
    <3> QED
      BY <1>1, <1>2, <1>3, <2>2, <3>1
  <2> QED
    BY <2>1, <2>2
<1>5. ASSUME NEW w
      PROVE  OnWire(w) \in Nat /\ OnWire(w)' = OnWire(w) + (IF w = v THEN n ELSE 0)
  <2>1. OnWire(w) = Cardinality(Places(wire, {w})) /\ OnWire(w)' = Cardinality(Places(wire', {w}))
    BY DEF OnWire, Places
  <2>2. Cardinality(Places(wire \o new, {w}))
          = Cardinality(Places(wire, {w})) + Cardinality(Places(new, {w}))
    BY <1>1, CountConcat
  <2>3. Places(new, {w}) = IF w = v THEN 1..n ELSE {}
    BY <1>1, <1>3 DEF Places
  <2>4. Cardinality({}) = 0 /\ Cardinality(1..n) = n
    <3>1. Cardinality(1..n) = IF 1 > n THEN 0 ELSE n - 1 + 1
      BY FS_Interval
    <3> QED
      BY <3>1, FS_EmptySet
  <2>5. Cardinality(Places(wire, {w})) \in Nat
    BY <1>1, PlacesFinite
  <2> QED
    BY <1>2, <2>1, <2>2, <2>3, <2>4, <2>5
<1> QED
  BY <1>2, <1>3, <1>4, <1>5

\* A write that has not been made is not on the wire.
LEMMA NewNotOnWire ==
    ASSUME TypeOK, WireCounts, NEW w \in Nat, w > Len(wsize)
    PROVE  OnWire(w) = 0
<1>1. wire \in Seq(1..MaxWrites) /\ DOMAIN wire = 1..Len(wire) /\ Len(wsize) \in Nat
  BY LenProperties DEF TypeOK, RequestsOK
<1>2. \A i \in DOMAIN wire : wire[i] \in Int /\ wire[i] <= Len(wsize)
  BY <1>1, ElementOfSeq DEF WireCounts
<1>3. {i \in DOMAIN wire : wire[i] = w} = {}
  BY <1>1, <1>2
<1> QED
  BY <1>3, FS_EmptySet DEF OnWire

\* What is on the wire of a write is what was counted as sent.
LEMMA WireCountsStep ==
    ASSUME CoreInv, NoLostWrite, WireCounts, [Next]_vars, CoreInv'
    PROVE  WireCounts'
<1>1. /\ TypeOK /\ TypeOK' /\ Len(wsize) \in Nat /\ wsize \in Seq(1..MaxSize)
      /\ wsent \in Seq(0..MaxSize) /\ wresult \in Seq({"open", "written", "failed"})
      /\ DOMAIN wresult = 1..Len(wsize) /\ DOMAIN wsent = 1..Len(wsize)
      /\ DOMAIN wsize = 1..Len(wsize) /\ Len(wsize) <= MaxWrites
      /\ Len(wsent) = Len(wsize) /\ Len(wresult) = Len(wsize)
  BY LenProperties DEF CoreInv, TypeOK, RequestsOK
<1>2. /\ \A w \in 1..Len(wsize) : wsize[w] \in 1..MaxSize /\ wsent[w] \in 0..MaxSize
      /\ \A i \in DOMAIN wire : wire[i] \in 1..MaxWrites
  BY <1>1, ElementOfSeq, LenProperties, SMTT(25) DEF TypeOK, RequestsOK
<1>3. ASSUME NEW size \in 1..MaxSize, Counted(size)
      PROVE  WireCounts'
  <2>0. PICK n \in Nat : n = Len(wsize) + 1
    BY <1>1
  <2>1. /\ Len(wsize') = n /\ DOMAIN wresult' = 1..n /\ wire' = wire
        /\ wsize'[n] = size /\ wsent'[n] = 0 /\ wresult'[n] = "open"
        /\ \A w \in 1..Len(wsize) :
             wsize'[w] = wsize[w] /\ wsent'[w] = wsent[w] /\ wresult'[w] = wresult[w]
    <3>1. size \in 1..MaxSize /\ 0 \in 0..MaxSize /\ "open" \in {"open", "written", "failed"}
      OBVIOUS
    <3> QED
      BY <1>1, <1>3, <2>0, <3>1, Appended DEF Counted
  <2>2. \A w : OnWire(w)' = OnWire(w)
    BY <2>1 DEF OnWire
  <2>3. OnWire(n) = 0
    BY <1>1, <2>0, NewNotOnWire
  <2>4. \A w \in 1..n : w = n \/ w \in 1..Len(wsize)
    BY <1>1, <2>0
  <2>5. \A i \in DOMAIN wire' : wire'[i] <= n
    BY <1>1, <1>2, <2>0, <2>1 DEF WireCounts
  <2>6. \A w \in 1..Len(wsize) : /\ OnWire(w)' = wsent'[w] /\ wsent'[w] <= wsize'[w]
                                 /\ wresult'[w] = "written" => wsent'[w] = wsize'[w]
    BY <1>1, <2>1, <2>2 DEF WireCounts
  <2>7. OnWire(n)' = 0 /\ 0 <= size
    BY <2>2, <2>3
  <2>9. /\ OnWire(n)' = wsent'[n] /\ wsent'[n] <= wsize'[n]
        /\ wresult'[n] # "written"
    BY <2>1, <2>7
  <2>8. \A w \in 1..n : /\ OnWire(w)' = wsent'[w] /\ wsent'[w] <= wsize'[w]
                        /\ wresult'[w] = "written" => wsent'[w] = wsize'[w]
    BY <2>4, <2>6, <2>9
  <2> QED
    BY <2>1, <2>5, <2>8 DEF WireCounts
<1>4. ASSUME NEW v \in DOMAIN wresult, GoesOn(v)
      PROVE  WireCounts'
  <2>1. v \in 1..MaxWrites /\ wsize' = wsize /\ wresult[v] = "open"
    BY <1>1, <1>4 DEF GoesOn, OpenWrites
  <2>2. /\ \A i \in DOMAIN wire' : wire'[i] <= Len(wsize)
        /\ \A w \in DOMAIN wresult : OnWire(w)' = wsent'[w] /\ wsent'[w] <= wsize[w]
        /\ \A w \in DOMAIN wresult : w # v => wsent'[w] = wsent[w]
    <3>1. CASE UNCHANGED <<wsent, wire>>
      BY <3>1 DEF WireCounts, OnWire
    <3>2. CASE \E n \in 1..(wsize[v] - wsent[v]) : KernelTakes(v, n)
      <4>1. PICK n \in 1..(wsize[v] - wsent[v]) : KernelTakes(v, n)
        BY <3>2
      <4>2. n \in Nat /\ wsent[v] + n <= wsize[v]
        <5>1. wsent[v] \in 0..MaxSize /\ wsize[v] \in 1..MaxSize /\ MaxSize \in Nat
          BY <1>1, <1>2, <1>4
        <5> QED
          BY <4>1, <5>1
      <4>3. /\ \A w : OnWire(w) \in Nat /\ OnWire(w)' = OnWire(w) + (IF w = v THEN n ELSE 0)
            /\ Len(wire) \in Nat /\ DOMAIN wire = 1..Len(wire)
            /\ DOMAIN wire' = 1..(Len(wire) + n)
            /\ \A i \in 1..(Len(wire) + n) :
                 wire'[i] = IF i <= Len(wire) THEN wire[i] ELSE v
        BY <1>1, <2>1, <4>1, <4>2, WireGrows
      <4>4. \A w \in DOMAIN wresult : wsent'[w] = IF w = v THEN wsent[v] + n ELSE wsent[w]
        BY <1>1, <4>1 DEF KernelTakes
      <4>5. \A i \in DOMAIN wire' : wire'[i] <= Len(wsize)
        BY <1>1, <1>4, <4>2, <4>3, SMTT(25) DEF WireCounts
      <4>6. \A w \in DOMAIN wresult : OnWire(w) = wsent[w] /\ wsent[w] <= wsize[w]
        BY DEF WireCounts
      <4>7. \A w \in DOMAIN wresult : w # v => OnWire(w)' = wsent'[w] /\ wsent'[w] <= wsize[w]
        BY <4>3, <4>4, <4>6
      <4>8. OnWire(v)' = wsent'[v] /\ wsent'[v] <= wsize[v]
        BY <4>2, <4>3, <4>4, <4>6
      <4> QED
        BY <4>4, <4>5, <4>7, <4>8
    <3> QED
      BY <1>4, <3>1, <3>2 DEF GoesOn
  <2>3. /\ DOMAIN wresult' = DOMAIN wresult
        /\ \A w \in DOMAIN wresult : w # v => wresult'[w] = wresult[w]
        /\ wresult'[v] = "written" => ~(wsent'[v] < wsize[v])
    BY <1>4, <2>1 DEF GoesOn, Settles
  <2>4. wsent'[v] \in Int /\ wsize[v] \in Int
    <3>1. wsent' \in Seq(0..MaxSize) /\ Len(wsent') = Len(wsize)
      BY <1>1, <2>1 DEF TypeOK, RequestsOK
    <3> QED
      BY <1>1, <1>2, <3>1, ElementOfSeq
  <2>5. wresult'[v] = "written" => wsent'[v] = wsize[v]
    BY <2>2, <2>3, <2>4
  <2>6. \A w \in DOMAIN wresult : w # v => (wresult'[w] = "written" => wsent'[w] = wsize[w])
    BY <2>2, <2>3 DEF WireCounts
  <2> QED
    BY <2>1, <2>2, <2>3, <2>5, <2>6 DEF WireCounts
<1>5. CASE Rests
  BY <1>5 DEF Rests, WireCounts, OnWire
<1> QED
  BY <1>3, <1>4, <1>5, RequestStep

-----------------------------------------------------------------------------
(***************************************************************************)
(* What bytesToWrite() counts.                                              *)
(***************************************************************************)

\* The bytes of a write, as pairs.
BytesOf(w, size) == {w} \X (1..size)

LEMMA BytesOfSize ==
    ASSUME NEW w, NEW size \in Nat
    PROVE  IsFiniteSet(BytesOf(w, size)) /\ Cardinality(BytesOf(w, size)) = size
<1>1. IsFiniteSet({w}) /\ Cardinality({w}) = 1
  BY FS_Singleton
<1>2. IsFiniteSet(1..size) /\ Cardinality(1..size) = size
  <2>1. IsFiniteSet(1..size) /\ Cardinality(1..size) = IF 1 > size THEN 0 ELSE size - 1 + 1
    BY FS_Interval
  <2> QED
    BY <2>1
<1>3. /\ IsFiniteSet({w} \X (1..size))
      /\ Cardinality({w} \X (1..size)) = Cardinality({w}) * Cardinality(1..size)
  BY <1>1, <1>2, FS_Product
<1> QED
  BY <1>1, <1>2, <1>3 DEF BytesOf

\* The writes still open are numbers of writes; what they have to send is finite.
LEMMA OpenBytesFinite ==
    ASSUME TypeOK
    PROVE  /\ OpenWrites \subseteq 1..Len(wsize) /\ IsFiniteSet(OpenBytes)
           /\ Cardinality(OpenBytes) \in Nat
           /\ Cardinality(OpenBytes) = 0 => OpenWrites = {}
<1>1. /\ Len(wsize) \in Nat /\ DOMAIN wresult = 1..Len(wsize) /\ wsize \in Seq(1..MaxSize)
  BY LenProperties DEF TypeOK, RequestsOK
<1>2. OpenWrites \subseteq 1..Len(wsize)
  BY <1>1 DEF OpenWrites
<1>3. IsFiniteSet(1..Len(wsize)) /\ IsFiniteSet(1..MaxSize)
  BY <1>1, FS_Interval
<1>4. IsFiniteSet(OpenWrites)
  BY <1>2, <1>3, FS_Subset
<1>5. IsFiniteSet(OpenWrites \X (1..MaxSize))
  BY <1>3, <1>4, FS_Product
<1>6. OpenBytes \subseteq OpenWrites \X (1..MaxSize)
  BY DEF OpenBytes
<1>7. IsFiniteSet(OpenBytes)
  BY <1>5, <1>6, FS_Subset
<1>8. ASSUME Cardinality(OpenBytes) = 0, NEW w \in OpenWrites PROVE FALSE
  <2>1. OpenBytes = {}
    BY <1>7, <1>8, FS_EmptySet
  <2>2. 1 \in 1..MaxSize /\ 1 <= wsize[w]
    <3>1. wsize[w] \in 1..MaxSize
      BY <1>1, <1>2, ElementOfSeq
    <3> QED
      BY <3>1
  <2>3. <<w, 1>> \in OpenBytes
    BY <2>2 DEF OpenBytes
  <2> QED
    BY <2>1, <2>3
<1> QED
  BY <1>2, <1>7, <1>8, FS_CardinalityType

\* A new write is open.
LEMMA CountedOpens ==
    ASSUME TypeOK, NEW size \in 1..MaxSize, Counted(size), NEW n \in Nat, n = Len(wsize) + 1
    PROVE  /\ OpenWrites' = OpenWrites \cup {n} /\ Len(wsize') = n
           /\ OpenBytes' = OpenBytes \cup BytesOf(n, size)
           /\ OpenBytes \cap BytesOf(n, size) = {}
<1>1. /\ Len(wsize) \in Nat /\ wsize \in Seq(1..MaxSize)
      /\ wresult \in Seq({"open", "written", "failed"})
      /\ DOMAIN wresult = 1..Len(wsize) /\ Len(wresult) = Len(wsize)
  BY LenProperties DEF TypeOK, RequestsOK
<1>2. /\ Len(wsize') = n /\ DOMAIN wresult' = 1..n
      /\ wsize'[n] = size /\ wresult'[n] = "open"
      /\ \A w \in 1..Len(wsize) : wsize'[w] = wsize[w] /\ wresult'[w] = wresult[w]
  BY <1>1, Appended DEF Counted
<1>3. /\ n \notin 1..Len(wsize) /\ 1..n = (1..Len(wsize)) \cup {n}
      /\ \A w \in 1..Len(wsize) : w # n
  BY <1>1
<1>4. OpenWrites' = OpenWrites \cup {n}
  BY <1>1, <1>2, <1>3 DEF OpenWrites
<1>5. OpenWrites \subseteq 1..Len(wsize)
  BY <1>1 DEF OpenWrites
<1>6. 1..size \subseteq 1..MaxSize /\ \A b \in 1..MaxSize : b <= size <=> b \in 1..size
  OBVIOUS
<1>7. ASSUME NEW w, NEW b
      PROVE  <<w, b>> \in OpenBytes' <=> <<w, b>> \in OpenBytes \cup BytesOf(n, size)
  <2>1. <<w, b>> \in OpenBytes' <=> w \in OpenWrites' /\ b \in 1..MaxSize /\ b <= wsize'[w]
    BY DEF OpenBytes
  <2>2. <<w, b>> \in OpenBytes <=> w \in OpenWrites /\ b \in 1..MaxSize /\ b <= wsize[w]
    BY DEF OpenBytes
  <2>3. <<w, b>> \in BytesOf(n, size) <=> w = n /\ b \in 1..size
    BY DEF BytesOf
  <2>4. CASE w = n
    BY <1>2, <1>3, <1>4, <1>5, <1>6, <2>1, <2>2, <2>3, <2>4
  <2>5. CASE w # n
    BY <1>2, <1>4, <1>5, <2>1, <2>2, <2>3, <2>5
  <2> QED
    BY <2>4, <2>5
<1>8. /\ \A p \in OpenBytes' : p = <<p[1], p[2]>>
      /\ \A p \in OpenBytes : p = <<p[1], p[2]>> /\ p[1] \in OpenWrites
      /\ \A p \in BytesOf(n, size) : p = <<p[1], p[2]>> /\ p[1] = n
  BY DEF OpenBytes, BytesOf
<1>9. OpenBytes' \subseteq OpenBytes \cup BytesOf(n, size)
  BY <1>7, <1>8
<1>10. OpenBytes \cup BytesOf(n, size) \subseteq OpenBytes'
  BY <1>7, <1>8
<1>11. OpenBytes \cap BytesOf(n, size) = {}
  BY <1>3, <1>5, <1>8
<1> QED
  BY <1>2, <1>4, <1>9, <1>10, <1>11

\* A settled write is not.
LEMMA SettlesCloses ==
    ASSUME TypeOK, NEW v \in OpenWrites, Settles(v), UNCHANGED wsize
    PROVE  /\ OpenWrites' = OpenWrites \ {v}
           /\ OpenBytes = OpenBytes' \cup BytesOf(v, wsize[v])
           /\ OpenBytes' \cap BytesOf(v, wsize[v]) = {}
<1>1. v \in DOMAIN wresult /\ wsize[v] \in 1..MaxSize
  <2>1. v \in DOMAIN wresult /\ wsize \in Seq(1..MaxSize) /\ DOMAIN wresult = 1..Len(wsize)
    BY LenProperties DEF OpenWrites, TypeOK, RequestsOK
  <2> QED
    BY <2>1, ElementOfSeq
<1>2. OpenWrites' = OpenWrites \ {v}
  BY <1>1 DEF OpenWrites, Settles
<1>3. \A b \in 1..MaxSize : b <= wsize[v] <=> b \in 1..wsize[v]
  BY <1>1
<1>4. 1..wsize[v] \subseteq 1..MaxSize
  BY <1>1
<1>5. ASSUME NEW w, NEW b
      PROVE  <<w, b>> \in OpenBytes <=> <<w, b>> \in OpenBytes' \cup BytesOf(v, wsize[v])
  <2>1. <<w, b>> \in OpenBytes' <=> w \in OpenWrites' /\ b \in 1..MaxSize /\ b <= wsize[w]
    BY DEF OpenBytes
  <2>2. <<w, b>> \in OpenBytes <=> w \in OpenWrites /\ b \in 1..MaxSize /\ b <= wsize[w]
    BY DEF OpenBytes
  <2>3. <<w, b>> \in BytesOf(v, wsize[v]) <=> w = v /\ b \in 1..wsize[v]
    BY DEF BytesOf
  <2> QED
    BY <1>2, <1>3, <1>4, <2>1, <2>2, <2>3
<1>6. /\ \A p \in OpenBytes' : p = <<p[1], p[2]>> /\ p[1] \in OpenWrites'
      /\ \A p \in OpenBytes : p = <<p[1], p[2]>>
      /\ \A p \in BytesOf(v, wsize[v]) : p = <<p[1], p[2]>> /\ p[1] = v
  BY DEF OpenBytes, BytesOf
<1>7. OpenBytes \subseteq OpenBytes' \cup BytesOf(v, wsize[v])
  BY <1>5, <1>6
<1>8. OpenBytes' \cup BytesOf(v, wsize[v]) \subseteq OpenBytes
  BY <1>5, <1>6
<1>9. OpenBytes' \cap BytesOf(v, wsize[v]) = {}
  BY <1>2, <1>6
<1> QED
  BY <1>2, <1>7, <1>8, <1>9

\* bytesToWrite() goes up with a write and down with its outcome.
LEMMA ByteAccountingStep ==
    ASSUME CoreInv, NoLostWrite, ByteAccounting, [Next]_vars, CoreInv'
    PROVE  ByteAccounting'
<1>1. SUFFICES ASSUME clean' PROVE bytesToWrite' = Cardinality(OpenBytes')
  BY DEF ByteAccounting
<1>2. /\ TypeOK /\ TypeOK' /\ clean /\ bytesToWrite = Cardinality(OpenBytes)
      /\ wsize \in Seq(1..MaxSize) /\ Len(wsize) \in Nat /\ DOMAIN wresult = 1..Len(wsize)
  BY <1>1, CleanStep, LenProperties DEF CoreInv, ByteAccounting, TypeOK, RequestsOK
<1>3. IsFiniteSet(OpenBytes) /\ Cardinality(OpenBytes) \in Nat
  BY <1>2, OpenBytesFinite
<1>4. ASSUME NEW size \in 1..MaxSize, Counted(size)
      PROVE  bytesToWrite' = Cardinality(OpenBytes')
  <2>1. PICK n \in Nat : n = Len(wsize) + 1
    BY <1>2
  <2>2. /\ OpenBytes' = OpenBytes \cup BytesOf(n, size)
        /\ OpenBytes \cap BytesOf(n, size) = {}
    BY <1>2, <1>4, <2>1, CountedOpens
  <2>3. size \in Nat /\ IsFiniteSet(BytesOf(n, size)) /\ Cardinality(BytesOf(n, size)) = size
    BY BytesOfSize
  <2>4. Cardinality(OpenBytes \cup BytesOf(n, size)) = Cardinality(OpenBytes)
          + Cardinality(BytesOf(n, size)) - Cardinality(OpenBytes \cap BytesOf(n, size))
    BY <1>3, <2>3, FS_Union
  <2>5. Cardinality(OpenBytes \cap BytesOf(n, size)) = 0
    BY <2>2, FS_EmptySet
  <2>6. bytesToWrite' = bytesToWrite + size
    BY <1>4 DEF Counted
  <2> QED
    BY <1>2, <1>3, <2>2, <2>3, <2>4, <2>5, <2>6
<1>5. ASSUME NEW v \in DOMAIN wresult, GoesOn(v)
      PROVE  bytesToWrite' = Cardinality(OpenBytes')
  <2>1. v \in OpenWrites /\ UNCHANGED wsize
    BY <1>5 DEF GoesOn
  <2>2. CASE UNCHANGED <<wresult, bytesToWrite>>
    BY <1>2, <2>1, <2>2 DEF OpenBytes, OpenWrites
  <2>3. CASE Settles(v)
    <3>1. PICK size \in 1..MaxSize : size = wsize[v]
      BY <1>2, ElementOfSeq
    <3>2. /\ OpenBytes = OpenBytes' \cup BytesOf(v, size)
          /\ OpenBytes' \cap BytesOf(v, size) = {}
      BY <1>2, <2>1, <2>3, <3>1, SettlesCloses
    <3>3. size \in Nat /\ IsFiniteSet(BytesOf(v, size)) /\ Cardinality(BytesOf(v, size)) = size
      BY BytesOfSize
    <3>4. OpenBytes' \subseteq OpenBytes
      BY <3>2
    <3>5. IsFiniteSet(OpenBytes') /\ Cardinality(OpenBytes') \in Nat
      BY <1>3, <3>4, FS_Subset, FS_CardinalityType
    <3>6. Cardinality(OpenBytes' \cup BytesOf(v, size)) = Cardinality(OpenBytes')
            + Cardinality(BytesOf(v, size)) - Cardinality(OpenBytes' \cap BytesOf(v, size))
      BY <3>3, <3>5, FS_Union
    <3>7. Cardinality(OpenBytes' \cap BytesOf(v, size)) = 0
      BY <3>2, FS_EmptySet
    <3>8. bytesToWrite' = bytesToWrite - size
      BY <2>3, <3>1 DEF Settles
    <3>9. Cardinality(OpenBytes) = Cardinality(OpenBytes') + size
      BY <3>2, <3>3, <3>5, <3>6, <3>7
    <3> QED
      BY <1>2, <3>3, <3>5, <3>8, <3>9
  <2> QED
    BY <1>5, <2>2, <2>3 DEF GoesOn
<1>6. CASE Rests
  <2>1. UNCHANGED OpenBytes
    BY <1>6 DEF Rests, OpenBytes, OpenWrites
  <2>2. CASE UNCHANGED bytesToWrite
    BY <1>2, <2>1, <2>2
  <2>3. CASE bytesToWrite' = 0 /\ OpenWrites = {}
    <3>1. OpenBytes = {}
      BY <2>3 DEF OpenBytes
    <3> QED
      BY <2>1, <2>3, <3>1, FS_EmptySet
  <2> QED
    BY <1>1, <1>6, <2>2, <2>3 DEF Rests
<1> QED
  BY <1>4, <1>5, <1>6, RequestStep

-----------------------------------------------------------------------------
(***************************************************************************)
(* The order of the writes.                                                 *)
(***************************************************************************)

\* A user that waits for bytesToWrite() = 0 has only its last write open.
LEMMA LastOpenStep ==
    ASSUME CoreInv, NoLostWrite, ByteAccounting, LastOpen, [Next]_vars, CoreInv'
    PROVE  LastOpen'
<1>1. SUFFICES ASSUME clean', paced' PROVE \A w \in OpenWrites' : w = Len(wsize')
  BY DEF LastOpen
<1>2. TypeOK /\ TypeOK' /\ clean /\ Len(wsize) \in Nat
  BY <1>1, CleanStep, LenProperties DEF CoreInv, TypeOK, RequestsOK
<1>3. ASSUME NEW size \in 1..MaxSize, Counted(size)
      PROVE  \A w \in OpenWrites' : w = Len(wsize')
  <2>1. PICK n \in Nat : n = Len(wsize) + 1
    BY <1>2
  <2>2. OpenWrites' = OpenWrites \cup {n} /\ Len(wsize') = n
    BY <1>2, <1>3, <2>1, CountedOpens
  <2>3. bytesToWrite = 0
    BY <1>1, <1>3 DEF Counted
  <2>4. OpenWrites = {}
    BY <1>2, <2>3, OpenBytesFinite DEF ByteAccounting
  <2> QED
    BY <2>2, <2>4
<1>4. ASSUME NEW v \in DOMAIN wresult, GoesOn(v)
      PROVE  \A w \in OpenWrites' : w = Len(wsize')
  <2>1. paced /\ UNCHANGED wsize /\ v \in OpenWrites
    BY <1>1, <1>4 DEF GoesOn
  <2>2. OpenWrites' \subseteq OpenWrites
    <3>1. CASE UNCHANGED <<wresult, bytesToWrite>>
      BY <3>1 DEF OpenWrites
    <3>2. CASE Settles(v)
      BY <1>2, <2>1, <3>2, SettlesCloses
    <3> QED
      BY <1>4, <3>1, <3>2 DEF GoesOn
  <2> QED
    BY <1>2, <2>1, <2>2 DEF LastOpen
<1>5. CASE Rests
  BY <1>1, <1>2, <1>5 DEF Rests, LastOpen, OpenWrites
<1> QED
  BY <1>3, <1>4, <1>5, RequestStep

\* So no byte of an earlier write follows one of a later.
LEMMA PacedWireOrderStep ==
    ASSUME CoreInv, NoLostWrite, WireCounts, LastOpen, PacedWireOrder, [Next]_vars, CoreInv'
    PROVE  PacedWireOrder'
<1>1. SUFFICES ASSUME clean', paced'
               PROVE  \A i, j \in DOMAIN wire' : i < j => wire'[i] <= wire'[j]
  BY DEF PacedWireOrder, WireInCallOrder
<1>2. /\ TypeOK /\ TypeOK' /\ clean /\ Len(wsize) \in Nat
      /\ wire \in Seq(1..MaxWrites) /\ Len(wsize) <= MaxWrites /\ DOMAIN wresult = 1..Len(wsize)
  BY <1>1, CleanStep, LenProperties DEF CoreInv, TypeOK, RequestsOK
<1>3. ASSUME paced, UNCHANGED wire
      PROVE  \A i, j \in DOMAIN wire' : i < j => wire'[i] <= wire'[j]
  BY <1>2, <1>3 DEF PacedWireOrder, WireInCallOrder
<1>4. ASSUME NEW size \in 1..MaxSize, Counted(size)
      PROVE  \A i, j \in DOMAIN wire' : i < j => wire'[i] <= wire'[j]
  BY <1>1, <1>3, <1>4 DEF Counted
<1>5. ASSUME NEW v \in DOMAIN wresult, GoesOn(v)
      PROVE  \A i, j \in DOMAIN wire' : i < j => wire'[i] <= wire'[j]
  <2>1. paced /\ v \in OpenWrites
    BY <1>1, <1>5 DEF GoesOn
  <2>2. v = Len(wsize)
    BY <1>2, <2>1 DEF LastOpen
  <2>3. CASE UNCHANGED <<wsent, wire>>
    BY <1>3, <2>1, <2>3
  <2>4. CASE \E n \in 1..(wsize[v] - wsent[v]) : KernelTakes(v, n)
    <3>1. PICK n \in 1..(wsize[v] - wsent[v]) : KernelTakes(v, n)
      BY <2>4
    <3>2. n \in Nat /\ v \in 1..MaxWrites
      <4>1. wsize[v] \in 1..MaxSize /\ wsent[v] \in 0..MaxSize
        BY <1>2, ElementOfSeq DEF TypeOK, RequestsOK
      <4> QED
        BY <1>2, <4>1
    <3>3. /\ Len(wire) \in Nat /\ DOMAIN wire = 1..Len(wire)
          /\ DOMAIN wire' = 1..(Len(wire) + n)
          /\ \A i \in 1..(Len(wire) + n) :
               wire'[i] = IF i <= Len(wire) THEN wire[i] ELSE v
      BY <1>2, <3>1, <3>2, WireGrows
    <3>4. /\ \A i \in 1..Len(wire) : wire[i] \in Int /\ wire[i] <= v
          /\ \A i, j \in 1..Len(wire) : i < j => wire[i] <= wire[j]
      <4>1. \A i \in 1..Len(wire) : wire[i] \in Int
        BY <1>2, ElementOfSeq
      <4> QED
        BY <1>2, <2>1, <2>2, <3>3, <4>1 DEF WireCounts, PacedWireOrder, WireInCallOrder
    <3>5. ASSUME NEW i \in 1..(Len(wire) + n), NEW j \in 1..(Len(wire) + n), i < j
          PROVE  wire'[i] <= wire'[j]
      <4>1. CASE j <= Len(wire)
        <5>1. i \in 1..Len(wire) /\ j \in 1..Len(wire) /\ i <= Len(wire)
          BY <3>2, <3>3, <3>5, <4>1
        <5> QED
          BY <3>3, <3>4, <3>5, <4>1, <5>1
      <4>2. CASE ~(j <= Len(wire)) /\ i <= Len(wire)
        <5>1. i \in 1..Len(wire)
          BY <3>2, <3>3, <4>2
        <5> QED
          BY <3>3, <3>4, <4>2, <5>1
      <4>3. CASE ~(j <= Len(wire)) /\ ~(i <= Len(wire))
        BY <3>2, <3>3, <4>3
      <4> QED
        BY <4>1, <4>2, <4>3
    <3> QED
      BY <3>3, <3>5
  <2> QED
    BY <1>5, <2>3, <2>4 DEF GoesOn
<1>6. CASE Rests
  BY <1>1, <1>3, <1>6 DEF Rests
<1> QED
  BY <1>4, <1>5, <1>6, RequestStep

\* The writes still open are of this session.
LEMMA SessionWritesStep ==
    ASSUME CoreInv, NoLostWrite, SessionWrites, [Next]_vars, CoreInv'
    PROVE  SessionWrites'
<1>1. /\ TypeOK /\ TypeOK' /\ (clean' => clean) /\ Len(wsize) \in Nat /\ writeBase \in Nat
      /\ writeBase <= Len(wsize)
  BY CleanStep, LenProperties DEF CoreInv, TypeOK, RequestsOK, SessionWrites
<1>2. ASSUME NEW size \in 1..MaxSize, Counted(size)
      PROVE  SessionWrites'
  <2>1. PICK n \in Nat : n = Len(wsize) + 1
    BY <1>1
  <2>2. OpenWrites' = OpenWrites \cup {n} /\ Len(wsize') = n
    BY <1>1, <1>2, <2>1, CountedOpens
  <2>3. writeBase' = writeBase /\ n > writeBase /\ writeBase <= n
    BY <1>1, <1>2, <2>1 DEF Counted
  <2> QED
    BY <1>1, <2>2, <2>3 DEF SessionWrites
<1>3. ASSUME NEW v \in DOMAIN wresult, GoesOn(v)
      PROVE  SessionWrites'
  <2>1. UNCHANGED <<wsize, writeBase, clean>> /\ v \in OpenWrites
    BY <1>3 DEF GoesOn
  <2>2. OpenWrites' \subseteq OpenWrites
    <3>1. CASE UNCHANGED <<wresult, bytesToWrite>>
      BY <3>1 DEF OpenWrites
    <3>2. CASE Settles(v)
      BY <1>1, <2>1, <3>2, SettlesCloses
    <3> QED
      BY <1>3, <3>1, <3>2 DEF GoesOn
  <2> QED
    BY <2>1, <2>2 DEF SessionWrites
<1>4. CASE Rests
  <2>1. UNCHANGED <<wsize, OpenWrites>>
    BY <1>4 DEF Rests, OpenWrites
  <2>2. CASE UNCHANGED writeBase
    BY <1>1, <2>1, <2>2 DEF SessionWrites
  <2>3. CASE writeBase' = Len(wsize) /\ (clean => OpenWrites = {})
    BY <1>1, <2>1, <2>3 DEF SessionWrites
  <2> QED
    BY <1>4, <2>2, <2>3 DEF Rests
<1> QED
  BY <1>2, <1>3, <1>4, RequestStep

LEMMA WriteInvStep ==
    ASSUME CoreInv, WriteInv, [Next]_vars, CoreInv'
    PROVE  WriteInv'
BY NoLostWriteStep, ByteAccountingStep, WireCountsStep, LastOpenStep, PacedWireOrderStep,
   SessionWritesStep DEF WriteInv

\* Initially there are no writes.
LEMMA WriteInvInit == Init => WriteInv
<1>1. SUFFICES ASSUME Init PROVE WriteInv
  OBVIOUS
<1>2. wresult = <<>> /\ wire = <<>> /\ wsize = <<>> /\ bytesToWrite = 0 /\ writeBase = 0
  BY <1>1 DEF Init
<1>3. OpenWrites = {} /\ DOMAIN wresult = {} /\ DOMAIN wire = {} /\ Len(wsize) = 0
  BY <1>2 DEF OpenWrites
<1>4. OpenBytes = {}
  BY <1>3 DEF OpenBytes
<1>5. NoLostWrite /\ WireCounts /\ LastOpen /\ PacedWireOrder
  BY <1>3 DEF NoLostWrite, WireCounts, LastOpen, PacedWireOrder, WireInCallOrder
<1>6. ByteAccounting
  BY <1>2, <1>4, FS_EmptySet DEF ByteAccounting
<1>7. SessionWrites
  BY <1>2, <1>3 DEF SessionWrites
<1> QED
  BY <1>5, <1>6, <1>7 DEF WriteInv

\* For every value of the constants: every write is carried once until it is
\* settled, and bytesToWrite_, the wire and the sessions agree with it.
THEOREM WriteInvariant == Spec => []WriteInv
<1>1. Init => WriteInv
  BY WriteInvInit
<1>2. CoreInv /\ WriteInv /\ [Next]_vars /\ CoreInv' => WriteInv'
  BY WriteInvStep
<1> QED
  BY <1>1, <1>2, CoreInvariant, PTL DEF Spec

\* Counted, posted, started, waiting, completed: through all interleavings of
\* write(), the handlers and close(), a write without an outcome is in exactly
\* one of these places.
THEOREM WritesAreCarriedOnce == Spec => []NoLostWrite
BY WriteInvariant, PTL DEF WriteInv

\* bytesToWrite() is the size of the writes still open, whichever threads call
\* write() while the handlers run, unless a close() has left a handler behind.
THEOREM BytesAreAccounted == Spec => []ByteAccounting
BY WriteInvariant, PTL DEF WriteInv

\* What onBytesWritten reports is on the wire in full, and nothing is there twice.
THEOREM ReportedIsOnWire == Spec => []WrittenIsOnWire
<1>1. WireCounts => WrittenIsOnWire
  BY DEF WireCounts, WrittenIsOnWire
<1> QED
  BY <1>1, WriteInvariant, PTL DEF WriteInv

\* The writes of a user that waits for bytesToWrite() = 0 go out in their order.
THEOREM WritesInOrder == Spec => []PacedWireOrder
BY WriteInvariant, PTL DEF WriteInv

-----------------------------------------------------------------------------
(***************************************************************************)
(* Reads and writes together.                                               *)
(***************************************************************************)

\* The inductive invariant of the backend holds in every reachable state.
THEOREM InductiveInvariant == Spec => []IInv
BY CoreInvariant, ReadInvariant, WriteInvariant, PTL DEF IInv

\* open() after close(): no byte of an earlier session is in readBuffer_, in a
\* completed read or in the kernel, and no write of one is open or still carried
\* by a thread, the queue or the reactor, unless a close() has left a handler in
\* the queue.
THEOREM SessionsAreApart == Spec => []SessionIsolation
<1>1. SessionBytes /\ SessionWrites /\ NoLostWrite => SessionIsolation
  <2>1. SUFFICES ASSUME SessionBytes, SessionWrites, NoLostWrite, clean
                 PROVE  /\ \A b \in Range(Buffered) : b > rxBase
                        /\ \A w \in DOMAIN wresult :
                              w \in OpenWrites \/ Carriers(w) > 0 => w > writeBase
    BY DEF SessionIsolation
  <2>2. ASSUME NEW w \in DOMAIN wresult, w \in OpenWrites \/ Carriers(w) > 0
        PROVE  w > writeBase
    <3>1. w \in OpenWrites
      BY <2>1, <2>2 DEF NoLostWrite
    <3> QED
      BY <2>1, <3>1 DEF SessionWrites
  <2> QED
    BY <2>1, <2>2 DEF SessionBytes
<1> QED
  BY <1>1, ReadInvariant, WriteInvariant, PTL DEF ReadInv, WriteInv

\* close() on any thread schedule, with whatever is pending or queued: once it
\* returns no thread and no operation of the backend is left, the buffers are
\* empty, and what the queue keeps is one handler for each write without an
\* outcome, and one read for each opening at most.
THEOREM CloseIsFinal == Spec => []CloseQuiesces
<1>1. CoreInv /\ SingleReadLoop /\ NoLostWrite => CloseQuiesces
  <2>1. SUFFICES ASSUME CoreInv, SingleReadLoop, NoLostWrite, ~isOpen,
                        user \in {"idle", "openPort"}
                 PROVE  /\ worker = "none" /\ ~stopped
                        /\ starting = 0 /\ posting = [t \in Threads |-> 0]
                        /\ pendingReads = 0 /\ pendingWrites = <<>>
                        /\ readBuffer = <<>> /\ bytesToWrite = 0
                        /\ \A w \in DOMAIN wresult :
                              Cardinality(Queued(w)) = (IF w \in OpenWrites THEN 1 ELSE 0)
                        /\ Cardinality(QueuedReads) <= session
    BY DEF CloseQuiesces
  <2>2. TypeOK /\ References /\ Control /\ ClosedIsEmpty
    BY <2>1 DEF CoreInv
  <2>3. /\ worker = "none" /\ ~stopped /\ pendingReads = 0 /\ pendingWrites = <<>>
        /\ readBuffer = <<>> /\ bytesToWrite = 0
    BY <2>1, <2>2 DEF Control, ClosedIsEmpty, TypeOK, FlagsOK
  <2>4. starting = 0 /\ posting["user"] = 0 /\ posting["worker"] = 0
    BY <2>1, <2>2, <2>3 DEF References, ThreadsRefer, Control, Callbacks
  <2>5. posting = [t \in Threads |-> 0]
    <3>1. posting \in [Threads -> 0..MaxWrites]
      BY <2>2 DEF TypeOK, ThreadsOK
    <3>2. \A t \in Threads : posting[t] = 0
      BY <2>4 DEF Threads
    <3> QED
      BY <3>1, <3>2
  <2>6. ASSUME NEW w \in DOMAIN wresult
        PROVE  Cardinality(Queued(w)) = (IF w \in OpenWrites THEN 1 ELSE 0)
    <3>1. w # 0
      <4>1. wresult \in Seq({"open", "written", "failed"})
        BY <2>2 DEF TypeOK, RequestsOK
      <4> QED
        BY <4>1, LenProperties
    <3>2. Cardinality(Waiting(w)) = 0
      BY <2>3, FS_EmptySet DEF Waiting
    <3>3. Cardinality(Counting(w)) = 0
      BY <2>4, <3>1, FS_EmptySet DEF Counting, Threads
    <3>4. Cardinality(Queued(w)) \in Nat
      BY <2>2, QueuedAreFinite
    <3>5. Carriers(w) = Cardinality(Queued(w))
      BY <2>4, <3>1, <3>2, <3>3, <3>4 DEF Carriers
    <3> QED
      BY <2>1, <3>5 DEF NoLostWrite
  <2>7. Cardinality(QueuedReads) <= session
    <3>1. ReadsOutstanding = Cardinality(QueuedReads)
      <4>1. Cardinality(QueuedReads) \in Nat
        BY <2>2, QueuedAreFinite
      <4> QED
        BY <2>1, <2>3, <4>1 DEF ReadsOutstanding
    <3> QED
      BY <2>1, <3>1 DEF SingleReadLoop
  <2> QED
    BY <2>3, <2>4, <2>5, <2>6, <2>7
<1> QED
  BY <1>1, CoreInvariant, ReadInvariant, WriteInvariant, PTL DEF ReadInv, WriteInv

-----------------------------------------------------------------------------
(***************************************************************************)
(* The contract of SerialLink, step by step: what each part of the           *)
(* program's state does is known from the invariants and from RequestStep,   *)
(* QuietBytes and the lemmas beside it.                                      *)
(***************************************************************************)

\* The step does nothing to the writes the user sees.
RequestsRest == UNCHANGED <<wsize, wresult, bytesToWrite>>

\* The backend starts where the contract does.
LEMMA LinkInit == Init => Link!Init
<1>1. SUFFICES ASSUME Init PROVE Link!Init
  OBVIOUS
<1>2. InScratch = <<>>
  <2>1. CompletedIn(ready) = {}
    BY <1>1 DEF Init, CompletedIn
  <2> QED
    BY <1>1, <2>1, InScratchIs DEF Init, ScratchPart
<1>3. <<>> \o <<>> = <<>>
  BY EmptySeq, ConcatEmptySeq
<1>4. Buffered = <<>> /\ Phase = "closed"
  BY <1>1, <1>2, <1>3 DEF Init, Buffered, Phase
<1> QED
  BY <1>1, <1>4 DEF Init, Link!Init

\* Every step but those of the port, of the device and of read() leaves the port
\* and what the backend holds as they are.
LEMMA PortRests ==
    ASSUME CoreInv, [Next]_vars,
           ~OpenCall, ~OpenSucceeds, ~CloseCall, ~CloseJoin, ~Device
    PROVE  UNCHANGED <<Phase, attached>>
<1> USE DEF memberVars, portVars, threadVars, deviceVars, requestVars, sessionVars, historyVars
<1>1. UNCHANGED <<isOpen, closing, attached>>
  BY DEF Next, Open, CloseSteps, Calls, Worker, OpenFails, OpenCheckRunning, OpenAsyncRead,
       CloseClearRunning, CloseCancel, CloseResetWork, CloseStop, WriteNotOpen, ClearInput,
       ClearError, WriteCount, WritePost, ReadCall, WorkerCheckRunning, WorkerAsyncRead,
       WorkerWriteSome, CallbackReturns, RunPosted, RunReadDone, RunWriteDone, ReactorRead,
       ReactorWrite, WorkerExits, vars
<1> QED
  BY <1>1 DEF Phase

\* A write gets its outcome on an open port, and a failed one only when the
\* device is gone or the port is being closed.
LEMMA FailureIsLinked ==
    ASSUME CoreInv, clean, [Next]_vars, NEW v \in OpenWrites, Settles(v)
    PROVE  /\ isOpen
           /\ wresult'[v] = "failed" => ~attached \/ closing
<1> USE DEF memberVars, portVars, threadVars, deviceVars, requestVars, sessionVars, historyVars
<1>1. /\ TypeOK /\ Control /\ FailureExplained /\ v \in DOMAIN wresult /\ wresult[v] = "open"
      /\ wresult \in Seq({"open", "written", "failed"}) /\ DOMAIN wresult = 1..Len(wresult)
  BY LenProperties DEF CoreInv, OpenWrites, TypeOK, RequestsOK
<1>2. wresult'[v] # "open" /\ wresult' # wresult
  BY <1>1 DEF Settles
<1>3. RunWriteDone \/ ReactorWrite
  <2>1. ASSUME NEW t \in Threads, WriteCount(t) PROVE FALSE
    <3>1. wresult' = Append(wresult, "open")
      BY <2>1 DEF WriteCount
    <3>2. wresult'[v] = wresult[v]
      BY <1>1, <3>1, Appended
    <3> QED
      BY <1>1, <1>2, <3>2
  <2> QED
    BY <1>2, <2>1 DEF Next, Open, CloseSteps, Calls, Worker, Device, OpenCall, OpenFails,
       OpenSucceeds, OpenCheckRunning, OpenAsyncRead, CloseCall, CloseClearRunning, CloseCancel,
       CloseResetWork, CloseStop, CloseJoin, WriteNotOpen, ClearInput, ClearError, WritePost,
       ReadCall, WorkerCheckRunning, WorkerAsyncRead, WorkerWriteSome, CallbackReturns,
       RunPosted, RunReadDone, ReactorRead, WorkerExits, DeviceSends, DeviceUnplugged, vars
<1>4. isOpen
  BY <1>1, <1>3 DEF Control, RunWriteDone, ReactorWrite, Running
<1>5. ASSUME NEW w, NEW ok \in BOOLEAN, PieceWritten(w, ok), wresult'[v] = "failed"
      PROVE  ~ok
  BY <1>1, <1>5 DEF PieceWritten
<1>6. CASE ReactorWrite
  <2>1. attached => wresult'[v] # "failed"
    BY <1>5, <1>6 DEF ReactorWrite
  <2> QED
    BY <1>4, <2>1
<1>7. CASE RunWriteDone
  <2>1. /\ PieceWritten(Head(ready).write, Head(ready).ok) /\ ready # <<>>
        /\ ready \in Seq(Handlers)
    BY <1>1, <1>7 DEF RunWriteDone, TypeOK, HandlersOK
  <2>2. Head(ready) \in Handlers /\ 1 \in 1..Len(ready) /\ Head(ready) = ready[1]
    BY <2>1, TailElements, LenProperties
  <2>3. Head(ready).ok \in BOOLEAN
    BY <2>2 DEF Handlers
  <2>4. wresult'[v] = "failed" => FailedQueued
    BY <1>5, <2>1, <2>2, <2>3 DEF FailedQueued
  <2> QED
    BY <1>1, <1>4, <2>4 DEF FailureExplained
<1> QED
  BY <1>3, <1>6, <1>7

\* What happens to the requests is a Write or a Settles of the contract, or
\* nothing, when the step does nothing else.
LEMMA RequestsLinked ==
    ASSUME CoreInv, NoLostWrite, ByteAccounting, clean, clean', [Next]_vars, CoreInv',
           UNCHANGED <<Phase, attached, Buffered, rxSent, received>>
    PROVE  Link!Write \/ Link!Settles \/ RequestsRest
<1> USE DEF memberVars, portVars, threadVars, deviceVars, requestVars, sessionVars, historyVars
<1>1. /\ TypeOK /\ wsize \in Seq(1..MaxSize) /\ Len(wsize) \in Nat /\ MaxWrites \in Nat
      /\ wresult \in Seq({"open", "written", "failed"})
      /\ wresult' \in Seq({"open", "written", "failed"}) /\ Len(wsize') <= MaxWrites
  BY LenProperties, BoundsAssumption DEF CoreInv, TypeOK, RequestsOK
<1>2. ASSUME NEW size \in 1..MaxSize, Counted(size) PROVE Link!Write
  <2>1. /\ wsize' = Append(wsize, size) /\ wresult' = Append(wresult, "open")
        /\ bytesToWrite' = bytesToWrite + size
    BY <1>2 DEF Counted
  <2>2. Len(Append(wsize, size)) = Len(wsize) + 1
    BY <1>1, Appended
  <2>3. Len(wsize) < MaxWrites /\ wsize' # wsize
    BY <1>1, <2>1, <2>2
  <2>4. isOpen
    BY <2>3 DEF Next, Open, CloseSteps, Calls, Worker, Device, OpenCall, OpenFails,
       OpenSucceeds, OpenCheckRunning, OpenAsyncRead, CloseCall, CloseClearRunning, CloseCancel,
       CloseResetWork, CloseStop, CloseJoin, WriteNotOpen, ClearInput, ClearError, WriteCount,
       WritePost, ReadCall, WorkerCheckRunning, WorkerAsyncRead, WorkerWriteSome,
       CallbackReturns, RunPosted, RunReadDone, RunWriteDone, ReactorRead, ReactorWrite,
       WorkerExits, DeviceSends, DeviceUnplugged, vars
  <2>5. Phase # "closed"
    BY <2>4 DEF Phase
  <2> QED
    BY <2>1, <2>3, <2>5 DEF Link!Write
<1>3. ASSUME NEW v \in DOMAIN wresult, GoesOn(v) PROVE Link!Settles \/ RequestsRest
  <2>1. CASE UNCHANGED <<wresult, bytesToWrite>>
    BY <1>3, <2>1 DEF GoesOn, RequestsRest
  <2>2. CASE Settles(v)
    <3>1. v \in OpenWrites /\ wresult[v] = "open" /\ UNCHANGED wsize
      BY <1>3 DEF GoesOn, OpenWrites
    <3>2. isOpen /\ (wresult'[v] = "failed" => ~attached \/ closing)
      BY <2>2, <3>1, FailureIsLinked
    <3>3. Phase # "closed" /\ (closing => Phase = "closing")
      BY <3>2 DEF Phase
    <3>4. wresult' = [wresult EXCEPT ![v] = wresult'[v]]
      BY <1>1, <2>2 DEF Settles
    <3>5. wresult'[v] \in {"written", "failed"} /\ bytesToWrite' = bytesToWrite - wsize[v]
      BY <2>2 DEF Settles
    <3>6. Link!Settles
      BY <3>1, <3>2, <3>3, <3>4, <3>5 DEF Link!Settles
    <3> QED
      BY <3>6
  <2> QED
    BY <1>3, <2>1, <2>2 DEF GoesOn
<1>4. CASE Rests
  <2>1. OpenWrites = {} => bytesToWrite = 0
    <3>1. OpenWrites = {} => OpenBytes = {}
      BY DEF OpenBytes
    <3> QED
      BY <3>1, FS_EmptySet DEF ByteAccounting
  <2> QED
    BY <1>4, <2>1 DEF Rests, RequestsRest
<1> QED
  BY <1>2, <1>3, <1>4, RequestStep

-----------------------------------------------------------------------------
(***************************************************************************)
(* The port: open() and close().                                            *)
(***************************************************************************)

\* open() of an open port and close() begin the closing.
LEMMA ClosingLinked ==
    ASSUME CoreInv, SingleReadLoop, clean, TypeOK', OpenCall \/ CloseCall
    PROVE  Link!Closing \/ UNCHANGED Link!vars
<1> USE DEF memberVars, portVars, threadVars, deviceVars, requestVars, sessionVars, historyVars
<1>1. UNCHANGED <<received, Buffered, rxSent>>
  BY QuietBytes DEF QuietStep
<1>2. /\ UNCHANGED <<isOpen, attached, wsize, wresult, bytesToWrite, clean>>
      /\ closing' = TRUE \/ UNCHANGED closing
  BY DEF OpenCall, CloseCall
<1>3. UNCHANGED Phase \/ (Phase = "open" /\ Phase' = "closing")
  BY <1>2 DEF Phase
<1> QED
  BY <1>1, <1>2, <1>3 DEF Link!Closing, Link!vars

\* The successful end of open() is Opened: the port was closed, and it has the
\* bytes and the writes the user knew of, none of them lost or added.
LEMMA OpenedLinked ==
    ASSUME CoreInv, SingleReadLoop, clean, TypeOK', OpenSucceeds
    PROVE  Link!Opened
<1> USE DEF memberVars, portVars, threadVars, deviceVars, requestVars, sessionVars, historyVars
<1>1. UNCHANGED <<received, Buffered, rxSent>>
  BY QuietBytes DEF QuietStep
<1>2. /\ UNCHANGED <<wsize, wresult, bytesToWrite>> /\ attached' = TRUE
      /\ user = "openPort" /\ isOpen' = TRUE /\ closing' = FALSE
  BY DEF OpenSucceeds
<1>3. Phase = "closed" /\ Phase' = "open"
  BY <1>2 DEF Phase, CoreInv, Control
<1> QED
  BY <1>1, <1>2, <1>3 DEF Link!Opened

\* The end of close() is Closed; a close() of a closed port changes nothing.
LEMMA ClosedLinked ==
    ASSUME CoreInv, clean, clean', CloseJoin
    PROVE  Link!Closed \/ UNCHANGED Link!vars
<1> USE DEF memberVars, portVars, threadVars, deviceVars, requestVars, sessionVars, historyVars
<1>1. TypeOK /\ References /\ Control /\ ClosedIsEmpty /\ FailureExplained
  BY DEF CoreInv
<1>2. Buffered' = <<>>
  BY <1>1, CloseDropped
<1>3. /\ UNCHANGED <<received, rxSent, wsize, wresult, closing>> /\ bytesToWrite' = 0
      /\ attached' = FALSE /\ isOpen' = FALSE /\ user = "join" /\ clean \in BOOLEAN
  BY <1>1 DEF CloseJoin, ResetBuffers, TypeOK, FlagsOK
<1>4. Phase' = "closed"
  BY <1>3 DEF Phase
<1>5. CASE isOpen
  <2>1. Phase = "closing"
    BY <1>1, <1>3, <1>5 DEF Control, ClosePoints, Phase
  <2> QED
    BY <1>2, <1>3, <1>4, <2>1 DEF Link!Closed
<1>6. CASE ~isOpen
  <2>1. /\ readBuffer = <<>> /\ kernelIn = <<>> /\ ready = <<>> /\ bytesToWrite = 0
        /\ attached = FALSE
    BY <1>1, <1>6 DEF ClosedIsEmpty, FailureExplained, TypeOK, FlagsOK
  <2>2. InScratch = <<>>
    BY <2>1, InScratchIs DEF ScratchPart, CompletedIn
  <2>3. <<>> \o <<>> = <<>>
    BY EmptySeq, ConcatEmptySeq
  <2>4. Buffered = <<>>
    BY <2>1, <2>2, <2>3 DEF Buffered
  <2>5. Phase = "closed" /\ clean' = clean
    BY <1>1, <1>6 DEF Phase, CloseJoin, TypeOK, FlagsOK
  <2> QED
    BY <1>2, <1>3, <1>4, <2>1, <2>4, <2>5 DEF Link!vars
<1> QED
  BY <1>5, <1>6

-----------------------------------------------------------------------------
(***************************************************************************)
(* The bytes received: read(), clear() and the device.                      *)
(***************************************************************************)

\* read() takes the oldest of the bytes the backend holds.
LEMMA ReadLinked ==
    ASSUME CoreInv, NEW t \in Threads, ReadCall(t)
    PROVE  Link!Read
<1> USE DEF memberVars, portVars, threadVars, deviceVars, requestVars, sessionVars, historyVars
<1> DEFINE S == 1..MaxRx
           rest == InScratch \o kernelIn
<1>1. /\ readBuffer \in Seq(S) /\ kernelIn \in Seq(S) /\ InScratch \in Seq(S)
      /\ readBuffer # <<>> /\ Len(readBuffer) \in Nat
  BY InScratchType, LenProperties DEF CoreInv, TypeOK, BytesOK, ReadCall
<1>2. PICK max \in ReadSizes :
        /\ received' = received \o SubSeq(readBuffer, 1, PopSize(max))
        /\ readBuffer' = AfterPop(max)
  BY DEF ReadCall
<1>3. PopSize(max) \in 1..Len(readBuffer)
  <2>1. max \in Nat \ {0}
    BY ReadSizesAssumption
  <2>2. Len(readBuffer) # 0
    BY <1>1, EmptySeq
  <2> QED
    BY <1>1, <2>1, <2>2 DEF PopSize
<1>4. InScratch' = InScratch /\ kernelIn' = kernelIn
  BY InScratchIs DEF ReadCall
<1>5. rest \in Seq(S) /\ readBuffer' \in Seq(S)
  <2>1. rest \in Seq(S)
    BY <1>1, ConcatProperties
  <2>2. PopSize(max) \in 0..Len(readBuffer)
    BY <1>1, <1>3
  <2>3. SubSeq(readBuffer, PopSize(max) + 1, Len(readBuffer)) \in Seq(S)
    BY <1>1, <2>2, CutSequence
  <2> QED
    BY <1>2, <2>1, <2>3 DEF AfterPop
<1> HIDE DEF S
<1>6. \A x \in Seq(S) : (x \o InScratch) \o kernelIn = x \o rest
  BY <1>1, Regrouped, SMTT(25)
<1>7. Buffered = readBuffer \o rest /\ Buffered' = readBuffer' \o rest
  BY <1>1, <1>4, <1>5, <1>6 DEF Buffered
<1> HIDE DEF rest
<1> DEFINE n == PopSize(max)
<1>8. n \in 1..Len(readBuffer) /\ n \in 0..Len(readBuffer)
  BY <1>1, <1>3
<1> HIDE DEF n
<1>9. /\ SubSeq(readBuffer \o rest, 1, n) = SubSeq(readBuffer, 1, n)
      /\ SubSeq(readBuffer \o rest, n + 1, Len(readBuffer \o rest))
           = SubSeq(readBuffer, n + 1, Len(readBuffer)) \o rest
  BY <1>1, <1>5, <1>8, CutConcat
<1>10. /\ received' = received \o SubSeq(Buffered, 1, n)
       /\ Buffered' = SubSeq(Buffered, n + 1, Len(Buffered))
  BY <1>2, <1>7, <1>9 DEF n, AfterPop
<1>11. n \in 1..Len(Buffered)
  <2>1. Len(readBuffer \o rest) = Len(readBuffer) + Len(rest) /\ Len(rest) \in Nat
    BY <1>1, <1>5, ConcatProperties, LenProperties
  <2> QED
    BY <1>1, <1>7, <1>8, <2>1
<1>12. /\ UNCHANGED <<isOpen, closing, attached, rxSent, wsize, wresult, bytesToWrite>>
       /\ isOpen
  BY <1>1 DEF ReadCall, CoreInv, ClosedIsEmpty
<1>13. Phase' = Phase /\ Phase # "closed"
  BY <1>12 DEF Phase
<1> QED
  BY <1>10, <1>11, <1>12, <1>13 DEF Link!Read

\* clear() and the unplugging drop the newest: what the kernel holds.
LEMMA DropsLinked ==
    ASSUME CoreInv, ClearInput \/ DeviceUnplugged
    PROVE  Link!Drops
<1> USE DEF memberVars, portVars, threadVars, deviceVars, requestVars, sessionVars, historyVars
<1> DEFINE S == 1..MaxRx
           kept == readBuffer \o InScratch
<1>1. /\ readBuffer \in Seq(S) /\ kernelIn \in Seq(S) /\ InScratch \in Seq(S)
  BY InScratchType DEF CoreInv, TypeOK, BytesOK
<1>2. /\ UNCHANGED <<isOpen, closing, received, readBuffer, rxSent, wsize, wresult, bytesToWrite>>
      /\ UNCHANGED <<ready, readScratch>> /\ isOpen
      /\ kernelIn' = <<>> /\ attached' \in {attached, FALSE}
  BY DEF ClearInput, DeviceUnplugged
<1>3. InScratch' = InScratch
  BY <1>2, InScratchIs
<1> HIDE DEF S
<1>4. kept \in Seq(S) /\ kept \o <<>> = kept
  BY <1>1, ConcatProperties, ConcatEmptySeq
<1>5. Buffered = kept \o kernelIn /\ Buffered' = kept
  BY <1>2, <1>3, <1>4 DEF Buffered
<1> HIDE DEF kept
<1>6. SubSeq(kept \o kernelIn, 1, Len(kept)) = kept
  BY <1>1, <1>4, PartsOfConcat
<1>7. Len(kept) \in 0..Len(Buffered)
  <2>1. /\ Len(kept \o kernelIn) = Len(kept) + Len(kernelIn)
        /\ Len(kept) \in Nat /\ Len(kernelIn) \in Nat
    BY <1>1, <1>4, ConcatProperties, LenProperties
  <2> QED
    BY <1>5, <2>1
<1>8. Phase' = Phase /\ Phase # "closed"
  BY <1>2 DEF Phase
<1> QED
  BY <1>2, <1>5, <1>6, <1>7, <1>8 DEF Link!Drops

\* A byte of the device is the newest.
LEMMA SendsLinked ==
    ASSUME CoreInv, DeviceSends
    PROVE  Link!Sends
<1> USE DEF memberVars, portVars, threadVars, deviceVars, requestVars, sessionVars, historyVars
<1>1. Arrives
  BY DeviceArrives DEF CoreInv
<1>2. /\ UNCHANGED <<isOpen, closing, attached, received, wsize, wresult, bytesToWrite>>
      /\ isOpen /\ attached /\ rxSent < MaxRx
  BY DEF DeviceSends
<1>3. Phase' = Phase /\ Phase # "closed"
  BY <1>2 DEF Phase
<1> QED
  BY <1>1, <1>2, <1>3 DEF Arrives, Link!Sends

-----------------------------------------------------------------------------
(***************************************************************************)
(* All steps together.                                                      *)
(***************************************************************************)
LEMMA LinkStep ==
    ASSUME IInv, IInv', [Next]_vars
    PROVE  [Link!Next]_Link!vars
<1> USE DEF memberVars, portVars, threadVars, deviceVars, requestVars, sessionVars, historyVars
<1>1. /\ CoreInv /\ CoreInv' /\ TypeOK /\ TypeOK' /\ SingleReadLoop /\ NoLostWrite
      /\ ByteAccounting
  BY DEF IInv, CoreInv, ReadInv, WriteInv
<1>2. SUFFICES ASSUME clean' PROVE Link!Promised \/ UNCHANGED Link!vars
  BY DEF Link!Next
<1>3. clean /\ clean' = clean
  <2>1. clean
    BY <1>1, <1>2, CleanStep
  <2> QED
    BY <1>1, <1>2, <2>1 DEF TypeOK, FlagsOK
<1>4. CASE OpenCall \/ CloseCall
  BY <1>1, <1>3, <1>4, ClosingLinked DEF Link!Promised
<1>5. CASE OpenSucceeds
  BY <1>1, <1>3, <1>5, OpenedLinked DEF Link!Promised
<1>6. CASE CloseJoin
  BY <1>1, <1>2, <1>3, <1>6, ClosedLinked DEF Link!Promised
<1>7. ASSUME NEW t \in Threads, ReadCall(t) PROVE Link!Promised
  BY <1>1, <1>7, ReadLinked DEF Link!Promised
<1>8. CASE ClearInput \/ DeviceUnplugged
  BY <1>1, <1>8, DropsLinked DEF Link!Promised
<1>9. CASE DeviceSends
  BY <1>1, <1>9, SendsLinked DEF Link!Promised
<1>10. CASE /\ ~OpenCall /\ ~CloseCall /\ ~OpenSucceeds /\ ~CloseJoin /\ ~ClearInput
            /\ ~Device /\ ~(\E t \in Threads : ReadCall(t))
  <2>1. UNCHANGED <<Phase, attached>>
    BY <1>1, <1>10, PortRests
  <2>2. QuietStep
    BY <1>10 DEF Next, Open, CloseSteps, Calls, QuietStep
  <2>3. UNCHANGED <<received, Buffered, rxSent>>
    BY <1>1, <1>3, <2>2, QuietBytes
  <2>4. Link!Write \/ Link!Settles \/ RequestsRest
    BY <1>1, <1>2, <1>3, <2>1, <2>3, RequestsLinked
  <2> QED
    BY <1>3, <2>1, <2>3, <2>4 DEF RequestsRest, Link!vars, Link!Promised
<1> QED
  BY <1>4, <1>5, <1>6, <1>7, <1>8, <1>9, <1>10 DEF Device

\* The backend implements the contract of SerialLink, for every value of the
\* constants: over every opening of the port a FIFO of received bytes, writes
\* that get one outcome each, failures only of a device that is gone or of a
\* port being closed, and nothing of one opening in the next.
THEOREM LinkRefined == Spec => LinkSpec
<1>1. Init => Link!Init
  BY LinkInit
<1>2. IInv /\ IInv' /\ [Next]_vars => [Link!Next]_Link!vars
  BY LinkStep
<1> QED
  BY <1>1, <1>2, InductiveInvariant, PTL DEF Spec, LinkSpec, Link!Spec
=============================================================================
