----------------------------- MODULE SerialLink -----------------------------
(***************************************************************************)
(* What a serial backend promises its user (the contract of                 *)
(* src/detail/SerialBackend.hpp) as long as no close() has left anything    *)
(* behind (clean): a FIFO of received bytes, writes that get one outcome    *)
(* each, a failure only when the device is gone or the port is being        *)
(* closed, and nothing of one opening of the port in the next.              *)
(***************************************************************************)
EXTENDS Integers, Sequences

CONSTANTS MaxRx, MaxWrites, MaxSize

VARIABLES
    phase,      \* "closed", "open" or "closing"
    attached,   \* the device is there
    incoming,   \* bytes the device sent, neither dropped nor read yet
    sent,       \* how many bytes it has sent
    received,   \* what read() has returned
    sizes,      \* the size of each write
    outcome,    \* of each write: "open", "written" or "failed"
    toWrite,    \* bytesToWrite()
    clean       \* no close() so far has left anything behind

vars == <<phase, attached, incoming, sent, received, sizes, outcome, toWrite, clean>>

Init ==
    /\ phase = "closed" /\ attached = FALSE
    /\ incoming = <<>> /\ sent = 0 /\ received = <<>>
    /\ sizes = <<>> /\ outcome = <<>> /\ toWrite = 0 /\ clean = TRUE

\* open() succeeds.
Opened ==
    /\ phase = "closed"
    /\ phase' = "open" /\ attached' = TRUE
    /\ UNCHANGED <<incoming, sent, received, sizes, outcome, toWrite>>

Closing ==
    /\ phase = "open"
    /\ phase' = "closing"
    /\ UNCHANGED <<attached, incoming, sent, received, sizes, outcome, toWrite>>

\* close() is over: buffered bytes and unfinished writes are forgotten.
Closed ==
    /\ phase = "closing"
    /\ phase' = "closed" /\ attached' = FALSE
    /\ incoming' = <<>> /\ toWrite' = 0
    /\ UNCHANGED <<sent, received, sizes, outcome>>

Sends ==
    /\ phase # "closed" /\ attached
    /\ sent < MaxRx /\ sent' = sent + 1
    /\ incoming' = Append(incoming, sent + 1)
    /\ UNCHANGED <<phase, attached, received, sizes, outcome, toWrite>>

\* read() takes the oldest bytes.
Read ==
    /\ phase # "closed"
    /\ \E n \in 1..Len(incoming) :
         /\ received' = received \o SubSeq(incoming, 1, n)
         /\ incoming' = SubSeq(incoming, n + 1, Len(incoming))
    /\ UNCHANGED <<phase, attached, sent, sizes, outcome, toWrite>>

\* clear(Input) and an unplugged device drop the newest bytes.
Drops ==
    /\ phase # "closed"
    /\ \E n \in 0..Len(incoming) : incoming' = SubSeq(incoming, 1, n)
    /\ attached' \in {attached, FALSE}
    /\ UNCHANGED <<phase, sent, received, sizes, outcome, toWrite>>

Write ==
    /\ phase # "closed" /\ Len(sizes) < MaxWrites
    /\ \E size \in 1..MaxSize :
         sizes' = Append(sizes, size) /\ toWrite' = toWrite + size
    /\ outcome' = Append(outcome, "open")
    /\ UNCHANGED <<phase, attached, incoming, sent, received>>

\* A write gets its outcome and its bytes no longer count.  It fails only when
\* the device is gone or the port is being closed.
Settles ==
    /\ phase # "closed"
    /\ \E w \in DOMAIN outcome, result \in {"written", "failed"} :
         /\ outcome[w] = "open"
         /\ result = "failed" => ~attached \/ phase = "closing"
         /\ outcome' = [outcome EXCEPT ![w] = result]
         /\ toWrite' = toWrite - sizes[w]
    /\ UNCHANGED <<phase, attached, incoming, sent, received, sizes>>

\* The steps the contract promises; once close() has left a handler to run in
\* the next session, it promises nothing.
Promised == Opened \/ Closing \/ Closed \/ Sends \/ Read \/ Drops \/ Write \/ Settles
Next == clean' => Promised

Spec == Init /\ [][Next]_vars
=============================================================================
