-------------------------- MODULE AsioBackendLink --------------------------
(* The backend implements SerialLink, over every opening of the port.  A     *)
(* received byte is "incoming" from the kernel to read(), through            *)
(* readScratch_ and readBuffer_.                                             *)
EXTENDS AsioBackendProperties

Phase == IF ~isOpen THEN "closed" ELSE IF closing THEN "closing" ELSE "open"

Link == INSTANCE SerialLink WITH
    phase <- Phase, incoming <- Buffered, sent <- rxSent, sizes <- wsize,
    outcome <- wresult, toWrite <- bytesToWrite

\* Every step of open(), close(), write(), read(), clear(), of the worker and of
\* the device is a step of the contract or changes nothing the user can see.
LinkSpec == Link!Spec
=============================================================================
