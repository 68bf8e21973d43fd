--------------------------- MODULE MCAsioBackend ---------------------------
(* Instances of AsioBackend for TLC: the constants are given in the .cfg.    *)
EXTENDS AsioBackendLink
OneByOne == {1}
OneOrTwo == {1, 2}
=============================================================================
