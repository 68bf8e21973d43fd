---------------------------- MODULE MCPortConfig ----------------------------
(* Instances of PortConfig for TLC: the constants are given in the .cfg.     *)
EXTENDS PortConfig
TwoRates == {9600, 250000}
OneRate == {9600}
OneStopOnly == {"OneStop"}
=============================================================================
