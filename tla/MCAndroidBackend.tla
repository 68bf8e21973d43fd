-------------------------- MODULE MCAndroidBackend --------------------------
(* Instances of AndroidBackend for TLC: the constants are given in the .cfg. *)
EXTENDS AndroidBackendProperties
OneByOne == {1}
=============================================================================
