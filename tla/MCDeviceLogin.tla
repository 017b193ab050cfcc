---------------------------- MODULE MCDeviceLogin ----------------------------
(***************************************************************************)
(* A small instance of DeviceLogin.  Requests are interchangeable.         *)
(***************************************************************************)
EXTENDS DeviceLogin, TLC

Interchangeable == Permutations(Requests) \cup Permutations(Devices)
=============================================================================
