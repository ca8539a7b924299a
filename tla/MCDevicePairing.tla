---------------------------- MODULE MCDevicePairing ----------------------------
(* DevicePairing on small instances: every organization may have one screen. *)
EXTENDS DevicePairing, TLC

OneEach == [o \in Org |-> 1]
Interchangeable == Permutations(Device) \cup Permutations(Org) \cup Permutations(Completer)
================================================================================
