---------------------------- MODULE MCDeviceCert ----------------------------
EXTENDS DeviceCert, TLC

(* Names and authorities are interchangeable. *)
Symmetry == Permutations(Hosts) \cup Permutations(CAs)
=============================================================================
