---------------------------- MODULE MCStagedSwap ----------------------------
(* Instances of StagedSwap for TLC: a service folder that may hold a root   *)
(* member, two dependencies of which an export owns one, and a derived      *)
(* sidecar.  Run ids are interchangeable.                                   *)
EXTENDS StagedSwap, TLC

RunSymmetry == Permutations(Runs)
=============================================================================
