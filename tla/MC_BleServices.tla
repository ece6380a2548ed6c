---------------------------- MODULE MC_BleServices ----------------------------
(* An instance of BleServices for TLC: two interfaces of one address, two callers, two workers,
   and an interface with auto_reconnect. *)
EXTENDS BleServices, TLC

CONSTANTS a, b, c, d, w1, w2, l1, l2

CallerSymmetry == Permutations(Callers)
=============================================================================
