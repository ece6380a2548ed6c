-------------------------- MODULE MC_SerialSession --------------------------
(* Instances of SerialSession for TLC: application threads and port objects. *)
EXTENDS SerialSession, TLC
CONSTANTS a, b, p1, p2, p3
=============================================================================
