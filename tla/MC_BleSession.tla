---------------------------- MODULE MC_BleSession ----------------------------
(* Instances of BleSession for TLC.                                         *)
EXTENDS BleSession
CONSTANTS a, b, h
=============================================================================
