---------------------------- MODULE MC_BleReceive ----------------------------
(* An instance of BleReceive for TLC: an interface without auto_reconnect. *)
EXTENDS BleReceive
=============================================================================
