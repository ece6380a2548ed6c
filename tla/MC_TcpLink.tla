----------------------------- MODULE MC_TcpLink -----------------------------
(* Instances of TcpLink for TLC: two application threads and the reader.    *)
EXTENDS TcpLink
CONSTANTS a, b
=============================================================================
