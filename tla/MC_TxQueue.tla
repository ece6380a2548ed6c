----------------------------- MODULE MC_TxQueue -----------------------------
\* Constants of TxQueue for TLC.
EXTENDS TxQueue

CONSTANTS s1, s2, p1, p2, pz, pl

McIds == [p \in Packets |-> CASE p = p1 -> 1 [] p = p2 -> 2
                              [] p = pl -> 3 [] OTHER -> 0]
McNoIds == {}
McForeignIds == {9}
McLocal == Packets \cap {pl}
SenderSymmetry == Permutations(Senders)
=============================================================================
