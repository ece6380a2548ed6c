---------------------------- MODULE MC_RequestWait ----------------------------
(* Instances of RequestWait for TLC. *)
EXTENDS RequestWait, TLC
CONSTANTS c1, c2, getter, writer, nak, trace
MCAttrs == {nak, trace}
KindTY == c1 :> "trace" @@ c2 :> "async"
AttrTY == c1 :> trace @@ c2 :> nak
Decodable == {"ack", "nak", "data"}
Undecodable == Decodable \cup {"bad"}
RepliesTY == c1 :> Undecodable @@ c2 :> Undecodable

\* Two pairs of callers, of which one issues requests: two traceroutes, or a bounded getter
\* beside an admin write.  The calls of the others are over.  A packet id is drawn before it
\* is read: which one an idle caller has does not matter.
KindPairs == c1 :> "trace" @@ c2 :> "trace" @@ getter :> "getter" @@ writer :> "ack"
AttrPairs == c1 :> trace @@ c2 :> trace @@ getter :> nak @@ writer :> nak
RepliesPairs ==
    c1 :> Decodable @@ c2 :> Decodable @@ getter :> Undecodable @@ writer :> {"ack", "nak"}
Tracing == c1 :> 0 @@ c2 :> 0 @@ getter :> MaxCalls @@ writer :> MaxCalls
Getting == c1 :> MaxCalls @@ c2 :> MaxCalls @@ getter :> MaxCalls - 1 @@ writer :> MaxCalls - 1
Uncalled == INSTANCE RequestWait WITH call <- [c \in Callers |-> 0]
PairInit == Uncalled!Init /\ call \in {Tracing, Getting} /\ \A c \in Callers : pid[c] = 1
PairSpec == PairInit /\ [][Next]_vars
CallerSymmetry == Permutations({c1, c2})
=============================================================================
