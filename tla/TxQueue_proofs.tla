--------------------------- MODULE TxQueue_proofs ---------------------------
(***************************************************************************)
(* For every number of senders, packets, replies and every bound:          *)
(*   - each claim on a packet ID is held by exactly one popped packet or   *)
(*     call (ClaimsExact);                                                 *)
(*   - RF slots and capacity entries are accounted for (SlotAccounting);   *)
(*   - an acknowledgement that comes early stays for its sender            *)
(*     (EarlyAckPinned);                                                   *)
(*   - no packet is lost, if packets have IDs of their own (NothingLost).  *)
(***************************************************************************)
EXTENDS TxQueue, FiniteSetTheorems, SequenceTheorems, TLAPS

\* The part of TypeOK that ownership of the IDs depends on.
ClaimTypes ==
    /\ claims \in [Ids -> Nat]
    /\ pc \in [Senders -> PcOf]
    /\ incoming \in [Senders -> Packets \cup {NoPacket}]
    /\ isLocal \in [Senders -> BOOLEAN]
    /\ popped \in [Senders -> Seq(Ids)]

\* A sender that is idle, or has only its own claim left, has released what
\* it popped; a sender in a call has a packet.
Phases ==
    \A s \in Senders :
        /\ pc[s] \in {"idle", "releaseOwn"} => popped[s] = << >>
        /\ pc[s] # "idle" => incoming[s] \in Packets

HoldersFinite == \A i \in Ids : IsFiniteSet(Holders(i))

IInv == ClaimTypes /\ Phases /\ HoldersFinite /\ ClaimsExact

-----------------------------------------------------------------------------
\* Every nonzero packet ID is one of Ids.
LEMMA PacketIds ==
    ASSUME NEW p \in Packets, PacketId[p] # 0
    PROVE  PacketId[p] \in Ids
BY PacketsAssumption DEF Ids

\* Removing a finite subset subtracts its cardinality.
LEMMA RemoveSubset ==
    ASSUME NEW S, IsFiniteSet(S), NEW T \in SUBSET S
    PROVE  /\ IsFiniteSet(S \ T)
           /\ Cardinality(S \ T) = Minus(Cardinality(S), Cardinality(T))
<1>1. IsFiniteSet(T) /\ IsFiniteSet(S \ T)
  BY FS_Subset, S \ T \in SUBSET S
<1>2. Cardinality((S \ T) \cup T) =
        Cardinality(S \ T) + Cardinality(T) - Cardinality((S \ T) \cap T)
  BY <1>1, FS_Union
<1>3. (S \ T) \cup T = S /\ (S \ T) \cap T = {}
  OBVIOUS
<1>4. Cardinality({}) = 0
  BY FS_EmptySet
<1>5. /\ Cardinality(S) \in Nat
      /\ Cardinality(T) \in Nat
      /\ Cardinality(S \ T) \in Nat
  BY <1>1, FS_CardinalityType
<1>6. Cardinality(S) = Cardinality(S \ T) + Cardinality(T)
  BY <1>2, <1>3, <1>4, <1>5
<1> QED
  BY <1>1, <1>5, <1>6 DEF Minus

\* A step that leaves the claims, the calls and what they popped alone keeps
\* the invariant, wherever its sender goes next inside the call.
LEMMA InsideCall ==
    ASSUME IInv, NEW s \in Senders, NEW x \in PcOf \ {"idle", "releaseOwn"},
           pc[s] # "idle", pc' = [pc EXCEPT ![s] = x],
           claims' = claims, incoming' = incoming, isLocal' = isLocal,
           popped' = popped
    PROVE  IInv'
<1>1. ClaimTypes' /\ Phases'
  BY DEF IInv, ClaimTypes, Phases
<1>2. \A t \in Senders, i \in Ids :
        PoppedClaims(t, i)' = PoppedClaims(t, i) /\ OwnClaims(t, i)' = OwnClaims(t, i)
  BY DEF IInv, ClaimTypes, PoppedClaims, OwnClaims
<1>3. \A i \in Ids : Holders(i)' = Holders(i)
  BY <1>2 DEF Holders
<1> QED
  BY <1>1, <1>3 DEF IInv, HoldersFinite, ClaimsExact

\* A step that leaves all of it and the program counters alone.
LEMMA OutsideCall ==
    ASSUME IInv, UNCHANGED <<pc, claims, incoming, isLocal, popped>>
    PROVE  IInv'
<1>1. ClaimTypes' /\ Phases'
  BY DEF IInv, ClaimTypes, Phases
<1>2. \A t \in Senders, i \in Ids :
        PoppedClaims(t, i)' = PoppedClaims(t, i) /\ OwnClaims(t, i)' = OwnClaims(t, i)
  BY DEF PoppedClaims, OwnClaims
<1>3. \A i \in Ids : Holders(i)' = Holders(i)
  BY <1>2 DEF Holders
<1> QED
  BY <1>1, <1>3 DEF IInv, HoldersFinite, ClaimsExact

\* A set with one element more.
LEMMA OneMore ==
    ASSUME NEW S, NEW x, IsFiniteSet(S), x \notin S
    PROVE  IsFiniteSet(S \cup {x}) /\ Cardinality(S \cup {x}) = Cardinality(S) + 1
BY FS_AddElement

\* Popping a packet takes one claim on its ID, if it has one.
LEMMA Popping ==
    ASSUME IInv, NEW s \in Senders, NEW p \in Packets, NEW k,
           pc[s] # "idle", StartSend(s, k, p),
           incoming' = incoming, isLocal' = isLocal
    PROVE  IInv'
<1> DEFINE j == PacketId[p]
<1>1. CASE j = 0
  <2>1. pc' = [pc EXCEPT ![s] = "send"] /\ claims' = claims /\ popped' = popped
    BY <1>1 DEF StartSend
  <2> QED
    BY <2>1, InsideCall DEF PcOf
<1>2. CASE j # 0
  <2>1. j \in Ids
    BY <1>2, PacketIds
  <2>2. /\ pc' = [pc EXCEPT ![s] = "send"]
        /\ claims' = [claims EXCEPT ![j] = @ + 1]
        /\ popped' = [popped EXCEPT ![s] = Append(@, j)]
    BY <1>2 DEF StartSend
  <2>3. ClaimTypes' /\ Phases'
    BY <2>1, <2>2 DEF IInv, ClaimTypes, Phases, PcOf
  <2> DEFINE h == <<s, Len(popped[s]) + 1>>
  <2>4. /\ popped[s] \in Seq(Ids)
        /\ popped'[s] = Append(popped[s], j)
        /\ \A t \in Senders \ {s} : popped'[t] = popped[t]
    BY <2>2 DEF IInv, ClaimTypes
  <2>5. \A t \in Senders, i \in Ids : OwnClaims(t, i)' = OwnClaims(t, i)
    BY <2>2 DEF IInv, ClaimTypes, OwnClaims
  <2>6. \A t \in Senders \ {s}, i \in Ids : PoppedClaims(t, i)' = PoppedClaims(t, i)
    BY <2>4 DEF PoppedClaims
  <2>7. /\ Len(popped'[s]) = Len(popped[s]) + 1
        /\ Len(popped[s]) \in Nat
        /\ popped'[s][Len(popped[s]) + 1] = j
        /\ \A m \in 1..Len(popped[s]) : popped'[s][m] = popped[s][m]
    BY <2>1, <2>4
  <2>8. ASSUME NEW i \in Ids
        PROVE  PoppedClaims(s, i)' =
                 IF i = j THEN PoppedClaims(s, i) \cup {h} ELSE PoppedClaims(s, i)
    <3>1. {m \in 1..Len(popped'[s]) : popped'[s][m] = i} =
            IF i = j THEN {m \in 1..Len(popped[s]) : popped[s][m] = i}
                          \cup {Len(popped[s]) + 1}
            ELSE {m \in 1..Len(popped[s]) : popped[s][m] = i}
      BY <2>7
    <3>2. PoppedClaims(s, i)' =
            {<<s, n>> : n \in {m \in 1..Len(popped'[s]) : popped'[s][m] = i}}
      BY DEF PoppedClaims
    <3>3. CASE i = j
      BY <3>1, <3>2, <3>3 DEF PoppedClaims
    <3>4. CASE i # j
      BY <3>1, <3>2, <3>4 DEF PoppedClaims
    <3> QED
      BY <3>3, <3>4
  <2>9. \A i \in Ids : Holders(i)' = IF i = j THEN Holders(i) \cup {h} ELSE Holders(i)
    BY <2>5, <2>6, <2>8 DEF Holders
  <2>10. h \notin Holders(j)
    <3>1. ASSUME NEW t \in Senders, h \in OwnClaims(t, j)
          PROVE  FALSE
      BY <2>7, <3>1 DEF OwnClaims
    <3>2. ASSUME NEW t \in Senders, h \in PoppedClaims(t, j)
          PROVE  FALSE
      BY <2>7, <3>2 DEF PoppedClaims
    <3> QED
      BY <3>1, <3>2 DEF Holders
  <2>11. ASSUME NEW i \in Ids
         PROVE  IsFiniteSet(Holders(i))' /\ (claims[i] = Cardinality(Holders(i)))'
    <3>1. /\ IsFiniteSet(Holders(i))
          /\ claims[i] = Cardinality(Holders(i))
      BY DEF IInv, HoldersFinite, ClaimsExact
    <3>2. CASE i = j
      <4>1. Holders(i)' = Holders(i) \cup {h} /\ h \notin Holders(i)
        BY <2>9, <2>10, <3>2
      <4>2. /\ IsFiniteSet(Holders(i)')
            /\ Cardinality(Holders(i)') = Cardinality(Holders(i)) + 1
        <5> HIDE DEF h
        <5>1. /\ IsFiniteSet(Holders(i) \cup {h})
              /\ Cardinality(Holders(i) \cup {h}) = Cardinality(Holders(i)) + 1
          BY <3>1, <4>1, OneMore, Zenon
        <5> QED
          BY <4>1, <5>1, Zenon
      <4>3. claims'[i] = claims[i] + 1
        BY <2>2, <3>2 DEF IInv, ClaimTypes
      <4> QED
        BY <3>1, <4>2, <4>3
    <3>3. CASE i # j
      BY <2>2, <2>9, <3>1, <3>3 DEF IInv, ClaimTypes
    <3> QED
      BY <3>2, <3>3
  <2> QED
    BY <2>3, <2>11 DEF IInv, HoldersFinite, ClaimsExact
<1> QED
  BY <1>1, <1>2

-----------------------------------------------------------------------------
\* A call starts: one claim more, on the ID of its packet.
LEMMA AdmitStep ==
    ASSUME IInv, NEW s \in Senders, NEW p \in Packets, Admit(s, p)
    PROVE  IInv'
<1> DEFINE j == PacketId[p]
<1>1. /\ pc[s] = "idle" /\ popped[s] = << >>
      /\ PacketId[p] \in Nat
  BY PacketsAssumption DEF Admit, IInv, Phases
<1>2. /\ incoming' = [incoming EXCEPT ![s] = p]
      /\ popped' = [popped EXCEPT ![s] = << >>]
      /\ claims' = IF j = 0 THEN claims ELSE [claims EXCEPT ![j] = @ + 1]
  BY DEF Admit
<1>3. PICK x \in {"pop", "popLocal"} : pc' = [pc EXCEPT ![s] = x]
  BY DEF Admit
<1>4. isLocal' \in [Senders -> BOOLEAN]
  BY DEF Admit, IInv, ClaimTypes
<1>5. ClaimTypes' /\ Phases'
  <2>1. claims' \in [Ids -> Nat]
    <3>1. CASE j = 0
      BY <1>2, <3>1 DEF IInv, ClaimTypes
    <3>2. CASE j # 0
      BY <1>2, <3>2, PacketIds DEF IInv, ClaimTypes
    <3> QED
      BY <3>1, <3>2
  <2>2. /\ pc' \in [Senders -> PcOf]
        /\ incoming' \in [Senders -> Packets \cup {NoPacket}]
    BY <1>2, <1>3 DEF IInv, ClaimTypes, PcOf
  <2>3. popped' \in [Senders -> Seq(Ids)]
    BY <1>1, <1>2 DEF IInv, ClaimTypes
  <2>4. Phases'
    BY <1>1, <1>2, <1>3 DEF IInv, ClaimTypes, Phases
  <2> QED
    BY <1>4, <2>1, <2>2, <2>3, <2>4 DEF ClaimTypes
<1>6. popped' = popped
  BY <1>1, <1>2 DEF IInv, ClaimTypes
<1>7. \A t \in Senders, i \in Ids : PoppedClaims(t, i)' = PoppedClaims(t, i)
  BY <1>6 DEF PoppedClaims
<1>8. \A t \in Senders \ {s}, i \in Ids : OwnClaims(t, i)' = OwnClaims(t, i)
  BY <1>2, <1>3 DEF IInv, ClaimTypes, OwnClaims
<1>9. \A i \in Ids : /\ OwnClaims(s, i) = {}
                     /\ OwnClaims(s, i)' = IF i = j THEN {<<s, 0>>} ELSE {}
  BY <1>1, <1>2, <1>3 DEF IInv, ClaimTypes, OwnClaims
<1>10. \A i \in Ids :
         Holders(i)' = IF i = j THEN Holders(i) \cup {<<s, 0>>} ELSE Holders(i)
  BY <1>7, <1>8, <1>9 DEF Holders
<1>11. ASSUME NEW i \in Ids
       PROVE  <<s, 0>> \notin Holders(i)
  <2>1. ASSUME NEW t \in Senders, <<s, 0>> \in OwnClaims(t, i)
        PROVE  FALSE
    BY <1>9, <2>1 DEF OwnClaims
  <2>2. ASSUME NEW t \in Senders, <<s, 0>> \in PoppedClaims(t, i)
        PROVE  FALSE
    BY <2>2 DEF PoppedClaims, IInv, ClaimTypes
  <2> QED
    BY <2>1, <2>2 DEF Holders
<1>12. ASSUME NEW i \in Ids
       PROVE  IsFiniteSet(Holders(i))' /\ (claims[i] = Cardinality(Holders(i)))'
  <2>1. IsFiniteSet(Holders(i)) /\ claims[i] = Cardinality(Holders(i))
    BY DEF IInv, HoldersFinite, ClaimsExact
  <2>2. CASE i = j
    <3>1. Holders(i)' = Holders(i) \cup {<<s, 0>>} /\ <<s, 0>> \notin Holders(i)
      BY <1>10, <1>11, <2>2
    <3>2. /\ IsFiniteSet(Holders(i)')
          /\ Cardinality(Holders(i)') = Cardinality(Holders(i)) + 1
      <4>1. /\ IsFiniteSet(Holders(i) \cup {<<s, 0>>})
            /\ Cardinality(Holders(i) \cup {<<s, 0>>}) = Cardinality(Holders(i)) + 1
        BY <2>1, <3>1, OneMore, Zenon
      <4> QED
        BY <3>1, <4>1, Zenon
    <3>3. claims'[i] = claims[i] + 1
      <4>1. i # 0
        BY BoundsAssumption DEF Ids
      <4> QED
        BY <1>2, <2>2, <4>1 DEF IInv, ClaimTypes
    <3> QED
      BY <2>1, <3>2, <3>3
  <2>3. CASE i # j
    BY <1>2, <1>10, <2>1, <2>3 DEF IInv, ClaimTypes
  <2> QED
    BY <2>2, <2>3
<1> QED
  BY <1>5, <1>12 DEF IInv, HoldersFinite, ClaimsExact

\* Giving up claims: those in R(i) of sender s and nothing else.
LEMMA Releasing ==
    ASSUME IInv, ClaimTypes', Phases', NEW R,
           \A i \in Ids : R[i] \subseteq Holders(i),
           \A i \in Ids : Holders(i)' = Holders(i) \ R[i],
           \A i \in Ids : claims'[i] = Minus(claims[i], Cardinality(R[i]))
    PROVE  IInv'
<1>1. ASSUME NEW i \in Ids
      PROVE  IsFiniteSet(Holders(i))' /\ (claims[i] = Cardinality(Holders(i)))'
  <2>1. IsFiniteSet(Holders(i)) /\ claims[i] = Cardinality(Holders(i))
    BY DEF IInv, HoldersFinite, ClaimsExact
  <2>2. /\ IsFiniteSet(Holders(i) \ R[i])
        /\ Cardinality(Holders(i) \ R[i]) =
             Minus(Cardinality(Holders(i)), Cardinality(R[i]))
    BY <2>1, RemoveSubset
  <2> QED
    BY <2>1, <2>2
<1> QED
  BY <1>1 DEF IInv, HoldersFinite, ClaimsExact

LEMMA ReleaseStep ==
    ASSUME IInv, NEW s \in Senders, Release(s)
    PROVE  IInv'
<1> DEFINE R == [i \in Ids |-> Released(s, i)]
<1>1. /\ pc[s] = "release"
      /\ pc' = [pc EXCEPT ![s] = IF isLocal[s] THEN "releaseOwn" ELSE "idle"]
      /\ popped' = [popped EXCEPT ![s] = << >>]
      /\ claims' = [i \in Ids |-> Minus(claims[i], Cardinality(Released(s, i)))]
      /\ incoming' = incoming /\ isLocal' = isLocal
  BY DEF Release, callVars
<1>2. \A i \in Ids : Released(s, i) \subseteq Holders(i)
  BY DEF Released, Holders
<1>3. \A i \in Ids : /\ PoppedClaims(s, i)' = {}
                     /\ OwnClaims(s, i)' = IF isLocal[s] THEN OwnClaims(s, i) ELSE {}
  BY <1>1 DEF IInv, ClaimTypes, PoppedClaims, OwnClaims
<1>4. \A t \in Senders \ {s}, i \in Ids :
        PoppedClaims(t, i)' = PoppedClaims(t, i) /\ OwnClaims(t, i)' = OwnClaims(t, i)
  BY <1>1 DEF IInv, ClaimTypes, PoppedClaims, OwnClaims
<1>5. ASSUME NEW i \in Ids, NEW t \in Senders \ {s}
      PROVE  (OwnClaims(t, i) \cup PoppedClaims(t, i))
               \cap (OwnClaims(s, i) \cup PoppedClaims(s, i)) = {}
  BY DEF OwnClaims, PoppedClaims
<1>6. ASSUME NEW i \in Ids
      PROVE  OwnClaims(s, i) \cap PoppedClaims(s, i) = {}
  BY DEF IInv, ClaimTypes, OwnClaims, PoppedClaims
<1>7. \A i \in Ids : Holders(i)' = Holders(i) \ Released(s, i)
  BY <1>3, <1>4, <1>5, <1>6 DEF Released, Holders
<1>8. ClaimTypes'
  <2>1. \A i \in Ids : Minus(claims[i], Cardinality(Released(s, i))) \in Nat
    <3>1. ASSUME NEW i \in Ids
          PROVE  Cardinality(Released(s, i)) \in Nat
      BY <1>2, FS_Subset, FS_CardinalityType DEF IInv, HoldersFinite
    <3> QED
      BY <3>1 DEF IInv, ClaimTypes, Minus
  <2> QED
    BY <1>1, <2>1 DEF IInv, ClaimTypes, PcOf
<1>9. Phases'
  BY <1>1 DEF IInv, ClaimTypes, Phases
<1>10. \A i \in Ids : /\ R[i] \subseteq Holders(i)
                      /\ Holders(i)' = Holders(i) \ R[i]
                      /\ claims'[i] = Minus(claims[i], Cardinality(R[i]))
  BY <1>1, <1>2, <1>7
<1> HIDE DEF R
<1> QED
  BY <1>8, <1>9, <1>10, Releasing

LEMMA ReleaseOwnStep ==
    ASSUME IInv, NEW s \in Senders, ReleaseOwn(s)
    PROVE  IInv'
<1> DEFINE R == [i \in Ids |-> OwnClaims(s, i)]
<1>1. /\ pc[s] = "releaseOwn"
      /\ pc' = [pc EXCEPT ![s] = "idle"]
      /\ popped' = popped /\ incoming' = incoming /\ isLocal' = isLocal
      /\ claims' = IF PacketId[incoming[s]] = 0 THEN claims
                   ELSE [claims EXCEPT ![PacketId[incoming[s]]] = Minus(@, 1)]
  BY DEF ReleaseOwn, callVars, loopVars
<1>2. \A i \in Ids : OwnClaims(s, i) \subseteq Holders(i)
  BY DEF Holders
<1>3. popped[s] = << >> /\ popped'[s] = << >>
  BY <1>1 DEF IInv, Phases
<1>4. \A i \in Ids : /\ PoppedClaims(s, i) = {} /\ PoppedClaims(s, i)' = {}
                     /\ OwnClaims(s, i)' = {}
  BY <1>1, <1>3 DEF IInv, ClaimTypes, PoppedClaims, OwnClaims
<1>5. \A t \in Senders \ {s}, i \in Ids :
        PoppedClaims(t, i)' = PoppedClaims(t, i) /\ OwnClaims(t, i)' = OwnClaims(t, i)
  BY <1>1 DEF IInv, ClaimTypes, PoppedClaims, OwnClaims
<1>6. ASSUME NEW i \in Ids, NEW t \in Senders \ {s}
      PROVE  (OwnClaims(t, i) \cup PoppedClaims(t, i)) \cap OwnClaims(s, i) = {}
  BY DEF OwnClaims, PoppedClaims
<1>7. \A i \in Ids : Holders(i)' = Holders(i) \ OwnClaims(s, i)
  BY <1>4, <1>5, <1>6 DEF Holders
<1>8. incoming[s] \in Packets
  BY <1>1 DEF IInv, Phases
<1>9. ASSUME NEW i \in Ids
      PROVE  claims'[i] = Minus(claims[i], Cardinality(OwnClaims(s, i)))
  <2>1. i # 0 /\ claims[i] \in Nat
    BY BoundsAssumption DEF Ids, IInv, ClaimTypes
  <2>2. CASE PacketId[incoming[s]] = i
    <3>1. OwnClaims(s, i) = {<<s, 0>>}
      BY <1>1, <2>2 DEF OwnClaims
    <3>2. Cardinality(OwnClaims(s, i)) = 1
      BY <3>1, FS_Singleton
    <3> QED
      BY <1>1, <2>1, <2>2, <3>2 DEF IInv, ClaimTypes
  <2>3. CASE PacketId[incoming[s]] # i
    <3>1. OwnClaims(s, i) = {}
      BY <2>3 DEF OwnClaims
    <3>2. Cardinality(OwnClaims(s, i)) = 0
      BY <3>1, FS_EmptySet
    <3> QED
      BY <1>1, <2>1, <2>3, <3>2 DEF IInv, ClaimTypes, Minus
  <2> QED
    BY <2>2, <2>3
<1>10. ClaimTypes'
  BY <1>1, <1>8, PacketIds DEF IInv, ClaimTypes, PcOf, Minus
<1>11. Phases'
  BY <1>1 DEF IInv, ClaimTypes, Phases
<1>12. \A i \in Ids : /\ R[i] \subseteq Holders(i)
                      /\ Holders(i)' = Holders(i) \ R[i]
                      /\ claims'[i] = Minus(claims[i], Cardinality(R[i]))
  BY <1>2, <1>7, <1>9
<1> HIDE DEF R
<1> QED
  BY <1>10, <1>11, <1>12, Releasing

-----------------------------------------------------------------------------
\* Initially nobody owns anything.
LEMMA InitIInv == Init => IInv
<1> SUFFICES ASSUME Init PROVE IInv
  OBVIOUS
<1>1. ClaimTypes /\ Phases
  BY DEF Init, ClaimTypes, Phases, PcOf
<1>2. \A i \in Ids : Holders(i) = {}
  BY DEF Init, Holders, OwnClaims, PoppedClaims
<1> QED
  BY <1>1, <1>2, FS_EmptySet DEF Init, IInv, HoldersFinite, ClaimsExact

\* The loop steps of a sender: only a popped packet changes who owns what.
LEMMA LoopStep ==
    ASSUME IInv, NEW s \in Senders,
           \/ PopOldest(s) \/ PopMarker(s) \/ PopLocal(s) \/ PopNothing(s)
           \/ ForgetAcked(s) \/ CheckEmpty(s) \/ KeepWaiting(s) \/ GiveUp(s)
           \/ DeadlineExpired(s)
    PROVE  IInv'
<1> USE DEF callVars, loopVars, PcOf
<1>0. ASSUME NEW k, TakeMarker(s, k), pc[s] = "pop",
             incoming' = incoming, isLocal' = isLocal
      PROVE  IInv'
  <2>1. claims' = claims /\ popped' = popped
    BY <1>0 DEF TakeMarker
  <2>2. CASE k \in sent[s]
    BY <1>0, <2>1, <2>2, InsideCall DEF TakeMarker
  <2>3. CASE k \notin sent[s]
    BY <1>0, <2>1, <2>3, OutsideCall DEF TakeMarker
  <2> QED
    BY <2>2, <2>3
<1>1. CASE PopOldest(s)
  <2>1. /\ pc[s] = "pop" /\ incoming' = incoming /\ isLocal' = isLocal
        /\ \E k \in Keys : IF IsPacket(queue.val[k])
                           THEN StartSend(s, k, queue.val[k]) ELSE TakeMarker(s, k)
    BY <1>1 DEF PopOldest
  <2> QED
    BY <2>1, <1>0, Popping DEF IsPacket
<1>2. CASE PopMarker(s)
  BY <1>2, <1>0 DEF PopMarker
<1>3. CASE PopLocal(s)
  <2>1. /\ pc[s] \in {"pop", "popLocal"} /\ incoming' = incoming /\ isLocal' = isLocal
        /\ \E k \in Keys : IsPacket(queue.val[k]) /\ StartSend(s, k, queue.val[k])
    BY <1>3 DEF PopLocal
  <2> QED
    BY <2>1, Popping DEF IsPacket
<1>4. CASE PopNothing(s)
  <2>1. \E x \in {"checkEmpty", "reconcile"} : pc' = [pc EXCEPT ![s] = x]
    BY <1>4 DEF PopNothing, IInv, ClaimTypes
  <2> QED
    BY <1>4, <2>1, InsideCall DEF PopNothing
<1>5. CASE ForgetAcked(s)
  BY <1>5, InsideCall DEF ForgetAcked
<1>6. CASE CheckEmpty(s)
  BY <1>6, InsideCall DEF CheckEmpty, queueVars
<1>7. CASE KeepWaiting(s)
  BY <1>7, InsideCall DEF KeepWaiting, queueVars
<1>8. CASE GiveUp(s)
  BY <1>8, InsideCall DEF GiveUp
<1>9. CASE DeadlineExpired(s)
  BY <1>9, InsideCall DEF DeadlineExpired
<1> QED
  BY <1>1, <1>2, <1>3, <1>4, <1>5, <1>6, <1>7, <1>8, <1>9

\* The transport and the reconciliation move no claim.
LEMMA TransportStep ==
    ASSUME IInv, NEW s \in Senders,
           \/ Transmit(s) \/ SendReturns(s) \/ SendRaises(s) \/ Reconcile(s)
           \/ ReconcileDone(s) \/ SettleDone(s) \/ SettleSent(s) \/ SettleRequeue(s)
    PROVE  IInv'
<1> USE DEF callVars, PcOf
<1>1. CASE Transmit(s)
  BY <1>1, InsideCall DEF Transmit, queueVars, loopVars
<1>2. CASE SendReturns(s)
  BY <1>2, InsideCall DEF SendReturns, queueVars
<1>3. CASE SendRaises(s)
  BY <1>3, InsideCall DEF SendRaises, loopVars
<1>4. CASE Reconcile(s)
  BY <1>4, InsideCall DEF Reconcile, loopVars
<1>5. CASE ReconcileDone(s)
  BY <1>5, InsideCall DEF ReconcileDone, queueVars, loopVars
<1>6. CASE SettleDone(s)
  BY <1>6, InsideCall DEF SettleDone, FinishEntry
<1>7. CASE SettleSent(s)
  BY <1>7, InsideCall DEF SettleSent, FinishEntry
<1>8. CASE SettleRequeue(s)
  BY <1>8, InsideCall DEF SettleRequeue, FinishEntry
<1> QED
  BY <1>1, <1>2, <1>3, <1>4, <1>5, <1>6, <1>7, <1>8

\* The receive thread, time and the handshake move no claim either.
LEMMA OtherStep ==
    ASSUME IInv,
           \/ \E i \in Ids \cup {0}, res \in BOOLEAN, f \in 0..MaxLen :
                 ReceiveStatus(i, res, f)
           \/ ReaderStep
           \/ \E k \in Keys \cap AgingIds : AgeAwaiting(k) \/ AgeTombstone(k)
           \/ LocalNodeChanges
           \/ \E s \in Senders, p \in Packets : RejectDuplicate(s, p)
           \/ UNCHANGED vars
    PROVE  IInv'
<1>1. UNCHANGED <<pc, claims, incoming, isLocal, popped>>
  BY DEF ReceiveStatus, ReaderStep, ApplyError, ApplyAck, ApplyNothing, AgeAwaiting,
         AgeTombstone, LocalNodeChanges, RejectDuplicate, vars, queueVars, senderVars,
         callVars, loopVars
<1> QED
  BY <1>1, OutsideCall

LEMMA NextIInv == IInv /\ [Next]_vars => IInv'
<1> SUFFICES ASSUME IInv, [Next]_vars PROVE IInv'
  OBVIOUS
<1>1. ASSUME NEW s \in Senders, Caller(s)
      PROVE  IInv'
  BY <1>1, AdmitStep, OtherStep DEF Caller
<1>2. ASSUME NEW s \in Senders, SenderStep(s)
      PROVE  IInv'
  BY <1>2, LoopStep, TransportStep, ReleaseStep, ReleaseOwnStep DEF SenderStep
<1>3. ASSUME NEW s \in Senders, GiveUp(s) \/ DeadlineExpired(s) \/ SendRaises(s)
      PROVE  IInv'
  BY <1>3, LoopStep, TransportStep
<1> QED
  BY <1>1, <1>2, <1>3, OtherStep DEF Next

\* Claims are exact in every reachable state: the refcount of an ID that
\* _claim_active_send_id_locked and _release_active_send_id_locked maintain is
\* the number of calls and popped packets that own it.
THEOREM ClaimsAreExact == Spec => []ClaimsExact
<1>1. IInv => ClaimsExact
  BY DEF IInv
<1> QED
  BY InitIInv, NextIInv, <1>1, PTL DEF Spec

\* The types of everything ownership depends on.
THEOREM ClaimsAreTyped == Spec => []ClaimTypes
<1>1. IInv => ClaimTypes
  BY DEF IInv
<1> QED
  BY InitIInv, NextIInv, <1>1, PTL DEF Spec

-----------------------------------------------------------------------------
\* The order and content of the queue and of the senders' resent_queue

Capacities == {"rf", "local", "unset"}
Dict == [val : [Keys -> Values], ord : Seq(Keys)]

EntryTypes ==
    /\ queue.val \in [Keys -> Values]
    /\ resent \in [Senders -> Dict]
    /\ sent \in [Senders -> SUBSET Keys]
    /\ cur \in [Senders -> Keys \cup {0}]
    /\ got \in [Senders -> Values]
    /\ queuedKey \in [Senders -> Keys \cup {0}]
    /\ \A s \in Senders : pc[s] # "idle" => queuedKey[s] \in Keys

BookTypes ==
    /\ usesCapacity \in [Keys -> Capacities]
    /\ claimedKeys \subseteq Keys
    /\ awaiting \in [Keys -> AgeOf]
    /\ cap \in [Senders -> Capacities]
    /\ reader \in [id : Ids \cup {0}, res : BOOLEAN]
    /\ air \subseteq Ids

CountTypes ==
    /\ free \in Nat \cup {NoStatus}
    /\ reported \in Nat \cup {NoStatus}
    /\ calls \in 0..MaxCalls
    /\ nextZeroKey \in Int /\ nextZeroKey <= -1 /\ nextZeroKey >= -1 - calls

\* Keys are packet IDs, which are positive, and negative keys, and the special
\* values are not packets.
LEMMA KeyFacts ==
    /\ Keys \subseteq Int /\ 0 \notin Keys
    /\ Ids \subseteq Keys /\ \A i \in Ids : i > 0
    /\ \A k \in Keys : k > 0 => k \in Ids
    /\ Packets \subseteq Values /\ Acked \in Values /\ Absent \in Values
    /\ Acked \notin Packets /\ Absent \notin Packets /\ Acked # Absent
    /\ NoPacket \notin Packets
<1>1. \A p \in Packets : PacketId[p] \in Nat
  BY PacketsAssumption
<1>2. ForeignIds \subseteq Nat \ {0}
  BY BoundsAssumption
<1>3. Ids \subseteq Nat \ {0}
  BY <1>1, <1>2 DEF Ids
<1>4. MaxCalls \in Nat
  BY BoundsAssumption
<1>5. \A k \in ZeroKeys : k \in Int /\ k < 0
  BY <1>4 DEF ZeroKeys
<1>6. /\ Keys \subseteq Int /\ 0 \notin Keys
      /\ Ids \subseteq Keys /\ \A i \in Ids : i > 0
      /\ \A k \in Keys : k > 0 => k \in Ids
  <2>1. Keys = Ids \cup ZeroKeys
    BY DEF Keys
  <2>2. \A i \in Ids : i \in Int /\ i > 0
    BY <1>3
  <2> QED
    BY <1>5, <2>1, <2>2
<1>7. /\ Packets \subseteq Values /\ Acked \in Values /\ Absent \in Values
      /\ Acked \notin Packets /\ Absent \notin Packets /\ Acked # Absent
      /\ NoPacket \notin Packets
  BY PacketsAssumption DEF Values
<1> QED
  BY <1>6, <1>7

\* Removing the element at place i keeps the others.
LEMMA RemovingAt ==
    ASSUME NEW S, NEW q \in Seq(S), NEW i \in 1..Len(q)
    PROVE  /\ RemoveAt(q, i) \in Seq(S)
           /\ \A n \in 1..Len(q) : n # i =>
                \E m \in 1..Len(RemoveAt(q, i)) : RemoveAt(q, i)[m] = q[n]
<1> DEFINE a == SubSeq(q, 1, i - 1)
           b == SubSeq(q, i + 1, Len(q))
<1>1. /\ a \in Seq(S) /\ Len(a) = i - 1
      /\ \A n \in 1..(i - 1) : a[n] = q[n]
  BY SubSeqProperties
<1>2. /\ b \in Seq(S) /\ Len(b) = Len(q) - i
      /\ \A n \in 1..(Len(q) - i) : b[n] = q[i + n]
  <2>1. /\ b \in Seq(S)
        /\ Len(b) = IF i + 1 <= Len(q) THEN Len(q) - (i + 1) + 1 ELSE 0
        /\ \A n \in 1 .. Len(q) - (i + 1) + 1 : b[n] = q[i + 1 + n - 1]
    BY SubSeqProperties
  <2> QED
    BY <2>1
<1>3. RemoveAt(q, i) = a \o b
  BY DEF RemoveAt
<1> HIDE DEF a, b
<1>4. /\ a \o b \in Seq(S) /\ Len(a \o b) = Len(a) + Len(b)
      /\ \A n \in 1..Len(a) : (a \o b)[n] = a[n]
      /\ \A n \in 1..Len(b) : (a \o b)[Len(a) + n] = b[n]
  <2>1. /\ a \o b \in Seq(S) /\ Len(a \o b) = Len(a) + Len(b)
        /\ \A n \in 1 .. Len(a) + Len(b) :
             (a \o b)[n] = IF n <= Len(a) THEN a[n] ELSE b[n - Len(a)]
    BY <1>1, <1>2, ConcatProperties
  <2>2. \A n \in 1..Len(a) : (a \o b)[n] = a[n]
    BY <2>1, <1>1, <1>2
  <2>3. ASSUME NEW n \in 1..Len(b)
        PROVE  (a \o b)[Len(a) + n] = b[n]
    <3>1. Len(a) + n \in 1 .. Len(a) + Len(b) /\ ~(Len(a) + n <= Len(a))
          /\ Len(a) + n - Len(a) = n
      BY <1>1, <1>2
    <3> QED
      BY <2>1, <3>1
  <2> QED
    BY <2>1, <2>2, <2>3
<1>5. ASSUME NEW n \in 1..Len(q), n # i
      PROVE  \E m \in 1..Len(a \o b) : (a \o b)[m] = q[n]
  <2>1. CASE n < i
    <3>1. n \in 1..Len(a) /\ n \in 1..Len(a \o b)
      BY <1>1, <1>2, <1>4, <2>1
    <3> QED
      BY <1>1, <1>4, <3>1
  <2>2. CASE n > i
    <3>1. /\ n - i \in 1..Len(b) /\ i + (n - i) = n
          /\ Len(a) + (n - i) \in 1..Len(a \o b)
      BY <1>1, <1>2, <1>4, <2>2
    <3>2. (a \o b)[Len(a) + (n - i)] = q[n]
      BY <1>2, <1>4, <3>1
    <3> QED
      BY <3>1, <3>2
  <2> QED
    BY <1>5, <2>1, <2>2
<1> QED
  BY <1>3, <1>4, <1>5

\* Every present key is in the order list.
Complete(d) ==
    \A k \in Keys : OdHas(d, k) => \E n \in 1..Len(d.ord) : d.ord[n] = k

LEMMA EmptyDict ==
    /\ OdEmpty(Keys) \in Dict /\ Complete(OdEmpty(Keys))
    /\ \A k \in Keys : OdEmpty(Keys).val[k] = Absent
<1>1. [k \in Keys |-> Absent] \in [Keys -> Values] /\ << >> \in Seq(Keys)
  BY KeyFacts
<1> QED
  BY <1>1 DEF OdEmpty, Dict, Complete, OdHas

LEMMA PutEntry ==
    ASSUME NEW d \in Dict, Complete(d), NEW k \in Keys, NEW v \in Values
    PROVE  /\ OdPut(d, k, v) \in Dict /\ Complete(OdPut(d, k, v))
           /\ \A j \in Keys : OdPut(d, k, v).val[j] = IF j = k THEN v ELSE d.val[j]
<1>1. d.val \in [Keys -> Values] /\ d.ord \in Seq(Keys)
  BY DEF Dict
<1> DEFINE w == [d.val EXCEPT ![k] = v]
<1>2. w \in [Keys -> Values] /\ \A j \in Keys : w[j] = IF j = k THEN v ELSE d.val[j]
  BY <1>1
<1>3. OdPut(d, k, v) =
        [val |-> w, ord |-> IF OdHas(d, k) THEN d.ord ELSE Append(d.ord, k)]
  BY DEF OdPut
<1> HIDE DEF w
<1>4. CASE OdHas(d, k)
  BY <1>1, <1>2, <1>3, <1>4 DEF Dict, Complete, OdHas
<1>5. CASE ~OdHas(d, k)
  <2> DEFINE o == Append(d.ord, k)
  <2>1. /\ o \in Seq(Keys) /\ Len(o) = Len(d.ord) + 1
        /\ o[Len(d.ord) + 1] = k /\ Len(d.ord) \in Nat
        /\ \A n \in 1..Len(d.ord) : o[n] = d.ord[n]
    BY <1>1
  <2>2. OdPut(d, k, v) = [val |-> w, ord |-> o]
    BY <1>3, <1>5
  <2> HIDE DEF o
  <2>3. ASSUME NEW j \in Keys, w[j] # Absent
        PROVE  \E n \in 1..Len(o) : o[n] = j
    <3>1. CASE j = k
      BY <2>1, <3>1
    <3>2. CASE j # k
      <4>1. PICK n \in 1..Len(d.ord) : d.ord[n] = j
        BY <1>2, <2>3, <3>2 DEF Complete, OdHas
      <4> QED
        BY <2>1, <4>1
    <3> QED
      BY <3>1, <3>2
  <2> QED
    BY <1>2, <2>1, <2>2, <2>3 DEF Dict, Complete, OdHas
<1> QED
  BY <1>4, <1>5

LEMMA PopEntry ==
    ASSUME NEW d \in Dict, Complete(d), NEW k \in Keys
    PROVE  /\ OdPop(d, k) \in Dict /\ Complete(OdPop(d, k))
           /\ \A j \in Keys : OdPop(d, k).val[j] = IF j = k THEN Absent ELSE d.val[j]
<1>1. d.val \in [Keys -> Values] /\ d.ord \in Seq(Keys)
  BY DEF Dict
<1> DEFINE w == [d.val EXCEPT ![k] = Absent]
           x == CHOOSE i \in DOMAIN d.ord : d.ord[i] = k
<1>2. w \in [Keys -> Values] /\ \A j \in Keys : w[j] = IF j = k THEN Absent ELSE d.val[j]
  BY <1>1, KeyFacts
<1>3. OdPop(d, k) =
        [val |-> w, ord |-> IF OdHas(d, k) THEN RemoveAt(d.ord, x) ELSE d.ord]
  BY DEF OdPop
<1>4. CASE OdHas(d, k)
  <2>1. DOMAIN d.ord = 1..Len(d.ord)
    BY <1>1
  <2>2. x \in 1..Len(d.ord) /\ d.ord[x] = k
    BY <1>4, <2>1 DEF Complete
  <2> DEFINE o == RemoveAt(d.ord, x)
  <2>3. OdPop(d, k) = [val |-> w, ord |-> o]
    BY <1>3, <1>4
  <2> HIDE DEF x, w
  <2>4. /\ o \in Seq(Keys)
        /\ \A n \in 1..Len(d.ord) : n # x => \E m \in 1..Len(o) : o[m] = d.ord[n]
    BY <1>1, <2>2, RemovingAt, Zenon
  <2> HIDE DEF o
  <2>5. ASSUME NEW j \in Keys, w[j] # Absent
        PROVE  \E m \in 1..Len(o) : o[m] = j
    <3>1. j # k /\ d.val[j] # Absent
      BY <1>2, <2>5
    <3>2. PICK n \in 1..Len(d.ord) : d.ord[n] = j
      BY <3>1 DEF Complete, OdHas
    <3> QED
      BY <2>2, <2>4, <3>1, <3>2
  <2> QED
    BY <1>2, <2>3, <2>4, <2>5 DEF Dict, Complete, OdHas
<1>5. CASE ~OdHas(d, k)
  <2> HIDE DEF x, w
  <2> QED
    BY <1>1, <1>2, <1>3, <1>5 DEF Dict, Complete, OdHas
<1> QED
  BY <1>4, <1>5

-----------------------------------------------------------------------------
\* What the senders hold

\* Between its first pop and the release of its claims.
Busy(s) == pc[s] \notin {"idle", "release", "releaseOwn"}

InQueue(k) == IsPacket(queue.val[k])
InHand(s, k) == IsPacket(resent[s].val[k])

\* A packet is filed under its ID, or under a negative key if it has none.
Fits(k, v) == IsPacket(v) => PacketId[v] = IdOfKey(k)

EntryOk(s) ==
    /\ InSendImpl(s) => /\ cur[s] \in Keys /\ InHand(s, cur[s])
                        /\ cur[s] > 0 => \E n \in 1..Len(popped[s]) : popped[s][n] = cur[s]
    /\ pc[s] = "settle" => cur[s] \in Keys /\ Fits(cur[s], got[s])
    /\ pc[s] = "forgetAcked" => cur[s] \in Keys
    /\ pc[s] # "settle" => got[s] = Absent
    /\ ~Busy(s) => \A k \in Keys : resent[s].val[k] = Absent
    /\ Complete(resent[s])
    /\ \A k \in Keys : Fits(k, resent[s].val[k])

QueueOk == \A k \in Keys : Fits(k, queue.val[k])

EntryInv == EntryTypes /\ QueueOk /\ \A s \in Senders : EntryOk(s)

\* Entries leave the queue, or become markers.
Weaker ==
    /\ queue'.val \in [Keys -> Values]
    /\ \A k \in Keys : queue'.val[k] \in {queue.val[k], Absent, Acked}

LEMMA WeakerFits == EntryInv /\ Weaker => QueueOk'
BY KeyFacts DEF EntryInv, QueueOk, Weaker, Fits, IsPacket

LEMMA SameIsWeaker == EntryTypes /\ queue'.val = queue.val => Weaker
BY DEF EntryTypes, Weaker

LEMMA PoppedIsWeaker ==
    ASSUME EntryTypes, NEW k, queue' = OdPop(queue, k)
    PROVE  /\ Weaker
           /\ \A j \in Keys : queue'.val[j] = IF j = k THEN Absent ELSE queue.val[j]
<1> DEFINE v == queue.val
           w == queue'.val
<1>1. w = [v EXCEPT ![k] = Absent] /\ v \in [Keys -> Values] /\ Absent \in Values
  BY KeyFacts DEF OdPop, EntryTypes
<1> HIDE DEF v, w
<1>2. w \in [Keys -> Values] /\ \A j \in Keys : w[j] = IF j = k THEN Absent ELSE v[j]
  BY <1>1
<1> QED
  BY <1>2 DEF Weaker, v, w

LEMMA DroppedIsWeaker ==
    ASSUME EntryTypes, NEW S, queue'.val = OdDrop(queue, S).val
    PROVE  /\ Weaker
           /\ \A k \in Keys : queue'.val[k] = IF k \in S THEN Absent ELSE queue.val[k]
<1>1. queue'.val = [k \in DOMAIN queue.val |-> IF k \in S THEN Absent ELSE queue.val[k]]
  BY DEF OdDrop
<1> QED
  BY <1>1, KeyFacts DEF EntryTypes, Weaker

\* Every variable that EntryOk(t) is about is as before, for every t but s.
OthersKeepEntries(s) ==
    \A t \in Senders \ {s} :
        /\ pc'[t] = pc[t] /\ cur'[t] = cur[t] /\ got'[t] = got[t]
        /\ resent'[t] = resent[t] /\ popped'[t] = popped[t]
        /\ queuedKey'[t] = queuedKey[t]

LEMMA OneSender ==
    ASSUME EntryInv, NEW s \in Senders, OthersKeepEntries(s),
           EntryTypes', QueueOk', EntryOk(s)'
    PROVE  EntryInv'
<1>1. ASSUME NEW t \in Senders, t # s
      PROVE  EntryOk(t)'
  <2>1. EntryOk(t)
    BY DEF EntryInv
  <2>2. /\ pc'[t] = pc[t] /\ cur'[t] = cur[t] /\ got'[t] = got[t]
        /\ resent'[t] = resent[t] /\ popped'[t] = popped[t]
    BY <1>1 DEF OthersKeepEntries
  <2> QED
    BY <2>1, <2>2 DEF EntryOk, InSendImpl, Busy, InHand
<1> QED
  BY <1>1 DEF EntryInv

\* A sender goes on inside its call and leaves what it holds alone.
LEMMA Moving ==
    ASSUME IInv, EntryInv, NEW s \in Senders, NEW x \in PcOf,
           pc' = [pc EXCEPT ![s] = x],
           pc[s] \notin {"idle", "settle"}, x \notin {"idle", "settle", "forgetAcked"},
           x \in {"send", "onAir"} => InSendImpl(s),
           x \in {"release", "releaseOwn"} => \A k \in Keys : resent[s].val[k] = Absent,
           UNCHANGED <<resent, cur, got, popped, queuedKey>>,
           sent' \in [Senders -> SUBSET Keys], Weaker
    PROVE  EntryInv'
<1>0. pc \in [Senders -> PcOf]
  BY DEF IInv, ClaimTypes
<1>1. /\ pc'[s] = x
      /\ \A t \in Senders \ {s} : pc'[t] = pc[t]
  BY <1>0
<1>2. EntryTypes'
  BY <1>1 DEF EntryInv, EntryTypes, Weaker
<1>3. EntryOk(s)
  BY DEF EntryInv
<1>4. EntryOk(s)'
  BY <1>1, <1>3 DEF EntryOk, InSendImpl, Busy, InHand
<1>5. OthersKeepEntries(s)
  BY <1>1 DEF OthersKeepEntries
<1> QED
  BY <1>2, <1>4, <1>5, OneSender, WeakerFits

\* No sender moves.
LEMMA NotMoving ==
    ASSUME EntryInv, UNCHANGED <<pc, resent, sent, cur, got, popped, queuedKey>>, Weaker
    PROVE  EntryInv'
<1>1. EntryTypes'
  BY DEF EntryInv, EntryTypes, Weaker
<1>2. \A s \in Senders : EntryOk(s)'
  BY DEF EntryInv, EntryOk, InSendImpl, Busy, InHand
<1> QED
  BY <1>1, <1>2, WeakerFits DEF EntryInv

\* The key under which a call files its packet.
LEMMA NewKey ==
    ASSUME CountTypes, NEW p \in Packets, calls < MaxCalls
    PROVE  LET k == IF PacketId[p] = 0 THEN nextZeroKey ELSE PacketId[p]
           IN  k \in Keys /\ Fits(k, p)
<1>1. PacketId[p] \in Nat /\ MaxCalls \in Nat /\ calls \in Nat
  BY PacketsAssumption, BoundsAssumption DEF CountTypes
<1>2. CASE PacketId[p] = 0
  <2>1. nextZeroKey \in (0 - MaxCalls)..(-1)
    BY <1>1 DEF CountTypes
  <2> QED
    BY <1>2, <2>1 DEF Keys, ZeroKeys, Fits, IdOfKey
<1>3. CASE PacketId[p] # 0
  BY <1>1, <1>3, PacketIds, KeyFacts DEF Fits, IdOfKey
<1> QED
  BY <1>2, <1>3

LEMMA AdmitEntries ==
    ASSUME IInv, EntryInv, CountTypes, NEW s \in Senders, NEW p \in Packets, Admit(s, p)
    PROVE  EntryInv'
<1>1. PICK k \in Keys : /\ Fits(k, p)
                        /\ queue' = OdPut(queue, k, p)
                        /\ queuedKey' = [queuedKey EXCEPT ![s] = k]
  BY NewKey DEF Admit
<1>2. PICK x \in {"pop", "popLocal"} : pc' = [pc EXCEPT ![s] = x]
  BY DEF Admit
<1>3. /\ resent' = [resent EXCEPT ![s] = OdEmpty(Keys)]
      /\ sent' = [sent EXCEPT ![s] = {}]
      /\ popped' = [popped EXCEPT ![s] = << >>]
      /\ cur' = cur /\ got' = got /\ pc[s] = "idle"
  BY DEF Admit, entryVars
<1>4. /\ pc \in [Senders -> PcOf] /\ popped \in [Senders -> Seq(Ids)]
      /\ EntryTypes /\ QueueOk /\ EntryOk(s)
  BY DEF IInv, ClaimTypes, EntryInv
<1>5. queue'.val = [queue.val EXCEPT ![k] = p]
  BY <1>1 DEF OdPut
<1>6. queue'.val \in [Keys -> Values] /\ QueueOk'
  <2>1. queue.val \in [Keys -> Values] /\ p \in Values
    BY <1>4, KeyFacts DEF EntryTypes
  <2>2. /\ queue'.val \in [Keys -> Values]
        /\ \A j \in Keys : queue'.val[j] = IF j = k THEN p ELSE queue.val[j]
    BY <1>5, <2>1
  <2> QED
    BY <1>1, <1>4, <2>2 DEF QueueOk, Fits, IsPacket
<1>7. /\ pc'[s] = x /\ resent'[s] = OdEmpty(Keys) /\ got'[s] = got[s]
      /\ \A t \in Senders \ {s} : /\ pc'[t] = pc[t] /\ resent'[t] = resent[t]
                                  /\ popped'[t] = popped[t] /\ queuedKey'[t] = queuedKey[t]
  BY <1>1, <1>2, <1>3, <1>4 DEF EntryTypes
<1>8. EntryTypes'
  <2>1. resent' \in [Senders -> Dict]
    BY <1>3, <1>4, EmptyDict DEF EntryTypes
  <2>2. /\ sent' \in [Senders -> SUBSET Keys] /\ queuedKey' \in [Senders -> Keys \cup {0}]
        /\ queuedKey'[s] = k
    BY <1>1, <1>3, <1>4 DEF EntryTypes
  <2> QED
    BY <1>3, <1>4, <1>6, <1>7, <2>1, <2>2 DEF EntryTypes
<1>9. EntryOk(s)'
  BY <1>2, <1>3, <1>4, <1>7, EmptyDict, KeyFacts DEF EntryOk, InSendImpl, Busy, Fits, IsPacket
<1>10. OthersKeepEntries(s)
  BY <1>3, <1>7 DEF OthersKeepEntries
<1> QED
  BY <1>6, <1>8, <1>9, <1>10, OneSender

\* A packet is popped: it is in the hands of its sender, who owns its ID.
LEMMA TakeEntries ==
    ASSUME IInv, EntryInv, NEW s \in Senders, NEW k \in Keys, NEW p \in Packets, Fits(k, p),
           pc[s] \in {"pop", "popLocal"}, StartSend(s, k, p), Weaker,
           UNCHANGED <<got, queuedKey>>
    PROVE  EntryInv'
<1>1. /\ resent' = [resent EXCEPT ![s] = OdPut(resent[s], k, p)]
      /\ cur' = [cur EXCEPT ![s] = k] /\ pc' = [pc EXCEPT ![s] = "send"] /\ sent' = sent
      /\ popped' = IF PacketId[p] = 0 THEN popped
                   ELSE [popped EXCEPT ![s] = Append(popped[s], PacketId[p])]
  BY DEF StartSend
<1>2. /\ pc \in [Senders -> PcOf] /\ popped \in [Senders -> Seq(Ids)]
      /\ EntryTypes /\ QueueOk /\ EntryOk(s)
  BY DEF IInv, ClaimTypes, EntryInv
<1>3. resent[s] \in Dict /\ Complete(resent[s]) /\ p \in Values
  BY <1>2, KeyFacts DEF EntryTypes, EntryOk
<1>4. /\ OdPut(resent[s], k, p) \in Dict /\ Complete(OdPut(resent[s], k, p))
      /\ \A j \in Keys : OdPut(resent[s], k, p).val[j] = IF j = k THEN p ELSE resent[s].val[j]
  BY <1>3, PutEntry
<1>5. /\ pc'[s] = "send" /\ cur'[s] = k /\ resent'[s] = OdPut(resent[s], k, p)
      /\ \A t \in Senders \ {s} : /\ pc'[t] = pc[t] /\ resent'[t] = resent[t]
                                  /\ popped'[t] = popped[t] /\ cur'[t] = cur[t]
  BY <1>1, <1>2 DEF EntryTypes
<1>6. EntryTypes'
  <2>1. resent' \in [Senders -> Dict] /\ cur' \in [Senders -> Keys \cup {0}]
    BY <1>1, <1>2, <1>4 DEF EntryTypes
  <2>2. \A t \in Senders : pc'[t] # "idle" => pc[t] # "idle"
    BY <1>5
  <2> QED
    BY <1>1, <1>2, <2>1, <2>2 DEF EntryTypes, Weaker
<1>7. cur'[s] > 0 => \E n \in 1..Len(popped'[s]) : popped'[s][n] = cur'[s]
  <2>1. CASE k > 0
    <3>1. PacketId[p] = k /\ k # 0
      BY <2>1, KeyFacts DEF Fits, IsPacket, IdOfKey
    <3>2. k \in Ids
      BY <2>1, KeyFacts
    <3>3. popped'[s] = Append(popped[s], k) /\ popped[s] \in Seq(Ids)
      BY <1>1, <1>2, <3>1
    <3>4. /\ Len(popped'[s]) = Len(popped[s]) + 1 /\ Len(popped[s]) \in Nat
          /\ popped'[s][Len(popped[s]) + 1] = k
      BY <3>2, <3>3
    <3> QED
      BY <1>5, <3>4
  <2> QED
    BY <1>5, <2>1
<1>8. EntryOk(s)'
  <2>1. InHand(s, k)'
    BY <1>4, <1>5 DEF InHand, IsPacket
  <2>2. \A j \in Keys : Fits(j, resent'[s].val[j])
    BY <1>2, <1>4, <1>5 DEF EntryOk
  <2>3. got'[s] = Absent
    BY <1>2 DEF EntryOk
  <2> QED
    BY <1>4, <1>5, <1>7, <2>1, <2>2, <2>3 DEF EntryOk, InSendImpl, Busy
<1>9. OthersKeepEntries(s)
  BY <1>5 DEF OthersKeepEntries
<1> QED
  BY <1>6, <1>8, <1>9, OneSender, WeakerFits

\* A marker is popped.
LEMMA MarkerEntries ==
    ASSUME IInv, EntryInv, NEW s \in Senders, NEW k \in Keys, pc[s] = "pop",
           TakeMarker(s, k), Weaker, UNCHANGED <<got, queuedKey>>
    PROVE  EntryInv'
<1>1. /\ pc \in [Senders -> PcOf] /\ popped' = popped
      /\ EntryTypes /\ QueueOk /\ EntryOk(s)
  BY DEF IInv, ClaimTypes, EntryInv, TakeMarker
<1>2. resent[s] \in Dict /\ Complete(resent[s]) /\ got[s] = Absent
  BY <1>1 DEF EntryTypes, EntryOk
<1>3. PICK d \in Dict : /\ resent' = [resent EXCEPT ![s] = d] /\ Complete(d)
                        /\ \A j \in Keys : d.val[j] = resent[s].val[j] \/ d.val[j] \in {Absent, Acked}
  <2>1. CASE k \in sent[s]
    <3>1. /\ OdPop(resent[s], k) \in Dict /\ Complete(OdPop(resent[s], k))
          /\ \A j \in Keys : OdPop(resent[s], k).val[j] = IF j = k THEN Absent ELSE resent[s].val[j]
      BY <1>2, PopEntry
    <3>2. resent' = [resent EXCEPT ![s] = OdPop(resent[s], k)]
      BY <2>1 DEF TakeMarker
    <3> QED
      BY <3>1, <3>2
  <2>2. CASE k \notin sent[s]
    <3>1. /\ OdPut(resent[s], k, Acked) \in Dict /\ Complete(OdPut(resent[s], k, Acked))
          /\ \A j \in Keys : OdPut(resent[s], k, Acked).val[j] = IF j = k THEN Acked ELSE resent[s].val[j]
      BY <1>2, PutEntry, KeyFacts
    <3>2. resent' = [resent EXCEPT ![s] = OdPut(resent[s], k, Acked)]
      BY <2>2 DEF TakeMarker
    <3> QED
      BY <3>1, <3>2
  <2> QED
    BY <2>1, <2>2
<1>4. \/ /\ pc' = pc /\ cur' = cur /\ sent' = sent
      \/ /\ pc' = [pc EXCEPT ![s] = "forgetAcked"] /\ cur' = [cur EXCEPT ![s] = k]
         /\ sent' = [sent EXCEPT ![s] = @ \ {k}]
  BY DEF TakeMarker
<1>5. /\ resent'[s] = d /\ \A t \in Senders \ {s} : resent'[t] = resent[t]
      /\ resent' \in [Senders -> Dict]
  BY <1>1, <1>3 DEF EntryTypes
<1>6. /\ \A t \in Senders \ {s} : pc'[t] = pc[t] /\ cur'[t] = cur[t]
      /\ pc'[s] = "pop" \/ (pc'[s] = "forgetAcked" /\ cur'[s] = k)
  BY <1>1, <1>4 DEF EntryTypes
<1>7. EntryTypes'
  BY <1>1, <1>4, <1>5, <1>6 DEF EntryTypes, Weaker
<1>8. EntryOk(s)'
  <2>1. \A j \in Keys : Fits(j, resent'[s].val[j])
    BY <1>1, <1>3, <1>5, KeyFacts DEF EntryOk, Fits, IsPacket
  <2> QED
    BY <1>2, <1>3, <1>5, <1>6, <2>1 DEF EntryOk, InSendImpl, Busy
<1>9. OthersKeepEntries(s)
  BY <1>1, <1>5, <1>6 DEF OthersKeepEntries
<1> QED
  BY <1>7, <1>8, <1>9, OneSender, WeakerFits

\* The reconciliation takes what the queue holds under the key.
LEMMA ReconcileEntries ==
    ASSUME IInv, EntryInv, NEW s \in Senders, Reconcile(s)
    PROVE  EntryInv' /\ Weaker
<1>1. PICK k \in Keys : /\ got' = [got EXCEPT ![s] = queue.val[k]]
                        /\ queue' = OdPop(queue, k)
                        /\ cur' = [cur EXCEPT ![s] = k]
  BY DEF Reconcile
<1>2. /\ pc[s] = "reconcile" /\ pc' = [pc EXCEPT ![s] = "settle"]
      /\ UNCHANGED <<resent, sent, popped, queuedKey>>
  BY DEF Reconcile, callVars, loopVars
<1>3. /\ pc \in [Senders -> PcOf]
      /\ EntryTypes /\ QueueOk /\ EntryOk(s)
  BY DEF IInv, ClaimTypes, EntryInv
<1>4. Weaker
  BY <1>1, <1>3, PoppedIsWeaker
<1>5. /\ pc'[s] = "settle" /\ cur'[s] = k /\ got'[s] = queue.val[k]
      /\ \A t \in Senders \ {s} : pc'[t] = pc[t] /\ cur'[t] = cur[t] /\ got'[t] = got[t]
  BY <1>1, <1>2, <1>3 DEF EntryTypes
<1>6. EntryTypes'
  <2>1. got' \in [Senders -> Values] /\ cur' \in [Senders -> Keys \cup {0}]
    BY <1>1, <1>3 DEF EntryTypes
  <2> QED
    BY <1>2, <1>3, <1>4, <1>5, <2>1 DEF EntryTypes, Weaker
<1>7. EntryOk(s)'
  BY <1>2, <1>3, <1>5 DEF EntryOk, InSendImpl, Busy, QueueOk
<1>8. OthersKeepEntries(s)
  BY <1>2, <1>5 DEF OthersKeepEntries
<1> QED
  BY <1>4, <1>6, <1>7, <1>8, OneSender, WeakerFits

\* An entry has been reconciled, whatever is put back in the queue.
LEMMA FinishEntries ==
    ASSUME IInv, EntryInv, NEW s \in Senders, pc[s] = "settle", FinishEntry(s, cur[s]),
           queue'.val \in [Keys -> Values], QueueOk'
    PROVE  EntryInv'
<1> DEFINE k == cur[s]
<1>1. /\ resent' = [resent EXCEPT ![s] = OdPop(resent[s], k)]
      /\ got' = [got EXCEPT ![s] = Absent]
      /\ pc' = [pc EXCEPT ![s] = "reconcile"]
      /\ UNCHANGED <<sent, popped, cur, queuedKey>>
  BY DEF FinishEntry, callVars
<1>2. /\ pc \in [Senders -> PcOf]
      /\ EntryTypes /\ EntryOk(s)
  BY DEF IInv, ClaimTypes, EntryInv
<1>3. /\ OdPop(resent[s], k) \in Dict /\ Complete(OdPop(resent[s], k))
      /\ \A j \in Keys : OdPop(resent[s], k).val[j] = IF j = k THEN Absent ELSE resent[s].val[j]
  <2>1. resent[s] \in Dict /\ Complete(resent[s]) /\ k \in Keys
    BY <1>2 DEF EntryTypes, EntryOk
  <2> QED
    BY <2>1, PopEntry
<1>4. /\ pc'[s] = "reconcile" /\ got'[s] = Absent /\ resent'[s] = OdPop(resent[s], k)
      /\ \A t \in Senders \ {s} : pc'[t] = pc[t] /\ resent'[t] = resent[t] /\ got'[t] = got[t]
  BY <1>1, <1>2 DEF EntryTypes
<1>5. EntryTypes'
  <2>1. got' \in [Senders -> Values] /\ resent' \in [Senders -> Dict]
    BY <1>1, <1>2, <1>3, KeyFacts DEF EntryTypes
  <2> QED
    BY <1>1, <1>2, <1>4, <2>1 DEF EntryTypes
<1>6. EntryOk(s)'
  <2>1. \A j \in Keys : Fits(j, resent'[s].val[j])
    BY <1>2, <1>3, <1>4, KeyFacts DEF EntryOk, Fits, IsPacket
  <2> QED
    BY <1>3, <1>4, <2>1 DEF EntryOk, InSendImpl, Busy
<1>7. OthersKeepEntries(s)
  BY <1>1, <1>4 DEF OthersKeepEntries
<1> QED
  BY <1>5, <1>6, <1>7, OneSender

\* What is under key k after a requeue: the packet, or what was there.
LEMMA PutBeforeLocalValue ==
    ASSUME NEW u, NEW d, d.val \in [Keys -> Values], NEW k \in Keys, NEW p \in Values
    PROVE  /\ PutBeforeLocal(u, d, k, p).val \in [Keys -> Values]
           /\ \A j \in Keys \ {k} : PutBeforeLocal(u, d, k, p).val[j] = d.val[j]
           /\ \/ PutBeforeLocal(u, d, k, p).val[k] = p
              \/ /\ PutBeforeLocal(u, d, k, p).val[k] = d.val[k]
                 /\ OdHas(d, k)
<1> DEFINE w == PutBeforeLocal(u, d, k, p).val
           v == d.val
<1>1. (w = v /\ OdHas(d, k)) \/ w = [v EXCEPT ![k] = p]
  BY DEF PutBeforeLocal, OdPut
<1>2. v \in [Keys -> Values]
  OBVIOUS
<1> SUFFICES /\ w \in [Keys -> Values]
             /\ \A j \in Keys \ {k} : w[j] = v[j]
             /\ w[k] = p \/ (w[k] = v[k] /\ OdHas(d, k))
  OBVIOUS
<1> HIDE DEF w, v
<1> QED
  BY <1>1, <1>2

\* The packet that goes back fits its key.
LEMMA RequeuedFits ==
    ASSUME EntryInv, NEW s \in Senders, pc[s] = "settle", ToRequeue(s, cur[s]) # Absent
    PROVE  /\ cur[s] \in Keys /\ ToRequeue(s, cur[s]) \in Packets
           /\ Fits(cur[s], ToRequeue(s, cur[s]))
BY DEF EntryInv, EntryOk, ToRequeue, IsPacket

LEMMA RequeuedQueue ==
    ASSUME EntryInv, NEW s \in Senders, SettleRequeue(s)
    PROVE  LET k == cur[s] IN
           /\ queue'.val \in [Keys -> Values] /\ QueueOk'
           /\ \A j \in Keys \ {k} : queue'.val[j] = queue.val[j]
           /\ queue'.val[k] = ToRequeue(s, k) \/ (queue'.val[k] = queue.val[k] /\ OdHas(queue, k))
<1> DEFINE k == cur[s]
           p == ToRequeue(s, k)
<1>1. pc[s] = "settle" /\ p # Absent
  BY DEF SettleRequeue
<1>2. k \in Keys /\ p \in Packets /\ p \in Values /\ Fits(k, p)
  BY <1>1, RequeuedFits, KeyFacts
<1>3. queue.val \in [Keys -> Values] /\ QueueOk
  BY DEF EntryInv, EntryTypes
<1>4. (\E u : queue' = PutBeforeLocal(u, queue, k, p)) \/ queue' = OdPut(queue, k, p)
  BY DEF SettleRequeue
<1> HIDE DEF k, p
<1>5. /\ queue'.val \in [Keys -> Values]
      /\ \A j \in Keys \ {k} : queue'.val[j] = queue.val[j]
      /\ queue'.val[k] = p \/ (queue'.val[k] = queue.val[k] /\ OdHas(queue, k))
  <2>1. CASE queue' = OdPut(queue, k, p)
    <3>1. queue'.val = [queue.val EXCEPT ![k] = p]
      BY <2>1 DEF OdPut
    <3> QED
      BY <3>1, <1>2, <1>3
  <2>2. ASSUME NEW u, queue' = PutBeforeLocal(u, queue, k, p)
        PROVE  /\ queue'.val \in [Keys -> Values]
               /\ \A j \in Keys \ {k} : queue'.val[j] = queue.val[j]
               /\ queue'.val[k] = p \/ (queue'.val[k] = queue.val[k] /\ OdHas(queue, k))
    <3>1. /\ PutBeforeLocal(u, queue, k, p).val \in [Keys -> Values]
          /\ \A j \in Keys \ {k} : PutBeforeLocal(u, queue, k, p).val[j] = queue.val[j]
          /\ \/ PutBeforeLocal(u, queue, k, p).val[k] = p
             \/ /\ PutBeforeLocal(u, queue, k, p).val[k] = queue.val[k]
                /\ OdHas(queue, k)
      BY <1>2, <1>3, PutBeforeLocalValue, Zenon
    <3> QED
      BY <2>2, <3>1
  <2> QED
    BY <1>4, <2>1, <2>2
<1>6. QueueOk'
  BY <1>2, <1>3, <1>5 DEF QueueOk, Fits, IsPacket
<1> QED
  BY <1>5, <1>6 DEF k, p

LEMMA ReleaseEntries ==
    ASSUME IInv, EntryInv, NEW s \in Senders, Release(s) \/ ReleaseOwn(s)
    PROVE  EntryInv'
<1>1. PICK x \in {"idle", "releaseOwn"} : pc' = [pc EXCEPT ![s] = x]
  BY DEF Release, ReleaseOwn
<1>2. /\ pc[s] \in {"release", "releaseOwn"}
      /\ \A t \in Senders \ {s} : popped'[t] = popped[t]
      /\ UNCHANGED <<queue, resent, sent, cur, got, queuedKey>>
  BY DEF Release, ReleaseOwn, callVars, loopVars, entryVars, IInv, ClaimTypes
<1>3. /\ pc \in [Senders -> PcOf]
      /\ EntryTypes /\ QueueOk /\ EntryOk(s)
  BY DEF IInv, ClaimTypes, EntryInv
<1>4. pc'[s] = x /\ \A t \in Senders \ {s} : pc'[t] = pc[t]
  BY <1>1, <1>3
<1>5. EntryTypes' /\ QueueOk'
  BY <1>2, <1>3, <1>4 DEF EntryTypes, QueueOk
<1>6. EntryOk(s)'
  BY <1>2, <1>3, <1>4 DEF EntryOk, InSendImpl, Busy
<1>7. OthersKeepEntries(s)
  BY <1>2, <1>4 DEF OthersKeepEntries
<1> QED
  BY <1>5, <1>6, <1>7, OneSender

LEMMA DropUnsentIsWeaker ==
    ASSUME EntryTypes, NEW s \in Senders, DropUnsent(s)
    PROVE  Weaker
BY PoppedIsWeaker, SameIsWeaker DEF DropUnsent

\* The queue after markers have been taken out.
LEMMA WithoutMarkersValue ==
    ASSUME NEW d, d.val \in [Keys -> Values], NEW S
    PROVE  /\ WithoutMarkers(d, S).val \in [Keys -> Values]
           /\ \A k \in Keys : WithoutMarkers(d, S).val[k] =
                IF k \in S /\ d.val[k] = Acked THEN Absent ELSE d.val[k]
<1> DEFINE v == d.val
           w == WithoutMarkers(d, S).val
<1>1. v \in [Keys -> Values] /\ Absent \in Values
  BY KeyFacts
<1>2. w = [k \in DOMAIN v |-> IF k \in {j \in S : v[j] = Acked} THEN Absent ELSE v[k]]
  BY DEF WithoutMarkers, OdDrop
<1> SUFFICES /\ w \in [Keys -> Values]
             /\ \A k \in Keys : w[k] = IF k \in S /\ v[k] = Acked THEN Absent ELSE v[k]
  OBVIOUS
<1> HIDE DEF w, v
<1> QED
  BY <1>1, <1>2

\* No tombstone of an ID that is being sent is removed.
LEMMA EvictedIdle ==
    ASSUME NEW t, NEW k \in Evicted(t)
    PROVE  ~Active(k)
BY DEF Evicted

\* What an acknowledgement does to the queue: markers of idle IDs go, and the
\* acknowledged key is empty or marked, which it is only if it held no packet.
LEMMA AckQueue ==
    ASSUME EntryTypes, BookTypes, ApplyAck
    PROVE  LET i == reader.id IN
           /\ i \in Ids
           /\ queue'.val \in [Keys -> Values]
           /\ \A k \in Keys \ {i} :
                \/ queue'.val[k] = queue.val[k]
                \/ queue.val[k] = Acked /\ queue'.val[k] = Absent /\ ~Active(k)
           /\ \/ queue'.val[i] = Absent
              \/ queue'.val[i] = Acked /\ queue.val[i] \in {Absent, Acked}
<1> DEFINE i == reader.id
           evicted == Evicted(tombstones)
           q == WithoutMarkers(queue, evicted)
           marked == OdPut(OdPop(OdDrop(tombstones, evicted), i), i, "fresh")
           again == Evicted(marked)
           qa == OdPut(q, i, Acked)
<1>1. i \in Ids /\ i \in Keys
  BY KeyFacts DEF ApplyAck, BookTypes
<1>2. \/ ~OdHas(q, i) /\ queue' = WithoutMarkers(qa, again)
      \/ queue' = OdPop(q, i)
  BY DEF ApplyAck
<1>3. \A k : k \in evicted \/ k \in again => ~Active(k)
  BY EvictedIdle
<1>4. queue.val \in [Keys -> Values] /\ Acked \in Values /\ Absent \in Values /\ Acked # Absent
  BY KeyFacts DEF EntryTypes
<1> HIDE DEF evicted, again
<1>5. /\ q.val \in [Keys -> Values]
      /\ \A k \in Keys : q.val[k] =
           IF k \in evicted /\ queue.val[k] = Acked THEN Absent ELSE queue.val[k]
  BY <1>4, WithoutMarkersValue
<1> HIDE DEF q
<1>6. /\ qa.val \in [Keys -> Values]
      /\ \A k \in Keys : qa.val[k] = IF k = i THEN Acked ELSE q.val[k]
  <2>1. qa.val = [q.val EXCEPT ![i] = Acked]
    BY DEF OdPut
  <2> HIDE DEF qa
  <2> QED
    BY <1>4, <1>5, <2>1
<1> HIDE DEF qa, i
<1>7. CASE ~OdHas(q, i) /\ queue' = WithoutMarkers(qa, again)
  <2>1. /\ WithoutMarkers(qa, again).val \in [Keys -> Values]
        /\ \A k \in Keys : WithoutMarkers(qa, again).val[k] =
             IF k \in again /\ qa.val[k] = Acked THEN Absent ELSE qa.val[k]
    BY <1>6, WithoutMarkersValue
  <2>2. /\ queue'.val \in [Keys -> Values]
        /\ \A k \in Keys : queue'.val[k] =
             IF k \in again /\ qa.val[k] = Acked THEN Absent ELSE qa.val[k]
    BY <1>7, <2>1
  <2>3. \A k \in Keys \ {i} :
          \/ queue'.val[k] = queue.val[k]
          \/ queue.val[k] = Acked /\ queue'.val[k] = Absent /\ ~Active(k)
    BY <1>3, <1>5, <1>6, <2>2
  <2>4. queue'.val[i] \in {Absent, Acked} /\ queue.val[i] \in {Absent, Acked}
    BY <1>1, <1>5, <1>6, <1>7, <2>2 DEF OdHas
  <2> QED
    BY <1>1, <2>2, <2>3, <2>4 DEF i
<1>8. CASE queue' = OdPop(q, i)
  <2>1. queue'.val = [q.val EXCEPT ![i] = Absent]
    BY <1>8 DEF OdPop
  <2>2. /\ queue'.val \in [Keys -> Values]
        /\ \A k \in Keys : queue'.val[k] = IF k = i THEN Absent ELSE q.val[k]
    BY <1>4, <1>5, <2>1
  <2>3. \A k \in Keys \ {i} :
          \/ queue'.val[k] = queue.val[k]
          \/ queue.val[k] = Acked /\ queue'.val[k] = Absent /\ ~Active(k)
    BY <1>3, <1>5, <2>2
  <2> QED
    BY <1>1, <2>2, <2>3 DEF i
<1> QED
  BY <1>2, <1>7, <1>8

\* What an error report does to it: at most a marker under a key that held nothing.
LEMMA ErrorQueue ==
    ASSUME EntryTypes, BookTypes, ApplyError
    PROVE  LET i == reader.id IN
           /\ i \in Ids
           /\ queue'.val \in [Keys -> Values]
           /\ \A k \in Keys \ {i} : queue'.val[k] = queue.val[k]
           /\ \/ queue'.val[i] = queue.val[i]
              \/ /\ queue.val[i] = Absent /\ queue'.val[i] = Acked
                 /\ awaiting[i] = "no" /\ usesCapacity[i] # "unset"
<1> DEFINE i == reader.id
<1>1. i \in Ids /\ i \in Keys
  BY KeyFacts DEF ApplyError, BookTypes
<1>2. \/ queue' = queue
      \/ /\ ~OdHas(queue, i) /\ queue' = OdPut(queue, i, Acked)
         /\ awaiting[i] = "no" /\ usesCapacity[i] # "unset"
  BY DEF ApplyError
<1>3. queue.val \in [Keys -> Values] /\ Acked \in Values
  BY KeyFacts DEF EntryTypes
<1> HIDE DEF i
<1>4. CASE queue' = OdPut(queue, i, Acked) /\ ~OdHas(queue, i)
           /\ awaiting[i] = "no" /\ usesCapacity[i] # "unset"
  <2>1. queue'.val = [queue.val EXCEPT ![i] = Acked]
    BY <1>4 DEF OdPut
  <2>2. /\ queue'.val \in [Keys -> Values]
        /\ \A k \in Keys : queue'.val[k] = IF k = i THEN Acked ELSE queue.val[k]
    BY <1>3, <2>1
  <2> QED
    BY <1>1, <1>4, <2>2 DEF OdHas, i
<1>5. CASE queue' = queue
  BY <1>1, <1>3, <1>5 DEF i
<1> QED
  BY <1>2, <1>4, <1>5

LEMMA ReaderIsWeaker ==
    ASSUME EntryTypes, BookTypes, ApplyError \/ ApplyAck
    PROVE  Weaker
<1>1. CASE ApplyError
  BY <1>1, ErrorQueue DEF Weaker
<1>2. CASE ApplyAck
  BY <1>2, AckQueue, KeyFacts DEF Weaker
<1> QED
  BY <1>1, <1>2

LEMMA LoopEntries ==
    ASSUME IInv, EntryInv, NEW s \in Senders,
           \/ PopOldest(s) \/ PopMarker(s) \/ PopLocal(s) \/ PopNothing(s)
           \/ ForgetAcked(s) \/ CheckEmpty(s) \/ KeepWaiting(s) \/ GiveUp(s)
           \/ DeadlineExpired(s)
    PROVE  EntryInv'
<1> USE DEF callVars, loopVars, entryVars, PcOf
<1>0. /\ EntryTypes /\ QueueOk /\ pc[s] \in PcOf
      /\ queue' = queue => Weaker
  BY SameIsWeaker DEF EntryInv, IInv, ClaimTypes
<1>1. CASE PopOldest(s)
  <2>1. PICK k \in Keys : /\ queue' = OdPop(queue, k)
                          /\ IF IsPacket(queue.val[k])
                             THEN StartSend(s, k, queue.val[k]) ELSE TakeMarker(s, k)
    BY <1>1 DEF PopOldest
  <2>2. pc[s] = "pop" /\ UNCHANGED <<got, queuedKey>>
    BY <1>1 DEF PopOldest
  <2>3. Weaker
    BY <1>0, <2>1, PoppedIsWeaker
  <2>4. CASE IsPacket(queue.val[k])
    BY <1>0, <2>1, <2>2, <2>3, <2>4, TakeEntries DEF QueueOk, IsPacket
  <2>5. CASE ~IsPacket(queue.val[k])
    BY <2>1, <2>2, <2>3, <2>5, MarkerEntries
  <2> QED
    BY <2>4, <2>5
<1>2. CASE PopMarker(s)
  <2>1. PICK k \in Keys : queue' = OdPop(queue, k) /\ TakeMarker(s, k)
    BY <1>2 DEF PopMarker
  <2>2. pc[s] = "pop" /\ UNCHANGED <<got, queuedKey>>
    BY <1>2 DEF PopMarker
  <2> QED
    BY <1>0, <2>1, <2>2, PoppedIsWeaker, MarkerEntries
<1>3. CASE PopLocal(s)
  <2>1. PICK k \in Keys : /\ queue' = OdPop(queue, k) /\ IsPacket(queue.val[k])
                          /\ StartSend(s, k, queue.val[k])
    BY <1>3 DEF PopLocal
  <2>2. pc[s] \in {"pop", "popLocal"} /\ UNCHANGED <<got, queuedKey>>
    BY <1>3 DEF PopLocal
  <2> QED
    BY <1>0, <2>1, <2>2, PoppedIsWeaker, TakeEntries DEF QueueOk, IsPacket
<1>4. ASSUME NEW x \in {"pop", "checkEmpty", "blocked", "reconcile"},
             pc' = [pc EXCEPT ![s] = x],
             pc[s] \in {"pop", "popLocal", "forgetAcked", "checkEmpty", "blocked"},
             UNCHANGED <<resent, cur, got, popped, queuedKey, sent>>, Weaker
      PROVE  EntryInv'
  BY <1>0, <1>4, Moving DEF EntryTypes
<1>5. CASE PopNothing(s)
  <2>1. \E x \in {"checkEmpty", "reconcile"} : pc' = [pc EXCEPT ![s] = x]
    BY <1>5 DEF PopNothing
  <2> QED
    BY <1>0, <1>4, <1>5, <2>1 DEF PopNothing
<1>6. CASE ForgetAcked(s)
  BY <1>0, <1>4, <1>6 DEF ForgetAcked
<1>7. CASE CheckEmpty(s)
  BY <1>0, <1>4, <1>7 DEF CheckEmpty, queueVars
<1>8. CASE KeepWaiting(s)
  BY <1>0, <1>4, <1>8 DEF KeepWaiting, queueVars
<1>9. CASE GiveUp(s)
  BY <1>0, <1>4, <1>9, DropUnsentIsWeaker DEF GiveUp
<1>10. CASE DeadlineExpired(s)
  BY <1>0, <1>4, <1>10, DropUnsentIsWeaker DEF DeadlineExpired
<1> QED
  BY <1>1, <1>2, <1>3, <1>5, <1>6, <1>7, <1>8, <1>9, <1>10

\* Nothing is in hand when the order list of resent_queue is empty.
LEMMA NothingInHand ==
    ASSUME EntryInv, NEW s \in Senders, ReconcileDone(s)
    PROVE  \A k \in Keys : resent[s].val[k] = Absent
<1>1. Complete(resent[s]) /\ resent[s].ord = << >>
  BY DEF EntryInv, EntryOk, ReconcileDone
<1> QED
  BY <1>1 DEF Complete, OdHas

LEMMA TransportEntries ==
    ASSUME IInv, EntryInv, NEW s \in Senders,
           \/ Transmit(s) \/ SendReturns(s) \/ SendRaises(s) \/ Reconcile(s)
           \/ ReconcileDone(s) \/ SettleDone(s) \/ SettleSent(s) \/ SettleRequeue(s)
    PROVE  EntryInv'
<1> USE DEF callVars, loopVars, entryVars, PcOf
<1>0. /\ EntryTypes /\ QueueOk /\ pc[s] \in PcOf /\ EntryOk(s)
      /\ queue' = queue => Weaker
  BY SameIsWeaker DEF EntryInv, IInv, ClaimTypes
<1>1. CASE Transmit(s)
  <2>1. /\ pc[s] = "send" /\ pc' = [pc EXCEPT ![s] = "onAir"]
        /\ UNCHANGED <<queue, resent, cur, got, popped, queuedKey, sent>>
    BY <1>1 DEF Transmit, queueVars
  <2> QED
    BY <1>0, <2>1, Moving DEF EntryTypes, InSendImpl
<1>2. CASE SendReturns(s)
  <2>1. PICK x \in {"popLocal", "pop"} : pc' = [pc EXCEPT ![s] = x]
    BY <1>2 DEF SendReturns
  <2>2. /\ pc[s] = "onAir" /\ sent' = [sent EXCEPT ![s] = @ \cup {cur[s]}]
        /\ UNCHANGED <<queue, resent, cur, got, popped, queuedKey>>
    BY <1>2 DEF SendReturns, queueVars
  <2>3. sent' \in [Senders -> SUBSET Keys]
    BY <1>0, <2>2 DEF EntryTypes, EntryOk, InSendImpl
  <2> QED
    BY <1>0, <2>1, <2>2, <2>3, Moving
<1>3. CASE SendRaises(s)
  <2>1. /\ pc[s] \in {"send", "onAir"} /\ pc' = [pc EXCEPT ![s] = "reconcile"]
        /\ UNCHANGED <<queue, resent, cur, got, popped, queuedKey, sent>>
    BY <1>3 DEF SendRaises
  <2> QED
    BY <1>0, <2>1, Moving DEF EntryTypes
<1>4. CASE Reconcile(s)
  BY <1>4, ReconcileEntries
<1>5. CASE ReconcileDone(s)
  <2>1. /\ pc[s] = "reconcile" /\ pc' = [pc EXCEPT ![s] = "release"]
        /\ UNCHANGED <<queue, resent, cur, got, popped, queuedKey, sent>>
    BY <1>5 DEF ReconcileDone, queueVars
  <2> QED
    BY <1>0, <1>5, <2>1, NothingInHand, Moving DEF EntryTypes
<1>6. CASE SettleDone(s) \/ SettleSent(s)
  <2>1. pc[s] = "settle" /\ FinishEntry(s, cur[s]) /\ queue' = queue
    BY <1>6 DEF SettleDone, SettleSent
  <2> QED
    BY <1>0, <2>1, FinishEntries DEF EntryTypes, QueueOk
<1>7. CASE SettleRequeue(s)
  <2>1. pc[s] = "settle" /\ FinishEntry(s, cur[s])
    BY <1>7 DEF SettleRequeue
  <2> QED
    BY <1>7, <2>1, FinishEntries, RequeuedQueue
<1> QED
  BY <1>1, <1>2, <1>3, <1>4, <1>5, <1>6, <1>7

LEMMA OtherEntries ==
    ASSUME EntryInv, BookTypes,
           \/ \E i \in Ids \cup {0}, res \in BOOLEAN, f \in 0..MaxLen :
                 ReceiveStatus(i, res, f)
           \/ ReaderStep
           \/ \E k \in Keys \cap AgingIds : AgeAwaiting(k) \/ AgeTombstone(k)
           \/ LocalNodeChanges
           \/ \E s \in Senders, p \in Packets : RejectDuplicate(s, p)
           \/ UNCHANGED vars
    PROVE  EntryInv'
<1>1. UNCHANGED <<pc, resent, sent, cur, got, popped, queuedKey>>
  BY DEF ReceiveStatus, ReaderStep, ApplyError, ApplyAck, ApplyNothing, AgeAwaiting,
         AgeTombstone, LocalNodeChanges, RejectDuplicate, vars, queueVars, senderVars,
         callVars, loopVars, entryVars
<1>2. queue' = queue \/ ApplyError \/ ApplyAck
  BY DEF ReceiveStatus, ReaderStep, ApplyNothing, AgeAwaiting,
         AgeTombstone, LocalNodeChanges, RejectDuplicate, vars, queueVars
<1>3. Weaker
  BY <1>2, ReaderIsWeaker, SameIsWeaker DEF EntryInv
<1> QED
  BY <1>1, <1>3, NotMoving

-----------------------------------------------------------------------------
\* The books: what is remembered of a key

\* The reconciliation of s has the key before it, or in hand.
Hand(s, k) ==
    \/ OdHas(resent[s], k)
    \/ pc[s] \in {"forgetAcked", "settle"} /\ cur[s] = k

\* Somebody will still look at what is remembered of the key.
Known(k) ==
    \/ OfLocal(k) \/ InQueue(k) \/ awaiting[k] # "no"
    \/ \E s \in Senders : Hand(s, k)

\* Only a packet for the local node is classified as one.
LocalOnly(u) == \A k \in Keys : k > 0 /\ u[k] = "local" => OfLocal(k)
ExemptIsLocal ==
    /\ LocalOnly(usesCapacity)
    /\ \A s \in Senders : pc[s] = "settle" /\ cur[s] > 0 /\ cap[s] = "local" => OfLocal(cur[s])

Books ==
    /\ \A k \in claimedKeys : \E s \in Senders : Hand(s, k)
    /\ \A k \in Keys : usesCapacity[k] # "unset" => Known(k)
    /\ \A k \in Keys : k < 0 => queue.val[k] # Acked
    /\ ExemptIsLocal

BookInv == BookTypes /\ Books

LEMMA ClassifiedLocal ==
    ASSUME NEW k, NEW p \in Packets, Fits(k, p)
    PROVE  /\ Classify(p) \in {"rf", "local"}
           /\ k > 0 /\ Classify(p) = "local" => OfLocal(k)
BY DEF Classify, OfLocal, Fits, IsPacket, IdOfKey

LEMMA Classified ==
    ASSUME NEW u \in [Keys -> Capacities], LocalOnly(u), NEW k \in Keys, NEW p \in Packets, Fits(k, p)
    PROVE  /\ CapacityIn(u, k, p) \in {"rf", "local"}
           /\ k > 0 /\ CapacityIn(u, k, p) = "local" => OfLocal(k)
BY ClassifiedLocal DEF CapacityIn, LocalOnly, Capacities

\* A loop over the packets of a dictionary classifies packets of it only.
LEMMA Visited ==
    ASSUME NEW u \in [Keys -> Capacities], LocalOnly(u), NEW d,
           \A k \in Keys : Fits(k, d.val[k])
    PROVE  /\ ClassifyVisited(u, d) \in [Keys -> Capacities]
           /\ LocalOnly(ClassifyVisited(u, d))
           /\ \A k \in Keys : ClassifyVisited(u, d)[k] # "unset" =>
                u[k] # "unset" \/ IsPacket(d.val[k])
<1> DEFINE w == ClassifyVisited(u, d)
<1>1. PICK S : w = [k \in Keys |-> IF k \in S /\ IsPacket(d.val[k])
                                   THEN CapacityIn(u, k, d.val[k]) ELSE u[k]]
  BY DEF ClassifyVisited
<1> HIDE DEF w
<1>2. ASSUME NEW k \in Keys
      PROVE  /\ w[k] \in Capacities
             /\ k > 0 /\ w[k] = "local" => OfLocal(k)
             /\ w[k] # "unset" => u[k] # "unset" \/ IsPacket(d.val[k])
  <2>1. CASE k \in S /\ IsPacket(d.val[k])
    <3>1. w[k] = CapacityIn(u, k, d.val[k]) /\ d.val[k] \in Packets
      BY <1>1, <2>1 DEF IsPacket
    <3> QED
      BY <2>1, <3>1, Classified DEF Capacities
  <2>2. CASE ~(k \in S /\ IsPacket(d.val[k]))
    <3>1. w[k] = u[k]
      BY <1>1, <2>2
    <3> QED
      BY <3>1 DEF LocalOnly
  <2> QED
    BY <2>1, <2>2
<1>3. w \in [Keys -> Capacities]
  BY <1>1, <1>2
<1> QED
  BY <1>2, <1>3 DEF LocalOnly, w

\* Keys outside D keep whatever keeps them in the books.
LEMMA Booking ==
    ASSUME Books, BookTypes, NEW D,
           \A t \in Senders, k \in Keys \ D : Hand(t, k) => Hand(t, k)',
           \A k \in Keys \ D : InQueue(k) \/ awaiting[k] # "no" => Known(k)',
           \A k \in claimedKeys' :
               k \in claimedKeys \ D \/ \E t \in Senders : Hand(t, k)',
           \A k \in Keys : usesCapacity'[k] # "unset" =>
               \/ k \notin D /\ (usesCapacity[k] # "unset" \/ InQueue(k))
               \/ Known(k)',
           \A k \in Keys : k < 0 => queue'.val[k] # Acked,
           ExemptIsLocal'
    PROVE  Books'
<1>1. ASSUME NEW k \in Keys \ D, Known(k)
      PROVE  Known(k)'
  BY <1>1 DEF Known, OfLocal
<1>2. \A k \in Keys : usesCapacity'[k] # "unset" => Known(k)'
  <2> TAKE k \in Keys
  <2> HAVE usesCapacity'[k] # "unset"
  <2>1. CASE k \notin D /\ (usesCapacity[k] # "unset" \/ InQueue(k))
    <3>1. Known(k)
      BY <2>1 DEF Books, Known
    <3> QED
      BY <1>1, <2>1, <3>1
  <2> QED
    BY <2>1
<1>3. \A k \in claimedKeys' : \E t \in Senders : Hand(t, k)'
  BY DEF Books, BookTypes
<1> QED
  BY <1>2, <1>3 DEF Books

\* A step that keeps what every sender holds, every packet in the queue, and
\* the classifications.
LEMMA SameBooks ==
    ASSUME EntryInv, BookInv, UNCHANGED <<usesCapacity, cap>>,
           awaiting' \in [Keys -> AgeOf], \A k \in Keys : awaiting[k] # "no" => awaiting'[k] # "no",
           claimedKeys' \subseteq claimedKeys,
           reader' \in [id : Ids \cup {0}, res : BOOLEAN], air' \subseteq Ids,
           \A t \in Senders, k \in Keys : Hand(t, k) => Hand(t, k)',
           \A t \in Senders : pc'[t] = "settle" => pc[t] = "settle" /\ cur'[t] = cur[t],
           \A k \in Keys : InQueue(k) => InQueue(k)',
           \A k \in Keys : k < 0 /\ queue'.val[k] = Acked => queue.val[k] = Acked
    PROVE  BookInv'
<1>1. BookTypes'
  BY DEF BookInv, BookTypes
<1>2. ExemptIsLocal'
  BY DEF BookInv, Books, ExemptIsLocal, LocalOnly, OfLocal
<1>3. \A k \in Keys : k < 0 => queue'.val[k] # Acked
  BY DEF BookInv, Books
<1>4. \A k \in Keys : InQueue(k) \/ awaiting[k] # "no" => Known(k)'
  BY DEF Known
<1>5. PICK D : D = {}
  OBVIOUS
<1>6. \A k \in Keys : usesCapacity'[k] # "unset" => k \notin D /\ usesCapacity[k] # "unset"
  BY <1>5
<1>7. \A k \in claimedKeys' : k \in claimedKeys \ D
  BY <1>5
<1> QED
  BY <1>1, <1>2, <1>3, <1>4, <1>6, <1>7, Booking DEF BookInv

\* The same, when one sender changes its place.
LEMMA MovingBooks ==
    ASSUME IInv, EntryInv, BookInv, NEW s \in Senders, NEW x \in PcOf, pc' = [pc EXCEPT ![s] = x],
           pc[s] \notin {"settle", "forgetAcked"}, x # "settle",
           UNCHANGED <<resent, cur, cap, usesCapacity, awaiting, claimedKeys, reader>>,
           air' \subseteq Ids, queue'.val = queue.val
    PROVE  BookInv'
<1>1. \A t \in Senders : pc'[t] = IF t = s THEN x ELSE pc[t]
  BY DEF IInv, ClaimTypes
<1>2. \A t \in Senders, k \in Keys : Hand(t, k) => Hand(t, k)'
  BY <1>1 DEF Hand
<1>3. \A t \in Senders : pc'[t] = "settle" => pc[t] = "settle" /\ cur'[t] = cur[t]
  BY <1>1
<1>4. \A k \in Keys : InQueue(k) => InQueue(k)'
  BY DEF InQueue
<1> QED
  BY <1>2, <1>3, <1>4, SameBooks DEF BookInv, BookTypes

LEMMA AdmitBooks ==
    ASSUME IInv, EntryInv, BookInv, CountTypes, NEW s \in Senders, NEW p \in Packets, Admit(s, p)
    PROVE  BookInv'
<1>1. PICK k \in Keys : /\ Fits(k, p)
                        /\ queue' = OdPut(queue, k, p)
                        /\ usesCapacity' = [usesCapacity EXCEPT ![k] = Classify(p)]
                        /\ claimedKeys' = claimedKeys \ {k}
  BY NewKey DEF Admit
<1>2. /\ UNCHANGED <<awaiting, cap, reader, air, cur>> /\ pc[s] = "idle"
      /\ resent' = [resent EXCEPT ![s] = OdEmpty(Keys)]
      /\ \E x \in {"pop", "popLocal"} : pc' = [pc EXCEPT ![s] = x]
  BY DEF Admit, entryVars
<1>3. /\ pc \in [Senders -> PcOf] /\ EntryTypes /\ EntryOk(s) /\ BookTypes /\ Books
  BY DEF IInv, ClaimTypes, EntryInv, BookInv
<1>4. Classify(p) \in {"rf", "local"} /\ (k > 0 /\ Classify(p) = "local" => OfLocal(k))
  BY <1>1, ClassifiedLocal
<1>5. \A j \in Keys : usesCapacity'[j] = IF j = k THEN Classify(p) ELSE usesCapacity[j]
  BY <1>1, <1>3 DEF BookTypes
<1>6. BookTypes'
  BY <1>1, <1>2, <1>3, <1>4 DEF BookTypes, Capacities
<1>7. \A j \in Keys : queue'.val[j] = IF j = k THEN p ELSE queue.val[j]
  <2>1. queue'.val = [queue.val EXCEPT ![k] = p]
    BY <1>1 DEF OdPut
  <2> QED
    BY <1>3, <2>1 DEF EntryTypes
<1>8. \A j \in Keys : (InQueue(j) => InQueue(j)') /\ (j = k => InQueue(j)')
  BY <1>7 DEF InQueue, IsPacket
<1>9. \A t \in Senders, j \in Keys : Hand(t, j) => Hand(t, j)'
  <2>1. \A j \in Keys : ~Hand(s, j)
    BY <1>2, <1>3 DEF EntryOk, Busy, Hand, OdHas
  <2>2. \A t \in Senders \ {s} : pc'[t] = pc[t] /\ resent'[t] = resent[t]
    BY <1>2, <1>3 DEF EntryTypes
  <2> QED
    BY <1>2, <2>1, <2>2 DEF Hand
<1>10. ExemptIsLocal'
  <2>1. \A t \in Senders : pc'[t] = "settle" => pc[t] = "settle"
    BY <1>2, <1>3
  <2> QED
    BY <1>2, <1>3, <1>4, <1>5, <2>1 DEF Books, ExemptIsLocal, LocalOnly, OfLocal
<1>11. \A j \in Keys : j < 0 => queue'.val[j] # Acked
  BY <1>3, <1>7, KeyFacts DEF Books
<1>12. \A j \in Keys : InQueue(j) \/ awaiting[j] # "no" => Known(j)'
  BY <1>2, <1>8 DEF Known
<1>13. PICK D : D = {}
  OBVIOUS
<1>14. \A j \in Keys : usesCapacity'[j] # "unset" =>
         \/ j \notin D /\ usesCapacity[j] # "unset"
         \/ Known(j)'
  BY <1>5, <1>8, <1>13 DEF Known
<1>15. \A j \in claimedKeys' : j \in claimedKeys \ D
  BY <1>1, <1>13
<1> QED
  BY <1>3, <1>6, <1>9, <1>10, <1>11, <1>12, <1>14, <1>15, Booking DEF BookInv

\* A packet is popped.
LEMMA TakeBooks ==
    ASSUME IInv, EntryInv, BookInv, NEW s \in Senders, NEW k \in Keys, NEW p \in Packets,
           StartSend(s, k, p), queue' = OdPop(queue, k), pc[s] \in {"pop", "popLocal"},
           UNCHANGED <<awaiting, cap, reader, air>>,
           claimedKeys' \subseteq claimedKeys \cup {k},
           usesCapacity' \in [Keys -> Capacities], LocalOnly(usesCapacity)',
           \A j \in Keys : usesCapacity'[j] # "unset" => usesCapacity[j] # "unset" \/ InQueue(j)
    PROVE  BookInv'
<1>1. /\ resent' = [resent EXCEPT ![s] = OdPut(resent[s], k, p)]
      /\ cur' = [cur EXCEPT ![s] = k] /\ pc' = [pc EXCEPT ![s] = "send"]
  BY DEF StartSend
<1>2. /\ pc \in [Senders -> PcOf] /\ EntryTypes /\ EntryOk(s) /\ BookTypes /\ Books
  BY DEF IInv, ClaimTypes, EntryInv, BookInv
<1>3. BookTypes'
  BY <1>2 DEF BookTypes
<1>4. /\ resent'[s] = OdPut(resent[s], k, p)
      /\ \A t \in Senders \ {s} : pc'[t] = pc[t] /\ resent'[t] = resent[t] /\ cur'[t] = cur[t]
      /\ pc'[s] = "send"
  BY <1>1, <1>2 DEF EntryTypes
<1>5. \A j \in Keys : resent'[s].val[j] = IF j = k THEN p ELSE resent[s].val[j]
  <2>1. resent[s] \in Dict /\ Complete(resent[s]) /\ p \in Values
    BY <1>2, KeyFacts DEF EntryTypes, EntryOk
  <2> QED
    BY <1>4, <2>1, PutEntry
<1>6. /\ \A t \in Senders, j \in Keys : Hand(t, j) => Hand(t, j)'
      /\ Hand(s, k)'
  BY <1>4, <1>5, KeyFacts DEF Hand, OdHas
<1>7. \A j \in Keys : queue'.val[j] = IF j = k THEN Absent ELSE queue.val[j]
  BY <1>2, PoppedIsWeaker
<1>8. \A j \in Keys : InQueue(j) \/ awaiting[j] # "no" => Known(j)'
  BY <1>6, <1>7 DEF Known, InQueue
<1>9. \A j \in Keys : j < 0 => queue'.val[j] # Acked
  BY <1>2, <1>7, KeyFacts DEF Books
<1>10. ExemptIsLocal'
  BY <1>2, <1>4 DEF Books, ExemptIsLocal, OfLocal
<1>11. PICK D : D = {}
  OBVIOUS
<1>12. \A j \in Keys : usesCapacity'[j] # "unset" =>
         j \notin D /\ (usesCapacity[j] # "unset" \/ InQueue(j))
  BY <1>11
<1>13. \A j \in claimedKeys' : j \in claimedKeys \ D \/ \E t \in Senders : Hand(t, j)'
  BY <1>6, <1>11
<1> QED
  BY <1>2, <1>3, <1>6, <1>8, <1>9, <1>10, <1>12, <1>13, Booking DEF BookInv

\* A marker is popped.
LEMMA MarkerBooks ==
    ASSUME IInv, EntryInv, BookInv, NEW s \in Senders, NEW k \in Keys, ~InQueue(k),
           TakeMarker(s, k), queue' = OdPop(queue, k), pc[s] = "pop",
           UNCHANGED <<awaiting, cap, reader, air, claimedKeys, usesCapacity>>
    PROVE  BookInv'
<1>1. /\ pc \in [Senders -> PcOf] /\ EntryTypes /\ EntryOk(s) /\ BookTypes /\ Books
  BY DEF IInv, ClaimTypes, EntryInv, BookInv
<1>2. \A j \in Keys : queue'.val[j] = IF j = k THEN Absent ELSE queue.val[j]
  BY <1>1, PoppedIsWeaker
<1>3. resent[s] \in Dict /\ Complete(resent[s])
  BY <1>1 DEF EntryTypes, EntryOk
<1>4. CASE k \in sent[s]
  <2>1. /\ resent' = [resent EXCEPT ![s] = OdPop(resent[s], k)]
        /\ cur' = [cur EXCEPT ![s] = k] /\ pc' = [pc EXCEPT ![s] = "forgetAcked"]
    BY <1>4 DEF TakeMarker
  <2>2. /\ resent'[s] = OdPop(resent[s], k) /\ cur'[s] = k /\ pc'[s] = "forgetAcked"
        /\ \A t \in Senders \ {s} : pc'[t] = pc[t] /\ resent'[t] = resent[t] /\ cur'[t] = cur[t]
    BY <1>1, <2>1 DEF EntryTypes
  <2>3. \A j \in Keys : resent'[s].val[j] = IF j = k THEN Absent ELSE resent[s].val[j]
    BY <1>3, <2>2, PopEntry
  <2>4. \A t \in Senders, j \in Keys : Hand(t, j) => Hand(t, j)'
    BY <2>2, <2>3 DEF Hand, OdHas
  <2>5. \A t \in Senders : pc'[t] = "settle" => pc[t] = "settle" /\ cur'[t] = cur[t]
    BY <2>2
  <2> QED
    BY <1>1, <1>2, <2>4, <2>5, SameBooks, KeyFacts DEF BookTypes, InQueue, IsPacket
<1>5. CASE k \notin sent[s]
  <2>1. resent' = [resent EXCEPT ![s] = OdPut(resent[s], k, Acked)] /\ cur' = cur /\ pc' = pc
    BY <1>5 DEF TakeMarker
  <2>2. /\ resent'[s] = OdPut(resent[s], k, Acked)
        /\ \A t \in Senders \ {s} : resent'[t] = resent[t]
    BY <1>1, <2>1 DEF EntryTypes
  <2>3. \A j \in Keys : resent'[s].val[j] = IF j = k THEN Acked ELSE resent[s].val[j]
    BY <1>3, <2>2, PutEntry, KeyFacts
  <2>4. \A t \in Senders, j \in Keys : Hand(t, j) => Hand(t, j)'
    BY <2>1, <2>2, <2>3, KeyFacts DEF Hand, OdHas
  <2> QED
    BY <1>1, <1>2, <2>1, <2>4, SameBooks, KeyFacts DEF BookTypes, InQueue, IsPacket
<1> QED
  BY <1>4, <1>5

LEMMA Forgotten ==
    ASSUME BookInv, NEW S, usesCapacity' = ForgetCapacity(usesCapacity, S)
    PROVE  /\ usesCapacity' \in [Keys -> Capacities] /\ LocalOnly(usesCapacity)'
           /\ \A j \in Keys : usesCapacity'[j] # "unset" => j \notin S /\ usesCapacity[j] # "unset"
<1>1. usesCapacity' = [k \in Keys |-> IF k \in S THEN "unset" ELSE usesCapacity[k]]
  BY DEF ForgetCapacity
<1>2. usesCapacity \in [Keys -> Capacities] /\ LocalOnly(usesCapacity)
  BY DEF BookInv, BookTypes, Books, ExemptIsLocal
<1> QED
  BY <1>1, <1>2 DEF LocalOnly, OfLocal, Capacities

LEMMA ForgetBooks ==
    ASSUME IInv, EntryInv, BookInv, NEW s \in Senders, ForgetAcked(s)
    PROVE  BookInv'
<1>1. PICK D : D = {cur[s]}
  OBVIOUS
<1>2. /\ usesCapacity' = ForgetCapacity(usesCapacity, D) /\ claimedKeys' = claimedKeys \ D
      /\ pc[s] = "forgetAcked" /\ pc' = [pc EXCEPT ![s] = "pop"]
      /\ UNCHANGED <<queue, resent, cur, cap, awaiting, reader, air>>
  BY <1>1 DEF ForgetAcked, Forget, deviceVars, markVars, loopVars, entryVars
<1>3. /\ pc \in [Senders -> PcOf] /\ BookTypes /\ Books
  BY DEF IInv, ClaimTypes, BookInv
<1>4. /\ usesCapacity' \in [Keys -> Capacities] /\ LocalOnly(usesCapacity)'
      /\ \A j \in Keys : usesCapacity'[j] # "unset" => j \notin D /\ usesCapacity[j] # "unset"
  BY <1>2, Forgotten
<1>5. \A t \in Senders : pc'[t] = IF t = s THEN "pop" ELSE pc[t]
  BY <1>2, <1>3
<1>6. \A t \in Senders, j \in Keys \ D : Hand(t, j) => Hand(t, j)'
  BY <1>1, <1>2, <1>5 DEF Hand
<1>7. BookTypes'
  BY <1>2, <1>3, <1>4 DEF BookTypes
<1>8. ExemptIsLocal'
  BY <1>2, <1>3, <1>4, <1>5 DEF Books, ExemptIsLocal, OfLocal
<1>9. \A j \in Keys : InQueue(j) \/ awaiting[j] # "no" => Known(j)'
  BY <1>2 DEF Known, InQueue
<1>10. \A j \in claimedKeys' : j \in claimedKeys \ D
  BY <1>2
<1>11. \A j \in Keys : j < 0 => queue'.val[j] # Acked
  BY <1>2, <1>3 DEF Books
<1> QED
  BY <1>3, <1>4, <1>6, <1>7, <1>8, <1>9, <1>10, <1>11, Booking DEF BookInv

\* _drop_unsent_incoming.
LEMMA DropBooks ==
    ASSUME IInv, EntryInv, BookInv, NEW s \in Senders, DropUnsent(s), pc[s] \in {"pop", "blocked"},
           pc' = [pc EXCEPT ![s] = "reconcile"],
           UNCHANGED <<resent, cur, cap, awaiting, reader, air>>
    PROVE  BookInv'
<1> DEFINE k == queuedKey[s]
<1>1. /\ pc \in [Senders -> PcOf] /\ EntryTypes /\ QueueOk /\ BookTypes /\ Books /\ k \in Keys
  BY DEF IInv, ClaimTypes, EntryInv, BookInv, EntryTypes
<1>2. \A t \in Senders : pc'[t] = IF t = s THEN "reconcile" ELSE pc[t]
  BY <1>1
<1>3. \A t \in Senders, j \in Keys : Hand(t, j) => Hand(t, j)'
  BY <1>2 DEF Hand
<1>4. CASE queue' = queue /\ usesCapacity' = usesCapacity /\ claimedKeys' \subseteq claimedKeys
  <2>1. \A t \in Senders : pc'[t] = "settle" => pc[t] = "settle" /\ cur'[t] = cur[t]
    BY <1>2
  <2> QED
    BY <1>1, <1>3, <1>4, <2>1, SameBooks DEF BookTypes, InQueue
<1>5. CASE queue.val[k] = incoming[s]
  <2>1. PICK D : D = {k}
    OBVIOUS
  <2>2. /\ queue' = OdPop(queue, k)
        /\ usesCapacity' = ForgetCapacity(usesCapacity, D) /\ claimedKeys' = claimedKeys \ D
    BY <1>5, <2>1 DEF DropUnsent, Forget
  <2>3. /\ usesCapacity' \in [Keys -> Capacities] /\ LocalOnly(usesCapacity)'
        /\ \A j \in Keys : usesCapacity'[j] # "unset" => j \notin D /\ usesCapacity[j] # "unset"
    BY <2>2, Forgotten
  <2>4. \A j \in Keys : queue'.val[j] = IF j = k THEN Absent ELSE queue.val[j]
    BY <1>1, <2>2, PoppedIsWeaker
  <2>5. \A j \in Keys \ D : InQueue(j) \/ awaiting[j] # "no" => Known(j)'
    BY <2>1, <2>4 DEF Known, InQueue
  <2>6. \A j \in Keys : j < 0 => queue'.val[j] # Acked
    BY <1>1, <2>4, KeyFacts DEF Books
  <2>7. BookTypes'
    BY <1>1, <2>2, <2>3 DEF BookTypes
  <2>8. ExemptIsLocal'
    BY <1>1, <1>2, <2>3 DEF Books, ExemptIsLocal, OfLocal
  <2>9. \A j \in claimedKeys' : j \in claimedKeys \ D
    BY <2>2
  <2> QED
    BY <1>1, <1>3, <2>3, <2>5, <2>6, <2>7, <2>8, <2>9, Booking DEF BookInv
<1>6. CASE queue.val[k] # incoming[s] /\ IsPacket(queue.val[k])
  <2>1. /\ queue' = queue /\ claimedKeys' = claimedKeys \ {k}
        /\ usesCapacity' = [usesCapacity EXCEPT ![k] = Classify(queue.val[k])]
    BY <1>6 DEF DropUnsent
  <2>2. /\ Classify(queue.val[k]) \in {"rf", "local"}
        /\ k > 0 /\ Classify(queue.val[k]) = "local" => OfLocal(k)
    BY <1>1, <1>6, ClassifiedLocal DEF QueueOk, IsPacket
  <2>3. /\ usesCapacity' \in [Keys -> Capacities]
        /\ \A j \in Keys : usesCapacity'[j] = IF j = k THEN Classify(queue.val[k]) ELSE usesCapacity[j]
    BY <1>1, <2>1, <2>2 DEF BookTypes, Capacities
  <2>4. ExemptIsLocal'
    BY <1>1, <1>2, <2>2, <2>3 DEF Books, ExemptIsLocal, LocalOnly, OfLocal
  <2>5. PICK D : D = {}
    OBVIOUS
  <2>6. \A j \in Keys : usesCapacity'[j] # "unset" =>
          j \notin D /\ (usesCapacity[j] # "unset" \/ InQueue(j))
    BY <1>6, <2>3, <2>5 DEF InQueue
  <2>7. \A j \in claimedKeys' : j \in claimedKeys \ D
    BY <2>1, <2>5
  <2>8. \A j \in Keys : InQueue(j) \/ awaiting[j] # "no" => Known(j)'
    BY <2>1 DEF Known, InQueue
  <2>9. \A j \in Keys : j < 0 => queue'.val[j] # Acked
    BY <1>1, <2>1 DEF Books
  <2>10. BookTypes'
    BY <1>1, <2>1, <2>3 DEF BookTypes
  <2> QED
    BY <1>1, <1>3, <2>4, <2>6, <2>7, <2>8, <2>9, <2>10, Booking DEF BookInv
<1> QED
  BY <1>4, <1>5, <1>6 DEF DropUnsent

\* Nothing can be popped; what was looked at has been classified.
LEMMA NothingBooks ==
    ASSUME IInv, EntryInv, BookInv, NEW s \in Senders, PopNothing(s)
    PROVE  BookInv'
<1>1. PICK x \in {"checkEmpty", "reconcile"} : pc' = [pc EXCEPT ![s] = x]
  BY DEF PopNothing, IInv, ClaimTypes
<1>2. /\ usesCapacity' = ClassifyVisited(usesCapacity, queue)
      /\ pc[s] \in {"pop", "popLocal"}
      /\ UNCHANGED <<queue, resent, cur, cap, awaiting, claimedKeys, reader, air>>
  BY DEF PopNothing, deviceVars, markVars, loopVars, entryVars
<1>3. /\ pc \in [Senders -> PcOf] /\ QueueOk /\ BookTypes /\ Books
  BY DEF IInv, ClaimTypes, EntryInv, BookInv
<1>4. /\ usesCapacity' \in [Keys -> Capacities] /\ LocalOnly(usesCapacity)'
      /\ \A j \in Keys : usesCapacity'[j] # "unset" => usesCapacity[j] # "unset" \/ InQueue(j)
  <2>1. /\ ClassifyVisited(usesCapacity, queue) \in [Keys -> Capacities]
        /\ LocalOnly(ClassifyVisited(usesCapacity, queue))
        /\ \A k \in Keys : ClassifyVisited(usesCapacity, queue)[k] # "unset" =>
             usesCapacity[k] # "unset" \/ IsPacket(queue.val[k])
    BY <1>3, Visited DEF BookTypes, Books, ExemptIsLocal, QueueOk
  <2> QED
    BY <1>2, <2>1 DEF InQueue, LocalOnly, OfLocal
<1>5. \A t \in Senders : pc'[t] = IF t = s THEN x ELSE pc[t]
  BY <1>1, <1>3
<1>6. \A t \in Senders, j \in Keys : Hand(t, j) => Hand(t, j)'
  BY <1>2, <1>5 DEF Hand
<1>7. BookTypes'
  BY <1>2, <1>3, <1>4 DEF BookTypes
<1>8. ExemptIsLocal'
  BY <1>2, <1>3, <1>4, <1>5 DEF Books, ExemptIsLocal, OfLocal
<1>9. \A j \in Keys : InQueue(j) \/ awaiting[j] # "no" => Known(j)'
  BY <1>2 DEF Known, InQueue
<1>10. PICK D : D = {}
  OBVIOUS
<1>11. \A j \in claimedKeys' : j \in claimedKeys \ D
  BY <1>2, <1>10
<1>12. \A j \in Keys : usesCapacity'[j] # "unset" =>
         j \notin D /\ (usesCapacity[j] # "unset" \/ InQueue(j))
  BY <1>4, <1>10
<1>13. \A j \in Keys : j < 0 => queue'.val[j] # Acked
  BY <1>2, <1>3 DEF Books
<1> QED
  BY <1>3, <1>6, <1>7, <1>8, <1>9, <1>11, <1>12, <1>13, Booking DEF BookInv

LEMMA ReconcileBooks ==
    ASSUME IInv, EntryInv, BookInv, NEW s \in Senders, Reconcile(s)
    PROVE  BookInv'
<1>1. PICK k \in Keys :
        LET v == resent[s].val[k] IN
        /\ usesCapacity' = IF IsPacket(v) THEN [usesCapacity EXCEPT ![k] = CapacityOf(k, v)]
                           ELSE usesCapacity
        /\ cap' = [cap EXCEPT ![s] = IF IsPacket(v) THEN CapacityOf(k, v) ELSE "unset"]
        /\ queue' = OdPop(queue, k)
        /\ cur' = [cur EXCEPT ![s] = k]
  BY DEF Reconcile
<1> DEFINE v == resent[s].val[k]
           c == CapacityIn(usesCapacity, k, v)
<1>2. /\ pc[s] = "reconcile" /\ pc' = [pc EXCEPT ![s] = "settle"]
      /\ UNCHANGED <<resent, awaiting, claimedKeys, reader, air>>
  BY DEF Reconcile, deviceVars, loopVars
<1>3. /\ pc \in [Senders -> PcOf] /\ EntryTypes /\ EntryOk(s) /\ BookTypes /\ Books
  BY DEF IInv, ClaimTypes, EntryInv, BookInv
<1>4. /\ IsPacket(v) => c \in {"rf", "local"}
      /\ IsPacket(v) /\ k > 0 /\ c = "local" => OfLocal(k)
  BY <1>3, Classified DEF BookTypes, Books, ExemptIsLocal, EntryOk, IsPacket
<1>5. \A j \in Keys : usesCapacity'[j] = IF j = k /\ IsPacket(v) THEN c ELSE usesCapacity[j]
  BY <1>1, <1>3 DEF BookTypes, CapacityOf
<1>6. /\ \A t \in Senders : pc'[t] = IF t = s THEN "settle" ELSE pc[t]
      /\ \A t \in Senders : cur'[t] = IF t = s THEN k ELSE cur[t]
      /\ \A t \in Senders \ {s} : cap'[t] = cap[t]
      /\ cap'[s] = IF IsPacket(v) THEN c ELSE "unset"
  BY <1>1, <1>2, <1>3 DEF EntryTypes, BookTypes, CapacityOf
<1>7. BookTypes'
  BY <1>1, <1>2, <1>3, <1>4 DEF BookTypes, Capacities, CapacityOf
<1>8. /\ \A t \in Senders, j \in Keys : Hand(t, j) => Hand(t, j)'
      /\ Hand(s, k)'
  BY <1>2, <1>6 DEF Hand
<1>9. \A j \in Keys : queue'.val[j] = IF j = k THEN Absent ELSE queue.val[j]
  BY <1>1, <1>3, PoppedIsWeaker
<1>10. \A j \in Keys : InQueue(j) \/ awaiting[j] # "no" => Known(j)'
  BY <1>2, <1>8, <1>9 DEF Known, InQueue
<1>11. \A j \in Keys : j < 0 => queue'.val[j] # Acked
  BY <1>3, <1>9, KeyFacts DEF Books
<1>12. ExemptIsLocal'
  <2>1. LocalOnly(usesCapacity)'
    BY <1>3, <1>4, <1>5 DEF Books, ExemptIsLocal, LocalOnly, OfLocal
  <2>2. ASSUME NEW t \in Senders, pc'[t] = "settle", cur'[t] > 0, cap'[t] = "local"
        PROVE  OfLocal(cur'[t])
    BY <1>3, <1>4, <1>6, <2>2 DEF Books, ExemptIsLocal
  <2> QED
    BY <2>1, <2>2 DEF ExemptIsLocal, OfLocal
<1>13. PICK D : D = {}
  OBVIOUS
<1>14. \A j \in Keys : usesCapacity'[j] # "unset" =>
         \/ j \notin D /\ usesCapacity[j] # "unset"
         \/ Known(j)'
  BY <1>5, <1>8, <1>13 DEF Known
<1>15. \A j \in claimedKeys' : j \in claimedKeys \ D
  BY <1>2, <1>13
<1> QED
  BY <1>3, <1>7, <1>8, <1>10, <1>11, <1>12, <1>14, <1>15, Booking DEF BookInv

\* An entry that is finished leaves the hands of its sender, and only it.
LEMMA FinishHands ==
    ASSUME IInv, EntryInv, NEW s \in Senders, pc[s] = "settle", FinishEntry(s, cur[s])
    PROVE  /\ cur[s] \in Keys /\ pc \in [Senders -> PcOf]
           /\ \A t \in Senders : pc'[t] = IF t = s THEN "reconcile" ELSE pc[t]
           /\ \A t \in Senders, j \in Keys \ {cur[s]} : Hand(t, j) => Hand(t, j)'
           /\ cur' = cur /\ reader' = reader /\ air' = air
           /\ cap' = [cap EXCEPT ![s] = "unset"]
<1> DEFINE k == cur[s]
<1>1. /\ resent' = [resent EXCEPT ![s] = OdPop(resent[s], k)]
      /\ pc' = [pc EXCEPT ![s] = "reconcile"]
      /\ cap' = [cap EXCEPT ![s] = "unset"]
      /\ UNCHANGED <<cur, reader, air>>
  BY DEF FinishEntry, deviceVars
<1>2. /\ pc \in [Senders -> PcOf] /\ EntryTypes /\ EntryOk(s)
  BY DEF IInv, ClaimTypes, EntryInv
<1>3. resent[s] \in Dict /\ Complete(resent[s]) /\ k \in Keys
  BY <1>2 DEF EntryTypes, EntryOk
<1>4. \A j \in Keys : OdPop(resent[s], k).val[j] = IF j = k THEN Absent ELSE resent[s].val[j]
  BY <1>3, PopEntry
<1>5. /\ \A t \in Senders : pc'[t] = IF t = s THEN "reconcile" ELSE pc[t]
      /\ resent'[s] = OdPop(resent[s], k)
      /\ \A t \in Senders \ {s} : resent'[t] = resent[t]
  BY <1>1, <1>2 DEF EntryTypes
<1>6. \A t \in Senders, j \in Keys \ {k} : Hand(t, j) => Hand(t, j)'
  BY <1>1, <1>4, <1>5 DEF Hand, OdHas
<1> QED
  BY <1>1, <1>2, <1>3, <1>5, <1>6

LEMMA DoneBooks ==
    ASSUME IInv, EntryInv, BookInv, NEW s \in Senders, SettleDone(s)
    PROVE  BookInv'
<1>1. PICK D : D = {cur[s]}
  OBVIOUS
<1>2. /\ pc[s] = "settle" /\ FinishEntry(s, cur[s])
      /\ usesCapacity' = ForgetCapacity(usesCapacity, D) /\ claimedKeys' = claimedKeys \ D
      /\ queue' = queue /\ awaiting' = awaiting
  BY <1>1 DEF SettleDone, Forget
<1>3. /\ pc \in [Senders -> PcOf]
      /\ \A t \in Senders : pc'[t] = IF t = s THEN "reconcile" ELSE pc[t]
      /\ \A t \in Senders, j \in Keys \ D : Hand(t, j) => Hand(t, j)'
      /\ cur' = cur /\ reader' = reader /\ air' = air
      /\ cap' = [cap EXCEPT ![s] = "unset"]
  BY <1>1, <1>2, FinishHands
<1>4. /\ usesCapacity' \in [Keys -> Capacities] /\ LocalOnly(usesCapacity)'
      /\ \A j \in Keys : usesCapacity'[j] # "unset" => j \notin D /\ usesCapacity[j] # "unset"
  BY <1>2, Forgotten
<1>5. BookTypes /\ Books
  BY DEF BookInv
<1>6. BookTypes'
  BY <1>2, <1>3, <1>4, <1>5 DEF BookTypes, Capacities
<1>7. ExemptIsLocal'
  BY <1>3, <1>4, <1>5 DEF Books, BookTypes, ExemptIsLocal, OfLocal
<1>8. \A j \in Keys : InQueue(j) \/ awaiting[j] # "no" => Known(j)'
  BY <1>2 DEF Known, InQueue
<1>9. \A j \in claimedKeys' : j \in claimedKeys \ D
  BY <1>2
<1>10. \A j \in Keys : j < 0 => queue'.val[j] # Acked
  BY <1>2, <1>5 DEF Books
<1> QED
  BY <1>3, <1>4, <1>5, <1>6, <1>7, <1>8, <1>9, <1>10, Booking DEF BookInv

LEMMA SentBooks ==
    ASSUME IInv, EntryInv, BookInv, NEW s \in Senders, SettleSent(s)
    PROVE  BookInv'
<1>1. PICK k : k = cur[s]
  OBVIOUS
<1>2. PICK track \in BOOLEAN : track = (statusSeen \/ cap[s] = "local")
  OBVIOUS
<1>3. PICK F : F = Stale \cup (IF track THEN {} ELSE {k})
  OBVIOUS
<1>4. PICK D : D = Stale \cup {k}
  OBVIOUS
<1>5. /\ pc[s] = "settle" /\ FinishEntry(s, cur[s])
      /\ usesCapacity' = ForgetCapacity(usesCapacity, F)
      /\ claimedKeys' = claimedKeys \ (F \cup {k})
      /\ queue' = queue
      /\ awaiting' = [j \in Keys |-> IF j = k /\ track THEN "fresh"
                                     ELSE IF j \in Stale THEN "no"
                                     ELSE awaiting[j]]
  BY <1>1, <1>2, <1>3 DEF SettleSent
<1>6. /\ k \in Keys /\ pc \in [Senders -> PcOf]
      /\ \A t \in Senders : pc'[t] = IF t = s THEN "reconcile" ELSE pc[t]
      /\ \A t \in Senders, j \in Keys \ {k} : Hand(t, j) => Hand(t, j)'
      /\ cur' = cur /\ reader' = reader /\ air' = air
      /\ cap' = [cap EXCEPT ![s] = "unset"]
  BY <1>1, <1>5, FinishHands
<1>7. /\ usesCapacity' \in [Keys -> Capacities] /\ LocalOnly(usesCapacity)'
      /\ \A j \in Keys : usesCapacity'[j] # "unset" => j \notin F /\ usesCapacity[j] # "unset"
  BY <1>5, Forgotten
<1>8. BookTypes /\ Books
  BY DEF BookInv
<1>9. BookTypes'
  <2>1. awaiting' \in [Keys -> AgeOf]
    BY <1>5, <1>8 DEF BookTypes, AgeOf
  <2> QED
    BY <1>5, <1>6, <1>7, <1>8, <2>1 DEF BookTypes, Capacities
<1>10. ExemptIsLocal'
  BY <1>6, <1>7, <1>8 DEF Books, BookTypes, ExemptIsLocal, OfLocal
<1>11. \A j \in Keys \ D : InQueue(j) \/ awaiting[j] # "no" => Known(j)'
  BY <1>4, <1>5 DEF Known, InQueue
<1>12. \A j \in claimedKeys' : j \in claimedKeys \ D
  BY <1>3, <1>4, <1>5
<1>13. \A j \in Keys : usesCapacity'[j] # "unset" =>
         \/ j \notin D /\ usesCapacity[j] # "unset"
         \/ Known(j)'
  <2>1. track => Known(k)'
    <3>1. track => awaiting'[k] = "fresh"
      BY <1>5, <1>6
    <3> QED
      BY <3>1 DEF Known
  <2> QED
    BY <1>3, <1>4, <1>7, <2>1
<1>14. \A j \in Keys : j < 0 => queue'.val[j] # Acked
  BY <1>5, <1>8 DEF Books
<1>15. \A t \in Senders, j \in Keys \ D : Hand(t, j) => Hand(t, j)'
  BY <1>4, <1>6
<1> QED
  BY <1>8, <1>9, <1>10, <1>11, <1>12, <1>13, <1>14, <1>15, Booking DEF BookInv

LEMMA RequeueBooks ==
    ASSUME IInv, EntryInv, BookInv, NEW s \in Senders, SettleRequeue(s)
    PROVE  BookInv'
<1>1. PICK k : k = cur[s]
  OBVIOUS
<1>2. PICK p : p = ToRequeue(s, k)
  OBVIOUS
<1>3. PICK c : c = IF IsPacket(got[s]) /\ got[s] # resent[s].val[k] THEN Classify(got[s]) ELSE cap[s]
  OBVIOUS
<1>4. PICK u : u = IF IsPacket(got[s]) /\ got[s] # resent[s].val[k]
                   THEN [usesCapacity EXCEPT ![k] = c] ELSE usesCapacity
  OBVIOUS
<1>5. PICK D : D = {k}
  OBVIOUS
<1>6. /\ pc[s] = "settle" /\ FinishEntry(s, cur[s]) /\ p # Absent
      /\ claimedKeys' = claimedKeys \ D /\ awaiting' = awaiting
      /\ IF c = "local"
         THEN /\ queue' = PutBeforeLocal(u, queue, k, p)
              /\ usesCapacity' = ClassifyVisited(u, queue)
         ELSE /\ queue' = OdPut(queue, k, p)
              /\ usesCapacity' = u
  BY <1>1, <1>2, <1>3, <1>4, <1>5 DEF SettleRequeue
<1>7. /\ k \in Keys /\ pc \in [Senders -> PcOf]
      /\ \A t \in Senders : pc'[t] = IF t = s THEN "reconcile" ELSE pc[t]
      /\ \A t \in Senders, j \in Keys \ D : Hand(t, j) => Hand(t, j)'
      /\ cur' = cur /\ reader' = reader /\ air' = air
      /\ cap' = [cap EXCEPT ![s] = "unset"]
  BY <1>1, <1>5, <1>6, FinishHands
<1>8. /\ BookTypes /\ Books /\ EntryTypes /\ QueueOk /\ EntryOk(s)
  BY DEF BookInv, EntryInv
<1>9. p \in Packets
  BY <1>1, <1>2, <1>6, RequeuedFits
<1>10. c \in Capacities /\ (k > 0 /\ c = "local" => OfLocal(k))
  <2>1. CASE IsPacket(got[s]) /\ got[s] # resent[s].val[k]
    BY <1>1, <1>3, <1>6, <1>8, <2>1, ClassifiedLocal DEF EntryOk, IsPacket, Capacities
  <2>2. CASE ~(IsPacket(got[s]) /\ got[s] # resent[s].val[k])
    <3>1. c = cap[s]
      BY <1>3, <2>2
    <3> QED
      BY <1>1, <1>6, <1>8, <3>1 DEF BookTypes, Books, ExemptIsLocal
  <2> QED
    BY <2>1, <2>2
<1>11. /\ u \in [Keys -> Capacities] /\ LocalOnly(u)
       /\ \A j \in Keys \ {k} : u[j] = usesCapacity[j]
  <2>1. CASE u = usesCapacity
    BY <1>8, <2>1 DEF BookTypes, Books, ExemptIsLocal
  <2>2. CASE u = [usesCapacity EXCEPT ![k] = c]
    BY <1>7, <1>8, <1>10, <2>2 DEF BookTypes, Books, ExemptIsLocal, LocalOnly
  <2> QED
    BY <1>4, <2>1, <2>2
<1>12. /\ usesCapacity' \in [Keys -> Capacities] /\ LocalOnly(usesCapacity)'
       /\ \A j \in Keys \ {k} : usesCapacity'[j] # "unset" => usesCapacity[j] # "unset" \/ InQueue(j)
  <2>1. CASE c = "local"
    <3>1. /\ ClassifyVisited(u, queue) \in [Keys -> Capacities]
          /\ LocalOnly(ClassifyVisited(u, queue))
          /\ \A j \in Keys : ClassifyVisited(u, queue)[j] # "unset" =>
               u[j] # "unset" \/ IsPacket(queue.val[j])
      BY <1>8, <1>11, Visited DEF QueueOk
    <3> QED
      BY <1>6, <1>11, <2>1, <3>1 DEF InQueue, LocalOnly, OfLocal
  <2>2. CASE c # "local"
    BY <1>6, <1>11, <2>2 DEF LocalOnly, OfLocal
  <2> QED
    BY <2>1, <2>2
<1>13. /\ \A j \in Keys \ {k} : queue'.val[j] = queue.val[j]
       /\ queue'.val[k] = p \/ (queue'.val[k] = queue.val[k] /\ OdHas(queue, k))
  BY <1>1, <1>2, RequeuedQueue
<1>14. Known(k)'
  <2>1. CASE queue'.val[k] \in Packets
    BY <2>1 DEF Known, InQueue, IsPacket
  <2>2. CASE queue'.val[k] \notin Packets
    <3>1. queue.val[k] = Acked
      BY <1>7, <1>8, <1>9, <1>13, <2>2 DEF EntryTypes, Values, OdHas
    <3>2. c = "local"
      <4>1. c # "local" => queue'.val = [queue.val EXCEPT ![k] = p]
        BY <1>6 DEF OdPut
      <4>2. c # "local" => queue'.val[k] = p
        BY <1>7, <1>8, <4>1 DEF EntryTypes
      <4> QED
        BY <1>9, <2>2, <4>2
    <3>3. k > 0
      BY <1>7, <1>8, <3>1, KeyFacts DEF Books
    <3> QED
      BY <1>10, <3>2, <3>3 DEF Known, OfLocal
  <2> QED
    BY <2>1, <2>2
<1>15. BookTypes'
  BY <1>6, <1>7, <1>8, <1>12 DEF BookTypes, Capacities
<1>16. ExemptIsLocal'
  BY <1>7, <1>8, <1>12 DEF Books, BookTypes, ExemptIsLocal, OfLocal
<1>17. \A j \in Keys \ D : InQueue(j) \/ awaiting[j] # "no" => Known(j)'
  BY <1>5, <1>6, <1>13 DEF Known, InQueue
<1>18. \A j \in claimedKeys' : j \in claimedKeys \ D
  BY <1>6
<1>19. \A j \in Keys : usesCapacity'[j] # "unset" =>
         \/ j \notin D /\ (usesCapacity[j] # "unset" \/ InQueue(j))
         \/ Known(j)'
  BY <1>5, <1>12, <1>14
<1>20. \A j \in Keys : j < 0 => queue'.val[j] # Acked
  BY <1>7, <1>8, <1>9, <1>13, KeyFacts DEF Books
<1> QED
  BY <1>7, <1>8, <1>15, <1>16, <1>17, <1>18, <1>19, <1>20, Booking DEF BookInv

LEMMA ErrorBooks ==
    ASSUME EntryInv, BookInv, ApplyError
    PROVE  BookInv'
<1>1. PICK i : i = reader.id
  OBVIOUS
<1>2. EntryTypes /\ BookTypes /\ Books
  BY DEF EntryInv, BookInv
<1>3. UNCHANGED <<pc, resent, cur, cap, air>> /\ reader' = Idle
  BY DEF ApplyError, senderVars, loopVars, entryVars
<1>4. reader' \in [id : Ids \cup {0}, res : BOOLEAN]
  BY <1>3 DEF Idle
<1>5. /\ i \in Ids
      /\ \A k \in Keys \ {i} : queue'.val[k] = queue.val[k]
      /\ \/ queue'.val[i] = queue.val[i]
         \/ queue.val[i] = Absent /\ queue'.val[i] = Acked
  BY <1>1, <1>2, ErrorQueue
<1>6. i \in Keys /\ i > 0
  BY <1>5, KeyFacts
<1>7. \A t \in Senders, k \in Keys : Hand(t, k) => Hand(t, k)'
  BY <1>3 DEF Hand
<1>8. \A k \in Keys : /\ InQueue(k) => InQueue(k)'
                      /\ k < 0 => queue'.val[k] = queue.val[k]
  BY <1>5, <1>6, KeyFacts DEF InQueue, IsPacket
<1>9. CASE awaiting[i] = "no"
  <2>1. UNCHANGED <<awaiting, usesCapacity, claimedKeys>>
    BY <1>1, <1>9 DEF ApplyError
  <2> QED
    BY <1>2, <1>3, <1>4, <1>7, <1>8, <2>1, SameBooks DEF BookTypes
<1>10. CASE awaiting[i] # "no"
  <2>1. PICK D : D = {i}
    OBVIOUS
  <2>2. /\ awaiting' = [awaiting EXCEPT ![i] = "no"]
        /\ usesCapacity' = ForgetCapacity(usesCapacity, D) /\ claimedKeys' = claimedKeys \ D
    BY <1>1, <1>10, <2>1 DEF ApplyError, Forget
  <2>3. /\ usesCapacity' \in [Keys -> Capacities] /\ LocalOnly(usesCapacity)'
        /\ \A j \in Keys : usesCapacity'[j] # "unset" => j \notin D /\ usesCapacity[j] # "unset"
    BY <2>2, Forgotten
  <2>4. awaiting' \in [Keys -> AgeOf] /\ \A j \in Keys \ D : awaiting'[j] = awaiting[j]
    BY <1>2, <2>1, <2>2 DEF BookTypes, AgeOf
  <2>5. BookTypes'
    BY <1>2, <1>3, <1>4, <2>2, <2>3, <2>4 DEF BookTypes
  <2>6. ExemptIsLocal'
    BY <1>2, <1>3, <2>3 DEF Books, ExemptIsLocal, OfLocal
  <2>7. \A j \in Keys \ D : InQueue(j) \/ awaiting[j] # "no" => Known(j)'
    BY <1>8, <2>4 DEF Known
  <2>8. \A j \in claimedKeys' : j \in claimedKeys \ D
    BY <2>2
  <2>9. \A j \in Keys : j < 0 => queue'.val[j] # Acked
    BY <1>2, <1>8 DEF Books
  <2> QED
    BY <1>2, <1>7, <2>3, <2>5, <2>6, <2>7, <2>8, <2>9, Booking DEF BookInv
<1> QED
  BY <1>9, <1>10

LEMMA AckBooks ==
    ASSUME EntryInv, BookInv, ApplyAck
    PROVE  BookInv'
<1>1. PICK i : i = reader.id
  OBVIOUS
<1>2. EntryTypes /\ BookTypes /\ Books
  BY DEF EntryInv, BookInv
<1>3. UNCHANGED <<pc, resent, cur, cap, air>> /\ reader' = Idle
  BY DEF ApplyAck, senderVars, loopVars, entryVars
<1>4. reader' \in [id : Ids \cup {0}, res : BOOLEAN]
  BY <1>3 DEF Idle
<1>5. /\ i \in Ids
      /\ \A k \in Keys \ {i} :
           \/ queue'.val[k] = queue.val[k]
           \/ queue.val[k] = Acked /\ queue'.val[k] = Absent
  BY <1>1, <1>2, AckQueue
<1>6. i \in Keys /\ i > 0
  BY <1>5, KeyFacts
<1>7. PICK unexpected \in BOOLEAN :
        unexpected = (~OdHas(WithoutMarkers(queue, Evicted(tombstones)), i) /\ awaiting[i] # "fresh")
  OBVIOUS
<1>8. PICK F : F = Stale \cup (IF unexpected THEN {} ELSE {i})
  OBVIOUS
<1>9. PICK D : D = Stale \cup {i}
  OBVIOUS
<1>10. /\ awaiting' = [k \in Keys |-> IF k = i \/ k \in Stale THEN "no" ELSE awaiting[k]]
       /\ usesCapacity' = ForgetCapacity(usesCapacity, F) /\ claimedKeys' = claimedKeys \ F
  BY <1>1, <1>7, <1>8 DEF ApplyAck, Forget
<1>11. /\ usesCapacity' \in [Keys -> Capacities] /\ LocalOnly(usesCapacity)'
       /\ \A j \in Keys : usesCapacity'[j] # "unset" => j \notin F /\ usesCapacity[j] # "unset"
  BY <1>10, Forgotten
<1>12. /\ awaiting' \in [Keys -> AgeOf]
       /\ \A j \in Keys \ D : awaiting'[j] = awaiting[j]
  BY <1>2, <1>9, <1>10 DEF BookTypes, AgeOf
<1>13. BookTypes'
  BY <1>2, <1>3, <1>4, <1>10, <1>11, <1>12 DEF BookTypes
<1>14. ExemptIsLocal'
  BY <1>2, <1>3, <1>11 DEF Books, ExemptIsLocal, OfLocal
<1>15. \A t \in Senders, k \in Keys : Hand(t, k) => Hand(t, k)'
  BY <1>3 DEF Hand
<1>16. \A j \in Keys \ D : InQueue(j) \/ awaiting[j] # "no" => Known(j)'
  <2>1. \A j \in Keys \ {i} : InQueue(j) => InQueue(j)'
    BY <1>5, KeyFacts DEF InQueue, IsPacket
  <2> QED
    BY <1>9, <1>12, <2>1 DEF Known
<1>17. \A j \in Keys : j < 0 => queue'.val[j] # Acked
  BY <1>2, <1>5, <1>6, KeyFacts DEF Books
\* What is remembered of an ID acknowledged unexpectedly: a sender has it in hand.
<1>18. ASSUME usesCapacity'[i] # "unset" PROVE OfLocal(i) \/ \E t \in Senders : Hand(t, i)
  <2>1. i \notin F /\ usesCapacity[i] # "unset"
    BY <1>6, <1>11, <1>18
  <2>2. unexpected /\ i \notin Stale
    BY <1>8, <2>1
  <2>3. awaiting[i] = "no"
    BY <1>2, <1>6, <1>7, <2>2 DEF BookTypes, AgeOf, Stale
  <2>4. ~InQueue(i)
    <3>1. \A k \in Keys : WithoutMarkers(queue, Evicted(tombstones)).val[k] =
            IF k \in Evicted(tombstones) /\ queue.val[k] = Acked THEN Absent ELSE queue.val[k]
      BY <1>2, WithoutMarkersValue DEF EntryTypes
    <3> QED
      BY <1>6, <1>7, <2>2, <3>1, KeyFacts DEF InQueue, IsPacket, OdHas
  <2> QED
    BY <1>2, <1>6, <2>1, <2>3, <2>4 DEF Books, Known
<1>19. \A j \in Keys : usesCapacity'[j] # "unset" =>
         \/ j \notin D /\ usesCapacity[j] # "unset"
         \/ Known(j)'
  <2>1. usesCapacity'[i] # "unset" => Known(i)'
    BY <1>6, <1>15, <1>18 DEF Known, OfLocal
  <2> QED
    BY <1>8, <1>9, <1>11, <2>1
<1>20. \A j \in claimedKeys' : j \in claimedKeys \ D \/ \E t \in Senders : Hand(t, j)'
  BY <1>2, <1>10, <1>15 DEF Books, BookTypes
<1> QED
  BY <1>2, <1>13, <1>14, <1>15, <1>16, <1>17, <1>19, <1>20, Booking DEF BookInv

LEMMA OtherBooks ==
    ASSUME EntryInv, BookInv,
           \/ \E i \in Ids \cup {0}, res \in BOOLEAN, f \in 0..MaxLen :
                 ReceiveStatus(i, res, f)
           \/ ReaderStep
           \/ \E k \in Keys \cap AgingIds : AgeAwaiting(k) \/ AgeTombstone(k)
           \/ LocalNodeChanges
           \/ \E s \in Senders, p \in Packets : RejectDuplicate(s, p)
           \/ UNCHANGED vars
    PROVE  BookInv'
<1> USE DEF queueVars, senderVars, deviceVars, callVars, loopVars, entryVars, markVars,
            onceVars, statusVars
<1>0. BookTypes
  BY DEF BookInv
<1>1. ASSUME UNCHANGED <<usesCapacity, cap, awaiting, queue, resent, pc, cur>>,
             claimedKeys' \subseteq claimedKeys,
             reader' \in [id : Ids \cup {0}, res : BOOLEAN], air' \subseteq Ids
      PROVE  BookInv'
  <2>1. \A t \in Senders, k \in Keys : Hand(t, k) => Hand(t, k)'
    BY <1>1 DEF Hand
  <2>2. \A k \in Keys : InQueue(k) => InQueue(k)'
    BY <1>1 DEF InQueue
  <2>3. awaiting' \in [Keys -> AgeOf]
    BY <1>0, <1>1 DEF BookTypes
  <2> QED
    BY <1>1, <2>1, <2>2, <2>3, SameBooks
<1>2. ASSUME NEW i \in Ids \cup {0}, NEW res \in BOOLEAN, NEW f \in 0..MaxLen,
             ReceiveStatus(i, res, f)
      PROVE  BookInv'
  <2>1. UNCHANGED <<usesCapacity, cap, awaiting, queue, resent, pc, cur>>
    BY <1>2 DEF ReceiveStatus
  <2>2. reader' \in [id : Ids \cup {0}, res : BOOLEAN] /\ air' \subseteq Ids
    BY <1>0, <1>2 DEF ReceiveStatus, BookTypes
  <2>3. claimedKeys' \subseteq claimedKeys
    BY <1>2 DEF ReceiveStatus, SurvivingClaims
  <2> QED
    BY <1>1, <2>1, <2>2, <2>3
<1>3. CASE ApplyNothing
  BY <1>0, <1>1, <1>3 DEF ApplyNothing, Idle, BookTypes
<1>4. ASSUME NEW k \in Keys, AgeAwaiting(k)
      PROVE  BookInv'
  <2>1. /\ awaiting' = [awaiting EXCEPT ![k] = "old"] /\ awaiting[k] = "fresh"
        /\ UNCHANGED <<usesCapacity, cap, queue, resent, pc, cur, claimedKeys, reader, air>>
    BY <1>4 DEF AgeAwaiting
  <2>2. /\ awaiting' \in [Keys -> AgeOf]
        /\ \A j \in Keys : awaiting[j] # "no" => awaiting'[j] # "no"
    BY <1>0, <2>1 DEF BookTypes, AgeOf
  <2>3. \A t \in Senders, j \in Keys : Hand(t, j) => Hand(t, j)'
    BY <2>1 DEF Hand
  <2>4. \A j \in Keys : InQueue(j) => InQueue(j)'
    BY <2>1 DEF InQueue
  <2> QED
    BY <1>0, <2>1, <2>2, <2>3, <2>4, SameBooks DEF BookTypes
<1>5. ASSUME NEW k \in Keys, AgeTombstone(k)
      PROVE  BookInv'
  BY <1>0, <1>1, <1>5 DEF AgeTombstone, BookTypes
<1>6. CASE LocalNodeChanges
  BY <1>0, <1>1, <1>6 DEF LocalNodeChanges, BookTypes
<1>7. ASSUME NEW s \in Senders, NEW p \in Packets, RejectDuplicate(s, p)
      PROVE  BookInv'
  BY <1>0, <1>1, <1>7 DEF RejectDuplicate, BookTypes
<1>8. CASE UNCHANGED vars
  BY <1>0, <1>1, <1>8 DEF vars, BookTypes
<1> QED
  BY <1>2, <1>3, <1>4, <1>5, <1>6, <1>7, <1>8, ErrorBooks, AckBooks DEF ReaderStep

LEMMA LoopBooks ==
    ASSUME IInv, EntryInv, BookInv, NEW s \in Senders,
           \/ PopOldest(s) \/ PopMarker(s) \/ PopLocal(s) \/ PopNothing(s)
           \/ ForgetAcked(s) \/ CheckEmpty(s) \/ KeepWaiting(s) \/ GiveUp(s)
           \/ DeadlineExpired(s)
    PROVE  BookInv'
<1> USE DEF deviceVars, markVars, loopVars, entryVars, PcOf
<1>0. /\ EntryTypes /\ QueueOk /\ BookTypes /\ LocalOnly(usesCapacity)
  BY DEF EntryInv, BookInv, Books, ExemptIsLocal
<1>1. CASE PopOldest(s)
  <2>1. PICK k \in Keys :
          LET v == queue.val[k]
              charged == IsPacket(v) /\ free # NoStatus /\ CapacityOf(k, v) = "rf" IN
          /\ queue' = OdPop(queue, k)
          /\ usesCapacity' = IF IsPacket(v) /\ free # NoStatus
                             THEN [usesCapacity EXCEPT ![k] = CapacityOf(k, v)]
                             ELSE usesCapacity
          /\ claimedKeys' = IF charged THEN claimedKeys \cup {k} ELSE claimedKeys
          /\ IF IsPacket(v) THEN StartSend(s, k, v) ELSE TakeMarker(s, k)
    BY <1>1 DEF PopOldest
  <2>2. pc[s] = "pop" /\ UNCHANGED <<awaiting, cap, reader, air>>
    BY <1>1 DEF PopOldest
  <2>3. CASE IsPacket(queue.val[k])
    <3> DEFINE c == CapacityIn(usesCapacity, k, queue.val[k])
    <3>1. queue.val[k] \in Packets /\ Fits(k, queue.val[k])
      BY <1>0, <2>3 DEF IsPacket, QueueOk
    <3>2. c \in {"rf", "local"} /\ (k > 0 /\ c = "local" => OfLocal(k))
      BY <1>0, <3>1, Classified DEF BookTypes
    <3>3. usesCapacity' = usesCapacity \/ usesCapacity' = [usesCapacity EXCEPT ![k] = c]
      BY <2>1 DEF CapacityOf
    <3> HIDE DEF c
    <3>4. /\ usesCapacity' \in [Keys -> Capacities] /\ LocalOnly(usesCapacity)'
          /\ \A j \in Keys : usesCapacity'[j] # "unset" => usesCapacity[j] # "unset" \/ InQueue(j)
      BY <1>0, <2>3, <3>2, <3>3 DEF BookTypes, LocalOnly, OfLocal, Capacities, InQueue
    <3>5. claimedKeys' \subseteq claimedKeys \cup {k}
      BY <2>1
    <3> QED
      BY <2>1, <2>2, <2>3, <3>1, <3>4, <3>5, TakeBooks
  <2>4. CASE ~IsPacket(queue.val[k])
    BY <2>1, <2>2, <2>4, MarkerBooks DEF InQueue
  <2> QED
    BY <2>3, <2>4
<1>2. CASE PopMarker(s)
  <2>1. PICK k \in Keys : queue' = OdPop(queue, k) /\ TakeMarker(s, k) /\ queue.val[k] = Acked
    BY <1>2 DEF PopMarker
  <2>2. pc[s] = "pop" /\ UNCHANGED <<awaiting, cap, reader, air, claimedKeys, usesCapacity>>
    BY <1>2 DEF PopMarker
  <2> QED
    BY <2>1, <2>2, MarkerBooks, KeyFacts DEF InQueue, IsPacket
<1>3. CASE PopLocal(s)
  <2>1. PICK k \in Keys : /\ queue' = OdPop(queue, k) /\ IsPacket(queue.val[k])
                          /\ usesCapacity' = ClassifyVisited(usesCapacity, queue)
                          /\ StartSend(s, k, queue.val[k])
    BY <1>3 DEF PopLocal
  <2>2. pc[s] \in {"pop", "popLocal"} /\ UNCHANGED <<awaiting, cap, reader, air, claimedKeys>>
    BY <1>3 DEF PopLocal
  <2>3. /\ ClassifyVisited(usesCapacity, queue) \in [Keys -> Capacities]
        /\ LocalOnly(ClassifyVisited(usesCapacity, queue))
        /\ \A j \in Keys : ClassifyVisited(usesCapacity, queue)[j] # "unset" =>
             usesCapacity[j] # "unset" \/ IsPacket(queue.val[j])
    BY <1>0, Visited DEF BookTypes, QueueOk
  <2>4. /\ usesCapacity' \in [Keys -> Capacities] /\ LocalOnly(usesCapacity)'
        /\ \A j \in Keys : usesCapacity'[j] # "unset" => usesCapacity[j] # "unset" \/ InQueue(j)
    BY <2>1, <2>3 DEF LocalOnly, OfLocal, InQueue
  <2> QED
    BY <2>1, <2>2, <2>4, TakeBooks DEF IsPacket
<1>4. CASE CheckEmpty(s)
  <2>1. PICK x \in {"reconcile", "blocked"} : pc' = [pc EXCEPT ![s] = x]
    BY <1>4 DEF CheckEmpty
  <2> QED
    BY <1>0, <1>4, <2>1, MovingBooks DEF CheckEmpty, queueVars, BookTypes
<1>5. CASE KeepWaiting(s)
  BY <1>0, <1>5, MovingBooks DEF KeepWaiting, queueVars, BookTypes
<1>6. CASE GiveUp(s)
  BY <1>6, DropBooks DEF GiveUp
<1>7. CASE DeadlineExpired(s)
  <2>1. CASE queuedKey[s] \in sent[s]
    BY <1>0, <1>7, <2>1, MovingBooks DEF DeadlineExpired, BookTypes
  <2>2. CASE queuedKey[s] \notin sent[s]
    BY <1>7, <2>2, DropBooks DEF DeadlineExpired
  <2> QED
    BY <2>1, <2>2
<1> QED
  BY <1>1, <1>2, <1>3, <1>4, <1>5, <1>6, <1>7, ForgetBooks, NothingBooks

LEMMA TransportBooks ==
    ASSUME IInv, EntryInv, BookInv, NEW s \in Senders,
           \/ Transmit(s) \/ SendReturns(s) \/ SendRaises(s) \/ Reconcile(s)
           \/ ReconcileDone(s) \/ SettleDone(s) \/ SettleSent(s) \/ SettleRequeue(s)
           \/ Release(s) \/ ReleaseOwn(s)
    PROVE  BookInv'
<1> USE DEF deviceVars, markVars, loopVars, entryVars, PcOf
<1>0. BookTypes
  BY DEF BookInv
<1>1. CASE Transmit(s)
  <2>1. air' \subseteq Ids
    BY <1>0, <1>1, KeyFacts DEF Transmit, EntryInv, EntryOk, InSendImpl, BookTypes, IdOfKey
  <2> QED
    BY <1>1, <2>1, MovingBooks DEF Transmit, queueVars
<1>2. CASE SendReturns(s)
  <2>1. PICK x \in {"popLocal", "pop"} : pc' = [pc EXCEPT ![s] = x]
    BY <1>2 DEF SendReturns
  <2> QED
    BY <1>0, <1>2, <2>1, MovingBooks DEF SendReturns, queueVars, BookTypes
<1>3. CASE SendRaises(s)
  BY <1>0, <1>3, MovingBooks DEF SendRaises, BookTypes
<1>4. CASE ReconcileDone(s)
  BY <1>0, <1>4, MovingBooks DEF ReconcileDone, queueVars, BookTypes
<1>5. CASE Release(s)
  <2>1. PICK x \in {"releaseOwn", "idle"} : pc' = [pc EXCEPT ![s] = x]
    BY <1>5 DEF Release
  <2> QED
    BY <1>0, <1>5, <2>1, MovingBooks DEF Release, BookTypes
<1>6. CASE ReleaseOwn(s)
  BY <1>0, <1>6, MovingBooks DEF ReleaseOwn, BookTypes
<1> QED
  BY <1>1, <1>2, <1>3, <1>4, <1>5, <1>6, ReconcileBooks, DoneBooks, SentBooks, RequeueBooks

-----------------------------------------------------------------------------
\* The slots

\* What is free and what is claimed of the current QueueStatus add up to no
\* more than it reported.
Count ==
    /\ IsFiniteSet(claimedKeys)
    /\ free # NoStatus => reported # NoStatus /\ free + Cardinality(claimedKeys) <= reported
    /\ claimedKeys # {} => free # NoStatus

CountInv == CountTypes /\ Count

\* A step that may drop claims and returns at most one slot for one it drops.
LEMMA FewerClaims ==
    ASSUME CountInv, claimedKeys' \subseteq claimedKeys, reported' = reported,
           \/ free' = free
           \/ \E k \in claimedKeys \ claimedKeys' : free' = free + 1
    PROVE  /\ Count' /\ free' \in Nat \cup {NoStatus}
<1>1. /\ IsFiniteSet(claimedKeys) /\ IsFiniteSet(claimedKeys')
      /\ Cardinality(claimedKeys) \in Nat /\ Cardinality(claimedKeys') \in Nat
      /\ Cardinality(claimedKeys') <= Cardinality(claimedKeys)
  BY FS_Subset, FS_CardinalityType DEF CountInv, Count
<1>2. /\ free \in Nat \cup {NoStatus} /\ reported \in Nat \cup {NoStatus}
      /\ free # NoStatus => reported # NoStatus /\ free + Cardinality(claimedKeys) <= reported
      /\ claimedKeys # {} => free # NoStatus
  BY DEF CountInv, CountTypes, Count
<1>3. CASE free' = free
  BY <1>1, <1>2, <1>3 DEF Count, NoStatus
<1>4. ASSUME NEW k \in claimedKeys \ claimedKeys', free' = free + 1
      PROVE  /\ Count' /\ free' \in Nat \cup {NoStatus}
  <2>1. claimedKeys' \subseteq claimedKeys \ {k}
    BY <1>4
  <2>2. /\ IsFiniteSet(claimedKeys \ {k})
        /\ Cardinality(claimedKeys \ {k}) = Cardinality(claimedKeys) - 1
    BY <1>1, FS_RemoveElement
  <2>3. Cardinality(claimedKeys') <= Cardinality(claimedKeys) - 1
    BY <2>1, <2>2, FS_Subset
  <2>4. free \in Nat /\ reported \in Nat /\ free + Cardinality(claimedKeys) <= reported
    BY <1>2, <1>4 DEF NoStatus
  <2> QED
    BY <1>1, <1>4, <2>3, <2>4 DEF Count, NoStatus
<1> QED
  BY <1>3, <1>4

\* A popped packet takes a slot.
LEMMA OldestCount ==
    ASSUME CountInv, NEW s \in Senders, PopOldest(s)
    PROVE  Count' /\ free' \in Nat \cup {NoStatus}
<1>1. PICK k : \/ free' = free /\ claimedKeys' = claimedKeys
               \/ /\ free # NoStatus /\ free' = free - 1
                  /\ claimedKeys' = claimedKeys \cup {k}
  BY DEF PopOldest
<1>2. /\ reported' = reported /\ free # 0
  BY DEF PopOldest, deviceVars, Full
<1>3. CASE free' = free /\ claimedKeys' = claimedKeys
  BY <1>2, <1>3, FewerClaims
<1>4. CASE free # NoStatus /\ free' = free - 1 /\ claimedKeys' = claimedKeys \cup {k}
  <2>1. /\ IsFiniteSet(claimedKeys) /\ Cardinality(claimedKeys) \in Nat
        /\ free \in Nat /\ reported \in Nat /\ free + Cardinality(claimedKeys) <= reported
    BY <1>4, FS_CardinalityType DEF CountInv, CountTypes, Count
  <2>2. /\ IsFiniteSet(claimedKeys \cup {k})
        /\ Cardinality(claimedKeys \cup {k}) \in Nat
        /\ Cardinality(claimedKeys \cup {k}) <= Cardinality(claimedKeys) + 1
    <3>1. /\ IsFiniteSet(claimedKeys \cup {k})
          /\ Cardinality(claimedKeys \cup {k}) =
               IF k \in claimedKeys THEN Cardinality(claimedKeys) ELSE Cardinality(claimedKeys) + 1
      BY <2>1, FS_AddElement, Zenon
    <3> QED
      BY <2>1, <3>1
  <2> QED
    BY <1>2, <1>4, <2>1, <2>2 DEF Count, NoStatus
<1> QED
  BY <1>1, <1>3, <1>4

LEMMA StatusCount ==
    ASSUME NEW i, NEW res, NEW f \in 0..MaxLen, ReceiveStatus(i, res, f)
    PROVE  Count' /\ free' \in Nat \cup {NoStatus} /\ reported' \in Nat \cup {NoStatus}
<1>1. free' = f /\ reported' = f /\ claimedKeys' = {}
  BY DEF ReceiveStatus, SurvivingClaims
<1> QED
  BY <1>1, FS_EmptySet, BoundsAssumption DEF Count, NoStatus

\* Every other step drops claims only, and returns no slot but for one of them.
LEMMA OtherCount ==
    ASSUME CountInv, [Next]_vars,
           ~\E s \in Senders : PopOldest(s),
           ~\E i \in Ids \cup {0}, res \in BOOLEAN, f \in 0..MaxLen : ReceiveStatus(i, res, f)
    PROVE  /\ claimedKeys' \subseteq claimedKeys /\ reported' = reported
           /\ \/ free' = free
              \/ \E k \in claimedKeys \ claimedKeys' : free' = free + 1
<1>1. ASSUME NEW s \in Senders, Caller(s) \/ SenderStep(s) \/ GiveUp(s) \/ DeadlineExpired(s)
                                \/ SendRaises(s)
      PROVE  /\ claimedKeys' \subseteq claimedKeys /\ reported' = reported
             /\ \/ free' = free
                \/ \E k \in claimedKeys \ claimedKeys' : free' = free + 1
  <2>1. CASE SettleRequeue(s)
    <3>1. /\ claimedKeys' = claimedKeys \ {cur[s]} /\ reported' = reported
          /\ free' = free \/ (cur[s] \in claimedKeys /\ free' = free + 1)
      BY <2>1 DEF SettleRequeue, FinishEntry, deviceVars
    <3> QED
      BY <3>1
  <2>2. CASE SettleDone(s) \/ SettleSent(s)
    BY <2>2 DEF SettleDone, SettleSent, FinishEntry, Forget, deviceVars
  <2>3. CASE GiveUp(s) \/ DeadlineExpired(s)
    BY <2>3 DEF GiveUp, DeadlineExpired, DropUnsent, Forget, statusVars
  <2>4. CASE \E p \in Packets : Admit(s, p) \/ RejectDuplicate(s, p)
    BY <2>4 DEF Admit, RejectDuplicate, queueVars, deviceVars, statusVars
  <2> QED
    BY <1>1, <2>1, <2>2, <2>3, <2>4 DEF Caller, SenderStep, PopMarker, PopLocal, PopNothing,
         ForgetAcked, Forget, CheckEmpty, KeepWaiting, Transmit, SendReturns, SendRaises,
         Reconcile, ReconcileDone, Release, ReleaseOwn, queueVars, deviceVars, statusVars
<1>2. CASE ReaderStep
  BY <1>2 DEF ReaderStep, ApplyError, ApplyAck, ApplyNothing, Forget, statusVars, queueVars
<1> QED
  BY <1>1, <1>2 DEF Next, AgeAwaiting, AgeTombstone, LocalNodeChanges, vars, queueVars,
       deviceVars, statusVars

LEMMA NextCount ==
    ASSUME CountInv, [Next]_vars
    PROVE  CountInv'
<1>1. Count' /\ free' \in Nat \cup {NoStatus} /\ reported' \in Nat \cup {NoStatus}
  <2>1. ASSUME NEW s \in Senders, PopOldest(s)
        PROVE  Count' /\ free' \in Nat \cup {NoStatus} /\ reported' \in Nat \cup {NoStatus}
    BY <2>1, OldestCount DEF PopOldest, deviceVars, CountInv, CountTypes
  <2>2. ASSUME NEW i \in Ids \cup {0}, NEW res \in BOOLEAN, NEW f \in 0..MaxLen,
               ReceiveStatus(i, res, f)
        PROVE  Count' /\ free' \in Nat \cup {NoStatus} /\ reported' \in Nat \cup {NoStatus}
    BY <2>2, StatusCount
  <2>3. CASE /\ ~\E s \in Senders : PopOldest(s)
             /\ ~\E i \in Ids \cup {0}, res \in BOOLEAN, f \in 0..MaxLen : ReceiveStatus(i, res, f)
    <3>1. /\ claimedKeys' \subseteq claimedKeys /\ reported' = reported
          /\ \/ free' = free
             \/ \E k \in claimedKeys \ claimedKeys' : free' = free + 1
      BY <2>3, OtherCount
    <3> QED
      BY <3>1, FewerClaims DEF CountInv, CountTypes
  <2> QED
    BY <2>1, <2>2, <2>3
<1>2. \/ calls' = calls /\ nextZeroKey' = nextZeroKey
      \/ /\ calls < MaxCalls /\ calls' = calls + 1
         /\ nextZeroKey' = nextZeroKey - 1 \/ nextZeroKey' = nextZeroKey
  <2>1. ASSUME NEW s \in Senders, NEW p \in Packets, Admit(s, p)
        PROVE  /\ calls < MaxCalls /\ calls' = calls + 1
               /\ nextZeroKey' = nextZeroKey - 1 \/ nextZeroKey' = nextZeroKey
    BY <2>1 DEF Admit
  <2>2. ASSUME NEW s \in Senders, SenderStep(s) \/ GiveUp(s) \/ DeadlineExpired(s) \/ SendRaises(s)
        PROVE  calls' = calls /\ nextZeroKey' = nextZeroKey
    BY <2>2 DEF SenderStep, PopOldest, PopMarker, PopLocal, PopNothing, ForgetAcked, CheckEmpty,
       KeepWaiting, Transmit, SendReturns, Reconcile, ReconcileDone, SettleDone, SettleSent,
       SettleRequeue, FinishEntry, Release, ReleaseOwn, GiveUp, DeadlineExpired, SendRaises,
       queueVars, deviceVars, onceVars
  <2>3. ASSUME NEW s \in Senders, NEW p \in Packets, RejectDuplicate(s, p)
        PROVE  calls' = calls /\ nextZeroKey' = nextZeroKey
    BY <2>3 DEF RejectDuplicate, queueVars, deviceVars, onceVars
  <2>4. ASSUME NEW i, NEW res, NEW f, ReceiveStatus(i, res, f)
        PROVE  calls' = calls /\ nextZeroKey' = nextZeroKey
    BY <2>4 DEF ReceiveStatus, onceVars
  <2>5. CASE ReaderStep \/ LocalNodeChanges \/ UNCHANGED vars
             \/ \E k \in Keys : AgeAwaiting(k) \/ AgeTombstone(k)
    BY <2>5 DEF ReaderStep, ApplyError, ApplyAck, ApplyNothing, AgeAwaiting, AgeTombstone,
       LocalNodeChanges, queueVars, deviceVars, onceVars, vars
  <2> QED
    BY <2>1, <2>2, <2>3, <2>4, <2>5 DEF Next, Caller
<1>3. calls' \in 0..MaxCalls /\ nextZeroKey' \in Int /\ nextZeroKey' <= -1 /\ nextZeroKey' >= -1 - calls'
  BY <1>2, BoundsAssumption DEF CountInv, CountTypes
<1> QED
  BY <1>1, <1>3 DEF CountInv, CountTypes

-----------------------------------------------------------------------------
QInv == IInv /\ CountInv /\ EntryInv /\ BookInv

LEMMA InitQInv == Init => QInv
<1> SUFFICES ASSUME Init PROVE QInv
  OBVIOUS
<1>1. IInv
  BY InitIInv
<1>2. CountInv
  BY FS_EmptySet, BoundsAssumption DEF Init, CountInv, CountTypes, Count
<1>3. /\ EntryTypes
      /\ \A k \in Keys : queue.val[k] = Absent
      /\ \A s \in Senders : Complete(resent[s]) /\ \A k \in Keys : resent[s].val[k] = Absent
  <2>1. /\ OdEmpty(Keys) \in Dict /\ Complete(OdEmpty(Keys))
        /\ \A k \in Keys : OdEmpty(Keys).val[k] = Absent
    BY EmptyDict
  <2>2. OdEmpty(Keys).val \in [Keys -> Values]
    BY <2>1 DEF Dict
  <2> HIDE DEF Complete
  <2> QED
    BY <2>1, <2>2, KeyFacts DEF Init, EntryTypes
<1>4. EntryInv
  <2>1. QueueOk
    BY <1>3, KeyFacts DEF QueueOk, Fits, IsPacket
  <2>2. \A s \in Senders : EntryOk(s)
    BY <1>3, KeyFacts DEF Init, EntryOk, InSendImpl, Busy, Fits, IsPacket
  <2> QED
    BY <1>3, <2>1, <2>2 DEF EntryInv
<1>5. BookInv
  BY <1>3, KeyFacts DEF Init, BookInv, BookTypes, Books, ExemptIsLocal, LocalOnly, Capacities,
     AgeOf, Idle
<1> QED
  BY <1>1, <1>2, <1>4, <1>5 DEF QInv

LEMMA NextQInv == QInv /\ [Next]_vars => QInv'
<1> SUFFICES ASSUME QInv, [Next]_vars PROVE QInv'
  OBVIOUS
<1>0. IInv /\ CountInv /\ CountTypes /\ EntryInv /\ BookInv /\ BookTypes
  BY DEF QInv, CountInv, BookInv
<1>1. IInv' /\ CountInv'
  BY <1>0, NextIInv, NextCount
<1>2. ASSUME NEW s \in Senders, NEW p \in Packets, Admit(s, p)
      PROVE  EntryInv' /\ BookInv'
  BY <1>0, <1>2, AdmitEntries, AdmitBooks
<1>3. ASSUME NEW s \in Senders, SenderStep(s) \/ GiveUp(s) \/ DeadlineExpired(s) \/ SendRaises(s)
      PROVE  EntryInv' /\ BookInv'
  BY <1>0, <1>3, LoopEntries, LoopBooks, TransportEntries, TransportBooks, ReleaseEntries
  DEF SenderStep
<1>4. ASSUME \/ \E i \in Ids \cup {0}, res \in BOOLEAN, f \in 0..MaxLen :
                     ReceiveStatus(i, res, f)
             \/ ReaderStep
             \/ \E k \in Keys \cap AgingIds : AgeAwaiting(k) \/ AgeTombstone(k)
             \/ LocalNodeChanges
             \/ \E s \in Senders, p \in Packets : RejectDuplicate(s, p)
             \/ UNCHANGED vars
      PROVE  EntryInv' /\ BookInv'
  <2>1. EntryInv'
    BY <1>0, <1>4, OtherEntries, Zenon
  <2>2. BookInv'
    BY <1>0, <1>4, OtherBooks, Zenon
  <2> QED
    BY <2>1, <2>2
<1>5. EntryInv' /\ BookInv'
  BY <1>2, <1>3, <1>4 DEF Next, Caller
<1> QED
  BY <1>1, <1>5 DEF QInv

LEMMA BooksAreAccounts == QInv => SlotAccounting
<1> SUFFICES ASSUME QInv PROVE SlotAccounting
  OBVIOUS
<1>1. free # NoStatus => free + Cardinality(claimedKeys) <= reported
  BY DEF QInv, CountInv, Count
<1>2. ASSUME \A s \in Senders : pc[s] = "idle"
      PROVE  /\ claimedKeys = {}
             /\ \A k \in Keys : usesCapacity[k] # "unset" =>
                    OdHas(queue, k) \/ awaiting[k] # "no" \/ OfLocal(k)
  <2>1. \A s \in Senders, k \in Keys : ~Hand(s, k)
    BY <1>2 DEF QInv, EntryInv, EntryOk, Busy, Hand, OdHas
  <2>2. claimedKeys = {}
    BY <2>1 DEF QInv, BookInv, BookTypes, Books
  <2>3. \A k \in Keys : InQueue(k) => OdHas(queue, k)
    BY KeyFacts DEF InQueue, IsPacket, OdHas
  <2> QED
    BY <2>1, <2>2, <2>3 DEF QInv, BookInv, Books, Known
<1> QED
  BY <1>1, <1>2 DEF SlotAccounting

\* The host never believes in more RF slots than the device last reported, and
\* when every call has returned no slot stays claimed and nothing is remembered of
\* an ID that is neither queued nor awaited, unless a local packet has it: what
\* _forget_capacity_state_locked leaves behind on each path of the reconciliation.
THEOREM SlotsAreAccounted == Spec => []SlotAccounting
BY InitQInv, NextQInv, BooksAreAccounts, PTL DEF Spec

-----------------------------------------------------------------------------
\* Acknowledgements that come early

\* A packet in the transport owns its ID.
LEMMA SendingIsActive ==
    ASSUME IInv, EntryInv, NEW s \in Senders, InSendImpl(s), cur[s] > 0
    PROVE  Active(cur[s])
<1> DEFINE k == cur[s]
<1>1. k \in Keys /\ k \in Ids /\ \E n \in 1..Len(popped[s]) : popped[s][n] = k
  BY KeyFacts DEF EntryInv, EntryOk
<1>2. PICK n \in 1..Len(popped[s]) : popped[s][n] = k
  BY <1>1
<1>3. <<s, n>> \in Holders(k)
  BY <1>1, <1>2 DEF Holders, PoppedClaims
<1>4. IsFiniteSet(Holders(k)) /\ claims[k] = Cardinality(Holders(k)) /\ claims[k] \in Nat
  BY <1>1 DEF IInv, HoldersFinite, ClaimsExact, ClaimTypes
<1>5. claims[k] # 0
  <2> HIDE DEF k
  <2> QED
    BY <1>3, <1>4, FS_EmptySet
<1> QED
  BY <1>1, <1>4, <1>5 DEF Active

LEMMA PinnedStep ==
    ASSUME QInv, [Next]_vars, NEW s \in Senders, InSendImpl(s), queue.val[cur[s]] = Acked,
           reader # reader'
    PROVE  queue'.val[cur[s]] = Acked \/ reader.id = cur[s]
<1>0. IInv /\ EntryInv /\ EntryTypes /\ BookTypes /\ Books
  BY DEF QInv, EntryInv, BookInv
<1>1. cur[s] \in Keys
  BY <1>0 DEF EntryInv, EntryOk
<1>2. cur[s] > 0
  <2>1. ~(cur[s] < 0)
    BY <1>0, <1>1 DEF Books
  <2>2. PICK k \in Keys : k = cur[s]
    BY <1>1
  <2>3. k \in Int /\ k # 0
    BY KeyFacts
  <2> QED
    BY <2>1, <2>2, <2>3, SMT
<1>3. Active(cur[s])
  BY <1>0, <1>2, SendingIsActive
<1>4. CASE ApplyAck
  BY <1>0, <1>1, <1>3, <1>4, AckQueue
<1>5. CASE ApplyError
  BY <1>0, <1>1, <1>5, ErrorQueue
<1>6. CASE queue' = queue
  BY <1>6
<1>7. reader' = reader \/ queue' = queue \/ ApplyError \/ ApplyAck
  <2>1. ASSUME NEW t \in Senders, Caller(t) \/ SenderStep(t) \/ GiveUp(t) \/ DeadlineExpired(t)
                                  \/ SendRaises(t)
        PROVE  reader' = reader
    BY <2>1 DEF Caller, Admit, RejectDuplicate, SenderStep, PopOldest, PopMarker, PopLocal,
       PopNothing, ForgetAcked, CheckEmpty, KeepWaiting, Transmit, SendReturns, Reconcile,
       ReconcileDone, SettleDone, SettleSent, SettleRequeue, FinishEntry, Release, ReleaseOwn,
       GiveUp, DeadlineExpired, SendRaises, deviceVars
  <2>2. ASSUME NEW i, NEW res, NEW f, ReceiveStatus(i, res, f)
        PROVE  queue' = queue
    BY <2>2 DEF ReceiveStatus
  <2> QED
    BY <2>1, <2>2 DEF Next, ReaderStep, ApplyNothing, AgeAwaiting, AgeTombstone,
       LocalNodeChanges, queueVars, deviceVars, vars
<1> QED
  BY <1>4, <1>5, <1>6, <1>7

\* _prune_unexpected_ack_tombstones_locked, whatever the bounds on the tombstones,
\* never discards the acknowledgement of a packet that a sender has in send_impl.
THEOREM EarlyAckStaysPinned == Spec => EarlyAckPinned
<1>1. QInv /\ [Next]_vars =>
        [\A s \in Senders :
            InSendImpl(s) /\ queue.val[cur[s]] = Acked /\ reader # reader'
                => queue'.val[cur[s]] = Acked \/ reader.id = cur[s]]_vars
  BY PinnedStep
<1> QED
  BY <1>1, InitQInv, NextQInv, PTL DEF Spec, EarlyAckPinned

-----------------------------------------------------------------------------
\* No packet is lost

\* No two packets have an ID in common, nor one with what others have sent.
DistinctIds ==
    /\ \A p, q \in Packets : PacketId[p] # 0 /\ PacketId[p] = PacketId[q] => p = q
    /\ \A p \in Packets : PacketId[p] \notin ForeignIds

\* The sender still pops packets, between two sends.
Looping(s) == pc[s] \in {"pop", "popLocal", "forgetAcked", "checkEmpty", "blocked"}

HasPopped(s, k) == \E n \in 1..Len(popped[s]) : popped[s][n] = k

\* What a sender has in hand it has sent, but for the packet in the transport
\* and what it reconciles; and it has popped what it has in hand or has sent.
HandsOk(s) ==
    /\ Looping(s) => \A k \in Keys : InHand(s, k) => k \in sent[s]
    /\ InSendImpl(s) => \A k \in Keys : InHand(s, k) /\ k # cur[s] => k \in sent[s]
    /\ Busy(s) => \A k \in Keys : k > 0 /\ (k \in sent[s] \/ InHand(s, k)) => HasPopped(s, k)

\* The loop of the sender has the key.
Touch(s, k) == Busy(s) /\ (OdHas(resent[s], k) \/ k \in sent[s])

\* A private key is the queue's, or one sender's.
PrivateOk(k) ==
    /\ InQueue(k) \/ k <= nextZeroKey => \A s \in Senders : ~Touch(s, k)
    /\ k <= nextZeroKey => ~InQueue(k)
    /\ \A s, t \in Senders : Touch(s, k) /\ Touch(t, k) => s = t
    /\ \A s \in Senders : pc[s] = "settle" /\ cur[s] = k => got[s] = Absent /\ OdHas(resent[s], k)
Private == \A k \in Keys : k < 0 => PrivateOk(k)

\* The device has received every packet with the ID.
Received(k) == \A p \in Packets : PacketId[p] = k => p \in settled

\* For all that the sender knows the device has received what it had under k.
Seen(s, k) ==
    \/ Busy(s) /\ k \in sent[s]
    \/ pc[s] = "onAir" /\ cur[s] = k
    \/ pc[s] = "settle" /\ cur[s] = k /\ got[s] = Acked /\ InHand(s, k)
Evidence ==
    \A k \in Keys : k > 0 /\ (\/ k \in air \/ k = reader.id \/ queue.val[k] = Acked
                              \/ \E s \in Senders : Seen(s, k))
                    => Received(k)

\* The sender will put the packet back in the queue.
Unsent(s, k) == k \notin sent[s] /\ ~(pc[s] = "onAir" /\ cur[s] = k)
Returns(s, p) == got[s] = p \/ \E k \in Keys : Unsent(s, k) /\ resent[s].val[k] = p
Queued(p) == \E k \in Keys : queue.val[k] = p
Alive(p) == Queued(p) \/ \E s \in Senders : Returns(s, p)
Kept == \A s \in Senders : incoming[s] # NoPacket => incoming[s] \in settled \/ Alive(incoming[s])

LostInv == (\A s \in Senders : HandsOk(s)) /\ Private /\ Evidence /\ Kept

\* The senders outside M do not move.
Frame(M) ==
    \A t \in Senders \ M :
        /\ pc'[t] = pc[t] /\ cur'[t] = cur[t] /\ got'[t] = got[t]
        /\ popped'[t] = popped[t] /\ sent'[t] = sent[t]
        /\ \A k \in Keys : resent'[t].val[k] = resent[t].val[k]

LEMMA FrameHands ==
    ASSUME NEW M, Frame(M), \A s \in Senders : HandsOk(s),
           \A s \in Senders \cap M : HandsOk(s)'
    PROVE  \A s \in Senders : HandsOk(s)'
<1>1. ASSUME NEW t \in Senders \ M
      PROVE  HandsOk(t)'
  <2>1. /\ pc'[t] = pc[t] /\ cur'[t] = cur[t]
        /\ popped'[t] = popped[t] /\ sent'[t] = sent[t]
        /\ \A k \in Keys : resent'[t].val[k] = resent[t].val[k]
    BY DEF Frame
  <2> QED
    BY <2>1 DEF HandsOk, Looping, InSendImpl, Busy, InHand, HasPopped
<1> QED
  BY <1>1

LEMMA FramePrivate ==
    ASSUME NEW M, Frame(M), NEW k \in Keys, PrivateOk(k), nextZeroKey' = nextZeroKey,
           InQueue(k)' => InQueue(k),
           \A s \in Senders \cap M :
               /\ Touch(s, k)' => Touch(s, k)
               /\ pc'[s] = "settle" /\ cur'[s] = k =>
                      got'[s] = Absent /\ resent'[s].val[k] # Absent
    PROVE  PrivateOk(k)'
<1>1. \A t \in Senders \ M : /\ Touch(t, k)' <=> Touch(t, k)
                             /\ pc'[t] = pc[t] /\ cur'[t] = cur[t] /\ got'[t] = got[t]
                             /\ resent'[t].val[k] = resent[t].val[k]
  BY DEF Frame, Touch, Busy, OdHas
<1>2. \A t \in Senders : Touch(t, k)' => Touch(t, k)
  BY <1>1
<1>3. \A t \in Senders : pc'[t] = "settle" /\ cur'[t] = k =>
                           got'[t] = Absent /\ OdHas(resent[t], k)'
  BY <1>1 DEF PrivateOk, OdHas
<1> QED
  BY <1>2, <1>3 DEF PrivateOk

LEMMA FrameEvidence ==
    ASSUME NEW M, Frame(M), Evidence, settled \subseteq settled',
           \A k \in Keys : k > 0 =>
               /\ k \in air' \/ k = reader'.id \/ queue'.val[k] = Acked => Received(k)'
               /\ \A s \in Senders \cap M : Seen(s, k)' => Received(k)'
    PROVE  Evidence'
<1>1. ASSUME NEW k \in Keys, k > 0, NEW t \in Senders \ M, Seen(t, k)'
      PROVE  Received(k)'
  <2>1. Seen(t, k)
    BY <1>1 DEF Frame, Seen, Busy, InHand
  <2> QED
    BY <1>1, <2>1 DEF Evidence, Received
<1> QED
  BY <1>1 DEF Evidence

LEMMA FrameKept ==
    ASSUME NEW M, Frame(M), Kept, incoming' = incoming, settled \subseteq settled',
           \A p \in Packets : /\ Queued(p) => p \in settled' \/ Alive(p)'
                              /\ \A s \in Senders \cap M : Returns(s, p) => p \in settled' \/ Alive(p)',
           incoming \in [Senders -> Packets \cup {NoPacket}]
    PROVE  Kept'
<1>1. ASSUME NEW p \in Packets, Alive(p)
      PROVE  p \in settled' \/ Alive(p)'
  <2>1. ASSUME NEW t \in Senders \ M, Returns(t, p)
        PROVE  Alive(p)'
    <3>1. Returns(t, p)'
      BY <2>1 DEF Frame, Returns, Unsent
    <3> QED
      BY <3>1 DEF Alive
  <2> QED
    BY <1>1, <2>1 DEF Alive
<1> QED
  BY <1>1 DEF Kept

\* The sender moves on and changes nothing but, perhaps, the queue: what leaves
\* it is a marker, or a packet that is settled.
LEMMA StillKeeps ==
    ASSUME LostInv, NEW s \in Senders, Frame({s}), incoming \in [Senders -> Packets \cup {NoPacket}],
           UNCHANGED <<incoming, nextZeroKey, air, reader>>, settled \subseteq settled',
           got'[s] = got[s], cur'[s] = cur[s], sent'[s] = sent[s],
           \A k \in Keys : resent'[s].val[k] = resent[s].val[k],
           \A k \in Keys :
               \/ queue'.val[k] = queue.val[k]
               \/ /\ queue'.val[k] = Absent
                  /\ IsPacket(queue.val[k]) => queue.val[k] \in settled',
           Busy(s)' => Busy(s) /\ popped'[s] = popped[s],
           Looping(s)' => Looping(s),
           pc'[s] \notin {"send", "onAir", "settle"}
    PROVE  LostInv'
<1>1. \A t \in Senders : HandsOk(t)'
  <2>1. HandsOk(s)'
    BY DEF LostInv, HandsOk, InSendImpl, InHand, HasPopped
  <2> QED
    BY <2>1, FrameHands DEF LostInv
<1>2. ASSUME NEW k \in Keys, k < 0
      PROVE  PrivateOk(k)'
  <2>1. InQueue(k)' => InQueue(k)
    BY KeyFacts DEF InQueue, IsPacket
  <2>2. Touch(s, k)' => Touch(s, k)
    BY DEF Touch, OdHas
  <2> QED
    BY <1>2, <2>1, <2>2, FramePrivate DEF LostInv, Private
<1>3. Evidence'
  <2>1. ASSUME NEW k \in Keys, k > 0
        PROVE  /\ k \in air' \/ k = reader'.id \/ queue'.val[k] = Acked => Received(k)'
               /\ Seen(s, k)' => Received(k)'
    <3>1. Received(k) => Received(k)'
      BY DEF Received
    <3>2. queue'.val[k] = Acked => queue.val[k] = Acked
      BY KeyFacts
    <3>3. Seen(s, k)' => Seen(s, k)
      BY DEF Seen
    <3> QED
      BY <2>1, <3>1, <3>2, <3>3 DEF LostInv, Evidence
  <2> QED
    BY <2>1, FrameEvidence DEF LostInv
<1>4. Kept'
  <2>1. ASSUME NEW p \in Packets
        PROVE  /\ Queued(p) => p \in settled' \/ Alive(p)'
               /\ Returns(s, p) => p \in settled' \/ Alive(p)'
    <3>1. Queued(p) => p \in settled' \/ Queued(p)'
      BY <2>1 DEF Queued, IsPacket
    <3>2. Returns(s, p) => Returns(s, p)'
      BY DEF Returns, Unsent
    <3> QED
      BY <3>1, <3>2 DEF Alive
  <2> QED
    BY <2>1, FrameKept DEF LostInv
<1> QED
  BY <1>1, <1>2, <1>3, <1>4 DEF LostInv, Private

\* The packet is on its way: it is what the ID stands for.
LEMMA TransmitKeeps ==
    ASSUME DistinctIds, IInv, EntryInv, LostInv, NEW s \in Senders, Transmit(s)
    PROVE  LostInv'
<1> DEFINE k == cur[s]
           p == resent[s].val[k]
<1>1. /\ pc[s] = "send" /\ pc' = [pc EXCEPT ![s] = "onAir"]
      /\ UNCHANGED <<queue, nextZeroKey, incoming, resent, sent, popped, cur, got, reader>>
      /\ settled' = settled \cup {p}
      /\ air' = IF IdOfKey(k) = 0 THEN air ELSE air \cup {k}
  BY DEF Transmit, queueVars, onceVars, callVars, loopVars, entryVars
<1>2. /\ k \in Keys /\ p \in Packets /\ PacketId[p] = IdOfKey(k)
      /\ pc \in [Senders -> PcOf] /\ incoming \in [Senders -> Packets \cup {NoPacket}]
  BY <1>1 DEF EntryInv, EntryOk, InSendImpl, InHand, IsPacket, Fits, IInv, ClaimTypes
<1>3. k > 0 => \A q \in Packets : PacketId[q] = k => q \in settled'
  BY <1>1, <1>2 DEF DistinctIds, IdOfKey
<1>4. pc'[s] = "onAir" /\ Frame({s})
  BY <1>1, <1>2 DEF Frame
<1> HIDE DEF p, k
<1>5. \A t \in Senders : HandsOk(t)'
  <2>1. HandsOk(s)'
    BY <1>1, <1>4 DEF LostInv, HandsOk, InSendImpl, InHand, HasPopped, Looping, Busy
  <2> QED
    BY <1>4, <2>1, FrameHands DEF LostInv
<1>6. ASSUME NEW j \in Keys, j < 0
      PROVE  PrivateOk(j)'
  <2>1. Touch(s, j)' => Touch(s, j)
    BY <1>1, <1>4 DEF Touch, Busy, OdHas
  <2> QED
    BY <1>1, <1>4, <1>6, <2>1, FramePrivate DEF LostInv, Private, InQueue
<1>7. Evidence'
  <2>1. ASSUME NEW j \in Keys, j > 0
        PROVE  /\ j \in air' \/ j = reader'.id \/ queue'.val[j] = Acked => Received(j)'
               /\ Seen(s, j)' => Received(j)'
    <3>1. Received(j) => Received(j)'
      BY <1>1 DEF Received
    <3>2. Seen(s, j)' => Seen(s, j) \/ j = k
      BY <1>1, <1>4 DEF Seen, Busy, k
    <3>3. j \in air' => j \in air \/ j = k
      BY <1>1
    <3>4. j = k => Received(j)'
      BY <1>3, <2>1 DEF Received
    <3>5. \/ j \in air \/ j = reader.id \/ queue.val[j] = Acked \/ Seen(s, j) => Received(j)
      BY <2>1 DEF LostInv, Evidence
    <3> QED
      BY <1>1, <3>1, <3>2, <3>3, <3>4, <3>5
  <2> QED
    BY <1>1, <1>4, <2>1, FrameEvidence DEF LostInv
<1>8. Kept'
  <2>1. ASSUME NEW q \in Packets
        PROVE  /\ Queued(q) => q \in settled' \/ Alive(q)'
               /\ Returns(s, q) => q \in settled' \/ Alive(q)'
    <3>1. Queued(q) => Queued(q)'
      BY <1>1 DEF Queued
    <3>2. Returns(s, q) => q = p \/ Returns(s, q)'
      BY <1>1, <1>4 DEF Returns, Unsent, k, p
    <3> QED
      BY <1>1, <3>1, <3>2 DEF Alive
  <2> QED
    BY <1>1, <1>2, <1>4, <2>1, FrameKept DEF LostInv
<1> QED
  BY <1>5, <1>6, <1>7, <1>8 DEF LostInv, Private

\* The packet on the air has been sent.
LEMMA SentKeeps ==
    ASSUME IInv, EntryInv, LostInv, NEW s \in Senders, SendReturns(s)
    PROVE  LostInv'
<1> DEFINE k == cur[s]
<1>1. /\ pc[s] = "onAir"
      /\ sent' = [sent EXCEPT ![s] = sent[s] \cup {k}]
      /\ UNCHANGED <<queue, nextZeroKey, incoming, resent, popped, cur, got, reader, air, settled>>
  BY DEF SendReturns, queueVars, onceVars, deviceVars, callVars, entryVars
<1>2. PICK x \in {"pop", "popLocal"} : pc' = [pc EXCEPT ![s] = x]
  BY DEF SendReturns
<1>3. /\ pc \in [Senders -> PcOf] /\ incoming \in [Senders -> Packets \cup {NoPacket}]
      /\ sent \in [Senders -> SUBSET Keys] /\ k \in Keys /\ InHand(s, k)
      /\ k > 0 => HasPopped(s, k)
  BY <1>1 DEF EntryInv, EntryTypes, EntryOk, InSendImpl, HasPopped, IInv, ClaimTypes
<1>4. pc'[s] = x /\ sent'[s] = sent[s] \cup {k} /\ Frame({s})
  BY <1>1, <1>2, <1>3 DEF Frame
<1> HIDE DEF k
<1>5. \A t \in Senders : HandsOk(t)'
  <2>1. HandsOk(s)'
    <3>1. /\ \A j \in Keys : InHand(s, j) /\ j # k => j \in sent[s]
          /\ \A j \in Keys : j > 0 /\ (j \in sent[s] \/ InHand(s, j)) => HasPopped(s, j)
      BY <1>1 DEF LostInv, HandsOk, InSendImpl, Busy, k
    <3> QED
      BY <1>1, <1>3, <1>4, <3>1 DEF HandsOk, InSendImpl, InHand, HasPopped, Busy
  <2> QED
    BY <1>4, <2>1, FrameHands DEF LostInv
<1>6. ASSUME NEW j \in Keys, j < 0
      PROVE  PrivateOk(j)'
  <2>1. Touch(s, j)' => Touch(s, j)
    BY <1>1, <1>3, <1>4, KeyFacts DEF Touch, Busy, OdHas, InHand, IsPacket
  <2> QED
    BY <1>1, <1>4, <1>6, <2>1, FramePrivate DEF LostInv, Private, InQueue
<1>7. Evidence'
  <2>1. ASSUME NEW j \in Keys, j > 0
        PROVE  Seen(s, j)' => Seen(s, j)
    BY <1>1, <1>4 DEF Seen, Busy, k
  <2>2. ASSUME NEW j \in Keys, j > 0
        PROVE  /\ j \in air' \/ j = reader'.id \/ queue'.val[j] = Acked => Received(j)'
               /\ Seen(s, j)' => Received(j)'
    BY <1>1, <2>1, <2>2 DEF LostInv, Evidence, Received
  <2> QED
    BY <1>1, <1>4, <2>2, FrameEvidence DEF LostInv
<1>8. Kept'
  <2>1. ASSUME NEW q \in Packets
        PROVE  /\ Queued(q) => Queued(q)'
               /\ Returns(s, q) => Returns(s, q)'
    BY <1>1, <1>4 DEF Queued, Returns, Unsent, k
  <2> QED
    BY <1>1, <1>3, <1>4, <2>1, FrameKept DEF LostInv, Alive
<1> QED
  BY <1>5, <1>6, <1>7, <1>8 DEF LostInv, Private

\* A packet goes from the queue to the transport.
LEMMA TakeKeeps ==
    ASSUME IInv, EntryInv, LostInv, NEW s \in Senders, NEW k \in Keys, NEW p \in Packets,
           queue.val[k] = p, pc[s] \in {"pop", "popLocal"}, StartSend(s, k, p),
           queue' = OdPop(queue, k),
           UNCHANGED <<got, incoming, nextZeroKey, air, reader, settled>>
    PROVE  LostInv'
<1>1. /\ resent' = [resent EXCEPT ![s] = OdPut(resent[s], k, p)]
      /\ cur' = [cur EXCEPT ![s] = k] /\ pc' = [pc EXCEPT ![s] = "send"] /\ sent' = sent
      /\ popped' = IF PacketId[p] = 0 THEN popped
                   ELSE [popped EXCEPT ![s] = Append(popped[s], PacketId[p])]
  BY DEF StartSend
<1>2. /\ pc \in [Senders -> PcOf] /\ popped \in [Senders -> Seq(Ids)]
      /\ incoming \in [Senders -> Packets \cup {NoPacket}]
      /\ EntryTypes /\ QueueOk /\ EntryOk(s) /\ p \in Values /\ p # Absent
  BY KeyFacts DEF IInv, ClaimTypes, EntryInv
<1>3. \A j \in Keys : queue'.val[j] = IF j = k THEN Absent ELSE queue.val[j]
  BY <1>2, PoppedIsWeaker
<1>4. /\ pc'[s] = "send" /\ cur'[s] = k
      /\ \A j \in Keys : resent'[s].val[j] = IF j = k THEN p ELSE resent[s].val[j]
      /\ \A t \in Senders \ {s} : /\ pc'[t] = pc[t] /\ cur'[t] = cur[t]
                                  /\ resent'[t] = resent[t] /\ popped'[t] = popped[t]
  <2>1. \A j \in Keys : OdPut(resent[s], k, p).val[j] = IF j = k THEN p ELSE resent[s].val[j]
    BY <1>2, PutEntry DEF EntryTypes, EntryOk
  <2> QED
    BY <1>1, <1>2, <2>1 DEF EntryTypes
<1>5. Frame({s})
  BY <1>1, <1>4 DEF Frame
<1>6. PacketId[p] = IdOfKey(k)
  BY <1>2 DEF QueueOk, Fits, IsPacket
<1>7. \A j \in Keys : InHand(s, j) => j \in sent[s]
  BY DEF LostInv, HandsOk, Looping
<1>8. k \in sent[s] => p \in settled
  <2>1. CASE k > 0
    BY <1>6, <2>1 DEF LostInv, Evidence, Seen, Busy, Received, IdOfKey
  <2>2. CASE k < 0
    <3>1. ~Touch(s, k)
      BY <2>2 DEF LostInv, Private, PrivateOk, InQueue, IsPacket
    <3> QED
      BY <3>1 DEF Touch, Busy
  <2>3. k > 0 \/ k < 0
    BY KeyFacts
  <2> QED
    BY <2>1, <2>2, <2>3
<1>9. \A t \in Senders : HandsOk(t)'
  <2>1. ASSUME NEW j \in Keys, j > 0, j \in sent[s] \/ InHand(s, j) \/ j = k
        PROVE  \E n \in 1..Len(popped'[s]) : popped'[s][n] = j
    <3>1. CASE j # k
      <4>1. PICK n \in 1..Len(popped[s]) : popped[s][n] = j
        BY <2>1, <3>1 DEF LostInv, HandsOk, Busy, HasPopped
      <4>2. n \in 1..Len(popped'[s]) /\ popped'[s][n] = j
        <5>1. CASE PacketId[p] = 0
          BY <1>1, <4>1, <5>1
        <5>2. CASE PacketId[p] # 0
          <6>1. popped[s] \in Seq(Ids) /\ PacketId[p] \in Ids
            BY <1>2, <5>2, PacketIds
          <6>2. popped'[s] = Append(popped[s], PacketId[p])
            BY <1>1, <1>2, <5>2
          <6> QED
            BY <4>1, <6>1, <6>2
        <5> QED
          BY <5>1, <5>2
      <4> QED
        BY <4>2
    <3>2. CASE j = k
      <4>1. PacketId[p] = k /\ k # 0 /\ k \in Ids
        BY <1>6, <2>1, <3>2, KeyFacts DEF IdOfKey
      <4>2. popped'[s] = Append(popped[s], k) /\ popped[s] \in Seq(Ids)
        BY <1>1, <1>2, <4>1
      <4>3. /\ Len(popped[s]) + 1 \in 1..Len(popped'[s])
            /\ popped'[s][Len(popped[s]) + 1] = k
        BY <4>1, <4>2
      <4> QED
        BY <3>2, <4>3
    <3> QED
      BY <3>1, <3>2
  <2>2. HandsOk(s)'
    BY <1>1, <1>4, <1>7, <2>1 DEF HandsOk, Looping, InSendImpl, Busy, InHand, HasPopped
  <2> QED
    BY <1>5, <2>2, FrameHands DEF LostInv
<1>10. ASSUME NEW j \in Keys, j < 0
       PROVE  PrivateOk(j)'
  <2>0. PrivateOk(j)
    BY <1>10 DEF LostInv, Private
  <2>1. CASE j # k
    <3>1. Touch(s, j)' => Touch(s, j)
      BY <1>1, <1>4, <2>1 DEF Touch, Busy, OdHas
    <3>2. InQueue(j)' => InQueue(j)
      BY <1>3, <2>1 DEF InQueue
    <3> QED
      BY <1>4, <1>5, <2>0, <3>1, <3>2, FramePrivate
  <2>2. CASE j = k
    <3>1. \A t \in Senders : ~Touch(t, j)
      BY <2>0, <2>2 DEF PrivateOk, InQueue, IsPacket
    <3>2. ~(j <= nextZeroKey)
      BY <2>0, <2>2 DEF PrivateOk, InQueue, IsPacket
    <3>3. \A t \in Senders \ {s} : ~Touch(t, j)'
      BY <1>1, <1>4, <3>1 DEF Touch, Busy, OdHas
    <3>4. ~InQueue(j)'
      BY <1>3, <2>2, KeyFacts DEF InQueue, IsPacket
    <3>5. ASSUME NEW t \in Senders, pc'[t] = "settle", cur'[t] = j
          PROVE  FALSE
      <4>1. t # s /\ pc[t] = "settle" /\ cur[t] = j
        BY <1>4, <3>5
      <4>2. OdHas(resent[t], j)
        BY <2>0, <4>1 DEF PrivateOk
      <4> QED
        BY <3>1, <4>1, <4>2 DEF Touch, Busy
    <3> QED
      BY <3>2, <3>3, <3>4, <3>5 DEF PrivateOk
  <2> QED
    BY <2>1, <2>2
<1>11. Evidence'
  <2>1. ASSUME NEW j \in Keys, j > 0
        PROVE  /\ queue'.val[j] = Acked => queue.val[j] = Acked
               /\ Seen(s, j)' => Seen(s, j)
    BY <1>1, <1>3, <1>4, KeyFacts DEF Seen, Busy
  <2>2. ASSUME NEW j \in Keys, j > 0
        PROVE  /\ j \in air' \/ j = reader'.id \/ queue'.val[j] = Acked => Received(j)'
               /\ Seen(s, j)' => Received(j)'
    BY <2>1, <2>2 DEF LostInv, Evidence, Received
  <2> QED
    BY <1>5, <2>2, FrameEvidence DEF LostInv
<1>12. Kept'
  <2>1. ASSUME NEW q \in Packets
        PROVE  /\ Queued(q) => q \in settled' \/ Alive(q)'
               /\ Returns(s, q) => q \in settled' \/ Alive(q)'
    <3>1. ASSUME NEW j \in Keys, queue.val[j] = q
          PROVE  q \in settled' \/ Alive(q)'
      <4>1. CASE j # k
        BY <1>3, <3>1, <4>1 DEF Alive, Queued
      <4>2. CASE j = k
        <5>1. CASE k \in sent[s]
          BY <1>8, <3>1, <4>2, <5>1
        <5>2. CASE k \notin sent[s]
          <6>1. Returns(s, q)'
            BY <1>1, <1>4, <3>1, <4>2, <5>2 DEF Returns, Unsent
          <6> QED
            BY <6>1 DEF Alive
        <5> QED
          BY <5>1, <5>2
      <4> QED
        BY <4>1, <4>2
    <3>2. Returns(s, q) => Returns(s, q)'
      BY <1>7 DEF Returns, Unsent, InHand, IsPacket
    <3> QED
      BY <3>1, <3>2 DEF Alive, Queued
  <2> QED
    BY <1>2, <1>5, <2>1, FrameKept DEF LostInv
<1> QED
  BY <1>9, <1>10, <1>11, <1>12 DEF LostInv, Private

\* A marker leaves the queue.
LEMMA MarkerKeeps ==
    ASSUME IInv, EntryInv, LostInv, NEW s \in Senders, NEW k \in Keys, pc[s] = "pop",
           queue.val[k] = Acked, k > 0, TakeMarker(s, k), queue' = OdPop(queue, k),
           UNCHANGED <<got, incoming, nextZeroKey, air, reader, settled>>
    PROVE  LostInv'
<1>1. /\ pc \in [Senders -> PcOf] /\ popped' = popped
      /\ incoming \in [Senders -> Packets \cup {NoPacket}]
      /\ EntryTypes /\ EntryOk(s) /\ got[s] = Absent
  BY DEF IInv, ClaimTypes, EntryInv, EntryOk, TakeMarker
<1>2. \A j \in Keys : queue'.val[j] = IF j = k THEN Absent ELSE queue.val[j]
  BY <1>1, PoppedIsWeaker
<1>3. PICK v \in {Absent, Acked}, S \in SUBSET Keys, x \in {"pop", "forgetAcked"} :
         /\ \A j \in Keys : resent'[s].val[j] = IF j = k THEN v ELSE resent[s].val[j]
         /\ \A t \in Senders \ {s} : resent'[t] = resent[t]
         /\ sent' = [sent EXCEPT ![s] = S] /\ S = sent[s] \ {k}
         /\ pc' = [pc EXCEPT ![s] = x]
         /\ \A t \in Senders \ {s} : cur'[t] = cur[t]
  <2>0. resent[s] \in Dict /\ Complete(resent[s]) /\ sent[s] \in SUBSET Keys
    BY <1>1 DEF EntryTypes, EntryOk
  <2>1. CASE k \in sent[s]
    <3>1. \A j \in Keys : OdPop(resent[s], k).val[j] = IF j = k THEN Absent ELSE resent[s].val[j]
      BY <2>0, PopEntry
    <3>2. /\ resent' = [resent EXCEPT ![s] = OdPop(resent[s], k)]
          /\ sent' = [sent EXCEPT ![s] = sent[s] \ {k}]
          /\ pc' = [pc EXCEPT ![s] = "forgetAcked"] /\ cur' = [cur EXCEPT ![s] = k]
      BY <2>1 DEF TakeMarker
    <3>3. resent'[s] = OdPop(resent[s], k) /\ \A t \in Senders \ {s} : resent'[t] = resent[t]
      BY <1>1, <3>2 DEF EntryTypes
    <3> QED
      BY <1>1, <2>0, <3>1, <3>2, <3>3 DEF EntryTypes
  <2>2. CASE k \notin sent[s]
    <3>1. \A j \in Keys : OdPut(resent[s], k, Acked).val[j] = IF j = k THEN Acked ELSE resent[s].val[j]
      BY <2>0, PutEntry, KeyFacts
    <3>2. resent' = [resent EXCEPT ![s] = OdPut(resent[s], k, Acked)] /\ UNCHANGED <<sent, cur, pc>>
      BY <2>2 DEF TakeMarker
    <3>3. resent'[s] = OdPut(resent[s], k, Acked) /\ \A t \in Senders \ {s} : resent'[t] = resent[t]
      BY <1>1, <3>2 DEF EntryTypes
    <3>4. sent[s] \ {k} = sent[s] /\ sent' = [sent EXCEPT ![s] = sent[s]]
          /\ pc' = [pc EXCEPT ![s] = "pop"]
      BY <1>1, <2>0, <2>2, <3>2 DEF EntryTypes
    <3> QED
      BY <2>0, <3>1, <3>2, <3>3, <3>4
  <2> QED
    BY <2>1, <2>2
<1>4. /\ pc'[s] \in {"pop", "forgetAcked"} /\ sent'[s] = sent[s] \ {k}
      /\ Frame({s})
  BY <1>1, <1>3 DEF EntryTypes, Frame
<1>5. /\ \A j \in Keys : InHand(s, j) => j \in sent[s]
      /\ \A j \in Keys : InHand(s, j)' => InHand(s, j) /\ j # k
  BY <1>3, KeyFacts DEF LostInv, HandsOk, Looping, InHand, IsPacket
<1>6. \A t \in Senders : HandsOk(t)'
  <2>1. HandsOk(s)'
    BY <1>1, <1>4, <1>5 DEF LostInv, HandsOk, Looping, InSendImpl, Busy, HasPopped
  <2> QED
    BY <1>4, <2>1, FrameHands DEF LostInv
<1>7. ASSUME NEW j \in Keys, j < 0
      PROVE  PrivateOk(j)'
  <2>0. j # k
    BY <1>7, KeyFacts
  <2>1. Touch(s, j)' => Touch(s, j)
    BY <1>3, <1>4, <2>0 DEF Touch, Busy, OdHas
  <2>2. InQueue(j)' => InQueue(j)
    BY <1>2, <2>0 DEF InQueue
  <2> QED
    BY <1>4, <1>7, <2>1, <2>2, FramePrivate DEF LostInv, Private
<1>8. Evidence'
  <2>1. ASSUME NEW j \in Keys, j > 0
        PROVE  /\ queue'.val[j] = Acked => queue.val[j] = Acked
               /\ Seen(s, j)' => Seen(s, j)
    BY <1>2, <1>4, KeyFacts DEF Seen, Busy
  <2>2. ASSUME NEW j \in Keys, j > 0
        PROVE  /\ j \in air' \/ j = reader'.id \/ queue'.val[j] = Acked => Received(j)'
               /\ Seen(s, j)' => Received(j)'
    BY <2>1, <2>2 DEF LostInv, Evidence, Received
  <2> QED
    BY <1>4, <2>2, FrameEvidence DEF LostInv
<1>9. Kept'
  <2>1. ASSUME NEW q \in Packets
        PROVE  /\ Queued(q) => Queued(q)'
               /\ Returns(s, q) => Returns(s, q)'
    BY <1>1, <1>2, <1>5, KeyFacts DEF Queued, Returns, Unsent, InHand, IsPacket
  <2> QED
    BY <1>1, <1>4, <2>1, FrameKept DEF LostInv, Alive
<1> QED
  BY <1>6, <1>7, <1>8, <1>9 DEF LostInv, Private

\* What the queue holds under the key goes to the reconciliation.
LEMMA ReconcileKeeps ==
    ASSUME IInv, EntryInv, Books, LostInv, NEW s \in Senders, Reconcile(s)
    PROVE  LostInv'
<1>1. PICK k \in Keys : /\ got' = [got EXCEPT ![s] = queue.val[k]]
                        /\ queue' = OdPop(queue, k)
                        /\ cur' = [cur EXCEPT ![s] = k]
                        /\ resent[s].val[k] # Absent
  BY DEF Reconcile
<1>2. /\ pc[s] = "reconcile" /\ pc' = [pc EXCEPT ![s] = "settle"]
      /\ UNCHANGED <<resent, sent, popped, incoming, nextZeroKey, air, reader, settled>>
  BY DEF Reconcile, callVars, loopVars, onceVars, deviceVars
<1>3. /\ pc \in [Senders -> PcOf] /\ incoming \in [Senders -> Packets \cup {NoPacket}]
      /\ EntryTypes /\ EntryOk(s)
  BY DEF IInv, ClaimTypes, EntryInv
<1>4. \A j \in Keys : queue'.val[j] = IF j = k THEN Absent ELSE queue.val[j]
  BY <1>1, <1>3, PoppedIsWeaker
<1>5. /\ pc'[s] = "settle" /\ cur'[s] = k /\ got'[s] = queue.val[k] /\ got[s] = Absent
      /\ Frame({s})
  BY <1>1, <1>2, <1>3 DEF EntryTypes, EntryOk, Frame
<1>6. \A t \in Senders : HandsOk(t)'
  <2>1. HandsOk(s)'
    BY <1>2, <1>5 DEF LostInv, HandsOk, Looping, InSendImpl, Busy, InHand, HasPopped
  <2> QED
    BY <1>5, <2>1, FrameHands DEF LostInv
<1>7. ASSUME NEW j \in Keys, j < 0
      PROVE  PrivateOk(j)'
  <2>1. Touch(s, j)' => Touch(s, j)
    BY <1>2, <1>5 DEF Touch, Busy, OdHas
  <2>2. InQueue(j)' => InQueue(j)
    BY <1>4, KeyFacts DEF InQueue, IsPacket
  <2>3. k = j => got'[s] = Absent /\ resent'[s].val[j] # Absent
    <3>1. SUFFICES ASSUME k = j PROVE queue.val[k] = Absent
      BY <1>1, <1>2, <1>5
    <3>2. Touch(s, j) /\ PrivateOk(j)
      BY <1>1, <1>2, <1>7, <3>1 DEF Touch, Busy, OdHas, LostInv, Private
    <3>3. ~InQueue(j) /\ queue.val[j] # Acked
      BY <1>7, <3>2 DEF PrivateOk, Books
    <3>4. queue.val[j] \in Values
      BY <1>3 DEF EntryTypes
    <3> QED
      BY <3>1, <3>3, <3>4 DEF Values, InQueue, IsPacket
  <2> QED
    BY <1>2, <1>5, <1>7, <2>1, <2>2, <2>3, FramePrivate DEF LostInv, Private
<1>8. Evidence'
  <2>1. ASSUME NEW j \in Keys, j > 0
        PROVE  /\ queue'.val[j] = Acked => queue.val[j] = Acked
               /\ Seen(s, j)' => Seen(s, j) \/ queue.val[j] = Acked
    BY <1>2, <1>4, <1>5, KeyFacts DEF Seen, Busy
  <2>2. ASSUME NEW j \in Keys, j > 0
        PROVE  /\ j \in air' \/ j = reader'.id \/ queue'.val[j] = Acked => Received(j)'
               /\ Seen(s, j)' => Received(j)'
    BY <1>2, <2>1, <2>2 DEF LostInv, Evidence, Received
  <2> QED
    BY <1>2, <1>5, <2>2, FrameEvidence DEF LostInv
<1>9. Kept'
  <2>1. ASSUME NEW q \in Packets
        PROVE  /\ Queued(q) => q \in settled' \/ Alive(q)'
               /\ Returns(s, q) => q \in settled' \/ Alive(q)'
    <3>1. Queued(q) => Queued(q)' \/ Returns(s, q)'
      BY <1>4, <1>5 DEF Queued, Returns
    <3>2. Returns(s, q) => Returns(s, q)'
      BY <1>2, <1>5, KeyFacts DEF Returns, Unsent
    <3> QED
      BY <3>1, <3>2 DEF Alive
  <2> QED
    BY <1>2, <1>3, <1>5, <2>1, FrameKept DEF LostInv
<1> QED
  BY <1>6, <1>7, <1>8, <1>9 DEF LostInv, Private

\* An entry has been reconciled: everything under its key that is not settled is
\* in the queue, and a private key that was sent stays out of it.
LEMMA FinishKeeps ==
    ASSUME IInv, EntryInv, LostInv, NEW s \in Senders, pc[s] = "settle",
           NEW k \in Keys, k = cur[s], FinishEntry(s, k),
           \A j \in Keys \ {k} : queue'.val[j] = queue.val[j],
           \/ queue'.val[k] = queue.val[k]
           \/ IsPacket(queue'.val[k]) /\ (k < 0 => k \notin sent[s]),
           \A q \in Packets :
               \/ queue.val[k] = q \/ got[s] = q \/ (k \notin sent[s] /\ resent[s].val[k] = q)
               => q \in settled \/ queue'.val[k] = q
    PROVE  LostInv'
<1>1. /\ resent' = [resent EXCEPT ![s] = OdPop(resent[s], k)]
      /\ got' = [got EXCEPT ![s] = Absent]
      /\ pc' = [pc EXCEPT ![s] = "reconcile"]
      /\ UNCHANGED <<sent, popped, cur, incoming, nextZeroKey, air, reader, settled>>
  BY DEF FinishEntry, callVars, onceVars, deviceVars
<1>2. /\ pc \in [Senders -> PcOf] /\ incoming \in [Senders -> Packets \cup {NoPacket}]
      /\ EntryTypes /\ EntryOk(s)
  BY DEF IInv, ClaimTypes, EntryInv
<1>3. /\ pc'[s] = "reconcile" /\ got'[s] = Absent
      /\ \A j \in Keys : resent'[s].val[j] = IF j = k THEN Absent ELSE resent[s].val[j]
      /\ \A t \in Senders \ {s} : pc'[t] = pc[t] /\ got'[t] = got[t] /\ resent'[t] = resent[t]
  <2>1. \A j \in Keys : OdPop(resent[s], k).val[j] = IF j = k THEN Absent ELSE resent[s].val[j]
    BY <1>2, PopEntry DEF EntryTypes, EntryOk
  <2> QED
    BY <1>1, <1>2, <2>1 DEF EntryTypes
<1>4. Frame({s})
  BY <1>1, <1>3 DEF Frame
<1>5. \A t \in Senders : HandsOk(t)'
  <2>1. \A j \in Keys : InHand(s, j)' => InHand(s, j)
    BY <1>3, KeyFacts DEF InHand, IsPacket
  <2>2. HandsOk(s)'
    BY <1>1, <1>3, <2>1 DEF LostInv, HandsOk, Looping, InSendImpl, Busy, HasPopped
  <2> QED
    BY <1>4, <2>2, FrameHands DEF LostInv
<1>6. ASSUME NEW j \in Keys, j < 0
      PROVE  PrivateOk(j)'
  <2>0. PrivateOk(j)
    BY <1>6 DEF LostInv, Private
  <2>1. Touch(s, j)' => Touch(s, j)
    BY <1>1, <1>3 DEF Touch, Busy, OdHas
  <2>2. CASE InQueue(j)' => InQueue(j)
    BY <1>1, <1>3, <1>4, <2>0, <2>1, <2>2, FramePrivate
  <2>3. CASE InQueue(j)' /\ ~InQueue(j)
    <3>1. j = k /\ k \notin sent[s]
      BY <1>6, <2>3 DEF InQueue
    <3>2. Touch(s, j)
      BY <2>0, <3>1 DEF PrivateOk, Touch, Busy
    <3>3. ~Touch(s, j)'
      BY <1>1, <1>3, <3>1 DEF Touch, OdHas
    <3>4. \A t \in Senders \ {s} : ~Touch(t, j) /\ ~Touch(t, j)'
      BY <1>1, <1>3, <2>0, <3>2 DEF PrivateOk, Touch, Busy, OdHas
    <3>5. ~(j <= nextZeroKey)
      BY <2>0, <3>2 DEF PrivateOk
    <3>6. ASSUME NEW t \in Senders, pc'[t] = "settle", cur'[t] = j
          PROVE  FALSE
      <4>1. t # s /\ pc[t] = "settle" /\ cur[t] = j
        BY <1>1, <1>3, <3>6
      <4>2. OdHas(resent[t], j)
        BY <2>0, <4>1 DEF PrivateOk
      <4> QED
        BY <3>4, <4>1, <4>2 DEF Touch, Busy
    <3> QED
      BY <1>1, <3>3, <3>4, <3>5, <3>6 DEF PrivateOk
  <2> QED
    BY <2>2, <2>3
<1>7. Evidence'
  <2>1. ASSUME NEW j \in Keys, j > 0
        PROVE  /\ queue'.val[j] = Acked => queue.val[j] = Acked
               /\ Seen(s, j)' => Seen(s, j)
    BY <1>1, <1>3, KeyFacts DEF Seen, Busy, IsPacket
  <2>2. ASSUME NEW j \in Keys, j > 0
        PROVE  /\ j \in air' \/ j = reader'.id \/ queue'.val[j] = Acked => Received(j)'
               /\ Seen(s, j)' => Received(j)'
    BY <1>1, <2>1, <2>2 DEF LostInv, Evidence, Received
  <2> QED
    BY <1>1, <1>4, <2>2, FrameEvidence DEF LostInv
<1>8. Kept'
  <2>1. ASSUME NEW q \in Packets
        PROVE  /\ Queued(q) => q \in settled' \/ Alive(q)'
               /\ Returns(s, q) => q \in settled' \/ Alive(q)'
    <3>1. Queued(q) => q \in settled' \/ Queued(q)'
      BY <1>1 DEF Queued
    <3>2. Returns(s, q) => q \in settled' \/ Queued(q)' \/ Returns(s, q)'
      BY <1>1, <1>3 DEF Returns, Unsent, Queued
    <3> QED
      BY <3>1, <3>2 DEF Alive
  <2> QED
    BY <1>1, <1>2, <1>4, <2>1, FrameKept DEF LostInv
<1> QED
  BY <1>5, <1>6, <1>7, <1>8 DEF LostInv, Private

\* What has been acknowledged or sent needs no place in the queue.
LEMMA DoneKeeps ==
    ASSUME IInv, EntryInv, LostInv, NEW s \in Senders, SettleDone(s) \/ SettleSent(s)
    PROVE  LostInv'
<1>1. /\ pc[s] = "settle" /\ FinishEntry(s, cur[s]) /\ queue' = queue
      /\ \/ ToRequeue(s, cur[s]) = Absent
         \/ ReplyDue(s, cur[s])
  BY DEF SettleDone, SettleSent
<1>2. PICK k \in Keys : k = cur[s]
  BY <1>1 DEF EntryInv, EntryOk
<1>3. EntryTypes /\ EntryOk(s)
  BY DEF EntryInv
<1>4. ~IsPacket(got[s]) /\ \/ k \in sent[s]
                           \/ ~IsPacket(resent[s].val[k])
                           \/ got[s] = Acked
  <2>1. got[s] \in Values
    BY <1>3 DEF EntryTypes
  <2>2. \A p \in Packets : p # Absent
    BY KeyFacts
  <2> QED
    BY <1>1, <1>2, <2>1, <2>2 DEF ToRequeue, ReplyDue, Values, IsPacket
<1>5. ASSUME NEW q \in Packets, k \notin sent[s], resent[s].val[k] = q
      PROVE  q \in settled
  <2>1. got[s] = Acked
    BY <1>4, <1>5 DEF IsPacket
  <2>2. k > 0
    <3>1. ~(k < 0)
      BY <1>1, <1>2, <2>1, KeyFacts DEF LostInv, Private, PrivateOk
    <3> QED
      BY <3>1, KeyFacts
  <2>3. Seen(s, k)
    BY <1>1, <1>2, <1>5, <2>1 DEF Seen, InHand, IsPacket
  <2>4. Received(k)
    BY <2>2, <2>3 DEF LostInv, Evidence
  <2>5. PacketId[q] = k
    BY <1>3, <1>5, <2>2 DEF EntryOk, Fits, IsPacket, IdOfKey
  <2> QED
    BY <2>4, <2>5 DEF Received
<1>6. \A q \in Packets :
        \/ queue.val[k] = q \/ got[s] = q \/ (k \notin sent[s] /\ resent[s].val[k] = q)
        => q \in settled \/ queue'.val[k] = q
  BY <1>1, <1>4, <1>5 DEF IsPacket
<1> QED
  BY <1>1, <1>2, <1>6, FinishKeeps

\* What has not comes back.  An entry that already stands under the key of an ID
\* is the same packet, or a marker of a packet that has been received.
LEMMA RequeueKeeps ==
    ASSUME DistinctIds, IInv, EntryInv, Books, LostInv, NEW s \in Senders, SettleRequeue(s)
    PROVE  LostInv'
<1>1. /\ pc[s] = "settle" /\ FinishEntry(s, cur[s])
      /\ ToRequeue(s, cur[s]) # Absent
  BY DEF SettleRequeue
<1>2. PICK k \in Keys : k = cur[s]
  BY <1>1 DEF EntryInv, EntryOk
<1>3. PICK p \in Packets : p = ToRequeue(s, k) /\ Fits(k, p)
  BY <1>1, <1>2, RequeuedFits
<1>4. /\ \A j \in Keys \ {k} : queue'.val[j] = queue.val[j]
      /\ queue'.val[k] = p \/ (queue'.val[k] = queue.val[k] /\ OdHas(queue, k))
  BY <1>2, <1>3, RequeuedQueue
<1>5. EntryTypes /\ EntryOk(s) /\ QueueOk
  BY DEF EntryInv
<1>6. CASE k > 0
  <2>1. \A q \in Packets : PacketId[q] = k => q = p
    BY <1>3, <1>6 DEF DistinctIds, Fits, IsPacket, IdOfKey
  <2>2. ASSUME NEW q \in Packets,
               queue.val[k] = q \/ got[s] = q \/ resent[s].val[k] = q
        PROVE  q = p
    <3>1. PacketId[q] = k
      BY <1>1, <1>2, <1>5, <1>6, <2>2 DEF EntryOk, QueueOk, Fits, IsPacket, IdOfKey
    <3> QED
      BY <2>1, <3>1
  <2>3. queue'.val[k] = p \/ p \in settled
    <3>1. CASE queue'.val[k] = queue.val[k] /\ OdHas(queue, k)
      <4>1. queue.val[k] \in Values /\ queue.val[k] # Absent
        BY <1>5, <3>1 DEF EntryTypes, OdHas
      <4>2. CASE queue.val[k] = Acked
        <5>1. Received(k)
          BY <1>6, <4>2 DEF LostInv, Evidence
        <5> QED
          BY <1>3, <1>6, <5>1 DEF Received, Fits, IsPacket, IdOfKey
      <4>3. CASE queue.val[k] \in Packets
        BY <2>2, <3>1, <4>3
      <4> QED
        BY <4>1, <4>2, <4>3 DEF Values
    <3> QED
      BY <1>4, <3>1
  <2>4. queue'.val[k] = queue.val[k] \/ (IsPacket(queue'.val[k]) /\ ~(k < 0))
    BY <1>4, <1>6, KeyFacts DEF IsPacket
  <2> QED
    BY <1>1, <1>2, <1>4, <2>2, <2>3, <2>4, FinishKeeps
<1>7. CASE k < 0
  <2>1. PrivateOk(k) /\ queue.val[k] # Acked
    BY <1>7 DEF LostInv, Private, Books
  <2>2. got[s] = Absent /\ OdHas(resent[s], k)
    BY <1>1, <1>2, <2>1 DEF PrivateOk
  <2>3. ~InQueue(k)
    BY <1>1, <2>1, <2>2 DEF PrivateOk, Touch, Busy
  <2>4. queue.val[k] = Absent
    BY <1>5, <2>1, <2>3 DEF EntryTypes, Values, InQueue, IsPacket
  <2>5. k \notin sent[s] /\ p = resent[s].val[k] /\ queue'.val[k] = p
    BY <1>3, <1>4, <2>2, <2>4, KeyFacts DEF ToRequeue, IsPacket, OdHas
  <2>6. \A q \in Packets : q # Absent
    BY KeyFacts
  <2> QED
    BY <1>1, <1>2, <1>4, <2>2, <2>4, <2>5, <2>6, FinishKeeps DEF IsPacket
<1> QED
  BY <1>6, <1>7, KeyFacts

\* The sender drops its own packet when its call is withdrawn, and no other.
LEMMA DropKeeps ==
    ASSUME IInv, EntryInv, LostInv, NEW s \in Senders, GiveUp(s) \/ DeadlineExpired(s)
    PROVE  LostInv'
<1>1. /\ pc[s] \in {"pop", "blocked"} /\ pc' = [pc EXCEPT ![s] = "reconcile"]
      /\ UNCHANGED <<resent, sent, popped, cur, got, incoming, nextZeroKey, air, reader>>
      /\ DropUnsent(s) \/ (queue' = queue /\ settled' = settled)
  BY DEF GiveUp, DeadlineExpired, callVars, loopVars, entryVars, onceVars
<1>2. /\ pc \in [Senders -> PcOf] /\ incoming \in [Senders -> Packets \cup {NoPacket}]
      /\ EntryTypes
  BY DEF IInv, ClaimTypes, EntryInv
<1>3. pc'[s] = "reconcile" /\ Frame({s})
  BY <1>1, <1>2 DEF Frame
<1>4. /\ settled \subseteq settled'
      /\ \A k \in Keys :
           \/ queue'.val[k] = queue.val[k]
           \/ /\ queue'.val[k] = Absent
              /\ IsPacket(queue.val[k]) => queue.val[k] \in settled'
  <2>1. CASE queue' = queue /\ settled' = settled
    BY <2>1
  <2>2. CASE queue' = OdPop(queue, queuedKey[s]) /\ queue.val[queuedKey[s]] = incoming[s]
             /\ settled' = settled \cup {incoming[s]}
    <3>1. \A k \in Keys : queue'.val[k] = IF k = queuedKey[s] THEN Absent ELSE queue.val[k]
      BY <1>2, <2>2, PoppedIsWeaker
    <3> QED
      BY <2>2, <3>1
  <2> QED
    BY <1>1, <2>1, <2>2 DEF DropUnsent
<1>5. /\ Busy(s) /\ ~Looping(s)'
  BY <1>1, <1>3 DEF Busy, Looping
<1> QED
  BY <1>1, <1>2, <1>3, <1>4, <1>5, StillKeeps

\* No sender moves: the device reports, or the receive thread applies a report.
LEMMA WorldKeeps ==
    ASSUME IInv, EntryInv, LostInv,
           UNCHANGED <<pc, resent, sent, popped, cur, got, incoming, nextZeroKey, settled>>,
           \A k \in Keys :
               \/ queue'.val[k] = queue.val[k]
               \/ /\ queue'.val[k] \in {Absent, Acked}
                  /\ IsPacket(queue.val[k]) \/ queue'.val[k] = Acked => k > 0 /\ Received(k),
           \A k \in Keys : k > 0 /\ (k \in air' \/ k = reader'.id) => Received(k)
    PROVE  LostInv'
<1>1. Frame({}) /\ incoming \in [Senders -> Packets \cup {NoPacket}] /\ QueueOk
  BY DEF Frame, IInv, ClaimTypes, EntryInv
<1>2. \A t \in Senders : HandsOk(t)'
  BY <1>1, FrameHands DEF LostInv
<1>3. ASSUME NEW j \in Keys, j < 0
      PROVE  PrivateOk(j)'
  <2>1. InQueue(j)' => InQueue(j)
    BY KeyFacts DEF InQueue, IsPacket
  <2> QED
    BY <1>1, <1>3, <2>1, FramePrivate DEF LostInv, Private
<1>4. Evidence'
  <2>1. ASSUME NEW j \in Keys, j > 0, j \in air' \/ j = reader'.id \/ queue'.val[j] = Acked
        PROVE  Received(j)
    BY <2>1 DEF LostInv, Evidence
  <2>2. \A j \in Keys : Received(j) => Received(j)'
    BY DEF Received
  <2>3. settled \subseteq settled'
    OBVIOUS
  <2> QED
    BY <1>1, <2>1, <2>2, <2>3, FrameEvidence DEF LostInv
<1>5. Kept'
  <2>1. ASSUME NEW q \in Packets, NEW j \in Keys, queue.val[j] = q
        PROVE  q \in settled' \/ Queued(q)'
    <3>1. CASE queue'.val[j] = queue.val[j]
      BY <2>1, <3>1 DEF Queued
    <3>2. CASE j > 0 /\ Received(j)
      <4>1. PacketId[q] = j
        BY <1>1, <2>1, <3>2 DEF QueueOk, Fits, IsPacket, IdOfKey
      <4> QED
        BY <3>2, <4>1 DEF Received
    <3> QED
      BY <2>1, <3>1, <3>2 DEF IsPacket
  <2>2. settled \subseteq settled'
    OBVIOUS
  <2>3. \A q \in Packets : Queued(q) => q \in settled' \/ Alive(q)'
    BY <2>1 DEF Queued, Alive
  <2> QED
    BY <1>1, <2>2, <2>3, FrameKept DEF LostInv
<1> QED
  BY <1>2, <1>3, <1>4, <1>5 DEF LostInv, Private

LEMMA ReaderKeeps ==
    ASSUME DistinctIds, IInv, EntryInv, BookTypes, LostInv,
           \/ \E i \in Ids \cup {0}, res \in BOOLEAN, f \in 0..MaxLen :
                 ReceiveStatus(i, res, f)
           \/ ReaderStep
           \/ \E k \in Keys \cap AgingIds : AgeAwaiting(k) \/ AgeTombstone(k)
           \/ LocalNodeChanges
           \/ \E s \in Senders, p \in Packets : RejectDuplicate(s, p)
           \/ UNCHANGED vars
    PROVE  LostInv'
<1>1. UNCHANGED <<pc, resent, sent, popped, cur, got, incoming, nextZeroKey, settled>>
  BY DEF ReceiveStatus, ReaderStep, ApplyError, ApplyAck, ApplyNothing, AgeAwaiting,
         AgeTombstone, LocalNodeChanges, RejectDuplicate, vars, queueVars, senderVars,
         callVars, loopVars, entryVars, deviceVars, onceVars
<1>2. \A k \in Keys : k > 0 /\ (k \in air \/ k = reader.id \/ queue.val[k] = Acked) => Received(k)
  BY DEF LostInv, Evidence
<1>3. EntryTypes
  BY DEF EntryInv
<1>4. ASSUME NEW i \in Ids \cup {0}, NEW res \in BOOLEAN, NEW f \in 0..MaxLen,
             ReceiveStatus(i, res, f)
      PROVE  LostInv'
  <2>1. /\ queue' = queue /\ air' = air \ {i} /\ reader' = [id |-> i, res |-> res]
        /\ i \in {0} \cup air \cup ForeignIds
    BY <1>4 DEF ReceiveStatus
  <2>2. i \in ForeignIds => Received(i)
    BY DEF DistinctIds, Received
  <2>3. reader'.id = i
    BY <2>1
  <2>4. \A k \in Keys : k > 0 /\ (k \in air' \/ k = reader'.id) => Received(k)
    BY <1>2, <2>1, <2>2, <2>3
  <2> QED
    BY <1>1, <2>1, <2>4, WorldKeeps
<1>5. ASSUME ApplyAck \/ ApplyError
      PROVE  LostInv'
  <2>1. PICK i \in Ids : i = reader.id
    BY <1>5, <1>3, AckQueue, ErrorQueue
  <2>2. i > 0 /\ i \in Keys /\ Received(i)
    BY <1>2, <2>1, KeyFacts
  <2>3. reader'.id = 0 /\ air' = air
    BY <1>5 DEF ApplyAck, ApplyError, Idle
  <2>4. ASSUME NEW k \in Keys
        PROVE  \/ queue'.val[k] = queue.val[k]
               \/ /\ queue'.val[k] \in {Absent, Acked}
                  /\ IsPacket(queue.val[k]) \/ queue'.val[k] = Acked => k > 0 /\ Received(k)
    <3>1. CASE k = i
      <4>1. queue'.val[i] = queue.val[i] \/ queue'.val[i] \in {Absent, Acked}
        BY <1>5, <1>3, <2>1, AckQueue, ErrorQueue
      <4> QED
        BY <2>2, <3>1, <4>1
    <3>2. CASE k # i
      <4>1. \/ queue'.val[k] = queue.val[k]
            \/ queue.val[k] = Acked /\ queue'.val[k] = Absent
        BY <1>5, <1>3, <2>1, <3>2, AckQueue, ErrorQueue
      <4> QED
        BY <4>1, KeyFacts DEF IsPacket
    <3> QED
      BY <3>1, <3>2
  <2>5. \A k \in Keys : k > 0 /\ (k \in air' \/ k = reader'.id) => Received(k)
    BY <1>2, <2>3
  <2> QED
    BY <1>1, <2>4, <2>5, WorldKeeps
<1>6. ASSUME queue'.val = queue.val, air' = air, reader'.id = reader.id \/ reader'.id = 0
      PROVE  LostInv'
  <2>1. \A k \in Keys : k > 0 /\ (k \in air' \/ k = reader'.id) => Received(k)
    BY <1>2, <1>6
  <2> QED
    BY <1>1, <1>6, <2>1, WorldKeeps
<1>7. CASE ApplyNothing
  <2>1. queue' = queue /\ air' = air /\ reader' = Idle
    BY <1>7 DEF ApplyNothing, queueVars
  <2> QED
    BY <1>6, <2>1 DEF Idle
<1>8. CASE LocalNodeChanges \/ UNCHANGED vars
           \/ (\E k \in Keys \cap AgingIds : AgeAwaiting(k) \/ AgeTombstone(k))
           \/ (\E s \in Senders, p \in Packets : RejectDuplicate(s, p))
  <2>1. queue' = queue /\ air' = air /\ reader' = reader
    BY <1>8 DEF AgeAwaiting, AgeTombstone, LocalNodeChanges, RejectDuplicate,
       vars, queueVars, deviceVars
  <2> QED
    BY <1>6, <2>1
<1> QED
  BY <1>4, <1>5, <1>7, <1>8 DEF ReaderStep

\* An ID that nobody owns has not been popped by anybody.
LEMMA PoppedIsActive ==
    ASSUME IInv, NEW s \in Senders, NEW k \in Ids, HasPopped(s, k)
    PROVE  Active(k)
<1>1. PICK n \in 1..Len(popped[s]) : popped[s][n] = k
  BY DEF HasPopped
<1>2. <<s, n>> \in Holders(k)
  BY <1>1 DEF Holders, PoppedClaims
<1>3. IsFiniteSet(Holders(k)) /\ claims[k] = Cardinality(Holders(k)) /\ claims[k] \in Nat
  BY DEF IInv, HoldersFinite, ClaimsExact, ClaimTypes
<1>4. claims[k] # 0
  BY <1>2, <1>3, FS_EmptySet
<1> QED
  BY <1>3, <1>4 DEF Active

\* A packet is admitted: nobody has its ID, and a private key is new.
LEMMA AdmitKeeps ==
    ASSUME DistinctIds, IInv, CountTypes, EntryInv, LostInv,
           NEW s \in Senders, NEW p \in Packets, Admit(s, p)
    PROVE  LostInv'
<1>1. PICK i \in Nat, k \in Keys : /\ i = PacketId[p] /\ k = (IF i = 0 THEN nextZeroKey ELSE i)
                                   /\ Fits(k, p) /\ queue' = OdPut(queue, k, p)
  BY NewKey, PacketsAssumption DEF Admit
<1>2. PICK x \in {"pop", "popLocal"} : pc' = [pc EXCEPT ![s] = x]
  BY DEF Admit
<1>3. /\ resent' = [resent EXCEPT ![s] = OdEmpty(Keys)]
      /\ sent' = [sent EXCEPT ![s] = {}]
      /\ popped' = [popped EXCEPT ![s] = << >>]
      /\ incoming' = [incoming EXCEPT ![s] = p]
      /\ cur' = cur /\ got' = got /\ pc[s] = "idle"
      /\ air' = air /\ reader' = reader
      /\ nextZeroKey' = IF i = 0 THEN nextZeroKey - 1 ELSE nextZeroKey
      /\ \/ settled' = settled
         \/ settled' = settled \ {p} /\ ~(i # 0 /\ i \in air \cup {reader.id})
      /\ i # 0 => ~Active(i)
  BY <1>1 DEF Admit, entryVars, IsDuplicate
<1>4. /\ pc \in [Senders -> PcOf] /\ popped \in [Senders -> Seq(Ids)]
      /\ incoming \in [Senders -> Packets \cup {NoPacket}]
      /\ EntryTypes /\ QueueOk /\ EntryOk(s) /\ p # Acked /\ p \in Values
  BY KeyFacts DEF IInv, ClaimTypes, EntryInv
<1>5. \A j \in Keys : queue'.val[j] = IF j = k THEN p ELSE queue.val[j]
  <2>1. queue'.val = [queue.val EXCEPT ![k] = p]
    BY <1>1 DEF OdPut
  <2> QED
    BY <1>4, <2>1 DEF EntryTypes
<1>6. /\ pc'[s] = x /\ sent'[s] = {} /\ incoming'[s] = p
      /\ \A j \in Keys : resent'[s].val[j] = Absent
      /\ \A j \in Keys : resent[s].val[j] = Absent
      /\ got[s] = Absent
      /\ \A t \in Senders \ {s} : /\ pc'[t] = pc[t] /\ sent'[t] = sent[t]
                                  /\ resent'[t] = resent[t] /\ popped'[t] = popped[t]
                                  /\ incoming'[t] = incoming[t]
  <2>1. resent'[s] = OdEmpty(Keys) /\ \A j \in Keys : OdEmpty(Keys).val[j] = Absent
    BY <1>3, <1>4, EmptyDict DEF EntryTypes
  <2>2. (\A j \in Keys : resent[s].val[j] = Absent) /\ got[s] = Absent
    BY <1>3, <1>4 DEF EntryOk, Busy
  <2> QED
    BY <1>2, <1>3, <1>4, <2>1, <2>2 DEF EntryTypes
<1>7. Frame({s})
  BY <1>3, <1>6 DEF Frame
<1>8. \A t \in Senders : HandsOk(t)'
  <2>1. HandsOk(s)'
    BY <1>6, KeyFacts DEF HandsOk, Looping, InSendImpl, Busy, InHand, IsPacket
  <2> QED
    BY <1>7, <2>1, FrameHands DEF LostInv
<1>9. ASSUME NEW j \in Keys, j < 0
      PROVE  PrivateOk(j)'
  <2>1. /\ PrivateOk(j) /\ j \in Int /\ nextZeroKey \in Int
    BY <1>9, KeyFacts DEF LostInv, Private, CountTypes
  <2>2. \A t \in Senders : Touch(t, j)' => Touch(t, j) /\ t # s
    BY <1>3, <1>6 DEF Touch, Busy, OdHas
  <2>3. \A t \in Senders : pc'[t] = "settle" /\ cur'[t] = j =>
                             got'[t] = Absent /\ OdHas(resent[t], j)'
    BY <1>3, <1>6, <2>1 DEF PrivateOk, OdHas
  <2>4. j <= nextZeroKey' => j <= nextZeroKey /\ j # k
    <3>1. CASE i = 0
      BY <1>1, <1>3, <2>1, <3>1
    <3>2. CASE i # 0
      BY <1>1, <1>3, <1>9, <2>1, <3>2
    <3> QED
      BY <3>1, <3>2
  <2>5. InQueue(j)' => InQueue(j) \/ (j = k /\ j <= nextZeroKey)
    <3>1. j = k => j = nextZeroKey
      BY <1>1, <1>9
    <3> QED
      BY <1>5, <2>1, <3>1 DEF InQueue
  <2>6. j # k => (InQueue(j)' => InQueue(j))
    BY <1>5 DEF InQueue
  <2> QED
    BY <2>1, <2>2, <2>3, <2>4, <2>5, <2>6 DEF PrivateOk
<1>10. Evidence'
  <2>1. ASSUME NEW j \in Keys, j > 0, NEW t \in Senders, Seen(t, j)'
        PROVE  Seen(t, j) /\ j # i
    <3>1. t # s
      BY <1>6, <2>1 DEF Seen
    <3>2. Seen(t, j)
      BY <1>3, <1>6, <2>1, <3>1 DEF Seen, Busy, InHand
    <3>3. HasPopped(t, j)
      BY <2>1, <3>2 DEF Seen, LostInv, HandsOk, Busy, EntryInv, EntryOk, InSendImpl, HasPopped
    <3>4. j \in Ids
      BY <2>1, KeyFacts
    <3>5. Active(j)
      BY <3>3, <3>4, PoppedIsActive
    <3> QED
      BY <1>3, <2>1, <3>2, <3>5
  <2>2. ASSUME NEW j \in Keys, j > 0,
               \/ j \in air \/ j = reader.id \/ queue'.val[j] = Acked
               \/ \E t \in Senders : Seen(t, j)'
        PROVE  Received(j)'
    <3>1. queue'.val[j] = Acked => queue.val[j] = Acked /\ j # i
      <4>1. queue'.val[j] = Acked => queue.val[j] = Acked /\ j # k
        BY <1>4, <1>5
      <4>2. j = i => j = k
        BY <1>1, <2>2
      <4> QED
        BY <4>1, <4>2
    <3>2. Received(j)
      BY <2>1, <2>2, <3>1 DEF LostInv, Evidence
    <3>3. settled' = settled \/ (settled' = settled \ {p} /\ j # i)
      BY <1>3, <2>1, <2>2, <3>1
    <3> QED
      BY <1>1, <3>2, <3>3 DEF Received
  <2> QED
    BY <1>3, <2>2 DEF Evidence
<1>11. Kept'
  <2>1. ASSUME NEW q \in Packets, q \in settled \/ Alive(q)
        PROVE  q \in settled' \/ Alive(q)'
    <3>1. Queued(p)'
      BY <1>5 DEF Queued
    <3>2. CASE q = p
      BY <3>1, <3>2 DEF Alive
    <3>3. CASE q \in settled /\ q # p
      BY <1>3, <3>3
    <3>4. ASSUME NEW j \in Keys, queue.val[j] = q, q # p
          PROVE  Queued(q)'
      <4>1. j # k
        <5>1. CASE i = 0
          <6>1. k = nextZeroKey /\ k <= nextZeroKey /\ k < 0
            BY <1>1, <5>1 DEF CountTypes
          <6>2. ~InQueue(k)
            BY <6>1 DEF LostInv, Private, PrivateOk
          <6> QED
            BY <3>4, <6>2 DEF InQueue, IsPacket
        <5>2. CASE i # 0
          <6>1. k = i /\ k > 0
            BY <1>1, <5>2
          <6>2. j = k => PacketId[q] = i
            BY <1>4, <3>4, <6>1 DEF QueueOk, Fits, IsPacket, IdOfKey
          <6> QED
            BY <1>1, <3>4, <5>2, <6>2 DEF DistinctIds
        <5> QED
          BY <5>1, <5>2
      <4> QED
        BY <1>5, <3>4, <4>1 DEF Queued
    <3>5. ASSUME NEW t \in Senders, Returns(t, q)
          PROVE  Returns(t, q)'
      <4>1. t # s
        BY <1>6, <3>5, KeyFacts DEF Returns
      <4> QED
        BY <1>3, <1>6, <3>5, <4>1 DEF Returns, Unsent
    <3> QED
      BY <2>1, <3>2, <3>3, <3>4, <3>5 DEF Alive, Queued
  <2>2. Queued(p)'
    BY <1>5 DEF Queued
  <2>3. \A t \in Senders : incoming'[t] # NoPacket =>
          incoming'[t] = p \/ (incoming'[t] \in Packets /\ (incoming'[t] \in settled \/ Alive(incoming'[t])))
    BY <1>4, <1>6 DEF LostInv, Kept
  <2> QED
    BY <2>1, <2>2, <2>3 DEF Kept, Alive
<1> QED
  BY <1>8, <1>9, <1>10, <1>11 DEF LostInv, Private

\* The steps of a sender that leave everything but its place and its claims.
LEMMA QuietKeeps ==
    ASSUME IInv, EntryInv, LostInv, NEW s \in Senders,
           \/ PopNothing(s) \/ ForgetAcked(s) \/ CheckEmpty(s) \/ KeepWaiting(s)
           \/ SendRaises(s) \/ ReconcileDone(s) \/ Release(s) \/ ReleaseOwn(s)
    PROVE  LostInv'
<1>1. /\ UNCHANGED <<queue, resent, sent, cur, got, incoming, nextZeroKey, air, reader, settled>>
      /\ \A t \in Senders \ {s} : popped'[t] = popped[t]
      /\ pc[s] # "release" => popped'[s] = popped[s]
  BY DEF PopNothing, ForgetAcked, CheckEmpty, KeepWaiting, SendRaises, ReconcileDone, Release,
     ReleaseOwn, queueVars, deviceVars, callVars, loopVars, entryVars, onceVars, IInv, ClaimTypes
<1>2. PICK x \in {"pop", "checkEmpty", "blocked", "reconcile", "release", "releaseOwn", "idle"} :
        /\ pc' = [pc EXCEPT ![s] = x]
        /\ x \in {"pop", "checkEmpty", "blocked"} => Looping(s)
        /\ x = "reconcile" => Busy(s) /\ pc[s] # "release"
  BY DEF PopNothing, ForgetAcked, CheckEmpty, KeepWaiting, SendRaises, ReconcileDone, Release,
     ReleaseOwn, Looping, Busy
<1>3. pc \in [Senders -> PcOf] /\ incoming \in [Senders -> Packets \cup {NoPacket}]
  BY DEF IInv, ClaimTypes
<1>4. pc'[s] = x /\ Frame({s})
  BY <1>1, <1>2, <1>3 DEF Frame
<1>5. /\ Busy(s)' => Busy(s) /\ popped'[s] = popped[s]
      /\ Looping(s)' => Looping(s)
  BY <1>1, <1>2, <1>4 DEF Busy, Looping
<1> QED
  BY <1>1, <1>3, <1>4, <1>5, StillKeeps

\* The steps that pop an entry of the queue.
LEMMA PopKeeps ==
    ASSUME IInv, EntryInv, Books, LostInv, NEW s \in Senders,
           PopOldest(s) \/ PopMarker(s) \/ PopLocal(s)
    PROVE  LostInv'
<1>1. PICK k \in Keys :
        /\ queue' = OdPop(queue, k) /\ queue.val[k] # Absent
        /\ \/ IsPacket(queue.val[k]) /\ StartSend(s, k, queue.val[k])
           \/ pc[s] = "pop" /\ ~IsPacket(queue.val[k]) /\ TakeMarker(s, k)
  BY KeyFacts DEF PopOldest, PopMarker, PopLocal, IsPacket
<1>2. /\ pc[s] \in {"pop", "popLocal"}
      /\ UNCHANGED <<got, incoming, nextZeroKey, air, reader, settled>>
  BY DEF PopOldest, PopMarker, PopLocal, deviceVars, onceVars, callVars, entryVars
<1>3. CASE IsPacket(queue.val[k]) /\ StartSend(s, k, queue.val[k])
  <2>1. PICK p \in Packets : p = queue.val[k]
    BY <1>3 DEF IsPacket
  <2> QED
    BY <1>1, <1>2, <1>3, <2>1, TakeKeeps
<1>4. CASE pc[s] = "pop" /\ ~IsPacket(queue.val[k]) /\ TakeMarker(s, k)
  <2>1. queue.val[k] = Acked
    BY <1>1, <1>4 DEF EntryInv, EntryTypes, Values, IsPacket
  <2>2. k > 0
    BY <2>1, KeyFacts DEF Books
  <2> QED
    BY <1>1, <1>2, <1>4, <2>1, <2>2, MarkerKeeps
<1> QED
  BY <1>1, <1>3, <1>4

LEMMA InitLost == Init => LostInv
<1> SUFFICES ASSUME Init PROVE LostInv
  OBVIOUS
<1>1. /\ \A k \in Keys : queue.val[k] = Absent
      /\ \A s \in Senders : \A k \in Keys : resent[s].val[k] = Absent
  BY EmptyDict DEF Init
<1>2. \A s \in Senders : HandsOk(s)
  BY DEF Init, HandsOk, Looping, InSendImpl, Busy
<1>3. Private
  BY <1>1, KeyFacts DEF Init, Private, PrivateOk, Touch, Busy, InQueue, IsPacket
<1>4. Evidence
  BY <1>1, KeyFacts DEF Init, Evidence, Seen, Busy, Idle
<1>5. Kept
  BY DEF Init, Kept
<1> QED
  BY <1>2, <1>3, <1>4, <1>5 DEF LostInv

LEMMA NextLost ==
    ASSUME DistinctIds, QInv, LostInv, [Next]_vars
    PROVE  LostInv'
<1>0. IInv /\ CountTypes /\ EntryInv /\ BookTypes /\ Books
  BY DEF QInv, CountInv, BookInv
<1>1. ASSUME NEW s \in Senders, NEW p \in Packets, Admit(s, p)
      PROVE  LostInv'
  BY <1>0, <1>1, AdmitKeeps
<1>2. ASSUME NEW s \in Senders, SenderStep(s) \/ GiveUp(s) \/ DeadlineExpired(s) \/ SendRaises(s)
      PROVE  LostInv'
  <2>1. CASE PopOldest(s) \/ PopMarker(s) \/ PopLocal(s)
    BY <1>0, <2>1, PopKeeps
  <2>2. CASE \/ PopNothing(s) \/ ForgetAcked(s) \/ CheckEmpty(s) \/ KeepWaiting(s)
             \/ SendRaises(s) \/ ReconcileDone(s) \/ Release(s) \/ ReleaseOwn(s)
    BY <1>0, <2>2, QuietKeeps
  <2>3. CASE Transmit(s)
    BY <1>0, <2>3, TransmitKeeps
  <2>4. CASE SendReturns(s)
    BY <1>0, <2>4, SentKeeps
  <2>5. CASE Reconcile(s)
    BY <1>0, <2>5, ReconcileKeeps
  <2>6. CASE SettleDone(s) \/ SettleSent(s)
    BY <1>0, <2>6, DoneKeeps
  <2>7. CASE SettleRequeue(s)
    BY <1>0, <2>7, RequeueKeeps
  <2>8. CASE GiveUp(s) \/ DeadlineExpired(s)
    BY <1>0, <2>8, DropKeeps
  <2> QED
    BY <1>2, <2>1, <2>2, <2>3, <2>4, <2>5, <2>6, <2>7, <2>8 DEF SenderStep
<1>3. ASSUME \/ \E i \in Ids \cup {0}, res \in BOOLEAN, f \in 0..MaxLen :
                 ReceiveStatus(i, res, f)
             \/ ReaderStep
             \/ \E k \in Keys \cap AgingIds : AgeAwaiting(k) \/ AgeTombstone(k)
             \/ LocalNodeChanges
             \/ \E s \in Senders, p \in Packets : RejectDuplicate(s, p)
             \/ UNCHANGED vars
      PROVE  LostInv'
  BY <1>0, <1>3, ReaderKeeps, Zenon
<1>4. CASE UNCHANGED vars
  BY <1>3, <1>4
<1>5. ASSUME NEW s \in Senders, Caller(s) \/ SenderStep(s) \/ GiveUp(s) \/ DeadlineExpired(s)
                                \/ SendRaises(s)
      PROVE  LostInv'
  <2>1. CASE \E p \in Packets : Admit(s, p)
    BY <1>1, <2>1
  <2>2. CASE \E p \in Packets : RejectDuplicate(s, p)
    BY <1>3, <2>2
  <2> QED
    BY <1>2, <1>5, <2>1, <2>2 DEF Caller
<1>6. CASE Next
  BY <1>3, <1>5, <1>6 DEF Next
<1> QED
  BY <1>4, <1>6

LEMMA KeptIsNotLost == LostInv => NothingLost
BY DEF LostInv, Kept, Alive, Queued, Returns, NothingLost, Held

\* With distinct IDs a packet that a call was given is, at every moment until the
\* sender's next call, received by the device, withdrawn by its own call, in the
\* queue, or in the hands of a call that will put it back: whatever order
\* _reconcile_resent_queue, the receive thread and other calls come in.
THEOREM NothingIsLost == DistinctIds => (Spec => []NothingLost)
<1> SUFFICES ASSUME DistinctIds PROVE Spec => []NothingLost
  OBVIOUS
<1>1. Init => QInv /\ LostInv
  BY InitQInv, InitLost
<1>2. QInv /\ LostInv /\ [Next]_vars => QInv' /\ LostInv'
  BY NextQInv, NextLost
<1> QED
  BY <1>1, <1>2, KeptIsNotLost, PTL DEF Spec
=============================================================================
