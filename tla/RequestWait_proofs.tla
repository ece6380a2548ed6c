------------------------- MODULE RequestWait_proofs -------------------------
(***************************************************************************)
(* Proofs about RequestWait: the types, the absence of left-over outcomes, *)
(* that a wait never sees a reply to another request, that a command       *)
(* leaves no handler, that a reply can complete a getter that waits, and   *)
(* that a recorded error stays until its wait reports it.                  *)
(***************************************************************************)
EXTENDS RequestWait, TLAPS

\* A caller away from "idle" has numbered its request, so Request(c) is one.
CallBegun == \A c \in Callers : pc[c] # "idle" => call[c] > 0
TypeInv == TypeOK /\ CallBegun

----------------------------------------------------------------------------
(* Types.                                                                  *)

\* Whatever retire_wait_request is called with, its lock section keeps the types.
LEMMA RetireTypes ==
    ASSUME TypeOK, NEW c \in Callers, NEW a \in Attrs, NEW i \in Ids, RetireWait(c, a, i)
    PROVE  /\ handlers' \in [Ids -> Handlers \cup {NoHandler}]
           /\ active' \in [Attrs -> SUBSET Ids]
           /\ retired' \in [Attrs -> SUBSET Ids]
           /\ acks' \subseteq Keys /\ errors' \subseteq Keys
    BY DEF TypeOK, RetireWait, Keys, Legacy, Key

LEMMA ActivateTypes ==
    ASSUME TypeOK, NEW c \in Callers, NEW a \in Attrs, NEW i \in Ids, ActivateWait(c, a, i)
    PROVE  /\ active' \in [Attrs -> SUBSET Ids]
           /\ retired' \in [Attrs -> SUBSET Ids]
           /\ acks' \subseteq Keys /\ errors' \subseteq Keys
    BY DEF TypeOK, ActivateWait, Keys, Legacy, Key

\* An outcome is filed under well-formed keys only.
LEMMA SlotsAreKeys ==
    ASSUME NEW a \in Attrs, NEW i \in Ids \cup {Unscoped}
    PROVE  Slots(a, i) \subseteq Keys /\ Latch(a, i) \subseteq Attrs
    BY DEF Slots, Latch, Keys, Key

LEMMA PrunedType == ASSUME TypeOK PROVE Pruned \in [Ids -> Handlers \cup {NoHandler}]
    BY DEF TypeOK, Pruned

LEMMA RequestType ==
    ASSUME TypeInv, NEW c \in Callers, pc[c] # "idle"
    PROVE  Request(c) \in Requests
    BY BoundAssumption DEF TypeInv, TypeOK, CallBegun, Request, Requests

\* Sending the receive thread to its next stage, or home, keeps its type.
LEMMA RxTypes ==
    ASSUME TypeOK, rx # NoPacket, NEW s \in Stages, RxGoes(s) \/ RxDone
    PROVE  rx' \in [stage : Stages, packet : Packets, req : Requests] \cup {NoPacket}
    BY DEF TypeOK, RxGoes, RxDone

\* Every lock section, and every step between two, keeps the types.
LEMMA TypeStep == TypeInv /\ [Next]_vars => TypeInv'
<1> SUFFICES ASSUME TypeInv, [Next]_vars PROVE TypeInv'
    OBVIOUS
<1> USE AttrAssumption, BoundAssumption, KindAssumption
<1>1. ASSUME NEW c \in Callers, NEW i \in Ids, Choose(c, i) PROVE TypeInv'
    BY <1>1 DEF Choose, TypeInv, TypeOK, CallBegun, stateVars, Goto, Places, Verdicts
<1>2. ASSUME NEW c \in Callers, CallerStep(c) PROVE TypeInv'
  <2>1. CASE Register(c)
    <3>1. Request(c) \in Requests
        BY <2>1, RequestType DEF Register
    <3>2. [req |-> Request(c), stale |-> FALSE] \in Handlers
        BY <3>1 DEF Handlers
    <3>3. handlers' \in [Ids -> Handlers \cup {NoHandler}]
        BY <2>1, <3>2, PrunedType DEF Register, TypeInv
    <3> QED BY <2>1, <3>3 DEF Register, TypeInv, TypeOK, CallBegun, Goto, Places
  <2>2. CASE Activate(c)
    BY <2>2, ActivateTypes DEF Activate, TypeInv, TypeOK, CallBegun, Goto, Places
  <2>3. CASE Transmit(c)
    <3>1. Request(c) \in Requests
        BY <2>3, RequestType DEF Transmit
    <3>2. air' \subseteq Packets
        BY <2>3, <3>1, ReplyAssumption DEF Transmit, TypeInv, TypeOK, Packets
    <3> QED BY <2>3, <3>2 DEF Transmit, TypeInv, TypeOK, CallBegun, stateVars, Goto, Places
  <2>4. CASE SendFails(c)
    <3>1. CASE HasWait(c)
        BY <2>4, <3>1, RetireTypes DEF SendFails, TypeInv, TypeOK, CallBegun, Goto, After, Places
    <3>2. CASE ~HasWait(c)
        BY <2>4, <3>2 DEF SendFails, TypeInv, TypeOK, CallBegun, Goto, After, Places
    <3> QED BY <3>1, <3>2
  <2>5. CASE SendReturns(c)
    BY <2>5 DEF SendReturns, TypeInv, TypeOK, CallBegun, stateVars, Goto, After, Places
  <2>6. CASE Poll(c)
    BY <2>6 DEF Poll, TypeInv, TypeOK, CallBegun, Goto, Places
  <2>7. CASE GetterCompletes(c)
    BY <2>7 DEF GetterCompletes, TypeInv, TypeOK, CallBegun, stateVars, Goto, Places
  <2>8. CASE TimesOut(c)
    BY <2>8 DEF TimesOut, TypeInv, TypeOK, CallBegun, stateVars, Goto, Places, Verdicts
  <2>9. CASE Conclude(c)
    BY <2>9 DEF Conclude, TypeInv, TypeOK, CallBegun, Goto, Places, Verdicts
  <2>10. CASE Retire(c)
    BY <2>10, RetireTypes DEF Retire, TypeInv, TypeOK, CallBegun, Goto, After, Places
  <2>11. CASE CloseScope(c)
    BY <2>11 DEF CloseScope, TypeInv, TypeOK, CallBegun, stateVars, Goto, Places
  <2>12. CASE CleanUp(c)
    BY <2>12, RetireTypes DEF CleanUp, TypeInv, TypeOK, CallBegun, Goto, Places
  <2> QED BY <1>2, <2>1, <2>2, <2>3, <2>4, <2>5, <2>6, <2>7, <2>8, <2>9, <2>10, <2>11, <2>12
          DEF CallerStep
<1>3. ASSUME NEW m \in air, Correlate(m) PROVE TypeInv'
  <2>1. m \in Packets /\ m.id \in Ids
    BY <1>3 DEF TypeInv, TypeOK, Packets
  <2>2. handlers' \in [Ids -> Handlers \cup {NoHandler}] /\ air' \subseteq Packets
    BY <1>3, <2>1 DEF Correlate, TypeInv, TypeOK
  <2>3. rx' \in [stage : Stages, packet : Packets, req : Requests] \cup {NoPacket}
    BY <1>3, <2>1 DEF Correlate, TypeInv, TypeOK, Handlers, Stages
  <2> QED BY <1>3, <2>2, <2>3 DEF Correlate, TypeInv, TypeOK, CallBegun, callerVars
<1>4. ASSUME ReceiverStep PROVE TypeInv'
  <2>1. rx # NoPacket
    BY <1>4 DEF ReceiverStep, DecodeFailed, Invoke, RunCallback, RestOfNak
  <2>2. /\ rx.packet.id \in Ids /\ rx.req \in Requests
        /\ rx.req.owner \in Callers /\ AttrOf[rx.req.owner] \in Attrs
    BY <2>1 DEF TypeInv, TypeOK, Packets, Requests
  <2>3. CASE DecodeFailed
    <3>1. errors' \subseteq Keys /\ latched' \subseteq Attrs
        BY <2>2, <2>3, SlotsAreKeys DEF DecodeFailed, TypeInv, TypeOK, Keys, Key
    <3>2. rx' \in [stage : Stages, packet : Packets, req : Requests] \cup {NoPacket}
        BY <2>1, <2>3, RxTypes DEF DecodeFailed, TypeInv, Stages
    <3> QED BY <2>3, <3>1, <3>2 DEF DecodeFailed, TypeInv, TypeOK, CallBegun, callerVars
  <2>4. CASE Invoke
    <3>1. rx' \in [stage : Stages, packet : Packets, req : Requests] \cup {NoPacket}
        BY <2>1, <2>4, RxTypes DEF Invoke, TypeInv, Stages
    <3> QED BY <2>4, <3>1 DEF Invoke, TypeInv, TypeOK, CallBegun, callerVars, stateVars
  <2>5. CASE RunCallback
    <3> DEFINE req == rx.req
               a == AttrOf[req.owner]
               i == rx.packet.id
               k == rx.packet.kind
    <3>0. /\ Slots(a, i) \subseteq Keys /\ Latch(a, i) \subseteq Attrs
          /\ Slots(a, Unscoped) \subseteq Keys
        BY <2>2, SlotsAreKeys
    <3>1. CASE RunResponse(a, i, k)
        BY <2>5, <3>0, <3>1 DEF RunCallback, RunResponse, MarkAcknowledged, SetWaitError,
           RxDone, TypeInv, TypeOK, CallBegun
    <3>2. CASE RunTrace(req, a, i, k)
      <4>1. handlers' \in [Ids -> Handlers \cup {NoHandler}]
        <5>1. [Pruned EXCEPT ![i] = [req |-> req, stale |-> FALSE]] \in [Ids -> Handlers \cup {NoHandler}]
            BY <2>2, PrunedType DEF TypeInv, Handlers
        <5> QED BY <3>2, <5>1 DEF RunTrace, Rearm, TypeInv, TypeOK
      <4> QED
        BY <2>5, <3>0, <3>2, <4>1 DEF RunCallback, RunTrace, MarkAcknowledged, SetWaitError,
           RxDone, TypeInv, TypeOK, CallBegun
    <3>3. CASE RunAck(a, i, k)
      <4>1. rx' \in [stage : Stages, packet : Packets, req : Requests] \cup {NoPacket}
        BY <2>1, <3>3, RxTypes DEF RunAck, TypeInv, Stages
      <4> QED
        BY <2>5, <3>0, <3>3, <4>1 DEF RunCallback, RunAck, MarkAcknowledged,
           TypeInv, TypeOK, CallBegun
    <3>4. CASE RunGetter(req, i, k)
        BY <2>2, <2>5, <3>4 DEF RunCallback, RunGetter, RxDone, TypeInv, TypeOK, CallBegun,
           Verdicts, Keys, Key
    <3>5. CASE RxDone /\ UNCHANGED <<handlers, acks, errors, latched, verdict>>
        BY <2>5, <3>5 DEF RunCallback, RxDone, TypeInv, TypeOK, CallBegun
    <3> QED BY <2>5, <3>1, <3>2, <3>3, <3>4, <3>5 DEF RunCallback
  <2>6. CASE RestOfNak
    <3>1. Slots(AttrOf[rx.req.owner], rx.packet.id) \subseteq Keys
          /\ Latch(AttrOf[rx.req.owner], rx.packet.id) \subseteq Attrs
        BY <2>2, SlotsAreKeys
    <3> QED BY <2>6, <3>1 DEF RestOfNak, SetWaitError, RxDone, TypeInv, TypeOK, CallBegun, callerVars
  <2> QED BY <1>4, <2>3, <2>4, <2>5, <2>6 DEF ReceiverStep
<1>5. ASSUME NEW i \in Ids, HandlerAges(i) PROVE TypeInv'
  <2>1. [handlers[i] EXCEPT !.stale = TRUE] \in Handlers
    BY <1>5 DEF HandlerAges, TypeInv, TypeOK, Handlers
  <2>2. handlers' \in [Ids -> Handlers \cup {NoHandler}]
    BY <1>5, <2>1 DEF HandlerAges, TypeInv, TypeOK
  <2> QED BY <1>5, <2>2 DEF HandlerAges, TypeInv, TypeOK, CallBegun, callerVars
<1>6. ASSUME NEW i \in Ids, NEW a \in Attrs, QuarantineEnds(a, i) PROVE TypeInv'
    BY <1>6 DEF QuarantineEnds, TypeInv, TypeOK, CallBegun, callerVars
<1>7. CASE UNCHANGED vars
    BY <1>7 DEF vars, stateVars, callerVars, TypeInv, TypeOK, CallBegun
<1> QED BY <1>1, <1>2, <1>3, <1>4, <1>5, <1>6, <1>7 DEF Next

LEMMA TypeInit == Init => TypeInv
<1> SUFFICES ASSUME Init PROVE TypeInv
    OBVIOUS
<1>1. call \in [Callers -> 0..MaxCalls] /\ CallBegun
    BY BoundAssumption DEF Init, CallBegun
<1>2. /\ handlers \in [Ids -> Handlers \cup {NoHandler}]
      /\ active \in [Attrs -> SUBSET Ids] /\ retired \in [Attrs -> SUBSET Ids]
    BY DEF Init
<1>3. /\ pc \in [Callers -> Places] /\ verdict \in [Callers -> Verdicts]
      /\ closed \in [Callers -> BOOLEAN] /\ pid \in [Callers -> Ids]
    BY DEF Init, Places, Verdicts
<1> QED BY <1>1, <1>2, <1>3 DEF Init, TypeInv, TypeOK

\* Every variable keeps its type, and a request is numbered before it is used.
THEOREM TypesHold == Spec => []TypeOK
<1>1. Spec => []TypeInv
    BY TypeInit, TypeStep, PTL DEF Spec
<1> QED BY <1>1, PTL DEF TypeInv

----------------------------------------------------------------------------
(* No recorded outcome outlives its wait.                                  *)

Backed(key) ==
    \/ key[2] = Unscoped
    \/ key[2] \in active[key[1]]
    \/ key[1] = Nak /\ \E c \in Callers : Typed(c)

\* The resolution of an outcome only yields backed keys.
LEMMA SlotsAreBacked ==
    ASSUME NEW a \in Attrs, NEW i \in Ids \cup {Unscoped}, NEW key \in Slots(a, i)
    PROVE  Backed(key)
    BY DEF Slots, Key, Backed

\* A retirement takes with it exactly what it leaves without a wait.
LEMMA RetireKeepsBacked ==
    ASSUME TypeOK, OutcomesAreActive,
           NEW c \in Callers, NEW a \in Attrs, NEW i \in Ids, RetireWait(c, a, i)
    PROVE  OutcomesAreActive'
<1> SUFFICES ASSUME NEW key \in acks' \cup errors'
             PROVE  \/ key[2] = Unscoped
                    \/ key[2] \in active'[key[1]]
                    \/ key[1] = Nak /\ \E d \in Callers : Typed(d)
    BY DEF OutcomesAreActive, Typed
<1>1. key \in acks \cup errors /\ key # Key(a, i) /\ key \in Keys
    BY DEF RetireWait, TypeOK
<1>2. key[1] \in Attrs /\ key = <<key[1], key[2]>>
    BY <1>1 DEF Keys
<1>3. key[1] # a \/ key[2] # i
    BY <1>1, <1>2 DEF Key
<1>4. ASSUME key[2] \in active[key[1]] PROVE key[2] \in active'[key[1]]
    BY <1>2, <1>3, <1>4 DEF RetireWait, TypeOK
<1> QED BY <1>1, <1>4 DEF OutcomesAreActive

\* A step that leaves the scopes alone and records backed keys only is harmless.
LEMMA RecordKeepsBacked ==
    ASSUME OutcomesAreActive, UNCHANGED active,
           \A key \in (acks' \cup errors') \ (acks \cup errors) : Backed(key)
    PROVE  OutcomesAreActive'
    BY DEF OutcomesAreActive, Backed, Typed

LEMMA OutcomesStep == TypeInv /\ OutcomesAreActive /\ [Next]_vars => OutcomesAreActive'
<1> SUFFICES ASSUME TypeInv, OutcomesAreActive, [Next]_vars PROVE OutcomesAreActive'
    OBVIOUS
<1> USE AttrAssumption DEF TypeInv
<1>1. ASSUME NEW c \in Callers, CallerStep(c) PROVE OutcomesAreActive'
  <2>0. pid[c] \in Ids /\ AttrOf[c] \in Attrs
    BY DEF TypeOK
  <2>1. CASE Activate(c)
    <3>1. ActivateWait(c, AttrOf[c], pid[c])
        BY <2>1 DEF Activate
    <3>2. acks' \cup errors' \subseteq acks \cup errors
        BY <3>1 DEF ActivateWait
    <3>3. \A a \in Attrs : active[a] \subseteq active'[a]
        BY <3>1, <2>0 DEF ActivateWait, TypeOK
    <3> QED BY <3>2, <3>3 DEF OutcomesAreActive, TypeOK, Keys, Typed
  <2>2. CASE SendFails(c)
    <3>1. CASE HasWait(c)
        BY <2>0, <2>2, <3>1, RetireKeepsBacked DEF SendFails
    <3>2. CASE ~HasWait(c)
        BY <2>2, <3>2 DEF SendFails, OutcomesAreActive, Typed
    <3> QED BY <3>1, <3>2
  <2>3. CASE Retire(c) \/ CleanUp(c)
    BY <2>0, <2>3, RetireKeepsBacked DEF Retire, CleanUp
  <2>4. CASE Register(c) \/ Transmit(c) \/ SendReturns(c) \/ Poll(c) \/ GetterCompletes(c)
             \/ TimesOut(c) \/ Conclude(c) \/ CloseScope(c)
    <3>1. UNCHANGED active /\ acks' \cup errors' \subseteq acks \cup errors
        BY <2>4 DEF Register, Transmit, SendReturns, Poll, GetterCompletes, TimesOut, Conclude,
           CloseScope, stateVars
    <3> QED BY <3>1, RecordKeepsBacked
  <2> QED BY <1>1, <2>1, <2>2, <2>3, <2>4 DEF CallerStep
<1>2. ASSUME ReceiverStep PROVE OutcomesAreActive'
  <2>0. rx # NoPacket
    BY <1>2 DEF ReceiverStep, DecodeFailed, Invoke, RunCallback, RestOfNak
  <2>1. rx.packet.id \in Ids /\ rx.req.owner \in Callers /\ AttrOf[rx.req.owner] \in Attrs
    BY <2>0 DEF TypeOK, Packets, Requests
  <2>2. \A a \in Attrs, i \in Ids \cup {Unscoped} : \A key \in Slots(a, i) : Backed(key)
    BY SlotsAreBacked
  <2>3. ASSUME Typed(rx.req.owner) PROVE Backed(Key(Nak, rx.packet.id))
    BY <2>1, <2>3 DEF Backed, Key
  <2>4. UNCHANGED active
    BY <1>2 DEF ReceiverStep, DecodeFailed, Invoke, RunCallback, RestOfNak, stateVars
  <2>5. CASE DecodeFailed
    BY <2>1, <2>2, <2>3, <2>4, <2>5, RecordKeepsBacked DEF DecodeFailed
  <2>6. CASE Invoke
    BY <2>4, <2>6, RecordKeepsBacked DEF Invoke, stateVars
  <2>7. CASE RunCallback
    <3> DEFINE a == AttrOf[rx.req.owner]
               i == rx.packet.id
               k == rx.packet.kind
    <3>1. \A key \in Slots(a, i) \cup Slots(a, Unscoped) : Backed(key)
        BY <2>1, <2>2
    <3>2. CASE RunResponse(a, i, k) \/ RunTrace(rx.req, a, i, k) \/ RunAck(a, i, k)
        BY <2>4, <3>1, <3>2, RecordKeepsBacked
           DEF RunResponse, RunTrace, RunAck, MarkAcknowledged, SetWaitError
    <3>3. CASE Typed(rx.req.owner) /\ RunGetter(rx.req, i, k)
        BY <2>3, <2>4, <3>3, RecordKeepsBacked DEF RunGetter
    <3>4. CASE UNCHANGED <<acks, errors>>
        BY <2>4, <3>4, RecordKeepsBacked
    <3> QED BY <2>7, <3>2, <3>3, <3>4 DEF RunCallback, Typed
  <2>8. CASE RestOfNak
    BY <2>1, <2>2, <2>4, <2>8, RecordKeepsBacked DEF RestOfNak, SetWaitError
  <2> QED BY <1>2, <2>5, <2>6, <2>7, <2>8 DEF ReceiverStep
<1>3. CASE UNCHANGED <<active, acks, errors>>
    BY <1>3, RecordKeepsBacked
<1> QED
    BY <1>1, <1>2, <1>3 DEF Next, Choose, Correlate, HandlerAges, QuarantineEnds, stateVars, vars

\* No recorded acknowledgment or error of a request id outlives its wait, for
\* every set of callers, ids and attributes (_resolve_wait_outcome_locked, retire_wait_request).
THEOREM OutcomesStayActive == Spec => []OutcomesAreActive
<1>1. Init => TypeInv /\ OutcomesAreActive
    BY TypeInit DEF Init, OutcomesAreActive
<1>2. TypeInv /\ OutcomesAreActive /\ [Next]_vars => (TypeInv /\ OutcomesAreActive)'
    BY TypeStep, OutcomesStep
<1> QED BY <1>1, <1>2, PTL DEF Spec

----------------------------------------------------------------------------
(* No cross-talk: an outcome recorded for a wait came from a reply to it.   *)
(* This holds where every request has a scoped wait: the id of an "async"   *)
(* request is free again as soon as its one-shot handler is gone, and the   *)
(* cleanup of a command retires an id a second time.                        *)

ScopedOnly == (\A c \in Callers : HasWait(c)) /\ InCommand = {}

OnAir(c) == pc[c] \in {"onAir", "waiting", "signalled", "expired", "retiring"}

\* No two requests in progress own one packet id.
OwnersDiffer == \A c, d \in Callers : c # d /\ Owns(c) /\ Owns(d) => pid[c] # pid[d]

\* Until its wait is active, only the handler of a request reserves its id.
HandlerReserves ==
    \A c \in Callers :
        pc[c] = "registered" => handlers[pid[c]] = [req |-> Request(c), stale |-> FALSE]

\* A reply belongs to the request that owns its id, or its id is quarantined.
Attributed(m) ==
    \/ \E a \in Attrs : m.id \in retired[a]
    \/ \E c \in Callers : m.req = Request(c) /\ m.id = pid[c] /\ OnAir(c)
RepliesAttributed ==
    /\ \A m \in air : Attributed(m)
    /\ rx # NoPacket => Attributed(rx.packet)

\* The id of a request in progress is not quarantined.
OwnersNotRetired == \A c \in Callers : Owns(c) => \A a \in Attrs : pid[c] \notin retired[a]

OutsideCommands == \A c \in Callers : pc[c] \notin {"closing", "cleanup"}

Ownership ==
    /\ TypeInv
    /\ OwnersDiffer
    /\ HandlerReserves
    /\ ScopesAreWaits
    /\ RepliesAttributed
    /\ OwnersNotRetired
    /\ OutsideCommands

\* Retiring a wait that a request owns disturbs no other request.
LEMMA RetireOwnership ==
    ASSUME Ownership, ScopedOnly, NEW c \in Callers, Owns(c), pc[c] # "registered",
           RetireWait(c, AttrOf[c], pid[c]), Goto(c, "idle"), UNCHANGED <<pid, call, air, rx>>, TypeInv'
    PROVE  Ownership'
<1> USE AttrAssumption DEF Ownership
<1>0. pid[c] \in Ids /\ AttrOf[c] \in Attrs /\ pc'[c] = "idle"
      /\ \A d \in Callers : d # c => pc'[d] = pc[d]
    BY DEF TypeInv, TypeOK, Goto
<1>1. OwnersDiffer'
    BY <1>0 DEF OwnersDiffer, Owns
<1>2. HandlerReserves'
  <2> SUFFICES ASSUME NEW d \in Callers, pc'[d] = "registered"
               PROVE  handlers'[pid[d]] = [req |-> Request(d), stale |-> FALSE]
    BY DEF HandlerReserves, Request
  <2>1. d # c /\ pc[d] = "registered" /\ pid[d] # pid[c]
    BY <1>0 DEF OwnersDiffer, Owns
  <2>2. pid[d] \in Ids /\ handlers'[pid[d]] = handlers[pid[d]]
    BY <2>1 DEF TypeInv, TypeOK, RetireWait
  <2> QED BY <2>1, <2>2 DEF HandlerReserves
<1>3. ScopesAreWaits'
  <2> SUFFICES ASSUME NEW a \in Attrs
               PROVE  active'[a] = {pid[d] : d \in {e \in Callers : InWait(e)' /\ AttrOf[e] = a}}
    BY DEF ScopesAreWaits
  <2>1. active[a] = {pid[d] : d \in {e \in Callers : InWait(e) /\ AttrOf[e] = a}}
    BY DEF ScopesAreWaits
  <2>2. \A d \in Callers : InWait(d)' <=> d # c /\ InWait(d)
    BY <1>0 DEF InWait
  <2>3. \A d \in Callers : d # c /\ InWait(d) => pid[d] # pid[c]
    BY DEF InWait, Owns, OwnersDiffer
  <2>4. active'[a] = IF a = AttrOf[c] THEN active[a] \ {pid[c]} ELSE active[a]
    BY <1>0 DEF RetireWait, TypeInv, TypeOK
  <2> QED BY <2>1, <2>2, <2>3, <2>4
<1>4. RepliesAttributed'
  <2>1. \A a \in Attrs : retired'[a] = IF a = AttrOf[c] THEN retired[a] \cup {pid[c]} ELSE retired[a]
    BY <1>0 DEF RetireWait, TypeInv, TypeOK
  <2>2. \A d \in Callers : d # c => (OnAir(d)' <=> OnAir(d))
    BY <1>0 DEF OnAir
  <2>3. ASSUME NEW m, Attributed(m) PROVE Attributed(m)'
    BY ZenonT(40), <1>0, <2>1, <2>2, <2>3 DEF Attributed, Request
  <2> QED BY <2>3 DEF RepliesAttributed
<1>5. OwnersNotRetired'
  <2>1. \A a \in Attrs : retired'[a] \subseteq retired[a] \cup {pid[c]}
    BY <1>0 DEF RetireWait, TypeInv, TypeOK
  <2>2. \A d \in Callers : Owns(d)' => Owns(d) /\ d # c
    BY <1>0 DEF Owns
  <2> QED BY <2>1, <2>2 DEF OwnersNotRetired, OwnersDiffer
<1>6. OutsideCommands'
    BY <1>0 DEF OutsideCommands
<1> QED BY <1>1, <1>2, <1>3, <1>4, <1>5, <1>6

\* A caller that moves within one request without touching the scopes disturbs nothing.
LEMMA CallerMoves ==
    ASSUME Ownership, NEW c \in Callers, NEW p, Goto(c, p), OnAir(c), OnAir(c)', InWait(c), InWait(c)',
           UNCHANGED <<handlers, active, retired, pid, call, air, rx>>, TypeInv'
    PROVE  Ownership'
<1> USE DEF Ownership
<1>0. \A d \in Callers : /\ (Owns(d)' <=> Owns(d))
                         /\ (OnAir(d)' <=> OnAir(d))
                         /\ (InWait(d)' <=> InWait(d))
                         /\ (pc'[d] = "registered" => pc[d] = "registered")
                         /\ pc'[d] \notin {"closing", "cleanup"}
    BY DEF Goto, Owns, OnAir, InWait, TypeInv, TypeOK, OutsideCommands
<1>1. OwnersDiffer' /\ OwnersNotRetired' /\ OutsideCommands'
    BY <1>0 DEF OwnersDiffer, OwnersNotRetired, OutsideCommands
<1>2. HandlerReserves'
    BY <1>0 DEF HandlerReserves, Request
<1>3. ScopesAreWaits'
    BY <1>0 DEF ScopesAreWaits
<1>4. RepliesAttributed'
  <2>1. ASSUME NEW m, Attributed(m) PROVE Attributed(m)'
    BY <1>0, <2>1 DEF Attributed, Request
  <2> QED BY <2>1 DEF RepliesAttributed
<1> QED BY <1>1, <1>2, <1>3, <1>4

LEMMA OwnershipStep == ScopedOnly /\ Ownership /\ [Next]_vars => Ownership'
<1> SUFFICES ASSUME ScopedOnly, Ownership, [Next]_vars PROVE Ownership'
    OBVIOUS
<1>0. TypeInv' /\ TypeInv /\ TypeOK /\ \A c \in Callers : HasWait(c) /\ c \notin InCommand
    BY TypeStep DEF Ownership, TypeInv, ScopedOnly
<1> USE AttrAssumption
<1>1. ASSUME NEW c \in Callers, NEW i \in Ids, Choose(c, i) PROVE Ownership'
  <2>0. /\ \A d \in Callers : d # c => pc'[d] = pc[d] /\ pid'[d] = pid[d] /\ call'[d] = call[d]
        /\ pc[c] = "idle" /\ pc'[c] = "chosen"
        /\ UNCHANGED <<handlers, active, retired, air, rx>>
    BY <1>0, <1>1 DEF Choose, Goto, TypeOK, stateVars
  <2>1. OwnersDiffer' /\ OwnersNotRetired' /\ OutsideCommands'
    BY <2>0 DEF Ownership, OwnersDiffer, OwnersNotRetired, OutsideCommands, Owns
  <2>2. HandlerReserves'
    BY <2>0 DEF Ownership, HandlerReserves, Request
  <2>3. ScopesAreWaits'
    <3>1. \A d \in Callers : (InWait(d)' <=> InWait(d)) /\ (InWait(d) => pid'[d] = pid[d])
        BY <2>0 DEF InWait
    <3> QED BY <2>0, <3>1 DEF Ownership, ScopesAreWaits
  <2>4. RepliesAttributed'
    <3>1. ASSUME NEW m, Attributed(m) PROVE Attributed(m)'
        BY <2>0, <3>1 DEF Attributed, Request, OnAir
    <3> QED BY <2>0, <3>1 DEF Ownership, RepliesAttributed
  <2> QED BY <1>0, <2>1, <2>2, <2>3, <2>4 DEF Ownership
<1>2. ASSUME NEW c \in Callers, Register(c) PROVE Ownership'
  <2> DEFINE i == pid[c]
  <2>0. /\ \A d \in Callers : d # c => pc'[d] = pc[d]
        /\ pc[c] = "chosen" /\ pc'[c] = IF i \in Reserved(Pruned) THEN "idle" ELSE "registered"
        /\ UNCHANGED <<active, retired, pid, call, air, rx>> /\ i \in Ids
    BY <1>0, <1>2 DEF Register, Goto, TypeOK
  <2>1. ASSUME NEW d \in Callers, Owns(d), i = pid[d] PROVE i \in Reserved(Pruned)
    <3>1. CASE pc[d] = "registered"
      <4>1. handlers[i] = [req |-> Request(d), stale |-> FALSE]
        BY <2>1, <3>1 DEF Ownership, HandlerReserves
      <4>2. handlers[i] \in Handlers
        BY <1>0, <3>1, <4>1, RequestType DEF Handlers
      <4>3. Pruned[i] = handlers[i]
        BY <2>0, <4>1 DEF Pruned, IsStale
      <4> QED BY <2>0, <4>2, <4>3, HandlerAssumption DEF Reserved, Registered
    <3>2. CASE pc[d] # "registered"
      <4>1. InWait(d)
        BY <1>0, <2>1, <3>2 DEF Owns, InWait
      <4>2. pid[d] \in active[AttrOf[d]] /\ AttrOf[d] \in Attrs
        BY <4>1 DEF Ownership, ScopesAreWaits
      <4> QED BY <2>1, <4>2 DEF Reserved, ActiveIds
    <3> QED BY <3>1, <3>2
  <2>2. OwnersDiffer'
    BY <2>0, <2>1 DEF Ownership, OwnersDiffer, Owns
  <2>3. OwnersNotRetired'
    BY <2>0 DEF Ownership, OwnersNotRetired, Owns, Reserved
  <2>4. OutsideCommands'
    BY <2>0 DEF Ownership, OutsideCommands
  <2>5. HandlerReserves'
    <3> SUFFICES ASSUME NEW d \in Callers, pc'[d] = "registered"
                 PROVE  handlers'[pid[d]] = [req |-> Request(d), stale |-> FALSE]
        BY <2>0 DEF HandlerReserves, Request
    <3>1. CASE d = c
        BY <1>0, <1>2, <2>0, <3>1, PrunedType DEF Register
    <3>2. CASE d # c
      <4>1. pc[d] = "registered" /\ pid[d] \in Ids
        BY <1>0, <2>0, <3>2 DEF TypeOK
      <4>2. handlers[pid[d]] = [req |-> Request(d), stale |-> FALSE]
        BY <4>1 DEF Ownership, HandlerReserves
      <4>3. Pruned[pid[d]] = handlers[pid[d]]
        BY <4>1, <4>2 DEF Pruned, IsStale
      <4>4. ~(i \in Reserved(Pruned)) => pid[d] # i
        BY <2>1, <4>1 DEF Owns
      <4> QED BY <1>2, <2>0, <4>1, <4>2, <4>3, <4>4, PrunedType, <1>0 DEF Register
    <3> QED BY <3>1, <3>2
  <2>6. ScopesAreWaits'
    <3>1. \A d \in Callers : InWait(d)' <=> InWait(d)
        BY <2>0 DEF InWait
    <3> QED BY <2>0, <3>1 DEF Ownership, ScopesAreWaits
  <2>7. RepliesAttributed'
    <3>1. ASSUME NEW m, Attributed(m) PROVE Attributed(m)'
        BY <2>0, <3>1 DEF Attributed, Request, OnAir
    <3> QED BY <2>0, <3>1 DEF Ownership, RepliesAttributed
  <2> QED BY <1>0, <2>2, <2>3, <2>4, <2>5, <2>6, <2>7 DEF Ownership
<1>3. ASSUME NEW c \in Callers, Activate(c) PROVE Ownership'
  <2>0. /\ \A d \in Callers : d # c => pc'[d] = pc[d]
        /\ pc[c] = "registered" /\ pc'[c] = "armed"
        /\ UNCHANGED <<handlers, pid, call, air, rx>> /\ pid[c] \in Ids /\ AttrOf[c] \in Attrs
        /\ \A d \in Callers : Owns(d)' <=> Owns(d)
    BY <1>0, <1>3 DEF Activate, Goto, TypeOK, Owns
  <2>1. /\ active' = [active EXCEPT ![AttrOf[c]] = @ \cup {pid[c]}]
        /\ retired' = retired
    <3>1. ActivateWait(c, AttrOf[c], pid[c]) /\ pid[c] \notin retired[AttrOf[c]]
        BY <1>3, <2>0 DEF Activate, Ownership, OwnersNotRetired, Owns
    <3> QED BY <1>0, <3>1 DEF ActivateWait, TypeOK
  <2>2. OwnersDiffer' /\ OwnersNotRetired' /\ OutsideCommands'
    BY <2>0, <2>1 DEF Ownership, OwnersDiffer, OwnersNotRetired, OutsideCommands
  <2>3. HandlerReserves'
    BY <2>0 DEF Ownership, HandlerReserves, Request
  <2>4. ScopesAreWaits'
    <3> SUFFICES ASSUME NEW a \in Attrs
                 PROVE  active'[a] = {pid[d] : d \in {e \in Callers : InWait(e)' /\ AttrOf[e] = a}}
        BY <2>0 DEF ScopesAreWaits
    <3>1. active[a] = {pid[d] : d \in {e \in Callers : InWait(e) /\ AttrOf[e] = a}}
        BY DEF Ownership, ScopesAreWaits
    <3>2. \A d \in Callers : InWait(d)' <=> InWait(d) \/ d = c
        BY <1>0, <2>0 DEF InWait, HasWait
    <3>3. active'[a] = IF a = AttrOf[c] THEN active[a] \cup {pid[c]} ELSE active[a]
        BY <1>0, <2>0, <2>1 DEF TypeOK
    <3> QED BY <3>1, <3>2, <3>3
  <2>5. RepliesAttributed'
    <3>1. ASSUME NEW m, Attributed(m) PROVE Attributed(m)'
        BY <2>0, <2>1, <3>1 DEF Attributed, Request, OnAir
    <3> QED BY <2>0, <3>1 DEF Ownership, RepliesAttributed
  <2> QED BY <1>0, <2>2, <2>3, <2>4, <2>5 DEF Ownership
<1>4. ASSUME NEW c \in Callers, Transmit(c) PROVE Ownership'
  <2>0. /\ \A d \in Callers : d # c => pc'[d] = pc[d]
        /\ pc[c] = "armed" /\ pc'[c] = "onAir"
        /\ UNCHANGED <<handlers, active, retired, pid, call, rx>>
        /\ \A d \in Callers : (Owns(d)' <=> Owns(d)) /\ (InWait(d)' <=> InWait(d))
    BY <1>0, <1>4 DEF Transmit, Goto, TypeOK, Owns, InWait, stateVars
  <2>1. OwnersDiffer' /\ OwnersNotRetired' /\ OutsideCommands'
    BY <2>0 DEF Ownership, OwnersDiffer, OwnersNotRetired, OutsideCommands
  <2>2. HandlerReserves'
    BY <2>0 DEF Ownership, HandlerReserves, Request
  <2>3. ScopesAreWaits'
    BY <2>0 DEF Ownership, ScopesAreWaits
  <2>4. RepliesAttributed'
    <3>1. ASSUME NEW m, Attributed(m) PROVE Attributed(m)'
        BY <2>0, <3>1 DEF Attributed, Request, OnAir
    <3>2. \A m \in air' : m \in air \/ (m.req = Request(c) /\ m.id = pid[c])
        BY <1>4 DEF Transmit
    <3>3. \A m : m.req = Request(c) /\ m.id = pid[c] => Attributed(m)'
        BY <2>0 DEF Attributed, Request, OnAir
    <3> QED BY <2>0, <3>1, <3>2, <3>3 DEF Ownership, RepliesAttributed
  <2> QED BY <1>0, <2>1, <2>2, <2>3, <2>4 DEF Ownership
<1>5. ASSUME NEW c \in Callers, SendFails(c) \/ Retire(c) PROVE Ownership'
    BY <1>0, <1>5, RetireOwnership DEF SendFails, Retire, After, Owns
<1>6. ASSUME NEW c \in Callers,
             SendReturns(c) \/ Poll(c) \/ TimesOut(c) \/ Conclude(c)
      PROVE  Ownership'
  <2>1. PICK p \in {"waiting", "signalled", "expired", "retiring"} : Goto(c, p)
    BY <1>0, <1>6 DEF SendReturns, Poll, TimesOut, Conclude, HasWait
  <2>2. /\ OnAir(c) /\ InWait(c)
        /\ UNCHANGED <<handlers, active, retired, pid, call, air, rx>>
    BY <1>0, <1>6 DEF SendReturns, Poll, TimesOut, Conclude, OnAir, InWait, stateVars
  <2>3. OnAir(c)' /\ InWait(c)'
    BY <1>0, <2>1 DEF Goto, OnAir, InWait, HasWait, TypeOK
  <2> QED BY <1>0, <2>1, <2>2, <2>3, CallerMoves
<1>7. ASSUME NEW c \in Callers, GetterCompletes(c) \/ CloseScope(c) \/ CleanUp(c) PROVE FALSE
    BY <1>0, <1>7 DEF GetterCompletes, CloseScope, CleanUp, Typed, HasWait, Ownership, OutsideCommands
<1>8. ASSUME NEW m \in air, Correlate(m) PROVE Ownership'
  <2>0. UNCHANGED <<pc, pid, call, active, retired>> /\ m \in Packets /\ Attributed(m)
    BY <1>0, <1>8 DEF Correlate, callerVars, TypeOK, Ownership, RepliesAttributed
  <2>1. OwnersDiffer' /\ OwnersNotRetired' /\ OutsideCommands' /\ ScopesAreWaits'
    BY <2>0 DEF Ownership, OwnersDiffer, OwnersNotRetired, OutsideCommands, ScopesAreWaits, Owns, InWait
  <2>2. ASSUME NEW d \in Callers, pc[d] = "registered" PROVE pid[d] # m.id
    BY <2>0, <2>2 DEF Attributed, OnAir, Ownership, OwnersDiffer, OwnersNotRetired, Owns
  <2>3. \A d \in Callers : pc[d] = "registered" => handlers'[pid[d]] = handlers[pid[d]]
    BY <1>0, <1>8, <2>2 DEF Correlate, TypeOK
  <2>4. HandlerReserves'
    BY <2>0, <2>3 DEF Ownership, HandlerReserves, Request
  <2>5. RepliesAttributed'
    <3>1. ASSUME NEW n, Attributed(n) PROVE Attributed(n)'
        BY <2>0, <3>1 DEF Attributed, Request, OnAir
    <3>2. air' \subseteq air /\ (rx' # NoPacket => rx'.packet = m)
        BY <1>8 DEF Correlate
    <3> QED BY <2>0, <3>1, <3>2 DEF Ownership, RepliesAttributed
  <2> QED BY <1>0, <2>1, <2>4, <2>5 DEF Ownership
<1>9. ASSUME ReceiverStep PROVE Ownership'
  <2>0. /\ UNCHANGED <<pc, pid, call, active, retired, air>> /\ rx # NoPacket
        /\ rx' = NoPacket \/ rx'.packet = rx.packet
    BY <1>0, <1>9 DEF ReceiverStep, DecodeFailed, Invoke, RunCallback, RestOfNak, RunResponse,
       RunTrace, RunAck, RunGetter, RxGoes, RxDone, callerVars, stateVars, TypeOK
  <2>1. rx.packet.id \in Ids /\ Attributed(rx.packet)
    BY <1>0, <2>0 DEF TypeOK, Packets, Ownership, RepliesAttributed
  <2>2. OwnersDiffer' /\ OwnersNotRetired' /\ OutsideCommands' /\ ScopesAreWaits'
    BY <2>0 DEF Ownership, OwnersDiffer, OwnersNotRetired, OutsideCommands, ScopesAreWaits, Owns, InWait
  <2>3. ASSUME NEW d \in Callers, pc[d] = "registered" PROVE pid[d] # rx.packet.id
    BY <2>1, <2>3 DEF Attributed, OnAir, Ownership, OwnersDiffer, OwnersNotRetired, Owns
  <2>4. \/ UNCHANGED handlers
        \/ \E req : handlers' = [Pruned EXCEPT ![rx.packet.id] = [req |-> req, stale |-> FALSE]]
    BY <1>9 DEF ReceiverStep, DecodeFailed, Invoke, RunCallback, RestOfNak, RunResponse,
       RunTrace, RunAck, RunGetter, Rearm, stateVars
  <2>5. ASSUME NEW d \in Callers, pc[d] = "registered"
        PROVE  handlers'[pid[d]] = [req |-> Request(d), stale |-> FALSE]
    <3>1. handlers[pid[d]] = [req |-> Request(d), stale |-> FALSE] /\ pid[d] \in Ids
        BY <1>0, <2>5 DEF Ownership, HandlerReserves, TypeOK
    <3>2. Pruned[pid[d]] = handlers[pid[d]]
        BY <3>1 DEF Pruned, IsStale
    <3> QED BY <1>0, <2>3, <2>4, <2>5, <3>1, <3>2, PrunedType
  <2>6. HandlerReserves'
    BY <2>0, <2>5 DEF HandlerReserves, Request
  <2>7. RepliesAttributed'
    <3>1. ASSUME NEW n, Attributed(n) PROVE Attributed(n)'
        BY <2>0, <3>1 DEF Attributed, Request, OnAir
    <3> QED BY <2>0, <3>1 DEF Ownership, RepliesAttributed
  <2> QED BY <1>0, <2>2, <2>6, <2>7 DEF Ownership
<1>10. ASSUME NEW i \in Ids, HandlerAges(i) PROVE Ownership'
  <2>0. UNCHANGED <<pc, pid, call, active, retired, air, rx>>
    BY <1>10 DEF HandlerAges, callerVars
  <2>1. OwnersDiffer' /\ OwnersNotRetired' /\ OutsideCommands' /\ ScopesAreWaits'
    BY <2>0 DEF Ownership, OwnersDiffer, OwnersNotRetired, OutsideCommands, ScopesAreWaits, Owns, InWait
  <2>2. ASSUME NEW d \in Callers, pc[d] = "registered" PROVE pid[d] # i
    <3> SUFFICES ASSUME pid[d] = i PROVE FALSE
        OBVIOUS
    <3>1. handlers[i] = [req |-> Request(d), stale |-> FALSE]
        BY <2>2 DEF Ownership, HandlerReserves
    <3>2. handlers[i].req.owner = d /\ Live(handlers[i].req)
        BY <3>1 DEF Request, Live
    <3> QED BY <1>10, <2>2, <3>2 DEF HandlerAges
  <2>3. HandlerReserves'
    BY <1>0, <1>10, <2>0, <2>2 DEF HandlerAges, Ownership, HandlerReserves, Request, TypeOK
  <2>4. RepliesAttributed'
    <3>1. ASSUME NEW n, Attributed(n) PROVE Attributed(n)'
        BY <2>0, <3>1 DEF Attributed, Request, OnAir
    <3> QED BY <2>0, <3>1 DEF Ownership, RepliesAttributed
  <2> QED BY <1>0, <2>1, <2>3, <2>4 DEF Ownership
<1>11. ASSUME NEW i \in Ids, NEW a \in Attrs, QuarantineEnds(a, i) PROVE Ownership'
  <2>0. /\ UNCHANGED <<handlers, pc, pid, call, active, air, rx>>
        /\ \A b \in Attrs : retired'[b] = IF b = a THEN retired[b] \ {i} ELSE retired[b]
    BY <1>0, <1>11 DEF QuarantineEnds, callerVars, TypeOK
  <2>1. OwnersDiffer' /\ OutsideCommands' /\ ScopesAreWaits' /\ HandlerReserves'
    BY <2>0 DEF Ownership, OwnersDiffer, OutsideCommands, ScopesAreWaits,
       HandlerReserves, Owns, InWait, Request
  <2>4. OwnersNotRetired'
    BY <2>0 DEF Ownership, OwnersNotRetired, Owns
  <2>2. ASSUME NEW m, Attributed(m), m.id # i PROVE Attributed(m)'
    BY <2>0, <2>2 DEF Attributed, Request, OnAir
  <2>3. RepliesAttributed'
    BY <1>11, <2>0, <2>2 DEF Ownership, RepliesAttributed, QuarantineEnds
  <2> QED BY <1>0, <2>1, <2>3, <2>4 DEF Ownership
<1>12. CASE UNCHANGED vars
  <2>1. ASSUME NEW m, Attributed(m) PROVE Attributed(m)'
    BY <1>12, <2>1 DEF Attributed, Request, OnAir, vars, stateVars, callerVars
  <2> QED
    BY <1>0, <1>12, <2>1 DEF Ownership, OwnersDiffer, OwnersNotRetired, OutsideCommands,
       ScopesAreWaits, HandlerReserves, RepliesAttributed, Owns, InWait, Request, vars, stateVars, callerVars
<1> QED
    BY <1>1, <1>2, <1>3, <1>4, <1>5, <1>6, <1>7, <1>8, <1>9, <1>10, <1>11, <1>12 DEF Next, CallerStep

LEMMA OwnershipInit == Init => Ownership
<1> SUFFICES ASSUME Init PROVE Ownership
    OBVIOUS
<1>1. \A c \in Callers : pc[c] = "idle"
    BY DEF Init
<1>2. ScopesAreWaits
    BY <1>1 DEF Init, ScopesAreWaits, InWait
<1> QED
    BY <1>1, <1>2, TypeInit DEF Init, Ownership, OwnersDiffer, HandlerReserves, RepliesAttributed,
       OwnersNotRetired, OutsideCommands, Owns

\* An outcome is filed under the id of the packet in hand, by the receive thread only.
LEMMA RecordedForThePacket ==
    ASSUME ScopedOnly, TypeInv, [Next]_vars, NEW a \in Attrs, NEW i \in Ids,
           Key(a, i) \in (acks' \cup errors') \ (acks \cup errors)
    PROVE  rx # NoPacket /\ rx.packet.id = i
<1>1. \A b \in Attrs, j \in Ids \cup {Unscoped} : Key(a, i) \in Slots(b, j) => i = j \/ i = Unscoped
    BY DEF Slots, Key
<1>2. i # Unscoped
    BY IdAssumption
<1>3. CASE ReceiverStep
  <2>1. rx # NoPacket
    BY <1>3 DEF ReceiverStep, DecodeFailed, Invoke, RunCallback, RestOfNak
  <2>2. rx.packet.id \in Ids /\ AttrOf[rx.req.owner] \in Attrs /\ Nak \in Attrs /\ rx.req.owner \in Callers
    BY <2>1, AttrAssumption DEF TypeInv, TypeOK, Packets, Requests
  <2>3. CASE DecodeFailed
    BY <1>1, <1>2, <2>1, <2>2, <2>3 DEF DecodeFailed, Key
  <2>4. CASE RunCallback
    <3> DEFINE b == AttrOf[rx.req.owner]
               j == rx.packet.id
    <3>1. (acks' \cup errors') \ (acks \cup errors)
            \subseteq Slots(b, j) \cup Slots(b, Unscoped) \cup {Key(Nak, j)}
        BY <2>4 DEF RunCallback, RunResponse, RunTrace, RunAck, RunGetter, MarkAcknowledged, SetWaitError
    <3> QED BY <1>1, <1>2, <2>1, <2>2, <3>1 DEF Key
  <2>5. CASE RestOfNak
    BY <1>1, <1>2, <2>1, <2>2, <2>5 DEF RestOfNak, SetWaitError
  <2>6. CASE Invoke
    BY <2>6 DEF Invoke, stateVars
  <2> QED BY <1>3, <2>3, <2>4, <2>5, <2>6 DEF ReceiverStep
<1>4. CASE acks' \subseteq acks /\ errors' \subseteq errors
    BY <1>4
<1> QED
    BY ZenonT(40), <1>3, <1>4 DEF Next, CallerStep, Choose, Register, Activate, ActivateWait, Transmit, SendFails,
       RetireWait, SendReturns, Poll, GetterCompletes, TimesOut, Conclude, Retire, CloseScope, CleanUp,
       Correlate, HandlerAges, QuarantineEnds, stateVars, vars

LEMMA RecordedFromOwnReply ==
    ASSUME ScopedOnly, Ownership, [Next]_vars, NEW c \in Callers, InWait(c),
           Key(AttrOf[c], pid[c]) \in (acks' \cup errors') \ (acks \cup errors)
    PROVE  rx.packet.req = Request(c)
<1>1. pid[c] \in Ids /\ AttrOf[c] \in Attrs /\ Owns(c)
    BY AttrAssumption DEF Ownership, TypeInv, TypeOK, InWait, Owns
<1>2. rx # NoPacket /\ rx.packet.id = pid[c]
    BY <1>1, RecordedForThePacket DEF Ownership
<1>3. \A a \in Attrs : rx.packet.id \notin retired[a]
    BY <1>1, <1>2 DEF Ownership, OwnersNotRetired
<1>4. PICK d \in Callers : rx.packet.req = Request(d) /\ rx.packet.id = pid[d] /\ OnAir(d)
    BY <1>2, <1>3 DEF Ownership, RepliesAttributed, Attributed
<1>5. d = c
    BY <1>1, <1>2, <1>4 DEF Ownership, OwnersDiffer, Owns, OnAir
<1> QED BY <1>4, <1>5

\* Requests with scoped waits own distinct packet ids, whatever the interleaving
\* of the unlocked id selection with replies, retirements and other callers.
THEOREM OwnersStayDistinct == ScopedOnly => (Spec => []OneOwnerPerId)
<1> SUFFICES ASSUME ScopedOnly PROVE Spec => []OneOwnerPerId
    OBVIOUS
<1>1. Ownership /\ [Next]_vars => Ownership'
    BY OwnershipStep
<1>2. Ownership => OneOwnerPerId
    BY DEF Ownership, OwnersDiffer, OneOwnerPerId
<1> QED BY <1>1, <1>2, OwnershipInit, PTL DEF Spec

\* The wait scopes are exactly the waits in progress.
THEOREM ScopesStayWaits == ScopedOnly => (Spec => []ScopesAreWaits)
<1> SUFFICES ASSUME ScopedOnly PROVE Spec => []ScopesAreWaits
    OBVIOUS
<1>1. Ownership /\ [Next]_vars => Ownership'
    BY OwnershipStep
<1>2. Ownership => ScopesAreWaits
    BY DEF Ownership
<1> QED BY <1>1, <1>2, OwnershipInit, PTL DEF Spec

\* What is recorded for a wait came from a reply to that very request, although
\* replies are duplicated and delayed and packet ids are used again.
THEOREM NoCrossTalk == ScopedOnly => (Spec => OutcomesComeFromOwnReply)
<1> SUFFICES ASSUME ScopedOnly PROVE Spec => OutcomesComeFromOwnReply
    OBVIOUS
<1> DEFINE Own == \A c \in Callers :
                     (AttrOf[c] = Nak => \A d \in Callers : ~Typed(d)) /\ InWait(c)
                       /\ Key(AttrOf[c], pid[c]) \in (acks' \cup errors') \ (acks \cup errors)
                        => rx.packet.req = Request(c)
<1>1. Ownership /\ [Next]_vars => Ownership'
    BY OwnershipStep
<1>2. Ownership /\ [Next]_vars => [Own]_vars
    BY RecordedFromOwnReply
<1> QED BY <1>1, <1>2, OwnershipInit, PTL DEF Spec, OutcomesComeFromOwnReply

----------------------------------------------------------------------------
(* Replies to scoped requests never reach the legacy unscoped state.        *)

\* While a reply with id i may still be delivered, the resolution of an outcome
\* knows the id: it is an active scope of the attribute, or a quarantined one.
Known(c, i) == i \in active[AttrOf[c]] \cup retired[AttrOf[c]]
InTransit(i) == (\E m \in air : m.id = i) \/ (rx # NoPacket /\ rx.packet.id = i)

\* A handler whose id is not known is not yet activated, or nothing can reach
\* it: a traceroute re-armed it late, and its id left the quarantine since.
HandlersKnown ==
    \A i \in Ids : handlers[i] # NoHandler =>
        LET c == handlers[i].req.owner
        IN  \/ Known(c, i)
            \/ pc[c] = "registered" /\ pid[c] = i
            \/ ~InTransit(i) /\ \A d \in Callers : Owns(d) => pid[d] # i

ReplyKnown ==
    rx # NoPacket => Known(rx.req.owner, rx.packet.id) /\ rx.stage # "decodeFailed"

Scoping == Ownership /\ HandlersKnown /\ ReplyKnown

\* A handler that a reply in transit can reach belongs to a known id: until its
\* wait is active, no reply carries the id of a request.
LEMMA ReachableIsKnown ==
    ASSUME Scoping, NEW i \in Ids, handlers[i] # NoHandler, InTransit(i)
    PROVE  Known(handlers[i].req.owner, i)
<1> DEFINE c == handlers[i].req.owner
<1> SUFFICES ASSUME pc[c] = "registered", pid[c] = i PROVE FALSE
    BY DEF Scoping, HandlersKnown
<1>1. c \in Callers /\ Owns(c) /\ ~OnAir(c)
    BY DEF Scoping, Ownership, TypeInv, TypeOK, Handlers, Requests, Owns, OnAir
<1>2. PICK m : m.id = i /\ Attributed(m)
    BY DEF InTransit, Scoping, Ownership, RepliesAttributed
<1>3. PICK d \in Callers : pid[d] = i /\ OnAir(d)
    BY <1>1, <1>2 DEF Attributed, Scoping, Ownership, OwnersNotRetired
<1> QED BY <1>1, <1>3 DEF Scoping, Ownership, OwnersDiffer, Owns, OnAir

\* Where a registered handler came from: it stood there, its request has just
\* registered it, or the traceroute callback has re-armed it.
LEMMA HandlerOrigin ==
    ASSUME TypeInv, [Next]_vars, NEW i \in Ids, handlers'[i] # NoHandler
    PROVE  \/ handlers[i] # NoHandler /\ handlers'[i].req = handlers[i].req
           \/ \E c \in Callers : /\ Register(c) /\ i = pid[c] /\ i \notin Reserved(Pruned)
                                 /\ handlers'[i] = [req |-> Request(c), stale |-> FALSE]
           \/ /\ RunCallback /\ i = rx.packet.id /\ ~ScopeClosed(rx.req)
              /\ handlers'[i] = [req |-> rx.req, stale |-> FALSE]
<1> DEFINE Kept == handlers[i] # NoHandler /\ handlers'[i].req = handlers[i].req
<1>0. TypeOK /\ handlers \in [Ids -> Handlers \cup {NoHandler}]
    BY DEF TypeInv, TypeOK
<1>1. ASSUME NEW c \in Callers, Register(c)
      PROVE  Kept \/ (/\ i = pid[c] /\ i \notin Reserved(Pruned)
                      /\ handlers'[i] = [req |-> Request(c), stale |-> FALSE])
  <2>1. Pruned[i] # NoHandler => Pruned[i] = handlers[i]
    BY DEF Pruned
  <2>2. Pruned \in [Ids -> Handlers \cup {NoHandler}]
    BY <1>0, PrunedType
  <2> QED BY <1>1, <2>1, <2>2 DEF Register
<1>2. ASSUME NEW c \in Callers, SendFails(c) \/ Retire(c) \/ CleanUp(c) PROVE Kept
    BY <1>0, <1>2 DEF SendFails, Retire, CleanUp, RetireWait
<1>3. ASSUME NEW m \in air, Correlate(m) PROVE Kept
    BY <1>0, <1>3 DEF Correlate
<1>4. ASSUME RunCallback
      PROVE  Kept \/ (/\ i = rx.packet.id /\ ~ScopeClosed(rx.req)
                      /\ handlers'[i] = [req |-> rx.req, stale |-> FALSE])
  <2>1. Pruned[i] # NoHandler => Pruned[i] = handlers[i]
    BY DEF Pruned
  <2>2. Pruned \in [Ids -> Handlers \cup {NoHandler}]
    BY <1>0, PrunedType
  <2>3. CASE handlers' = handlers
    BY <2>3
  <2>4. CASE Rearm(rx.req, rx.packet.id)
    BY <2>1, <2>2, <2>4 DEF Rearm
  <2> QED BY <1>4, <2>3, <2>4 DEF RunCallback, RunResponse, RunTrace, RunAck, RunGetter
<1>5. ASSUME NEW j \in Ids, HandlerAges(j) PROVE Kept
    BY <1>0, <1>5 DEF HandlerAges, Handlers
<1>6. CASE handlers' = handlers
    BY <1>6
<1> QED
    BY <1>1, <1>2, <1>3, <1>4, <1>5, <1>6 DEF Next, CallerStep, ReceiverStep, Choose, Activate, Transmit,
       SendReturns, Poll, GetterCompletes, TimesOut, Conclude, CloseScope, DecodeFailed, Invoke,
       RestOfNak, QuarantineEnds, stateVars, vars

\* A known id stays known until its quarantine ends.
LEMMA KnownPersists ==
    ASSUME TypeInv, [Next]_vars, NEW c \in Callers, NEW i \in Ids, Known(c, i),
           \A a \in Attrs : ~QuarantineEnds(a, i)
    PROVE  Known(c, i)'
<1> USE AttrAssumption
<1>0. /\ active \in [Attrs -> SUBSET Ids] /\ retired \in [Attrs -> SUBSET Ids]
      /\ pid \in [Callers -> Ids]
    BY DEF TypeInv, TypeOK
<1>1. ASSUME NEW d \in Callers, ActivateWait(d, AttrOf[d], pid[d]) \/ RetireWait(d, AttrOf[d], pid[d])
      PROVE  Known(c, i)'
    BY <1>0, <1>1 DEF ActivateWait, RetireWait, Known
<1>2. ASSUME NEW j \in Ids, NEW a \in Attrs, QuarantineEnds(a, j) PROVE Known(c, i)'
    BY <1>0, <1>2 DEF QuarantineEnds, Known
<1>3. CASE UNCHANGED <<active, retired>>
    BY <1>3 DEF Known
<1> QED
    BY <1>1, <1>2, <1>3 DEF Next, CallerStep, ReceiverStep, Choose, Register, Activate, Transmit,
       SendFails, SendReturns, Poll, GetterCompletes, TimesOut, Conclude, Retire, CloseScope, CleanUp,
       Correlate, DecodeFailed, Invoke, RunCallback, RestOfNak, HandlerAges, stateVars, vars

\* Only a transmission puts a packet id in transit.
LEMMA TransitOrigin ==
    ASSUME TypeInv, [Next]_vars, NEW i \in Ids, InTransit(i)'
    PROVE  InTransit(i) \/ \E c \in Callers : Transmit(c) /\ pid[c] = i
<1>1. ASSUME NEW c \in Callers, Transmit(c) PROVE InTransit(i) \/ pid[c] = i
    BY <1>1 DEF Transmit, InTransit
<1>2. ASSUME NEW m \in air, Correlate(m) PROVE InTransit(i)
    BY <1>2 DEF Correlate, InTransit
<1>3. CASE ReceiverStep
  <2>1. air' = air /\ rx # NoPacket /\ (rx' = NoPacket \/ rx'.packet = rx.packet)
    BY <1>3 DEF ReceiverStep, DecodeFailed, Invoke, RunCallback, RestOfNak, RunResponse,
       RunTrace, RunAck, RunGetter, RxGoes, RxDone, TypeInv, TypeOK
  <2> QED BY <2>1 DEF InTransit
<1>4. CASE UNCHANGED <<air, rx>>
    BY <1>4 DEF InTransit
<1> QED
    BY <1>1, <1>2, <1>3, <1>4 DEF Next, CallerStep, Choose, Register, Activate,
       SendFails, SendReturns, Poll, GetterCompletes, TimesOut, Conclude, Retire, CloseScope, CleanUp,
       HandlerAges, QuarantineEnds, vars

\* A request comes to own its id by its registration, while the id is free.
LEMMA OwnerOrigin ==
    ASSUME TypeInv, [Next]_vars, NEW c \in Callers, HasWait(c), Owns(c)'
    PROVE  \/ Owns(c) /\ pid'[c] = pid[c]
           \/ Register(c) /\ pid'[c] = pid[c] /\ pid[c] \notin Reserved(Pruned)
<1>0. pc \in [Callers -> Places] /\ pid \in [Callers -> Ids]
    BY DEF TypeInv, TypeOK
<1>1. ASSUME NEW d \in Callers, d # c, CallerStep(d) \/ \E i \in Ids : Choose(d, i)
      PROVE  pc'[c] = pc[c] /\ pid'[c] = pid[c]
    BY <1>0, <1>1 DEF CallerStep, Choose, Register, Activate, Transmit, SendFails, SendReturns, Poll,
       GetterCompletes, TimesOut, Conclude, Retire, CloseScope, CleanUp, Goto
<1>2. ASSUME NEW i \in Ids, Choose(c, i) PROVE FALSE
    BY <1>0, <1>2 DEF Choose, Goto, Owns
<1>3. CASE Register(c)
    BY <1>0, <1>3 DEF Register, Goto, Owns
<1>4. CASE CallerStep(c) /\ ~Register(c)
  <2>1. pid'[c] = pid[c] /\ \E p : Goto(c, p)
    BY <1>4 DEF CallerStep, Activate, Transmit, SendFails, SendReturns, Poll,
       GetterCompletes, TimesOut, Conclude, Retire, CloseScope, CleanUp
  <2>2. pc[c] \in {"registered", "armed", "onAir", "waiting", "signalled", "expired", "retiring",
                   "closing", "cleanup"}
    BY <1>4 DEF CallerStep, Activate, Transmit, SendFails, SendReturns, Poll,
       GetterCompletes, TimesOut, Conclude, Retire, CloseScope, CleanUp
  <2>3. pc[c] \in {"closing", "cleanup"} => pc'[c] \in {"cleanup", "idle"}
    BY <1>0, <1>4 DEF CallerStep, Activate, Transmit, SendFails, SendReturns, Poll,
       GetterCompletes, TimesOut, Conclude, Retire, CloseScope, CleanUp, Goto
  <2> QED BY <2>1, <2>2, <2>3 DEF Owns
<1>5. CASE UNCHANGED <<pc, pid>>
    BY <1>5 DEF Owns
<1>6. \/ \E d \in Callers : CallerStep(d) \/ \E i \in Ids : Choose(d, i)
      \/ UNCHANGED <<pc, pid>>
    BY DEF Next, ReceiverStep, Correlate, DecodeFailed, Invoke, RunCallback,
       RestOfNak, HandlerAges, QuarantineEnds, callerVars, vars
<1> QED BY <1>1, <1>2, <1>3, <1>4, <1>5, <1>6 DEF Owns

LEMMA ScopingStep == ScopedOnly /\ Scoping /\ [Next]_vars => Scoping'
<1> SUFFICES ASSUME ScopedOnly, Scoping, [Next]_vars PROVE Scoping'
    OBVIOUS
<1>0. /\ TypeInv /\ TypeOK /\ Ownership /\ Ownership'
      /\ \A c \in Callers : HasWait(c) /\ ~Typed(c) /\ ~AckPermitted(c)
    BY OwnershipStep DEF Scoping, Ownership, TypeInv, ScopedOnly, HasWait, Typed, AckPermitted
<1>1. ASSUME NEW i \in Ids, NEW a \in Attrs, QuarantineEnds(a, i)
      PROVE  ~InTransit(i)' /\ \A d \in Callers : ~(Owns(d)' /\ pid'[d] = i)
  <2>1. UNCHANGED <<pc, pid, air, rx>>
    BY <1>1 DEF QuarantineEnds, callerVars
  <2>2. ~InTransit(i) /\ \A d \in Callers : Owns(d) => pid[d] # i
    BY <1>0, <1>1 DEF QuarantineEnds, InTransit, Ownership, OwnersNotRetired
  <2> QED BY <2>1, <2>2 DEF InTransit, Owns
<1>2. HandlersKnown'
  <2> SUFFICES ASSUME NEW i \in Ids, handlers'[i] # NoHandler,
                      InTransit(i)' \/ \E d \in Callers : Owns(d)' /\ pid'[d] = i,
                      NEW c \in Callers, handlers'[i].req.owner = c
               PROVE  Known(c, i)' \/ (pc'[c] = "registered" /\ pid'[c] = i)
    <3>1. \A i \in Ids : handlers'[i] # NoHandler => handlers'[i].req.owner \in Callers
      BY <1>0 DEF Ownership, TypeInv, TypeOK, Handlers, Requests
    <3> QED BY <3>1 DEF HandlersKnown, Known
  <2>1. \A a \in Attrs : ~QuarantineEnds(a, i)
    BY <1>1
  <2>3. Known(c, i) => Known(c, i)'
    BY <1>0, <2>1, KnownPersists
  <2>4. ASSUME NEW d \in Callers, Register(d), i = pid[d], i \notin Reserved(Pruned)
        PROVE  c = d /\ pc'[d] = "registered" /\ pid'[d] = i
    <3>1. handlers'[i] = [req |-> Request(d), stale |-> FALSE]
        BY <1>0, <2>4, PrunedType DEF Register
    <3> QED BY <1>0, <2>4, <3>1 DEF Register, Goto, Request, TypeOK
  <2>5. CASE handlers[i] # NoHandler /\ handlers'[i].req = handlers[i].req
    <3>1. CASE Known(c, i)
        BY <2>3, <3>1
    <3>2. CASE pc[c] = "registered" /\ pid[c] = i
      <4>2. CASE Activate(c)
        BY <1>0, <3>2, <4>2, AttrAssumption DEF Activate, ActivateWait, Known, TypeOK
      <4>3. CASE ~Activate(c)
        <5>1. ASSUME NEW d \in Callers, CallerStep(d) \/ \E j \in Ids : Choose(d, j)
              PROVE  pc'[c] = pc[c] /\ pid'[c] = pid[c]
          <6>1. d # c
            BY <3>2, <4>3, <5>1 DEF CallerStep, Choose, Register, Transmit, SendFails, SendReturns,
               Poll, GetterCompletes, TimesOut, Conclude, Retire, CloseScope, CleanUp
          <6> QED
            BY <1>0, <5>1, <6>1 DEF CallerStep, Choose, Register, Activate, Transmit, SendFails, SendReturns,
               Poll, GetterCompletes, TimesOut, Conclude, Retire, CloseScope, CleanUp, Goto, TypeOK
        <5>2. \/ \E d \in Callers : CallerStep(d) \/ \E j \in Ids : Choose(d, j)
              \/ UNCHANGED <<pc, pid>>
          BY DEF Next, ReceiverStep, Correlate, DecodeFailed, Invoke, RunCallback, RestOfNak,
             HandlerAges, QuarantineEnds, callerVars, vars
        <5> QED BY <3>2, <5>1, <5>2
      <4> QED BY <4>2, <4>3
    <3>3. CASE ~InTransit(i) /\ \A d \in Callers : Owns(d) => pid[d] # i
      <4>1. ASSUME NEW d \in Callers, Transmit(d), pid[d] = i PROVE FALSE
        BY <3>3, <4>1 DEF Transmit, Owns
      <4>2. ~InTransit(i)'
        BY <1>0, <3>3, <4>1, TransitOrigin
      <4>3. PICK d \in Callers : Owns(d)' /\ pid'[d] = i
        BY <4>2
      <4>4. Register(d) /\ pid[d] = i /\ i \notin Reserved(Pruned)
        BY <1>0, <3>3, <4>3, OwnerOrigin
      <4> QED BY <2>4, <4>4
    <3> QED BY <2>5, <3>1, <3>2, <3>3 DEF Scoping, HandlersKnown
  <2>6. CASE \E d \in Callers : Register(d) /\ i = pid[d] /\ i \notin Reserved(Pruned)
    BY <2>4, <2>6
  <2>7. CASE RunCallback /\ i = rx.packet.id /\ handlers'[i] = [req |-> rx.req, stale |-> FALSE]
    BY <2>3, <2>7 DEF Scoping, ReplyKnown, RunCallback
  <2> QED BY <1>0, <2>5, <2>6, <2>7, HandlerOrigin
<1>3. ReplyKnown'
  <2> SUFFICES ASSUME rx' # NoPacket,
                      NEW i \in Ids, rx'.packet.id = i, NEW c \in Callers, rx'.req.owner = c
               PROVE  Known(c, i)' /\ rx'.stage # "decodeFailed"
    <3>1. rx' # NoPacket => rx'.packet.id \in Ids /\ rx'.req.owner \in Callers
      BY <1>0 DEF Ownership, TypeInv, TypeOK, Packets, Requests
    <3> QED BY <3>1 DEF ReplyKnown, Known
  <2>1. InTransit(i)'
    BY DEF InTransit
  <2>2. \A a \in Attrs : ~QuarantineEnds(a, i)
    BY <1>1, <2>1
  <2>3. Known(c, i) => Known(c, i)'
    BY <1>0, <2>2, KnownPersists
  <2>4. CASE \E m \in air : Correlate(m)
    <3>1. PICK m \in air : Correlate(m)
        BY <2>4
    <3>2. /\ handlers[m.id] # NoHandler /\ rx'.packet = m /\ rx'.req = handlers[m.id].req
          /\ rx'.stage = IF Drops(handlers[m.id], m.kind) THEN "decodeFailed" ELSE "invoke"
        BY <3>1 DEF Correlate
    <3>3. m.id \in Ids /\ InTransit(m.id)
        BY <1>0 DEF TypeOK, Packets, InTransit
    <3>4. ~Drops(handlers[m.id], m.kind)
        BY <1>0, <3>2, <3>3 DEF Drops, TypeOK, Handlers, Requests
    <3> QED BY <2>3, <3>2, <3>3, <3>4, ReachableIsKnown
  <2>5. CASE ReceiverStep
    <3>1. rx # NoPacket /\ rx'.packet = rx.packet /\ rx'.req = rx.req /\ rx'.stage # "decodeFailed"
        BY <1>0, <2>5 DEF ReceiverStep, DecodeFailed, Invoke, RunCallback, RestOfNak, RunResponse,
           RunTrace, RunAck, RunGetter, RxGoes, RxDone, TypeOK
    <3> QED BY <2>3, <3>1 DEF Scoping, ReplyKnown
  <2>6. CASE rx' = rx
    BY <2>3, <2>6 DEF Scoping, ReplyKnown
  <2> QED
    BY <2>4, <2>5, <2>6 DEF Next, CallerStep, Choose, Register, Activate, Transmit, SendFails, SendReturns,
       Poll, GetterCompletes, TimesOut, Conclude, Retire, CloseScope, CleanUp, HandlerAges,
       QuarantineEnds, vars
<1> QED BY <1>0, <1>2, <1>3 DEF Scoping

LEMMA ScopingInit == Init => Scoping
    BY OwnershipInit DEF Init, Scoping, HandlersKnown, ReplyKnown

\* An outcome of a known id is recorded under the id or not at all.
LEMMA KnownMissesUnscoped ==
    ASSUME NEW c \in Callers, NEW i \in Ids, Known(c, i), NEW a \in Attrs
    PROVE  Key(a, Unscoped) \notin Slots(AttrOf[c], i) /\ Latch(AttrOf[c], i) = {}
    BY IdAssumption DEF Known, Slots, Latch, Key

LEMMA UnscopedStep ==
    ScopedOnly /\ Scoping /\ UnscopedUntouched /\ [Next]_vars => UnscopedUntouched'
<1> SUFFICES ASSUME ScopedOnly, Scoping, UnscopedUntouched, [Next]_vars,
                    NEW a \in Attrs, \A c \in Callers : Kind[c] = "ack" => a \notin {AttrOf[c], Nak}
             PROVE  Key(a, Unscoped) \notin acks' \cup errors' /\ a \notin latched'
    BY DEF UnscopedUntouched
<1>0. /\ TypeOK /\ \A c \in Callers : HasWait(c) /\ ~Typed(c)
      /\ Key(a, Unscoped) \notin acks \cup errors /\ a \notin latched
    BY DEF Scoping, Ownership, TypeInv, ScopedOnly, HasWait, Typed, UnscopedUntouched
<1>1. CASE ReceiverStep
  <2> DEFINE c == rx.req.owner
             i == rx.packet.id
  <2>1. rx # NoPacket /\ c \in Callers /\ i \in Ids
    BY <1>0, <1>1 DEF ReceiverStep, DecodeFailed, Invoke, RunCallback, RestOfNak, TypeOK, Packets, Requests
  <2>2. Key(a, Unscoped) \notin Slots(AttrOf[c], i) /\ Latch(AttrOf[c], i) = {}
    BY <2>1, KnownMissesUnscoped DEF Scoping, ReplyKnown
  <2>3. ~DecodeFailed
    BY <2>1 DEF DecodeFailed, Scoping, ReplyKnown
  <2>4. CASE RunAck(AttrOf[c], i, rx.packet.kind) /\ Kind[c] = "ack"
    <3>1. Key(a, Unscoped) \notin Slots(AttrOf[c], Unscoped) /\ a # Nak
        BY <2>1, <2>4 DEF Slots, Key
    <3> QED BY <1>0, <2>2, <2>4, <3>1 DEF RunAck, MarkAcknowledged
  <2>5. CASE RunCallback /\ Kind[c] # "ack"
    BY <1>0, <2>1, <2>2, <2>5 DEF RunCallback, RunResponse, RunTrace, MarkAcknowledged, SetWaitError, HasWait
  <2>6. CASE RestOfNak
    BY <1>0, <2>2, <2>6 DEF RestOfNak, SetWaitError
  <2>7. CASE Invoke
    BY <1>0, <2>7 DEF Invoke, stateVars
  <2> QED BY <1>1, <2>3, <2>4, <2>5, <2>6, <2>7 DEF ReceiverStep, RunCallback
<1>2. CASE acks' \subseteq acks /\ errors' \subseteq errors /\ latched' = latched
    BY <1>0, <1>2
<1> QED
    BY ZenonT(40), <1>1, <1>2 DEF Next, CallerStep, Choose, Register, Activate, ActivateWait, Transmit,
       SendFails, RetireWait, SendReturns, Poll, GetterCompletes, TimesOut, Conclude, Retire, CloseScope,
       CleanUp, Correlate, HandlerAges, QuarantineEnds, stateVars, callerVars, vars

\* No reply to a request with a scoped wait is ever filed under the legacy
\* unscoped key, nor sets the legacy flag, however late its callback runs: while
\* a reply may arrive, its id is an active scope or in quarantine.
THEOREM UnscopedStaysUntouched == ScopedOnly => (Spec => []UnscopedUntouched)
<1> SUFFICES ASSUME ScopedOnly PROVE Spec => []UnscopedUntouched
    OBVIOUS
<1>1. Init => Scoping /\ UnscopedUntouched
    BY ScopingInit DEF Init, UnscopedUntouched
<1>2. Scoping /\ UnscopedUntouched /\ [Next]_vars => (Scoping /\ UnscopedUntouched)'
    BY ScopingStep, UnscopedStep
<1> QED BY <1>1, <1>2, PTL DEF Spec

----------------------------------------------------------------------------
(* A command leaves no response handler behind, whatever its callers issue.  *)

\* Every handler of a command belongs to its request in progress ...
Handled(c) ==
    \A i \in Ids : handlers[i] # NoHandler /\ handlers[i].req.owner = c =>
        Live(handlers[i].req) /\ i = pid[c] /\ pc[c] \notin {"idle", "chosen"}

\* ... and so does a reply in hand that could still re-arm one: its scope is open.
Delivered(c) ==
    rx # NoPacket /\ rx.req.owner = c =>
        /\ rx.req.call <= call[c]
        /\ Live(rx.req) /\ ~closed[c] =>
               rx.packet.id = pid[c] /\ pc[c] \notin {"idle", "chosen", "cleanup"}

\* The scope is closed before what it owns is retired.
ClosedFirst(c) == pc[c] = "cleanup" => closed[c]

CommandInv == \A c \in InCommand : Handled(c) /\ Delivered(c) /\ ClosedFirst(c)

LEMMA CommandStep == TypeInv /\ CommandInv /\ [Next]_vars => CommandInv'
<1> SUFFICES ASSUME TypeInv, CommandInv, [Next]_vars, NEW c \in InCommand
             PROVE  Handled(c)' /\ Delivered(c)' /\ ClosedFirst(c)'
    BY DEF CommandInv
<1>0. /\ TypeOK /\ c \in Callers /\ Handled(c) /\ Delivered(c) /\ ClosedFirst(c)
      /\ call[c] \in Nat /\ pid[c] \in Ids
    BY CommandAssumption, BoundAssumption DEF TypeInv, TypeOK, CommandInv
<1> USE DEF Live, Request
<1>1. ASSUME NEW j \in Ids, Choose(c, j) PROVE Handled(c)' /\ Delivered(c)' /\ ClosedFirst(c)'
  <2>1. /\ pc[c] = "idle" /\ pc'[c] = "chosen" /\ call'[c] = call[c] + 1
        /\ UNCHANGED <<handlers, rx>>
    BY <1>0, <1>1 DEF Choose, Goto, TypeOK, stateVars
  <2>2. rx # NoPacket /\ rx.req.owner = c => rx.req.call \in Nat
    BY <1>0, BoundAssumption DEF TypeOK, Requests
  <2> QED BY <1>0, <2>1, <2>2 DEF Handled, Delivered, ClosedFirst
<1>2. ASSUME CallerStep(c) PROVE Handled(c)' /\ Delivered(c)' /\ ClosedFirst(c)'
  <2>1. pid' = pid /\ call' = call /\ rx' = rx
    BY <1>2 DEF CallerStep, Register, Activate, Transmit, SendFails, SendReturns, Poll,
       GetterCompletes, TimesOut, Conclude, Retire, CloseScope, CleanUp
  <2>2. \A i \in Ids : handlers'[i] # NoHandler =>
           \/ handlers[i] # NoHandler /\ handlers'[i].req = handlers[i].req
           \/ /\ pc[c] = "chosen" /\ i = pid[c] /\ i \notin Reserved(Pruned)
              /\ handlers'[i].req = Request(c)
    <3>1. ASSUME NEW d \in Callers, Register(d) PROVE d = c /\ pc[d] = "chosen"
      <4>1. pc'[d] # pc[d]
        BY <1>0, <3>1 DEF Register, Goto, TypeOK
      <4>2. \E p : Goto(c, p)
        BY <1>2 DEF CallerStep, Register, Activate, Transmit, SendFails, SendReturns, Poll,
           GetterCompletes, TimesOut, Conclude, Retire, CloseScope, CleanUp
      <4> QED BY <1>0, <3>1, <4>1, <4>2 DEF Goto, TypeOK, Register
    <3>2. RunCallback => pc' = pc
      BY DEF RunCallback
    <3>3. pc' # pc
      BY <1>0, <1>2 DEF CallerStep, Register, Activate, Transmit, SendFails, SendReturns, Poll,
         GetterCompletes, TimesOut, Conclude, Retire, CloseScope, CleanUp, Goto, After, TypeOK
    <3>4. ~RunCallback
      BY <3>2, <3>3
    <3> TAKE i \in Ids
    <3> HAVE handlers'[i] # NoHandler
    <3>5. \/ handlers[i] # NoHandler /\ handlers'[i].req = handlers[i].req
          \/ \E d \in Callers : /\ Register(d) /\ i = pid[d] /\ i \notin Reserved(Pruned)
                               /\ handlers'[i] = [req |-> Request(d), stale |-> FALSE]
      BY ONLY <3>4, HandlerOrigin, TypeInv, [Next]_vars, i \in Ids, handlers'[i] # NoHandler
    <3>6. \/ handlers[i] # NoHandler /\ handlers'[i].req = handlers[i].req
          \/ /\ pc[c] = "chosen" /\ i = pid[c] /\ i \notin Reserved(Pruned)
             /\ handlers'[i] = [req |-> Request(c), stale |-> FALSE]
      BY Zenon, <3>1, <3>5
    <3> QED BY <3>6
  <2>3. CASE Register(c)
    <3>1. /\ pc[c] = "chosen" /\ closed' = closed
          /\ pc'[c] = IF pid[c] \in Reserved(Pruned) THEN "idle" ELSE IF HasWait(c) THEN "registered" ELSE "armed"
        BY <1>0, <2>3 DEF Register, Goto, TypeOK
    <3> QED BY <1>0, <2>1, <2>2, <3>1 DEF Handled, Delivered, ClosedFirst
  <2>4. CASE CleanUp(c)
    <3>1. pc[c] = "cleanup" /\ pc'[c] = "idle" /\ closed' = closed /\ handlers'[pid[c]] = NoHandler
        BY <1>0, <2>4 DEF CleanUp, RetireWait, Goto, TypeOK
    <3> QED BY <1>0, <2>1, <2>2, <3>1 DEF Handled, Delivered, ClosedFirst
  <2>5. CASE CloseScope(c)
    <3>1. pc[c] = "closing" /\ pc'[c] = "cleanup" /\ closed'[c] = TRUE
        BY <1>0, <2>5 DEF CloseScope, Goto, TypeOK
    <3> QED BY <1>0, <2>1, <2>2, <3>1 DEF Handled, Delivered, ClosedFirst
  <2>6. CASE ~Register(c) /\ ~CleanUp(c) /\ ~CloseScope(c)
    <3>1. /\ pc[c] \notin {"idle", "chosen", "cleanup"} /\ pc'[c] \notin {"idle", "chosen", "cleanup"}
          /\ closed' = closed
        BY <1>0, <1>2, <2>6 DEF CallerStep, Activate, Transmit, SendFails, SendReturns, Poll,
           GetterCompletes, TimesOut, Conclude, Retire, Goto, After, TypeOK
    <3> QED BY <1>0, <2>1, <2>2, <3>1 DEF Handled, Delivered, ClosedFirst
  <2> QED BY <2>3, <2>4, <2>5, <2>6
<1>3. ASSUME pc'[c] = pc[c], pid'[c] = pid[c], call'[c] = call[c], closed'[c] = closed[c]
      PROVE  Handled(c)' /\ Delivered(c)' /\ ClosedFirst(c)'
  <2>1. ASSUME NEW d \in Callers, Register(d) PROVE d # c
    BY <1>0, <1>3, <2>1 DEF Register, Goto, TypeOK
  <2>2. Handled(c)'
    <3> SUFFICES ASSUME NEW i \in Ids, handlers'[i] # NoHandler, handlers'[i].req.owner = c
                 PROVE  handlers'[i].req.call = call[c] /\ i = pid[c] /\ pc[c] \notin {"idle", "chosen"}
        BY <1>3 DEF Handled
    <3>1. CASE handlers[i] # NoHandler /\ handlers'[i].req = handlers[i].req
        BY <1>0, <1>3, <3>1 DEF Handled
    <3>2. CASE RunCallback /\ i = rx.packet.id /\ ~ScopeClosed(rx.req)
               /\ handlers'[i] = [req |-> rx.req, stale |-> FALSE]
      <4>1. rx # NoPacket
        BY <3>2 DEF RunCallback
      <4> QED BY <1>0, <1>3, <3>2, <4>1 DEF Delivered, ScopeClosed
    <3>3. CASE \E d \in Callers : /\ Register(d) /\ i = pid[d] /\ i \notin Reserved(Pruned)
                                 /\ handlers'[i] = [req |-> Request(d), stale |-> FALSE]
      <4>1. \E d \in Callers : d # c /\ handlers'[i] = [req |-> Request(d), stale |-> FALSE]
        BY Zenon, <2>1, <3>3
      <4> QED BY <4>1
    <3> QED BY <3>1, <3>2, <3>3, HandlerOrigin
  <2>3. Delivered(c)'
    <3>1. ASSUME NEW m \in air, Correlate(m), rx' # NoPacket, rx'.req.owner = c
          PROVE  rx'.req.call = call[c] /\ rx'.packet.id = pid[c] /\ pc[c] \notin {"idle", "chosen"}
      <4>1. m.id \in Ids
        BY <1>0 DEF TypeOK, Packets
      <4>2. handlers[m.id] # NoHandler /\ rx'.packet = m /\ rx'.req = handlers[m.id].req
        BY <3>1 DEF Correlate
      <4> QED BY <1>0, <3>1, <4>1, <4>2 DEF Handled
    <3>2. CASE \E m \in air : Correlate(m)
        BY <1>0, <1>3, <3>1, <3>2 DEF Delivered, ClosedFirst
    <3>3. CASE ReceiverStep
      <4>1. rx # NoPacket /\ (rx' = NoPacket \/ (rx'.packet = rx.packet /\ rx'.req = rx.req))
        BY <1>0, <3>3 DEF ReceiverStep, DecodeFailed, Invoke, RunCallback, RestOfNak, RunResponse,
           RunTrace, RunAck, RunGetter, RxGoes, RxDone, TypeOK
      <4> QED BY <1>0, <1>3, <4>1 DEF Delivered
    <3>4. CASE rx' = rx
        BY <1>0, <1>3, <3>4 DEF Delivered
    <3> QED
      BY <3>2, <3>3, <3>4 DEF Next, CallerStep, Choose, Register, Activate, Transmit, SendFails,
         SendReturns, Poll, GetterCompletes, TimesOut, Conclude, Retire, CloseScope, CleanUp,
         HandlerAges, QuarantineEnds, vars
  <2>4. ClosedFirst(c)'
    BY <1>0, <1>3 DEF ClosedFirst
  <2> QED BY <2>2, <2>3, <2>4
<1>4. ASSUME NEW d \in Callers, d # c, CallerStep(d) \/ \E i \in Ids : Choose(d, i)
      PROVE  pc'[c] = pc[c] /\ pid'[c] = pid[c] /\ call'[c] = call[c] /\ closed'[c] = closed[c]
    BY <1>0, <1>4 DEF CallerStep, Choose, Register, Activate, Transmit, SendFails, SendReturns, Poll,
       GetterCompletes, TimesOut, Conclude, Retire, CloseScope, CleanUp, Goto, TypeOK
<1>5. \/ \E d \in Callers : CallerStep(d) \/ \E i \in Ids : Choose(d, i)
      \/ UNCHANGED <<pc, pid, call, closed>>
    BY DEF Next, ReceiverStep, Correlate, DecodeFailed, Invoke, RunCallback, RestOfNak,
       HandlerAges, QuarantineEnds, callerVars, vars
<1> QED BY <1>1, <1>2, <1>3, <1>4, <1>5

\* When a command has ended no handler of its requests remains, even if the
\* receive thread was re-arming one at that moment.
THEOREM NoHandlerOutlivesCommand == Spec => []NoHandlerAfterCommand
<1>1. Init => TypeInv /\ CommandInv
    BY TypeInit, CommandAssumption DEF Init, CommandInv, Handled, Delivered, ClosedFirst
<1>2. TypeInv /\ CommandInv /\ [Next]_vars => (TypeInv /\ CommandInv)'
    BY TypeStep, CommandStep
<1>3. CommandInv => NoHandlerAfterCommand
    BY DEF CommandInv, Handled, NoHandlerAfterCommand
<1> QED BY <1>1, <1>2, <1>3, PTL DEF Spec

----------------------------------------------------------------------------
(* A bounded getter can be completed, in the behaviours that never give two  *)
(* requests in progress one packet id.                                       *)

\* The low ten bits of a packet id are a counter that is advanced under a lock
\* (_generate_packet_id): any 1024 ids in a row differ.
IdsDiffer == \A c, d \in Callers : c # d /\ pc[c] # "idle" /\ pc[d] # "idle" => pid[c] # pid[d]

\* A scoped wait has the id, or had it within the quarantine.
Held(i) ==
    \/ \E a \in Attrs : i \in retired[a]
    \/ \E c \in Callers : HasWait(c) /\ Owns(c) /\ pid[c] = i

\* Nobody can cause a reply with the id.
Quiet(i) ==
    /\ \A m \in air : m.id # i
    /\ rx # NoPacket => rx.packet.id # i
    /\ \A c \in Callers : Owns(c) => pid[c] # i

\* The handler of a scoped request has an id that is held; a handler that a
\* traceroute re-armed behind its retirement may outlive the quarantine, but
\* then no reply finds it.
WaitHandlersHeld ==
    \A i \in Ids : handlers[i] # NoHandler /\ HasWait(handlers[i].req.owner) => Held(i) \/ Quiet(i)

\* A reply delivered to a scoped request still holds its id, so that the
\* re-arming of its handler replaces no other.
WaitRepliesHeld == rx # NoPacket /\ HasWait(rx.req.owner) => Held(rx.packet.id)

\* Only a request with a scoped wait activates one.
WaitsRegister == \A c \in Callers : pc[c] = "registered" => HasWait(c)

ClosedLate == \A c \in Callers : closed[c] => pc[c] \in {"cleanup", "idle"}

\* Until it has a result, a getter's handler is registered or its reply is in hand.
Completable(c) ==
    Typed(c) /\ pc[c] \in {"armed", "onAir", "waiting"} /\ verdict[c] = "none" =>
        \/ handlers[pid[c]] = [req |-> Request(c), stale |-> FALSE]
        \/ rx # NoPacket /\ rx.req = Request(c) /\ rx.stage \in {"decodeFailed", "invoke", "run"}

GetterInv ==
    /\ OwnersNotRetired
    /\ WaitHandlersHeld
    /\ WaitRepliesHeld
    /\ WaitsRegister
    /\ ClosedLate
    /\ \A c \in Callers : Completable(c)

\* Only the end of a quarantine releases a held id.
LEMMA HeldPersists ==
    ASSUME TypeInv, WaitsRegister, [Next]_vars, NEW i \in Ids, Held(i)
    PROVE  Held(i)' \/ \E a \in Attrs : QuarantineEnds(a, i)
<1>0. TypeOK /\ AttrOf \in [Callers -> Attrs]
    BY AttrAssumption DEF TypeInv
<1>1. ASSUME NEW c \in Callers, NEW j \in Ids, Choose(c, j) PROVE Held(i)'
  <2>1. /\ retired' = retired /\ pc[c] = "idle"
        /\ \A d \in Callers : d # c => pc'[d] = pc[d] /\ pid'[d] = pid[d]
    BY <1>0, <1>1 DEF Choose, Goto, TypeOK, stateVars
  <2> QED BY <2>1 DEF Held, Owns
<1>2. ASSUME NEW c \in Callers, CallerStep(c) PROVE Held(i)'
  <2>0. pid' = pid /\ \A d \in Callers : d # c => pc'[d] = pc[d]
    BY <1>0, <1>2 DEF CallerStep, Register, Activate, Transmit, SendFails, SendReturns, Poll,
       GetterCompletes, TimesOut, Conclude, Retire, CloseScope, CleanUp, Goto, TypeOK
  <2>1. CASE Activate(c)
    <3>1. /\ pc[c] = "registered" /\ pc'[c] = "armed"
          /\ \A a \in Attrs : retired[a] \subseteq retired'[a] \cup {pid[c]}
        BY <1>0, <2>1 DEF Activate, ActivateWait, Goto, TypeOK
    <3> QED BY <2>0, <3>1 DEF Held, Owns, WaitsRegister
  <2>2. CASE \E a \in Attrs : i \in retired[a] /\ ~Activate(c)
    <3>1. \A a \in Attrs : retired[a] \subseteq retired'[a]
        BY <1>0, <1>2, <2>2 DEF CallerStep, Register, Transmit, SendFails, SendReturns, Poll, RetireWait,
           GetterCompletes, TimesOut, Conclude, Retire, CloseScope, CleanUp, TypeOK, stateVars
    <3> QED BY <2>2, <3>1 DEF Held
  <2>3. ASSUME HasWait(c), Owns(c), pid[c] = i, ~Owns(c)' PROVE i \in retired'[AttrOf[c]]
    <3>1. RetireWait(c, AttrOf[c], pid[c])
        BY <1>0, <1>2, <2>3 DEF CallerStep, Register, Activate, Transmit, SendFails, SendReturns, Poll,
           GetterCompletes, TimesOut, Conclude, Retire, CloseScope, CleanUp, Goto, TypeOK, Owns, HasWait, Typed
    <3> QED BY <1>0, <2>3, <3>1 DEF RetireWait, TypeOK
  <2> QED BY <1>0, <2>0, <2>1, <2>2, <2>3 DEF Held, Owns
<1>3. CASE \E a \in Attrs, j \in Ids : QuarantineEnds(a, j)
  <2>1. PICK a \in Attrs, j \in Ids : QuarantineEnds(a, j)
    BY <1>3
  <2>2. CASE j = i
    BY <2>1, <2>2
  <2>3. CASE j # i
    BY <1>0, <2>1, <2>3 DEF QuarantineEnds, Held, Owns, callerVars, TypeOK
  <2> QED BY <2>2, <2>3
<1>4. CASE UNCHANGED <<retired, pc, pid>>
    BY <1>4 DEF Held, Owns
<1> QED
    BY <1>1, <1>2, <1>3, <1>4 DEF Next, Correlate, ReceiverStep, DecodeFailed, Invoke, RunCallback,
       RestOfNak, HandlerAges, callerVars, stateVars, vars

\* A quarantine that ends leaves its id held by another wait, or quiet.
LEMMA HeldOrQuiet ==
    ASSUME TypeInv, GetterInv, [Next]_vars, NEW i \in Ids, Held(i)
    PROVE  Held(i)' \/ Quiet(i)'
<1>1. ASSUME NEW a \in Attrs, QuarantineEnds(a, i) PROVE Quiet(i)'
    BY <1>1 DEF QuarantineEnds, Quiet, GetterInv, OwnersNotRetired, Owns, callerVars
<1> QED BY <1>1, HeldPersists DEF GetterInv

\* A quiet id becomes busy only when a request registers under it.
LEMMA QuietPersists ==
    ASSUME TypeInv, [Next]_vars, NEW i \in Ids, Quiet(i)
    PROVE  Quiet(i)' \/ \E c \in Callers : Register(c) /\ pid[c] = i /\ i \notin Reserved(Pruned)
<1>0. TypeOK
    BY DEF TypeInv
<1>1. ASSUME NEW c \in Callers, NEW j \in Ids, Choose(c, j) PROVE Quiet(i)'
    BY <1>0, <1>1 DEF Choose, Goto, TypeOK, Quiet, Owns
<1>2. ASSUME NEW c \in Callers, CallerStep(c), ~(Register(c) /\ pid[c] = i /\ i \notin Reserved(Pruned))
      PROVE  Quiet(i)'
  <2>1. pid' = pid /\ rx' = rx /\ \A d \in Callers : d # c => pc'[d] = pc[d]
    BY <1>0, <1>2 DEF CallerStep, Register, Activate, Transmit, SendFails, SendReturns, Poll,
       GetterCompletes, TimesOut, Conclude, Retire, CloseScope, CleanUp, Goto, TypeOK
  <2>2. Owns(c)' => pid[c] # i
    BY <1>0, <1>2 DEF CallerStep, Register, Activate, Transmit, SendFails, SendReturns, Poll,
       GetterCompletes, TimesOut, Conclude, Retire, CloseScope, CleanUp, Goto, After, TypeOK, Quiet, Owns
  <2>3. \A m \in air' : m.id # i
    <3>1. CASE Transmit(c)
        BY <3>1 DEF Transmit, Quiet, Owns
    <3> QED
        BY <1>2, <3>1 DEF CallerStep, Register, Activate, SendFails, SendReturns, Poll,
           GetterCompletes, TimesOut, Conclude, Retire, CloseScope, CleanUp, Quiet
  <2> QED BY <2>1, <2>2, <2>3 DEF Quiet, Owns
<1>3. ASSUME NEW m \in air, Correlate(m) PROVE Quiet(i)'
    BY <1>3 DEF Correlate, Quiet, Owns, callerVars
<1>4. CASE ReceiverStep
  <2>1. /\ rx # NoPacket /\ UNCHANGED <<pc, pid, air>>
        /\ rx' = NoPacket \/ rx'.packet = rx.packet
    BY <1>0, <1>4 DEF ReceiverStep, DecodeFailed, Invoke, RunCallback, RestOfNak, RunResponse,
       RunTrace, RunAck, RunGetter, RxGoes, RxDone, TypeOK, callerVars
  <2> QED BY <2>1 DEF Quiet, Owns
<1>5. CASE UNCHANGED <<pc, pid, air, rx>>
    BY <1>5 DEF Quiet, Owns
<1> QED
    BY <1>1, <1>2, <1>3, <1>4, <1>5 DEF Next, HandlerAges, QuarantineEnds, callerVars, vars

\* Where the requests in progress have different ids, no retirement touches
\* the id of another.
LEMMA OwnersStayUnretired ==
    ASSUME TypeInv, IdsDiffer, OwnersNotRetired, [Next]_vars
    PROVE  OwnersNotRetired'
<1>0. TypeOK /\ AttrOf \in [Callers -> Attrs]
    BY AttrAssumption DEF TypeInv
<1>1. ASSUME NEW c \in Callers, NEW j \in Ids, Choose(c, j) PROVE OwnersNotRetired'
    BY <1>0, <1>1 DEF Choose, Goto, TypeOK, stateVars, OwnersNotRetired, Owns
<1>2. ASSUME NEW c \in Callers, CallerStep(c) PROVE OwnersNotRetired'
  <2>0. /\ pid' = pid /\ pc[c] # "idle" /\ \A d \in Callers : d # c => pc'[d] = pc[d]
    BY <1>0, <1>2 DEF CallerStep, Register, Activate, Transmit, SendFails, SendReturns, Poll,
       GetterCompletes, TimesOut, Conclude, Retire, CloseScope, CleanUp, Goto, TypeOK
  <2>1. \A a \in Attrs : retired'[a] \subseteq retired[a] \cup {pid[c]}
    BY <1>0, <1>2 DEF CallerStep, Register, Activate, ActivateWait, Transmit, SendFails, SendReturns, Poll,
       RetireWait, GetterCompletes, TimesOut, Conclude, Retire, CloseScope, CleanUp, TypeOK, stateVars
  <2>2. ASSUME NEW d \in Callers, d # c, Owns(d) PROVE pid[d] # pid[c]
    BY <2>0, <2>2 DEF IdsDiffer, Owns
  <2>3. ASSUME Owns(c)' PROVE \A a \in Attrs : pid[c] \notin retired'[a]
    <3>1. CASE Register(c)
        BY <1>0, <2>3, <3>1 DEF Register, Reserved, Goto, TypeOK, Owns
    <3>2. CASE Activate(c)
        BY <1>0, <3>2 DEF Activate, ActivateWait, OwnersNotRetired, Owns, TypeOK
    <3>3. CASE retired' = retired /\ Owns(c)
        BY <3>3 DEF OwnersNotRetired
    <3>4. CASE SendFails(c) \/ Retire(c) \/ CloseScope(c) \/ CleanUp(c)
        BY <1>0, <2>3, <3>4 DEF SendFails, Retire, CloseScope, CleanUp, Goto, After, Owns, TypeOK
    <3> QED
        BY <1>2, <3>1, <3>2, <3>3, <3>4 DEF CallerStep, Transmit, SendReturns, Poll, GetterCompletes,
           TimesOut, Conclude, stateVars, Owns
  <2> QED BY <2>0, <2>1, <2>2, <2>3 DEF OwnersNotRetired, Owns
<1>3. ASSUME NEW j \in Ids, NEW a \in Attrs, QuarantineEnds(a, j) PROVE OwnersNotRetired'
    BY <1>0, <1>3 DEF QuarantineEnds, callerVars, TypeOK, OwnersNotRetired, Owns
<1>4. CASE UNCHANGED <<retired, pc, pid>>
    BY <1>4 DEF OwnersNotRetired, Owns
<1> QED
    BY <1>1, <1>2, <1>3, <1>4 DEF Next, Correlate, ReceiverStep, DecodeFailed, Invoke, RunCallback,
       RestOfNak, HandlerAges, callerVars, stateVars, vars

LEMMA WaitHandlersStayHeld ==
    ASSUME TypeInv, GetterInv, [Next]_vars
    PROVE  WaitHandlersHeld'
<1> SUFFICES ASSUME NEW i \in Ids, handlers'[i] # NoHandler, HasWait(handlers'[i].req.owner)
             PROVE  Held(i)' \/ Quiet(i)'
    BY DEF WaitHandlersHeld, HasWait
<1>0. TypeOK
    BY DEF TypeInv
<1>1. ASSUME NEW c \in Callers, Register(c), i = pid[c], i \notin Reserved(Pruned) PROVE Held(i)'
  <2>1. handlers'[i] = [req |-> Request(c), stale |-> FALSE]
    BY <1>0, <1>1, PrunedType DEF Register
  <2>2. HasWait(c)
    BY <2>1 DEF Request
  <2> QED BY <1>0, <1>1, <2>2 DEF Register, Goto, TypeOK, Held, Owns
<1>2. CASE handlers[i] # NoHandler /\ handlers'[i].req = handlers[i].req
  <2>1. Held(i) \/ Quiet(i)
    BY <1>2 DEF GetterInv, WaitHandlersHeld
  <2> QED BY <1>1, <2>1, HeldOrQuiet, QuietPersists
<1>3. CASE RunCallback /\ i = rx.packet.id /\ handlers'[i] = [req |-> rx.req, stale |-> FALSE]
  <2>1. Held(i)
    BY <1>3 DEF RunCallback, GetterInv, WaitRepliesHeld
  <2> QED BY <2>1, HeldOrQuiet
<1> QED BY <1>1, <1>2, <1>3, HandlerOrigin

LEMMA WaitRepliesStayHeld ==
    ASSUME TypeInv, GetterInv, [Next]_vars
    PROVE  WaitRepliesHeld'
<1> SUFFICES ASSUME NEW i, rx' # NoPacket, HasWait(rx'.req.owner), rx'.packet.id = i PROVE Held(i)'
    BY DEF WaitRepliesHeld, Held, HasWait
<1>0. TypeOK
    BY DEF TypeInv
<1>1. ASSUME NEW m \in air, Correlate(m) PROVE Held(i)'
  <2>1. /\ m.id \in Ids /\ rx'.packet = m /\ m.id = i
        /\ handlers[m.id] # NoHandler /\ rx'.req = handlers[m.id].req
    BY <1>0, <1>1 DEF Correlate, TypeOK, Packets
  <2>2. Held(i)
    BY <2>1 DEF GetterInv, WaitHandlersHeld, Quiet
  <2> QED BY <1>1, <2>1, <2>2 DEF Correlate, callerVars, Held, Owns
<1>2. CASE rx # NoPacket /\ rx'.packet = rx.packet /\ rx'.req = rx.req
  <2>1. i \in Ids /\ Held(i)
    BY <1>0, <1>2 DEF TypeOK, Packets, GetterInv, WaitRepliesHeld
  <2>2. ~Quiet(i)'
    BY <1>2 DEF Quiet
  <2> QED BY <1>2, <2>1, <2>2, HeldOrQuiet
<1>3. CASE ReceiverStep
  <2>1. rx # NoPacket /\ (rx' = NoPacket \/ (rx'.packet = rx.packet /\ rx'.req = rx.req))
    BY <1>0, <1>3 DEF ReceiverStep, DecodeFailed, Invoke, RunCallback, RestOfNak, RunResponse,
       RunTrace, RunAck, RunGetter, RxGoes, RxDone, TypeOK
  <2> QED BY <1>2, <2>1
<1>4. CASE rx' = rx
    BY <1>2, <1>4
<1> QED
    BY <1>1, <1>3, <1>4 DEF Next, CallerStep, Choose, Register, Activate, Transmit, SendFails,
       SendReturns, Poll, GetterCompletes, TimesOut, Conclude, Retire, CloseScope, CleanUp,
       HandlerAges, QuarantineEnds, vars

LEMMA PlacesStep ==
    ASSUME TypeInv, WaitsRegister, ClosedLate, [Next]_vars
    PROVE  WaitsRegister' /\ ClosedLate'
<1>0. TypeOK
    BY DEF TypeInv
<1>1. ASSUME NEW c \in Callers, NEW j \in Ids, Choose(c, j) PROVE WaitsRegister' /\ ClosedLate'
    BY <1>0, <1>1 DEF Choose, Goto, TypeOK, WaitsRegister, ClosedLate
<1>2. ASSUME NEW c \in Callers, CallerStep(c) PROVE WaitsRegister' /\ ClosedLate'
  <2>1. \A d \in Callers : d # c => pc'[d] = pc[d] /\ closed'[d] = closed[d]
    BY <1>0, <1>2 DEF CallerStep, Register, Activate, Transmit, SendFails, SendReturns, Poll,
       GetterCompletes, TimesOut, Conclude, Retire, CloseScope, CleanUp, Goto, TypeOK
  <2>2. /\ pc'[c] = "registered" => HasWait(c)
        /\ closed'[c] => pc'[c] \in {"cleanup", "idle"}
    BY <1>0, <1>2 DEF CallerStep, Register, Activate, Transmit, SendFails, SendReturns, Poll,
       GetterCompletes, TimesOut, Conclude, Retire, CloseScope, CleanUp, Goto, After, TypeOK, ClosedLate
  <2> QED BY <2>1, <2>2 DEF WaitsRegister, ClosedLate, HasWait
<1>3. CASE UNCHANGED <<pc, closed>>
    BY <1>3 DEF WaitsRegister, ClosedLate, HasWait
<1> QED
    BY <1>1, <1>2, <1>3 DEF Next, Correlate, ReceiverStep, DecodeFailed, Invoke, RunCallback,
       RestOfNak, HandlerAges, QuarantineEnds, callerVars, vars

\* The handler of a getter goes only into the receive thread's hands: no other
\* registration, retirement, re-arming or expiry has its id.
LEMMA HandlerGoesToReply ==
    ASSUME TypeInv, IdsDiffer, GetterInv, [Next]_vars, NEW c \in Callers, Typed(c),
           pc[c] \in {"armed", "onAir", "waiting"}, pc'[c] \in {"armed", "onAir", "waiting"},
           handlers[pid[c]] = [req |-> Request(c), stale |-> FALSE]
    PROVE  \/ handlers'[pid[c]] = handlers[pid[c]]
           \/ rx' # NoPacket /\ rx'.req = Request(c) /\ rx'.stage \in {"decodeFailed", "invoke"}
<1> DEFINE i == pid[c]
<1>0. TypeOK /\ i \in Ids /\ Request(c) \in Requests /\ handlers[i] \in Handlers
    BY RequestType DEF TypeInv, TypeOK, Handlers
<1>1. handlers[i] # NoHandler /\ ~IsStale(i)
  <2>1. handlers[i] # NoHandler
    BY <1>0, HandlerAssumption
  <2>2. handlers[i].stale = FALSE
    OBVIOUS
  <2> QED BY <2>1, <2>2 DEF IsStale
<1>2. Pruned[i] = handlers[i]
    BY <1>0, <1>1 DEF Pruned
<1>3. i \in Reserved(Pruned)
    BY <1>0, <1>1, <1>2 DEF Reserved, Registered
<1>4. ASSUME NEW d \in Callers, CallerStep(d) PROVE handlers'[i] = handlers[i]
  <2>1. pc[d] # "idle" /\ (d # c => pid[d] # i)
    BY <1>4 DEF CallerStep, Register, Activate, Transmit, SendFails, SendReturns, Poll,
       GetterCompletes, TimesOut, Conclude, Retire, CloseScope, CleanUp, IdsDiffer
  <2>2. CASE Register(d)
    BY <1>0, <1>2, <1>3, <2>2, PrunedType DEF Register
  <2>3. CASE SendFails(d) \/ Retire(d) \/ CleanUp(d)
    <3>1. d # c
        BY <1>0, <2>3 DEF SendFails, Retire, CleanUp, Goto, After, TypeOK
    <3> QED BY <1>0, <2>1, <2>3, <3>1 DEF SendFails, Retire, CleanUp, RetireWait, TypeOK
  <2> QED
    BY <1>4, <2>2, <2>3 DEF CallerStep, Activate, Transmit, SendReturns, Poll,
       GetterCompletes, TimesOut, Conclude, CloseScope, stateVars
<1>5. ASSUME NEW m \in air, Correlate(m)
      PROVE  \/ handlers'[i] = handlers[i]
             \/ rx' # NoPacket /\ rx'.req = Request(c) /\ rx'.stage \in {"decodeFailed", "invoke"}
  <2>1. CASE m.id = i
    <3> DEFINE taken == Takes(handlers[i], m.kind)
               reply == [stage |-> IF Drops(handlers[i], m.kind) THEN "decodeFailed" ELSE "invoke",
                         packet |-> m, req |-> handlers[i].req]
    <3>1. CASE ~taken
        BY <1>1, <1>5, <2>1, <3>1 DEF Correlate
    <3>2. CASE taken
      <4>1. rx' = reply
        BY <1>1, <1>5, <2>1, <3>2 DEF Correlate
      <4>2. m \in Packets /\ reply # NoPacket
        BY <1>0, DeliveryAssumption DEF TypeOK, Stages, Handlers
      <4> QED BY <4>1, <4>2
    <3> QED BY <3>1, <3>2
  <2>2. CASE m.id # i
    BY <1>0, <1>5, <2>2 DEF Correlate, TypeOK, Packets
  <2> QED BY <2>1, <2>2
<1>6. ASSUME RunCallback PROVE handlers'[i] = handlers[i]
  <2>1. CASE HasWait(rx.req.owner)
    <3>1. rx # NoPacket /\ Held(rx.packet.id) /\ rx.packet.id \in Ids
        BY <1>0, <1>6, <2>1 DEF RunCallback, GetterInv, WaitRepliesHeld, TypeOK, Packets
    <3>2. rx.packet.id # i
        BY <3>1 DEF Held, GetterInv, OwnersNotRetired, IdsDiffer, Owns, HasWait, Typed
    <3>3. handlers' = handlers \/ handlers' = [Pruned EXCEPT ![rx.packet.id] = [req |-> rx.req, stale |-> FALSE]]
        BY <1>6 DEF RunCallback, RunResponse, RunTrace, Rearm, RunAck, RunGetter
    <3> QED BY <1>0, <1>2, <3>1, <3>2, <3>3, PrunedType
  <2>2. CASE ~HasWait(rx.req.owner)
    BY <1>6, <2>2 DEF RunCallback, RunGetter, HasWait
  <2> QED BY <2>1, <2>2
<1>7. ASSUME NEW j \in Ids, HandlerAges(j) PROVE handlers'[i] = handlers[i]
  <2>1. j # i
    BY <1>0, <1>7 DEF HandlerAges, Live, Request
  <2> QED BY <1>0, <1>7, <2>1 DEF HandlerAges, TypeOK
<1>8. CASE UNCHANGED handlers
    BY <1>8
<1> QED
    BY <1>4, <1>5, <1>6, <1>7, <1>8 DEF Next, Choose, ReceiverStep, DecodeFailed, Invoke,
       RestOfNak, QuarantineEnds, stateVars, vars

\* The receive thread goes to its next stage with the same reply.
LEMMA RxNext ==
    ASSUME TypeOK, rx # NoPacket, NEW s \in Stages, RxGoes(s)
    PROVE  rx' # NoPacket /\ rx'.req = rx.req /\ rx'.stage = s
<1>1. [rx EXCEPT !.stage = s] \in [stage : Stages, packet : Packets, req : Requests]
    BY DEF TypeOK
<1> QED BY <1>1, DeliveryAssumption DEF RxGoes, TypeOK

\* A reply in hand for a getter that waits runs to the getter's completion.
LEMMA ReplyCompletes ==
    ASSUME TypeInv, GetterInv, [Next]_vars, NEW c \in Callers, Typed(c),
           pc[c] \in {"armed", "onAir", "waiting"}, verdict'[c] = "none",
           rx # NoPacket, rx.req = Request(c), rx.stage \in {"decodeFailed", "invoke", "run"}
    PROVE  rx' # NoPacket /\ rx'.req = Request(c) /\ rx'.stage \in {"decodeFailed", "invoke", "run"}
<1>0. /\ TypeOK /\ rx.req.owner = c /\ Live(rx.req) /\ ~ScopeClosed(rx.req)
      /\ Kind[c] = "getter"
    BY DEF TypeInv, Request, Live, ScopeClosed, GetterInv, ClosedLate, Typed
<1>1. CASE ReceiverStep
  <2>1. CASE DecodeFailed
    <3>1. RxGoes("invoke")
        BY <1>0, <2>1 DEF DecodeFailed
    <3> QED BY <1>0, <3>1, RxNext DEF Stages
  <2>2. CASE Invoke
    <3>1. RxGoes("run")
        BY <1>0, <2>2 DEF Invoke
    <3> QED BY <1>0, <3>1, RxNext DEF Stages
  <2>3. CASE RunCallback
    <3>1. RunGetter(rx.req, rx.packet.id, rx.packet.kind)
        BY <1>0, <2>3 DEF RunCallback
    <3> QED BY <1>0, <3>1 DEF RunGetter, TypeOK
  <2>4. CASE RestOfNak
    BY <2>4 DEF RestOfNak
  <2> QED BY <1>1, <2>1, <2>2, <2>3, <2>4 DEF ReceiverStep
<1>2. CASE rx' = rx
    BY <1>2
<1> QED
    BY <1>1, <1>2 DEF Next, CallerStep, Choose, Register, Activate, Transmit, SendFails,
       SendReturns, Poll, GetterCompletes, TimesOut, Conclude, Retire, CloseScope, CleanUp,
       Correlate, HandlerAges, QuarantineEnds, vars

LEMMA GetterStep ==
    ASSUME TypeInv, IdsDiffer, GetterInv, [Next]_vars
    PROVE  GetterInv'
<1>1. OwnersNotRetired' /\ WaitHandlersHeld' /\ WaitRepliesHeld' /\ WaitsRegister' /\ ClosedLate'
    BY OwnersStayUnretired, WaitHandlersStayHeld, WaitRepliesStayHeld, PlacesStep DEF GetterInv
<1>2. ASSUME NEW c \in Callers PROVE Completable(c)'
  <2> SUFFICES ASSUME Typed(c), pc'[c] \in {"armed", "onAir", "waiting"}, verdict'[c] = "none"
               PROVE  \/ handlers'[pid'[c]] = [req |-> Request(c)', stale |-> FALSE]
                      \/ rx' # NoPacket /\ rx'.req = Request(c)' /\ rx'.stage \in {"decodeFailed", "invoke", "run"}
    BY DEF Completable, Typed
  <2>0. TypeOK /\ ~HasWait(c) /\ pid[c] \in Ids
    BY DEF TypeInv, TypeOK, HasWait, Typed
  <2>1. CASE Register(c)
    <3>1. pid' = pid /\ call' = call /\ handlers'[pid[c]] = [req |-> Request(c), stale |-> FALSE]
        BY <2>0, <2>1, PrunedType DEF Register, Goto, TypeOK
    <3> QED BY <3>1 DEF Request
  <2>2. CASE ~Register(c)
    <3>1. /\ pc[c] \in {"armed", "onAir", "waiting"} /\ verdict[c] = "none"
          /\ pid'[c] = pid[c] /\ call'[c] = call[c]
      <4>1. ASSUME NEW d \in Callers, NEW j \in Ids, Choose(d, j) PROVE d # c /\ UNCHANGED <<handlers, rx>>
        BY <2>0, <4>1 DEF Choose, Goto, TypeOK, stateVars
      <4>2. ASSUME NEW d \in Callers, NEW j \in Ids, Choose(d, j)
            PROVE  pc'[c] = pc[c] /\ verdict'[c] = verdict[c] /\ pid'[c] = pid[c] /\ call'[c] = call[c]
        BY <2>0, <4>1, <4>2 DEF Choose, Goto, TypeOK
      <4>3. ASSUME CallerStep(c)
            PROVE  /\ pc[c] \in {"armed", "onAir", "waiting"} /\ verdict[c] = "none"
                   /\ pid' = pid /\ call' = call
        BY <2>0, <2>2, <4>3 DEF GetterInv, WaitsRegister, CallerStep, Activate, Transmit, SendFails, SendReturns,
           Poll, GetterCompletes, TimesOut, Conclude, Retire, CloseScope, CleanUp, Goto, After, TypeOK, stateVars
      <4>4. ASSUME NEW d \in Callers, d # c, CallerStep(d)
            PROVE  pc'[c] = pc[c] /\ verdict'[c] = verdict[c] /\ pid' = pid /\ call' = call
        BY <2>0, <4>4 DEF CallerStep, Register, Activate, Transmit, SendFails, SendReturns, Poll,
           GetterCompletes, TimesOut, Conclude, Retire, CloseScope, CleanUp, Goto, TypeOK
      <4>5. ASSUME RunCallback PROVE UNCHANGED <<pc, pid, call>> /\ verdict[c] = "none"
        BY <2>0, <4>5 DEF RunCallback, RunResponse, RunTrace, RunAck, RunGetter, TypeOK, Verdicts
      <4>6. CASE UNCHANGED callerVars
        BY <4>6 DEF callerVars
      <4> QED
        BY <4>2, <4>3, <4>4, <4>5, <4>6 DEF Next, Correlate, ReceiverStep, DecodeFailed, Invoke, RestOfNak,
           HandlerAges, QuarantineEnds, vars
    <3>2. Completable(c)
        BY DEF GetterInv
    <3>3. Request(c)' = Request(c)
        BY <3>1 DEF Request
    <3>4. CASE handlers[pid[c]] = [req |-> Request(c), stale |-> FALSE]
        BY <3>1, <3>3, <3>4, HandlerGoesToReply
    <3>5. CASE rx # NoPacket /\ rx.req = Request(c) /\ rx.stage \in {"decodeFailed", "invoke", "run"}
        BY <3>1, <3>3, <3>5, ReplyCompletes
    <3> QED BY <3>1, <3>2, <3>4, <3>5 DEF Completable
  <2> QED BY <2>1, <2>2
<1> QED BY <1>1, <1>2 DEF GetterInv

\* While the packet ids of the requests in progress differ, a reply can always
\* complete a getter that waits, for any callers of any kind, inside commands
\* and outside: duplicated and late replies to ended requests, the re-arming of
\* traceroutes, expiry and quarantine never take its handler.
THEOREM GettersStayCompletable == Spec /\ []IdsDiffer => []GetterCanComplete
<1>1. Init => TypeInv /\ GetterInv
  <2> SUFFICES ASSUME Init PROVE TypeInv /\ GetterInv
    OBVIOUS
  <2>1. /\ TypeInv /\ \A c \in Callers : pc[c] = "idle" /\ ~closed[c]
        /\ \A i \in Ids : handlers[i] = NoHandler
        /\ rx = NoPacket
    BY TypeInit DEF Init
  <2> QED BY <2>1 DEF GetterInv, OwnersNotRetired, WaitHandlersHeld, WaitRepliesHeld, WaitsRegister,
             ClosedLate, Completable, Owns
<1>2. TypeInv /\ GetterInv /\ IdsDiffer /\ [Next]_vars => (TypeInv /\ GetterInv)'
    BY TypeStep, GetterStep
<1>3. TypeInv /\ GetterInv => GetterCanComplete
  <2> SUFFICES ASSUME GetterInv, NEW c \in Callers, Typed(c), pc[c] = "waiting", verdict[c] = "none", TypeInv
               PROVE  \/ handlers[pid[c]] # NoHandler /\ handlers[pid[c]].req = Request(c)
                      \/ rx # NoPacket /\ rx.req = Request(c)
    BY DEF GetterCanComplete
  <2>1. Request(c) \in Requests
    BY RequestType
  <2> DEFINE h == [req |-> Request(c), stale |-> FALSE]
  <2>2. h \in Handlers
    BY <2>1 DEF Handlers
  <2>3. h # NoHandler /\ h.req = Request(c)
    BY <2>2, HandlerAssumption
  <2>4. handlers[pid[c]] = h \/ (rx # NoPacket /\ rx.req = Request(c))
    BY DEF GetterInv, Completable
  <2> QED BY <2>3, <2>4
<1> QED BY <1>1, <1>2, <1>3, PTL DEF Spec

----------------------------------------------------------------------------
(* An error that is recorded for a wait is what the wait reports.          *)

Reporting(c) == HasWait(c) /\ pc[c] \in {"waiting", "signalled", "expired"}
Recorded(c) == Key(AttrOf[c], pid[c]) \in errors

\* The error stays as it is until the step that makes the call end with it.
ErrorKept(c) ==
    \/ pc'[c] = "retiring" /\ verdict'[c] = "error"
    \/ Reporting(c)' /\ Recorded(c)' /\ pid'[c] = pid[c]
ErrorsKept == \A c \in Callers : Reporting(c) /\ Recorded(c) => ErrorKept(c)

\* The places at which a caller opens, closes or cleans up the scope of its id.
Scopes(c) == Owns(c) \/ pc[c] \in {"closing", "cleanup"}

\* Only a scope with its own packet id can take the error away from a wait.
LEMMA ErrorKeptByOthers ==
    ASSUME TypeInv, NEW c \in Callers, Reporting(c), Recorded(c),
           NEW d \in Callers, d # c, CallerStep(d), Scopes(d) => pid[d] # pid[c]
    PROVE  ErrorKept(c)
<1>0. TypeOK /\ pid[c] \in Ids /\ pid[c] # Unscoped
    BY IdAssumption DEF TypeInv, TypeOK
<1>1. pid' = pid /\ pc'[c] = pc[c]
    BY <1>0 DEF CallerStep, Register, Activate, Transmit, SendFails, SendReturns, Poll,
       GetterCompletes, TimesOut, Conclude, Retire, CloseScope, CleanUp, Goto, TypeOK, stateVars
<1>2. Key(AttrOf[c], pid[c]) \in errors'
  <2> DEFINE key == Key(AttrOf[c], pid[c])
  <2>1. \A a \in Attrs : key # Key(a, Unscoped) /\ key \notin Legacy(d, a)
    BY <1>0 DEF Key, Legacy
  <2>2. pid[d] # pid[c] => key # Key(AttrOf[d], pid[d])
    BY DEF Key
  <2>3. key \in errors /\ AttrOf[d] \in Attrs
    BY AttrAssumption DEF Recorded
  <2> HIDE DEF key
  <2>4. ASSUME Activate(d) PROVE key \in errors'
    BY <2>1, <2>2, <2>3, <2>4 DEF Activate, ActivateWait, Scopes, Owns
  <2>5. ASSUME SendFails(d) \/ Retire(d) \/ CleanUp(d) PROVE key \in errors'
    BY <2>1, <2>2, <2>3, <2>5 DEF SendFails, Retire, CleanUp, RetireWait, Scopes, Owns
  <2>6. ASSUME Conclude(d) PROVE key \in errors'
    BY <2>1, <2>2, <2>3, <2>6 DEF Conclude, Scopes, Owns
  <2>7. ASSUME UNCHANGED errors PROVE key \in errors'
    BY <2>3, <2>7
  <2>8. key \in errors'
    BY <2>4, <2>5, <2>6, <2>7 DEF CallerStep, Register, Transmit, SendReturns, Poll,
       GetterCompletes, TimesOut, CloseScope, stateVars
  <2> QED BY <2>8 DEF key
<1> QED BY <1>1, <1>2 DEF ErrorKept, Reporting, Recorded

\* Its own caller leaves the error alone until it reports it.
LEMMA ErrorKeptByOwner ==
    ASSUME TypeInv, NEW c \in Callers, Reporting(c), Recorded(c), CallerStep(c)
    PROVE  ErrorKept(c)
<1>0. TypeOK
    BY DEF TypeInv
<1>1. Poll(c) \/ TimesOut(c) \/ Conclude(c)
    BY KindAssumption DEF CallerStep, Register, Activate, Transmit, SendFails, SendReturns, GetterCompletes,
       Retire, CloseScope, CleanUp, Reporting, HasWait, Typed
<1>2. CASE Poll(c)
    BY <1>0, <1>2 DEF Poll, Goto, ErrorKept, Reporting, Recorded, TypeOK
<1>3. CASE TimesOut(c)
    BY <1>0, <1>3 DEF TimesOut, Goto, ErrorKept, Reporting, Recorded, TypeOK, stateVars
<1>4. CASE Conclude(c)
  <2>1. {Key(AttrOf[c], pid[c])} \cap errors # {}
    BY DEF Recorded
  <2>2. verdict'[c] = "error" /\ pc'[c] = "retiring"
    BY <1>0, <1>4, <2>1 DEF Conclude, Goto, TypeOK
  <2> QED BY <2>2 DEF ErrorKept
<1> QED BY <1>1, <1>2, <1>3, <1>4

LEMMA ErrorsStep ==
    ASSUME TypeInv, [Next]_vars,
           \A c, d \in Callers : c # d /\ Reporting(c) /\ Scopes(d) => pid[d] # pid[c]
    PROVE  ErrorsKept
<1> SUFFICES ASSUME NEW c \in Callers, Reporting(c), Recorded(c) PROVE ErrorKept(c)
    BY DEF ErrorsKept
<1>0. TypeOK
    BY DEF TypeInv
<1>1. ASSUME UNCHANGED <<pc, pid>>, errors \subseteq errors' PROVE ErrorKept(c)
    BY <1>1 DEF ErrorKept, Reporting, Recorded
<1>2. ASSUME NEW d \in Callers, NEW i \in Ids, Choose(d, i) PROVE ErrorKept(c)
  <2>1. d # c
    BY <1>2 DEF Choose, Reporting
  <2> QED BY <1>0, <1>2, <2>1 DEF Choose, Goto, TypeOK, stateVars, ErrorKept, Reporting, Recorded
<1>3. ASSUME NEW d \in Callers, CallerStep(d) PROVE ErrorKept(c)
    BY <1>3, ErrorKeptByOthers, ErrorKeptByOwner
<1>4. ASSUME NEW m \in air, Correlate(m) PROVE ErrorKept(c)
    BY <1>1, <1>4 DEF Correlate, callerVars
<1>5. ASSUME ReceiverStep PROVE ErrorKept(c)
  <2>1. UNCHANGED <<pc, pid>>
    BY <1>5 DEF ReceiverStep, DecodeFailed, Invoke, RunCallback, RestOfNak, callerVars
  <2>2. CASE DecodeFailed \/ Invoke \/ RestOfNak
    BY <1>1, <2>1, <2>2 DEF DecodeFailed, Invoke, RestOfNak, SetWaitError, stateVars
  <2>3. CASE RunCallback
    <3>1. errors \subseteq errors'
        BY <2>3 DEF RunCallback, RunResponse, RunTrace, RunAck, RunGetter, SetWaitError, MarkAcknowledged
    <3> QED BY <1>1, <2>1, <3>1
  <2> QED BY <1>5, <2>2, <2>3 DEF ReceiverStep
<1>6. ASSUME NEW i \in Ids, HandlerAges(i) \/ \E a \in Attrs : QuarantineEnds(a, i) PROVE ErrorKept(c)
    BY <1>1, <1>6 DEF HandlerAges, QuarantineEnds, callerVars
<1>7. ASSUME UNCHANGED vars PROVE ErrorKept(c)
    BY <1>1, <1>7 DEF vars, stateVars, callerVars
<1> QED BY <1>2, <1>3, <1>4, <1>5, <1>6, <1>7 DEF Next

\* An error recorded for a wait in progress is never lost, overtaken by an acknowledgment or
\* by the deadline: it stays until the call ends with it.  For callers of every kind while the
\* ids of the requests in progress differ, and for scoped waits outside commands always.
THEOREM ErrorsStayUntilReported ==
    /\ Spec /\ []IdsDiffer => [][ErrorsKept]_vars
    /\ ScopedOnly => (Spec => [][ErrorsKept]_vars)
<1>1. Spec /\ []IdsDiffer => [][ErrorsKept]_vars
  <2>1. TypeInv /\ IdsDiffer /\ [Next]_vars => [ErrorsKept]_vars
    <3>1. IdsDiffer => \A c, d \in Callers : c # d /\ Reporting(c) /\ Scopes(d) => pid[d] # pid[c]
        BY DEF IdsDiffer, Reporting, Scopes, Owns
    <3> QED BY <3>1, ErrorsStep
  <2> QED BY <2>1, TypeInit, TypeStep, PTL DEF Spec
<1>2. ASSUME ScopedOnly PROVE Spec => [][ErrorsKept]_vars
  <2>1. Ownership /\ [Next]_vars => Ownership'
    BY <1>2, OwnershipStep
  <2>2. Ownership /\ [Next]_vars => [ErrorsKept]_vars
    <3>1. Ownership => TypeInv /\ \A c, d \in Callers :
              c # d /\ Reporting(c) /\ Scopes(d) => pid[d] # pid[c]
        BY DEF Ownership, OwnersDiffer, OutsideCommands, Reporting, Scopes, Owns
    <3> QED BY <3>1, ErrorsStep
  <2> QED BY <2>1, <2>2, OwnershipInit, PTL DEF Spec
<1> QED BY <1>1, <1>2
=============================================================================
