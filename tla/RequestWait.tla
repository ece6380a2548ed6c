---------------------------- MODULE RequestWait ----------------------------
(***************************************************************************)
(* Request/response correlation of a MeshInterface: the response handlers  *)
(* keyed by packet id, the request-scoped waits, the quarantine of retired *)
(* ids and the receive thread that correlates replies with them            *)
(* (mesh_interface_runtime/request_wait.py), driven by the callers of      *)
(* send_pipeline.py, flows.py, node.py and _command_scope.py.              *)
(*                                                                         *)
(* Callers and the one receive thread interleave at the granularity of the *)
(* response-state lock: every action below is one lock section, or one     *)
(* step between two of them.                                               *)
(***************************************************************************)
EXTENDS Naturals, FiniteSets

CONSTANTS
    Callers,    \* threads that issue requests
    Ids,        \* packet ids the generator may draw
    Attrs,      \* acknowledgment attributes of the scoped waits
    Nak,        \* the attribute "receivedNak", one of Attrs
    Kind,       \* what each caller issues: see Kinds
    AttrOf,     \* the attribute a caller's scoped wait uses
    InCommand,  \* the callers that run inside an embedded command scope
    Replies,    \* the reply kinds the mesh may produce for the requests of each caller
    MaxCalls,   \* bound: requests per caller
    Unscoped,   \* UNSCOPED_WAIT_REQUEST_ID
    NoHandler, NoPacket

\* "response": position, telemetry and waypoint requests; "trace": traceroute;
\* "ack": an admin write answered by an ACK; "getter": a bounded typed admin
\* getter; "async": a user callback nobody waits for.
Kinds == {"response", "trace", "ack", "getter", "async"}

\* A reply is classified once: routing ACK, routing NAK, the data asked for, a
\* payload that does not decode, or data that is not what was asked for.
ReplyKinds == {"ack", "nak", "data", "bad", "other"}

ASSUME KindAssumption == Kind \in [Callers -> Kinds]
ASSUME AttrAssumption == Nak \in Attrs /\ AttrOf \in [Callers -> Attrs]
\* Inside a command an admin ACK goes through the scope's own reporter, which
\* is not modelled.
ASSUME CommandAssumption == InCommand \subseteq {c \in Callers : Kind[c] # "ack"}
ASSUME ReplyAssumption == Replies \in [Callers -> SUBSET ReplyKinds]
ASSUME BoundAssumption == MaxCalls \in Nat
ASSUME IdAssumption == Unscoped \notin Ids

HasWait(c) == Kind[c] \in {"response", "trace", "ack"}
Typed(c) == Kind[c] = "getter"
AckPermitted(c) == Kind[c] = "async"

Key(a, i) == <<a, i>>
Keys == Attrs \X (Ids \cup {Unscoped})
Requests == [owner : Callers, call : 1..MaxCalls]
Handlers == [req : Requests, stale : BOOLEAN]
Packets == [req : Requests, id : Ids, kind : ReplyKinds]

ASSUME HandlerAssumption == NoHandler \notin Handlers

VARIABLES
    handlers,   \* responseHandlers and the managed metadata kept with it
    active,     \* _active_wait_request_ids
    retired,    \* _retired_wait_request_ids: the unexpired quarantine
    acks,       \* _response_wait_acks
    errors,     \* the keys of _response_wait_errors
    latched,    \* attributes whose legacy Acknowledgment flag a reply has set
    pc, pid, call, verdict,   \* each caller: where it is, packet id, request count, result
    closed,     \* each caller: its command scope has been closed
    air,        \* replies on their way to the receive thread
    rx          \* the reply the receive thread is working on

stateVars == <<handlers, active, retired, acks, errors, latched>>
callerVars == <<pc, pid, call, verdict, closed>>
vars == <<stateVars, callerVars, air, rx>>

Places == {"idle", "chosen", "registered", "armed", "onAir", "waiting",
           "signalled", "expired", "retiring", "closing", "cleanup"}
Verdicts == {"none", "success", "error", "timeout"}
Stages == {"decodeFailed", "invoke", "run", "rest"}

ASSUME DeliveryAssumption == NoPacket \notin [stage : Stages, packet : Packets, req : Requests]

TypeOK ==
    /\ handlers \in [Ids -> Handlers \cup {NoHandler}]
    /\ active \in [Attrs -> SUBSET Ids]
    /\ retired \in [Attrs -> SUBSET Ids]
    /\ acks \subseteq Keys
    /\ errors \subseteq Keys
    /\ latched \subseteq Attrs
    /\ pc \in [Callers -> Places]
    /\ pid \in [Callers -> Ids]
    /\ call \in [Callers -> 0..MaxCalls]
    /\ verdict \in [Callers -> Verdicts]
    /\ closed \in [Callers -> BOOLEAN]
    /\ air \subseteq Packets
    /\ rx \in [stage : Stages, packet : Packets, req : Requests] \cup {NoPacket}

Init ==
    /\ handlers = [i \in Ids |-> NoHandler]
    /\ active = [a \in Attrs |-> {}]
    /\ retired = [a \in Attrs |-> {}]
    /\ acks = {}
    /\ errors = {}
    /\ latched = {}
    /\ pc = [c \in Callers |-> "idle"]
    /\ pid \in [Callers -> Ids]
    /\ call = [c \in Callers |-> 0]
    /\ verdict = [c \in Callers |-> "none"]
    /\ closed = [c \in Callers |-> FALSE]
    /\ air = {}
    /\ rx = NoPacket

----------------------------------------------------------------------------
(* The operations of _RequestWaitRuntime on the shared state.              *)

Registered(hs) == {i \in Ids : hs[i] # NoHandler}
ActiveIds == UNION {active[a] : a \in Attrs}
\* Mutant: the id selection forgets the quarantine of retired ids.
ReservedNoQuarantine(hs) == Registered(hs) \cup ActiveIds

Reserved(hs) == Registered(hs) \cup ActiveIds \cup UNION {retired[a] : a \in Attrs}

\* _prune_stale_response_handlers_locked: expired callbacks that no active wait keeps.
IsStale(i) == handlers[i] # NoHandler /\ handlers[i].stale /\ i \notin ActiveIds
Pruned == [i \in Ids |-> IF IsStale(i) THEN NoHandler ELSE handlers[i]]

\* _activate_wait_request_locked, reached from clear_wait_error with an id.  A
\* caller inside a command leaves the legacy unscoped entries alone.
Legacy(c, a) == IF c \in InCommand THEN {} ELSE {Key(a, Unscoped)}
ActivateWait(c, a, i) ==
    /\ active' = [active EXCEPT ![a] = @ \cup {i}]
    /\ retired' = [retired EXCEPT ![a] = @ \ {i}]
    /\ acks' = acks \ ({Key(a, i)} \cup Legacy(c, a))
    /\ errors' = errors \ ({Key(a, i)} \cup Legacy(c, a))

\* retire_wait_request for one id.
RetireWait(c, a, i) ==
    LET last == active[a] = {i}
        gone == {Key(a, i)} \cup (IF last THEN Legacy(c, a) ELSE {})
    IN  /\ retired' = [retired EXCEPT ![a] = @ \cup {i}]
        /\ active' = [active EXCEPT ![a] = @ \ {i}]
        /\ handlers' = [handlers EXCEPT ![i] = NoHandler]
        /\ acks' = acks \ gone
        /\ errors' = errors \ gone

\* Mutants: an outcome of a retired id falls back to the unscoped slot; an
\* outcome is filed under its id without asking who waits.
SlotsNoQuarantine(a, i) ==
    IF i \in active[a] THEN {Key(a, i)} ELSE IF active[a] # {} THEN {} ELSE {Key(a, Unscoped)}
SlotsUnchecked(a, i) == {Key(a, i)}

\* _resolve_wait_outcome_locked: the slots an outcome for (a, i) is recorded
\* under.  A reply to a retired id, or to an id outside the active scope, is ignored.
Slots(a, i) ==
    IF i \in active[a] THEN {Key(a, i)}
    ELSE IF active[a] # {} \/ i \in retired[a] THEN {}
    ELSE {Key(a, Unscoped)}

\* set_wait_error and mark_wait_acknowledged; the legacy flag follows an outcome
\* that was recorded while the attribute had no scope.
Latch(a, i) == IF Slots(a, i) # {} /\ active[a] = {} THEN {a} ELSE {}
SetWaitError(a, i) ==
    /\ errors' = errors \cup Slots(a, i)
    /\ latched' = latched \cup Latch(a, i)
    /\ UNCHANGED acks
MarkAcknowledged(a, i) ==
    /\ acks' = acks \cup Slots(a, i)
    /\ latched' = latched \cup Latch(a, i)
    /\ UNCHANGED errors

----------------------------------------------------------------------------
(* The callers: _send_data_with_wait, the waitFor methods, bounded getters. *)

Request(c) == [owner |-> c, call |-> call[c]]
Goto(c, place) == pc' = [pc EXCEPT ![c] = place]
After(c) == IF c \in InCommand THEN "closing" ELSE "idle"

\* Draw a packet id that nothing reserves at the time of the (advisory) read.
Choose(c, i) ==
    /\ pc[c] = "idle" /\ call[c] < MaxCalls
    /\ i \notin Reserved(handlers)
    /\ c \in InCommand => \A d \in InCommand : pc[d] = "idle"   \* one command at a time
    /\ pid' = [pid EXCEPT ![c] = i]
    /\ call' = [call EXCEPT ![c] = @ + 1]
    /\ verdict' = [verdict EXCEPT ![c] = "none"]
    /\ closed' = [closed EXCEPT ![c] = FALSE]
    /\ Goto(c, "chosen")
    /\ UNCHANGED <<stateVars, air, rx>>

\* Mutant: the registration replaces whatever holds the id.
RegisterAnyway(c) ==
    /\ pc[c] = "chosen"
    /\ handlers' = [Pruned EXCEPT ![pid[c]] = [req |-> Request(c), stale |-> FALSE]]
    /\ Goto(c, IF HasWait(c) THEN "registered" ELSE "armed")
    /\ UNCHANGED <<active, retired, acks, errors, latched, pid, call, verdict, closed, air, rx>>

\* add_response_handler(reject_if_registered=True): a late collision fails the
\* send before anything is transmitted.
Register(c) ==
    LET i == pid[c]
        taken == i \in Reserved(Pruned)
    IN  /\ pc[c] = "chosen"
        /\ handlers' = IF taken THEN Pruned
                       ELSE [Pruned EXCEPT ![i] = [req |-> Request(c), stale |-> FALSE]]
        /\ Goto(c, IF taken THEN "idle" ELSE IF HasWait(c) THEN "registered" ELSE "armed")
        /\ UNCHANGED <<active, retired, acks, errors, latched, pid, call, verdict, closed, air, rx>>

Activate(c) ==
    /\ pc[c] = "registered"
    /\ ActivateWait(c, AttrOf[c], pid[c])
    /\ Goto(c, "armed")
    /\ UNCHANGED <<handlers, latched, pid, call, verdict, closed, air, rx>>

\* The packet reaches the radio; the mesh answers with any of the replies, in
\* any order, each possibly more than once (Correlate).
Transmit(c) ==
    /\ pc[c] = "armed"
    /\ \E ks \in SUBSET Replies[c] :
          air' = air \cup {[req |-> Request(c), id |-> pid[c], kind |-> k] : k \in ks}
    /\ Goto(c, "onAir")
    /\ UNCHANGED <<stateVars, pid, call, verdict, closed, rx>>

\* The send raises, before or after the packet left: undo the bookkeeping.
SendFails(c) ==
    /\ pc[c] \in {"armed", "onAir"}
    /\ IF HasWait(c)
         THEN RetireWait(c, AttrOf[c], pid[c])
         ELSE /\ handlers' = [handlers EXCEPT ![pid[c]] = NoHandler]
              /\ UNCHANGED <<active, retired, acks, errors>>
    /\ Goto(c, After(c))
    /\ UNCHANGED <<latched, pid, call, verdict, closed, air, rx>>

SendReturns(c) ==
    /\ pc[c] = "onAir"
    /\ Goto(c, IF Kind[c] # "async" THEN "waiting" ELSE After(c))
    /\ UNCHANGED <<stateVars, pid, call, verdict, closed, air, rx>>

\* wait_for_request_ack: an error is left for Conclude, an acknowledgment is consumed.
Poll(c) ==
    LET key == Key(AttrOf[c], pid[c])
    IN  /\ pc[c] = "waiting" /\ HasWait(c)
        /\ key \in errors \cup acks
        /\ acks' = IF key \in errors THEN acks ELSE acks \ {key}
        /\ Goto(c, "signalled")
        /\ UNCHANGED <<handlers, active, retired, errors, latched, pid, call, verdict, closed, air, rx>>

\* A bounded getter waits for an event its callback sets.
GetterCompletes(c) ==
    /\ pc[c] = "waiting" /\ Typed(c)
    /\ verdict[c] # "none"
    /\ Goto(c, "retiring")
    /\ UNCHANGED <<stateVars, pid, call, verdict, closed, air, rx>>

TimesOut(c) ==
    /\ pc[c] = "waiting"
    /\ IF HasWait(c)
         THEN Goto(c, "expired") /\ UNCHANGED verdict
         ELSE /\ Goto(c, "retiring")
              /\ verdict' = [verdict EXCEPT ![c] = IF @ = "none" THEN "timeout" ELSE @]
    /\ UNCHANGED <<stateVars, pid, call, closed, air, rx>>

\* Mutant: the timeout is raised before the recorded error is looked at.
ConcludeTimeoutFirst(c) ==
    LET own == {Key(AttrOf[c], pid[c])} \cap errors
    IN  /\ pc[c] \in {"signalled", "expired"}
        /\ errors' = errors \ own
        /\ verdict' = [verdict EXCEPT ![c] =
               IF pc[c] = "expired" THEN "timeout" ELSE IF own # {} THEN "error" ELSE "success"]
        /\ Goto(c, "retiring")
        /\ UNCHANGED <<handlers, active, retired, acks, latched, pid, call, closed, air, rx>>

\* raise_wait_error_if_present, then the timeout error.
Conclude(c) ==
    LET a == AttrOf[c]
        own == {Key(a, pid[c])} \cap errors
        fallback == IF own = {} /\ active[a] = {} THEN {Key(a, Unscoped)} \cap errors ELSE {}
    IN  /\ pc[c] \in {"signalled", "expired"}
        /\ errors' = errors \ (own \cup fallback)
        /\ verdict' = [verdict EXCEPT ![c] =
               IF own \cup fallback # {} THEN "error"
               ELSE IF pc[c] = "expired" THEN "timeout" ELSE "success"]
        /\ Goto(c, "retiring")
        /\ UNCHANGED <<handlers, active, retired, acks, latched, pid, call, closed, air, rx>>

\* The finally clause of every wait; a getter retires under WAIT_ATTR_NAK.
Retire(c) ==
    /\ pc[c] = "retiring"
    /\ RetireWait(c, AttrOf[c], pid[c])
    /\ Goto(c, After(c))
    /\ UNCHANGED <<latched, pid, call, verdict, closed, air, rx>>

\* _CommandScope._cleanup: close the scope, then retire what it still owns.
CloseScope(c) ==
    /\ pc[c] = "closing"
    /\ closed' = [closed EXCEPT ![c] = TRUE]
    /\ Goto(c, "cleanup")
    /\ UNCHANGED <<stateVars, pid, call, verdict, air, rx>>

CleanUp(c) ==
    /\ pc[c] = "cleanup"
    /\ RetireWait(c, AttrOf[c], pid[c])
    /\ Goto(c, "idle")
    /\ UNCHANGED <<latched, pid, call, verdict, closed, air, rx>>

----------------------------------------------------------------------------
(* The receive thread: correlate_inbound_response and the callbacks.       *)

Live(req) == call[req.owner] = req.call
ScopeClosed(req) == req.owner \in InCommand /\ (~Live(req) \/ closed[req.owner])

\* Whether a typed handler takes the packet: matching data, a routing NAK or a
\* decode failure.  A routing ACK and everything else leave it pending.
TypedTakes(k) == k \in {"data", "nak", "bad"}

\* _select_response_handler_for_packet: look the id up and pop the handler.  An
\* untyped handler takes whatever arrives: is_ack_nak_handler is "not
\* ackPermitted", so the last test is true of every untyped registration.
Takes(h, k) == IF Typed(h.req.owner) THEN TypedTakes(k) ELSE TRUE

\* The decode failure of an admin payload ("bad") drops typed handlers, and
\* untyped ones registered with ackPermitted, before any callback.
Drops(h, k) == k = "bad" /\ (Typed(h.req.owner) \/ AckPermitted(h.req.owner))

Correlate(m) ==
    LET h == handlers[m.id]
        found == h # NoHandler
        taken == found /\ ~IsStale(m.id) /\ Takes(h, m.kind)
    IN  /\ rx = NoPacket /\ m \in air
        /\ air' \in {air, air \ {m}}
        /\ handlers' = IF found /\ (IsStale(m.id) \/ taken)
                       THEN [handlers EXCEPT ![m.id] = NoHandler] ELSE handlers
        /\ rx' = IF ~taken THEN NoPacket
                 ELSE [stage |-> IF Drops(h, m.kind) THEN "decodeFailed" ELSE "invoke",
                       packet |-> m, req |-> h.req]
        /\ UNCHANGED <<callerVars, active, retired, acks, errors, latched>>

RxDone == rx' = NoPacket
RxGoes(stage) == rx' = [rx EXCEPT !.stage = stage]

\* Mutant: a decode failure is recorded, but the typed handler is not told.
DecodeFailedQuietly ==
    /\ rx # NoPacket /\ rx.stage = "decodeFailed"
    /\ errors' = errors \cup
           (IF Typed(rx.req.owner) THEN {Key(Nak, rx.packet.id)} ELSE Slots(Nak, rx.packet.id))
    /\ latched' = IF Typed(rx.req.owner) THEN latched ELSE latched \cup {Nak}
    /\ RxDone
    /\ UNCHANGED <<handlers, active, retired, acks, callerVars, air>>

\* _apply_admin_decode_failure_wait_state: the literal key for a typed handler,
\* the historical resolution (and the flag) for the others.
DecodeFailed ==
    /\ rx # NoPacket /\ rx.stage = "decodeFailed"
    /\ IF Typed(rx.req.owner)
         THEN /\ errors' = errors \cup {Key(Nak, rx.packet.id)}
              /\ RxGoes("invoke")
              /\ UNCHANGED <<acks, latched>>
         ELSE /\ errors' = errors \cup Slots(Nak, rx.packet.id)
              /\ latched' = latched \cup {Nak}
              /\ RxDone
              /\ UNCHANGED acks
    /\ UNCHANGED <<handlers, active, retired, callerVars, air>>

\* The callback bound to a command scope looks at the scope first, without its lock.
Invoke ==
    /\ rx # NoPacket /\ rx.stage = "invoke"
    /\ IF ScopeClosed(rx.req) THEN RxDone ELSE RxGoes("run")
    /\ UNCHANGED <<stateVars, callerVars, air>>

\* _on_response_position, _on_response_telemetry, _on_response_waypoint.
RunResponse(a, i, k) ==
    /\ CASE k = "data" -> MarkAcknowledged(a, i)
         [] k \in {"nak", "bad"} -> SetWaitError(a, i)
         [] OTHER -> UNCHANGED <<acks, errors, latched>>
    /\ RxDone
    /\ UNCHANGED <<handlers, verdict>>

\* _on_response_traceroute: a routing ACK re-arms the one-shot handler without
\* asking whether the id is free; inside a command, unless its scope is closed
\* (RearmAlways, the mutant, forgets that check).
RearmAlways(req, i) == handlers' = [Pruned EXCEPT ![i] = [req |-> req, stale |-> FALSE]]
Rearm(req, i) ==
    IF ScopeClosed(req) THEN UNCHANGED handlers
    ELSE handlers' = [Pruned EXCEPT ![i] = [req |-> req, stale |-> FALSE]]
RunTrace(req, a, i, k) ==
    /\ CASE k = "data" -> MarkAcknowledged(a, i) /\ UNCHANGED handlers
         [] k = "ack" -> Rearm(req, i) /\ UNCHANGED <<acks, errors, latched>>
         [] OTHER -> SetWaitError(a, i) /\ UNCHANGED handlers
    /\ RxDone
    /\ UNCHANGED verdict

\* _handle_ack_nak: anything but a clean routing ACK is an error, filed first
\* without a request id and then, in a second section, with it.
RunAck(a, i, k) ==
    /\ IF k = "ack"
         THEN MarkAcknowledged(a, i) /\ RxDone
         ELSE /\ errors' = errors \cup Slots(a, Unscoped)
              /\ latched' = latched \cup {Nak}
              /\ RxGoes("rest")
              /\ UNCHANGED acks
    /\ UNCHANGED <<handlers, verdict>>

\* The closure of _request_admin_response: it files a routing NAK under the
\* literal key, then completes the getter that created it.
RunGetter(req, i, k) ==
    /\ errors' = IF k = "nak" THEN errors \cup {Key(Nak, i)} ELSE errors
    /\ verdict' = IF Live(req) /\ verdict[req.owner] = "none"
                  THEN [verdict EXCEPT ![req.owner] = IF k = "data" THEN "success" ELSE "error"]
                  ELSE verdict
    /\ RxDone
    /\ UNCHANGED <<handlers, acks, latched>>

RunCallback ==
    LET req == rx.req
        c == req.owner
        i == rx.packet.id
        k == rx.packet.kind
    IN  /\ rx # NoPacket /\ rx.stage = "run"
        /\ CASE Kind[c] = "response" -> RunResponse(AttrOf[c], i, k)
             [] Kind[c] = "trace" -> RunTrace(req, AttrOf[c], i, k)
             [] Kind[c] = "ack" -> RunAck(AttrOf[c], i, k)
             [] Kind[c] = "getter" -> RunGetter(req, i, k)
             [] OTHER -> RxDone /\ UNCHANGED <<handlers, acks, errors, latched, verdict>>
        /\ UNCHANGED <<active, retired, pc, pid, call, closed, air>>

RestOfNak ==
    /\ rx # NoPacket /\ rx.stage = "rest"
    /\ SetWaitError(AttrOf[rx.req.owner], rx.packet.id)
    /\ RxDone
    /\ UNCHANGED <<handlers, active, retired, callerVars, air>>

----------------------------------------------------------------------------
(* Time.                                                                   *)

\* RETIRED_WAIT_REQUEST_ID_TTL_SECONDS passes.  No reply is more than that late.
QuarantineEnds(a, i) ==
    /\ i \in retired[a]
    /\ \A m \in air : m.id # i
    /\ rx # NoPacket => rx.packet.id # i
    /\ retired' = [retired EXCEPT ![a] = @ \ {i}]
    /\ UNCHANGED <<handlers, active, acks, errors, latched, callerVars, air, rx>>

\* RESPONSE_HANDLER_TTL_SECONDS pass; no call lasts that long.
HandlerAges(i) ==
    /\ handlers[i] # NoHandler
    /\ LET req == handlers[i].req
       IN ~handlers[i].stale /\ (~Live(req) \/ pc[req.owner] = "idle")
    /\ handlers' = [handlers EXCEPT ![i].stale = TRUE]
    /\ UNCHANGED <<active, retired, acks, errors, latched, callerVars, air, rx>>

CallerStep(c) ==
    \/ Register(c) \/ Activate(c) \/ Transmit(c) \/ SendFails(c) \/ SendReturns(c)
    \/ Poll(c) \/ GetterCompletes(c) \/ TimesOut(c) \/ Conclude(c) \/ Retire(c)
    \/ CloseScope(c) \/ CleanUp(c)

ReceiverStep ==
    \/ DecodeFailed \/ Invoke \/ RunCallback \/ RestOfNak

Next ==
    \/ \E c \in Callers : CallerStep(c) \/ \E i \in Ids : Choose(c, i)
    \/ \E m \in air : Correlate(m)
    \/ ReceiverStep
    \/ \E i \in Ids : HandlerAges(i) \/ \E a \in Attrs : QuarantineEnds(a, i)

Spec == Init /\ [][Next]_vars

\* Every caller is a running thread whose wait has a deadline.
FairSpec == Spec /\ \A c \in Callers : WF_vars(CallerStep(c))

----------------------------------------------------------------------------
(* Properties.                                                             *)

InWait(c) == HasWait(c) /\ pc[c] \in {"armed", "onAir", "waiting", "signalled", "expired", "retiring"}
Owns(c) == pc[c] \in {"registered", "armed", "onAir", "waiting", "signalled", "expired", "retiring"}

\* Two requests with a scoped wait never own the same packet id, although an id
\* is drawn from an unlocked snapshot, a reply may take the handler away at any
\* time, and ids return to the generator (_register_response_handler's
\* reject_if_registered, _reserved_response_ids_locked).
OneOwnerPerId ==
    \A c, d \in Callers : c # d /\ HasWait(c) /\ HasWait(d) /\ Owns(c) /\ Owns(d) => pid[c] # pid[d]

\* The wait scopes are exactly the waits in progress: no wait is retired by
\* another's completion, and none survives its caller (retire_wait_request).
ScopesAreWaits ==
    \A a \in Attrs : active[a] = {pid[c] : c \in {d \in Callers : InWait(d) /\ AttrOf[d] = a}}

\* A recorded outcome of a request id belongs to a wait that is still active:
\* neither a late reply nor a wait that ended in a timeout leaves one behind
\* (_resolve_wait_outcome_locked, retire_wait_request).  Bounded getters file
\* theirs under the literal NAK key instead (record_admin_nak_wait_error).
OutcomesAreActive ==
    \A key \in acks \cup errors :
        \/ key[2] = Unscoped
        \/ key[2] \in active[key[1]]
        \/ key[1] = Nak /\ \E c \in Callers : Typed(c)

\* What is recorded for a wait in progress came from a reply to that very
\* request, never from a reply to an earlier request with the same packet id
\* (the quarantine of retired ids).  Left out are waits under the literal NAK key beside a
\* bounded getter, which files there when its id may have been drawn again (README, section 6).
OutcomesComeFromOwnReply ==
    [][\A c \in Callers :
          (AttrOf[c] = Nak => \A d \in Callers : ~Typed(d)) /\ InWait(c)
            /\ Key(AttrOf[c], pid[c]) \in (acks' \cup errors') \ (acks \cup errors)
             => rx.packet.req = Request(c)]_vars

\* Replies to scoped requests never reach the legacy unscoped state, however
\* late their callback runs ("Late callbacks for retired scoped waits should
\* not write into unscoped state", tests/test_mesh_interface_wait_receive.py:491).
\* The reporter of an admin write (RunAck) does write there, so its attributes are left out.
UnscopedUntouched ==
    \A a \in Attrs : (\A c \in Callers : Kind[c] = "ack" => a \notin {AttrOf[c], Nak}) =>
        Key(a, Unscoped) \notin acks \cup errors /\ a \notin latched

\* While a bounded getter waits without a result, a reply can still complete it:
\* its handler is registered, or the receive thread is delivering to it.  No
\* routing ACK, expiry, decode failure or retirement by another caller strands
\* it until its timeout (_select_response_handler_for_packet, expected_payload).
GetterCanComplete ==
    \A c \in Callers :
        Typed(c) /\ pc[c] = "waiting" /\ verdict[c] = "none" =>
            \/ handlers[pid[c]] # NoHandler /\ handlers[pid[c]].req = Request(c)
            \/ rx # NoPacket /\ rx.req = Request(c)

\* When a command has ended, no response handler of its requests remains, even
\* if the receive thread was re-arming one at that moment
\* (_CommandScope._register_handler against _cleanup).
NoHandlerAfterCommand ==
    \A i \in Ids : handlers[i] # NoHandler =>
        LET c == handlers[i].req.owner
        IN c \in InCommand => Live(handlers[i].req) /\ pc[c] # "idle"

\* On every exit a bounded getter has retired any NAK wait error recorded for
\* its request id (docs/internals/admin-response-contracts.md:239-242).
\* The code does not keep it (README, section 6), so no run checks it.
GetterLeavesNothing ==
    \A c \in Callers :
        Typed(c) /\ pc[c] = "idle" /\ verdict[c] = "timeout" => Key(Nak, pid[c]) \notin errors

\* A callback registered without ackPermitted is not triggered by an ACK-only
\* response (onResponseAckPermitted, mesh_interface.py:912-913); the admin ACK
\* reporter, which is meant to see ACKs, is exempt.
\* The code does not keep it (README, section 6), so no run checks it.
AckOnlyNeverTriggers ==
    rx # NoPacket /\ rx.packet.kind = "ack" =>
        AckPermitted(rx.req.owner) \/ Kind[rx.req.owner] = "ack"

\* An error recorded while a wait is in progress is what that wait reports,
\* even when it is recorded after an acknowledgment or at the deadline
\* (wait_for_request_ack, raise_wait_error_if_present).
ErrorIsReported ==
    \A c \in Callers :
        HasWait(c) /\ pc[c] \in {"waiting", "signalled", "expired"} /\ Key(AttrOf[c], pid[c]) \in errors
            ~> verdict[c] = "error"
=============================================================================
