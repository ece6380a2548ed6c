------------------------------ MODULE TxQueue ------------------------------
(***************************************************************************)
(* The firmware TX queue of a MeshInterface                                *)
(* (mesh_interface_runtime/queue_send.py, _QueueSendRuntime).              *)
(*                                                                         *)
(* Sender threads run _send_to_radio(): each admits its packet, drains the *)
(* shared queue through the transport and reconciles what it sent.  The    *)
(* receive thread applies the QueueStatus replies of the device.  One      *)
(* action is one critical section of _queue_lock together with the         *)
(* thread-local code that follows it.                                      *)
(*                                                                         *)
(* A queue key is the packet ID, or a private negative key for a packet    *)
(* whose ID (zero) the firmware will assign.  A queue value is a packet,   *)
(* or Acked (the Boolean False of the code): an acknowledgement that came  *)
(* for a packet not in the queue.                                          *)
(***************************************************************************)
EXTENDS OrderedDict

CONSTANTS
    Senders,        \* threads that call _send_to_radio
    Packets,        \* ToRadio objects
    PacketId,       \* their packet IDs, 0 when the firmware assigns one
    LocalPackets,   \* those addressed to the local node: no RF slot needed
    ForeignIds,     \* IDs the device reports that this host did not assign
    NoPacket,       \* no packet
    Acked,          \* the value False in the queue
    MaxLen,         \* QueueStatus.maxlen: RF slots of the firmware
    MaxTombstones,  \* MAX_UNEXPECTED_ACK_TOMBSTONES
    AgingIds,       \* bound: IDs whose TTLs may expire
    MaxCalls,       \* bound: calls of _send_to_radio
    MaxReplies      \* bound: QueueStatus messages received

ASSUME PacketsAssumption ==
    /\ PacketId \in [Packets -> Nat]
    /\ LocalPackets \subseteq Packets
    /\ {NoPacket, Acked, Absent} \cap Packets = {}
    /\ Acked # Absent /\ NoPacket # Absent /\ NoPacket # Acked

ASSUME BoundsAssumption ==
    /\ MaxLen \in Nat /\ MaxTombstones \in Nat
    /\ MaxCalls \in Nat /\ MaxReplies \in Nat
    /\ ForeignIds \subseteq Nat \ {0}

ASSUME SendersAssumption == IsFiniteSet(Senders)

Ids == ({PacketId[p] : p \in Packets} \ {0}) \cup ForeignIds
ZeroKeys == (0 - MaxCalls)..(-1)
Keys == Ids \cup ZeroKeys
Values == Packets \cup {Acked, Absent}
NoStatus == -2      \* free when queueStatus is None

VARIABLES
    queue,          \* OrderedDict of unsent and requeued packets, and markers
    free,           \* queueStatus.free, or NoStatus
    statusSeen,     \* _queue_status_seen
    localNodeKnown, \* myInfo is known
    usesCapacity,   \* _packet_uses_capacity_by_id: "rf", "local" or "unset"
    claimedKeys,    \* keys that hold a slot of the CURRENT QueueStatus object
    awaiting,       \* _awaiting_queue_status_ids, with its age
    claims,         \* _active_send_id_claims; _active_send_ids is its support
    retryable,      \* _retryable_failed_packets
    nextZeroKey,    \* _next_zero_queue_key
    tombstones      \* _unexpected_ack_tombstones, with their age

VARIABLES
    pc,             \* where each sender is
    incoming,       \* its to_radio
    queuedKey,      \* its queued_key
    isLocal,        \* it runs the capacity-exempt loop
    resent,         \* its resent_queue
    sent,           \* its sent_packet_ids
    popped,         \* its popped_send_ids
    cur,            \* key of the packet in send_impl or under reconciliation
    got,            \* queued_value read by the reconciliation
    cap,            \* and its uses_capacity ("unset" for None)
    result          \* how its last call ended

VARIABLES
    reader,         \* the QueueStatus the receive thread is applying
    air,            \* IDs the device has received and not yet reported on
    calls, replies, \* budgets used
    reported,       \* history: free in the last QueueStatus
    settled,        \* history: packets the device has received, or a call that
                    \* timed out has withdrawn
    early           \* history: IDs acknowledged while in the transport

statusVars == <<free, statusSeen>>
markVars == <<awaiting, tombstones>>
onceVars == <<localNodeKnown, nextZeroKey>>
queueVars == <<queue, statusVars, usesCapacity, claimedKeys, claims, retryable,
               markVars, onceVars>>
callVars == <<incoming, queuedKey, isLocal>>
loopVars == <<resent, sent, popped>>
entryVars == <<got, cap>>
senderVars == <<pc, callVars, loopVars, cur, entryVars, result>>
deviceVars == <<reader, air, calls, replies, reported, settled, early>>
vars == <<queueVars, senderVars, deviceVars>>

-----------------------------------------------------------------------------
\* Helpers

IsPacket(v) == v \in Packets
IdOfKey(k) == IF k > 0 THEN k ELSE 0
NeverActive(k) == FALSE   \* mutant
Active(k) == k \in Ids /\ claims[k] > 0
Idle == [id |-> 0, res |-> FALSE]

InSendImpl(s) == pc[s] \in {"send", "onAir"}

\* A QueueStatus was received and reports no free RF slot.
Full == free = 0

\* The slots claimed before a new QueueStatus that may be returned to it.
AllSurvive == claimedKeys    \* mutant: refunds a slot of another snapshot
SurvivingClaims == {}

\* _packet_uses_tx_queue_capacity: a packet addressed to the local node is
\* loopback-delivered, once the local node number is known.
Classify(p) == IF localNodeKnown /\ p \in LocalPackets THEN "local" ELSE "rf"

\* _queued_packet_uses_capacity_locked: the first classification sticks.
CapacityIn(u, k, p) == IF u[k] = "unset" THEN Classify(p) ELSE u[k]
CapacityOf(k, p) == CapacityIn(usesCapacity, k, p)

\* The key holds a packet that needs no RF slot.
QueuedLocalIn(u, d, k) ==
    IsPacket(d.val[k]) /\ CapacityIn(u, k, d.val[k]) = "local"
QueuedLocal(k) == QueuedLocalIn(usesCapacity, queue, k)

\* The classifications u after a loop over the packets of d that stops at the
\* first capacity-exempt one: every packet it visits has been classified.
ClassifyVisited(u, d) ==
    LET visited == OdVisited(d, LAMBDA j : QueuedLocalIn(u, d, j)) IN
    [k \in Keys |-> IF k \in visited /\ IsPacket(d.val[k])
                    THEN CapacityIn(u, k, d.val[k]) ELSE u[k]]

\* _forget_capacity_state_locked for every key of S, applied to the three
\* maps it clears.
ForgetNothing(u, S) == u    \* mutant
ForgetCapacity(u, S) == [k \in Keys |-> IF k \in S THEN "unset" ELSE u[k]]
ForgetRetry(r, S) == [k \in Ids |-> IF k \in S THEN NoPacket ELSE r[k]]

Forget(S) ==
    /\ usesCapacity' = ForgetCapacity(usesCapacity, S)
    /\ claimedKeys' = claimedKeys \ S
    /\ retryable' = ForgetRetry(retryable, S)

\* Entries of _awaiting_queue_status_ids older than their TTL.
Stale == {k \in Keys : awaiting[k] = "old"}

\* _prune_unexpected_ack_tombstones_locked: the tombstones t it removes.
\* Expired ones go, then the oldest until the count bound holds, and never
\* one whose packet ID is being sent.
Evicted(t) ==
    LET idle == {n \in DOMAIN t.ord : ~Active(t.ord[n])}
        old == {n \in idle : t.val[t.ord[n]] = "old"}
        excess == Len(t.ord) - Cardinality(old) - MaxTombstones
        oldest == {n \in idle \ old : Cardinality((idle \ old) \cap 1..n) <= excess}
    IN  {t.ord[n] : n \in old \cup oldest}

\* The queue without the markers of the evicted tombstones.
WithoutMarkers(q, S) == OdDrop(q, {k \in S : q.val[k] = Acked})

\* The claims on ID i: one per packet with that ID that s has popped, and one
\* of the call of s that sends a packet with that ID.
PoppedClaims(s, i) ==
    {<<s, n>> : n \in {m \in 1..Len(popped[s]) : popped[s][m] = i}}
OwnClaims(s, i) ==
    IF pc[s] # "idle" /\ PacketId[incoming[s]] = i THEN {<<s, 0>>} ELSE {}
Holders(i) == UNION {OwnClaims(s, i) \cup PoppedClaims(s, i) : s \in Senders}

\* _release_active_send_id_locked, n times: never below zero.
MinusAll(c, n) == IF n > 0 THEN 0 ELSE c    \* mutant: every owner's claim
Minus(c, n) == IF c > n THEN c - n ELSE 0

AgeOf == {"no", "fresh", "old"}
PcOf == {"idle", "pop", "popLocal", "forgetAcked", "checkEmpty", "blocked",
         "send", "onAir", "reconcile", "settle", "release", "releaseOwn"}
ResultOf == {"none", "ok", "duplicate", "transport", "queueWait", "deadline"}

-----------------------------------------------------------------------------
Init ==
    /\ queue = OdEmpty(Keys)
    /\ free = NoStatus
    /\ statusSeen = FALSE
    /\ localNodeKnown = FALSE
    /\ usesCapacity = [k \in Keys |-> "unset"]
    /\ claimedKeys = {}
    /\ awaiting = [k \in Keys |-> "no"]
    /\ claims = [i \in Ids |-> 0]
    /\ retryable = [i \in Ids |-> NoPacket]
    /\ nextZeroKey = -1
    /\ tombstones = OdEmpty(Keys)
    /\ pc = [s \in Senders |-> "idle"]
    /\ incoming = [s \in Senders |-> NoPacket]
    /\ queuedKey = [s \in Senders |-> 0]
    /\ isLocal = [s \in Senders |-> FALSE]
    /\ resent = [s \in Senders |-> OdEmpty(Keys)]
    /\ sent = [s \in Senders |-> {}]
    /\ popped = [s \in Senders |-> << >>]
    /\ cur = [s \in Senders |-> 0]
    /\ got = [s \in Senders |-> Absent]
    /\ cap = [s \in Senders |-> "unset"]
    /\ result = [s \in Senders |-> "none"]
    /\ reader = Idle
    /\ air = {}
    /\ calls = 0
    /\ replies = 0
    /\ reported = NoStatus
    /\ settled = {}
    /\ early = {}

-----------------------------------------------------------------------------
\* Admission (_send_to_radio up to the first critical section)

\* The ID is already owned: by a call, or by a queued packet other than the
\* one whose transport send failed.
IsDuplicate(p) ==
    LET i == PacketId[p] IN
    /\ i # 0
    /\ \/ Active(i)
       \/ IsPacket(queue.val[i]) /\ queue.val[i] # retryable[i]

\* ValueError("Packet ID ... is already queued or in flight")
RejectDuplicate(s, p) ==
    /\ pc[s] = "idle"
    /\ IsDuplicate(p)
    /\ result' = [result EXCEPT ![s] = "duplicate"]
    /\ UNCHANGED <<queueVars, deviceVars, callVars, loopVars, entryVars, pc,
                   cur>>

Admit(s, p) ==
    LET i == PacketId[p]
        k == IF i = 0 THEN nextZeroKey ELSE i IN
    /\ pc[s] = "idle"
    /\ calls < MaxCalls
    /\ ~IsDuplicate(p)
    /\ queue' = OdPut(queue, k, p)
    /\ nextZeroKey' = IF i = 0 THEN nextZeroKey - 1 ELSE nextZeroKey
    /\ retryable' = ForgetRetry(retryable, {k})
    /\ tombstones' = OdPop(tombstones, k)
    /\ usesCapacity' = [usesCapacity EXCEPT ![k] = Classify(p)]
    /\ claimedKeys' = claimedKeys \ {k}
    /\ claims' = IF i = 0 THEN claims ELSE [claims EXCEPT ![i] = @ + 1]
    /\ isLocal' = [isLocal EXCEPT ![s] = (Classify(p) = "local")]
    /\ pc' = [pc EXCEPT ![s] = IF Classify(p) = "local" THEN "popLocal" ELSE "pop"]
    /\ incoming' = [incoming EXCEPT ![s] = p]
    /\ queuedKey' = [queuedKey EXCEPT ![s] = k]
    /\ resent' = [resent EXCEPT ![s] = OdEmpty(Keys)]
    /\ sent' = [sent EXCEPT ![s] = {}]
    /\ popped' = [popped EXCEPT ![s] = << >>]
    /\ result' = [result EXCEPT ![s] = "ok"]
    /\ calls' = calls + 1
    /\ early' = early \ {i}
    /\ settled' = IF i # 0 /\ i \in air \cup {reader.id} THEN settled ELSE settled \ {p}
    /\ UNCHANGED <<statusVars, entryVars, localNodeKnown, awaiting, cur,
                   reader, air, replies, reported>>

-----------------------------------------------------------------------------
\* The send loops

\* The packet p popped under key k is handed to send_impl by s, which holds
\* one more claim on its ID while it does.
StartSend(s, k, p) ==
    LET i == PacketId[p] IN
    /\ claims' = IF i = 0 THEN claims ELSE [claims EXCEPT ![i] = @ + 1]
    /\ popped' = IF i = 0 THEN popped
                 ELSE [popped EXCEPT ![s] = Append(@, i)]
    /\ resent' = [resent EXCEPT ![s] = OdPut(@, k, p)]
    /\ cur' = [cur EXCEPT ![s] = k]
    /\ pc' = [pc EXCEPT ![s] = "send"]
    /\ sent' = sent

\* A marker popped under key k acknowledges a packet this loop has sent, or
\* is carried along to be dropped by the reconciliation.
TakeMarker(s, k) ==
    /\ IF k \in sent[s]
       THEN /\ resent' = [resent EXCEPT ![s] = OdPop(@, k)]
            /\ sent' = [sent EXCEPT ![s] = @ \ {k}]
            /\ cur' = [cur EXCEPT ![s] = k]
            /\ pc' = [pc EXCEPT ![s] = "forgetAcked"]
       ELSE /\ resent' = [resent EXCEPT ![s] = OdPut(@, k, Acked)]
            /\ UNCHANGED <<sent, cur, pc>>
    /\ UNCHANGED <<claims, popped>>

\* _pop_for_send_locked with RF slots free, or before any QueueStatus: the
\* oldest entry, which takes a slot if it needs one.
PopOldest(s) ==
    /\ pc[s] = "pop"
    /\ ~Full
    /\ \E k \in Keys :
        LET v == queue.val[k]
            counted == IsPacket(v) /\ free # NoStatus
            charged == counted /\ CapacityOf(k, v) = "rf" IN
        /\ OdIsFirst(queue, k, LAMBDA j : TRUE)
        /\ v # Absent
        /\ queue' = OdPop(queue, k)
        /\ tombstones' = OdPop(tombstones, k)
        /\ retryable' = ForgetRetry(retryable, {k})
        /\ usesCapacity' = IF counted
                           THEN [usesCapacity EXCEPT ![k] = CapacityOf(k, v)]
                           ELSE usesCapacity
        /\ free' = IF charged THEN free - 1 ELSE free
        /\ claimedKeys' = IF charged THEN claimedKeys \cup {k} ELSE claimedKeys
        /\ IF IsPacket(v) THEN StartSend(s, k, v) ELSE TakeMarker(s, k)
    /\ UNCHANGED <<deviceVars, onceVars, callVars, entryVars, statusSeen,
                   awaiting, result>>

\* _pop_for_send_locked with no RF slot free and a marker in front.
PopMarker(s) ==
    /\ pc[s] = "pop"
    /\ Full
    /\ \E k \in Keys :
        /\ OdIsFirst(queue, k, LAMBDA j : TRUE)
        /\ queue.val[k] = Acked
        /\ queue' = OdPop(queue, k)
        /\ tombstones' = OdPop(tombstones, k)
        /\ TakeMarker(s, k)
    /\ UNCHANGED <<deviceVars, statusVars, onceVars, callVars, entryVars,
                   usesCapacity, claimedKeys, awaiting, retryable, result>>

\* The front of the queue needs an RF slot and there is none.
RfBlocked == Full /\ queue.ord # << >> /\ queue.val[Head(queue.ord)] # Acked

\* _pop_capacity_exempt_locked, for the RF loop out of slots and for the
\* capacity-exempt loop.
PopLocal(s) ==
    /\ pc[s] = "popLocal" \/ (pc[s] = "pop" /\ RfBlocked)
    /\ \E k \in Keys :
        /\ IsPacket(queue.val[k])
        /\ OdIsFirst(queue, k, LAMBDA j : QueuedLocal(j))
        /\ queue' = OdPop(queue, k)
        /\ retryable' = ForgetRetry(retryable, {k})
        /\ usesCapacity' = ClassifyVisited(usesCapacity, queue)
        /\ StartSend(s, k, queue.val[k])
    /\ UNCHANGED <<deviceVars, statusVars, markVars, onceVars, callVars,
                   entryVars, claimedKeys, result>>

\* Nothing can be popped: the RF loop looks whether anything is queued, the
\* capacity-exempt loop is done.
PopNothing(s) ==
    /\ \/ pc[s] = "popLocal"
       \/ pc[s] = "pop" /\ (queue.ord = << >> \/ RfBlocked)
    /\ ~\E k \in Keys : QueuedLocal(k)
    /\ usesCapacity' = ClassifyVisited(usesCapacity, queue)
    /\ pc' = [pc EXCEPT ![s] = IF @ = "pop" THEN "checkEmpty" ELSE "reconcile"]
    /\ UNCHANGED <<deviceVars, statusVars, markVars, onceVars, callVars,
                   loopVars, entryVars, queue, claimedKeys, claims, retryable,
                   cur, result>>

\* The critical section after an acknowledged packet was taken out of
\* resent_queue.
ForgetAcked(s) ==
    /\ pc[s] = "forgetAcked"
    /\ Forget({cur[s]})
    /\ pc' = [pc EXCEPT ![s] = "pop"]
    /\ UNCHANGED <<deviceVars, statusVars, markVars, onceVars, callVars,
                   loopVars, entryVars, queue, claims, cur, result>>

\* queue_has_items
CheckEmpty(s) ==
    /\ pc[s] = "checkEmpty"
    /\ pc' = [pc EXCEPT ![s] = IF queue.ord = << >> THEN "reconcile" ELSE "blocked"]
    /\ UNCHANGED <<queueVars, deviceVars, callVars, loopVars, entryVars, cur,
                   result>>

\* sleep_fn, then the loop again.
KeepWaiting(s) ==
    /\ pc[s] = "blocked"
    /\ pc' = [pc EXCEPT ![s] = "pop"]
    /\ UNCHANGED <<queueVars, deviceVars, callVars, loopVars, entryVars, cur,
                   result>>

\* _drop_unsent_incoming: never drops another owner's packet.
DropUnsent(s) ==
    LET k == queuedKey[s] IN
    IF queue.val[k] = incoming[s]
    THEN /\ queue' = OdPop(queue, k)
         /\ Forget({k})
         /\ settled' = settled \cup {incoming[s]}
    ELSE /\ usesCapacity' = IF IsPacket(queue.val[k])
                            THEN [usesCapacity EXCEPT ![k] = Classify(queue.val[k])]
                            ELSE usesCapacity
         /\ claimedKeys' = IF IsPacket(queue.val[k]) THEN claimedKeys \ {k}
                           ELSE claimedKeys
         /\ UNCHANGED <<queue, retryable, settled>>

\* QueueWaitError: the interface is closing, failed or disconnected, or the
\* 30 s of waiting for an RF slot have passed.
WaitForever(s) == FALSE    \* mutant: no bound on the wait
GiveUp(s) ==
    /\ pc[s] = "blocked"
    /\ DropUnsent(s)
    /\ result' = [result EXCEPT ![s] = "queueWait"]
    /\ pc' = [pc EXCEPT ![s] = "reconcile"]
    /\ UNCHANGED <<statusVars, markVars, onceVars, callVars, loopVars,
                   entryVars, claims, cur, reader, air, calls, replies,
                   reported, early>>

\* _DeadlineExpired of the enclosing operation, at the top of the loop or in
\* the sleep: the packet is dropped unless this loop has sent it.
DeadlineExpired(s) ==
    /\ pc[s] \in {"pop", "blocked"}
    /\ IF queuedKey[s] \in sent[s]
       THEN UNCHANGED <<queue, usesCapacity, claimedKeys, retryable, settled>>
       ELSE DropUnsent(s)
    /\ result' = [result EXCEPT ![s] = "deadline"]
    /\ pc' = [pc EXCEPT ![s] = "reconcile"]
    /\ UNCHANGED <<statusVars, markVars, onceVars, callVars, loopVars,
                   entryVars, claims, cur, reader, air, calls, replies,
                   reported, early>>

-----------------------------------------------------------------------------
\* send_impl: the transport write, whose failure is ambiguous

Transmit(s) ==
    /\ pc[s] = "send"
    /\ air' = IF IdOfKey(cur[s]) = 0 THEN air ELSE air \cup {cur[s]}
    /\ settled' = settled \cup {resent[s].val[cur[s]]}
    /\ pc' = [pc EXCEPT ![s] = "onAir"]
    /\ UNCHANGED <<queueVars, callVars, loopVars, entryVars, cur, result,
                   reader, calls, replies, reported, early>>

SendReturns(s) ==
    /\ pc[s] = "onAir"
    /\ sent' = [sent EXCEPT ![s] = @ \cup {cur[s]}]
    /\ pc' = [pc EXCEPT ![s] = IF isLocal[s] THEN "popLocal" ELSE "pop"]
    /\ UNCHANGED <<queueVars, deviceVars, callVars, entryVars, resent, popped,
                   cur, result>>

\* The device may or may not have received the packet.
SendRaises(s) ==
    LET i == IdOfKey(cur[s]) IN
    /\ pc[s] \in {"send", "onAir"}
    /\ retryable' = IF i = 0 THEN retryable
                    ELSE [retryable EXCEPT ![i] = resent[s].val[i]]
    /\ result' = [result EXCEPT ![s] = "transport"]
    /\ pc' = [pc EXCEPT ![s] = "reconcile"]
    /\ UNCHANGED <<deviceVars, statusVars, markVars, onceVars, callVars,
                   loopVars, entryVars, queue, usesCapacity, claimedKeys,
                   claims, cur>>

-----------------------------------------------------------------------------
\* _reconcile_resent_queue, one entry at a time in two critical sections

\* First: take whatever the queue now holds under the key.
Reconcile(s) ==
    /\ pc[s] = "reconcile"
    /\ \E k \in Keys :
        LET v == resent[s].val[k] IN
        /\ OdIsFirst(resent[s], k, LAMBDA j : TRUE)
        /\ v # Absent
        /\ usesCapacity' = IF IsPacket(v)
                           THEN [usesCapacity EXCEPT ![k] = CapacityOf(k, v)]
                           ELSE usesCapacity
        /\ cap' = [cap EXCEPT ![s] = IF IsPacket(v) THEN CapacityOf(k, v)
                                     ELSE "unset"]
        /\ got' = [got EXCEPT ![s] = queue.val[k]]
        /\ queue' = OdPop(queue, k)
        /\ tombstones' = IF queue.val[k] = Acked THEN OdPop(tombstones, k)
                         ELSE tombstones
        /\ cur' = [cur EXCEPT ![s] = k]
    /\ pc' = [pc EXCEPT ![s] = "settle"]
    /\ UNCHANGED <<deviceVars, statusVars, onceVars, callVars, loopVars,
                   claimedKeys, awaiting, claims, retryable, result>>

ReconcileDone(s) ==
    /\ pc[s] = "reconcile"
    /\ resent[s].ord = << >>
    /\ pc' = [pc EXCEPT ![s] = "release"]
    /\ UNCHANGED <<queueVars, deviceVars, callVars, loopVars, entryVars, cur,
                   result>>

\* What the reconciliation of key k of s puts back in the queue, if anything:
\* the packet it found there, else the packet that was not sent.
DropUnsentPacket(s, k) == IF IsPacket(got[s]) THEN got[s] ELSE Absent  \* mutant
ToRequeue(s, k) ==
    IF IsPacket(got[s]) THEN got[s]
    ELSE IF IsPacket(resent[s].val[k]) /\ k \notin sent[s] /\ got[s] = Absent
    THEN resent[s].val[k]
    ELSE Absent

\* A reply about the packet is still due: sent, and not seen acknowledged.
ReplyDue(s, k) == got[s] = Absent /\ k \in sent[s]

FinishEntry(s, k) ==
    /\ resent' = [resent EXCEPT ![s] = OdPop(@, k)]
    /\ got' = [got EXCEPT ![s] = Absent]
    /\ cap' = [cap EXCEPT ![s] = "unset"]
    /\ pc' = [pc EXCEPT ![s] = "reconcile"]
    /\ UNCHANGED <<deviceVars, onceVars, callVars, statusSeen, claims,
                   tombstones, sent, popped, cur, result>>

\* Second, acknowledged under us, a marker of nobody, or a zero-ID packet
\* that was sent: nothing more is expected.
SettleDone(s) ==
    LET k == cur[s] IN
    /\ pc[s] = "settle"
    /\ ToRequeue(s, k) = Absent
    /\ ~ReplyDue(s, k) \/ IdOfKey(k) = 0
    /\ Forget({k})
    /\ FinishEntry(s, k)
    /\ UNCHANGED <<queue, free, awaiting>>

\* Second, sent: remember that a QueueStatus reply is due, if the firmware
\* sends them.
SettleSent(s) ==
    LET k == cur[s]
        track == statusSeen \/ cap[s] = "local"
        forgotten == Stale \cup (IF track THEN {} ELSE {k}) IN
    /\ pc[s] = "settle"
    /\ ReplyDue(s, k)
    /\ IdOfKey(k) # 0
    /\ usesCapacity' = ForgetCapacity(usesCapacity, forgotten)
    /\ claimedKeys' = claimedKeys \ (forgotten \cup {k})
    /\ retryable' = ForgetRetry(retryable, forgotten)
    /\ awaiting' = [j \in Keys |-> IF j = k /\ track THEN "fresh"
                                   ELSE IF j \in Stale THEN "no"
                                   ELSE awaiting[j]]
    /\ FinishEntry(s, k)
    /\ UNCHANGED <<queue, free>>

\* _requeue_capacity_exempt_packet_locked: in front of the first
\* capacity-exempt packet, under the classifications u.  An entry that is
\* already queued under the key at or after that place keeps its value.
PutBeforeLocal(u, d, k, p) ==
    LET i == SelectInSeq(d.ord, LAMBDA j : QueuedLocalIn(u, d, j))
        j == SelectInSeq(d.ord, LAMBDA x : x = k)
    IN  IF i = 0 \/ (0 < j /\ j < i) THEN OdPut(d, k, p)
        ELSE [val |-> IF OdHas(d, k) THEN d.val ELSE [d.val EXCEPT ![k] = p],
              ord |-> InsertAt(Remove(d.ord, k), i, k)]

\* Second, not sent, or replaced in the queue: back into the queue, and the
\* RF slot it had claimed is returned to the QueueStatus it was taken from.
SettleRequeue(s) ==
    LET k == cur[s]
        p == ToRequeue(s, k)
        replaced == IsPacket(got[s]) /\ got[s] # resent[s].val[k]
        c == IF replaced THEN Classify(got[s]) ELSE cap[s]
        u == IF replaced THEN [usesCapacity EXCEPT ![k] = c] ELSE usesCapacity
        refund == k \in claimedKeys /\ k \notin sent[s] /\ free < MaxLen IN
    /\ pc[s] = "settle"
    /\ p # Absent
    /\ claimedKeys' = claimedKeys \ {k}
    /\ free' = IF refund THEN free + 1 ELSE free
    /\ IF c = "local"
       THEN /\ queue' = PutBeforeLocal(u, queue, k, p)
            /\ usesCapacity' = ClassifyVisited(u, queue)
       ELSE /\ queue' = OdPut(queue, k, p)
            /\ usesCapacity' = u
    /\ FinishEntry(s, k)
    /\ UNCHANGED <<awaiting, retryable>>

-----------------------------------------------------------------------------
\* The end of a call: ownership of the IDs is given up

\* The claims s took by popping, and in the RF loop its own, in one critical
\* section.
Released(s, i) ==
    PoppedClaims(s, i) \cup (IF isLocal[s] THEN {} ELSE OwnClaims(s, i))
Release(s) ==
    /\ pc[s] = "release"
    /\ claims' = [i \in Ids |-> Minus(claims[i], Cardinality(Released(s, i)))]
    /\ popped' = [popped EXCEPT ![s] = << >>]
    /\ pc' = [pc EXCEPT ![s] = IF isLocal[s] THEN "releaseOwn" ELSE "idle"]
    /\ UNCHANGED <<deviceVars, statusVars, markVars, onceVars, callVars,
                   entryVars, queue, usesCapacity, claimedKeys, retryable,
                   resent, sent, cur, result>>

\* The outer finally of a capacity-exempt call.
ReleaseOwn(s) ==
    LET i == PacketId[incoming[s]] IN
    /\ pc[s] = "releaseOwn"
    /\ claims' = IF i = 0 THEN claims ELSE [claims EXCEPT ![i] = Minus(@, 1)]
    /\ pc' = [pc EXCEPT ![s] = "idle"]
    /\ UNCHANGED <<deviceVars, statusVars, markVars, onceVars, callVars,
                   loopVars, entryVars, queue, usesCapacity, claimedKeys,
                   retryable, cur, result>>

-----------------------------------------------------------------------------
\* The receive thread

\* _record_queue_status: the new QueueStatus object replaces the old one, so
\* no slot claimed from the old one can be returned to it any more.  A
\* message about ID 0 is correlated with nothing.
ReceiveStatus(i, res, f) ==
    /\ reader = Idle
    /\ replies < MaxReplies
    /\ i \in {0} \cup air \cup ForeignIds
    /\ statusSeen' = TRUE
    /\ free' = f
    /\ reported' = f
    /\ claimedKeys' = SurvivingClaims
    /\ replies' = replies + 1
    /\ air' = air \ {i}
    /\ reader' = [id |-> i, res |-> res]
    /\ UNCHANGED <<senderVars, markVars, onceVars, queue, usesCapacity, claims,
                   retryable, calls, settled, early>>

\* A QueueStatus that reports an error (res): the reply is no longer
\* awaited, or is marked for the sender that has the packet in send_impl.
ApplyError ==
    LET i == reader.id
        known == i \in Keys /\ usesCapacity[i] # "unset" IN
    /\ i # 0 /\ reader.res
    /\ IF awaiting[i] # "no"
       THEN /\ awaiting' = [awaiting EXCEPT ![i] = "no"]
            /\ Forget({i})
            /\ UNCHANGED queue
       ELSE /\ queue' = IF known /\ ~OdHas(queue, i)
                        THEN OdPut(queue, i, Acked) ELSE queue
            /\ UNCHANGED <<awaiting, usesCapacity, claimedKeys, retryable>>
    /\ reader' = Idle
    /\ UNCHANGED <<senderVars, statusVars, onceVars, claims, tombstones, air,
                   calls, replies, reported, settled, early>>

\* _correlate_queue_status_reply.  First the expired awaited replies and
\* tombstones go; then the acknowledged entry leaves the queue, or, when
\* nothing is known of the ID, a marker is left for the sender in send_impl.
ApplyAck ==
    LET i == reader.id
        evicted == Evicted(tombstones)
        q == WithoutMarkers(queue, evicted)
        t == OdPop(OdDrop(tombstones, evicted), i)
        wasAwaiting == awaiting[i] = "fresh"
        unexpected == ~OdHas(q, i) /\ ~wasAwaiting
        marked == OdPut(t, i, "fresh")
        evictedAgain == Evicted(marked) IN
    /\ i # 0 /\ ~reader.res
    /\ awaiting' = [k \in Keys |-> IF k = i \/ k \in Stale THEN "no"
                                   ELSE awaiting[k]]
    /\ Forget(Stale \cup (IF unexpected THEN {} ELSE {i}))
    /\ IF unexpected
       THEN /\ tombstones' = OdDrop(marked, evictedAgain)
            /\ queue' = WithoutMarkers(OdPut(q, i, Acked), evictedAgain)
       ELSE /\ tombstones' = t
            /\ queue' = OdPop(q, i)
    /\ early' = IF unexpected /\ \E s \in Senders : InSendImpl(s) /\ cur[s] = i
                THEN early \cup {i} ELSE early
    /\ reader' = Idle
    /\ UNCHANGED <<senderVars, statusVars, onceVars, claims, air, calls,
                   replies, reported, settled>>

\* A message about ID 0 changes nothing beyond the QueueStatus itself.
ApplyNothing ==
    /\ reader # Idle /\ reader.id = 0
    /\ reader' = Idle
    /\ UNCHANGED <<queueVars, senderVars, air, calls, replies, reported,
                   settled, early>>

-----------------------------------------------------------------------------
\* Time and the rest of the interface

\* AWAITING_QUEUE_STATUS_TTL_SECONDS pass for one awaited reply.
AgeAwaiting(k) ==
    /\ awaiting[k] = "fresh"
    /\ awaiting' = [awaiting EXCEPT ![k] = "old"]
    /\ UNCHANGED <<senderVars, deviceVars, statusVars, onceVars, queue,
                   usesCapacity, claimedKeys, claims, retryable, tombstones>>

\* UNEXPECTED_ACK_TTL_SECONDS pass for the oldest fresh tombstone.
AgeTombstone(k) ==
    /\ OdIsFirst(tombstones, k, LAMBDA j : tombstones.val[j] = "fresh")
    /\ tombstones' = [tombstones EXCEPT !.val[k] = "old"]
    /\ UNCHANGED <<senderVars, deviceVars, statusVars, onceVars, queue,
                   usesCapacity, claimedKeys, awaiting, claims, retryable>>

\* The receive thread learns my_node_num; a new configuration handshake
\* (_start_config) forgets it.
LocalNodeChanges ==
    /\ localNodeKnown' = ~localNodeKnown
    /\ UNCHANGED <<senderVars, deviceVars, statusVars, markVars, queue,
                   usesCapacity, claimedKeys, claims, retryable, nextZeroKey>>

-----------------------------------------------------------------------------
Caller(s) == \E p \in Packets : Admit(s, p) \/ RejectDuplicate(s, p)

\* Every step a sender takes by itself once its call is admitted.
SenderStep(s) ==
    \/ PopOldest(s) \/ PopMarker(s) \/ PopLocal(s) \/ PopNothing(s)
    \/ ForgetAcked(s) \/ CheckEmpty(s) \/ KeepWaiting(s)
    \/ Transmit(s) \/ SendReturns(s)
    \/ Reconcile(s) \/ ReconcileDone(s)
    \/ SettleDone(s) \/ SettleSent(s) \/ SettleRequeue(s)
    \/ Release(s) \/ ReleaseOwn(s)

ReaderStep == ApplyError \/ ApplyAck \/ ApplyNothing

Next ==
    \/ \E s \in Senders :
        \/ Caller(s) \/ SenderStep(s)
        \/ GiveUp(s) \/ DeadlineExpired(s) \/ SendRaises(s)
    \/ \E i \in Ids \cup {0}, res \in BOOLEAN, f \in 0..MaxLen :
        ReceiveStatus(i, res, f)
    \/ ReaderStep
    \/ \E k \in Keys \cap AgingIds : AgeAwaiting(k) \/ AgeTombstone(k)
    \/ LocalNodeChanges

Spec == Init /\ [][Next]_vars

\* Fairness.  Python schedules every runnable thread; a transport write
\* returns or raises; the 30 s bound on the wait for a slot is enforced at
\* the top of the loop, so a sender that keeps waiting gives up.
Fairness ==
    \A s \in Senders :
        /\ WF_vars(SenderStep(s))
        /\ SF_vars(GiveUp(s))

FairSpec == Spec /\ Fairness

-----------------------------------------------------------------------------
\* Properties

OdOk(d, V) ==
    /\ d \in [val : [Keys -> V], ord : Seq(Keys)]
    /\ OdWellFormed(d)

TypeOK ==
    /\ OdOk(queue, Values)
    /\ free \in (0..MaxLen) \cup {NoStatus}
    /\ statusSeen \in BOOLEAN /\ localNodeKnown \in BOOLEAN
    /\ usesCapacity \in [Keys -> {"rf", "local", "unset"}]
    /\ claimedKeys \subseteq Keys
    /\ awaiting \in [Keys -> AgeOf]
    /\ claims \in [Ids -> Nat]
    /\ retryable \in [Ids -> Packets \cup {NoPacket}]
    /\ nextZeroKey \in (0 - MaxCalls - 1)..(-1)
    /\ OdOk(tombstones, {"fresh", "old", Absent})
    /\ pc \in [Senders -> PcOf]
    /\ incoming \in [Senders -> Packets \cup {NoPacket}]
    /\ queuedKey \in [Senders -> Keys \cup {0}]
    /\ isLocal \in [Senders -> BOOLEAN]
    /\ \A s \in Senders : OdOk(resent[s], Values)
    /\ sent \in [Senders -> SUBSET Keys]
    /\ popped \in [Senders -> Seq(Ids)]
    /\ cur \in [Senders -> Keys \cup {0}]
    /\ got \in [Senders -> Values]
    /\ cap \in [Senders -> {"rf", "local", "unset"}]
    /\ result \in [Senders -> ResultOf]
    /\ reader \in [id : Ids \cup {0}, res : BOOLEAN]
    /\ air \subseteq Ids
    /\ calls \in 0..MaxCalls /\ replies \in 0..MaxReplies
    /\ reported \in (0..MaxLen) \cup {NoStatus}
    /\ settled \subseteq Packets
    /\ early \subseteq Ids

\* Every claim on an ID is held by exactly one call: the call that sends a
\* packet with that ID, and every call that has popped one.  A leaked claim
\* would reject the ID forever, a lost one would let it be sent twice.
ClaimsExact == \A i \in Ids : claims[i] = Cardinality(Holders(i))

\* A packet whose call neither timed out nor was refused is on the air, in
\* the queue, or in the hands of a call that will put it back.
Held(p) ==
    \/ \E k \in Keys : queue.val[k] = p
    \/ \E s \in Senders : \/ \E k \in Keys : resent[s].val[k] = p
                          \/ got[s] = p
NothingLost ==
    \A s \in Senders :
        incoming[s] # NoPacket => incoming[s] \in settled \/ Held(incoming[s])

\* The receive thread never discards the acknowledgement of a packet that is
\* in the transport, however many other acknowledgements arrive.
EarlyAckPinned ==
    [][\A s \in Senders :
        InSendImpl(s) /\ queue.val[cur[s]] = Acked /\ reader # reader'
            => queue'.val[cur[s]] = Acked \/ reader.id = cur[s]]_vars

\* The host never believes in more RF slots than the device last reported: what
\* is free and what is claimed add up to at most that number.  And no slot stays
\* claimed for ever: when every call has returned, none is, and nothing is
\* remembered of an ID that is neither queued nor awaited, unless it is the ID of
\* a packet for the local node (NothingRemembered, README, section 6).
OfLocal(k) == \E p \in LocalPackets : PacketId[p] = k /\ k # 0
SlotAccounting ==
    /\ free # NoStatus => free + Cardinality(claimedKeys) <= reported
    /\ (\A s \in Senders : pc[s] = "idle") =>
           /\ claimedKeys = {}
           /\ \A k \in Keys : usesCapacity[k] # "unset" =>
                  OdHas(queue, k) \/ awaiting[k] # "no" \/ OfLocal(k)

\* The same of every ID.  The code does not keep it (README, section 6), so no
\* run checks it: a marker put in front of its packet can be evicted later.
NothingRemembered ==
    (\A s \in Senders : pc[s] = "idle") =>
        \A k \in Keys : usesCapacity[k] # "unset" => OdHas(queue, k) \/ awaiting[k] # "no"

\* A packet acknowledged while it was in the transport is not handed to the
\* transport again, unless a later call asks for it.
AckedNotResent ==
    [][\A s \in Senders :
        pc[s] # "send" /\ pc'[s] = "send" => IdOfKey(cur'[s]) \notin early]_vars

\* Every call of _send_to_radio returns.
EveryCallReturns == \A s \in Senders : pc[s] # "idle" ~> pc[s] = "idle"
=============================================================================
