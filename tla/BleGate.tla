------------------------------ MODULE BleGate ------------------------------
(***************************************************************************)
(* The process-wide address gate (interfaces/ble/gating.py) as the         *)
(* interfaces of one address use it: the claims, connecting and connected, *)
(* with their owners, the two-phase question whether another interface is  *)
(* connected, and the reference-counted lock of the address.               *)
(*                                                                         *)
(* An action is one section under the registry lock, the probe of another  *)
(* interface's state between two such sections, or a step of connect().    *)
(* Every caller names itself as owner, so claims without one do not occur. *)
(* The session of an interface is reduced to its connection state;         *)
(* BleSession models what happens inside.                                  *)
(***************************************************************************)
EXTENDS Naturals, FiniteSets

CONSTANTS
    Interfaces,
    Nobody,
    Ages,           \* fault: a connecting claim may become older than 300 s
    MaxConnects,    \* bound: connects per interface
    Locks           \* bound: lock objects the registry may create

ASSUME GateAssumption ==
    /\ IsFiniteSet(Interfaces) /\ Nobody \notin Interfaces \cup Locks
    /\ Ages \in BOOLEAN /\ MaxConnects \in Nat

VARIABLES
    connected,      \* owner recorded with the connected claim, or Nobody
    connecting,     \* owner recorded with the connecting claim, or Nobody
    stale,          \* whether the connecting claim is older than 300 s
    entry,          \* the lock object in _ADDR_LOCKS, or Nobody
    holders,        \* _LOCK_HOLDERS
    holder,         \* each lock object: who holds it
    alive,          \* interfaces that have not been garbage collected
    up,             \* interfaces whose state is CONNECTED
    pc,             \* each interface: its connect() call
    got,            \* each interface: the lock object it fetched
    sample,         \* each interface: the owner it probes and what it saw
    releasing,      \* interfaces whose disconnect has not released the claim yet
    connects,       \* each interface: connects begun
    aged            \* history: whether a connecting claim ever grew older than 300 s

claimVars == <<connected, connecting, stale>>
entryVars == <<entry, holders>>
ownerVars == <<alive, up, releasing, connects>>
vars == <<claimVars, entryVars, holder, ownerVars, pc, got, sample, aged>>

Places == {"idle", "ask", "fetch", "wait", "recheck", "dial", "claim", "unlock", "putBack",
           "gates", "fetch2", "wait2", "mark", "unlock2", "putBack2", "regate", "unmark", "verify", "undo",
           "discard", "clear", "unlock0", "putBack0"}
NoSample == [of |-> Nobody, saw |-> "unknown"]

TypeOK ==
    /\ {connected, connecting} \subseteq Interfaces \cup {Nobody}
    /\ stale \in BOOLEAN
    /\ entry \in Locks \cup {Nobody} /\ holders \in 0..Cardinality(Interfaces)
    /\ holder \in [Locks -> Interfaces \cup {Nobody}]
    /\ alive \subseteq Interfaces /\ up \subseteq Interfaces /\ releasing \subseteq Interfaces
    /\ pc \in [Interfaces -> Places]
    /\ got \in [Interfaces -> Locks \cup {Nobody}]
    /\ sample \in [Interfaces -> [of : Interfaces \cup {Nobody},
                                  saw : {"unknown", "connected", "other"}]]
    /\ connects \in [Interfaces -> 0..MaxConnects] /\ aged \in BOOLEAN

Init ==
    /\ connected = Nobody /\ connecting = Nobody /\ stale = FALSE
    /\ entry = Nobody /\ holders = 0
    /\ holder = [l \in Locks |-> Nobody]
    /\ alive = Interfaces /\ up = {} /\ releasing = {}
    /\ pc = [i \in Interfaces |-> "idle"]
    /\ got = [i \in Interfaces |-> Nobody]
    /\ sample = [i \in Interfaces |-> NoSample]
    /\ connects = [i \in Interfaces |-> 0] /\ aged = FALSE

At(i, l) == pc[i] = l
Goto(i, l) == pc' = [pc EXCEPT ![i] = l]

----------------------------------------------------------------------------
(* The lock of the address.                                                *)

\* Mutant: an entry somebody fetched and has not put back is removed as well.
CleanedInUse(claims, users) == IF claims \subseteq {Nobody} THEN Nobody ELSE entry

\* Mutant: the entry stays for ever.
NeverCleaned(claims, users) == entry

\* _maybe_remove_addr_lock_entry: the entry goes with the last claim and the last user.
Cleaned(claims, users) == IF claims \subseteq {Nobody} /\ users = 0 THEN Nobody ELSE entry

\* A new RLock object: one that nobody has in hand.
Fresh(l) == holder[l] = Nobody /\ \A i \in Interfaces : got[i] # l

\* _get_addr_lock_by_key
Fetch(i, from, to) ==
    /\ At(i, from)
    /\ \E l \in Locks :
           /\ IF entry = Nobody THEN Fresh(l) ELSE l = entry
           /\ entry' = l /\ got' = [got EXCEPT ![i] = l]
    /\ holders' = holders + 1
    /\ Goto(i, to)
    /\ UNCHANGED <<claimVars, holder, ownerVars, sample>>

Acquire(i, from, to) ==
    /\ At(i, from)
    /\ holder[got[i]] = Nobody
    /\ holder' = [holder EXCEPT ![got[i]] = i]
    /\ Goto(i, to)
    /\ UNCHANGED <<claimVars, entryVars, ownerVars, got, sample>>

Unlock(i, from, to) ==
    /\ At(i, from)
    /\ holder' = [holder EXCEPT ![got[i]] = Nobody]
    /\ Goto(i, to)
    /\ UNCHANGED <<claimVars, entryVars, ownerVars, got, sample>>

\* _release_addr_lock_by_key
PutBack(i, from, to) ==
    /\ At(i, from)
    /\ holders' = IF holders = 0 THEN 0 ELSE holders - 1
    /\ entry' = Cleaned({connected, connecting}, holders')
    /\ got' = [got EXCEPT ![i] = Nobody]
    /\ Goto(i, to)
    /\ UNCHANGED <<claimVars, holder, ownerVars, sample>>

----------------------------------------------------------------------------
(* _is_currently_connected_elsewhere, asked by i at one place of connect(). *)

\* A connecting claim is pruned when its owner has died and when it is old.
Pruned == connecting # Nobody /\ (connecting \notin alive \/ stale)

\* A connected claim is dropped when its owner has died, and on the sample taken of that owner.
Dropped(i) ==
    /\ connected # Nobody
    /\ \/ connected \notin alive
       \/ connected # i /\ connected = sample[i].of /\ sample[i].saw = "other"

Elsewhere(i) ==
    IF connected = Nobody THEN connecting \notin {Nobody, i} /\ ~Pruned
    ELSE connected # i /\ ~Dropped(i)

\* First section: the claim belongs to a living interface, whose state has to be asked.
Look(i, at) ==
    /\ At(i, at) /\ sample[i] = NoSample
    /\ connected \in alive \ {i}
    /\ sample' = [sample EXCEPT ![i].of = connected]
    /\ UNCHANGED <<claimVars, entryVars, holder, ownerVars, pc, got>>

\* Without any lock of the registry.
Probe(i) ==
    /\ sample[i].of # Nobody /\ sample[i].saw = "unknown"
    /\ sample' = [sample EXCEPT ![i].saw = IF sample[i].of \in up THEN "connected" ELSE "other"]
    /\ UNCHANGED <<claimVars, entryVars, holder, ownerVars, pc, got>>

\* The answer, in the first section or, with a sample, in the second.
Answer(i, at, yes, no) ==
    /\ At(i, at)
    /\ IF sample[i] = NoSample THEN connected \notin alive \ {i} ELSE sample[i].saw # "unknown"
    /\ connected' = IF Dropped(i) THEN Nobody ELSE connected
    /\ connecting' = IF connected = Nobody /\ Pruned THEN Nobody ELSE connecting
    /\ stale' = (stale /\ connecting' # Nobody)
    /\ entry' = IF <<connected', connecting'>> # <<connected, connecting>>
                THEN Cleaned({connected', connecting'}, holders) ELSE entry
    /\ sample' = [sample EXCEPT ![i] = NoSample]
    /\ Goto(i, IF Elsewhere(i) THEN yes ELSE no)
    /\ UNCHANGED <<holders, holder, ownerVars, got>>

----------------------------------------------------------------------------
(* The claims.                                                             *)

\* _mark_disconnected: nothing while another living interface is connected.
Released(i) ==
    IF connected \in alive \ {i} THEN UNCHANGED <<claimVars, entry>>
    ELSE /\ connected' = Nobody
         /\ connecting' = IF connecting \in alive \ {i} THEN connecting ELSE Nobody
         /\ stale' = (stale /\ connecting' # Nobody)
         /\ entry' = Cleaned({connected', connecting'}, holders)

\* Mutant: no provisional claim stands between the dial and the final one.
MarkNothing(i) ==
    /\ At(i, "claim")
    /\ Goto(i, "unlock")
    /\ UNCHANGED <<claimVars, entryVars, holder, ownerVars, got, sample>>

\* _mark_connecting overwrites whatever is there.
MarkConnecting(i) ==
    /\ At(i, "claim")
    /\ connecting' = i /\ stale' = FALSE
    /\ \E l \in Locks : (IF entry = Nobody THEN Fresh(l) ELSE l = entry) /\ entry' = l
    /\ Goto(i, "unlock")
    /\ UNCHANGED <<connected, holders, holder, ownerVars, got, sample>>

\* _mark_connected, under the lock of the address.
MarkConnected(i) ==
    /\ At(i, "mark")
    /\ connected' = i /\ connecting' = Nobody /\ stale' = FALSE
    /\ Goto(i, "unlock2")
    /\ UNCHANGED <<entryVars, holder, ownerVars, got, sample>>

\* _clear_connecting, the last step of every connect() that made a claim.
ClearConnecting(i) ==
    /\ At(i, "clear")
    /\ connecting' = IF connecting \in alive \ {i} THEN connecting ELSE Nobody
    /\ stale' = (stale /\ connecting' # Nobody)
    /\ entry' = IF connecting' # connecting THEN Cleaned({connected, connecting'}, holders) ELSE entry
    /\ Goto(i, "idle")
    /\ UNCHANGED <<connected, holders, holder, ownerVars, got, sample>>

----------------------------------------------------------------------------
(* connect() of one interface.                                             *)

Start(i) ==
    /\ At(i, "idle") /\ i \in alive \ (up \cup releasing)
    /\ connects[i] < MaxConnects
    /\ connects' = [connects EXCEPT ![i] = @ + 1]
    /\ Goto(i, "ask")
    /\ UNCHANGED <<claimVars, entryVars, holder, alive, up, releasing, got, sample>>

DialSucceeds(i) ==
    /\ At(i, "dial")
    /\ up' = up \cup {i}
    /\ Goto(i, "claim")
    /\ UNCHANGED <<claimVars, entryVars, holder, alive, releasing, connects, got, sample>>

DialFails(i) ==
    /\ At(i, "dial")
    /\ Goto(i, "unlock0")
    /\ UNCHANGED <<claimVars, entryVars, holder, ownerVars, got, sample>>

\* _finalize_connection_gates: only a session that is still there is marked as connected ...
Gates(i) ==
    /\ At(i, "gates")
    /\ Goto(i, IF i \in up THEN "fetch2" ELSE "verify")
    /\ UNCHANGED <<claimVars, entryVars, holder, ownerVars, got, sample>>

\* ... and looked at again once it is.
Regate(i) ==
    /\ At(i, "regate")
    /\ Goto(i, IF i \in up THEN "verify" ELSE "unmark")
    /\ UNCHANGED <<claimVars, entryVars, holder, ownerVars, got, sample>>

Unmark(i) ==
    /\ At(i, "unmark")
    /\ Released(i)
    /\ Goto(i, "verify")
    /\ UNCHANGED <<holders, holder, ownerVars, got, sample>>

\* _verify_ownership_snapshot, the last one before the publication.
Verify(i) == Look(i, "verify") \/ Answer(i, "verify", "undo", IF i \in up THEN "clear" ELSE "undo")

Undo(i) ==
    /\ At(i, "undo")
    /\ Released(i)
    /\ Goto(i, "discard")
    /\ UNCHANGED <<holders, holder, ownerVars, got, sample>>

Discard(i) ==
    /\ At(i, "discard")
    /\ up' = up \ {i}
    /\ Goto(i, "clear")
    /\ UNCHANGED <<claimVars, entryVars, holder, alive, releasing, connects, got, sample>>

Connect(i) ==
    \/ Look(i, "ask") \/ Answer(i, "ask", "idle", "fetch")
    \/ Fetch(i, "fetch", "wait") \/ Acquire(i, "wait", "recheck")
    \/ Look(i, "recheck") \/ Answer(i, "recheck", "unlock0", "dial")
    \/ Unlock(i, "unlock0", "putBack0") \/ PutBack(i, "putBack0", "idle")
    \/ DialSucceeds(i) \/ DialFails(i)
    \/ MarkConnecting(i) \/ Unlock(i, "unlock", "putBack") \/ PutBack(i, "putBack", "gates")
    \/ Gates(i)
    \/ Fetch(i, "fetch2", "wait2") \/ Acquire(i, "wait2", "mark") \/ MarkConnected(i)
    \/ Unlock(i, "unlock2", "putBack2") \/ PutBack(i, "putBack2", "regate")
    \/ Regate(i) \/ Unmark(i)
    \/ Verify(i) \/ Probe(i)
    \/ Undo(i) \/ Discard(i) \/ ClearConnecting(i)

----------------------------------------------------------------------------
(* Disconnects, the age of a claim, garbage collection.                    *)

\* A disconnect or close() first changes the state ...
Loses(i) ==
    /\ i \in up
    /\ up' = up \ {i} /\ releasing' = releasing \cup {i}
    /\ UNCHANGED <<claimVars, entryVars, holder, alive, connects, pc, got, sample>>

\* ... and then releases the address, without waiting for its lock.
Release(i) ==
    /\ i \in releasing
    /\ Released(i)
    /\ releasing' = releasing \ {i}
    /\ UNCHANGED <<holders, holder, alive, up, connects, pc, got, sample>>

Age ==
    /\ Ages /\ connecting # Nobody
    /\ stale' = TRUE /\ aged' = TRUE
    /\ UNCHANGED <<connected, connecting, entryVars, holder, ownerVars, pc, got, sample>>

\* An interface dropped without close() is collected once nothing refers to it.
Dies(i) ==
    /\ i \in alive \ releasing /\ At(i, "idle")
    /\ \A j \in Interfaces : sample[j].of # i
    /\ alive' = alive \ {i} /\ up' = up \ {i}
    /\ UNCHANGED <<claimVars, entryVars, holder, releasing, connects, pc, got, sample>>

Step(i) ==
    /\ Start(i) \/ Connect(i) \/ Loses(i) \/ Release(i) \/ Dies(i)
    /\ UNCHANGED aged

Next == Age \/ \E i \in Interfaces : Step(i)

Spec == Init /\ [][Next]_vars

----------------------------------------------------------------------------
(* Properties.                                                             *)

Inside(i) == \E l \in Locks : holder[l] = i
Published(i) == i \in up /\ At(i, "idle")
Resting == (\A i \in Interfaces : At(i, "idle")) /\ releasing = {}

\* The lock of the address is one lock: although the registry drops and recreates its entry,
\* no two interfaces are inside a section of the address at once.
OneLockHolder == \A i, j \in Interfaces : Inside(i) /\ Inside(j) => i = j

\* The gate: two interfaces of one process never are connected to one address.
\* The code does not keep it (README, section 6), so no run checks it.
OneLive == \A i, j \in Interfaces : Published(i) /\ Published(j) => i = j

\* What the gate does achieve: of two connects one is refused or invalidated, whatever
\* disconnects and collections come between; it takes a third one, or a claim that is
\* pruned for its age while its owner still dials, to defeat it.
PairArbitrated ==
    (/\ ~aged /\ \A i \in Interfaces : connects[i] <= 1
     /\ Cardinality({i \in Interfaces : connects[i] = 1}) <= 2) => OneLive

\* When every call and every disconnect has ended, no provisional claim and no user count is
\* left, a claim of a living interface is that of a connected one, and an address without
\* claims has no lock entry.
NothingLeft == Resting =>
    /\ connecting = Nobody
    /\ connected \in alive => connected \in up
    /\ holders = 0
    /\ connected = Nobody => entry = Nobody

=============================================================================
