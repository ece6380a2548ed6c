------------------------- MODULE BleServices_proofs -------------------------
(***************************************************************************)
(* Proofs about the services that the BLE interfaces of a process share,   *)
(* one component after the other: the address gate, for any number of      *)
(* interfaces and lock objects; the event-loop runner, for any number of   *)
(* callers and owners; the thread register, for any callers and workers;   *)
(* the receive threads, for any number of them.                            *)
(***************************************************************************)
EXTENDS BleServices, FiniteSetTheorems, TLAPS

----------------------------------------------------------------------------
(* The lock of the address.                                                *)

\* Places of connect() inside the lock, and with a lock object in hand.
Held == {"recheck", "dial", "claim", "unlock", "unlock0", "mark", "unlock2"}
Handed == Held \cup {"wait", "wait2", "putBack", "putBack0", "putBack2"}
Users == {i \in Interfaces : got[i] # Nobody}

FunInv ==
    /\ pc \in [Interfaces -> Places]
    /\ got \in [Interfaces -> Locks \cup {Nobody}]
    /\ holder \in [Locks -> Interfaces \cup {Nobody}]

\* The registry's entry is the lock that every user has in hand, and it counts them.
LockInv ==
    /\ FunInv
    /\ \A i \in Interfaces : got[i] # Nobody <=> pc[i] \in Handed
    /\ \A i \in Interfaces, l \in Locks : holder[l] = i <=> pc[i] \in Held /\ got[i] = l
    /\ \A i \in Interfaces : got[i] # Nobody => got[i] = entry
    /\ holders = Cardinality(Users)

LEMMA UsersFinite == IsFiniteSet(Users) /\ Cardinality(Users) \in Nat
<1>1. Users \subseteq Interfaces
    BY DEF Users
<1> QED BY <1>1, FS_Subset, FS_CardinalityType, GateAssumption

LEMMA NoUsers == Cardinality(Users) = 0 => \A i \in Interfaces : got[i] = Nobody
    BY UsersFinite, FS_EmptySet DEF Users

\* A step that hands out and takes back nothing.
LEMMA NeutralStep ==
    ASSUME LockInv, NEW i \in Interfaces, NEW to \in Places,
           pc' = [pc EXCEPT ![i] = to],
           to \in Handed <=> pc[i] \in Handed, to \in Held <=> pc[i] \in Held,
           UNCHANGED <<got, holder, holders>>,
           entry' = entry \/ (holders = 0 /\ entry' = Nobody)
    PROVE  LockInv'
<1>1. FunInv'
    BY DEF LockInv, FunInv
<1>2. \A j \in Interfaces : /\ pc'[j] \in Handed <=> pc[j] \in Handed
                            /\ pc'[j] \in Held <=> pc[j] \in Held
    BY DEF LockInv, FunInv
<1>3. \A j \in Interfaces : got'[j] # Nobody => got'[j] = entry'
    BY NoUsers DEF LockInv
<1>4. Users' = Users
    BY DEF Users
<1>5. holders' = Cardinality(Users)'
    BY <1>4 DEF LockInv
<1> QED BY <1>1, <1>2, <1>3, <1>5 DEF LockInv

LEMMA FetchStep ==
    ASSUME LockInv, NEW i \in Interfaces, NEW from, NEW to \in Handed \ Held, from \notin Handed,
           Fetch(i, from, to)
    PROVE  LockInv'
<1> USE GateAssumption
<1>1. PICK l \in Locks : /\ IF entry = Nobody THEN Fresh(l) ELSE l = entry
                         /\ entry' = l /\ got' = [got EXCEPT ![i] = l]
    BY DEF Fetch
<1>2. /\ pc' = [pc EXCEPT ![i] = to] /\ holders' = holders + 1 /\ holder' = holder
      /\ pc[i] \notin Handed /\ got[i] = Nobody
    BY DEF Fetch, Goto, At, LockInv
<1>3. FunInv'
    BY <1>1, <1>2 DEF LockInv, FunInv, Handed, Held, Places
<1>4. Users' = Users \cup {i} /\ i \notin Users
    BY <1>1, <1>2 DEF LockInv, FunInv, Users
<1>5. Cardinality(Users') = Cardinality(Users) + 1
    BY <1>4, UsersFinite, FS_AddElement
<1>6. holders' = Cardinality(Users)'
    BY <1>2, <1>5 DEF LockInv
<1>7. \A j \in Interfaces : j # i => pc'[j] = pc[j] /\ got'[j] = got[j]
    BY <1>1, <1>2 DEF LockInv, FunInv
<1>8. pc'[i] = to /\ got'[i] = l
    BY <1>1, <1>2 DEF LockInv, FunInv
<1>9. \A j \in Interfaces : got'[j] # Nobody <=> pc'[j] \in Handed
    BY <1>7, <1>8 DEF LockInv
<1>10. \A j \in Interfaces, m \in Locks : holder'[m] = j <=> pc'[j] \in Held /\ got'[j] = m
    BY <1>2, <1>7, <1>8 DEF LockInv, Handed
<1>11. \A j \in Interfaces : got'[j] # Nobody => got'[j] = entry'
    BY <1>1, <1>7, <1>8 DEF LockInv
<1> QED BY <1>3, <1>6, <1>9, <1>10, <1>11 DEF LockInv

LEMMA AcquireStep ==
    ASSUME LockInv, NEW i \in Interfaces, NEW from \in Handed \ Held, NEW to \in Held,
           Acquire(i, from, to)
    PROVE  LockInv'
<1> USE GateAssumption
<1>1. /\ pc[i] = from /\ pc' = [pc EXCEPT ![i] = to]
      /\ got' = got /\ holders' = holders /\ entry' = entry
      /\ got[i] \in Locks /\ holder[got[i]] = Nobody /\ holder' = [holder EXCEPT ![got[i]] = i]
    BY DEF Acquire, Goto, At, LockInv, FunInv, entryVars
<1>2. FunInv'
    BY <1>1 DEF LockInv, FunInv, Handed, Held, Places
<1>3. Users' = Users
    BY <1>1 DEF Users
<1>4. \A j \in Interfaces : j # i => pc'[j] = pc[j]
    BY <1>1 DEF LockInv, FunInv
<1>5. pc'[i] = to
    BY <1>1 DEF LockInv, FunInv
<1>6. \A m \in Locks : holder'[m] = IF m = got[i] THEN i ELSE holder[m]
    BY <1>1 DEF LockInv, FunInv
<1>7. \A j \in Interfaces, m \in Locks : holder'[m] = j <=> pc'[j] \in Held /\ got'[j] = m
    BY <1>1, <1>4, <1>5, <1>6 DEF LockInv
<1>8. \A j \in Interfaces : got'[j] # Nobody <=> pc'[j] \in Handed
    BY <1>1, <1>4, <1>5 DEF LockInv, Handed
<1>9. holders' = Cardinality(Users)'
    BY <1>1, <1>3 DEF LockInv
<1> QED BY <1>1, <1>2, <1>7, <1>8, <1>9 DEF LockInv

LEMMA UnlockStep ==
    ASSUME LockInv, NEW i \in Interfaces, NEW from \in Held, NEW to \in Handed \ Held,
           Unlock(i, from, to)
    PROVE  LockInv'
<1> USE GateAssumption
<1>1. /\ pc[i] = from /\ pc' = [pc EXCEPT ![i] = to]
      /\ got' = got /\ holders' = holders /\ entry' = entry
      /\ got[i] \in Locks /\ holder[got[i]] = i /\ holder' = [holder EXCEPT ![got[i]] = Nobody]
    BY DEF Unlock, Goto, At, LockInv, FunInv, entryVars, Handed
<1>2. FunInv'
    BY <1>1 DEF LockInv, FunInv, Handed, Held, Places
<1>3. Users' = Users
    BY <1>1 DEF Users
<1>4. \A j \in Interfaces : j # i => pc'[j] = pc[j]
    BY <1>1 DEF LockInv, FunInv
<1>5. pc'[i] = to
    BY <1>1 DEF LockInv, FunInv
<1>6. \A m \in Locks : holder'[m] = IF m = got[i] THEN Nobody ELSE holder[m]
    BY <1>1 DEF LockInv, FunInv
<1>7. \A j \in Interfaces, m \in Locks : holder'[m] = j <=> pc'[j] \in Held /\ got'[j] = m
    BY <1>1, <1>4, <1>5, <1>6 DEF LockInv
<1>8. \A j \in Interfaces : got'[j] # Nobody <=> pc'[j] \in Handed
    BY <1>1, <1>4, <1>5 DEF LockInv, Handed
<1>9. holders' = Cardinality(Users)'
    BY <1>1, <1>3 DEF LockInv
<1> QED BY <1>1, <1>2, <1>7, <1>8, <1>9 DEF LockInv

LEMMA PutBackStep ==
    ASSUME LockInv, NEW i \in Interfaces, NEW from \in Handed \ Held, NEW to \in Places \ Handed,
           PutBack(i, from, to)
    PROVE  LockInv'
<1> USE GateAssumption
<1>1. /\ pc[i] = from /\ pc' = [pc EXCEPT ![i] = to] /\ holder' = holder
      /\ got[i] # Nobody /\ got' = [got EXCEPT ![i] = Nobody]
      /\ holders' = IF holders = 0 THEN 0 ELSE holders - 1
      /\ entry' = entry \/ holders' = 0
    BY DEF PutBack, Cleaned, Goto, At, LockInv, FunInv
<1>2. FunInv'
    BY <1>1 DEF LockInv, FunInv
<1>3. Users' = Users \ {i} /\ i \in Users
    BY <1>1 DEF LockInv, FunInv, Users
<1>4. Cardinality(Users') = Cardinality(Users) - 1
    BY <1>3, UsersFinite, FS_RemoveElement
<1>5. IsFiniteSet(Users') /\ Cardinality(Users') \in Nat
    BY <1>3, UsersFinite, FS_Subset, FS_CardinalityType
<1>6. holders' = Cardinality(Users')
    BY <1>1, <1>4, <1>5, UsersFinite DEF LockInv
<1>7. \A j \in Interfaces : j # i => pc'[j] = pc[j] /\ got'[j] = got[j]
    BY <1>1 DEF LockInv, FunInv
<1>8. pc'[i] = to /\ got'[i] = Nobody
    BY <1>1 DEF LockInv, FunInv
<1>9. \A j \in Interfaces : got'[j] # Nobody <=> pc'[j] \in Handed
    BY <1>7, <1>8 DEF LockInv
<1>10. \A j \in Interfaces, m \in Locks : holder'[m] = j <=> pc'[j] \in Held /\ got'[j] = m
    BY <1>1, <1>7, <1>8 DEF LockInv, Handed
<1>11. holders' = 0 => \A j \in Interfaces : got'[j] = Nobody
  <2>1. holders' = 0 => Users' = {}
      BY <1>5, <1>6, FS_EmptySet
  <2> QED BY <2>1 DEF Users
<1>12. \A j \in Interfaces : got'[j] # Nobody => got'[j] = entry'
    BY <1>1, <1>7, <1>8, <1>11 DEF LockInv
<1> QED BY <1>2, <1>6, <1>9, <1>10, <1>12 DEF LockInv

\* The sections that change claims leave the entry while anybody uses it.
LEMMA EntryKept ==
    ASSUME NEW claims, NEW users
    PROVE  Cleaned(claims, users) = entry \/ (users = 0 /\ Cleaned(claims, users) = Nobody)
    BY DEF Cleaned

LEMMA LockStep == LockInv /\ [Next]_vars => LockInv'
<1> SUFFICES ASSUME LockInv, [Next]_vars PROVE LockInv'
    OBVIOUS
<1> USE GateAssumption
<1>1. ASSUME UNCHANGED <<pc, got, holder, holders, entry>> PROVE LockInv'
    BY <1>1 DEF LockInv, FunInv, Users
<1>2. ASSUME NEW i \in Interfaces, Connect(i) PROVE LockInv'
  <2> USE DEF Places, Handed, Held
  <2>1. CASE Fetch(i, "fetch", "wait") \/ Fetch(i, "fetch2", "wait2")
      BY <2>1, FetchStep
  <2>2. CASE Acquire(i, "wait", "recheck") \/ Acquire(i, "wait2", "mark")
      BY <2>2, AcquireStep
  <2>3. CASE \/ Unlock(i, "unlock0", "putBack0") \/ Unlock(i, "unlock", "putBack")
             \/ Unlock(i, "unlock2", "putBack2")
      BY <2>3, UnlockStep
  <2>4. CASE \/ PutBack(i, "putBack0", "idle") \/ PutBack(i, "putBack", "gates")
             \/ PutBack(i, "putBack2", "regate")
      BY <2>4, PutBackStep
  <2>5. CASE \/ Look(i, "ask") \/ Look(i, "recheck") \/ Look(i, "verify") \/ Probe(i)
      BY <2>5, <1>1 DEF Look, Probe, entryVars
  <2>6. CASE Answer(i, "ask", "idle", "fetch")
    <3>1. \E to \in {"idle", "fetch"} : pc[i] = "ask" /\ pc' = [pc EXCEPT ![i] = to]
        BY <2>6 DEF Answer, At, Goto
    <3>2. UNCHANGED <<got, holder, holders>> /\ (entry' = entry \/ (holders = 0 /\ entry' = Nobody))
        BY <2>6, EntryKept DEF Answer
    <3> QED BY <3>1, <3>2, NeutralStep
  <2>7. CASE Answer(i, "recheck", "unlock0", "dial")
    <3>1. \E to \in {"unlock0", "dial"} : pc[i] = "recheck" /\ pc' = [pc EXCEPT ![i] = to]
        BY <2>7 DEF Answer, At, Goto
    <3>2. UNCHANGED <<got, holder, holders>> /\ (entry' = entry \/ (holders = 0 /\ entry' = Nobody))
        BY <2>7, EntryKept DEF Answer
    <3> QED BY <3>1, <3>2, NeutralStep
  <2>8. CASE Answer(i, "verify", "undo", IF i \in up THEN "clear" ELSE "undo")
    <3>1. \E to \in {"undo", "clear"} : pc[i] = "verify" /\ pc' = [pc EXCEPT ![i] = to]
        BY <2>8 DEF Answer, At, Goto
    <3>2. UNCHANGED <<got, holder, holders>> /\ (entry' = entry \/ (holders = 0 /\ entry' = Nobody))
        BY <2>8, EntryKept DEF Answer
    <3> QED BY <3>1, <3>2, NeutralStep
  <2>9. CASE MarkConnecting(i)
    <3>1. pc[i] = "claim" /\ pc' = [pc EXCEPT ![i] = "unlock"] /\ UNCHANGED <<got, holder, holders>>
        BY <2>9 DEF MarkConnecting, At, Goto
    <3>2. entry # Nobody
        BY <3>1 DEF LockInv
    <3>3. entry' = entry
        BY <2>9, <3>2 DEF MarkConnecting
    <3> QED BY <3>1, <3>3, NeutralStep
  <2>10. CASE Unmark(i) \/ Undo(i)
    <3>1. \E to \in {"verify", "discard"} : pc[i] \in {"unmark", "undo"} /\ pc' = [pc EXCEPT ![i] = to]
        BY <2>10 DEF Unmark, Undo, At, Goto
    <3>2. UNCHANGED <<got, holder, holders>> /\ (entry' = entry \/ (holders = 0 /\ entry' = Nobody))
        BY <2>10, EntryKept DEF Unmark, Undo, Released
    <3> QED BY <3>1, <3>2, NeutralStep
  <2>11. CASE ClearConnecting(i)
    <3>1. pc[i] = "clear" /\ pc' = [pc EXCEPT ![i] = "idle"]
        BY <2>11 DEF ClearConnecting, At, Goto
    <3>2. UNCHANGED <<got, holder, holders>> /\ (entry' = entry \/ (holders = 0 /\ entry' = Nobody))
        BY <2>11, EntryKept DEF ClearConnecting
    <3> QED BY <3>1, <3>2, NeutralStep
  <2>12. CASE DialSucceeds(i) \/ DialFails(i) \/ MarkConnected(i)
    <3>1. \/ pc[i] = "dial" /\ pc' = [pc EXCEPT ![i] = "claim"]
          \/ pc[i] = "dial" /\ pc' = [pc EXCEPT ![i] = "unlock0"]
          \/ pc[i] = "mark" /\ pc' = [pc EXCEPT ![i] = "unlock2"]
        BY <2>12 DEF DialSucceeds, DialFails, MarkConnected, At, Goto
    <3>2. UNCHANGED <<got, holder, holders, entry>>
        BY <2>12 DEF DialSucceeds, DialFails, MarkConnected, entryVars
    <3> QED BY <3>1, <3>2, NeutralStep
  <2>13. CASE Gates(i) \/ Regate(i) \/ Discard(i)
    <3>1. \E to \in {"fetch2", "verify", "unmark", "clear"} :
              pc[i] \in {"gates", "regate", "discard"} /\ pc' = [pc EXCEPT ![i] = to]
        BY <2>13 DEF Gates, Regate, Discard, At, Goto
    <3>2. UNCHANGED <<got, holder, holders, entry>>
        BY <2>13 DEF Gates, Regate, Discard, entryVars
    <3> QED BY <3>1, <3>2, NeutralStep
  <2> QED BY <1>2, <2>1, <2>2, <2>3, <2>4, <2>5, <2>6, <2>7, <2>8, <2>9, <2>10, <2>11, <2>12, <2>13
          DEF Connect, Verify
<1>3. ASSUME NEW i \in Interfaces, Start(i) PROVE LockInv'
  <2>1. pc[i] = "idle" /\ pc' = [pc EXCEPT ![i] = "ask"] /\ UNCHANGED <<got, holder, holders, entry>>
      BY <1>3 DEF Start, At, Goto, entryVars
  <2> QED BY <2>1, NeutralStep DEF Places, Handed, Held
<1>4. ASSUME NEW i \in Interfaces, Release(i) PROVE LockInv'
  <2>1. UNCHANGED <<pc, got, holder, holders>> /\ (entry' = entry \/ (holders = 0 /\ entry' = Nobody))
      BY <1>4, EntryKept DEF Release, Released
  <2>2. \A j \in Interfaces : got'[j] # Nobody => got'[j] = entry'
      BY <2>1, NoUsers DEF LockInv
  <2> QED BY <2>1, <2>2 DEF LockInv, FunInv, Users
<1>5. ASSUME NEW i \in Interfaces, Loses(i) \/ Dies(i) PROVE LockInv'
    BY <1>1, <1>5 DEF Loses, Dies, entryVars
<1>6. ASSUME Age \/ UNCHANGED vars PROVE LockInv'
    BY <1>1, <1>6 DEF Age, vars, entryVars
<1> QED BY <1>2, <1>3, <1>4, <1>5, <1>6 DEF Next, Step

LEMMA LockInit == Init => LockInv
<1> SUFFICES ASSUME Init PROVE LockInv
    OBVIOUS
<1>1. Users = {}
    BY DEF Init, Users
<1>2. holders = Cardinality(Users)
    BY <1>1, FS_EmptySet DEF Init
<1> QED BY <1>2, GateAssumption DEF Init, LockInv, FunInv, Places, Handed, Held

\* No two interfaces are inside a section of the address at once, for any number of
\* interfaces, although the registry drops and recreates the lock between them.
THEOREM LockIsOne == Spec => []OneLockHolder
<1>1. LockInv => OneLockHolder
  <2> SUFFICES ASSUME LockInv, NEW i \in Interfaces, NEW j \in Interfaces, Inside(i), Inside(j)
               PROVE  i = j
      BY DEF OneLockHolder
  <2>1. PICK l \in Locks : holder[l] = i
      BY DEF Inside
  <2>2. PICK m \in Locks : holder[m] = j
      BY DEF Inside
  <2>3. l = entry /\ m = entry
      BY <2>1, <2>2, GateAssumption DEF LockInv
  <2> QED BY <2>1, <2>2, <2>3
<1> QED BY <1>1, LockInit, LockStep, PTL DEF Spec

----------------------------------------------------------------------------
(* What is left when all is done.                                          *)

\* From the provisional claim to the end of connect(), and while a mark as connected has not
\* been looked at again.
Claiming == {"unlock", "putBack", "gates", "fetch2", "wait2", "mark", "unlock2", "putBack2",
             "regate", "unmark", "verify", "undo", "discard", "clear"}
Unsure == {"unlock2", "putBack2", "regate", "unmark"}

\* Whoever is named in a claim still has a step to come that takes it back.
ClaimInv ==
    /\ pc \in [Interfaces -> Places]
    /\ connected \in Interfaces \cup {Nobody} /\ connecting \in Interfaces \cup {Nobody}
    /\ alive \subseteq Interfaces
    /\ connecting # Nobody => pc[connecting] \in Claiming
    /\ connected \in alive /\ connected \notin up \cup releasing => pc[connected] \in Unsure
    /\ \A i \in Interfaces : pc[i] = "discard" => connected # i
EntryInv == {connected, connecting} \subseteq {Nobody} /\ holders = 0 => entry = Nobody

\* A step of connect() that at most drops a claim, and leaves i its place among those above.
LEMMA ClaimMove ==
    ASSUME ClaimInv, NEW i \in Interfaces, NEW to \in Places \ {"discard"},
           pc' = [pc EXCEPT ![i] = to],
           pc[i] \in Claiming => to \in Claiming, pc[i] \in Unsure => to \in Unsure,
           connected' \in {connected, Nobody}, connecting' \in {connecting, Nobody},
           UNCHANGED <<alive, up, releasing>>
    PROVE  ClaimInv'
<1> USE GateAssumption
<1>1. pc' \in [Interfaces -> Places] /\ pc'[i] = to /\ \A j \in Interfaces : j # i => pc'[j] = pc[j]
    BY DEF ClaimInv
<1>2. \A j \in Interfaces : /\ pc[j] \in Claiming => pc'[j] \in Claiming
                            /\ pc[j] \in Unsure => pc'[j] \in Unsure
                            /\ pc'[j] = "discard" => pc[j] = "discard"
    BY <1>1
<1>3. /\ connected' \in Interfaces \cup {Nobody} /\ connecting' \in Interfaces \cup {Nobody}
      /\ connecting' # Nobody => pc'[connecting'] \in Claiming
    BY <1>2 DEF ClaimInv
<1>4. connected' \in alive' /\ connected' \notin up' \cup releasing' => pc'[connected'] \in Unsure
  <2> SUFFICES ASSUME connected' \in alive', connected' \notin up' \cup releasing'
               PROVE  pc'[connected'] \in Unsure
      OBVIOUS
  <2>1. connected' = connected /\ connected \in Interfaces
      BY DEF ClaimInv
  <2> QED BY <1>2, <2>1 DEF ClaimInv
<1>5. \A j \in Interfaces : pc'[j] = "discard" => connected' # j
    BY <1>2 DEF ClaimInv
<1>6. alive' \subseteq Interfaces
    BY DEF ClaimInv
<1> QED BY <1>1, <1>3, <1>4, <1>5, <1>6 DEF ClaimInv

LEMMA ClaimStep == ClaimInv /\ [Next]_vars => ClaimInv'
<1> SUFFICES ASSUME ClaimInv, [Next]_vars PROVE ClaimInv'
    OBVIOUS
<1> USE GateAssumption
<1>1. ASSUME UNCHANGED <<pc, connected, connecting, alive, up, releasing>> PROVE ClaimInv'
    BY <1>1 DEF ClaimInv
<1>2. ASSUME NEW i \in Interfaces, NEW to, pc' = [pc EXCEPT ![i] = to]
      PROVE  pc'[i] = to /\ \A j \in Interfaces : j # i => pc'[j] = pc[j]
    BY <1>2 DEF ClaimInv
<1>3. ASSUME NEW i \in Interfaces, Connect(i) PROVE ClaimInv'
  <2> USE DEF claimVars, ownerVars, At, Goto
  <2> DEFINE Moves(from, to) == /\ pc[i] = from /\ pc' = [pc EXCEPT ![i] = to]
             Same == UNCHANGED <<connected, connecting, alive, up, releasing>>
             Dropping == /\ connected' \in {connected, Nobody} /\ connecting' \in {connecting, Nobody}
                         /\ UNCHANGED <<alive, up, releasing>>
  <2>1. CASE \/ Fetch(i, "fetch", "wait") \/ Fetch(i, "fetch2", "wait2")
             \/ Acquire(i, "wait", "recheck") \/ Acquire(i, "wait2", "mark")
    <3>1. \/ Moves("fetch", "wait") \/ Moves("fetch2", "wait2")
          \/ Moves("wait", "recheck") \/ Moves("wait2", "mark")
        BY <2>1 DEF Fetch, Acquire
    <3>2. Same
        BY <2>1 DEF Fetch, Acquire
    <3> QED BY <3>1, <3>2, ClaimMove DEF Places, Claiming, Unsure
  <2>2. CASE \/ Unlock(i, "unlock0", "putBack0") \/ Unlock(i, "unlock", "putBack")
             \/ Unlock(i, "unlock2", "putBack2")
    <3>1. Moves("unlock0", "putBack0") \/ Moves("unlock", "putBack") \/ Moves("unlock2", "putBack2")
        BY <2>2 DEF Unlock
    <3>2. Same
        BY <2>2 DEF Unlock
    <3> QED BY <3>1, <3>2, ClaimMove DEF Places, Claiming, Unsure
  <2>3. CASE \/ PutBack(i, "putBack0", "idle") \/ PutBack(i, "putBack", "gates")
             \/ PutBack(i, "putBack2", "regate")
    <3>1. Moves("putBack0", "idle") \/ Moves("putBack", "gates") \/ Moves("putBack2", "regate")
        BY <2>3 DEF PutBack
    <3>2. Same
        BY <2>3 DEF PutBack
    <3> QED BY <3>1, <3>2, ClaimMove DEF Places, Claiming, Unsure
  <2>4. CASE Look(i, "ask") \/ Look(i, "recheck") \/ Look(i, "verify") \/ Probe(i)
      BY <1>1, <2>4 DEF Look, Probe
  <2>5. ASSUME NEW at, NEW yes, NEW no, Answer(i, at, yes, no)
        PROVE  Dropping /\ (Moves(at, yes) \/ Moves(at, no))
    <3>1. Dropping
        BY <2>5 DEF Answer
    <3>2. Moves(at, yes) \/ Moves(at, no)
      <4>1. CASE Elsewhere(i)
          BY <2>5, <4>1 DEF Answer
      <4>2. CASE ~Elsewhere(i)
          BY <2>5, <4>2 DEF Answer
      <4> QED BY <4>1, <4>2
    <3> QED BY <3>1, <3>2
  <2>6. CASE Answer(i, "ask", "idle", "fetch") \/ Answer(i, "recheck", "unlock0", "dial")
    <3>1. \/ Moves("ask", "idle") \/ Moves("ask", "fetch")
          \/ Moves("recheck", "unlock0") \/ Moves("recheck", "dial")
        BY <2>5, <2>6
    <3>2. Dropping
        BY <2>5, <2>6
    <3> QED BY <3>1, <3>2, ClaimMove DEF Places, Claiming, Unsure
  <2>7. CASE Answer(i, "verify", "undo", IF i \in up THEN "clear" ELSE "undo")
    <3>1. Moves("verify", "undo") \/ Moves("verify", "clear")
        BY <2>7 DEF Answer
    <3>2. Dropping
        BY <2>5, <2>7
    <3> QED BY <3>1, <3>2, ClaimMove DEF Places, Claiming, Unsure
  <2>8. CASE DialFails(i) \/ Gates(i)
    <3>1. Moves("dial", "unlock0") \/ Moves("gates", "fetch2") \/ Moves("gates", "verify")
        BY <2>8 DEF DialFails, Gates
    <3>2. Same
        BY <2>8 DEF DialFails, Gates
    <3> QED BY <3>1, <3>2, ClaimMove DEF Places, Claiming, Unsure
  <2>9. CASE DialSucceeds(i)
    <3>1. Moves("dial", "claim") /\ up' = up \cup {i}
          /\ UNCHANGED <<connected, connecting, alive, releasing>>
        BY <2>9 DEF DialSucceeds
    <3>2. pc'[i] = "claim" /\ \A j \in Interfaces : j # i => pc'[j] = pc[j]
        BY <1>2, <3>1
    <3> QED BY <3>1, <3>2 DEF ClaimInv, Places, Claiming
  <2>10. CASE MarkConnecting(i)
    <3>1. /\ Moves("claim", "unlock") /\ connecting' = i
          /\ UNCHANGED <<connected, alive, up, releasing>>
        BY <2>10 DEF MarkConnecting
    <3>2. pc'[i] = "unlock" /\ \A j \in Interfaces : j # i => pc'[j] = pc[j]
        BY <1>2, <3>1
    <3> QED BY <3>1, <3>2 DEF ClaimInv, Places, Claiming, Unsure
  <2>11. CASE MarkConnected(i)
    <3>1. /\ Moves("mark", "unlock2") /\ connected' = i /\ connecting' = Nobody
          /\ UNCHANGED <<alive, up, releasing>>
        BY <2>11 DEF MarkConnected
    <3>2. pc'[i] = "unlock2" /\ \A j \in Interfaces : j # i => pc'[j] = pc[j]
        BY <1>2, <3>1
    <3>3. \A j \in Interfaces : pc'[j] = "discard" => connected' # j
        BY <3>1, <3>2
    <3> QED BY <3>1, <3>2, <3>3 DEF ClaimInv, Places, Unsure
  <2>12. CASE Regate(i)
    <3>1. (Moves("regate", "verify") /\ i \in up) \/ Moves("regate", "unmark")
        BY <2>12 DEF Regate
    <3>2. Same
        BY <2>12 DEF Regate
    <3>3. CASE Moves("regate", "verify") /\ i \in up
      <4>1. pc'[i] = "verify" /\ \A j \in Interfaces : j # i => pc'[j] = pc[j]
          BY <1>2, <3>3
      <4>2. /\ connecting' # Nobody => pc'[connecting'] \in Claiming
            /\ \A j \in Interfaces : pc'[j] = "discard" => connected' # j
          BY <3>2, <4>1 DEF ClaimInv, Claiming
      <4>3. connected' \in alive' /\ connected' \notin up' \cup releasing' => pc'[connected'] \in Unsure
          BY <3>2, <3>3, <4>1 DEF ClaimInv
      <4> QED BY <3>2, <3>3, <4>2, <4>3 DEF ClaimInv, Places
    <3> QED BY <3>1, <3>2, <3>3, ClaimMove DEF Places, Claiming, Unsure
  <2>13. CASE Unmark(i) \/ Undo(i)
    <3>1. Moves("unmark", "verify") \/ Moves("undo", "discard")
        BY <2>13 DEF Unmark, Undo
    <3>2. Dropping /\ connected' # i
        BY <2>13 DEF Unmark, Undo, Released, ClaimInv
    <3>3. pc'[i] \in {"verify", "discard"} /\ \A j \in Interfaces : j # i => pc'[j] = pc[j]
        BY <1>2, <3>1
    <3>4. pc' \in [Interfaces -> Places]
        BY <3>1 DEF ClaimInv, Places
    <3>5. connecting' # Nobody => pc'[connecting'] \in Claiming
        BY <3>2, <3>3 DEF ClaimInv, Claiming
    <3>6. connected' \in alive' => connected' = connected /\ connected # i /\ connected \in Interfaces
        BY <3>2 DEF ClaimInv
    <3>7. connected' \in alive' /\ connected' \notin up' \cup releasing' => pc'[connected'] \in Unsure
        BY <3>2, <3>3, <3>6 DEF ClaimInv
    <3>8. \A j \in Interfaces : pc'[j] = "discard" => connected' # j
        BY <3>2, <3>3 DEF ClaimInv
    <3> QED BY <3>2, <3>4, <3>5, <3>7, <3>8 DEF ClaimInv
  <2>14. CASE Discard(i)
    <3>1. /\ Moves("discard", "clear") /\ up' = up \ {i}
          /\ UNCHANGED <<connected, connecting, alive, releasing>> /\ connected # i
        BY <2>14 DEF Discard, ClaimInv
    <3>2. pc'[i] = "clear" /\ \A j \in Interfaces : j # i => pc'[j] = pc[j]
        BY <1>2, <3>1
    <3> QED BY <3>1, <3>2 DEF ClaimInv, Places, Claiming
  <2>15. CASE ClearConnecting(i)
    <3>1. /\ Moves("clear", "idle") /\ Dropping /\ connected' = connected /\ connecting' # i
        BY <2>15 DEF ClearConnecting, ClaimInv
    <3>2. pc'[i] = "idle" /\ \A j \in Interfaces : j # i => pc'[j] = pc[j]
        BY <1>2, <3>1
    <3>3. pc' \in [Interfaces -> Places]
        BY <3>1 DEF ClaimInv, Places
    <3>4. connecting' # Nobody => pc'[connecting'] \in Claiming
        BY <3>1, <3>2 DEF ClaimInv
    <3>5. connected' \in alive' /\ connected' \notin up' \cup releasing' => pc'[connected'] \in Unsure
        BY <3>1, <3>2 DEF ClaimInv, Unsure
    <3> QED BY <3>1, <3>2, <3>3, <3>4, <3>5 DEF ClaimInv
  <2> QED BY <1>3, <2>1, <2>2, <2>3, <2>4, <2>6, <2>7, <2>8, <2>9, <2>10, <2>11, <2>12, <2>13,
             <2>14, <2>15 DEF Connect, Verify
<1>4. ASSUME NEW i \in Interfaces, Start(i) PROVE ClaimInv'
  <2>1. pc[i] = "idle" /\ pc' = [pc EXCEPT ![i] = "ask"]
      BY <1>4 DEF Start, At, Goto
  <2>2. UNCHANGED <<connected, connecting, alive, up, releasing>>
      BY <1>4 DEF Start, claimVars
  <2> QED BY <2>1, <2>2, ClaimMove DEF Places, Claiming, Unsure
<1>5. ASSUME NEW i \in Interfaces, Loses(i) PROVE ClaimInv'
    BY <1>5 DEF ClaimInv, Loses, claimVars
<1>6. ASSUME NEW i \in Interfaces, Release(i) PROVE ClaimInv'
  <2>1. /\ connected' \in {connected, Nobody} /\ connecting' \in {connecting, Nobody} /\ connected' # i
        /\ releasing' = releasing \ {i} /\ UNCHANGED <<pc, alive, up>>
      BY <1>6 DEF Release, Released, claimVars, ClaimInv
  <2> QED BY <2>1 DEF ClaimInv
<1>7. ASSUME NEW i \in Interfaces, Dies(i) PROVE ClaimInv'
    BY <1>7 DEF ClaimInv, Dies, claimVars
<1>8. ASSUME Age \/ UNCHANGED vars PROVE ClaimInv'
    BY <1>1, <1>8 DEF Age, vars, claimVars, ownerVars
<1> QED BY <1>3, <1>4, <1>5, <1>6, <1>7, <1>8 DEF Next, Step

LEMMA EntryStep == EntryInv /\ LockInv /\ [Next]_vars => EntryInv'
<1> SUFFICES ASSUME EntryInv, LockInv, [Next]_vars PROVE EntryInv'
    OBVIOUS
<1> USE GateAssumption DEF EntryInv, Cleaned, claimVars, entryVars
<1>1. ASSUME UNCHANGED <<claimVars, entryVars>> PROVE EntryInv'
    BY <1>1
<1>2. ASSUME NEW i \in Interfaces, Connect(i) PROVE EntryInv'
  <2>1. ASSUME NEW from, NEW to, Fetch(i, from, to) PROVE EntryInv'
    <3>1. holders' # 0
        BY <2>1, UsersFinite DEF Fetch, LockInv
    <3> QED BY <3>1
  <2>2. ASSUME NEW from, NEW to, Acquire(i, from, to) \/ Unlock(i, from, to) PROVE EntryInv'
      BY <2>2 DEF Acquire, Unlock
  <2>3. ASSUME NEW from, NEW to, PutBack(i, from, to) PROVE EntryInv'
      BY <2>3 DEF PutBack
  <2>4. ASSUME NEW at, Look(i, at) PROVE EntryInv'
      BY <2>4 DEF Look
  <2>5. ASSUME NEW at, NEW yes, NEW no, Answer(i, at, yes, no) PROVE EntryInv'
      BY <2>5 DEF Answer
  <2>6. CASE Probe(i) \/ DialSucceeds(i) \/ DialFails(i) \/ Gates(i) \/ Regate(i) \/ Discard(i)
      BY <2>6 DEF Probe, DialSucceeds, DialFails, Gates, Regate, Discard
  <2>7. CASE MarkConnecting(i) \/ MarkConnected(i)
      BY <2>7 DEF MarkConnecting, MarkConnected
  <2>8. CASE Unmark(i) \/ Undo(i)
      BY <2>8 DEF Unmark, Undo, Released
  <2>9. CASE ClearConnecting(i)
      BY <2>9 DEF ClearConnecting
  <2> QED BY <1>2, <2>1, <2>2, <2>3, <2>4, <2>5, <2>6, <2>7, <2>8, <2>9 DEF Connect, Verify
<1>3. ASSUME NEW i \in Interfaces, Start(i) \/ Loses(i) \/ Dies(i) PROVE EntryInv'
    BY <1>3 DEF Start, Loses, Dies
<1>4. ASSUME NEW i \in Interfaces, Release(i) PROVE EntryInv'
    BY <1>4 DEF Release, Released
<1>5. ASSUME Age \/ UNCHANGED vars PROVE EntryInv'
    BY <1>5 DEF Age, vars
<1> QED BY <1>2, <1>3, <1>4, <1>5 DEF Next, Step

\* When every call and every disconnect of any number of interfaces has ended, no provisional
\* claim, no user of the lock, and no lock entry without a claim is left.
THEOREM GateIsCleared == Spec => []NothingLeft
<1>1. Init => LockInv /\ ClaimInv /\ EntryInv
  <2>1. Init => ClaimInv /\ EntryInv
      BY GateAssumption DEF Init, ClaimInv, EntryInv, Places
  <2> QED BY <2>1, LockInit
<1>2. LockInv /\ ClaimInv /\ EntryInv /\ [Next]_vars => LockInv' /\ ClaimInv' /\ EntryInv'
    BY LockStep, ClaimStep, EntryStep
<1>3. LockInv /\ ClaimInv /\ EntryInv => NothingLeft
  <2> SUFFICES ASSUME LockInv, ClaimInv, EntryInv, Resting
               PROVE  /\ connecting = Nobody
                      /\ connected \in alive => connected \in up
                      /\ holders = 0
                      /\ connected = Nobody => entry = Nobody
      BY DEF NothingLeft
  <2>1. \A i \in Interfaces : pc[i] = "idle"
      BY DEF Resting, At
  <2>2. connecting = Nobody
      BY <2>1 DEF ClaimInv, Claiming
  <2>3. connected \in alive => connected \in up
      BY <2>1, GateAssumption DEF ClaimInv, Unsure, Resting
  <2>4. Users = {}
      BY <2>1 DEF LockInv, Users, Handed, Held
  <2>5. holders = 0
      BY <2>4, FS_EmptySet DEF LockInv
  <2> QED BY <2>2, <2>3, <2>5 DEF EntryInv
<1> QED BY <1>1, <1>2, <1>3, PTL DEF Spec
----------------------------------------------------------------------------
(* Two connects.                                                           *)

\* Before the dial has been answered an interface has touched nothing.
Undialed(i) == connects[i] = 0 \/ pc[i] \in {"ask", "fetch", "wait", "recheck", "dial"}
Alone(i) == \A j \in Interfaces : j # i => Undialed(j)

\* From the provisional claim to the final one.
Provisional == {"unlock", "putBack", "gates", "fetch2", "wait2", "mark"}

\* The hypothesis of PairArbitrated, without its cardinality.
Pair ==
    /\ ~aged /\ \A i \in Interfaces : connects[i] <= 1
    /\ \A i, j, k \in Interfaces :
           connects[i] = 1 /\ connects[j] = 1 /\ connects[k] = 1 => i = j \/ j = k \/ i = k

FreeInv ==
    /\ connects \in [Interfaces -> Nat]
    /\ sample \in [Interfaces -> [of : Interfaces \cup {Nobody},
                                  saw : {"unknown", "connected", "other"}]]
    /\ \A i \in Interfaces : connects[i] = 0 => pc[i] = "idle"
    /\ \A i \in Interfaces : pc[i] # "idle" => i \in alive
    /\ up \subseteq alive

UndialedInv == \A i \in Interfaces : Undialed(i) =>
    /\ i \notin up /\ i \notin releasing /\ connected # i /\ connecting # i
    /\ \A j \in Interfaces : sample[j].of # i

\* An interface that is up is in no section that only a failed dial or a lost session leads to,
\* and no probe of it that is still to be used has found it down.
UpInv ==
    /\ \A i \in up : i \notin releasing /\ pc[i] \notin {"unlock0", "putBack0", "unmark"}
    /\ \A i \in up, j \in Interfaces : sample[j].of = i => sample[j].saw # "other"

\* An interface that is up is the only one, and nobody is past the second question.
OnlyUp == \A i \in up, j \in Interfaces : i # j => j \notin up /\ pc[j] \notin {"dial", "claim"}

\* As long as nobody else has dialed, it keeps its claim, and is not told to give it up.
Claimed == \A i \in up : Alone(i) =>
    /\ pc[i] # "undo"
    /\ pc[i] \in Provisional => connecting = i
    /\ pc[i] \notin Provisional \cup {"claim"} => connected = i

ArbInv == ~stale /\ UndialedInv /\ UpInv /\ OnlyUp /\ Claimed
PairInv == Pair => ArbInv

\* What the steps of a pair are steps of: the hypothesis once lost is lost for good.
LEMMA PairBack == FreeInv /\ [Next]_vars /\ Pair' => Pair
<1> SUFFICES ASSUME FreeInv, [Next]_vars, Pair' PROVE Pair
    OBVIOUS
<1>1. aged => aged'
  <2>1. CASE Age
      BY <2>1 DEF Age
  <2>2. CASE \E i \in Interfaces : Step(i)
      BY <2>2 DEF Step
  <2>3. CASE UNCHANGED vars
      BY <2>3 DEF vars
  <2> QED BY <2>1, <2>2, <2>3 DEF Next
<1>2. connects' = connects \/ \E i \in Interfaces : connects' = [connects EXCEPT ![i] = @ + 1]
  <2>1. CASE Age \/ UNCHANGED vars
      BY <2>1 DEF Age, vars, ownerVars
  <2>2. ASSUME NEW i \in Interfaces, Step(i)
        PROVE  connects' = connects \/ connects' = [connects EXCEPT ![i] = @ + 1]
    <3>1. CASE Start(i)
        BY <3>1 DEF Start
    <3>2. CASE Loses(i) \/ Release(i) \/ Dies(i)
        BY <3>2 DEF Loses, Release, Dies
    <3>3. CASE Connect(i)
        BY <3>3 DEF Connect, Look, Answer, Fetch, Acquire, Unlock, PutBack, DialSucceeds, DialFails,
                    MarkConnecting, Gates, MarkConnected, Regate, Unmark, Verify, Probe, Undo,
                    Discard, ClearConnecting, ownerVars
    <3> QED BY <2>2, <3>1, <3>2, <3>3 DEF Step
  <2> QED BY <2>1, <2>2 DEF Next
<1>3. \A k \in Interfaces : /\ connects[k] \in Nat
                            /\ connects'[k] = connects[k] \/ connects'[k] = connects[k] + 1
    BY <1>2 DEF FreeInv
<1>4. \A k \in Interfaces : connects[k] = 1 => connects'[k] = 1
    BY <1>3 DEF Pair
<1>5. \A k \in Interfaces : connects[k] <= 1
    BY <1>3 DEF Pair
<1> QED BY <1>1, <1>4, <1>5 DEF Pair

\* A step within connect() that gives nothing away but the claims of those who are not up.
Retains(i, from, to) ==
    /\ pc[i] = from /\ pc' = [pc EXCEPT ![i] = to]
    /\ UNCHANGED <<up, connects>> /\ releasing' \subseteq releasing
    /\ connected' \in {connected, Nobody} /\ connecting' \in {connecting, Nobody} /\ ~stale'
    /\ \A j \in Interfaces : sample'[j] \in {sample[j], NoSample}
    /\ \A k \in up : Alone(k) =>
           /\ pc[k] \in Provisional => connecting' = connecting
           /\ pc[k] \notin Provisional => connected' = connected

LEMMA RetainsStep ==
    ASSUME FunInv, FreeInv, ArbInv, up \subseteq Interfaces,
           NEW i \in Interfaces, NEW from, NEW to \in Places, Retains(i, from, to),
           to \in {"ask", "fetch", "wait", "recheck", "dial"} =>
               from \in {"ask", "fetch", "wait", "recheck", "dial"},
           to # "claim", to = "dial" => up = {},
           i \in up => /\ from # "claim" /\ (to \in Provisional <=> from \in Provisional)
                       /\ to \notin {"unlock0", "putBack0", "unmark"},
           i \in up /\ to = "undo" => ~Alone(i)
    PROVE  ArbInv'
<1>1. \A j \in Interfaces : j # i => pc'[j] = pc[j]
    BY DEF Retains, FunInv
<1>2. pc'[i] = to /\ pc[i] = from
    BY DEF Retains, FunInv
<1>3. up' = up /\ connects' = connects /\ releasing' \subseteq releasing
    BY DEF Retains
<1>4. \A j \in Interfaces : Undialed(j)' => Undialed(j)
    BY <1>1, <1>2, <1>3 DEF Undialed
<1>5. \A j \in Interfaces : Alone(j)' => Alone(j)
    BY <1>4 DEF Alone
<1>6. UndialedInv'
  <2> SUFFICES ASSUME NEW k \in Interfaces, Undialed(k)'
               PROVE  /\ k \notin up' /\ k \notin releasing' /\ connected' # k /\ connecting' # k
                      /\ \A j \in Interfaces : sample'[j].of # k
      BY DEF UndialedInv
  <2>1. /\ k \notin up /\ k \notin releasing /\ connected # k /\ connecting # k
        /\ \A j \in Interfaces : sample[j].of # k
      BY <1>4 DEF ArbInv, UndialedInv
  <2>2. k # Nobody
      BY GateAssumption
  <2>3. \A j \in Interfaces : sample'[j].of # k
      BY <2>1, <2>2 DEF Retains, NoSample
  <2> QED BY <1>3, <2>1, <2>2, <2>3 DEF Retains
<1>7. UpInv'
  <2>1. \A k \in up' : k \notin releasing' /\ pc'[k] \notin {"unlock0", "putBack0", "unmark"}
      BY <1>1, <1>2, <1>3 DEF ArbInv, UpInv
  <2>2. \A k \in up', j \in Interfaces : sample'[j].of = k => sample'[j].saw # "other"
      BY <1>3 DEF ArbInv, UpInv, Retains, NoSample
  <2> QED BY <2>1, <2>2 DEF UpInv
<1>8. OnlyUp'
    BY <1>1, <1>2, <1>3 DEF ArbInv, OnlyUp
<1>9. Claimed'
  <2> SUFFICES ASSUME NEW k \in up', Alone(k)'
               PROVE  /\ pc'[k] # "undo"
                      /\ pc'[k] \in Provisional => connecting' = k
                      /\ pc'[k] \notin Provisional \cup {"claim"} => connected' = k
      BY DEF Claimed
  <2>1. k \in up /\ Alone(k)
      BY <1>3, <1>5
  <2>2. /\ pc[k] # "undo"
        /\ pc[k] \in Provisional => connecting = k
        /\ pc[k] \notin Provisional \cup {"claim"} => connected = k
      BY <2>1 DEF ArbInv, Claimed
  <2>3. /\ pc[k] \in Provisional => connecting' = connecting
        /\ pc[k] \notin Provisional => connected' = connected
      BY <2>1 DEF Retains
  <2>4. CASE k = i
      BY <1>2, <2>1, <2>2, <2>3, <2>4
  <2>5. CASE k # i
      BY <1>1, <2>1, <2>2, <2>3, <2>5
  <2> QED BY <2>4, <2>5
<1> QED BY <1>6, <1>7, <1>8, <1>9 DEF ArbInv, Retains

\* FreeInv: only Start leaves the idle place, and what is not idle is not collected.
LEMMA FreeStep == FunInv /\ ClaimInv /\ FreeInv /\ [Next]_vars => FreeInv'
<1> SUFFICES ASSUME FunInv, ClaimInv, FreeInv, [Next]_vars PROVE FreeInv'
    OBVIOUS
<1> USE GateAssumption
<1>1. ASSUME UNCHANGED <<connects, sample, pc, alive, up>> PROVE FreeInv'
    BY <1>1 DEF FreeInv
<1>2. ASSUME NEW i \in Interfaces, NEW from, NEW to, from # "idle", pc[i] = from,
             pc' = [pc EXCEPT ![i] = to], UNCHANGED <<connects, alive>>, up' \subseteq up \cup {i},
             \A j \in Interfaces : sample'[j] \in {sample[j], NoSample},
             sample' \in [Interfaces -> [of : Interfaces \cup {Nobody},
                                         saw : {"unknown", "connected", "other"}]]
      PROVE  FreeInv'
  <2>1. \A j \in Interfaces : j # i => pc'[j] = pc[j]
      BY <1>2 DEF FunInv
  <2>2. connects[i] # 0 /\ i \in alive
      BY <1>2 DEF FreeInv
  <2> QED BY <1>2, <2>1, <2>2 DEF FreeInv
<1>3. ASSUME NEW i \in Interfaces, Connect(i) PROVE FreeInv'
  <2>1. ASSUME NEW at, Look(i, at) PROVE FreeInv'
    <3>1. UNCHANGED <<connects, pc, alive, up>>
        BY <2>1 DEF Look, ownerVars, claimVars
    <3>2. sample' = [sample EXCEPT ![i].of = connected] /\ connected \in Interfaces
        BY <2>1 DEF Look, ClaimInv
    <3> QED BY <3>1, <3>2 DEF FreeInv
  <2>2. CASE Probe(i)
    <3>1. UNCHANGED <<connects, pc, alive, up>>
        BY <2>2 DEF Probe, ownerVars
    <3>2. \E s \in {"connected", "other"} : sample' = [sample EXCEPT ![i].saw = s]
        BY <2>2 DEF Probe
    <3> QED BY <3>1, <3>2 DEF FreeInv
  <2>3. ASSUME NEW at, NEW yes, NEW no, at # "idle", Answer(i, at, yes, no) PROVE FreeInv'
    <3>1. UNCHANGED <<connects, alive, up>> /\ sample' = [sample EXCEPT ![i] = NoSample]
        BY <2>3 DEF Answer, ownerVars
    <3>2. pc[i] = at /\ \E to \in {yes, no} : pc' = [pc EXCEPT ![i] = to]
      <4>1. CASE Elsewhere(i)
          BY <2>3, <4>1 DEF Answer, At, Goto
      <4>2. CASE ~Elsewhere(i)
          BY <2>3, <4>2 DEF Answer, At, Goto
      <4> QED BY <4>1, <4>2
    <3>3. \A j \in Interfaces : sample'[j] \in {sample[j], NoSample}
        BY <3>1 DEF FreeInv
    <3>4. sample' \in [Interfaces -> [of : Interfaces \cup {Nobody},
                                      saw : {"unknown", "connected", "other"}]]
        BY <3>1 DEF FreeInv, NoSample
    <3> QED BY <1>2, <2>3, <3>1, <3>2, <3>3, <3>4
  <2>4. ASSUME NEW from, NEW to, from # "idle", pc[i] = from, pc' = [pc EXCEPT ![i] = to],
               UNCHANGED <<connects, alive, sample>>, up' \subseteq up \cup {i}
        PROVE  FreeInv'
    <3>1. \A j \in Interfaces : sample'[j] \in {sample[j], NoSample}
        BY <2>4
    <3> QED BY <1>2, <2>4, <3>1 DEF FreeInv
  <2>5. ASSUME NEW from, NEW to, from # "idle",
               Fetch(i, from, to) \/ Acquire(i, from, to) \/ Unlock(i, from, to) \/ PutBack(i, from, to)
        PROVE  FreeInv'
    <3>1. /\ pc[i] = from /\ pc' = [pc EXCEPT ![i] = to]
          /\ UNCHANGED <<connects, alive, sample, up>>
        BY <2>5 DEF Fetch, Acquire, Unlock, PutBack, At, Goto, ownerVars
    <3> QED BY <2>4, <2>5, <3>1
  <2>6. CASE DialSucceeds(i) \/ DialFails(i) \/ MarkConnecting(i) \/ MarkConnected(i)
    <3>1. \E from \in {"dial", "claim", "mark"}, to \in {"claim", "unlock0", "unlock", "unlock2"} :
              pc[i] = from /\ pc' = [pc EXCEPT ![i] = to]
        BY <2>6 DEF DialSucceeds, DialFails, MarkConnecting, MarkConnected, At, Goto
    <3>2. UNCHANGED <<connects, alive, sample>> /\ up' \subseteq up \cup {i}
        BY <2>6 DEF DialSucceeds, DialFails, MarkConnecting, MarkConnected, ownerVars
    <3> QED BY <2>4, <3>1, <3>2
  <2>7. CASE Gates(i) \/ Regate(i) \/ Discard(i)
    <3>1. \E from \in {"gates", "regate", "discard"}, to \in {"fetch2", "verify", "unmark", "clear"} :
              pc[i] = from /\ pc' = [pc EXCEPT ![i] = to]
        BY <2>7 DEF Gates, Regate, Discard, At, Goto
    <3>2. UNCHANGED <<connects, alive, sample>> /\ up' \subseteq up \cup {i}
        BY <2>7 DEF Gates, Regate, Discard, ownerVars
    <3> QED BY <2>4, <3>1, <3>2
  <2>8. CASE Unmark(i) \/ Undo(i) \/ ClearConnecting(i)
    <3>1. \E from \in {"unmark", "undo", "clear"}, to \in {"verify", "discard", "idle"} :
              pc[i] = from /\ pc' = [pc EXCEPT ![i] = to]
        BY <2>8 DEF Unmark, Undo, ClearConnecting, At, Goto
    <3>2. UNCHANGED <<connects, alive, sample>> /\ up' \subseteq up \cup {i}
        BY <2>8 DEF Unmark, Undo, ClearConnecting, ownerVars
    <3> QED BY <2>4, <3>1, <3>2
  <2> QED BY <1>3, <2>1, <2>2, <2>3, <2>5, <2>6, <2>7, <2>8 DEF Connect, Verify
<1>4. ASSUME NEW i \in Interfaces, Start(i) PROVE FreeInv'
  <2>1. /\ i \in alive /\ connects' = [connects EXCEPT ![i] = @ + 1]
        /\ pc' = [pc EXCEPT ![i] = "ask"] /\ UNCHANGED <<alive, up, sample>>
      BY <1>4 DEF Start, Goto
  <2>2. \A j \in Interfaces : j # i => pc'[j] = pc[j] /\ connects'[j] = connects[j]
      BY <2>1 DEF FunInv, FreeInv
  <2>3. connects'[i] = connects[i] + 1 /\ connects[i] \in Nat
      BY <2>1 DEF FreeInv
  <2>4. connects' \in [Interfaces -> Nat] /\ connects'[i] # 0
      BY <2>1, <2>3 DEF FreeInv
  <2> QED BY <2>1, <2>2, <2>4 DEF FreeInv
<1>5. ASSUME NEW i \in Interfaces, Loses(i) \/ Release(i) PROVE FreeInv'
  <2>1. UNCHANGED <<connects, sample, pc, alive>> /\ up' \subseteq up
      BY <1>5 DEF Loses, Release
  <2> QED BY <2>1 DEF FreeInv
<1>6. ASSUME NEW i \in Interfaces, Dies(i) PROVE FreeInv'
  <2>1. /\ pc[i] = "idle" /\ alive' = alive \ {i} /\ up' = up \ {i}
        /\ UNCHANGED <<connects, sample, pc>>
      BY <1>6 DEF Dies, At
  <2> QED BY <2>1 DEF FreeInv
<1>7. ASSUME Age \/ UNCHANGED vars PROVE FreeInv'
    BY <1>1, <1>7 DEF Age, vars, ownerVars
<1> QED BY <1>3, <1>4, <1>5, <1>6, <1>7 DEF Next, Step

\* Whoever is not up and may still dial is told of the claim of the one who is up.
LEMMA PairOf ==
    ASSUME FreeInv, Pair, ArbInv, NEW i \in up, NEW j \in Interfaces, i \in Interfaces,
           i # j, connects[j] # 0, Undialed(j)
    PROVE  Alone(i)
<1>1. ~Undialed(i)
    BY DEF ArbInv, UndialedInv
<1>2. connects[i] = 1 /\ connects[j] = 1
    BY <1>1 DEF Undialed, Pair, FreeInv
<1>3. \A k \in Interfaces : k # i /\ k # j => connects[k] = 0
    BY <1>2 DEF Pair, FreeInv
<1> QED BY <1>3 DEF Alone, Undialed

LEMMA ToldElsewhere ==
    ASSUME ClaimInv, FreeInv, Pair, ArbInv, NEW i \in up, NEW j \in Interfaces, i \in Interfaces,
           i # j, connects[j] # 0, Undialed(j), pc[i] # "claim"
    PROVE  Elsewhere(j)
<1> USE GateAssumption
<1>1. Alone(i)
    BY PairOf
<1>2. connecting = i \/ connected = i
    BY <1>1 DEF ArbInv, Claimed
<1>3. connected \in {i, Nobody}
    BY <1>1 DEF Alone, ArbInv, UndialedInv, ClaimInv
<1>4. i \in alive /\ ~stale
    BY DEF FreeInv, ArbInv
<1>5. sample[j].of = i => sample[j].saw # "other"
    BY DEF ArbInv, UpInv
<1>6. CASE connected = Nobody
    BY <1>2, <1>4, <1>6 DEF Elsewhere, Pruned
<1>7. CASE connected = i
    BY <1>4, <1>5, <1>7 DEF Elsewhere, Dropped
<1> QED BY <1>3, <1>6, <1>7

\* The question itself takes no claim away from who is up.
LEMMA AnswerRetains ==
    ASSUME ClaimInv, FunInv, FreeInv, ArbInv, NEW i \in Interfaces, NEW at, NEW yes, NEW no,
           Answer(i, at, yes, no)
    PROVE  Retains(i, at, IF Elsewhere(i) THEN yes ELSE no)
<1> USE GateAssumption
<1>1. /\ pc[i] = at /\ pc' = [pc EXCEPT ![i] = IF Elsewhere(i) THEN yes ELSE no]
      /\ UNCHANGED <<up, connects, releasing>>
      /\ connected' = IF Dropped(i) THEN Nobody ELSE connected
      /\ connecting' = IF connected = Nobody /\ Pruned THEN Nobody ELSE connecting
      /\ stale' = (stale /\ connecting' # Nobody)
      /\ sample' = [sample EXCEPT ![i] = NoSample]
    BY DEF Answer, At, Goto, ownerVars
<1>2. ~stale'
    BY <1>1 DEF ArbInv
<1>3. \A j \in Interfaces : sample'[j] \in {sample[j], NoSample}
    BY <1>1 DEF FreeInv
<1>4. ASSUME NEW k \in up, Alone(k)
      PROVE  /\ pc[k] \in Provisional => connecting' = connecting
             /\ pc[k] \notin Provisional => connected' = connected
  <2>1. /\ k \in Interfaces /\ k \in alive /\ ~stale
        /\ pc[k] \in Provisional => connecting = k
        /\ pc[k] \notin Provisional \cup {"claim"} => connected = k
      BY <1>4 DEF FreeInv, ClaimInv, ArbInv, Claimed
  <2>2. connected \in {k, Nobody}
      BY <1>4, <2>1 DEF Alone, ArbInv, UndialedInv, ClaimInv
  <2>3. connected = k => ~Dropped(i)
      BY <2>1, <1>4 DEF Dropped, ArbInv, UpInv
  <2>4. connected' = connected
      BY <1>1, <2>2, <2>3
  <2>5. pc[k] \in Provisional => connecting' = connecting
      BY <1>1, <2>1 DEF Pruned
  <2> QED BY <2>4, <2>5
<1> QED BY <1>1, <1>2, <1>3, <1>4 DEF Retains

\* A release is one of somebody who is not up, or of nobody who is alone.
LEMMA ReleasedKeeps ==
    ASSUME ClaimInv, FreeInv, ArbInv, NEW i \in Interfaces, Released(i), ~Undialed(i),
           i \in up => ~Alone(i)
    PROVE  /\ connected' \in {connected, Nobody} /\ connecting' \in {connecting, Nobody} /\ ~stale'
           /\ \A k \in up : Alone(k) => /\ pc[k] \in Provisional => connecting' = connecting
                                        /\ pc[k] \notin Provisional => connected' = connected
<1>1. /\ connected' \in {connected, Nobody} /\ connecting' \in {connecting, Nobody} /\ ~stale'
    BY DEF Released, claimVars, ArbInv
<1>2. ASSUME NEW k \in up, Alone(k) PROVE FALSE
    BY <1>2 DEF Alone, FreeInv, ClaimInv
<1> QED BY <1>1, <1>2

\* A step outside connect(), or one that moves nobody.
LEMMA StandStep ==
    ASSUME FunInv, FreeInv, ArbInv, UNCHANGED <<pc, connects>>,
           up' \subseteq up, releasing' \subseteq releasing \cup up, up' \cap releasing' = {},
           ~stale', connected' \in {connected, Nobody}, connecting' \in {connecting, Nobody},
           \A j \in Interfaces : sample'[j].of # Nobody =>
               /\ sample'[j].of \in {sample[j].of, connected}
               /\ sample'[j].of \in up => sample'[j].saw # "other",
           \A k \in up : Alone(k) => /\ pc[k] \in Provisional => connecting' = connecting
                                     /\ pc[k] \notin Provisional => connected' = connected,
           up \subseteq Interfaces
    PROVE  ArbInv'
<1> USE GateAssumption
<1>1. \A j \in Interfaces : Undialed(j)' <=> Undialed(j)
    BY DEF Undialed
<1>2. \A j \in Interfaces : Alone(j)' <=> Alone(j)
    BY <1>1 DEF Alone
<1>3. UndialedInv'
  <2> SUFFICES ASSUME NEW k \in Interfaces, Undialed(k)'
               PROVE  /\ k \notin up' /\ k \notin releasing' /\ connected' # k /\ connecting' # k
                      /\ \A j \in Interfaces : sample'[j].of # k
      BY DEF UndialedInv
  <2>1. /\ k \notin up /\ k \notin releasing /\ connected # k /\ connecting # k
        /\ \A j \in Interfaces : sample[j].of # k
      BY <1>1 DEF ArbInv, UndialedInv
  <2>2. k # Nobody
      OBVIOUS
  <2>3. \A j \in Interfaces : sample'[j].of # k
      BY <2>1, <2>2
  <2> QED BY <2>1, <2>2, <2>3
<1>4. UpInv'
  <2>1. \A k \in up' : k \notin releasing' /\ pc'[k] \notin {"unlock0", "putBack0", "unmark"}
      BY DEF ArbInv, UpInv
  <2>2. \A k \in up', j \in Interfaces : sample'[j].of = k => sample'[j].saw # "other"
      OBVIOUS
  <2> QED BY <2>1, <2>2 DEF UpInv
<1>5. OnlyUp'
    BY DEF ArbInv, OnlyUp
<1>6. Claimed'
    BY <1>2 DEF ArbInv, Claimed
<1> QED BY <1>3, <1>4, <1>5, <1>6 DEF ArbInv

\* Two interfaces are not both within the lock.
LEMMA InsideOne ==
    ASSUME LockInv, NEW i \in Interfaces, NEW j \in Interfaces, pc[i] \in Held, pc[j] \in Held
    PROVE  i = j
<1> USE GateAssumption
<1>1. got[i] \in Locks /\ got[j] \in Locks /\ got[i] = entry /\ got[j] = entry
    BY DEF LockInv, FunInv, Handed
<1>2. holder[got[i]] = i /\ holder[got[j]] = j
    BY <1>1 DEF LockInv
<1> QED BY <1>1, <1>2

\* The dial answers: nobody else is up, and nobody else is inside the lock.
LEMMA DialSucceedsStep ==
    ASSUME LockInv, ClaimInv, FreeInv, ArbInv, NEW i \in Interfaces, DialSucceeds(i)
    PROVE  ArbInv'
<1> USE GateAssumption
<1>1. /\ pc[i] = "dial" /\ pc' = [pc EXCEPT ![i] = "claim"] /\ up' = up \cup {i}
      /\ UNCHANGED <<connected, connecting, stale, alive, releasing, connects, sample>>
    BY DEF DialSucceeds, At, Goto, claimVars
<1>2. pc'[i] = "claim" /\ \A j \in Interfaces : j # i => pc'[j] = pc[j]
    BY <1>1 DEF LockInv, FunInv
<1>3. connects[i] # 0
    BY <1>1 DEF FreeInv
<1>4. \A j \in Interfaces : Undialed(j)' => Undialed(j) /\ j # i
    BY <1>1, <1>2, <1>3 DEF Undialed
<1>5. \A j \in Interfaces : j # i => j \notin up /\ pc[j] \notin {"dial", "claim"}
  <2>1. \A j \in Interfaces : j # i => pc[j] \notin {"dial", "claim"}
      BY <1>1, InsideOne DEF Held
  <2>2. \A j \in Interfaces : j # i => j \notin up
      BY <1>1 DEF ArbInv, OnlyUp
  <2> QED BY <2>1, <2>2
<1>6. up \subseteq Interfaces
    BY DEF FreeInv, ClaimInv
<1>7. up' = {i}
    BY <1>1, <1>5, <1>6
<1>8. /\ i \notin releasing /\ \A j \in Interfaces : sample[j].of # i
    BY <1>1 DEF ArbInv, UndialedInv, Undialed
<1>9. UndialedInv'
    BY <1>1, <1>4, <1>7 DEF ArbInv, UndialedInv
<1>10. UpInv'
    BY <1>1, <1>2, <1>7, <1>8 DEF UpInv
<1>11. OnlyUp'
    BY <1>2, <1>5, <1>7 DEF OnlyUp
<1>12. Claimed'
    BY <1>2, <1>7 DEF Claimed, Provisional
<1> QED BY <1>1, <1>9, <1>10, <1>11, <1>12 DEF ArbInv

\* The provisional claim, over whatever was there.
LEMMA MarkConnectingStep ==
    ASSUME LockInv, ClaimInv, FreeInv, ArbInv, NEW i \in Interfaces, MarkConnecting(i)
    PROVE  ArbInv'
<1> USE GateAssumption
<1>1. /\ pc[i] = "claim" /\ pc' = [pc EXCEPT ![i] = "unlock"] /\ connecting' = i /\ stale' = FALSE
      /\ UNCHANGED <<connected, up, alive, releasing, connects, sample>>
    BY DEF MarkConnecting, At, Goto, ownerVars
<1>2. pc'[i] = "unlock" /\ \A j \in Interfaces : j # i => pc'[j] = pc[j]
    BY <1>1 DEF LockInv, FunInv
<1>3. connects[i] # 0
    BY <1>1 DEF FreeInv
<1>4. \A j \in Interfaces : Undialed(j)' => Undialed(j) /\ j # i
    BY <1>1, <1>2, <1>3 DEF Undialed
<1>5. up \subseteq {i}
    BY <1>1 DEF ArbInv, OnlyUp, FreeInv, ClaimInv
<1>6. UndialedInv'
    BY <1>1, <1>4 DEF ArbInv, UndialedInv
<1>7. UpInv'
    BY <1>1, <1>2, <1>5 DEF ArbInv, UpInv
<1>8. OnlyUp'
    BY <1>1, <1>2 DEF ArbInv, OnlyUp
<1>9. Claimed'
    BY <1>1, <1>2, <1>5 DEF Claimed, Provisional
<1> QED BY <1>1, <1>6, <1>7, <1>8, <1>9 DEF ArbInv

\* The final claim: of one who is not up, or whom no other has followed.
LEMMA MarkConnectedStep ==
    ASSUME LockInv, ClaimInv, FreeInv, ArbInv, NEW i \in Interfaces, MarkConnected(i)
    PROVE  ArbInv'
<1> USE GateAssumption
<1>1. /\ pc[i] = "mark" /\ pc' = [pc EXCEPT ![i] = "unlock2"]
      /\ connected' = i /\ connecting' = Nobody /\ stale' = FALSE
      /\ UNCHANGED <<up, alive, releasing, connects, sample>>
    BY DEF MarkConnected, At, Goto, ownerVars
<1>2. pc'[i] = "unlock2" /\ \A j \in Interfaces : j # i => pc'[j] = pc[j]
    BY <1>1 DEF LockInv, FunInv
<1>3. connects[i] # 0 /\ ~Undialed(i)
    BY <1>1 DEF FreeInv, Undialed
<1>4. \A j \in Interfaces : Undialed(j)' => Undialed(j) /\ j # i
    BY <1>1, <1>2, <1>3 DEF Undialed
<1>5. UndialedInv'
    BY <1>1, <1>4 DEF ArbInv, UndialedInv
<1>6. UpInv'
    BY <1>1, <1>2 DEF ArbInv, UpInv
<1>7. OnlyUp'
    BY <1>1, <1>2 DEF ArbInv, OnlyUp
<1>8. Claimed'
  <2> SUFFICES ASSUME NEW k \in up', Alone(k)' PROVE k = i
      BY <1>1, <1>2 DEF Claimed, Provisional
  <2>1. k \in Interfaces
      BY <1>1 DEF FreeInv, ClaimInv
  <2>2. ~Undialed(i)'
      BY <1>4
  <2> QED BY <2>1, <2>2 DEF Alone
<1> QED BY <1>1, <1>5, <1>6, <1>7, <1>8 DEF ArbInv

LEMMA ConnectPairStep ==
    ASSUME LockInv, ClaimInv, FreeInv, Pair, ArbInv, NEW i \in Interfaces, Connect(i)
    PROVE  ArbInv'
<1> USE GateAssumption
<1>1. FunInv /\ up \subseteq Interfaces
    BY DEF LockInv, FreeInv, ClaimInv
<1>2. ASSUME NEW from, NEW to, from # "idle", pc[i] = from, pc' = [pc EXCEPT ![i] = to],
             UNCHANGED <<up, connects, releasing, connected, connecting, stale, sample>>
      PROVE  Retains(i, from, to)
    BY <1>2 DEF Retains, ArbInv
<1>3. \A j \in Interfaces : ~Undialed(j) => j # i \/ connects[i] # 0
    BY DEF Undialed
<1>4. Undialed(i) => i \notin up
    BY DEF ArbInv, UndialedInv
<1>5. i \in up => pc[i] \notin {"unlock0", "putBack0", "unmark"}
    BY DEF ArbInv, UpInv
<1>6. CASE Look(i, "ask") \/ Look(i, "recheck") \/ Look(i, "verify")
  <2>1. /\ UNCHANGED <<pc, connects, up, releasing, stale, connected, connecting>>
        /\ sample[i] = NoSample /\ sample' = [sample EXCEPT ![i].of = connected]
      BY <1>6 DEF Look, ownerVars, claimVars
  <2>2. \A j \in Interfaces : j # i => sample'[j] = sample[j]
      BY <2>1 DEF FreeInv
  <2>3. sample'[i].of = connected /\ sample'[i].saw = "unknown"
      BY <2>1 DEF FreeInv, NoSample
  <2>4. \A j \in Interfaces : sample'[j].of # Nobody =>
            /\ sample'[j].of \in {sample[j].of, connected}
            /\ sample'[j].of \in up => sample'[j].saw # "other"
      BY <2>2, <2>3 DEF ArbInv, UpInv
  <2>5. up \cap releasing = {} /\ ~stale
      BY DEF ArbInv, UpInv
  <2> QED BY <1>1, <2>1, <2>4, <2>5, StandStep
<1>7. CASE Probe(i)
  <2>1. /\ UNCHANGED <<pc, connects, up, releasing, stale, connected, connecting>>
        /\ sample' = [sample EXCEPT ![i].saw = IF sample[i].of \in up THEN "connected" ELSE "other"]
      BY <1>7 DEF Probe, ownerVars, claimVars
  <2>2. \A j \in Interfaces : j # i => sample'[j] = sample[j]
      BY <2>1 DEF FreeInv
  <2>3. /\ sample'[i].of = sample[i].of
        /\ sample'[i].saw = IF sample[i].of \in up THEN "connected" ELSE "other"
      BY <2>1 DEF FreeInv
  <2>4. \A j \in Interfaces : sample'[j].of # Nobody =>
            /\ sample'[j].of \in {sample[j].of, connected}
            /\ sample'[j].of \in up => sample'[j].saw # "other"
      BY <2>2, <2>3 DEF ArbInv, UpInv
  <2>5. up \cap releasing = {} /\ ~stale
      BY DEF ArbInv, UpInv
  <2> QED BY <1>1, <2>1, <2>4, <2>5, StandStep
<1>8. CASE Answer(i, "ask", "idle", "fetch")
  <2>1. pc[i] = "ask"
      BY <1>8 DEF Answer, At
  <2>2. Undialed(i)
      BY <2>1 DEF Undialed
  <2>3. \E to \in {"idle", "fetch"} : Retains(i, "ask", to)
      BY <1>1, <1>8, AnswerRetains
  <2> QED BY <1>1, <1>4, <2>2, <2>3, RetainsStep DEF Places
<1>9. CASE Answer(i, "recheck", "unlock0", "dial")
  <2>1. pc[i] = "recheck"
      BY <1>9 DEF Answer, At
  <2>2. Undialed(i) /\ connects[i] # 0
      BY <2>1 DEF Undialed, FreeInv
  <2>3. \A k \in up : k # i /\ pc[k] # "claim"
      BY <1>1, <1>4, <2>1, <2>2, InsideOne DEF Held
  <2>4. ~Elsewhere(i) => up = {}
      BY <1>1, <2>2, <2>3, ToldElsewhere
  <2>5. Retains(i, "recheck", IF Elsewhere(i) THEN "unlock0" ELSE "dial")
      BY <1>1, <1>9, AnswerRetains
  <2>6. CASE Elsewhere(i)
    <3>1. Retains(i, "recheck", "unlock0")
        BY <2>5, <2>6
    <3> QED BY <1>1, <1>4, <2>2, <3>1, RetainsStep DEF Places
  <2>7. CASE ~Elsewhere(i)
    <3>1. Retains(i, "recheck", "dial")
        BY <2>5, <2>7
    <3> QED BY <1>1, <1>4, <2>2, <2>4, <2>7, <3>1, RetainsStep DEF Places
  <2> QED BY <2>6, <2>7
<1>10. CASE Answer(i, "verify", "undo", IF i \in up THEN "clear" ELSE "undo")
  <2>1. pc[i] = "verify"
      BY <1>10 DEF Answer, At
  <2>2. i \in up /\ Alone(i) => connected = i
      BY <2>1 DEF ArbInv, Claimed, Provisional
  <2>3. i \in up /\ Elsewhere(i) => ~Alone(i)
      BY <2>2 DEF Elsewhere
  <2>4. Retains(i, "verify", IF Elsewhere(i) THEN "undo" ELSE IF i \in up THEN "clear" ELSE "undo")
      BY <1>1, <1>10, AnswerRetains
  <2>5. \/ Retains(i, "verify", "undo") /\ (i \in up => ~Alone(i))
        \/ Retains(i, "verify", "clear")
    <3>1. CASE Elsewhere(i)
        BY <2>3, <2>4, <3>1
    <3>2. CASE ~Elsewhere(i) /\ i \in up
        BY <2>4, <3>2
    <3>3. CASE ~Elsewhere(i) /\ i \notin up
        BY <2>4, <3>3
    <3> QED BY <3>1, <3>2, <3>3
  <2>6. CASE Retains(i, "verify", "undo") /\ (i \in up => ~Alone(i))
      BY <1>1, <2>6, RetainsStep DEF Places, Provisional
  <2>7. CASE Retains(i, "verify", "clear")
      BY <1>1, <2>7, RetainsStep DEF Places, Provisional
  <2> QED BY <2>5, <2>6, <2>7
<1>11. CASE \/ Fetch(i, "fetch", "wait") \/ Fetch(i, "fetch2", "wait2")
            \/ Acquire(i, "wait", "recheck") \/ Acquire(i, "wait2", "mark")
  <2>1. UNCHANGED <<up, connects, releasing, connected, connecting, stale, sample>>
      BY <1>11 DEF Fetch, Acquire, ownerVars, claimVars
  <2>2. \/ pc[i] = "fetch" /\ pc' = [pc EXCEPT ![i] = "wait"]
        \/ pc[i] = "fetch2" /\ pc' = [pc EXCEPT ![i] = "wait2"]
        \/ pc[i] = "wait" /\ pc' = [pc EXCEPT ![i] = "recheck"]
        \/ pc[i] = "wait2" /\ pc' = [pc EXCEPT ![i] = "mark"]
      BY <1>11 DEF Fetch, Acquire, At, Goto
  <2>3. \/ Retains(i, "fetch", "wait") \/ Retains(i, "fetch2", "wait2")
        \/ Retains(i, "wait", "recheck") \/ Retains(i, "wait2", "mark")
      BY <1>2, <2>1, <2>2
  <2>4. Retains(i, "fetch", "wait") \/ Retains(i, "wait", "recheck") => i \notin up
      BY <1>4 DEF Retains, Undialed
  <2> QED BY <1>1, <2>3, <2>4, RetainsStep DEF Places, Provisional
<1>12. CASE \/ Unlock(i, "unlock0", "putBack0") \/ PutBack(i, "putBack0", "idle")
            \/ Unlock(i, "unlock", "putBack") \/ PutBack(i, "putBack", "gates")
            \/ Unlock(i, "unlock2", "putBack2") \/ PutBack(i, "putBack2", "regate")
  <2>1. UNCHANGED <<up, connects, releasing, connected, connecting, stale, sample>>
      BY <1>12 DEF Unlock, PutBack, ownerVars, claimVars
  <2>2. \/ pc[i] = "unlock0" /\ pc' = [pc EXCEPT ![i] = "putBack0"]
        \/ pc[i] = "putBack0" /\ pc' = [pc EXCEPT ![i] = "idle"]
        \/ pc[i] = "unlock" /\ pc' = [pc EXCEPT ![i] = "putBack"]
        \/ pc[i] = "putBack" /\ pc' = [pc EXCEPT ![i] = "gates"]
        \/ pc[i] = "unlock2" /\ pc' = [pc EXCEPT ![i] = "putBack2"]
        \/ pc[i] = "putBack2" /\ pc' = [pc EXCEPT ![i] = "regate"]
      BY <1>12 DEF Unlock, PutBack, At, Goto
  <2>3. \/ Retains(i, "unlock0", "putBack0") \/ Retains(i, "putBack0", "idle")
        \/ Retains(i, "unlock", "putBack") \/ Retains(i, "putBack", "gates")
        \/ Retains(i, "unlock2", "putBack2") \/ Retains(i, "putBack2", "regate")
      BY <1>2, <2>1, <2>2
  <2>4. Retains(i, "unlock0", "putBack0") \/ Retains(i, "putBack0", "idle") => i \notin up
      BY <1>5 DEF Retains
  <2> QED BY <1>1, <2>3, <2>4, RetainsStep DEF Places, Provisional
<1>13. CASE DialFails(i) \/ Gates(i) \/ Regate(i)
  <2>1. UNCHANGED <<up, connects, releasing, connected, connecting, stale, sample>>
      BY <1>13 DEF DialFails, Gates, Regate, ownerVars, claimVars
  <2>2. \/ pc[i] = "dial" /\ pc' = [pc EXCEPT ![i] = "unlock0"]
        \/ pc[i] = "gates" /\ pc' = [pc EXCEPT ![i] = "fetch2"]
        \/ pc[i] = "gates" /\ pc' = [pc EXCEPT ![i] = "verify"] /\ i \notin up
        \/ pc[i] = "regate" /\ pc' = [pc EXCEPT ![i] = "verify"]
        \/ pc[i] = "regate" /\ pc' = [pc EXCEPT ![i] = "unmark"] /\ i \notin up
      BY <1>13 DEF DialFails, Gates, Regate, At, Goto
  <2>3. \/ Retains(i, "dial", "unlock0") \/ Retains(i, "gates", "fetch2")
        \/ Retains(i, "gates", "verify") /\ i \notin up
        \/ Retains(i, "regate", "verify")
        \/ Retains(i, "regate", "unmark") /\ i \notin up
      BY <1>2, <2>1, <2>2
  <2>4. Retains(i, "dial", "unlock0") => i \notin up
      BY <1>4 DEF Retains, Undialed
  <2> QED BY <1>1, <2>3, <2>4, RetainsStep DEF Places, Provisional
<1>14. CASE Unmark(i) \/ Undo(i)
  <2>1. /\ Released(i) /\ UNCHANGED <<up, connects, releasing, sample>>
        /\ \/ pc[i] = "unmark" /\ pc' = [pc EXCEPT ![i] = "verify"]
           \/ pc[i] = "undo" /\ pc' = [pc EXCEPT ![i] = "discard"]
      BY <1>14 DEF Unmark, Undo, At, Goto, ownerVars
  <2>2. ~Undialed(i)
      BY <2>1 DEF Undialed, FreeInv
  <2>3. i \in up => ~Alone(i) /\ pc[i] = "undo"
      BY <1>5, <2>1 DEF ArbInv, Claimed
  <2>4. \/ Retains(i, "unmark", "verify") /\ i \notin up
        \/ Retains(i, "undo", "discard")
      BY <2>1, <2>2, <2>3, ReleasedKeeps DEF Retains
  <2> QED BY <1>1, <2>4, RetainsStep DEF Places, Provisional
<1>15. CASE Discard(i)
  <2>1. /\ pc[i] = "discard" /\ pc' = [pc EXCEPT ![i] = "clear"] /\ up' = up \ {i}
        /\ UNCHANGED <<connected, connecting, stale, alive, releasing, connects, sample>>
      BY <1>15 DEF Discard, At, Goto, claimVars
  <2>2. pc'[i] = "clear" /\ \A j \in Interfaces : j # i => pc'[j] = pc[j]
      BY <1>1, <2>1 DEF FunInv
  <2>3. \A j \in Interfaces : Undialed(j)' <=> Undialed(j)
      BY <2>1, <2>2 DEF Undialed, FreeInv
  <2>4. \A j \in Interfaces : Alone(j)' <=> Alone(j)
      BY <2>3 DEF Alone
  <2>5. UndialedInv'
      BY <2>1, <2>3 DEF ArbInv, UndialedInv
  <2>6. UpInv'
      BY <2>1, <2>2 DEF ArbInv, UpInv
  <2>7. OnlyUp'
      BY <2>1, <2>2 DEF ArbInv, OnlyUp
  <2>8. Claimed'
      BY <1>1, <2>1, <2>2, <2>4 DEF ArbInv, Claimed
  <2> QED BY <2>1, <2>5, <2>6, <2>7, <2>8 DEF ArbInv
<1>16. CASE ClearConnecting(i)
  <2>1. /\ pc[i] = "clear" /\ pc' = [pc EXCEPT ![i] = "idle"]
        /\ connecting' \in {connecting, Nobody} /\ stale' = (stale /\ connecting' # Nobody)
        /\ UNCHANGED <<connected, up, connects, releasing, sample>>
      BY <1>16 DEF ClearConnecting, At, Goto, ownerVars
  <2>2. ~Undialed(i)
      BY <2>1 DEF Undialed, FreeInv
  <2>3. ASSUME NEW k \in up, Alone(k), pc[k] \in Provisional PROVE FALSE
    <3>1. k = i
        BY <1>1, <2>2, <2>3 DEF Alone
    <3> QED BY <2>1, <2>3, <3>1 DEF Provisional
  <2>4. Retains(i, "clear", "idle")
      BY <2>1, <2>3 DEF Retains, ArbInv
  <2> QED BY <1>1, <2>4, RetainsStep DEF Places, Provisional
<1>17. CASE DialSucceeds(i)
    BY <1>17, DialSucceedsStep
<1>18. CASE MarkConnecting(i)
    BY <1>18, MarkConnectingStep
<1>19. CASE MarkConnected(i)
    BY <1>19, MarkConnectedStep
<1> QED BY <1>6, <1>7, <1>8, <1>9, <1>10, <1>11, <1>12, <1>13, <1>14, <1>15, <1>16, <1>17, <1>18,
           <1>19 DEF Connect, Verify

LEMMA PairStep ==
    ASSUME LockInv, ClaimInv, FreeInv, PairInv, [Next]_vars
    PROVE  PairInv'
<1> SUFFICES ASSUME Pair' PROVE ArbInv'
    BY DEF PairInv
<1> USE GateAssumption
<1>1. Pair
    BY PairBack
<1>2. ArbInv
    BY <1>1 DEF PairInv
<1>3. FunInv /\ up \subseteq Interfaces
    BY DEF LockInv, FreeInv, ClaimInv
<1>4. up \cap releasing = {} /\ ~stale
    BY <1>2 DEF ArbInv, UpInv
<1>5. \A j \in Interfaces : sample[j].of # Nobody =>
          /\ sample[j].of \in {sample[j].of, connected}
          /\ sample[j].of \in up => sample[j].saw # "other"
    BY <1>2 DEF ArbInv, UpInv
<1>6. ASSUME NEW i \in Interfaces, Start(i) PROVE ArbInv'
  <2>1. /\ pc[i] = "idle" /\ i \in alive /\ i \notin up /\ i \notin releasing
        /\ connects' = [connects EXCEPT ![i] = @ + 1] /\ pc' = [pc EXCEPT ![i] = "ask"]
        /\ UNCHANGED <<connected, connecting, stale, alive, up, releasing, sample>>
      BY <1>6 DEF Start, At, Goto, claimVars
  <2>2. /\ pc'[i] = "ask" /\ \A j \in Interfaces : j # i => pc'[j] = pc[j]
        /\ connects'[i] = connects[i] + 1 /\ connects[i] \in Nat
        /\ \A j \in Interfaces : j # i => connects'[j] = connects[j]
      BY <1>3, <2>1 DEF FunInv, FreeInv
  <2>3. connects'[i] <= 1
      BY DEF Pair
  <2>4. connects[i] = 0
      BY <2>2, <2>3
  <2>5. \A j \in Interfaces : Undialed(j)' <=> Undialed(j)
      BY <2>2, <2>4 DEF Undialed
  <2>6. \A j \in Interfaces : Alone(j)' <=> Alone(j)
      BY <2>5 DEF Alone
  <2>7. UndialedInv'
      BY <1>2, <2>1, <2>5 DEF ArbInv, UndialedInv
  <2>8. UpInv'
      BY <1>2, <2>1, <2>2 DEF ArbInv, UpInv
  <2>9. OnlyUp'
      BY <1>2, <2>1, <2>2 DEF ArbInv, OnlyUp
  <2>10. Claimed'
      BY <1>2, <1>3, <2>1, <2>2, <2>6 DEF ArbInv, Claimed
  <2> QED BY <1>4, <2>1, <2>7, <2>8, <2>9, <2>10 DEF ArbInv
<1>7. ASSUME NEW i \in Interfaces, Connect(i) PROVE ArbInv'
    BY <1>1, <1>2, <1>7, ConnectPairStep
<1>8. ASSUME NEW i \in Interfaces, Loses(i) PROVE ArbInv'
  <2>1. /\ i \in up /\ up' = up \ {i} /\ releasing' = releasing \cup {i}
        /\ UNCHANGED <<connected, connecting, stale, connects, pc, sample>>
      BY <1>8 DEF Loses, claimVars
  <2>2. up' \subseteq up /\ releasing' \subseteq releasing \cup up /\ up' \cap releasing' = {}
      BY <1>4, <2>1
  <2> QED BY <1>2, <1>3, <1>4, <1>5, <2>1, <2>2, StandStep
<1>9. ASSUME NEW i \in Interfaces, Release(i) PROVE ArbInv'
  <2>1. /\ i \in releasing /\ Released(i) /\ releasing' = releasing \ {i}
        /\ UNCHANGED <<up, connects, pc, sample>>
      BY <1>9 DEF Release
  <2>2. ~Undialed(i) /\ i \notin up
      BY <1>2, <2>1 DEF ArbInv, UndialedInv, UpInv
  <2>3. /\ connected' \in {connected, Nobody} /\ connecting' \in {connecting, Nobody} /\ ~stale'
        /\ \A k \in up : Alone(k) => /\ pc[k] \in Provisional => connecting' = connecting
                                     /\ pc[k] \notin Provisional => connected' = connected
      BY <1>2, <2>1, <2>2, ReleasedKeeps
  <2>4. up' \subseteq up /\ releasing' \subseteq releasing \cup up /\ up' \cap releasing' = {}
      BY <1>4, <2>1
  <2> QED BY <1>2, <1>3, <1>5, <2>1, <2>3, <2>4, StandStep
<1>10. ASSUME NEW i \in Interfaces, Dies(i) PROVE ArbInv'
  <2>1. /\ up' = up \ {i}
        /\ UNCHANGED <<connected, connecting, stale, connects, pc, sample, releasing>>
      BY <1>10 DEF Dies, claimVars
  <2>2. up' \subseteq up /\ releasing' \subseteq releasing \cup up /\ up' \cap releasing' = {}
      BY <1>4, <2>1
  <2> QED BY <1>2, <1>3, <1>4, <1>5, <2>1, <2>2, StandStep
<1>11. CASE Age
  <2>1. aged'
      BY <1>11 DEF Age
  <2> QED BY <2>1 DEF Pair
<1>12. CASE UNCHANGED vars
  <2>1. UNCHANGED <<connected, connecting, stale, connects, pc, sample, releasing, up>>
      BY <1>12 DEF vars, claimVars, ownerVars
  <2> QED BY <1>2, <1>3, <1>4, <1>5, <2>1, StandStep
<1> QED BY <1>6, <1>7, <1>8, <1>9, <1>10, <1>11, <1>12 DEF Next, Step

\* Two connects to one address, of whichever interfaces, with whatever disconnects and
\* collections between their steps: one of them is refused or loses its session, as long as
\* no provisional claim grows old.
THEOREM OneOfTwoIsRefused == Spec => []PairArbitrated
<1> USE GateAssumption
<1>1. Init => LockInv /\ ClaimInv /\ FreeInv /\ PairInv
  <2> SUFFICES ASSUME Init PROVE LockInv /\ ClaimInv /\ FreeInv /\ PairInv
      OBVIOUS
  <2>1. LockInv
      BY LockInit
  <2>2. ClaimInv
      BY DEF Init, ClaimInv, Places
  <2>3. FreeInv
      BY DEF Init, FreeInv, NoSample
  <2>4. ArbInv
      BY DEF Init, ArbInv, UndialedInv, UpInv, OnlyUp, Claimed, NoSample
  <2> QED BY <2>1, <2>2, <2>3, <2>4 DEF PairInv
<1>2. LockInv /\ ClaimInv /\ FreeInv /\ PairInv /\ [Next]_vars
      => (LockInv /\ ClaimInv /\ FreeInv /\ PairInv)'
    BY LockStep, ClaimStep, FreeStep, PairStep DEF LockInv
<1>3. LockInv /\ ClaimInv /\ FreeInv /\ PairInv => PairArbitrated
  <2> SUFFICES ASSUME ClaimInv, FreeInv, PairInv, ~aged, \A i \in Interfaces : connects[i] <= 1,
                      Cardinality({i \in Interfaces : connects[i] = 1}) <= 2
               PROVE  OneLive
      BY DEF PairArbitrated
  <2> DEFINE Begun == {i \in Interfaces : connects[i] = 1}
  <2>1. ASSUME NEW i \in Interfaces, NEW j \in Interfaces, NEW k \in Interfaces,
               connects[i] = 1, connects[j] = 1, connects[k] = 1, i # j, j # k, i # k
        PROVE  FALSE
    <3>1. Begun \subseteq Interfaces
        OBVIOUS
    <3>2. IsFiniteSet(Begun)
        BY <3>1, FS_Subset
    <3>3. {i, j, k} \subseteq Begun
        BY <2>1
    <3>4. Cardinality({i, j, k}) <= Cardinality(Begun)
        BY <3>2, <3>3, FS_Subset
    <3>5. IsFiniteSet({i}) /\ Cardinality({i}) = 1
        BY FS_Singleton
    <3>6. j \notin {i} /\ k \notin {i} \cup {j}
        BY <2>1
    <3>7. /\ IsFiniteSet({i} \cup {j})
          /\ Cardinality({i} \cup {j}) = IF j \in {i} THEN Cardinality({i}) ELSE Cardinality({i}) + 1
        BY <3>5, FS_AddElement, Zenon
    <3>8. Cardinality(({i} \cup {j}) \cup {k}) = IF k \in {i} \cup {j} THEN Cardinality({i} \cup {j})
                                                 ELSE Cardinality({i} \cup {j}) + 1
        BY <3>7, FS_AddElement, Zenon
    <3>9. ({i} \cup {j}) \cup {k} = {i, j, k}
        OBVIOUS
    <3>10. IsFiniteSet(Begun) /\ Cardinality(Begun) \in Nat
        BY <3>2, FS_CardinalityType
    <3>11. Cardinality({i, j, k}) = 3
        BY <3>5, <3>6, <3>7, <3>8, <3>9
    <3> QED BY <3>4, <3>10, <3>11
  <2>2. Pair
      BY <2>1 DEF Pair
  <2>3. OnlyUp
      BY <2>2 DEF PairInv, ArbInv
  <2> QED BY <2>3 DEF OneLive, Published, OnlyUp
<1> QED BY <1>1, <1>2, <1>3, LockInit, PTL DEF Spec

\* The owners and the sessions keep their types; those of the lock are in LockInv.
OwnersTyped ==
    /\ connected \in Interfaces \cup {Nobody} /\ connecting \in Interfaces \cup {Nobody}
    /\ stale \in BOOLEAN /\ aged \in BOOLEAN /\ entry \in Locks \cup {Nobody}
    /\ alive \subseteq Interfaces /\ up \subseteq Interfaces /\ releasing \subseteq Interfaces
    /\ sample \in [Interfaces -> [of : Interfaces \cup {Nobody},
                                  saw : {"unknown", "connected", "other"}]]
    /\ connects \in [Interfaces -> 0..MaxConnects]

\* Every variable of the gate keeps its type, for any number of interfaces and lock objects;
\* the users of the lock are at most all the interfaces.
THEOREM GateTypesHold == Spec => []TypeOK
<1>1. ASSUME Init PROVE OwnersTyped
  <2> DEFINE Samples == [of : Interfaces \cup {Nobody}, saw : {"unknown", "connected", "other"}]
  <2>1. NoSample \in Samples
    BY DEF NoSample
  <2> HIDE DEF Samples
  <2>2. sample \in [Interfaces -> Samples]
    BY <1>1, <2>1 DEF Init
  <2>3. connects \in [Interfaces -> 0..MaxConnects]
    BY <1>1, GateAssumption DEF Init
  <2> QED
    BY <1>1, <2>2, <2>3 DEF Init, OwnersTyped, Samples
<1>2. ASSUME OwnersTyped, [Next]_vars PROVE OwnersTyped'
  <2>1. ASSUME UNCHANGED vars \/ Age PROVE OwnersTyped'
    <3>1. /\ UNCHANGED <<connected, connecting, entry, alive, up, releasing, sample, connects>>
          /\ stale' \in {stale, TRUE} /\ aged' \in {aged, TRUE}
      BY <2>1 DEF vars, Age, claimVars, entryVars, ownerVars
    <3> QED
      BY <1>2, <3>1 DEF OwnersTyped
  <2>2. ASSUME NEW i \in Interfaces, Start(i) \/ Loses(i) \/ Dies(i), aged' = aged
        PROVE  OwnersTyped'
    <3>1. UNCHANGED <<claimVars, entryVars, sample>>
      BY <2>2 DEF Start, Loses, Dies
    <3>2. alive' \subseteq alive /\ up' \subseteq up /\ releasing' \subseteq releasing \cup {i}
      BY <2>2 DEF Start, Loses, Dies
    <3>3. connects' \in [Interfaces -> 0..MaxConnects]
      BY <1>2, <2>2, GateAssumption DEF OwnersTyped, Start, Loses, Dies
    <3> QED
      BY <1>2, <2>2, <3>1, <3>2, <3>3 DEF OwnersTyped, claimVars, entryVars
  <2>3. ASSUME NEW i \in Interfaces, Released(i)
        PROVE  /\ connected' \in {connected, Nobody} /\ connecting' \in {connecting, Nobody}
               /\ stale' \in BOOLEAN /\ entry' \in {entry, Nobody}
    BY <1>2, <2>3 DEF OwnersTyped, Released, Cleaned, claimVars
  <2>4. ASSUME NEW i \in Interfaces, Release(i), aged' = aged PROVE OwnersTyped'
    BY <1>2, <2>3, <2>4 DEF OwnersTyped, Release
  <2>5. ASSUME NEW i \in Interfaces, Connect(i), aged' = aged PROVE OwnersTyped'
    <3>1. ASSUME NEW from, NEW to, Fetch(i, from, to) PROVE OwnersTyped'
      BY <1>2, <2>5, <3>1 DEF OwnersTyped, Fetch, claimVars, ownerVars
    <3>2. ASSUME NEW from, NEW to, Acquire(i, from, to) \/ Unlock(i, from, to) PROVE OwnersTyped'
      BY <1>2, <2>5, <3>2 DEF OwnersTyped, Acquire, Unlock, claimVars, ownerVars, entryVars
    <3>3. ASSUME NEW from, NEW to, PutBack(i, from, to) PROVE OwnersTyped'
      BY <1>2, <2>5, <3>3 DEF OwnersTyped, PutBack, Cleaned, claimVars, ownerVars
    <3>4. ASSUME NEW at, Look(i, at) PROVE OwnersTyped'
      BY <1>2, <2>5, <3>4 DEF OwnersTyped, Look, claimVars, ownerVars, entryVars
    <3>5. ASSUME NEW at, NEW yes, NEW no, Answer(i, at, yes, no) PROVE OwnersTyped'
      <4>1. /\ connected' \in {connected, Nobody} /\ connecting' \in {connecting, Nobody}
            /\ stale' \in BOOLEAN /\ entry' \in {entry, Nobody}
        BY <1>2, <3>5 DEF OwnersTyped, Answer, Cleaned
      <4>2. sample' = [sample EXCEPT ![i] = NoSample] /\ UNCHANGED ownerVars
        BY <3>5 DEF Answer
      <4> QED
        BY <1>2, <2>5, <4>1, <4>2 DEF OwnersTyped, NoSample, ownerVars
    <3>6. ASSUME Probe(i) PROVE OwnersTyped'
      BY <1>2, <2>5, <3>6 DEF OwnersTyped, Probe, claimVars, ownerVars, entryVars
    <3>7. CASE DialSucceeds(i) \/ DialFails(i) \/ Gates(i) \/ Regate(i) \/ Discard(i)
      BY <1>2, <2>5, <3>7 DEF OwnersTyped, DialSucceeds, DialFails, Gates, Regate, Discard,
         claimVars, ownerVars, entryVars
    <3>8. CASE MarkConnecting(i) \/ MarkConnected(i) \/ ClearConnecting(i)
      BY <1>2, <2>5, <3>8 DEF OwnersTyped, MarkConnecting, MarkConnected, ClearConnecting, Cleaned,
         claimVars, ownerVars, entryVars
    <3>9. CASE Unmark(i) \/ Undo(i)
      BY <1>2, <2>3, <2>5, <3>9 DEF OwnersTyped, Unmark, Undo, ownerVars
    <3> QED
      BY <2>5, <3>1, <3>2, <3>3, <3>4, <3>5, <3>6, <3>7, <3>8, <3>9 DEF Connect, Verify
  <2> QED
    BY <1>2, <2>1, <2>2, <2>4, <2>5 DEF Next, Step
<1>3. LockInv /\ OwnersTyped => TypeOK
  <2>1. Users \subseteq Interfaces
    BY DEF Users
  <2>2. Cardinality(Users) \in 0..Cardinality(Interfaces)
    BY <2>1, UsersFinite, GateAssumption, FS_Subset, FS_CardinalityType
  <2> QED
    BY <2>2 DEF LockInv, FunInv, OwnersTyped, TypeOK
<1> QED
  BY <1>1, <1>2, <1>3, LockStep, LockInit, PTL DEF Spec

----------------------------------------------------------------------------
(* The event-loop runner.                                                  *)

RunnerTypes ==
    /\ thread \in 0..MaxOwners /\ loop \in 0..MaxOwners
    /\ {stopRequested, starting, registered} \subseteq BOOLEAN
    /\ place \in [Runner!Owners -> Runner!OwnerPlaces]
    /\ halted \in [Runner!Owners -> BOOLEAN] /\ crashed \in [Runner!Owners -> BOOLEAN]
    /\ queued \in [Runner!Owners -> Nat] /\ tasks \in [Runner!Owners -> Nat]
    /\ runnerPc \in [Callers -> Runner!CallerPlaces]
    /\ runnerMine \in [Callers -> 0..MaxOwners] /\ seen \in [Callers -> 0..MaxOwners]

\* Who lives or may still come up is on record, and a launch counts as starting.
Recorded == \A t \in Runner!Owners : place[t] \notin {"none", "dead"} =>
    thread = t /\ registered /\ (place[t] = "limbo" => starting)

\* Whatever somebody holds has been created, and a loop published.
Unpublished == {"none", "limbo", "born"}
Known ==
    /\ thread # Runner!NoOwner => place[thread] # "none"
    /\ loop # Runner!NoOwner => place[loop] \notin Unpublished
    /\ \A c \in Callers :
         /\ runnerMine[c] # Runner!NoOwner => place[runnerMine[c]] # "none"
         /\ seen[c] # Runner!NoOwner => place[seen[c]] \notin Unpublished

\* No future is open once a stop has been requested, until there is a new owner.
Settled ==
    /\ stopRequested => \A t \in Runner!Owners : queued[t] = 0 /\ tasks[t] = 0
    /\ \A t \in Runner!Owners :
         /\ halted[t] => place[t] \notin Unpublished /\ (place[t] = "dead" \/ stopRequested)
         /\ (place[t] \in {"draining", "closing", "cleared"} /\ ~crashed[t]) => stopRequested
         /\ (place[t] \in Unpublished \cup {"published"} \/ (place[t] = "dead" /\ ~crashed[t]))
              => queued[t] = 0 /\ tasks[t] = 0

\* A stop goes on with the thread and the loop it has captured: they have ended, or its
\* request still stands.
Ended(t) == t = Runner!NoOwner \/ place[t] = "dead"
Stopping == \A c \in Callers :
    /\ runnerPc[c] \in {"signal", "join"} => Ended(runnerMine[c]) \/ stopRequested
    /\ runnerPc[c] = "signal" => Ended(seen[c]) \/ stopRequested
    /\ runnerPc[c] = "check" => \/ Ended(runnerMine[c])
                                \/ /\ stopRequested /\ starting
                                   /\ place[runnerMine[c]] \in {"limbo", "born", "closing",
                                        "cleared"}
    /\ runnerPc[c] = "final" => Ended(runnerMine[c])

RunnerInv == RunnerTypes /\ Recorded /\ Known /\ Settled /\ Stopping

LEMMA OwnerNumbers == Runner!NoOwner \notin Runner!Owners
      /\ 0..MaxOwners = Runner!Owners \cup {Runner!NoOwner}
BY ServicesAssumption DEF Runner!Owners, Runner!NoOwner

LEMMA InitRunner == Runner!Init => RunnerInv
<1> SUFFICES ASSUME Runner!Init PROVE RunnerInv
  OBVIOUS
<1>1. RunnerTypes
  BY OwnerNumbers DEF Runner!Init, RunnerTypes, Runner!OwnerPlaces, Runner!CallerPlaces
<1>2. Recorded /\ Known /\ Settled /\ Stopping
  BY OwnerNumbers DEF Runner!Init, Recorded, Known, Settled, Stopping, Unpublished
<1> QED
  BY <1>1, <1>2 DEF RunnerInv

\* An owner goes on to the next place.
LEMMA OwnerMoves ==
    ASSUME RunnerInv, NEW t \in Runner!Owners,
           \/ Runner!ComesUp(t) \/ Runner!Publish(t) \/ Runner!Enter(t) \/ Runner!SignalReady(t)
           \/ Runner!Halt(t) \/ Runner!Crash(t) \/ Runner!ClearReady(t)
    PROVE  RunnerInv'
<1> USE OwnerNumbers DEF RunnerInv, Runner!OwnerAt, Runner!Become, Runner!ownerVars,
      Runner!runnerVars, Runner!callerVars
<1>1. /\ UNCHANGED <<thread, registered, stopRequested, halted, queued, tasks, runnerPc, runnerMine,
                     seen>>
      /\ starting' = starting \/ (starting' = FALSE /\ place[t] = "entered")
      /\ loop' = loop \/ (loop' = t /\ place'[t] = "published")
      /\ crashed' \in [Runner!Owners -> BOOLEAN]
      /\ \A u \in Runner!Owners : crashed[u] => crashed'[u]
      /\ \A u \in Runner!Owners : u # t => crashed'[u] = crashed[u]
  BY DEF Runner!ComesUp, Runner!Publish, Runner!Enter, Runner!SignalReady, Runner!Halt,
     Runner!Crash, Runner!ClearReady, RunnerTypes, Runner!OwnerPlaces
<1>2. PICK p \in Runner!OwnerPlaces : place' = [place EXCEPT ![t] = p]
  BY DEF Runner!ComesUp, Runner!Publish, Runner!Enter, Runner!SignalReady, Runner!Halt,
     Runner!Crash, Runner!ClearReady, Runner!OwnerPlaces
<1>3. \A u \in Runner!Owners : place'[u] = IF u = t THEN p ELSE place[u]
  BY <1>2 DEF RunnerTypes
<1>4. place[t] \notin {"none", "dead"} /\ p \notin {"none", "limbo", "dead"}
  BY <1>3 DEF Runner!ComesUp, Runner!Publish, Runner!Enter, Runner!SignalReady, Runner!Halt,
     Runner!Crash, Runner!ClearReady, RunnerTypes
<1>5. thread = t /\ registered
  BY <1>4 DEF Recorded
<1>6. /\ p = "born" => place[t] = "limbo"
      /\ p = "published" => place[t] = "born" /\ ~stopRequested
      /\ p = "entered" => place[t] = "published" 
      /\ p = "running" => place[t] = "entered"
      /\ p = "draining" => place[t] = "running" /\ (halted[t] \/ crashed'[t])
      /\ p = "closing" => place[t] = "born" /\ stopRequested
      /\ p = "cleared" => place[t] = "closing"
  BY <1>3, <1>5, ZenonT(60) DEF Runner!ComesUp, Runner!Publish, Runner!Enter, Runner!SignalReady, Runner!Halt,
     Runner!Crash, Runner!ClearReady, RunnerTypes
<1>7. RunnerTypes'
  BY <1>1, <1>2, <1>3 DEF RunnerTypes
<1>8. Recorded'
  BY <1>1, <1>3, <1>4, <1>5 DEF Recorded
<1>9. Known'
  BY <1>1, <1>3, <1>4, <1>6, <1>7 DEF Known, Unpublished, RunnerTypes
<1>10. Settled'
  BY <1>1, <1>3, <1>4, <1>6 DEF Settled, Unpublished, Runner!OwnerPlaces
<1>11. Stopping'
  <2> SUFFICES ASSUME NEW c \in Callers
               PROVE  /\ runnerPc[c] \in {"signal", "join"} => Ended(runnerMine[c])'
                           \/ stopRequested
                      /\ runnerPc[c] = "signal" => Ended(seen[c])' \/ stopRequested
                      /\ runnerPc[c] = "check" =>
                            \/ Ended(runnerMine[c])'
                            \/ /\ stopRequested /\ starting'
                               /\ place'[runnerMine[c]] \in {"limbo", "born", "closing", "cleared"}
                      /\ runnerPc[c] = "final" => Ended(runnerMine[c])'
    BY <1>1 DEF Stopping
  <2>1. /\ Ended(runnerMine[c]) => Ended(runnerMine[c])'
        /\ Ended(seen[c]) => Ended(seen[c])'
    BY <1>1, <1>3, <1>4 DEF Ended, RunnerTypes
  <2>2. ASSUME ~Ended(runnerMine[c]), runnerPc[c] = "check"
        PROVE  /\ starting'
               /\ place'[runnerMine[c]] \in {"limbo", "born", "closing", "cleared"}
    <3>1. /\ runnerMine[c] \in Runner!Owners /\ stopRequested /\ starting
          /\ place[runnerMine[c]] \in {"limbo", "born", "closing", "cleared"}
      BY <2>2 DEF Stopping, Ended, RunnerTypes
    <3>2. thread = runnerMine[c]
      BY <3>1 DEF Recorded
    <3>3. place'[t] = p /\ runnerMine[c] = t
      BY <1>3, <1>5, <3>2
    <3> QED
      BY <1>1, <1>4, <1>6, <3>1, <3>3 DEF Runner!OwnerPlaces
  <2> QED
    BY <2>1, <2>2 DEF Stopping
<1> QED
  BY <1>7, <1>8, <1>9, <1>10, <1>11

\* The loop begins a coroutine, or one ends.
LEMMA TasksMove ==
    ASSUME RunnerInv, NEW t \in Runner!Owners, Runner!TaskBegins(t) \/ Runner!TaskEnds(t)
    PROVE  RunnerInv'
<1> USE OwnerNumbers DEF RunnerInv, Runner!ownerVars, Runner!runnerVars, Runner!callerVars
<1>1. /\ UNCHANGED <<thread, loop, stopRequested, starting, registered, place, halted, crashed,
                     runnerPc, runnerMine, seen>>
      /\ place[t] \in {"running", "draining"}
      /\ queued' \in [Runner!Owners -> Nat] /\ tasks' \in [Runner!Owners -> Nat]
      /\ queued[t] > 0 \/ tasks[t] > 0
  BY DEF Runner!TaskBegins, Runner!TaskEnds, RunnerTypes
<1>2. \A u \in Runner!Owners : u # t => queued'[u] = queued[u] /\ tasks'[u] = tasks[u]
  BY DEF Runner!TaskBegins, Runner!TaskEnds, RunnerTypes
<1>3. ~stopRequested
  BY <1>1 DEF Settled, RunnerTypes
<1>4. RunnerTypes' /\ Recorded' /\ Known' /\ Stopping'
  BY <1>1 DEF RunnerTypes, Recorded, Known, Stopping, Ended
<1>5. Settled'
  BY <1>1, <1>2, <1>3 DEF Settled, Unpublished
<1> QED
  BY <1>4, <1>5

LEMMA DrainMoves ==
    ASSUME RunnerInv, NEW t \in Runner!Owners, Runner!Drain(t)
    PROVE  RunnerInv'
<1> USE OwnerNumbers DEF RunnerInv, Runner!OwnerAt, Runner!Become, Runner!ownerVars,
      Runner!runnerVars, Runner!callerVars
<1>1. PICK n \in 0..tasks[t] : tasks' = [tasks EXCEPT ![t] = n]
  BY DEF Runner!Drain
<1>2. /\ UNCHANGED <<thread, loop, stopRequested, starting, registered, halted, crashed, queued,
                     runnerPc, runnerMine, seen>>
      /\ place[t] = "draining"
      /\ \A u \in Runner!Owners : place'[u] = IF u = t THEN "closing" ELSE place[u]
      /\ place' \in [Runner!Owners -> Runner!OwnerPlaces]
  BY DEF Runner!Drain, RunnerTypes, Runner!OwnerPlaces
<1>3. /\ tasks' \in [Runner!Owners -> Nat]
      /\ \A u \in Runner!Owners : tasks[u] = 0 => tasks'[u] = 0
  BY <1>1 DEF RunnerTypes
<1>4. RunnerTypes'
  BY <1>2, <1>3 DEF RunnerTypes
<1>5. Recorded' /\ Known'
  BY <1>2 DEF Recorded, Known, Unpublished, RunnerTypes
<1>6. Settled'
  BY <1>2, <1>3 DEF Settled, Unpublished
<1>7. Stopping'
  <2> SUFFICES ASSUME NEW c \in Callers
               PROVE  /\ runnerPc[c] \in {"signal", "join"} => Ended(runnerMine[c])'
                           \/ stopRequested
                      /\ runnerPc[c] = "signal" => Ended(seen[c])' \/ stopRequested
                      /\ runnerPc[c] = "check" =>
                            \/ Ended(runnerMine[c])'
                            \/ /\ stopRequested /\ starting
                               /\ place'[runnerMine[c]] \in {"limbo", "born", "closing", "cleared"}
                      /\ runnerPc[c] = "final" => Ended(runnerMine[c])'
    BY <1>2 DEF Stopping
  <2>1. runnerMine[c] \in 0..MaxOwners /\ seen[c] \in 0..MaxOwners
    BY DEF RunnerTypes
  <2>2. /\ Ended(runnerMine[c]) => Ended(runnerMine[c])'
        /\ Ended(seen[c]) => Ended(seen[c])'
    BY <1>2, <2>1 DEF Ended
  <2>3. place[runnerMine[c]] \in {"limbo", "born", "closing", "cleared"} =>
          Ended(runnerMine[c])' \/ place'[runnerMine[c]] \in {"limbo", "born", "closing", "cleared"}
    BY <1>2, <2>1 DEF Ended
  <2> QED
    BY <2>2, <2>3 DEF Stopping
<1> QED
  BY <1>4, <1>5, <1>6, <1>7

LEMMA RetireMoves ==
    ASSUME RunnerInv, NEW t \in Runner!Owners, Runner!Retire(t)
    PROVE  RunnerInv'
<1> USE OwnerNumbers DEF RunnerInv, Runner!OwnerAt, Runner!Become, Runner!ownerVars,
      Runner!runnerVars, Runner!callerVars
<1>1. place[t] = "cleared" /\ thread = t
  BY DEF Runner!Retire, Recorded
<1>2. /\ UNCHANGED <<stopRequested, halted, crashed, queued, tasks, runnerPc, runnerMine, seen>>
      /\ starting' = FALSE /\ thread' = Runner!NoOwner
      /\ loop' \in {loop, Runner!NoOwner}
      /\ registered' \in BOOLEAN
      /\ \A u \in Runner!Owners : place'[u] = IF u = t THEN "dead" ELSE place[u]
      /\ place' \in [Runner!Owners -> Runner!OwnerPlaces]
  BY <1>1 DEF Runner!Retire, RunnerTypes, Runner!OwnerPlaces
<1>3. \A u \in Runner!Owners : u # t => place[u] \in {"none", "dead"}
  BY <1>1 DEF Recorded
<1>4. RunnerTypes'
  BY <1>2 DEF RunnerTypes
<1>5. Recorded' /\ Known'
  BY <1>1, <1>2, <1>3 DEF Recorded, Known, Unpublished, RunnerTypes
<1>6. Settled'
  BY <1>1, <1>2 DEF Settled, Unpublished
<1>7. \A m \in 0..MaxOwners : Ended(m) => Ended(m)'
  BY <1>2 DEF Ended
<1>8. \A m \in 0..MaxOwners : place[m] \in {"limbo", "born", "closing", "cleared"} => Ended(m)'
  BY <1>2, <1>3 DEF Ended
<1>9. Stopping'
  BY <1>2, <1>7, <1>8 DEF Stopping, RunnerTypes
<1> QED
  BY <1>4, <1>5, <1>6, <1>9

----------------------------------------------------------------------------
(* The callers.                                                            *)

\* A caller goes on, and the owners stay where they are.
LEMMA CallerMoves ==
    ASSUME RunnerInv, NEW c \in Callers, NEW p \in Runner!CallerPlaces \ {"signal"},
           NEW m \in {runnerMine[c], thread},
           runnerPc' = [runnerPc EXCEPT ![c] = p], runnerMine' = [runnerMine EXCEPT ![c] = m],
           UNCHANGED <<Runner!runnerVars, place, crashed, queued, tasks, seen>>,
           halted' \in [Runner!Owners -> BOOLEAN],
           \A t \in Runner!Owners : halted'[t] =>
              halted[t] \/ (place[t] \notin Unpublished /\ (place[t] = "dead" \/ stopRequested)),
           p = "join" => Ended(m) \/ stopRequested,
           p = "check" => \/ Ended(m)
                          \/ /\ stopRequested /\ starting
                             /\ place[m] \in {"limbo", "born", "closing", "cleared"},
           p = "final" => Ended(m)
    PROVE  RunnerInv'
<1> USE OwnerNumbers DEF RunnerInv, Runner!runnerVars
<1>1. \A d \in Callers : d # c => runnerPc'[d] = runnerPc[d] /\ runnerMine'[d] = runnerMine[d]
  BY DEF RunnerTypes
<1>2. runnerPc'[c] = p /\ runnerMine'[c] = m
  BY DEF RunnerTypes
<1>3. RunnerTypes'
  BY DEF RunnerTypes
<1>4. Recorded'
  BY DEF Recorded
<1>5. Known'
  BY <1>1, <1>2 DEF Known
<1>6. Settled'
  BY DEF Settled
<1>7. \A u : Ended(u)' = Ended(u)
  BY DEF Ended
<1>8. Stopping'
  <2> SUFFICES ASSUME NEW d \in Callers
               PROVE  /\ runnerPc'[d] \in {"signal", "join"} => Ended(runnerMine'[d])
                           \/ stopRequested
                      /\ runnerPc'[d] = "signal" => Ended(seen[d]) \/ stopRequested
                      /\ runnerPc'[d] = "check" =>
                            \/ Ended(runnerMine'[d])
                            \/ /\ stopRequested /\ starting
                               /\ place[runnerMine'[d]] \in {"limbo", "born", "closing", "cleared"}
                      /\ runnerPc'[d] = "final" => Ended(runnerMine'[d])
    BY DEF Stopping, Ended
  <2>1. CASE d = c
    BY <1>2, <2>1
  <2>2. CASE d # c
    BY <1>1, <2>2 DEF Stopping
  <2> QED
    BY <2>1, <2>2
<1> QED
  BY <1>3, <1>4, <1>5, <1>6, <1>8

LEMMA SameCaller ==
    ASSUME RunnerTypes, NEW c \in Callers
    PROVE  runnerMine = [runnerMine EXCEPT ![c] = runnerMine[c]]
  BY DEF RunnerTypes

\* Waiting, joining and giving up.
LEMMA WaitsMove ==
    ASSUME RunnerInv, NEW c \in Callers,
           Runner!WaitSubmit(c) \/ Runner!WaitRestart(c) \/ Runner!Rejoin(c)
                 \/ Runner!RestartBegins(c)
    PROVE  RunnerInv'
<1> USE DEF Runner!CallerPlaces
<1>1. PICK p \in {"idle", "submit", "rejoin", "recheck"}, m \in {runnerMine[c], thread} :
        runnerPc' = [runnerPc EXCEPT ![c] = p] /\ runnerMine' = [runnerMine EXCEPT ![c] = m]
  BY SameCaller
  DEF Runner!WaitSubmit, Runner!WaitRestart, Runner!Rejoin, Runner!RestartBegins, Runner!Wait,
     Runner!Goto, RunnerInv
<1>2. UNCHANGED <<Runner!runnerVars, place, crashed, queued, tasks, seen, halted>>
  BY DEF Runner!WaitSubmit, Runner!WaitRestart, Runner!Rejoin, Runner!RestartBegins, Runner!Wait,
     Runner!ownerVars
<1>3. halted' \in [Runner!Owners -> BOOLEAN]
  BY <1>2 DEF RunnerInv, RunnerTypes
<1> QED
  BY <1>1, <1>2, <1>3, CallerMoves

LEMMA SignalMoves ==
    ASSUME RunnerInv, NEW c \in Callers, Runner!SignalStop(c)
    PROVE  RunnerInv'
<1> USE OwnerNumbers DEF Runner!CallerPlaces
<1> DEFINE p == IF Runner!Alive(runnerMine[c]) THEN "join" ELSE "check"
<1>1. /\ runnerPc' = [runnerPc EXCEPT ![c] = p]
      /\ runnerMine' = [runnerMine EXCEPT ![c] = runnerMine[c]]
      /\ UNCHANGED <<Runner!runnerVars, place, crashed, queued, tasks, seen>>
      /\ runnerPc[c] = "signal"
      /\ halted' = IF Runner!LoopRuns(seen[c]) THEN [halted EXCEPT ![seen[c]] = TRUE] ELSE halted
  BY SameCaller DEF Runner!SignalStop, Runner!Goto, Runner!At, RunnerInv
<1>2. /\ Ended(runnerMine[c]) \/ stopRequested
      /\ Ended(seen[c]) \/ stopRequested
  BY <1>1 DEF RunnerInv, Stopping
<1>3. halted' \in [Runner!Owners -> BOOLEAN]
  BY <1>1 DEF RunnerInv, RunnerTypes
<1>4. \A t \in Runner!Owners : halted'[t] => halted[t] \/ (Runner!LoopRuns(t) /\ t = seen[c])
  BY <1>1 DEF RunnerInv, RunnerTypes
<1>5. \A t \in Runner!Owners : halted'[t] =>
        halted[t] \/ (place[t] \notin Unpublished /\ (place[t] = "dead" \/ stopRequested))
  BY <1>2, <1>4 DEF Runner!LoopRuns, Unpublished, Ended
<1>6. p = "check" => \/ Ended(runnerMine[c])
                     \/ /\ stopRequested /\ starting
                        /\ place[runnerMine[c]] \in {"limbo", "born", "closing", "cleared"}
  <2> SUFFICES ASSUME ~Ended(runnerMine[c]), ~Runner!Alive(runnerMine[c])
               PROVE  stopRequested /\ starting /\ place[runnerMine[c]] = "limbo"
    OBVIOUS
  <2>1. place[runnerMine[c]] = "limbo" /\ runnerMine[c] \in Runner!Owners
    BY DEF Ended, Runner!Alive, RunnerInv, Known, RunnerTypes
  <2> QED
    BY <1>2, <2>1 DEF RunnerInv, Recorded
<1>7. p \in Runner!CallerPlaces \ {"signal"}
  OBVIOUS
<1>8. p = "join" => Ended(runnerMine[c]) \/ stopRequested
  BY <1>2
<1>9. p # "final"
  OBVIOUS
<1> HIDE DEF p
<1> QED
  BY <1>1, <1>3, <1>5, <1>6, <1>7, <1>8, <1>9, CallerMoves

LEMMA JoinMoves ==
    ASSUME RunnerInv, NEW c \in Callers, Runner!Join(c)
    PROVE  RunnerInv'
<1> USE OwnerNumbers DEF Runner!CallerPlaces
<1> DEFINE p == IF Runner!Alive(runnerMine[c]) THEN "idle" ELSE "check"
<1>1. /\ runnerPc' = [runnerPc EXCEPT ![c] = p]
      /\ runnerMine' = [runnerMine EXCEPT ![c] = runnerMine[c]]
      /\ UNCHANGED <<Runner!runnerVars, place, crashed, queued, tasks, seen, halted>>
      /\ runnerPc[c] = "join"
  BY SameCaller DEF Runner!Join, Runner!Goto, Runner!At, RunnerInv, Runner!ownerVars
<1>2. Ended(runnerMine[c]) \/ stopRequested
  BY <1>1 DEF RunnerInv, Stopping
<1>3. halted' \in [Runner!Owners -> BOOLEAN]
  BY <1>1 DEF RunnerInv, RunnerTypes
<1>4. p = "check" => \/ Ended(runnerMine[c])
                     \/ /\ stopRequested /\ starting
                        /\ place[runnerMine[c]] \in {"limbo", "born", "closing", "cleared"}
  <2> SUFFICES ASSUME ~Ended(runnerMine[c]), ~Runner!Alive(runnerMine[c])
               PROVE  stopRequested /\ starting /\ place[runnerMine[c]] = "limbo"
    OBVIOUS
  <2>1. place[runnerMine[c]] = "limbo" /\ runnerMine[c] \in Runner!Owners
    BY DEF Ended, Runner!Alive, RunnerInv, Known, RunnerTypes
  <2> QED
    BY <1>2, <2>1 DEF RunnerInv, Recorded
<1>5. p \in Runner!CallerPlaces \ {"signal"} /\ p # "join" /\ p # "final"
  OBVIOUS
<1> HIDE DEF p
<1> QED
  BY <1>1, <1>3, <1>4, <1>5, CallerMoves

\* A launch that may still come up is on record and starting, so a check does not pass it.
LEMMA CheckMoves ==
    ASSUME RunnerInv, NEW c \in Callers, Runner!Check(c)
    PROVE  RunnerInv'
<1> USE OwnerNumbers DEF Runner!CallerPlaces
<1> DEFINE p == IF Runner!StillStarting(c) THEN "idle" ELSE "final"
<1>1. /\ runnerPc' = [runnerPc EXCEPT ![c] = p]
      /\ runnerMine' = [runnerMine EXCEPT ![c] = runnerMine[c]]
      /\ UNCHANGED <<Runner!runnerVars, place, crashed, queued, tasks, seen, halted>>
      /\ runnerPc[c] = "check"
  BY SameCaller DEF Runner!Check, Runner!Goto, Runner!At, RunnerInv, Runner!ownerVars
<1>2. halted' \in [Runner!Owners -> BOOLEAN]
  BY <1>1 DEF RunnerInv, RunnerTypes
<1>3. p = "final" => Ended(runnerMine[c])
  <2> SUFFICES ASSUME ~Ended(runnerMine[c])
               PROVE  Runner!StillStarting(c)
    OBVIOUS
  <2>1. starting /\ place[runnerMine[c]] \in {"limbo", "born", "closing", "cleared"}
        /\ runnerMine[c] \in Runner!Owners
    BY <1>1 DEF RunnerInv, Stopping, Ended, RunnerTypes
  <2> QED
    BY <2>1 DEF RunnerInv, Recorded, Runner!StillStarting
<1>4. p \in Runner!CallerPlaces \ {"signal"} /\ p # "join" /\ p # "check"
  OBVIOUS
<1> HIDE DEF p
<1> QED
  BY <1>1, <1>2, <1>3, <1>4, CallerMoves

\* The runner is released only when nothing on record lives.
LEMMA FinalMoves ==
    ASSUME RunnerInv, NEW c \in Callers, Runner!Final(c)
    PROVE  RunnerInv'
<1> USE OwnerNumbers DEF RunnerInv
<1>1. /\ runnerPc' = [runnerPc EXCEPT ![c] = "idle"] /\ runnerPc[c] = "final"
      /\ UNCHANGED <<stopRequested, starting, place, halted, crashed, queued, tasks, runnerMine,
                     seen>>
      /\ thread' = thread \/ (thread' = Runner!NoOwner /\ thread = runnerMine[c])
      /\ loop' \in {loop, Runner!NoOwner}
      /\ registered' = (registered /\ (thread' # Runner!NoOwner \/ loop' # Runner!NoOwner))
  BY DEF Runner!Final, Runner!Goto, Runner!At, Runner!ownerVars
<1>2. Ended(runnerMine[c])
  BY <1>1 DEF Stopping
<1>3. runnerPc'[c] = "idle" /\ \A d \in Callers : d # c => runnerPc'[d] = runnerPc[d]
  BY <1>1 DEF RunnerTypes
<1>4. RunnerTypes'
  BY <1>1 DEF RunnerTypes, Runner!CallerPlaces
<1>5. Recorded'
  BY <1>1, <1>2 DEF Recorded, Ended
<1>6. Known' /\ Settled'
  BY <1>1 DEF Known, Settled
<1>7. Stopping'
  BY <1>1, <1>3 DEF Stopping, Ended
<1> QED
  BY <1>4, <1>5, <1>6, <1>7

\* A future is submitted to a loop that runs, and not after a stop has been requested.
LEMMA SubmitMoves ==
    ASSUME RunnerInv, NEW c \in Callers, Runner!Submit(c)
    PROVE  RunnerInv'
<1> USE OwnerNumbers DEF RunnerInv, Runner!runnerVars, Runner!ownerVars
<1>1. /\ runnerPc' = [runnerPc EXCEPT ![c] = "idle"]
      /\ UNCHANGED <<thread, loop, stopRequested, starting, registered, place, halted, crashed,
                     tasks, runnerMine, seen>>
      /\ queued' = IF Runner!Accepts THEN [queued EXCEPT ![loop] = @ + 1] ELSE queued
  BY DEF Runner!Submit, Runner!Goto
<1>2. runnerPc'[c] = "idle" /\ \A d \in Callers : d # c => runnerPc'[d] = runnerPc[d]
  BY <1>1 DEF RunnerTypes
<1>3. \/ queued' = queued
      \/ /\ ~stopRequested /\ loop \in Runner!Owners
           /\ place[loop] \in {"entered", "running", "draining"}
         /\ queued' = [queued EXCEPT ![loop] = @ + 1]
  BY <1>1 DEF Runner!Accepts, Runner!LoopRuns, RunnerTypes
<1>4. RunnerTypes'
  <2>1. queued' \in [Runner!Owners -> Nat]
    BY <1>3 DEF RunnerTypes
  <2>2. runnerPc' \in [Callers -> Runner!CallerPlaces]
    BY <1>1 DEF RunnerTypes, Runner!CallerPlaces
  <2> QED
    BY <1>1, <2>1, <2>2 DEF RunnerTypes
<1>5. Recorded' /\ Known'
  BY <1>1 DEF Recorded, Known
<1>6. Settled'
  <2>1. CASE queued' = queued
    BY <1>1, <2>1 DEF Settled
  <2>2. CASE queued' # queued
    <3>1. \A t \in Runner!Owners : queued'[t] = queued[t]
          \/ place[t] \in {"entered", "running", "draining"}
      BY <1>3, <2>2 DEF RunnerTypes
    <3> QED
      BY <1>1, <1>3, <2>2, <3>1 DEF Settled, Unpublished
  <2> QED
    BY <2>1, <2>2
<1>7. Stopping'
  BY <1>1, <1>2 DEF Stopping, Ended
<1> QED
  BY <1>4, <1>5, <1>6, <1>7

LEMMA StopMoves ==
    ASSUME RunnerInv, NEW c \in Callers, Runner!Stop(c)
    PROVE  RunnerInv'
<1> USE OwnerNumbers DEF RunnerInv
<1>1. /\ UNCHANGED <<thread, loop, starting, registered, place, halted, crashed>>
      /\ stopRequested' = TRUE
      /\ queued' = [t \in Runner!Owners |-> 0] /\ tasks' = [t \in Runner!Owners |-> 0]
      /\ runnerMine' = [runnerMine EXCEPT ![c] = thread] /\ seen' = [seen EXCEPT ![c] = loop]
      /\ runnerPc' = [runnerPc EXCEPT ![c] = "signal"]
  BY DEF Runner!Stop, Runner!Goto, Runner!ownerVars
<1>2. /\ runnerPc'[c] = "signal" /\ runnerMine'[c] = thread /\ seen'[c] = loop
      /\ \A d \in Callers : d # c => runnerPc'[d] = runnerPc[d] /\ runnerMine'[d] = runnerMine[d]
           /\ seen'[d] = seen[d]
  BY <1>1 DEF RunnerTypes
<1>3. RunnerTypes'
  BY <1>1 DEF RunnerTypes, Runner!CallerPlaces
<1>4. Recorded' /\ Known'
  BY <1>1, <1>2 DEF Recorded, Known
<1>5. Settled'
  BY <1>1 DEF Settled
<1>6. Stopping'
  <2> SUFFICES ASSUME NEW d \in Callers
               PROVE  /\ runnerPc'[d] = "check" =>
                            \/ Ended(runnerMine'[d])
                            \/ /\ starting
                               /\ place[runnerMine'[d]] \in {"limbo", "born", "closing", "cleared"}
                      /\ runnerPc'[d] = "final" => Ended(runnerMine'[d])
    BY <1>1 DEF Stopping, Ended
  <2>1. CASE d = c
    BY <1>2, <2>1
  <2>2. CASE d # c
    BY <1>2, <2>2 DEF Stopping
  <2> QED
    BY <2>1, <2>2
<1> QED
  BY <1>3, <1>4, <1>5, <1>6

\* A thread is created only when no other lives or may still come up.
LEMMA CreateMoves ==
    ASSUME RunnerInv, NEW c \in Callers, NEW t \in Runner!Owners,
          NEW waiting \in {"waitSubmit", "waitRestart"},
           NEW from \in {loop, Runner!NoOwner},
           \A u \in Runner!Owners : place[u] \in {"none", "dead"},
           Runner!Create(c, t, waiting, from),
           UNCHANGED <<halted, crashed, queued, tasks, seen>>
    PROVE  RunnerInv'
<1> USE OwnerNumbers DEF RunnerInv
<1>1. place[t] = "none"
  BY DEF Runner!Create, Runner!Fresh
<1>2. PICK p \in {"idle", waiting}, m \in {runnerMine[c], t} :
        runnerPc' = [runnerPc EXCEPT ![c] = p] /\ runnerMine' = [runnerMine EXCEPT ![c] = m]
  BY SameCaller DEF Runner!Create, Runner!Goto
<1>3. PICK q \in {"born", "dead", "limbo"} :
        /\ place' = [place EXCEPT ![t] = q]
        /\ IF q = "dead" THEN thread' = Runner!NoOwner /\ loop' = Runner!NoOwner
             /\ registered' \in BOOLEAN
                              /\ starting' = FALSE
           ELSE thread' = t /\ loop' = from /\ starting' = TRUE /\ registered' = TRUE
  BY DEF Runner!Create, Runner!Become
<1>4. stopRequested' = FALSE
  BY DEF Runner!Create
<1>5. \A u \in Runner!Owners : place'[u] = IF u = t THEN q ELSE place[u]
  BY <1>3 DEF RunnerTypes
<1>6. /\ runnerPc'[c] = p /\ runnerMine'[c] = m
      /\ \A d \in Callers : d # c => runnerPc'[d] = runnerPc[d] /\ runnerMine'[d] = runnerMine[d]
  BY <1>2 DEF RunnerTypes
<1>7. RunnerTypes'
  BY <1>2, <1>3, <1>4 DEF RunnerTypes, Runner!OwnerPlaces, Runner!CallerPlaces
<1>8. Recorded'
  BY <1>3, <1>5 DEF Recorded
<1>9. Known'
  <2>1. \A u \in Runner!Owners : /\ place[u] # "none" => place'[u] = place[u]
                                 /\ place[u] \notin Unpublished => place'[u] \notin Unpublished
    BY <1>1, <1>5 DEF Unpublished
  <2>2. thread' # Runner!NoOwner => place'[thread'] # "none"
    BY <1>3, <1>5
  <2>3. loop' \in {loop, Runner!NoOwner} /\ (loop # Runner!NoOwner => loop \in Runner!Owners)
    BY <1>3 DEF RunnerTypes
  <2>4. loop' # Runner!NoOwner => place'[loop'] \notin Unpublished
    BY <2>1, <2>3 DEF Known
  <2>5. \A d \in Callers : runnerMine'[d] # Runner!NoOwner => place'[runnerMine'[d]] # "none"
    <3> SUFFICES ASSUME NEW d \in Callers, runnerMine'[d] # Runner!NoOwner
                 PROVE  place'[runnerMine'[d]] # "none"
      OBVIOUS
    <3>1. runnerMine'[d] \in Runner!Owners
      BY <1>7 DEF RunnerTypes
    <3>2. runnerMine'[d] = t \/ (runnerMine'[d] = runnerMine[d] /\ place[runnerMine[d]] # "none")
      BY <1>6 DEF Known
    <3> QED
      BY <1>5, <2>1, <3>1, <3>2
  <2>6. \A d \in Callers : seen'[d] # Runner!NoOwner => place'[seen'[d]] \notin Unpublished
    BY <2>1 DEF Known, RunnerTypes
  <2> QED
    BY <2>2, <2>4, <2>5, <2>6 DEF Known
<1>10. Settled'
  <2>1. queued[t] = 0 /\ tasks[t] = 0 /\ ~halted[t]
    BY <1>1 DEF Settled, Unpublished
  <2>2. \A u \in Runner!Owners : halted[u] => place[u] = "dead"
    BY DEF Settled, Unpublished
  <2> QED
    BY <1>1, <1>4, <1>5, <2>1, <2>2 DEF Settled, Unpublished
<1>11. Stopping'
  <2>1. \A d \in Callers : /\ runnerMine[d] # Runner!NoOwner => place[runnerMine[d]] = "dead"
                                /\ runnerMine[d] # t
                           /\ seen[d] # Runner!NoOwner => place[seen[d]] = "dead" /\ seen[d] # t
    BY <1>1 DEF Known, RunnerTypes, Unpublished
  <2>2. \A d \in Callers : Ended(seen[d])' /\ (Ended(runnerMine[d])' \/ d = c)
    <3> TAKE d \in Callers
    <3>1. seen'[d] \in 0..MaxOwners /\ runnerMine'[d] \in 0..MaxOwners
      BY <1>7 DEF RunnerTypes
    <3>2. Ended(seen[d])'
      BY <1>5, <2>1, <3>1 DEF Ended
    <3>3. d # c => Ended(runnerMine[d])'
      BY <1>5, <1>6, <2>1, <3>1 DEF Ended
    <3> QED
      BY <3>2, <3>3
  <2> QED
    BY <1>6, <2>2 DEF Stopping
<1> QED
  BY <1>7, <1>8, <1>9, <1>10, <1>11

\* Where no owner can be used, none lives.
LEMMA Vacant ==
    ASSUME RunnerInv, ~Runner!IsRunning, NEW c \in Callers, Runner!Gone(c) \/ ~Runner!Reusable
    PROVE  \A u \in Runner!Owners : place[u] \in {"none", "dead"}
  BY OwnerNumbers
  DEF RunnerInv, Recorded, Runner!Gone, Runner!Reusable, Runner!Alive, RunnerTypes,
     Runner!OwnerPlaces

LEMMA StartsMove ==
    ASSUME RunnerInv, NEW c \in Callers, Runner!EnsureRunning(c) \/ Runner!RestartDecides(c)
    PROVE  RunnerInv'
<1> USE DEF RunnerInv
<1>1. UNCHANGED <<halted, crashed, queued, tasks, seen>>
  BY DEF Runner!EnsureRunning, Runner!RestartDecides
<1>2. ASSUME UNCHANGED <<Runner!runnerVars, place>>,
             NEW p \in {"idle", "submit", "waitSubmit", "waitRestart"},
             NEW m \in {runnerMine[c], thread},
             runnerPc' = [runnerPc EXCEPT ![c] = p], runnerMine' = [runnerMine EXCEPT ![c] = m]
      PROVE  RunnerInv'
  <2>1. p \in Runner!CallerPlaces \ {"signal"} /\ p \notin {"join", "check", "final"}
    BY DEF Runner!CallerPlaces
  <2>2. halted' \in [Runner!Owners -> BOOLEAN]
    BY <1>1 DEF RunnerTypes
  <2> HIDE DEF RunnerInv
  <2> QED
    BY <1>1, <1>2, <2>1, <2>2, CallerMoves
<1>3. CASE Runner!IsRunning
  <2>1. /\ UNCHANGED <<Runner!runnerVars, place, runnerMine>>
        /\ Runner!Goto(c, "submit") \/ Runner!Goto(c, "idle")
    BY <1>3 DEF Runner!EnsureRunning, Runner!RestartDecides
  <2> QED
    BY <2>1, <1>2, SameCaller DEF Runner!Goto
<1>4. CASE ~Runner!IsRunning /\ (Runner!Await(c, "waitSubmit") \/ Runner!Await(c, "waitRestart"))
  <2>1. PICK p \in {"waitSubmit", "waitRestart"} : Runner!Await(c, p)
    BY <1>4
  <2> QED
    BY <2>1, <1>2 DEF Runner!Await, Runner!Goto
<1>5. CASE ~Runner!IsRunning /\ ~Runner!Await(c, "waitSubmit") /\ ~Runner!Await(c, "waitRestart")
  <2>1. Runner!Gone(c) \/ ~Runner!Reusable
    BY <1>5 DEF Runner!EnsureRunning, Runner!RestartDecides
  <2>2. PICK t \in Runner!Owners, waiting \in {"waitSubmit", "waitRestart"},
        from \in {loop, Runner!NoOwner} :
          Runner!Create(c, t, waiting, from)
    BY <1>5 DEF Runner!EnsureRunning, Runner!RestartDecides
  <2>3. \A u \in Runner!Owners : place[u] \in {"none", "dead"}
    BY <1>5, <2>1, Vacant
  <2> HIDE DEF RunnerInv
  <2> QED
    BY <1>1, <2>2, <2>3, CreateMoves
<1> QED
  BY <1>3, <1>4, <1>5

LEMMA RunnerStep == RunnerInv /\ [Runner!Next]_(Runner!vars) => RunnerInv'
<1>1. ASSUME RunnerInv, NEW t \in Runner!Owners, Runner!OwnerStep(t) \/ Runner!OwnerChance(t)
      PROVE  RunnerInv'
  BY <1>1, OwnerMoves, TasksMove, DrainMoves, RetireMoves DEF Runner!OwnerStep, Runner!OwnerChance
<1>2. ASSUME RunnerInv, NEW c \in Callers, Runner!CallerStep(c) \/ Runner!Call(c)
      PROVE  RunnerInv'
  BY <1>2, WaitsMove, SignalMoves, JoinMoves, CheckMoves, FinalMoves, SubmitMoves, StopMoves,
     StartsMove
  DEF Runner!CallerStep, Runner!Call
<1>3. RunnerInv /\ UNCHANGED Runner!vars => RunnerInv'
  BY DEF RunnerInv, Runner!vars, Runner!runnerVars, Runner!ownerVars, Runner!callerVars,
     RunnerTypes, Recorded, Known, Settled, Stopping, Ended
<1> QED
  BY <1>1, <1>2, <1>3 DEF Runner!Next

\* The invariant that the three properties rest on: however calls, launches and crashes meet,
\* who lives is on record, nothing unpublished is captured, a stop leaves no future open, and
\* a stop under way has its request standing or its thread gone.
THEOREM RunnerSettles == Runner!Spec => []RunnerInv
  BY InitRunner, RunnerStep, PTL DEF Runner!Spec

\* A thread is created only where none on record lives or may still come up (Vacant), and one
\* that lives is never taken off the record (FinalMoves, RetireMoves), so the recorded owner is
\* the only one.
THEOREM OneLoop == Runner!Spec => []OneOwner
<1>1. RunnerInv => OneOwner
  BY DEF RunnerInv, Recorded, OneOwner, Runner!OneOwner, Runner!Alive
<1> QED
  BY <1>1, RunnerSettles, PTL

\* A loop that did not crash drains only after a stop request, which leaves no future open, and
\* none is submitted until a new owner takes the request back.
THEOREM NoFutureIsLost == Runner!Spec => []NoLostFuture
<1>1. RunnerInv => NoLostFuture
  BY DEF RunnerInv, Settled, NoLostFuture, Runner!NoLostFuture, Runner!OwnerAt, Runner!Open,
     RunnerTypes
<1> QED
  BY <1>1, RunnerSettles, PTL

\* A stop that returns True has found its thread ended: a launch that may still come up is on
\* record and starting, which the check before does not pass.
THEOREM StopWaits == Runner!Spec => StopTrueMeansGone
<1>1. RunnerInv /\ [Runner!Next]_(Runner!vars) => [
        \A c \in Callers : Runner!At(c, "final") /\ runnerPc'[c] = "idle" =>
            runnerMine[c] = Runner!NoOwner \/ place[runnerMine[c]] = "dead"]_(Runner!vars)
  BY DEF RunnerInv, Stopping, Ended, Runner!At
<1> QED
  BY <1>1, RunnerSettles, PTL DEF Runner!Spec, StopTrueMeansGone, Runner!StopTrueMeansGone

\* Every variable of the runner keeps its type, for any number of callers and owners.
THEOREM RunnerTypesHold == Runner!Spec => []Runner!TypeOK
<1> DEFINE Rest == ready \in [Runner!Owners -> BOOLEAN] /\ calls \in [Callers -> 0..MaxCalls]
<1>1. Runner!Init => Rest
  BY ServicesAssumption DEF Runner!Init
<1>2. ASSUME Rest, [Runner!Next]_(Runner!vars) PROVE Rest'
  <2>1. ready' = ready \/ \E t \in Runner!Owners, b \in BOOLEAN : ready' = [ready EXCEPT ![t] = b]
    BY <1>2 DEF Runner!Next, Runner!vars, Runner!ownerVars, Runner!callerVars, Runner!OwnerStep,
       Runner!OwnerChance, Runner!CallerStep, Runner!Call, Runner!Publish, Runner!Enter,
       Runner!SignalReady, Runner!Halt, Runner!Drain, Runner!ClearReady, Runner!Retire,
       Runner!ComesUp, Runner!TaskBegins, Runner!TaskEnds, Runner!Crash, Runner!WaitSubmit,
       Runner!Submit, Runner!SignalStop, Runner!Join, Runner!Check, Runner!Final, Runner!Rejoin,
       Runner!RestartDecides, Runner!WaitRestart, Runner!EnsureRunning, Runner!Stop,
       Runner!RestartBegins, Runner!Wait
  <2>2. calls' = calls \/ \E c \in Callers : Runner!Called(c)
    BY <1>2 DEF Runner!Next, Runner!vars, Runner!ownerVars, Runner!callerVars, Runner!OwnerStep,
       Runner!OwnerChance, Runner!CallerStep, Runner!Call, Runner!Publish, Runner!Enter,
       Runner!SignalReady, Runner!Halt, Runner!Drain, Runner!ClearReady, Runner!Retire,
       Runner!ComesUp, Runner!TaskBegins, Runner!TaskEnds, Runner!Crash, Runner!WaitSubmit,
       Runner!Submit, Runner!SignalStop, Runner!Join, Runner!Check, Runner!Final, Runner!Rejoin,
       Runner!RestartDecides, Runner!WaitRestart, Runner!EnsureRunning, Runner!Stop,
       Runner!RestartBegins, Runner!Wait
  <2>3. ready' \in [Runner!Owners -> BOOLEAN]
    BY <1>2, <2>1
  <2>4. calls' \in [Callers -> 0..MaxCalls]
    BY <1>2, <2>2, ServicesAssumption DEF Runner!Called
  <2> QED
    BY <2>3, <2>4
<1>3. RunnerInv /\ Rest => Runner!TypeOK
  BY DEF RunnerInv, RunnerTypes, Runner!TypeOK
<1> QED
  BY <1>1, <1>2, <1>3, RunnerSettles, PTL DEF Runner!Spec

----------------------------------------------------------------------------
(* The thread register.                                                    *)

ThreadsTypes ==
    /\ native \in [Workers -> Threads!Lives]
    /\ threadsPc \in [Callers -> Threads!Places]
    /\ threadsMine \in [Callers -> Workers \cup {NoWorker}]

InStart == {"native", "started", "failed", "interrupted"}

\* A start in progress is recorded, by one caller for each worker, and its place says how far
\* it has come.
StartsRecorded ==
    /\ \A c \in Callers : threadsPc[c] \in InStart =>
         /\ threadsMine[c] \in Workers /\ threadsMine[c] \in startingNow \cap pendingStart
         /\ threadsPc[c] \in {"native", "failed"} => native[threadsMine[c]] = "new"
         /\ threadsPc[c] = "native" => threadsMine[c] \in tracked
         /\ threadsPc[c] = "started" => native[threadsMine[c]] \in {"alive", "dead"}
         /\ threadsPc[c] = "interrupted" => native[threadsMine[c]] \in {"launching", "alive",
              "dead"}
    /\ \A c, d \in Callers :
         threadsPc[c] \in InStart /\ threadsPc[d] \in InStart /\ threadsMine[c] = threadsMine[d] =>
               c = d
    /\ \A c \in Callers : threadsPc[c] = "retire" =>
         threadsMine[c] \in Workers /\ native[threadsMine[c]] \in {"alive", "dead"}

\* An interrupted start is known to be on its way, or not to be known.
LaunchesKept == \A w \in Workers : native[w] = "launching" =>
    w \in tracked /\ (w \in startingNow \/ w \in indeterminate)

ThreadsInv == ThreadsTypes /\ StartsRecorded /\ LaunchesKept /\ LiveIsTracked

LEMMA InitThreads == Threads!Init => ThreadsInv
  BY DEF Threads!Init, ThreadsInv, ThreadsTypes, StartsRecorded, LaunchesKept, LiveIsTracked,
     Threads!LiveIsTracked, Threads!Alive, Threads!Lives, Threads!Places, InStart

LEMMA CreateKeeps ==
    ASSUME ThreadsInv, NEW c \in Callers, NEW w \in Workers, Threads!Create(c, w)
    PROVE  ThreadsInv'
<1> USE DEF ThreadsInv
<1>1. /\ \A v \in Workers : native'[v] = IF v = w THEN "new" ELSE native[v]
      /\ native' \in [Workers -> Threads!Lives]
      /\ native[w] = "unborn"
      /\ UNCHANGED <<pendingStart, startingNow, indeterminate, threadsPc, threadsMine>>
  BY DEF Threads!Create, Threads!Live, ThreadsTypes, Threads!Lives
<1>2. \A v \in Workers : v \in tracked /\ native[v] \in {"new", "launching", "alive"} =>
      v \in tracked'
  BY DEF Threads!Create, Threads!Alive, Threads!NoIdent
<1>3. ThreadsTypes' /\ LaunchesKept' /\ LiveIsTracked'
  BY <1>1, <1>2 DEF ThreadsTypes, LaunchesKept, LiveIsTracked, Threads!LiveIsTracked,
     Threads!Alive
<1>4. \A d \in Callers : threadsPc[d] \in InStart \cup {"retire"} =>
      threadsMine[d] \in Workers \ {w}
  BY <1>1 DEF StartsRecorded, InStart
<1>5. StartsRecorded'
  BY <1>1, <1>2, <1>4 DEF StartsRecorded, InStart
<1> QED
  BY <1>3, <1>5

LEMMA BeginKeeps ==
    ASSUME ThreadsInv, NEW c \in Callers, NEW w \in Workers, Threads!Begin(c, w)
    PROVE  ThreadsInv'
<1> USE DEF ThreadsInv
<1>1. /\ UNCHANGED <<native, tracked, indeterminate>>
      /\ pendingStart' = pendingStart \cup {w} /\ startingNow' = startingNow \cup {w}
      /\ threadsMine' = [threadsMine EXCEPT ![c] = w]
      /\ threadsPc' = [threadsPc EXCEPT ![c] = "native"]
      /\ w \in tracked /\ native[w] = "new" /\ w \notin pendingStart
  BY DEF Threads!Begin, Threads!Goto
<1>2. /\ threadsPc'[c] = "native" /\ threadsMine'[c] = w
      /\ \A d \in Callers : d # c => threadsPc'[d] = threadsPc[d]
           /\ threadsMine'[d] = threadsMine[d]
  BY <1>1 DEF ThreadsTypes
<1>3. ThreadsTypes' /\ LaunchesKept' /\ LiveIsTracked'
  BY <1>1 DEF ThreadsTypes, LaunchesKept, LiveIsTracked, Threads!LiveIsTracked, Threads!Alive,
     Threads!Places
<1>4. StartsRecorded'
  BY <1>1, <1>2 DEF StartsRecorded, InStart
<1> QED
  BY <1>3, <1>4

LEMMA NativeStartKeeps ==
    ASSUME ThreadsInv, NEW c \in Callers, Threads!NativeStart(c)
    PROVE  ThreadsInv'
<1> USE DEF ThreadsInv
<1> DEFINE w == threadsMine[c]
<1>1. /\ UNCHANGED <<tracked, pendingStart, startingNow, indeterminate, threadsMine>>
      /\ threadsPc[c] = "native"
  BY DEF Threads!NativeStart, Threads!registers, Threads!At
<1>2. w \in Workers /\ w \in startingNow /\ w \in tracked /\ native[w] = "new"
  BY <1>1 DEF StartsRecorded, InStart
<1>3. PICK p \in {"started", "failed", "interrupted"}, l \in {"alive", "new", "launching"} :
        /\ threadsPc' = [threadsPc EXCEPT ![c] = p] /\ native' = [native EXCEPT ![w] = l]
        /\ p = "started" => l = "alive"
        /\ p = "failed" => l = "new"
        /\ p = "interrupted" => l = "launching"
  <2>1. native = [native EXCEPT ![w] = "new"]
    BY <1>2 DEF ThreadsTypes
  <2> QED
    BY <2>1 DEF Threads!NativeStart, Threads!Goto, Threads!Live
<1>4. /\ threadsPc'[c] = p /\ \A d \in Callers : d # c => threadsPc'[d] = threadsPc[d]
      /\ native'[w] = l /\ \A v \in Workers : v # w => native'[v] = native[v]
  BY <1>2, <1>3 DEF ThreadsTypes
<1>5. \A d \in Callers : threadsPc[d] \in InStart \cup {"retire"} /\ d # c => threadsMine[d] # w
  BY <1>1, <1>2 DEF StartsRecorded, InStart
<1>6. ThreadsTypes'
  BY <1>1, <1>3 DEF ThreadsTypes, Threads!Lives, Threads!Places
<1>7. LaunchesKept' /\ LiveIsTracked'
  BY <1>1, <1>2, <1>4 DEF LaunchesKept, LiveIsTracked, Threads!LiveIsTracked, Threads!Alive
<1>8. StartsRecorded'
  <2>1. \A d \in Callers : threadsPc'[d] \in InStart \cup {"retire"} =>
        threadsPc[d] \in InStart \cup {"retire"}
    BY <1>1, <1>4 DEF InStart
  <2>2. \A d \in Callers : d # c /\ threadsPc'[d] \in InStart \cup {"retire"} =>
          threadsPc'[d] = threadsPc[d] /\ native'[threadsMine[d]] = native[threadsMine[d]]
    BY <1>4, <1>5, <2>1 DEF StartsRecorded, InStart
  <2>3. /\ w \in Workers /\ w \in startingNow' \cap pendingStart'
        /\ threadsPc'[c] \in {"native", "failed"} => native'[w] = "new"
        /\ threadsPc'[c] # "native" /\ threadsPc'[c] # "retire"
        /\ threadsPc'[c] = "started" => native'[w] \in {"alive", "dead"}
        /\ threadsPc'[c] = "interrupted" => native'[w] \in {"launching", "alive", "dead"}
    BY <1>1, <1>2, <1>3, <1>4 DEF StartsRecorded, InStart
  <2>4. \A d, e \in Callers :
          threadsPc'[d] \in InStart /\ threadsPc'[e] \in InStart
                /\ threadsMine'[d] = threadsMine'[e] => d = e
    BY <1>1, <1>4 DEF StartsRecorded, InStart
  <2>5. \A d \in Callers : d # c =>
          /\ threadsPc'[d] \in InStart =>
               /\ threadsMine[d] \in Workers /\ threadsMine[d] \in startingNow' \cap pendingStart'
               /\ threadsPc'[d] \in {"native", "failed"} => native'[threadsMine[d]] = "new"
               /\ threadsPc'[d] = "native" => threadsMine[d] \in tracked'
               /\ threadsPc'[d] = "started" => native'[threadsMine[d]] \in {"alive", "dead"}
               /\ threadsPc'[d] = "interrupted" =>
                    native'[threadsMine[d]] \in {"launching", "alive", "dead"}
          /\ threadsPc'[d] = "retire" => threadsMine[d] \in Workers
               /\ native'[threadsMine[d]] \in {"alive", "dead"}
    BY <1>1, <2>2 DEF StartsRecorded
  <2> QED
    BY <1>1, <2>3, <2>4, <2>5 DEF StartsRecorded
<1> QED
  BY <1>6, <1>7, <1>8

LEMMA SettleKeeps ==
    ASSUME ThreadsInv, NEW c \in Callers, Threads!Settle(c)
    PROVE  ThreadsInv'
<1> USE DEF ThreadsInv
<1> DEFINE w == threadsMine[c]
           refused == threadsPc[c] = "failed" /\ Threads!NoIdent(w)
<1>1. /\ threadsPc[c] \in {"started", "failed", "interrupted"}
      /\ pendingStart' = pendingStart \ {w} /\ startingNow' = startingNow \ {w}
      /\ tracked' = IF refused THEN tracked \ {w} ELSE tracked
      /\ indeterminate' = IF threadsPc[c] # "started" /\ ~refused THEN indeterminate \cup {w}
                          ELSE indeterminate
      /\ UNCHANGED <<native, threadsMine>>
  BY DEF Threads!Settle, Threads!At
<1>2. PICK p \in {"retire", "idle"} :
        threadsPc' = [threadsPc EXCEPT ![c] = p] /\ (p = "retire" => threadsPc[c] = "started")
  BY DEF Threads!Settle, Threads!Goto, Threads!At
<1>3. threadsPc'[c] = p /\ \A d \in Callers : d # c => threadsPc'[d] = threadsPc[d]
  BY <1>2 DEF ThreadsTypes
<1>4. /\ w \in Workers
      /\ threadsPc[c] = "failed" => native[w] = "new"
      /\ threadsPc[c] = "started" => native[w] \in {"alive", "dead"}
  BY <1>1 DEF StartsRecorded, InStart
<1>5. \A d \in Callers : threadsPc[d] \in InStart /\ d # c => threadsMine[d] # w
  BY <1>1 DEF StartsRecorded, InStart
<1>6. ThreadsTypes'
  BY <1>1, <1>2 DEF ThreadsTypes, Threads!Places
<1>7. LiveIsTracked'
  BY <1>1, <1>4 DEF LiveIsTracked, Threads!LiveIsTracked, Threads!Alive
<1>8. LaunchesKept'
  BY <1>1, <1>4 DEF LaunchesKept
<1>9. StartsRecorded'
  <2>1. threadsPc'[c] \notin InStart
    BY <1>3 DEF InStart
  <2>2. threadsPc'[c] = "retire" => threadsMine[c] \in Workers
        /\ native[threadsMine[c]] \in {"alive", "dead"}
    BY <1>2, <1>3, <1>4
  <2> QED
    BY <1>1, <1>3, <1>5, <2>1, <2>2 DEF StartsRecorded
<1> QED
  BY <1>6, <1>7, <1>8, <1>9

LEMMA CleaningKeeps ==
    ASSUME ThreadsInv, NEW c \in Callers, Threads!Retire(c) \/ Threads!CleanBegins(c)
          \/ Threads!CleanEnds(c)
    PROVE  ThreadsInv'
<1> USE DEF ThreadsInv
<1>1. PICK p \in {"idle", "cleaning"} : threadsPc' = [threadsPc EXCEPT ![c] = p]
  BY DEF Threads!Retire, Threads!CleanBegins, Threads!CleanEnds, Threads!Goto
<1>2. /\ threadsPc'[c] = p /\ \A d \in Callers : d # c => threadsPc'[d] = threadsPc[d]
  BY <1>1 DEF ThreadsTypes
<1>3. UNCHANGED <<native, startingNow, threadsMine>>
  BY DEF Threads!Retire, Threads!CleanBegins, Threads!CleanEnds
<1>4. \A w \in Workers : w \in startingNow \cap pendingStart => w \in pendingStart'
  BY DEF Threads!Retire, Threads!CleanBegins, Threads!CleanEnds
<1>5. \A w \in Workers : w \in tracked /\ (native[w] = "alive"
      \/ (native[w] # "dead" /\ w \in startingNow))
                            => w \in tracked'
  <2>1. CASE Threads!Retire(c)
    <3>1. threadsMine[c] \in Workers /\ native[threadsMine[c]] \in {"alive", "dead"}
      BY <2>1 DEF Threads!Retire, Threads!At, StartsRecorded
    <3> QED
      BY <2>1, <3>1 DEF Threads!Retire, Threads!Alive
  <2>2. CASE Threads!CleanBegins(c) \/ Threads!CleanEnds(c)
    BY <2>2 DEF Threads!CleanBegins, Threads!CleanEnds, Threads!Alive
  <2> QED
    BY <2>1, <2>2
<1>6. \A w \in Workers : native[w] = "launching" =>
        w \in tracked' /\ (w \in startingNow \/ w \in indeterminate')
  <2>1. CASE Threads!Retire(c)
    BY <2>1 DEF Threads!Retire, Threads!At, StartsRecorded, LaunchesKept
  <2>2. CASE Threads!CleanBegins(c) \/ Threads!CleanEnds(c)
    BY <2>2 DEF Threads!CleanBegins, Threads!CleanEnds, LaunchesKept, Threads!NoIdent
  <2> QED
    BY <2>1, <2>2
<1>7. ThreadsTypes'
  BY <1>1, <1>3 DEF ThreadsTypes, Threads!Places
<1>8. LiveIsTracked' /\ LaunchesKept'
  BY <1>3, <1>5, <1>6 DEF LiveIsTracked, Threads!LiveIsTracked, LaunchesKept, Threads!Alive
<1>9. StartsRecorded'
  <2>1. threadsPc'[c] \notin InStart \cup {"retire"}
    BY <1>2 DEF InStart
  <2>2. \A d \in Callers : threadsPc[d] \in InStart =>
          threadsMine[d] \in pendingStart' /\ (threadsPc[d] = "native" =>
                threadsMine[d] \in tracked')
    BY <1>4, <1>5 DEF StartsRecorded
  <2> QED
    BY <1>2, <1>3, <2>1, <2>2 DEF StartsRecorded
<1> QED
  BY <1>7, <1>8, <1>9

LEMMA WorkerKeeps ==
    ASSUME ThreadsInv, NEW w \in Workers, Threads!ComesUp(w) \/ Threads!Ends(w)
    PROVE  ThreadsInv'
<1> USE DEF ThreadsInv
<1>1. PICK l \in {"alive", "dead"} :
        /\ native' = [native EXCEPT ![w] = l]
        /\ native[w] \in {"launching", "alive"}
        /\ w \in tracked
  BY DEF Threads!ComesUp, Threads!Ends, Threads!Live, Threads!Alive, LaunchesKept, LiveIsTracked,
     Threads!LiveIsTracked
<1>2. /\ native'[w] = l /\ \A v \in Workers : v # w => native'[v] = native[v]
      /\ UNCHANGED <<tracked, pendingStart, startingNow, indeterminate, threadsPc, threadsMine>>
  BY <1>1 DEF ThreadsTypes, Threads!ComesUp, Threads!Ends, Threads!registers
<1>3. ThreadsTypes' /\ LiveIsTracked' /\ LaunchesKept'
  BY <1>1, <1>2 DEF ThreadsTypes, Threads!Lives, LiveIsTracked, Threads!LiveIsTracked,
     LaunchesKept, Threads!Alive
<1>4. StartsRecorded'
  BY <1>1, <1>2 DEF StartsRecorded, InStart
<1> QED
  BY <1>3, <1>4

LEMMA ThreadsStep == ThreadsInv /\ [Threads!Next]_(Threads!vars) => ThreadsInv'
<1>1. ThreadsInv /\ UNCHANGED Threads!vars => ThreadsInv'
  BY DEF ThreadsInv, Threads!vars, Threads!registers, ThreadsTypes, StartsRecorded, LaunchesKept,
     LiveIsTracked, Threads!LiveIsTracked, Threads!Alive
<1> QED
  BY <1>1, CreateKeeps, BeginKeeps, NativeStartKeeps, SettleKeeps, CleaningKeeps, WorkerKeeps
  DEF Threads!Next

\* However creations, starts and clean-ups interleave, a worker that runs can be joined by a
\* later clean-up: a start in progress is recorded, an interrupted one is kept, and what is taken
\* off the register is known not to run.
THEOREM LiveStaysTracked == Threads!Spec => []LiveIsTracked
<1>1. ThreadsInv => LiveIsTracked
  BY DEF ThreadsInv
<1> QED
  BY <1>1, InitThreads, ThreadsStep, PTL DEF Threads!Spec

\* Every variable of the register keeps its type, for any callers and workers.
THEOREM RegisterTypesHold == Threads!Spec => []Threads!TypeOK
<1> DEFINE Rest == {tracked, pendingStart, startingNow, indeterminate} \subseteq SUBSET Workers
                   /\ cleanedUp \in BOOLEAN
<1>1. Threads!Init => Rest
  BY DEF Threads!Init
<1>2. ASSUME ThreadsInv, Rest, [Threads!Next]_(Threads!vars) PROVE Rest'
  <2>1. CASE UNCHANGED Threads!vars
    BY <1>2, <2>1 DEF Threads!vars, Threads!registers
  <2>2. ASSUME NEW c \in Callers, NEW w \in Workers, Threads!Create(c, w) \/ Threads!Begin(c, w)
        PROVE  Rest'
    BY <1>2, <2>2 DEF Threads!Create, Threads!Begin
  <2>3. ASSUME NEW c \in Callers, Threads!Settle(c) PROVE Rest'
    <3>1. threadsMine[c] \in Workers
      BY <1>2, <2>3 DEF Threads!Settle, ThreadsInv, StartsRecorded, InStart
    <3>2. /\ tracked' \subseteq tracked /\ pendingStart' \subseteq pendingStart
          /\ startingNow' \subseteq startingNow /\ cleanedUp' = cleanedUp
          /\ indeterminate' \subseteq indeterminate \cup {threadsMine[c]}
      BY <2>3 DEF Threads!Settle
    <3> QED
      BY <1>2, <3>1, <3>2
  <2>4. ASSUME NEW c \in Callers,
               \/ Threads!NativeStart(c) \/ Threads!Retire(c)
               \/ Threads!CleanBegins(c) \/ Threads!CleanEnds(c)
        PROVE  Rest'
    <3>1. /\ tracked' \subseteq tracked /\ pendingStart' \subseteq pendingStart
          /\ startingNow' = startingNow /\ cleanedUp' \in {cleanedUp, TRUE}
          /\ indeterminate' \subseteq indeterminate
      BY <2>4 DEF Threads!NativeStart, Threads!Retire, Threads!CleanBegins, Threads!CleanEnds,
         Threads!registers
    <3> QED
      BY <1>2, <3>1
  <2>5. ASSUME NEW w \in Workers, Threads!ComesUp(w) \/ Threads!Ends(w) PROVE Rest'
    BY <1>2, <2>5 DEF Threads!ComesUp, Threads!Ends, Threads!registers
  <2> QED
    BY <1>2, <2>1, <2>2, <2>3, <2>4, <2>5 DEF Threads!Next
<1>3. ThreadsInv /\ Rest => Threads!TypeOK
  BY DEF ThreadsInv, ThreadsTypes, Threads!TypeOK
<1> QED
  BY <1>1, <1>2, <1>3, InitThreads, ThreadsStep, PTL DEF Threads!Spec

----------------------------------------------------------------------------
(* The receive threads.                                                    *)

Plans == [existing : Receive!Receivers \cup {Receive!None}, pending : BOOLEAN,
          since : {"none", "fresh", "old"},
          what : Receive!Decisions, new : Receive!Receivers \cup {Receive!None}]
ReceiveTypes ==
    /\ receiver \in Receive!Receivers \cup {Receive!None}
    /\ life \in [Receive!Receivers -> {"none", "new", "alive", "dead"}]
    /\ receiveAt \in [Receive!Starters -> Receive!Places]
    /\ plan \in [Receive!Starters -> Plans]
    /\ receivePending \in BOOLEAN /\ since \in {"none", "fresh", "old"}

\* Only the thread on record is being started or lives; it recovers by leaving the start of
\* its successor to the helper, and ends only when that waits for it.
Looping == {"loop", "state", "read", "drop", "dropped", "recover", "recheck", "withdrawn",
            "throttle", "close", "look", "decide", "schedule"}
OneReceiver ==
    /\ receiver # Receive!None => life[receiver] # "none"
    /\ \A t \in Receive!Receivers :
         /\ life[t] \in {"new", "alive"} => receiver = t
         /\ life[t] = "alive" <=> receiveAt[t] # "idle"
         /\ receiveAt[t] \in Looping \cup {"idle", "leave"}
         /\ receiveAt[t] \in {"decide", "schedule"} =>
              plan[t].existing = t /\ plan[t].what \in {"defer", "deferTimeout"}
         /\ receiveAt[t] = "leave" => receiveAt[Helper] = "wait" /\ target = t

\* A starter that has found no thread is alone with its start.
Starting(s) ==
    /\ receiveAt[s] \in {"register", "failed", "again"} => receiver = Receive!None
    /\ receiveAt[s] = "register" => plan[s].existing = Receive!None
    /\ receiveAt[s] \in {"launch", "native"} =>
         receiver # Receive!None /\ receiver = plan[s].new /\ life[receiver] = "new"
    /\ receiveAt[s] = "confirm" => receiver # Receive!None /\ receiver = plan[s].new
         /\ life[receiver] = "alive"

\* The constructor is done with the first start before there is a client.
FirstStart ==
    /\ receiveAt[Main] \in {"look", "decide", "register", "launch", "native", "confirm", "close",
         "idle"}
    /\ receiveAt[Main] \in {"look", "decide"} => receiver = Receive!None
    /\ receiveAt[Main] = "decide" => plan[Main].existing = Receive!None
         /\ plan[Main].what = "proceed"
    /\ receiveAt[Main] \notin {"idle", "close"} =>
         /\ client = Receive!None /\ receiveAt[Helper] = "idle"
         /\ \A t \in Receive!Receivers : receiveAt[t] \in {"idle", "loop", "state"}

\* The helper is needed when nobody lives, and is on its way until somebody does.
Helping ==
    /\ receiveAt[Helper] \in {"idle", "wait", "look", "decide", "register", "launch", "native",
                       "confirm", "finish", "failed", "again"}
    /\ inflight <=> receiveAt[Helper] \notin {"idle", "again"}
    /\ ~strict
    /\ receiveAt[Helper] = "idle" => receiveAt[Main] # "idle" \/ Receive!Alive(receiver)
    /\ receiveAt[Helper] = "finish" => Receive!Alive(receiver)
    /\ receiveAt[Helper] = "wait" /\ Receive!Alive(receiver) => receiveAt[receiver] = "leave"
    /\ receiveAt[Helper] \in {"wait", "look", "decide"} => receiver = Receive!None
         \/ life[receiver] # "new"
    /\ receiveAt[Helper] \in {"look", "decide"} => ~Receive!Alive(receiver)
    /\ receiveAt[Helper] = "decide" =>
         /\ plan[Helper].existing = receiver
         /\ plan[Helper].what = IF receiver = Receive!None THEN "proceed" ELSE "replace"

Attended == AutoReconnect /\ ~receiveClosed /\ ~unheard
Core == /\ wanted /\ ReceiveTypes /\ OneReceiver /\ Starting(Main) /\ Starting(Helper)
        /\ FirstStart /\ Helping
ReceiveInv == Attended => Core

LEMMA ThreadNumbers ==
    /\ Receive!None \notin Receive!Receivers /\ Main # Helper /\ Main \notin Receive!Receivers
    /\ Helper \notin Receive!Receivers
    /\ Main \in Receive!Starters /\ Helper \in Receive!Starters
    /\ Receive!Receivers \subseteq Receive!Starters
    /\ Receive!Starters = Receive!Receivers \cup {Main, Helper}
  BY ServicesAssumption DEF Receive!Receivers, Receive!None, Receive!Starters

LEMMA InitReceive == Receive!Init => ReceiveInv
<1> SUFFICES ASSUME Receive!Init PROVE Core
  BY DEF ReceiveInv
<1> USE ThreadNumbers DEF Receive!Init
<1>1. ReceiveTypes
  BY DEF ReceiveTypes, Plans, Receive!Places, Receive!StartPlaces, Receive!LoopPlaces,
     Receive!HelperPlaces, Receive!NoPlan, Receive!Decisions
<1>2. OneReceiver /\ Starting(Main) /\ Starting(Helper) /\ FirstStart
  BY DEF OneReceiver, Starting, FirstStart
<1>3. Helping
  BY DEF Helping
<1> QED
  BY <1>1, <1>2, <1>3 DEF Core

\* An attended interface stays wanted and open.
LEMMA AttendedRuns == Core /\ Attended => Receive!Running
  BY DEF Core, Attended, Receive!Running

\* A thread that is somewhere lives and is the one on record.
LEMMA OnRecord ==
    ASSUME Core, NEW t \in Receive!Receivers, receiveAt[t] # "idle"
    PROVE  /\ receiver = t /\ life[t] = "alive" /\ Receive!Alive(t)
           /\ receiveAt[t] # "leave" => receiveAt[Helper] \notin
                {"wait", "look", "decide", "register", "launch", "native", "failed", "again"}
           /\ \A u \in Receive!Receivers : u # t => receiveAt[u] = "idle"
<1> USE ThreadNumbers DEF Core
<1>1. life[t] = "alive" /\ receiver = t /\ Receive!Alive(t)
  BY DEF OneReceiver, Receive!Alive
<1>2. \A u \in Receive!Receivers : u # t => receiveAt[u] = "idle"
  BY <1>1 DEF OneReceiver
<1>3. receiveAt[t] # "leave" => receiveAt[Helper] \notin {"wait", "look", "decide"}
  BY <1>1 DEF Helping
<1>4. receiveAt[Helper] \notin {"register", "launch", "native", "failed", "again"}
  BY <1>1 DEF Starting
<1> QED
  BY <1>1, <1>2, <1>3, <1>4

\* The thread on record goes on, short of its end.
LEMMA LoopMoves ==
    ASSUME Core, NEW t \in Receive!Receivers, receiveAt[t] \notin {"idle", "leave"},
           NEW q \in Looping,
           receiveAt' = [receiveAt EXCEPT ![t] = q],
           q \in {"decide", "schedule"} =>
              plan'[t].existing = t /\ plan'[t].what \in {"defer", "deferTimeout"},
           UNCHANGED <<receiver, life, Receive!helpVars, wanted>>,
           receivePending' \in BOOLEAN, since' \in {"none", "fresh", "old"},
           ReceiveTypes => plan' \in [Receive!Starters -> Plans],
           plan'[Main] = plan[Main], plan'[Helper] = plan[Helper],
           receiveAt[Main] \notin {"idle", "close"} => client' = client /\ q \in {"loop", "state"}
    PROVE  Core'
<1> USE ThreadNumbers DEF Core, Receive!helpVars
<1>1. /\ receiver = t /\ life[t] = "alive" /\ Receive!Alive(t)
      /\ receiveAt[Helper] \notin {"wait", "look", "decide", "register", "launch", "native",
           "failed",
                            "again"}
      /\ \A u \in Receive!Receivers : u # t => receiveAt[u] = "idle"
  BY OnRecord
<1>2. /\ receiveAt'[t] = q /\ receiveAt'[Main] = receiveAt[Main]
      /\ receiveAt'[Helper] = receiveAt[Helper]
      /\ \A u \in Receive!Receivers : u # t => receiveAt'[u] = receiveAt[u]
  BY DEF ReceiveTypes
<1>3. ReceiveTypes'
  BY DEF ReceiveTypes, Looping, Receive!Places, Receive!StartPlaces, Receive!LoopPlaces
<1>4. OneReceiver'
  BY <1>1, <1>2 DEF OneReceiver, Looping
<1>5. Starting(Main)' /\ Starting(Helper)'
  BY <1>1, <1>2 DEF Starting
<1>6. FirstStart'
  BY <1>1, <1>2 DEF FirstStart
<1>7. Helping'
  BY <1>1, <1>2 DEF Helping, Receive!Alive
<1> QED
  BY <1>3, <1>4, <1>5, <1>6, <1>7

\* The read loop and the recovery.
LEMMA ReceiveMoves ==
    ASSUME Core, Attended, Attended', NEW t \in Receive!Receivers, Receive!Receive(t),
          ~Receive!Leave(t)
    PROVE  Core'
<1> USE ThreadNumbers
<1>1. Receive!Running /\ ~receiveClosed /\ Receive!GoesOn
  BY AttendedRuns DEF Attended, Receive!GoesOn
<1>2. UNCHANGED <<receiver, receivePending, since, life, plan, Receive!helpVars>>
  BY DEF Receive!Receive, Receive!Top, Receive!State, Receive!ReadReturns, Receive!ReadFails,
     Receive!Drop, Receive!Dropped, Receive!Unwant, Receive!HandlerRaises, Receive!Recover,
     Receive!Recheck, Receive!Withdrawn, Receive!Throttle, Receive!startVars
<1>3. receiveAt[t] \in Looping \cup {"idle", "leave"}
  BY DEF Core, OneReceiver
<1>4. receiveAt[t] \notin {"idle", "leave", "unwant"}
  BY <1>3 DEF Receive!Receive, Receive!Top, Receive!State, Receive!ReadReturns, Receive!ReadFails,
     Receive!Drop, Receive!Dropped, Receive!Unwant, Receive!HandlerRaises, Receive!Recover,
     Receive!Recheck, Receive!Withdrawn, Receive!Throttle, Looping, Receive!At
<1>5. wanted' = wanted
  BY <1>1, <1>4 DEF Receive!Receive, Receive!Top, Receive!State, Receive!ReadReturns,
     Receive!ReadFails, Receive!Drop, Receive!Dropped, Receive!Unwant, Receive!HandlerRaises,
     Receive!Recover, Receive!Recheck, Receive!Withdrawn, Receive!Throttle, Receive!sessionVars,
     Receive!At, Receive!Running
<1>6. PICK q \in Looping \ {"decide", "schedule"} : receiveAt' = [receiveAt EXCEPT ![t] = q]
  BY <1>1, <1>4 DEF Receive!Receive, Receive!Top, Receive!State, Receive!ReadReturns,
     Receive!ReadFails, Receive!Drop, Receive!Dropped, Receive!Unwant, Receive!HandlerRaises,
     Receive!Recover, Receive!Recheck, Receive!Withdrawn, Receive!Throttle, Receive!At,
     Receive!Goto, Looping
<1>7. receiveAt[Main] \notin {"idle", "close"} => client' = client /\ q \in {"loop", "state"}
  <2> SUFFICES ASSUME receiveAt[Main] \notin {"idle", "close"}
               PROVE  client' = client /\ q \in {"loop", "state"}
    OBVIOUS
  <2>1. receiveAt[t] \in {"loop", "state"} /\ client = Receive!None
    BY <1>4 DEF Core, FirstStart
  <2>2. receiveAt'[t] \in {"loop", "state"} /\ client' = client
    BY <1>1, <2>1 DEF Receive!Receive, Receive!Top, Receive!State, Receive!ReadReturns,
       Receive!ReadFails, Receive!Drop, Receive!Dropped, Receive!Unwant, Receive!HandlerRaises,
       Receive!Recover, Receive!Recheck, Receive!Withdrawn, Receive!Throttle, Receive!At,
       Receive!Goto, Receive!sessionVars, Core, ReceiveTypes
  <2> QED
    BY <1>6, <2>2 DEF Core, ReceiveTypes
<1>8. receivePending' \in BOOLEAN /\ since' \in {"none", "fresh", "old"}
      /\ (ReceiveTypes => plan' \in [Receive!Starters -> Plans])
  BY <1>2 DEF Core, ReceiveTypes
<1> QED
  BY <1>2, <1>4, <1>5, <1>6, <1>7, <1>8, LoopMoves

\* A thread dies only when the helper waits for that.
LEMMA LeaveMoves ==
    ASSUME Core, NEW t \in Receive!Receivers, Receive!Leave(t)
    PROVE  Core'
<1> USE ThreadNumbers DEF Core, Receive!helpVars
<1>1. /\ receiveAt[t] = "leave" /\ receiveAt' = [receiveAt EXCEPT ![t] = "idle"]
      /\ life' = [life EXCEPT ![t] = "dead"]
      /\ UNCHANGED <<wanted, client, receiver, receivePending, since, plan, Receive!helpVars>>
  BY DEF Receive!Leave, Receive!At, Receive!Goto, Receive!sessionVars, Receive!startVars
<1>2. /\ receiver = t /\ receiveAt[Helper] = "wait"
      /\ \A u \in Receive!Receivers : u # t => receiveAt[u] = "idle"
  BY <1>1, OnRecord DEF OneReceiver
<1>3. /\ receiveAt'[t] = "idle" /\ receiveAt'[Main] = receiveAt[Main]
      /\ receiveAt'[Helper] = receiveAt[Helper] /\ life'[t] = "dead"
      /\ \A u \in Receive!Receivers : u # t => receiveAt'[u] = receiveAt[u] /\ life'[u] = life[u]
  BY <1>1 DEF ReceiveTypes
<1>4. ReceiveTypes'
  BY <1>1 DEF ReceiveTypes, Receive!Places
<1>5. OneReceiver'
  BY <1>1, <1>2, <1>3 DEF OneReceiver
<1>6. Starting(Main)' /\ Starting(Helper)'
  BY <1>1, <1>2, <1>3 DEF Starting, FirstStart
<1>7. FirstStart'
  BY <1>1, <1>2, <1>3 DEF FirstStart
<1>8. Helping'
  BY <1>1, <1>2, <1>3 DEF Helping, Receive!Alive
<1> QED
  BY <1>1, <1>4, <1>5, <1>6, <1>7, <1>8

\* A receiver that has lost its loop asks the helper for its successor.
LEMMA RecoverMoves ==
    ASSUME Core, Attended, Attended', NEW t \in Receive!Receivers, Receive!Start(t)
    PROVE  Core'
<1> USE ThreadNumbers
<1>1. Receive!Running /\ ~receiveClosed
  BY AttendedRuns DEF Attended
<1>2. receiveAt[t] \in {"look", "decide", "schedule"}
  BY DEF Receive!Start, Receive!Look, Receive!Decide, Receive!Schedule, Receive!Register,
     Receive!Launch, Receive!NativeStart, Receive!StartFails, Receive!Confirm, Receive!At, Core,
     OneReceiver, Looping
<1>3. receiver = t /\ Receive!Alive(t) /\ \A u \in Receive!Receivers : u # t =>
      receiveAt[u] = "idle"
  BY <1>2, OnRecord
<1>4. receiveAt[Main] \in {"idle", "close"}
  BY <1>2 DEF Core, FirstStart
<1>5. CASE Receive!Look(t)
  <2> DEFINE p == [existing |-> receiver, pending |-> receivePending, since |-> since,
                   what |-> Receive!Decision(t), new |-> Receive!None]
  <2>1. /\ receiveAt[t] = "look" /\ receiveAt' = [receiveAt EXCEPT ![t] = "decide"]
        /\ plan' = [plan EXCEPT ![t] = p]
        /\ UNCHANGED <<Receive!sessionVars, Receive!startVars, life, Receive!helpVars>>
    BY <1>1, <1>5 DEF Receive!Look, Receive!At, Receive!Goto
  <2>2. Receive!Decision(t) \in {"defer", "deferTimeout"}
        /\ {"defer", "deferTimeout"} \subseteq Receive!Decisions
    BY <1>3 DEF Receive!Decision, Receive!Decisions
  <2>3. p.existing = t /\ p.what \in {"defer", "deferTimeout"}
    BY <1>3, <2>2
  <2>4. ReceiveTypes => p \in Plans
    BY <2>2 DEF ReceiveTypes, Plans
  <2> HIDE DEF p
  <2>5. /\ plan'[t] = p /\ plan'[Main] = plan[Main] /\ plan'[Helper] = plan[Helper]
        /\ ReceiveTypes => plan' \in [Receive!Starters -> Plans]
    BY <2>1, <2>4 DEF Core, ReceiveTypes
  <2>6. receivePending' \in BOOLEAN /\ since' \in {"none", "fresh", "old"}
        /\ UNCHANGED <<receiver, wanted>>
    BY <2>1 DEF Core, ReceiveTypes, Receive!startVars, Receive!sessionVars
  <2> QED
    BY <1>4, <2>1, <2>3, <2>5, <2>6, LoopMoves DEF Looping
<1>6. CASE Receive!Decide(t)
  <2>1. plan[t].existing = t /\ plan[t].what \in {"defer", "deferTimeout"}
        /\ receiveAt[t] = "decide"
    BY <1>6 DEF Receive!Decide, Receive!At, Core, OneReceiver
  <2>2. PICK q \in {"look", "schedule"} : receiveAt' = [receiveAt EXCEPT ![t] = q]
    BY <1>6, <2>1 DEF Receive!Decide, Receive!Goto, Attended
  <2>3. UNCHANGED <<Receive!sessionVars, life, Receive!helpVars, receiver, plan>>
    BY <1>6, <2>1 DEF Receive!Decide, Receive!startVars
  <2>4. receivePending' \in BOOLEAN /\ since' \in {"none", "fresh", "old"}
    BY <1>6, <2>1 DEF Receive!Decide, Receive!NotPending, Receive!startVars, Core, ReceiveTypes
  <2>5. UNCHANGED wanted
    BY <2>3 DEF Receive!sessionVars
  <2>6. ReceiveTypes => plan' \in [Receive!Starters -> Plans]
    BY <2>3 DEF ReceiveTypes
  <2> QED
    BY <1>4, <2>1, <2>2, <2>3, <2>4, <2>5, <2>6, LoopMoves DEF Looping
<1>7. CASE Receive!Schedule(t)
  <2>1. plan[t].existing = t /\ plan[t].what \in {"defer", "deferTimeout"}
        /\ receiveAt[t] = "schedule"
    BY <1>7 DEF Receive!Schedule, Receive!At, Core, OneReceiver
  <2>2. /\ ~inflight /\ inflight' = TRUE /\ target' = t /\ strict' = FALSE
        /\ receiveAt' = [receiveAt EXCEPT ![t] = "leave", ![Helper] = "wait"]
        /\ UNCHANGED <<Receive!sessionVars, Receive!startVars, life, plan>>
    BY <1>7, <2>1 DEF Receive!Schedule, Attended
  <2>3. receiveAt'[t] = "leave" /\ receiveAt'[Helper] = "wait" /\ receiveAt'[Main] = receiveAt[Main]
        /\ \A u \in Receive!Receivers : u # t => receiveAt'[u] = receiveAt[u]
    BY <2>2 DEF Core, ReceiveTypes
  <2>4. UNCHANGED <<wanted, client, receiver, receivePending, since, life, plan>>
    BY <2>2 DEF Receive!sessionVars, Receive!startVars
  <2>5. ReceiveTypes'
    BY <2>2, <2>4 DEF Core, ReceiveTypes, Receive!Places, Receive!LoopPlaces, Receive!HelperPlaces
  <2>6. OneReceiver'
    <3>1. \A u \in Receive!Receivers : u # t => receiveAt'[u] = "idle" /\ receiveAt[u] = "idle"
      BY <1>3, <2>3
    <3>2. life[t] = "alive" /\ t # Receive!None
      BY <1>3 DEF Receive!Alive
    <3>3. target' = t /\ receiveAt'[t] = "leave" /\ receiveAt'[Helper] = "wait" /\ receiver = t
      BY <1>3, <2>2, <2>3
    <3>4. \A u \in Receive!Receivers : u # t => life[u] \notin {"new", "alive"}
      BY <3>1, <3>3 DEF Core, OneReceiver
    <3> QED
      BY <2>4, <3>1, <3>2, <3>3, <3>4 DEF OneReceiver
  <2>7. Starting(Main)' /\ Starting(Helper)'
    BY <1>4, <2>3, <2>4 DEF Core, Starting
  <2>8. FirstStart'
    BY <1>4, <2>3, <2>4 DEF Core, FirstStart
  <2>9. Helping'
    BY <1>3, <2>2, <2>3, <2>4 DEF Core, Helping, Receive!Alive
  <2> QED
    BY <2>4, <2>5, <2>6, <2>7, <2>8, <2>9 DEF Core
<1> QED
  BY <1>2, <1>5, <1>6, <1>7
  DEF Receive!Start, Receive!Look, Receive!Decide, Receive!Schedule, Receive!Register,
     Receive!Launch, Receive!NativeStart, Receive!StartFails, Receive!Confirm, Receive!At

----------------------------------------------------------------------------
(* The first start and those of the helper.                                *)

\* A starter other than a receiver looks for a thread and decides.
LEMMA LookMoves ==
    ASSUME Core, Attended, Attended', NEW s \in {Main, Helper}, Receive!Look(s) \/ Receive!Decide(s)
    PROVE  Core'
<1> USE ThreadNumbers
<1>1. Receive!Running
  BY AttendedRuns
<1>2. receiveAt[s] \in {"look", "decide"} /\ ~Receive!Alive(receiver)
      /\ (receiver = Receive!None \/ life[receiver] = "dead")
  BY DEF Receive!Look, Receive!Decide, Receive!At, Core, FirstStart, Helping, Receive!Alive,
     OneReceiver, ReceiveTypes
<1>3. \A t \in Receive!Receivers : receiveAt[t] = "idle" /\ life[t] \in {"none", "dead"}
  BY <1>2 DEF Core, OneReceiver, ReceiveTypes, Receive!Alive
<1>4. s = Helper => receiveAt[Main] \in {"idle", "close"}
  BY <1>2 DEF Core, FirstStart
<1>5. s = Main => receiveAt[Helper] = "idle" /\ client = Receive!None /\ receiver = Receive!None
  BY <1>2 DEF Core, FirstStart
<1>6. CASE Receive!Look(s)
  <2> DEFINE p == [existing |-> receiver, pending |-> receivePending, since |-> since,
                   what |-> Receive!Decision(s), new |-> Receive!None]
  <2>1. /\ receiveAt[s] = "look" /\ receiveAt' = [receiveAt EXCEPT ![s] = "decide"]
        /\ plan' = [plan EXCEPT ![s] = p]
        /\ UNCHANGED <<Receive!sessionVars, Receive!startVars, life, Receive!helpVars>>
    BY <1>1, <1>6 DEF Receive!Look, Receive!At, Receive!Goto
  <2>2. Receive!Decision(s) = IF receiver = Receive!None THEN "proceed" ELSE "replace"
    BY <1>2 DEF Receive!Decision, Core, ReceiveTypes
  <2>3. p \in Plans
    BY <2>2 DEF Core, ReceiveTypes, Plans, Receive!Decisions
  <2>4. p.existing = receiver /\ p.what = IF receiver = Receive!None THEN "proceed" ELSE "replace"
    BY <2>2
  <2> HIDE DEF p
  <2>5. /\ plan'[s] = p /\ receiveAt'[s] = "decide"
        /\ \A u \in Receive!Starters : u # s => plan'[u] = plan[u] /\ receiveAt'[u] = receiveAt[u]
        /\ plan' \in [Receive!Starters -> Plans]
    BY <2>1, <2>3 DEF Core, ReceiveTypes
  <2>6. UNCHANGED <<wanted, client, receiver, receivePending, since, life, inflight, target,
                    strict>>
    BY <2>1 DEF Receive!sessionVars, Receive!startVars, Receive!helpVars
  <2>7. ReceiveTypes'
    BY <2>1, <2>5, <2>6 DEF Core, ReceiveTypes, Receive!Places, Receive!StartPlaces
  <2>8. OneReceiver'
    BY <1>3, <2>5, <2>6 DEF Core, OneReceiver
  <2>9. Starting(Main)' /\ Starting(Helper)'
    BY <2>5, <2>6 DEF Core, Starting
  <2>10. FirstStart'
    BY <1>3, <1>4, <1>5, <2>1, <2>4, <2>5, <2>6 DEF Core, FirstStart
  <2>11. Helping'
    BY <1>2, <1>5, <2>1, <2>4, <2>5, <2>6 DEF Core, Helping, Receive!Alive
  <2> QED
    BY <2>6, <2>7, <2>8, <2>9, <2>10, <2>11 DEF Core
<1>7. CASE Receive!Decide(s)
  <2>1. /\ receiveAt[s] = "decide" /\ plan[s].existing = receiver
        /\ plan[s].what = IF receiver = Receive!None THEN "proceed" ELSE "replace"
    BY <1>2, <1>7 DEF Receive!Decide, Receive!At, Core, FirstStart, Helping
  <2>2. UNCHANGED <<wanted, client, life, inflight, target, strict>>
    BY <1>7 DEF Receive!Decide, Receive!sessionVars, Receive!helpVars
  <2>3. PICK q \in {"look", "register"} : receiveAt' = [receiveAt EXCEPT ![s] = q]
    BY <1>7, <2>1 DEF Receive!Decide, Receive!Goto
  <2>4. receiveAt'[s] = q /\ \A u \in Receive!Starters : u # s => receiveAt'[u] = receiveAt[u]
    BY <2>3 DEF Core, ReceiveTypes
  <2>5. q = "look" => UNCHANGED <<receiver, receivePending, since, plan>>
    <3>1. q = "look" => receiveAt'[s] # "register"
      BY <2>4
    <3> QED
      BY <1>7, <2>1, <2>4, <3>1 DEF Receive!Decide, Receive!Goto, Receive!startVars, Core,
         ReceiveTypes
  <2>6. q = "register" => /\ receiver' = Receive!None
                          /\ plan' = [plan EXCEPT ![s].existing = Receive!None]
                          /\ receivePending' \in BOOLEAN /\ since' \in {"none", "fresh", "old"}
    <3>1. q = "register" => receiveAt'[s] # "look"
      BY <2>4
    <3> QED
      BY <1>7, <2>1, <2>4, <3>1 DEF Receive!Decide, Receive!Goto, Receive!NotPending,
         Receive!startVars, Core, ReceiveTypes
  <2>7. /\ \A u \in Receive!Starters : u # s => plan'[u] = plan[u]
        /\ q = "register" => plan'[s].existing = Receive!None
        /\ plan' \in [Receive!Starters -> Plans]
    BY <2>3, <2>5, <2>6 DEF Core, ReceiveTypes, Plans
  <2>8. ReceiveTypes'
    BY <2>2, <2>3, <2>5, <2>6, <2>7 DEF Core, ReceiveTypes, Receive!Places, Receive!StartPlaces
  <2>9. OneReceiver'
    BY <1>3, <2>2, <2>3, <2>4, <2>5, <2>6 DEF Core, OneReceiver
  <2>10. Starting(Main)' /\ Starting(Helper)'
    BY <1>4, <1>5, <2>2, <2>3, <2>4, <2>5, <2>6, <2>7 DEF Core, Starting
  <2>11. FirstStart'
    BY <1>3, <1>4, <1>5, <2>2, <2>3, <2>4, <2>5, <2>6, <2>7 DEF Core, FirstStart
  <2>12. Helping'
    BY <1>2, <1>5, <2>1, <2>2, <2>3, <2>4, <2>5, <2>6, <2>7 DEF Core, Helping, Receive!Alive
  <2> QED
    BY <2>2, <2>8, <2>9, <2>10, <2>11, <2>12 DEF Core
<1> QED
  BY <1>6, <1>7

\* What a starter knows while it starts a thread.
LEMMA StarterAlone ==
    ASSUME Core, NEW s \in {Main, Helper},
           receiveAt[s] \in {"register", "launch", "native"}
    PROVE  /\ \A t \in Receive!Receivers : receiveAt[t] = "idle" /\ life[t] # "alive"
           /\ \A t \in Receive!Receivers : life[t] = "new" => receiver = t
           /\ s = Helper => receiveAt[Main] \in {"idle", "close"}
           /\ s = Main => receiveAt[Helper] = "idle" /\ client = Receive!None
  BY ThreadNumbers DEF Core, OneReceiver, Starting, FirstStart

\* A thread is created and published where none is on record.
LEMMA RegisterMoves ==
    ASSUME Core, Attended, Attended', NEW s \in {Main, Helper}, Receive!Register(s)
    PROVE  Core'
<1> USE ThreadNumbers
<1>1. receiveAt[s] = "register" /\ receiver = Receive!None /\ plan[s].existing = Receive!None
      /\ Receive!Running
  BY AttendedRuns DEF Receive!Register, Receive!At, Core, Starting
<1>2. PICK t \in Receive!Receivers :
        /\ life[t] = "none"
        /\ receiver' = t /\ receivePending' = TRUE /\ since' = "fresh"
        /\ life' = [life EXCEPT ![t] = "new"]
        /\ plan' = [plan EXCEPT ![s].new = t]
        /\ receiveAt' = [receiveAt EXCEPT ![s] = "launch"]
  BY <1>1 DEF Receive!Register, Receive!Alive, Receive!Goto
<1>3. UNCHANGED <<wanted, client, inflight, target, strict>>
  BY DEF Receive!Register, Receive!sessionVars, Receive!helpVars
<1>4. /\ receiveAt'[s] = "launch" /\ \A u \in Receive!Starters : u # s =>
           receiveAt'[u] = receiveAt[u] /\ plan'[u] = plan[u]
      /\ life'[t] = "new" /\ \A u \in Receive!Receivers : u # t => life'[u] = life[u]
      /\ plan'[s].new = t
  BY <1>2 DEF Core, ReceiveTypes, Plans
<1>5. /\ \A u \in Receive!Receivers : receiveAt[u] = "idle" /\ life[u] # "alive" /\ life[u] # "new"
      /\ s = Helper => receiveAt[Main] \in {"idle", "close"}
      /\ s = Main => receiveAt[Helper] = "idle" /\ client = Receive!None
  BY <1>1, StarterAlone
<1>6. ReceiveTypes'
  BY <1>2 DEF Core, ReceiveTypes, Plans, Receive!Places, Receive!StartPlaces
<1>7. OneReceiver'
  BY <1>2, <1>4, <1>5 DEF Core, OneReceiver
<1>8. Starting(Main)' /\ Starting(Helper)'
  BY <1>2, <1>4, <1>5 DEF Core, Starting
<1>9. FirstStart'
  BY <1>3, <1>4, <1>5 DEF Core, FirstStart
<1>10. Helping'
  BY <1>1, <1>2, <1>3, <1>4, <1>5 DEF Core, Helping, Receive!Alive
<1> QED
  BY <1>3, <1>6, <1>7, <1>8, <1>9, <1>10 DEF Core

LEMMA LaunchMoves ==
    ASSUME Core, Attended, Attended', NEW s \in {Main, Helper}, Receive!Launch(s)
    PROVE  Core'
<1> USE ThreadNumbers
<1>1. receiveAt[s] = "launch" /\ receiver = plan[s].new /\ Receive!Running
  BY AttendedRuns DEF Receive!Launch, Receive!At, Core, Starting
<1>2. /\ receiveAt' = [receiveAt EXCEPT ![s] = "native"]
      /\ UNCHANGED <<wanted, client, receiver, receivePending, since, life, plan, inflight, target,
                     strict>>
  BY <1>1 DEF Receive!Launch, Receive!Goto, Receive!sessionVars, Receive!startVars,
     Receive!helpVars
<1>3. receiveAt'[s] = "native" /\ \A u \in Receive!Starters : u # s => receiveAt'[u] = receiveAt[u]
  BY <1>2 DEF Core, ReceiveTypes
<1>4. /\ \A u \in Receive!Receivers : receiveAt[u] = "idle" /\ life[u] # "alive"
      /\ s = Helper => receiveAt[Main] \in {"idle", "close"}
      /\ s = Main => receiveAt[Helper] = "idle" /\ client = Receive!None
  BY <1>1, StarterAlone
<1>5. ReceiveTypes'
  BY <1>2 DEF Core, ReceiveTypes, Receive!Places, Receive!StartPlaces
<1>6. OneReceiver'
  BY <1>2, <1>3, <1>4 DEF Core, OneReceiver
<1>7. Starting(Main)' /\ Starting(Helper)'
  BY <1>1, <1>2, <1>3 DEF Core, Starting
<1>8. FirstStart'
  BY <1>2, <1>3, <1>4 DEF Core, FirstStart
<1>9. Helping'
  BY <1>1, <1>2, <1>3, <1>4 DEF Core, Helping, Receive!Alive
<1> QED
  BY <1>2, <1>5, <1>6, <1>7, <1>8, <1>9 DEF Core

\* The thread comes up, at the top of its loop.
LEMMA NativeMoves ==
    ASSUME Core, Attended, Attended', NEW s \in {Main, Helper}, Receive!NativeStart(s)
    PROVE  Core'
<1> USE ThreadNumbers
<1> DEFINE t == receiver
<1>1. receiveAt[s] = "native" /\ t = plan[s].new /\ t \in Receive!Receivers /\ life[t] = "new"
  BY DEF Receive!NativeStart, Receive!At, Core, Starting, ReceiveTypes
<1>2. /\ life' = [life EXCEPT ![t] = "alive"]
      /\ receiveAt' = [receiveAt EXCEPT ![s] = "confirm", ![t] = "loop"]
      /\ UNCHANGED <<wanted, client, receiver, receivePending, since, plan, inflight, target,
                     strict>>
  BY <1>1 DEF Receive!NativeStart, Attended, Receive!sessionVars, Receive!startVars,
     Receive!helpVars
<1>3. /\ receiveAt'[s] = "confirm" /\ receiveAt'[t] = "loop"
      /\ \A u \in Receive!Starters : u \notin {s, t} => receiveAt'[u] = receiveAt[u]
      /\ life'[t] = "alive" /\ \A u \in Receive!Receivers : u # t => life'[u] = life[u]
  BY <1>1, <1>2 DEF Core, ReceiveTypes
<1>4. /\ \A u \in Receive!Receivers : receiveAt[u] = "idle" /\ life[u] # "alive"
      /\ \A u \in Receive!Receivers : life[u] = "new" => t = u
      /\ s = Helper => receiveAt[Main] \in {"idle", "close"}
      /\ s = Main => receiveAt[Helper] = "idle" /\ client = Receive!None
  BY <1>1, StarterAlone
<1>5. ReceiveTypes'
  BY <1>1, <1>2 DEF Core, ReceiveTypes, Receive!Places, Receive!StartPlaces, Receive!LoopPlaces
<1>6. OneReceiver'
  <2>1. \A u \in Receive!Receivers : u # t => receiveAt'[u] = "idle"
        /\ life'[u] \notin {"new", "alive"}
    BY <1>3, <1>4
  <2> QED
    BY <1>1, <1>2, <1>3, <2>1 DEF OneReceiver, Looping
<1>7. Starting(Main)' /\ Starting(Helper)'
  BY <1>1, <1>2, <1>3, <1>4 DEF Core, Starting
<1>8. FirstStart'
  BY <1>1, <1>2, <1>3, <1>4 DEF Core, FirstStart
<1>9. Helping'
  BY <1>1, <1>2, <1>3, <1>4 DEF Core, Helping, Receive!Alive
<1> QED
  BY <1>2, <1>5, <1>6, <1>7, <1>8, <1>9 DEF Core

\* The start raises: the constructor closes, the helper tries again.
LEMMA FailureMoves ==
    ASSUME Core, Attended, Attended', NEW s \in {Main, Helper}, Receive!StartFails(s)
    PROVE  Core'
<1> USE ThreadNumbers
<1> DEFINE t == receiver
           q == IF s = Main THEN "close" ELSE "failed"
<1>1. receiveAt[s] = "native" /\ t = plan[s].new /\ t \in Receive!Receivers /\ life[t] = "new"
  BY DEF Receive!StartFails, Receive!At, Core, Starting, ReceiveTypes
<1>2. /\ life' = [life EXCEPT ![t] = "dead"] /\ receiver' = Receive!None /\ receivePending' = FALSE
      /\ since' = "none"
      /\ UNCHANGED <<wanted, client, plan, inflight, target, strict>>
  BY <1>1 DEF Receive!StartFails, Receive!NotPending, Receive!sessionVars, Receive!helpVars
<1>3. receiveAt' = [receiveAt EXCEPT ![s] = q]
  <2>1. CASE s = Main
    BY <2>1 DEF Receive!StartFails, Receive!Goto
  <2>2. CASE s = Helper
    BY <2>2 DEF Receive!StartFails, Receive!Goto
  <2> QED
    BY <2>1, <2>2
<1>4. /\ receiveAt'[s] = q /\ \A u \in Receive!Starters : u # s => receiveAt'[u] = receiveAt[u]
      /\ life'[t] = "dead" /\ \A u \in Receive!Receivers : u # t => life'[u] = life[u]
  BY <1>1, <1>2, <1>3 DEF Core, ReceiveTypes
<1>5. /\ \A u \in Receive!Receivers : receiveAt[u] = "idle" /\ life[u] # "alive"
      /\ \A u \in Receive!Receivers : life[u] = "new" => t = u
      /\ s = Helper => receiveAt[Main] \in {"idle", "close"}
      /\ s = Main => receiveAt[Helper] = "idle" /\ client = Receive!None
  BY <1>1, StarterAlone
<1>6. ReceiveTypes'
  BY <1>1, <1>2, <1>3 DEF Core, ReceiveTypes, Receive!Places, Receive!LoopPlaces,
     Receive!HelperPlaces
<1>7. OneReceiver'
  <2>1. \A u \in Receive!Receivers : receiveAt'[u] = "idle" /\ life'[u] \notin {"new", "alive"}
    BY <1>4, <1>5
  <2> QED
    BY <1>2, <2>1 DEF OneReceiver
<1>8. Starting(Main)' /\ Starting(Helper)'
  BY <1>2, <1>4, <1>5 DEF Core, Starting
<1>9. FirstStart'
  BY <1>1, <1>2, <1>4, <1>5 DEF Core, FirstStart
<1>10. Helping'
  BY <1>1, <1>2, <1>4, <1>5 DEF Core, Helping, Receive!Alive
<1> QED
  BY <1>2, <1>6, <1>7, <1>8, <1>9, <1>10 DEF Core

\* The thread is seen alive: had it ended, it would have asked in vain for a successor.
LEMMA ConfirmMoves ==
    ASSUME Core, Attended, Attended', NEW s \in {Main, Helper}, Receive!Confirm(s)
    PROVE  Core'
<1> USE ThreadNumbers
<1> DEFINE t == receiver
           q == IF s = Main THEN "idle" ELSE "finish"
<1>1. receiveAt[s] = "confirm" /\ t = plan[s].new /\ t \in Receive!Receivers /\ life[t] = "alive"
      /\ Receive!Alive(t)
  BY DEF Receive!Confirm, Receive!At, Core, Starting, ReceiveTypes, Receive!Alive
<1>2. /\ receivePending' = FALSE /\ since' = "none"
      /\ UNCHANGED <<wanted, client, receiver, life, plan, inflight, target, strict>>
  BY <1>1 DEF Receive!Confirm, Receive!NotPending, Receive!sessionVars, Receive!helpVars
<1>3. receiveAt' = [receiveAt EXCEPT ![s] = q]
  <2>1. CASE s = Main
    BY <1>1, <2>1 DEF Receive!Confirm, Receive!Return, Receive!Goto, Attended
  <2>2. CASE s = Helper
    BY <1>1, <2>2 DEF Receive!Confirm, Receive!Return, Receive!Goto
  <2> QED
    BY <2>1, <2>2
<1>4. receiveAt'[s] = q /\ \A u \in Receive!Starters : u # s => receiveAt'[u] = receiveAt[u]
  BY <1>3 DEF Core, ReceiveTypes
<1>5. /\ s = Helper => receiveAt[Main] \in {"idle", "close"}
      /\ s = Main => receiveAt[Helper] = "idle"
           /\ \A u \in Receive!Receivers : receiveAt[u] # "leave"
  BY <1>1 DEF Core, FirstStart
<1>6. ReceiveTypes'
  BY <1>2, <1>3 DEF Core, ReceiveTypes, Receive!Places, Receive!LoopPlaces, Receive!HelperPlaces
<1>7. OneReceiver'
  BY <1>1, <1>2, <1>4, <1>5 DEF Core, OneReceiver
<1>8. Starting(Main)' /\ Starting(Helper)'
  BY <1>2, <1>4, <1>5 DEF Core, Starting
<1>9. FirstStart'
  BY <1>1, <1>2, <1>4, <1>5 DEF Core, FirstStart
<1>10. Helping'
  BY <1>1, <1>2, <1>4, <1>5 DEF Core, Helping, Receive!Alive
<1> QED
  BY <1>2, <1>6, <1>7, <1>8, <1>9, <1>10 DEF Core

LEMMA StartMoves ==
    ASSUME Core, Attended, Attended', NEW s \in {Main, Helper}, Receive!Start(s)
    PROVE  Core'
<1>1. ~Receive!Schedule(s)
  BY DEF Receive!Schedule, Receive!At, Core, FirstStart, Helping
<1> QED
  BY <1>1, LookMoves, RegisterMoves, LaunchMoves, NativeMoves, FailureMoves, ConfirmMoves DEF
     Receive!Start

\* The helper waits, and comes back after a start that raised.
LEMMA HelperMoves ==
    ASSUME Core, Attended, Attended', Receive!HelperQuits \/ Receive!HelperGoes \/ Receive!Finish
          \/ Receive!Again
    PROVE  Core'
<1> USE ThreadNumbers
<1>1. Receive!Running
  BY AttendedRuns
<1>2. receiveAt[Helper] \in {"wait", "finish", "failed", "again"}
  BY DEF Receive!HelperQuits, Receive!HelperGoes, Receive!Finish, Receive!Again, Receive!At
<1>3. PICK q \in {"look", "idle", "again", "wait"} :
        /\ receiveAt' = [receiveAt EXCEPT ![Helper] = q]
        /\ q = "look" => receiveAt[Helper] = "wait" /\ ~strict /\ Receive!Unwound
        /\ q = "idle" => receiveAt[Helper] = "finish"
        /\ q = "again" => receiveAt[Helper] = "failed"
        /\ q = "wait" => receiveAt[Helper] = "again"
        /\ inflight' = (q \notin {"idle", "again"})
  <2>1. inflight <=> receiveAt[Helper] \notin {"idle", "again"}
    BY DEF Core, Helping
  <2>2. CASE Receive!HelperQuits \/ Receive!HelperGoes
    <3>1. /\ receiveAt' = [receiveAt EXCEPT ![Helper] = "look"] /\ inflight' = inflight
          /\ receiveAt[Helper] = "wait" /\ ~strict /\ Receive!Unwound
      BY <1>1, <2>2 DEF Receive!HelperQuits, Receive!HelperGoes, Receive!At, Receive!Goto,
         Receive!helpVars, Core, Helping
    <3>2. inflight' = TRUE
      BY <2>1, <3>1 DEF Core, Helping
    <3> QED
      BY <3>1, <3>2
  <2>3. CASE Receive!Finish
    BY <2>3 DEF Receive!Finish, Receive!At, Receive!Goto
  <2>4. CASE Receive!Again
    BY <2>4 DEF Receive!Again, Receive!At, Receive!Goto
  <2> QED
    BY <2>2, <2>3, <2>4
<1>4. UNCHANGED <<wanted, client, receiver, receivePending, since, life, plan, target, strict>>
  BY DEF Receive!HelperQuits, Receive!HelperGoes, Receive!Finish, Receive!Again,
     Receive!sessionVars, Receive!startVars, Receive!helpVars
<1>5. receiveAt'[Helper] = q /\ \A u \in Receive!Starters : u # Helper =>
      receiveAt'[u] = receiveAt[u]
  BY <1>3 DEF Core, ReceiveTypes
<1>6. receiveAt[Main] \in {"idle", "close"}
  BY <1>2 DEF Core, FirstStart
<1>7. \A u \in Receive!Receivers : receiveAt[u] = "leave" => q # "look"
      /\ receiveAt[Helper] = "wait"
  <2>1. ASSUME NEW u \in Receive!Receivers, receiveAt[u] = "leave", q = "look" PROVE FALSE
    <3>1. receiver = u /\ target = u /\ Receive!Alive(u)
      BY <2>1, OnRecord DEF Core, OneReceiver
    <3> QED
      BY <1>3, <2>1, <3>1 DEF Receive!Unwound
  <2> QED
    BY <2>1 DEF Core, OneReceiver
<1>8. ReceiveTypes'
  BY <1>3, <1>4 DEF Core, ReceiveTypes, Receive!Places, Receive!StartPlaces, Receive!HelperPlaces
<1>9. OneReceiver'
  <2>1. \A u \in Receive!Receivers : receiveAt[u] # "leave"
    BY <1>3, <1>7
  <2> QED
    BY <1>4, <1>5, <2>1 DEF Core, OneReceiver
<1>10. Starting(Main)' /\ Starting(Helper)'
  BY <1>3, <1>4, <1>5 DEF Core, Starting
<1>11. FirstStart'
  BY <1>4, <1>5, <1>6 DEF Core, FirstStart
<1>12. Helping'
  <2>1. q = "look" => ~Receive!Alive(receiver)
    BY <1>3, <1>7 DEF Core, Helping, Receive!Alive, OneReceiver, ReceiveTypes
  <2>2. q = "wait" => receiver = Receive!None
    BY <1>3 DEF Core, Starting
  <2>3. q = "idle" => Receive!Alive(receiver)
    BY <1>3 DEF Core, Helping
  <2> QED
    BY <1>3, <1>4, <1>5, <2>1, <2>2, <2>3 DEF Core, Helping, Receive!Alive
<1> QED
  BY <1>4, <1>8, <1>9, <1>10, <1>11, <1>12 DEF Core

\* Links, callbacks, connects, and the age of a pending start.
LEMMA SessionMoves ==
    ASSUME Core,
           \/ Receive!PendingAges \/ Receive!Connect \/ Receive!Close
           \/ \E c \in Receive!Clients : Receive!LinkDrops(c) \/ Receive!Callback(c)
    PROVE  Core'
<1> USE ThreadNumbers
<1>1. UNCHANGED <<wanted, receiver, receivePending, life, plan, inflight, target, strict>>
      /\ since' \in {since, "old"}
  BY DEF Receive!PendingAges, Receive!Connect, Receive!Close, Receive!LinkDrops, Receive!Callback,
     Receive!sessionVars, Receive!startVars, Receive!helpVars
<1>2. receiveAt' = receiveAt \/ (receiveAt[Main] = "idle"
      /\ receiveAt' = [receiveAt EXCEPT ![Main] = "close"])
  BY DEF Receive!PendingAges, Receive!Connect, Receive!Close, Receive!LinkDrops, Receive!Callback,
     Receive!At, Receive!Goto
<1>3. client' = Receive!None \/ client' = client \/ receiveAt[Main] = "idle"
  BY DEF Receive!PendingAges, Receive!Connect, Receive!Close, Receive!LinkDrops, Receive!Callback,
     Receive!At, Receive!sessionVars
<1>4. /\ \A u \in Receive!Starters : u # Main => receiveAt'[u] = receiveAt[u]
      /\ receiveAt'[Main] = receiveAt[Main] \/ (receiveAt[Main] = "idle"
           /\ receiveAt'[Main] = "close")
  BY <1>2 DEF Core, ReceiveTypes
<1>5. ReceiveTypes'
  BY <1>1, <1>2 DEF Core, ReceiveTypes, Receive!Places, Receive!LoopPlaces
<1>6. OneReceiver'
  BY <1>1, <1>4 DEF Core, OneReceiver
<1>7. Starting(Main)' /\ Starting(Helper)'
  BY <1>1, <1>4 DEF Core, Starting
<1>8. FirstStart'
  BY <1>1, <1>3, <1>4 DEF Core, FirstStart
<1>9. Helping'
  <2>1. receiveAt'[Helper] = receiveAt[Helper]
        /\ (receiver # Receive!None => receiveAt'[receiver] = receiveAt[receiver])
    BY <1>4 DEF Core, ReceiveTypes
  <2>2. receiveAt[Main] # "idle" => receiveAt'[Main] # "idle"
    BY <1>4
  <2> QED
    BY <1>1, <2>1, <2>2 DEF Core, Helping, Receive!Alive
<1> QED
  BY <1>1, <1>5, <1>6, <1>7, <1>8, <1>9 DEF Core

\* No step opens an interface again or takes back that a request was not heard.
LEMMA AttendedBefore == [Receive!Next]_(Receive!vars) /\ Attended' => Attended
<1> SUFFICES ASSUME [Receive!Next]_(Receive!vars), Attended' PROVE ~receiveClosed /\ ~unheard
  BY DEF Attended
<1> USE DEF Attended, Receive!sessionVars
<1>1. ASSUME NEW s \in Receive!Starters, Receive!Start(s) PROVE ~receiveClosed /\ ~unheard
  <2>1. CASE \/ Receive!Look(s) \/ Receive!Register(s) \/ Receive!Launch(s)
        \/ Receive!NativeStart(s) \/ Receive!Confirm(s)
    BY <2>1 DEF Receive!Look, Receive!Register, Receive!Launch, Receive!NativeStart,
       Receive!Confirm
  <2>2. CASE Receive!Decide(s)
    BY <2>2 DEF Receive!Decide
  <2>3. CASE Receive!Schedule(s)
    BY <2>3 DEF Receive!Schedule
  <2>4. CASE Receive!StartFails(s)
    BY <2>4 DEF Receive!StartFails
  <2> QED
    BY <1>1, <2>1, <2>2, <2>3, <2>4 DEF Receive!Start
<1>2. ASSUME NEW t \in Receive!Receivers, Receive!Receive(t) PROVE ~receiveClosed /\ ~unheard
  BY <1>2 DEF Receive!Receive, Receive!Top, Receive!State, Receive!ReadReturns, Receive!ReadFails,
     Receive!Drop, Receive!Dropped, Receive!Unwant, Receive!HandlerRaises, Receive!Recover,
     Receive!Recheck, Receive!Withdrawn, Receive!Throttle, Receive!Leave
<1>3. ASSUME NEW s, Receive!CloseBegin(s) \/ Receive!CloseUnwants(s) \/ Receive!Join(s)
      \/ Receive!CloseDetaches(s)
      PROVE  ~receiveClosed /\ ~unheard
  BY <1>3 DEF Receive!CloseBegin, Receive!CloseUnwants, Receive!Join, Receive!CloseDetaches
<1>4. CASE Receive!HelperQuits \/ Receive!HelperGoes \/ Receive!Finish \/ Receive!Again
      \/ Receive!PendingAges \/ Receive!Close \/ Receive!Connect
  BY <1>4 DEF Receive!HelperQuits, Receive!HelperGoes, Receive!Finish, Receive!Again,
     Receive!PendingAges, Receive!Close, Receive!Connect
<1>5. ASSUME NEW c \in Receive!Clients, Receive!LinkDrops(c) \/ Receive!Callback(c)
      PROVE ~receiveClosed /\ ~unheard
  BY <1>5 DEF Receive!LinkDrops, Receive!Callback
<1>6. CASE UNCHANGED Receive!vars
  BY <1>6 DEF Receive!vars
<1> QED
  BY <1>1, <1>2, <1>3, <1>4, <1>5, <1>6 DEF Receive!Next

LEMMA ReceiveStep == ReceiveInv /\ [Receive!Next]_(Receive!vars) => ReceiveInv'
<1> SUFFICES ASSUME ReceiveInv, [Receive!Next]_(Receive!vars), Attended' PROVE Core'
  BY DEF ReceiveInv
<1>1. Attended /\ Core
  BY AttendedBefore DEF ReceiveInv
<1>2. ASSUME NEW s \in Receive!Starters, Receive!Start(s) PROVE Core'
  BY <1>1, <1>2, ThreadNumbers, StartMoves, RecoverMoves
<1>3. ASSUME NEW t \in Receive!Receivers, Receive!Receive(t) PROVE Core'
  BY <1>1, <1>3, ReceiveMoves, LeaveMoves
<1>4. ASSUME NEW s \in Receive!Receivers \cup {Main},
             Receive!CloseBegin(s) \/ Receive!CloseUnwants(s) \/ Receive!Join(s)
                   \/ Receive!CloseDetaches(s)
      PROVE  Core'
  <2>1. receiveAt[s] \notin {"release", "join", "detach"}
    BY <1>1 DEF Core, OneReceiver, FirstStart, Looping
  <2> QED
    BY <1>4, <2>1 DEF Receive!CloseBegin, Receive!CloseUnwants, Receive!Join,
       Receive!CloseDetaches, Receive!At, Attended
<1>5. CASE UNCHANGED Receive!vars
  BY <1>1, <1>5 DEF Receive!vars, Receive!sessionVars, Receive!startVars, Receive!linkVars,
     Receive!helpVars, Core, ReceiveTypes, OneReceiver, Starting, FirstStart, Helping,
     Receive!Alive
<1> QED
  BY <1>1, <1>2, <1>3, <1>4, <1>5, HelperMoves, SessionMoves DEF Receive!Next

\* An open interface with auto_reconnect that has come to rest has one live receive thread, the
\* one on record, as long as every request for a successor has been heard.
THEOREM OneReceives == Receive!Spec => []ReceiverRemains
<1>1. ReceiveInv => ReceiverRemains
  <2> SUFFICES ASSUME ReceiveInv, AutoReconnect, Receive!Quiet, ~receiveClosed, ~unheard
               PROVE  receiver # Receive!None /\ \A t \in Receive!Receivers :
                                               Receive!Alive(t) <=> t = receiver
    BY DEF ReceiverRemains, Receive!ReceiverRemains
  <2>1. Core
    BY DEF ReceiveInv, Attended
  <2>2. Receive!Alive(receiver)
    BY <2>1, ThreadNumbers DEF Receive!Quiet, Receive!At, Core, Helping
  <2>3. \A t \in Receive!Receivers : Receive!Alive(t) => t = receiver
    BY <2>1 DEF Core, OneReceiver, Receive!Alive
  <2> QED
    BY <2>2, <2>3 DEF Receive!Alive
<1> QED
  BY <1>1, InitReceive, ReceiveStep, PTL DEF Receive!Spec

LEMMA ReturnsTyped ==
    ASSUME NEW s, receiveAt \in [Receive!Starters -> Receive!Places], Receive!Return(s)
    PROVE  receiveAt' \in [Receive!Starters -> Receive!Places]
  BY DEF Receive!Return, Receive!Goto, Receive!Places, Receive!StartPlaces, Receive!LoopPlaces,
     Receive!HelperPlaces

\* Every variable of the receive threads keeps its type, for any number of them.
THEOREM ReceiveTypesHold == Receive!Spec => []Receive!TypeOK
<1> USE DEF Receive!sessionVars, Receive!startVars, Receive!linkVars, Receive!helpVars
<1>1. ASSUME Receive!Init PROVE Receive!TypeOK
  <2>1. Receive!NoPlan \in Plans
    BY DEF Receive!NoPlan, Plans, Receive!Decisions
  <2>2. plan \in [Receive!Starters -> Plans]
    BY <1>1, <2>1 DEF Receive!Init
  <2>3. receiveAt \in [Receive!Starters -> Receive!Places]
    BY <1>1 DEF Receive!Init, Receive!Places, Receive!StartPlaces
  <2>4. /\ life \in [Receive!Receivers -> {"none", "new", "alive", "dead"}]
        /\ receiveMine \in [Receive!Receivers -> Receive!Clients \cup {Receive!None}]
    BY <1>1 DEF Receive!Init
  <2>5. fails \in 0..MaxFails
    BY <1>1, ServicesAssumption DEF Receive!Init
  <2> QED
    BY <1>1, <2>2, <2>3, <2>4, <2>5 DEF Receive!Init, Receive!TypeOK, Plans
<1>2. ASSUME Receive!TypeOK, [Receive!Next]_(Receive!vars) PROVE Receive!TypeOK'
  <2>1. CASE UNCHANGED Receive!vars
    BY <1>2, <2>1 DEF Receive!TypeOK, Receive!vars
  <2>2. ASSUME NEW s \in Receive!Starters, Receive!Start(s) PROVE Receive!TypeOK'
    <3>1. receiveAt' \in [Receive!Starters -> Receive!Places]
      <4>1. CASE Receive!Return(s)
        BY <1>2, <4>1, ReturnsTyped DEF Receive!TypeOK
      <4>2. CASE \E p \in Receive!Places : Receive!Goto(s, p)
        BY <1>2, <4>2 DEF Receive!TypeOK, Receive!Goto
      <4>3. CASE Receive!Schedule(s) \/ Receive!NativeStart(s)
        BY <1>2, <4>1, <4>2, <4>3
        DEF Receive!TypeOK, Receive!Schedule, Receive!NativeStart, Receive!Places,
            Receive!StartPlaces, Receive!LoopPlaces, Receive!HelperPlaces
      <4> QED
        BY <2>2, <4>1, <4>2, <4>3
        DEF Receive!Start, Receive!Look, Receive!Decide, Receive!Register, Receive!Launch,
            Receive!StartFails, Receive!Confirm, Receive!Places, Receive!StartPlaces,
            Receive!LoopPlaces, Receive!HelperPlaces
    <3>2. plan' \in [Receive!Starters -> Plans]
      <4>1. Receive!Decision(s) \in Receive!Decisions
        BY DEF Receive!Decision, Receive!Decisions
      <4>2. CASE Receive!Look(s)
        BY <1>2, <4>1, <4>2 DEF Receive!TypeOK, Receive!Look, Plans, Receive!None
      <4>3. CASE \E r \in Receive!Receivers \cup {Receive!None} :
                    plan' = [plan EXCEPT ![s].existing = r] \/ plan' = [plan EXCEPT ![s].new = r]
        BY <1>2, <4>3 DEF Receive!TypeOK, Plans
      <4>4. ASSUME NEW r \in Receive!Receivers \cup {Receive!None},
                   plan' = [plan EXCEPT ![s].existing = r, ![s].what = "unconfirmed"]
            PROVE  plan' \in [Receive!Starters -> Plans]
        <5>1. plan[s] \in Plans
          BY <1>2 DEF Receive!TypeOK, Plans
        <5>2. [plan[s] EXCEPT !.existing = r, !.what = "unconfirmed"] \in Plans
          BY <5>1 DEF Plans, Receive!Decisions
        <5>3. plan' = [plan EXCEPT ![s] = [plan[s] EXCEPT !.existing = r, !.what = "unconfirmed"]]
          BY <1>2, <4>4 DEF Receive!TypeOK
        <5> QED
          BY <1>2, <5>2, <5>3 DEF Receive!TypeOK, Plans
      <4>5. CASE plan' = plan
        BY <1>2, <4>5 DEF Receive!TypeOK, Plans
      <4>6. plan[s].new \in Receive!Receivers \cup {Receive!None}
        BY <1>2 DEF Receive!TypeOK
      <4> QED
        BY <1>2, <2>2, <4>2, <4>3, <4>4, <4>5, <4>6
        DEF Receive!TypeOK, Receive!Start, Receive!Decide, Receive!Schedule, Receive!Register,
            Receive!Launch, Receive!NativeStart, Receive!StartFails, Receive!Confirm,
            Receive!NotPending
    <3>3. UNCHANGED <<receiveClosed, wanted, client, linked, due, receiveMine>>
      BY <2>2 DEF Receive!Start, Receive!Look, Receive!Decide, Receive!Schedule, Receive!Register,
         Receive!Launch, Receive!NativeStart, Receive!StartFails, Receive!Confirm
    <3>4. /\ receivePending' \in BOOLEAN /\ since' \in {"none", "fresh", "old"}
          /\ receiver' \in Receive!Receivers \cup {Receive!None} /\ unheard' \in BOOLEAN
      BY <1>2, <2>2 DEF Receive!TypeOK, Receive!Start, Receive!Look, Receive!Decide,
         Receive!Schedule, Receive!Register, Receive!Launch, Receive!NativeStart,
         Receive!StartFails, Receive!Confirm, Receive!NotPending
    <3>5. life' \in [Receive!Receivers -> {"none", "new", "alive", "dead"}]
      BY <1>2, <2>2 DEF Receive!TypeOK, Receive!Start, Receive!Look, Receive!Decide,
         Receive!Schedule, Receive!Register, Receive!Launch, Receive!NativeStart,
         Receive!StartFails, Receive!Confirm, Receive!NotPending
    <3>6. /\ inflight' \in {inflight, TRUE} /\ target' \in {target, plan[s].existing}
          /\ strict' = strict \/ strict' \in BOOLEAN
          /\ fails' = fails \/ (fails < MaxFails /\ fails' = fails + 1)
      BY <2>2 DEF Receive!Start, Receive!Look, Receive!Decide, Receive!Schedule, Receive!Register,
         Receive!Launch, Receive!NativeStart, Receive!StartFails, Receive!Confirm
    <3>7. fails' \in 0..MaxFails
      BY <1>2, <3>6, ServicesAssumption DEF Receive!TypeOK
    <3>8. target' \in Receive!Receivers \cup {Receive!None}
      BY <1>2, <3>6 DEF Receive!TypeOK
    <3>9. inflight' \in BOOLEAN /\ strict' \in BOOLEAN
      <4>1. {inflight, strict} \subseteq BOOLEAN
        BY <1>2 DEF Receive!TypeOK
      <4> QED
        BY <3>6, <4>1
    <3> QED
      BY <1>2, <3>1, <3>2, <3>3, <3>4, <3>5, <3>7, <3>8, <3>9 DEF Receive!TypeOK, Plans
  <2>3. CASE \/ Receive!HelperQuits \/ Receive!HelperGoes \/ Receive!Finish \/ Receive!Again
             \/ Receive!PendingAges
    <3>1. /\ UNCHANGED <<receiveClosed, wanted, client, receiver, receivePending, linked, due, life,
                         receiveMine, plan, target, strict, fails, unheard>>
          /\ inflight' \in {inflight, TRUE, FALSE} /\ since' \in {since, "old"}
          /\ receiveAt' = receiveAt \/ \E p \in Receive!Places : Receive!Goto(Helper, p)
      BY <2>3 DEF Receive!HelperQuits, Receive!HelperGoes, Receive!Finish, Receive!Again,
         Receive!PendingAges, Receive!Places, Receive!StartPlaces, Receive!HelperPlaces
    <3> QED
      BY <1>2, <3>1 DEF Receive!TypeOK, Receive!Goto
  <2>4. ASSUME NEW t \in Receive!Receivers, Receive!Receive(t) PROVE Receive!TypeOK'
    <3>1. \E p \in Receive!Places : Receive!Goto(t, p)
      BY <2>4 DEF Receive!Receive, Receive!Top, Receive!State, Receive!ReadReturns,
         Receive!ReadFails, Receive!Drop, Receive!Dropped, Receive!Unwant, Receive!HandlerRaises,
         Receive!Recover, Receive!Recheck, Receive!Withdrawn, Receive!Throttle, Receive!Leave,
         Receive!Ends, Receive!Places, Receive!StartPlaces, Receive!LoopPlaces
    <3>2. /\ UNCHANGED <<receiveClosed, receiver, receivePending, since, due, plan, inflight, target,
                         strict, fails, unheard>>
          /\ wanted' \in {wanted, FALSE, wanted /\ ~(client = Receive!None /\ receiveClosed)}
          /\ client' \in {client, Receive!None} /\ linked' \subseteq linked
          /\ life' = life \/ life' = [life EXCEPT ![t] = "dead"]
          /\ receiveMine' = receiveMine \/ receiveMine' = [receiveMine EXCEPT ![t] = client]
      BY <2>4 DEF Receive!Receive, Receive!Top, Receive!State, Receive!ReadReturns,
         Receive!ReadFails, Receive!Drop, Receive!Dropped, Receive!Unwant, Receive!HandlerRaises,
         Receive!Recover, Receive!Recheck, Receive!Withdrawn, Receive!Throttle, Receive!Leave,
         Receive!Disconnect
    <3>3. wanted' \in BOOLEAN
      BY <1>2, <3>2 DEF Receive!TypeOK
    <3> QED
      BY <1>2, <3>1, <3>2, <3>3, ZenonT(60) DEF Receive!TypeOK, Receive!Goto
  <2>5. ASSUME NEW s \in Receive!Receivers \cup {Main},
               \/ Receive!CloseBegin(s) \/ Receive!CloseUnwants(s) \/ Receive!Join(s)
               \/ Receive!CloseDetaches(s)
        PROVE  Receive!TypeOK'
    <3>1. \E p \in Receive!Places : Receive!Goto(s, p)
      BY <2>5 DEF Receive!CloseBegin, Receive!CloseUnwants, Receive!Join, Receive!CloseDetaches,
         Receive!Places, Receive!LoopPlaces
    <3>2. /\ UNCHANGED <<due, life, receiveMine, plan, inflight, target, strict, fails, unheard>>
          /\ receiveClosed' \in {receiveClosed, TRUE} /\ wanted' \in {wanted, FALSE}
          /\ client' \in {client, Receive!None} /\ linked' \subseteq linked
          /\ receiver' \in {receiver, Receive!None} /\ receivePending' \in {receivePending, FALSE}
          /\ since' \in {since, "none"}
      BY <2>5 DEF Receive!CloseBegin, Receive!CloseUnwants, Receive!Join, Receive!CloseDetaches,
         Receive!Disconnect, Receive!NotPending
    <3> QED
      BY <1>2, <3>1, <3>2 DEF Receive!TypeOK, Receive!Goto
  <2>6. CASE Receive!Close \/ Receive!Connect \/ \E c \in Receive!Clients : Receive!LinkDrops(c)
                                                       \/ Receive!Callback(c)
    <3>1. /\ receiveAt' = receiveAt \/ receiveAt' = [receiveAt EXCEPT ![Main] = "close"]
          /\ UNCHANGED <<receiveClosed, wanted, receiver, receivePending, since, life, receiveMine,
                         plan, inflight, target, strict, fails, unheard>>
          /\ client' \in Receive!Clients \cup {client, Receive!None}
          /\ linked' \subseteq linked \cup Receive!Clients /\ due' \subseteq due \cup Receive!Clients
      BY <2>6 DEF Receive!Close, Receive!Connect, Receive!LinkDrops, Receive!Callback, Receive!Goto
    <3> QED
      BY <1>2, <3>1 DEF Receive!TypeOK, Receive!Places, Receive!LoopPlaces
  <2> QED
    BY <1>2, <2>1, <2>2, <2>3, <2>4, <2>5, <2>6 DEF Receive!Next
<1> QED
  BY <1>1, <1>2, PTL DEF Receive!Spec

----------------------------------------------------------------------------
(* The services side by side.                                              *)

\* A behaviour of all the services is, seen by each, a behaviour of its own: what is proved of
\* one holds beside the others, as the composition that TLC runs has it.
THEOREM ServicesRunAlone == Spec4 => Spec /\ Runner!Spec /\ Threads!Spec /\ Receive!Spec
<1>1. Init4 => Init /\ Runner!Init /\ Threads!Init /\ Receive!Init
  BY DEF Init4
<1> DEFINE all == <<vars, runnerVars, threadsVars, receiveVars>>
<1>2. UNCHANGED runnerVars => UNCHANGED Runner!vars
  BY DEF runnerVars, Runner!vars, Runner!runnerVars, Runner!ownerVars, Runner!callerVars
<1>3. UNCHANGED threadsVars => UNCHANGED Threads!vars
  BY DEF threadsVars, Threads!vars, Threads!registers
<1>4. UNCHANGED receiveVars => UNCHANGED Receive!vars
  BY DEF receiveVars, Receive!vars, Receive!sessionVars, Receive!startVars, Receive!linkVars,
     Receive!helpVars
<1>5. [Next4]_all => [Next]_vars
  BY DEF Next4
<1>6. [Next4]_all => [Runner!Next]_(Runner!vars)
  BY <1>2 DEF Next4
<1>7. [Next4]_all => [Threads!Next]_(Threads!vars)
  BY <1>3 DEF Next4
<1>8. [Next4]_all => [Receive!Next]_(Receive!vars)
  BY <1>4 DEF Next4
<1> QED
  BY <1>1, <1>5, <1>6, <1>7, <1>8, PTL DEF Spec4, Spec, Runner!Spec, Threads!Spec, Receive!Spec
=============================================================================
