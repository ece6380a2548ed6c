-------------------------- MODULE BleSession_proofs --------------------------
(***************************************************************************)
(* Proofs about BleSession, for any number of callers, callback threads    *)
(* and clients: a connect() that was dialling while close() ran installs   *)
(* nothing, who may take a living client away, that no link and no         *)
(* provisional flag is left behind when all threads have finished nor      *)
(* held by no thread before that, and that every variable keeps its type.  *)
(***************************************************************************)
EXTENDS BleSession, TLAPS

----------------------------------------------------------------------------
(* The part of the types that the properties rest on.                      *)

ClientInv ==
    /\ client \in Clients \cup {NoClient}
    /\ mine \in [Connectors -> Clients \cup {NoClient}]
LinkInv ==
    /\ link \in [Clients -> {"unused", "up", "down", "closed"}]
    /\ due \subseteq Clients
PlaceInv == pc \in [Threads -> Places]

\* A link that is no longer up never comes up again.
Gone(c) == c \in Clients /\ link[c] \in {"down", "closed"}
Used(c) == c \in Clients /\ link[c] # "unused"

LEMMA NoClientIsNone == NoClient \notin Clients
    BY SessionAssumption DEF Clients

LEMMA CloseStep1 ==
    ASSUME LinkInv, NEW c \in Clients \cup {NoClient}, CloseLink(c)
    PROVE  /\ LinkInv'
           /\ \A d \in Clients : (Gone(d) => Gone(d)') /\ (Used(d) => Used(d)')
           /\ (\A d \in due : Gone(d)) => \A d \in due' : Gone(d)'
<1>1. CASE c = NoClient
    BY <1>1 DEF CloseLink, linkVars, LinkInv, Gone, Used
<1>2. CASE c # NoClient
    BY <1>2 DEF CloseLink, LinkInv, Gone, Used
<1> QED BY <1>1, <1>2

\* Callbacks are about links that have gone.
DueInv == \A c \in due : Gone(c)
LinksInv == LinkInv /\ DueInv
Links == /\ LinkInv' /\ DueInv'
         /\ \A d \in Clients : (Gone(d) => Gone(d)') /\ (Used(d) => Used(d)')

LEMMA SameLinks == LinksInv /\ UNCHANGED linkVars => Links
    BY DEF LinksInv, LinkInv, DueInv, Links, Gone, Used, linkVars

LEMMA LinkStep == ClientInv /\ LinksInv /\ (\A h \in Handlers : plan[h].client \in Clients \cup {NoClient})
                      /\ [Next]_vars => Links
<1> SUFFICES ASSUME ClientInv, LinksInv, \A h \in Handlers : plan[h].client \in Clients \cup {NoClient},
                    [Next]_vars
             PROVE  Links
    OBVIOUS
<1>1. ASSUME NEW c \in Clients \cup {NoClient}, CloseLink(c) PROVE Links
    BY <1>1, CloseStep1 DEF LinksInv, DueInv, Links
<1>2. ASSUME NEW t \in Callers, NEW op, Call(t, op) PROVE Links
    BY <1>2, SameLinks DEF Call
<1>3. ASSUME NEW t \in Connectors, ConnectStep(t) PROVE Links
  <2>1. CASE DialSucceeds(t)
    <3>1. PICK c \in Clients : link[c] = "unused" /\ link' = [link EXCEPT ![c] = "up"]
        BY <2>1 DEF DialSucceeds
    <3>2. due' = due
        BY <2>1 DEF DialSucceeds
    <3> QED BY <3>1, <3>2 DEF LinksInv, LinkInv, DueInv, Links, Gone, Used
  <2>2. CASE Failed(t) \/ Shut(t)
      BY <1>1, <2>2 DEF Failed, Shut, ClientInv
  <2>3. CASE Adopt(t)
      BY <1>1, <2>3 DEF Adopt, ClientInv
  <2> QED BY <1>3, <2>1, <2>2, <2>3, SameLinks DEF ConnectStep, Ask, Lock, Begin, Validate, DialFails,
        Finish, Restore, Handoff, Gates, Mark, Regate, Ungate, Verify, Check, Commit, Allow, Notify,
        NotifyRaises, Complete, Settle, Repair, Relost, Invalid, Unmark, Discard, Same, Reset, Lose, Raise
<1>4. ASSUME NEW t \in Callers, CloseStep(t) PROVE Links
  <2>1. CASE Detach(t)
      BY <1>1, <2>1 DEF Detach, ClientInv
  <2> QED BY <1>4, <2>1, SameLinks DEF CloseStep, Close, Signal, MeshClose, Consume, Final
<1>5. ASSUME NEW h \in Handlers, HandlerStep(h) PROVE Links
  <2>1. ASSUME NEW c \in Clients, Report(h, c) PROVE Links
      BY <2>1 DEF Report, LinksInv, LinkInv, DueInv, Links, Gone, Used
  <2>2. CASE Vet(h)
      BY <1>1, <2>2 DEF Vet
  <2> QED BY <1>5, <2>1, <2>2, SameLinks DEF HandlerStep, Resolve, Recheck, Drop, Release, Lost, Wake, Schedule
<1>6. ASSUME WorkerLoop \/ WorkerExit PROVE Links
    BY <1>6, SameLinks DEF WorkerLoop, WorkerExit
<1>7. ASSUME NEW c \in Clients, LinkDrops(c) PROVE Links
    BY <1>7 DEF LinkDrops, LinksInv, LinkInv, DueInv, Links, Gone, Used
<1>8. ASSUME UNCHANGED vars PROVE Links
    BY <1>8, SameLinks DEF vars
<1> QED BY <1>2, <1>3, <1>4, <1>5, <1>6, <1>7, <1>8 DEF Next

LEMMA ClientStep == ClientInv /\ [Next]_vars => ClientInv'
<1> SUFFICES ASSUME ClientInv, [Next]_vars PROVE ClientInv'
    OBVIOUS
<1>1. ASSUME UNCHANGED <<client, mine>> PROVE ClientInv'
    BY <1>1 DEF ClientInv
<1>2. ASSUME NEW t \in Callers, NEW op, Call(t, op) PROVE ClientInv'
    BY <1>1, <1>2 DEF Call, sessionVars, localVars
<1>3. ASSUME NEW t \in Connectors, ConnectStep(t) PROVE ClientInv'
  <2> USE DEF sessionVars, localVars
  <2>1. CASE DialSucceeds(t)
      BY <2>1 DEF DialSucceeds, ClientInv
  <2>2. CASE Failed(t) \/ Repair(t) \/ Raise(t)
      BY <2>2 DEF Failed, Repair, Raise, ClientInv
  <2>3. CASE Adopt(t)
      BY <2>3 DEF Adopt, ClientInv
  <2>4. CASE Discard(t)
      BY <2>4 DEF Discard, ClientInv
  <2>5. CASE Ask(t) \/ Lock(t) \/ Begin(t) \/ Validate(t) \/ DialFails(t) \/ Finish(t) \/ Restore(t)
      BY <1>1, <2>5 DEF Ask, Lock, Begin, Validate, DialFails, Finish, Restore
  <2>6. CASE Handoff(t) \/ Gates(t) \/ Mark(t) \/ Regate(t) \/ Ungate(t) \/ Verify(t) \/ Check(t)
      BY <1>1, <2>6 DEF Handoff, Gates, Mark, Regate, Ungate, Verify, Check
  <2>7. CASE Commit(t) \/ Allow(t) \/ Notify(t) \/ NotifyRaises(t) \/ Complete(t) \/ Settle(t) \/ Relost(t)
      BY <1>1, <2>7 DEF Commit, Allow, Notify, NotifyRaises, Complete, Settle, Relost
  <2>8. CASE Invalid(t) \/ Unmark(t) \/ Shut(t) \/ Same(t) \/ Reset(t) \/ Lose(t)
      BY <1>1, <2>8 DEF Invalid, Unmark, Shut, Same, Reset, Lose
  <2> QED BY <1>3, <2>1, <2>2, <2>3, <2>4, <2>5, <2>6, <2>7, <2>8 DEF ConnectStep
<1>4. ASSUME NEW t \in Callers, CloseStep(t) PROVE ClientInv'
  <2>1. CASE Detach(t)
      BY <2>1 DEF Detach, localVars, ClientInv
  <2> QED BY <1>1, <1>4, <2>1 DEF CloseStep, Close, Signal, MeshClose, Consume, Final, sessionVars, localVars
<1>5. ASSUME NEW h \in Handlers, HandlerStep(h) PROVE ClientInv'
  <2>1. CASE Resolve(h)
      BY <2>1 DEF Resolve, localVars, ClientInv
  <2> QED BY <1>1, <1>5, <2>1 DEF HandlerStep, Report, Vet, Recheck, Drop, Release, Lost, Wake, Schedule,
        sessionVars, localVars
<1>6. ASSUME WorkerLoop \/ WorkerExit PROVE ClientInv'
    BY <1>1, <1>6 DEF WorkerLoop, WorkerExit, sessionVars, localVars
<1>7. ASSUME NEW c \in Clients, LinkDrops(c) PROVE ClientInv'
    BY <1>1, <1>7 DEF LinkDrops, sessionVars, localVars
<1>8. ASSUME UNCHANGED vars PROVE ClientInv'
    BY <1>1, <1>8 DEF vars, sessionVars, localVars
<1> QED BY <1>2, <1>3, <1>4, <1>5, <1>6, <1>7, <1>8 DEF Next

----------------------------------------------------------------------------
(* Where the threads go.                                                   *)

Moved(t, S) == \E p \in S : pc' = [pc EXCEPT ![t] = p]
ConnectAll == {"idle", "loop", "exit"} \cup ConnectPlaces \cup PublishPlaces \cup InvalidPlaces

LEMMA ConnectMoves ==
    ASSUME NEW t \in Connectors, ConnectStep(t)
    PROVE  /\ Moved(t, ConnectAll) /\ pc[t] \in ConnectAll
           /\ t = Worker => Moved(t, ConnectAll \ {"idle"})
<1> USE DEF Moved, ConnectAll, ConnectPlaces, PublishPlaces, InvalidPlaces, At, Goto, Returned, Raised
<1>1. CASE Ask(t) \/ Lock(t) \/ Begin(t) \/ Validate(t) \/ DialSucceeds(t) \/ DialFails(t)
    BY <1>1 DEF Ask, Lock, Begin, Validate, DialSucceeds, DialFails
<1>2. CASE Finish(t) \/ Failed(t) \/ Restore(t) \/ Adopt(t) \/ Handoff(t)
    BY <1>2 DEF Finish, Failed, Restore, Adopt, Handoff
<1>3. CASE Gates(t) \/ Mark(t) \/ Regate(t) \/ Ungate(t) \/ Verify(t) \/ Check(t)
    BY <1>3 DEF Gates, Mark, Regate, Ungate, Verify, Check
<1>4. CASE Commit(t) \/ Allow(t) \/ Notify(t) \/ NotifyRaises(t) \/ Complete(t)
    BY <1>4 DEF Commit, Allow, Notify, NotifyRaises, Complete
<1>5. CASE Settle(t) \/ Repair(t) \/ Relost(t)
    BY <1>5 DEF Settle, Repair, Relost
<1>6. CASE Invalid(t) \/ Unmark(t) \/ Discard(t) \/ Shut(t)
    BY <1>6 DEF Invalid, Unmark, Discard, Shut
<1>7. CASE Same(t) \/ Reset(t) \/ Lose(t) \/ Raise(t)
    BY <1>7 DEF Same, Reset, Lose, Raise
<1> QED BY <1>1, <1>2, <1>3, <1>4, <1>5, <1>6, <1>7 DEF ConnectStep

LEMMA CloseMoves ==
    ASSUME NEW t \in Callers, CloseStep(t)
    PROVE  Moved(t, ClosePlaces \cup {"idle"}) /\ pc[t] \in ClosePlaces
    BY DEF Moved, ClosePlaces, At, Goto, CloseStep, Close, Signal, MeshClose, Detach, Consume, Final

\* Schedule starts the worker and ends the callback.
LEMMA HandlerMoves ==
    ASSUME NEW h \in Handlers, HandlerStep(h)
    PROVE  \/ Moved(h, HandlerPlaces \cup {"idle"})
           \/ pc' = [pc EXCEPT ![h] = "idle", ![Worker] = "loop"]
<1> USE DEF Moved, HandlerPlaces, At, Goto
<1>1. CASE Schedule(h)
    BY <1>1 DEF Schedule
<1>2. CASE \E c \in Clients : Report(h, c)
    BY <1>2 DEF Report
<1>3. CASE Resolve(h) \/ Vet(h) \/ Recheck(h)
    BY <1>3 DEF Resolve, Vet, Recheck
<1>4. CASE Drop(h) \/ Release(h) \/ Lost(h) \/ Wake(h)
    BY <1>4 DEF Drop, Release, Lost, Wake
<1> QED BY <1>1, <1>2, <1>3, <1>4 DEF HandlerStep

LEMMA PlaceStep == PlaceInv /\ [Next]_vars => PlaceInv'
<1> SUFFICES ASSUME PlaceInv, [Next]_vars PROVE PlaceInv'
    OBVIOUS
<1>1. ASSUME NEW t \in Threads, NEW S \in SUBSET Places, Moved(t, S) PROVE PlaceInv'
    BY <1>1 DEF Moved, PlaceInv
<1>2. ConnectAll \subseteq Places /\ ClosePlaces \cup {"idle"} \subseteq Places
      /\ HandlerPlaces \cup {"idle"} \subseteq Places /\ {"ask", "close"} \subseteq Places
      /\ {"loop", "exit", "idle"} \subseteq Places
    BY DEF Places, ConnectAll, ConnectPlaces, ClosePlaces
<1>3. Callers \subseteq Threads /\ Connectors \subseteq Threads /\ Handlers \subseteq Threads
      /\ Worker \in Threads
    BY DEF Threads, Connectors
<1>4. ASSUME NEW t \in Callers, NEW op \in {"ask", "close"}, Call(t, op) PROVE PlaceInv'
  <2>1. Moved(t, {"ask", "close"})
      BY <1>4 DEF Call, Goto, Moved
  <2> QED BY <1>1, <1>2, <1>3, <2>1
<1>5. ASSUME NEW t \in Connectors, ConnectStep(t) PROVE PlaceInv'
    BY <1>1, <1>2, <1>3, <1>5, ConnectMoves
<1>6. ASSUME NEW t \in Callers, CloseStep(t) PROVE PlaceInv'
    BY <1>1, <1>2, <1>3, <1>6, CloseMoves
<1>7. ASSUME NEW h \in Handlers, HandlerStep(h) PROVE PlaceInv'
  <2>1. CASE Moved(h, HandlerPlaces \cup {"idle"})
      BY <1>1, <1>2, <1>3, <2>1
  <2>2. CASE pc' = [pc EXCEPT ![h] = "idle", ![Worker] = "loop"]
      BY <1>2, <2>2 DEF PlaceInv
  <2> QED BY <1>7, <2>1, <2>2, HandlerMoves
<1>8. ASSUME WorkerLoop \/ WorkerExit PROVE PlaceInv'
  <2>1. Moved(Worker, {"ask", "exit", "idle"}) /\ {"ask", "exit", "idle"} \subseteq Places
      BY <1>2, <1>8 DEF WorkerLoop, WorkerExit, Goto, Moved
  <2> QED BY <1>1, <1>3, <2>1
<1>9. ASSUME NEW c \in Clients, LinkDrops(c) PROVE PlaceInv'
    BY <1>9 DEF LinkDrops, PlaceInv
<1>10. ASSUME UNCHANGED vars PROVE PlaceInv'
    BY <1>10 DEF vars, PlaceInv
<1> QED BY <1>4, <1>5, <1>6, <1>7, <1>8, <1>9, <1>10 DEF Next

----------------------------------------------------------------------------
(* close().                                                                *)

\* A close() that has not detached the client yet.
Detaching == {"signal", "meshClose", "detach"}
CloseInv ==
    /\ \A t \in Callers : pc[t] \in Detaching => closed
    /\ ClosedHasNoClient

LEMMA CloseStep2 == PlaceInv /\ ClientInv /\ CloseInv /\ [Next]_vars => CloseInv'
<1> SUFFICES ASSUME PlaceInv, ClientInv, CloseInv, [Next]_vars PROVE CloseInv'
    OBVIOUS
<1> USE SessionAssumption DEF CloseInv, ClosedHasNoClient, Detaching
\* Steps that neither close, nor detach, nor install a client while closed.
<1>1. ASSUME \A t \in Callers : pc'[t] \in Detaching <=> pc[t] \in Detaching,
             closed' = closed, client' \in {client, NoClient} \/ ~closed
      PROVE  CloseInv'
    BY <1>1
<1>2. ASSUME NEW t \in Callers, NEW op \in {"ask", "close"}, Call(t, op) PROVE CloseInv'
  <2>1. pc[t] = "idle" /\ pc' = [pc EXCEPT ![t] = op] /\ closed' = closed /\ client' = client
      BY <1>2 DEF Call, Goto, At, sessionVars
  <2>2. pc'[t] = op /\ \A u \in Callers : u # t => pc'[u] = pc[u]
      BY <2>1 DEF PlaceInv, Threads, Connectors
  <2> QED BY <1>1, <2>1, <2>2
<1>3. ASSUME NEW t \in Connectors, ConnectStep(t) PROVE CloseInv'
  <2>1. \A u \in Callers : pc'[u] \in Detaching <=> pc[u] \in Detaching
    <3>1. Moved(t, ConnectAll) /\ pc[t] \in ConnectAll
        BY <1>3, ConnectMoves
    <3>2. ConnectAll \cap Detaching = {}
        BY DEF ConnectAll, ConnectPlaces, PublishPlaces, InvalidPlaces
    <3>3. \A u \in Callers : u # t => pc'[u] = pc[u]
        BY <3>1 DEF Moved, PlaceInv, Threads, Connectors
    <3>4. pc'[t] \in ConnectAll
        BY <3>1 DEF Moved, PlaceInv, Threads
    <3> QED BY <3>1, <3>2, <3>3, <3>4
  <2>2. closed' = closed
      BY <1>3 DEF ConnectStep, Ask, Lock, Begin, Validate, DialSucceeds, DialFails, Finish, Failed,
         Restore, Adopt, Handoff, Gates, Mark, Regate, Ungate, Verify, Check, Commit, Allow, Notify,
         NotifyRaises, Complete, Settle, Repair, Relost, Invalid, Unmark, Discard, Shut, Same, Reset,
         Lose, Raise, sessionVars
  <2>3. client' \in {client, NoClient} \/ ~closed
      BY <1>3 DEF ConnectStep, Ask, Lock, Begin, Validate, DialSucceeds, DialFails, Finish, Failed,
         Restore, Adopt, Handoff, Gates, Mark, Regate, Ungate, Verify, Check, Commit, Allow, Notify,
         NotifyRaises, Complete, Settle, Repair, Relost, Invalid, Unmark, Discard, Shut, Same, Reset,
         Lose, Raise, sessionVars, Closing
  <2> QED BY <1>1, <2>1, <2>2, <2>3
<1>4. ASSUME NEW t \in Callers, CloseStep(t) PROVE CloseInv'
  <2>1. ASSUME NEW p, pc' = [pc EXCEPT ![t] = p]
        PROVE  pc'[t] = p /\ \A u \in Callers : u # t => pc'[u] = pc[u]
      BY <2>1 DEF PlaceInv, Threads, Connectors
  <2>2. CASE Close(t)
    <3>1. pc[t] = "close" /\ pc' = [pc EXCEPT ![t] = IF closed THEN "idle" ELSE "signal"]
          /\ closed' = TRUE /\ client' = client
        BY <2>2 DEF Close, At, Goto
    <3>2. CASE closed
      <4>1. pc'[t] = "idle" /\ \A u \in Callers : u # t => pc'[u] = pc[u]
          BY <2>1, <3>1, <3>2
      <4> QED BY <3>1, <3>2, <4>1
    <3>3. CASE ~closed
      <4>1. pc'[t] = "signal"
          BY <2>1, <3>1, <3>3
      <4> QED BY <3>1, <4>1
    <3> QED BY <3>2, <3>3
  <2>3. CASE Signal(t) \/ MeshClose(t)
    <3>1. pc[t] \in {"signal", "meshClose"} /\ closed' = closed /\ client' = client
          /\ \E p \in {"meshClose", "detach"} : pc' = [pc EXCEPT ![t] = p]
        BY <2>3 DEF Signal, MeshClose, At, Goto, sessionVars
    <3>2. pc'[t] \in {"meshClose", "detach"} /\ \A u \in Callers : u # t => pc'[u] = pc[u]
        BY <2>1, <3>1
    <3> QED BY <1>1, <3>1, <3>2
  <2>4. CASE Detach(t)
    <3>1. client' = NoClient /\ closed' = closed /\ pc' = [pc EXCEPT ![t] = "consume"]
        BY <2>4 DEF Detach, Goto
    <3>2. pc'[t] = "consume" /\ \A u \in Callers : u # t => pc'[u] = pc[u]
        BY <2>1, <3>1
    <3> QED BY <3>1, <3>2
  <2>5. CASE Consume(t) \/ Final(t)
    <3>1. pc[t] \in {"consume", "final"} /\ closed' = closed /\ client' = client
          /\ \E p \in {"final", "idle"} : pc' = [pc EXCEPT ![t] = p]
        BY <2>5 DEF Consume, Final, At, Goto
    <3>2. pc'[t] \in {"final", "idle"} /\ \A u \in Callers : u # t => pc'[u] = pc[u]
        BY <2>1, <3>1
    <3> QED BY <1>1, <3>1, <3>2
  <2> QED BY <1>4, <2>2, <2>3, <2>4, <2>5 DEF CloseStep
<1>5. ASSUME NEW h \in Handlers, HandlerStep(h) PROVE CloseInv'
  <2>1. \A u \in Callers : pc'[u] = pc[u]
    <3>1. h \notin Callers /\ Worker \notin Callers
        OBVIOUS
    <3> QED BY <1>5, <3>1, HandlerMoves DEF Moved, PlaceInv, Threads, Connectors
  <2>2. closed' = closed /\ client' \in {client, NoClient}
      BY <1>5 DEF HandlerStep, Report, Resolve, Vet, Recheck, Drop, Release, Lost, Wake, Schedule, sessionVars
  <2> QED BY <1>1, <2>1, <2>2
<1>6. ASSUME WorkerLoop \/ WorkerExit PROVE CloseInv'
  <2>1. \A u \in Callers : pc'[u] = pc[u]
      BY <1>6 DEF WorkerLoop, WorkerExit, Goto, PlaceInv, Threads, Connectors
  <2> QED BY <1>1, <1>6, <2>1 DEF WorkerLoop, WorkerExit, sessionVars
<1>7. ASSUME NEW c \in Clients, LinkDrops(c) PROVE CloseInv'
    BY <1>7 DEF LinkDrops, sessionVars
<1>8. ASSUME UNCHANGED vars PROVE CloseInv'
    BY <1>8 DEF vars, sessionVars
<1> QED BY <1>2, <1>3, <1>4, <1>5, <1>6, <1>7, <1>8 DEF Next

LEMMA CloseInit == Init => PlaceInv /\ ClientInv /\ CloseInv
<1> SUFFICES ASSUME Init PROVE PlaceInv /\ ClientInv /\ CloseInv
    OBVIOUS
<1>1. "idle" \in Places
    BY DEF Places
<1>2. PlaceInv
    BY <1>1 DEF Init, PlaceInv
<1>3. ClientInv
    BY DEF Init, ClientInv
<1>4. CloseInv
    BY DEF Init, CloseInv, ClosedHasNoClient, Detaching, Threads, Connectors
<1> QED BY <1>2, <1>3, <1>4

\* A connect() that was dialling while close() ran does not install its client afterwards, for
\* any number of overlapping calls, callbacks and reconnect attempts.
THEOREM NothingAfterClose == Spec => []ClosedHasNoClient
<1>1. PlaceInv /\ ClientInv /\ CloseInv /\ [Next]_vars => PlaceInv' /\ ClientInv' /\ CloseInv'
    BY PlaceStep, ClientStep, CloseStep2
<1>2. CloseInv => ClosedHasNoClient
    BY DEF CloseInv
<1> QED BY <1>1, <1>2, CloseInit, PTL DEF Spec

----------------------------------------------------------------------------
(* Who takes a living client.                                              *)

\* A callback that is being resolved is about a link that has gone.
PlanInv ==
    /\ DOMAIN plan = Handlers
    /\ \A h \in Handlers : /\ "client" \in DOMAIN plan[h]
                           /\ plan[h].client \in Clients \cup {NoClient}
                           /\ pc[h] = "resolve" => Gone(plan[h].client)

LEMMA PlanStep == PlaceInv /\ ClientInv /\ LinksInv /\ PlanInv /\ [Next]_vars => PlanInv'
<1> SUFFICES ASSUME PlaceInv, ClientInv, LinksInv, PlanInv, [Next]_vars PROVE PlanInv'
    OBVIOUS
<1> USE SessionAssumption
<1>1. \A c \in Clients : Gone(c) => Gone(c)'
    BY LinkStep DEF PlanInv, Links
<1>2. ASSUME plan' = plan, \A h \in Handlers : pc'[h] = "resolve" => pc[h] = "resolve" PROVE PlanInv'
    BY <1>1, <1>2 DEF PlanInv, Gone
<1>3. ASSUME NEW t \in Callers \cup Connectors, NEW p, pc' = [pc EXCEPT ![t] = p]
      PROVE  \A h \in Handlers : pc'[h] = pc[h]
    BY <1>3 DEF PlaceInv, Threads, Connectors
<1>4. ASSUME NEW t \in Callers, NEW op, Call(t, op) PROVE PlanInv'
    BY <1>2, <1>3, <1>4 DEF Call, Goto
<1>5. ASSUME NEW t \in Connectors, ConnectStep(t) PROVE PlanInv'
  <2>1. \A h \in Handlers : pc'[h] = pc[h]
      BY <1>3, <1>5, ConnectMoves DEF Moved
  <2>2. plan' = plan
      BY <1>5 DEF ConnectStep, Ask, Lock, Begin, Validate, DialSucceeds, DialFails, Finish, Failed,
         Restore, Adopt, Handoff, Gates, Mark, Regate, Ungate, Verify, Check, Commit, Allow, Notify,
         NotifyRaises, Complete, Settle, Repair, Relost, Invalid, Unmark, Discard, Shut, Same, Reset,
         Lose, Raise
  <2> QED BY <1>2, <2>1, <2>2
<1>6. ASSUME NEW t \in Callers, CloseStep(t) PROVE PlanInv'
  <2>1. \A h \in Handlers : pc'[h] = pc[h]
      BY <1>3, <1>6, CloseMoves DEF Moved
  <2>2. plan' = plan
      BY <1>6 DEF CloseStep, Close, Signal, MeshClose, Detach, Consume, Final
  <2> QED BY <1>2, <2>1, <2>2
<1>7. ASSUME NEW h \in Handlers, HandlerStep(h) PROVE PlanInv'
  <2>1. ASSUME NEW p, pc' = [pc EXCEPT ![h] = p]
        PROVE  pc'[h] = p /\ \A g \in Handlers : g # h => pc'[g] = pc[g]
      BY <2>1 DEF PlaceInv, Threads, Connectors
  <2>2. ASSUME NEW r, plan' = [plan EXCEPT ![h] = r]
        PROVE  plan'[h] = r /\ DOMAIN plan' = Handlers /\ \A g \in Handlers : g # h => plan'[g] = plan[g]
      BY <2>2 DEF PlanInv
  <2>3. "client" \in DOMAIN NoPlan /\ NoPlan.client = NoClient
      BY DEF NoPlan
  <2>4. ASSUME NEW c \in Clients, Report(h, c) PROVE PlanInv'
    <3>1. Gone(c)
        BY <2>4 DEF Report, LinksInv, DueInv, Gone
    <3>2. /\ plan' = [plan EXCEPT ![h].client = c]
          /\ \E p : pc' = [pc EXCEPT ![h] = p]
        BY <2>4 DEF Report, Goto
    <3>3. /\ DOMAIN plan' = Handlers /\ plan'[h] = [plan[h] EXCEPT !.client = c]
          /\ \A g \in Handlers : g # h => plan'[g] = plan[g]
        BY <3>2 DEF PlanInv
    <3>4. "client" \in DOMAIN plan'[h] /\ plan'[h].client = c
        BY <3>3 DEF PlanInv
    <3>5. \A g \in Handlers : g # h => pc'[g] = pc[g]
        BY <2>1, <3>2
    <3>6. Gone(c)'
        BY <1>1, <3>1
    <3> QED BY <1>1, <3>3, <3>4, <3>5, <3>6 DEF PlanInv, Gone
  <2>5. ASSUME NEW r, plan' = [plan EXCEPT ![h] = r], "client" \in DOMAIN r, r.client \in Clients \cup {NoClient},
               NEW p \in Places \ {"resolve"}, pc' = [pc EXCEPT ![h] = p]
        PROVE  PlanInv'
    <3>1. plan'[h] = r /\ DOMAIN plan' = Handlers /\ \A g \in Handlers : g # h => plan'[g] = plan[g]
        BY <2>2, <2>5
    <3>2. pc'[h] = p /\ \A g \in Handlers : g # h => pc'[g] = pc[g]
        BY <2>1, <2>5
    <3> QED BY <1>1, <2>5, <3>1, <3>2 DEF PlanInv, Gone
  <2>6. {"idle", "vet", "drop", "recheck", "release", "lost", "wake", "schedule"} \subseteq Places
      BY DEF Places, HandlerPlaces
  <2>7. CASE Resolve(h)
    <3>1. CASE Accepts(plan[h].client)
      <4> DEFINE r == [client |-> client, epoch |-> epoch, provisional |-> pending /\ ~replacing]
      <4>1. "client" \in DOMAIN r /\ r.client = client
          OBVIOUS
      <4>2. plan' = [plan EXCEPT ![h] = r] /\ pc' = [pc EXCEPT ![h] = "vet"]
          BY <2>7, <3>1 DEF Resolve, Goto
      <4> QED BY <2>5, <2>6, <4>1, <4>2 DEF ClientInv
    <3>2. CASE ~Accepts(plan[h].client)
      <4>1. plan' = [plan EXCEPT ![h] = NoPlan] /\ pc' = [pc EXCEPT ![h] = "idle"]
          BY <2>7, <3>2 DEF Resolve, Goto
      <4> QED BY <2>3, <2>5, <2>6, <4>1
    <3> QED BY <3>1, <3>2
  <2>8. ASSUME plan' \in {plan, [plan EXCEPT ![h] = NoPlan]},
               NEW p \in Places \ {"resolve"}, pc' = [pc EXCEPT ![h] = p]
        PROVE  PlanInv'
    <3>1. CASE plan' = plan
      <4>1. \A g \in Handlers : pc'[g] = "resolve" => pc[g] = "resolve"
          BY <2>1, <2>8
      <4> QED BY <1>2, <3>1, <4>1
    <3>2. CASE plan' = [plan EXCEPT ![h] = NoPlan]
        BY <2>3, <2>5, <2>8, <3>2
    <3> QED BY <2>8, <3>1, <3>2
  <2>9. CASE Vet(h) \/ Recheck(h)
    <3>1. plan' \in {plan, [plan EXCEPT ![h] = NoPlan]}
        BY <2>9 DEF Vet, Recheck
    <3>2. \E p \in {"drop", "idle", "recheck", "release"} : pc' = [pc EXCEPT ![h] = p]
        BY <2>9 DEF Vet, Recheck, Goto
    <3> QED BY <2>6, <2>8, <3>1, <3>2
  <2>10. CASE Drop(h) \/ Release(h) \/ Lost(h) \/ Wake(h)
    <3>1. plan' \in {plan, [plan EXCEPT ![h] = NoPlan]}
        BY <2>10 DEF Drop, Release, Lost, Wake
    <3>2. \E p \in {"idle", "lost", "wake", "schedule"} : pc' = [pc EXCEPT ![h] = p]
        BY <2>10 DEF Drop, Release, Lost, Wake, Goto
    <3> QED BY <2>6, <2>8, <3>1, <3>2
  <2>11. CASE Schedule(h)
    <3>1. CASE pc' = [pc EXCEPT ![h] = "idle"]
        BY <2>6, <2>8, <2>11, <3>1 DEF Schedule
    <3>2. CASE pc' = [pc EXCEPT ![h] = "idle", ![Worker] = "loop"]
      <4>1. \A g \in Handlers : pc'[g] = "resolve" => pc[g] = "resolve"
          BY <3>2 DEF PlaceInv, Threads, Connectors
      <4> QED BY <1>2, <2>11, <4>1 DEF Schedule
    <3> QED BY <2>11, <3>1, <3>2 DEF Schedule, Goto
  <2> QED BY <1>7, <2>4, <2>7, <2>9, <2>10, <2>11 DEF HandlerStep
<1>8. ASSUME WorkerLoop \/ WorkerExit PROVE PlanInv'
  <2>1. Worker \in Connectors
      BY DEF Connectors
  <2>2. \A h \in Handlers : pc'[h] = pc[h]
      BY <1>3, <1>8, <2>1 DEF WorkerLoop, WorkerExit, Goto
  <2> QED BY <1>2, <1>8, <2>2 DEF WorkerLoop, WorkerExit
<1>9. ASSUME NEW c \in Clients, LinkDrops(c) PROVE PlanInv'
    BY <1>2, <1>9 DEF LinkDrops
<1>10. ASSUME UNCHANGED vars PROVE PlanInv'
    BY <1>2, <1>10 DEF vars
<1> QED BY <1>4, <1>5, <1>6, <1>7, <1>8, <1>9, <1>10 DEF Next

\* A client whose link is up is taken from the interface only by close(), by the connect()
\* that discards its own result, or by its successor, for any number of clients, late
\* callbacks and overlapping calls.
THEOREM OnlyItsOwnDisconnect == Spec => LiveClientKept
<1> DEFINE Inv == PlaceInv /\ ClientInv /\ CloseInv /\ LinksInv /\ PlanInv
           Kept == client # NoClient /\ link[client] = "up" /\ client' # client
                     => \/ closed
                        \/ \E t \in Connectors : At(t, "discard") /\ mine[t] = client
                        \/ \E t \in Connectors : At(t, "adopt") /\ client' = mine[t]
<1>1. Init => Inv
  <2> SUFFICES ASSUME Init PROVE LinksInv /\ PlanInv
      BY CloseInit
  <2>1. LinksInv
      BY DEF Init, LinksInv, LinkInv, DueInv
  <2>2. PlanInv
    <3>1. "client" \in DOMAIN NoPlan /\ NoPlan.client = NoClient
        BY DEF NoPlan
    <3> QED BY <3>1, SessionAssumption DEF Init, PlanInv, Threads, Connectors
  <2> QED BY <2>1, <2>2
<1>2. Inv /\ [Next]_vars => Inv'
  <2> SUFFICES ASSUME Inv, [Next]_vars PROVE Inv'
      OBVIOUS
  <2>1. PlaceInv' /\ ClientInv' /\ CloseInv' /\ PlanInv'
      BY PlaceStep, ClientStep, CloseStep2, PlanStep
  <2>2. LinksInv'
      BY LinkStep DEF PlanInv, Links, LinksInv
  <2> QED BY <2>1, <2>2
<1>3. Inv /\ [Next]_vars => [Kept]_vars
  <2> SUFFICES ASSUME Inv, Next, client # NoClient, link[client] = "up", client' # client, ~closed
               PROVE  \/ \E t \in Connectors : At(t, "discard") /\ mine[t] = client
                      \/ \E t \in Connectors : At(t, "adopt") /\ client' = mine[t]
      OBVIOUS
  <2>1. ASSUME NEW t \in Connectors, ConnectStep(t)
        PROVE  \/ At(t, "discard") /\ mine[t] = client
               \/ At(t, "adopt") /\ client' = mine[t]
      BY <2>1 DEF ConnectStep, Ask, Lock, Begin, Validate, DialSucceeds, DialFails, Finish, Failed,
         Restore, Adopt, Handoff, Gates, Mark, Regate, Ungate, Verify, Check, Commit, Allow, Notify,
         NotifyRaises, Complete, Settle, Repair, Relost, Invalid, Unmark, Discard, Shut, Same, Reset,
         Lose, Raise, sessionVars
  <2>2. ASSUME NEW t \in Callers, CloseStep(t) PROVE FALSE
      BY <2>2 DEF CloseStep, Close, Signal, MeshClose, Detach, Consume, Final, sessionVars, CloseInv,
         Detaching, At
  <2>3. ASSUME NEW h \in Handlers, HandlerStep(h) PROVE FALSE
    <3>1. Resolve(h)
        BY <2>3 DEF HandlerStep, Report, Vet, Recheck, Drop, Release, Lost, Wake, Schedule, sessionVars
    <3>2. Accepts(plan[h].client)
        BY <3>1 DEF Resolve
    <3>3. plan[h].client = client
        BY <3>2 DEF Accepts
    <3>4. Gone(client)
        BY <3>1, <3>3 DEF Resolve, PlanInv, At
    <3> QED BY <3>4 DEF Gone
  <2>4. ASSUME NEW t \in Callers, NEW op, Call(t, op) PROVE FALSE
      BY <2>4 DEF Call, sessionVars
  <2>5. ASSUME WorkerLoop \/ WorkerExit PROVE FALSE
      BY <2>5 DEF WorkerLoop, WorkerExit, sessionVars
  <2>6. ASSUME NEW c \in Clients, LinkDrops(c) PROVE FALSE
      BY <2>6 DEF LinkDrops, sessionVars
  <2> QED BY <2>1, <2>2, <2>3, <2>4, <2>5, <2>6 DEF Next
<1>4. LiveClientKept <=> [][Kept]_vars
    BY DEF LiveClientKept
<1> QED BY <1>1, <1>2, <1>3, PTL DEF Spec, LiveClientKept

----------------------------------------------------------------------------
(* What is left when every thread has finished.  The places of a connect:  *)

\* The flags are provisional: the transaction will restore or adopt.
Transacting == {"validate", "dial", "finish", "failed", "restore", "adopt"}
\* _connect_lock is held.
Locked == Transacting \cup {"begin", "handoff"}
\* The result was adopted and may still be the interface's client.
Adopted == {"handoff", "gates", "mark", "regate", "ungate", "verify", "check", "commit", "allow",
            "notify", "complete", "settle", "invalid", "unmark", "discard"}
\* The result was taken back.
Discarded == {"shut", "same", "reset", "lose"}
\* The thread has a client that is not the interface's.
Apart == {"finish", "failed", "adopt"} \cup Discarded
Holding == {"finish", "adopt"} \cup Adopted \cup Discarded
\* The publication is claimed for the thread's client.
Announcing == {"check", "commit", "allow", "notify", "complete", "settle"}
Invalidated == {"invalid", "unmark", "discard"} \cup Discarded
\* A close() that has not consumed the session yet.
Consuming == Detaching \cup {"consume"}

LocalInv ==
    /\ DOMAIN seen = Connectors /\ DOMAIN completed = Connectors /\ DOMAIN undo = Connectors

\* The connect lock, the worker's reference and the closed flag follow the threads' places.
HeldInv ==
    /\ \A t \in Connectors : pc[t] \in Locked <=> connectLock = t
    /\ ~workerRef => pc[Worker] = "idle"
    /\ \A t \in Callers : pc[t] \in Consuming => closed

\* A thread at a place of its own has a client of its own.
MineInv ==
    /\ client # NoClient => link[client] # "unused"
    /\ \A t \in Connectors : mine[t] # NoClient => link[mine[t]] # "unused"
    /\ \A t, u \in Connectors : mine[t] = mine[u] /\ mine[t] # NoClient => t = u
    /\ \A t \in Connectors : pc[t] \in Holding => mine[t] # NoClient
    /\ \A t \in Connectors :
           mine[t] # NoClient => pc[t] \in Holding \cup {"failed", "raise", "repair"}
    /\ \A t \in Connectors : pc[t] \in Apart /\ mine[t] # NoClient => client # mine[t]

\* Every link that is up is the interface's or in the hands of a connect that will adopt
\* or close it.
LinkHeld ==
    \A c \in Clients : link[c] = "up" =>
        \/ client = c
        \/ \E t \in Connectors : mine[t] = c /\ pc[t] \in {"finish", "failed", "adopt", "shut"}

\* The client being published is that of a thread that will give the publication back.
InflightHeld ==
    inflight # NoClient =>
        \E t \in Connectors :
            /\ mine[t] = inflight
            /\ pc[t] \in Announcing \/ (pc[t] \in Invalidated /\ "settle" \in undo[t])

\* Somebody is going to give the provisional flags back.
Owing ==
    \/ \E t \in Connectors : pc[t] \in Transacting
    \/ \E t \in Connectors : pc[t] \in Adopted /\ client = mine[t]
    \/ \E t \in Callers : pc[t] \in Consuming
FlagsOwed == (pending \/ (replacing /\ ~HeartbeatFails)) => Owing

\* The interface's client is pending as long as its connect is under way.
OwnerIsPending == \A t \in Connectors : pc[t] \in Adopted /\ client = mine[t] => pending \/ closed

\* No connect of an adopted client is under way beside a transaction.
TransactionIsAlone ==
    \A t, u \in Connectors : pc[t] \in Transacting \cup {"begin"} /\ pc[u] \in Adopted => client # mine[u]

\* A transaction finds the flags clear and remembers them so.
SnapshotIsClean ==
    /\ ~snap.pending /\ (snap.replacing => HeartbeatFails)
    /\ \A t \in Connectors : pc[t] = "begin" => ~pending /\ (replacing => HeartbeatFails)

\* A publication that still has the client is that of the current session and completes.
SessionIsCurrent ==
    \A t \in Connectors : client = mine[t] =>
        /\ pc[t] \in {"allow", "notify", "complete"} => epoch = seen[t]
        /\ pc[t] = "settle" /\ ~HeartbeatFails => completed[t]

FlagInv == FlagsOwed /\ OwnerIsPending /\ TransactionIsAlone /\ SnapshotIsClean /\ SessionIsCurrent

LEMMA ThreadKinds ==
    /\ Callers \subseteq Connectors /\ Connectors \subseteq Threads /\ Handlers \subseteq Threads
    /\ Worker \in Connectors /\ Worker \notin Callers /\ Worker \notin Handlers
    /\ \A h \in Handlers : h \notin Connectors
    BY SessionAssumption DEF Threads, Connectors

\* A thread goes from one place to another.
Move(t, p, q) == pc[t] = p /\ pc'[t] = q /\ \A u \in Threads : u # t => pc'[u] = pc[u]

LEMMA Moves ==
    ASSUME PlaceInv, NEW t \in Threads, NEW q, Goto(t, q)
    PROVE  Move(t, pc[t], q)
    BY DEF PlaceInv, Goto, Move

LEMMA LocalStep == LocalInv /\ [Next]_vars => LocalInv'
<1> SUFFICES ASSUME LocalInv, [Next]_vars PROVE LocalInv'
    OBVIOUS
<1>1. ASSUME UNCHANGED <<seen, completed, undo>> PROVE LocalInv'
    BY <1>1 DEF LocalInv
<1>2. ASSUME NEW t \in Callers, NEW op, Call(t, op) PROVE LocalInv'
    BY <1>1, <1>2 DEF Call, localVars
<1>3. ASSUME NEW t \in Connectors, ConnectStep(t) PROVE LocalInv'
  <2>1. CASE Commit(t) \/ Allow(t) \/ NotifyRaises(t) \/ Complete(t) \/ Repair(t)
      BY <2>1 DEF Commit, Allow, NotifyRaises, Complete, Repair, LocalInv
  <2>2. CASE Discard(t)
      BY <2>2 DEF Discard, LocalInv
  <2>3. CASE Raise(t)
      BY <2>3 DEF Raise, LocalInv
  <2>4. CASE Ask(t) \/ Lock(t) \/ Begin(t) \/ Validate(t) \/ DialSucceeds(t) \/ DialFails(t) \/ Finish(t)
             \/ Failed(t) \/ Restore(t) \/ Adopt(t) \/ Handoff(t) \/ Gates(t) \/ Mark(t) \/ Regate(t)
      BY <1>1, <2>4 DEF Ask, Lock, Begin, Validate, DialSucceeds, DialFails, Finish, Failed, Restore,
         Adopt, Handoff, Gates, Mark, Regate, localVars
  <2>5. CASE Ungate(t) \/ Verify(t) \/ Check(t) \/ Notify(t) \/ Settle(t) \/ Relost(t) \/ Invalid(t)
             \/ Unmark(t) \/ Shut(t) \/ Same(t) \/ Reset(t) \/ Lose(t)
      BY <1>1, <2>5 DEF Ungate, Verify, Check, Notify, Settle, Relost, Invalid, Unmark, Shut, Same,
         Reset, Lose, localVars
  <2> QED BY <1>3, <2>1, <2>2, <2>3, <2>4, <2>5 DEF ConnectStep
<1>4. ASSUME NEW t \in Callers, CloseStep(t) PROVE LocalInv'
    BY <1>1, <1>4 DEF CloseStep, Close, Signal, MeshClose, Detach, Consume, Final, localVars
<1>5. ASSUME NEW h \in Handlers, HandlerStep(h) PROVE LocalInv'
    BY <1>1, <1>5 DEF HandlerStep, Report, Resolve, Vet, Recheck, Drop, Release, Lost, Wake, Schedule,
       localVars
<1>6. ASSUME WorkerLoop \/ WorkerExit PROVE LocalInv'
    BY <1>1, <1>6 DEF WorkerLoop, WorkerExit, localVars
<1>7. ASSUME NEW c \in Clients, LinkDrops(c) PROVE LocalInv'
    BY <1>1, <1>7 DEF LinkDrops, localVars
<1>8. ASSUME UNCHANGED vars PROVE LocalInv'
    BY <1>1, <1>8 DEF vars, localVars
<1> QED BY <1>2, <1>3, <1>4, <1>5, <1>6, <1>7, <1>8 DEF Next

LEMMA HeldStep == PlaceInv /\ HeldInv /\ [Next]_vars => HeldInv'
<1> SUFFICES ASSUME PlaceInv, HeldInv, [Next]_vars PROVE HeldInv'
    OBVIOUS
<1> USE ThreadKinds
<1>1. ASSUME NEW t \in Threads, NEW p, NEW q, Move(t, p, q), t \in Connectors => (p \in Locked <=> q \in Locked),
             q \in Consuming => p \in Consuming \/ closed', closed => closed', connectLock' = connectLock,
             t = Worker => p # "idle", workerRef' = workerRef
      PROVE  HeldInv'
    BY <1>1 DEF HeldInv, Move
<1> USE DEF Locked, Transacting, Consuming, Detaching
<1>2. ASSUME NEW t \in Callers, NEW op \in {"ask", "close"}, Call(t, op) PROVE HeldInv'
  <2>1. Move(t, "idle", op)
      BY <1>2, Moves DEF Call, At
  <2> QED BY <1>1, <1>2, <2>1 DEF Call, sessionVars, workerVars, lockVars
<1>3. ASSUME NEW t \in Connectors, ConnectStep(t) PROVE HeldInv'
  <2> DEFINE RefsKept == closed' = closed /\ workerRef' = workerRef
  <2>1. ASSUME NEW p, NEW q, Move(t, p, q), p # "idle", RefsKept, connectLock' = connectLock,
               p \in Locked <=> q \in Locked, q \notin Consuming
        PROVE  HeldInv'
      BY <1>1, <2>1
  <2> USE Moves DEF At, sessionVars, workerVars, lockVars, Returned, Raised
  <2>2. CASE Lock(t)
    <3>1. CASE ~Closing /\ ~ExistingValid /\ ~pending
      <4>1. Move(t, "lock", "begin") /\ connectLock' = t /\ connectLock = NoClient /\ RefsKept
          BY <2>2, <3>1 DEF Lock
      <4> QED BY <4>1, SessionAssumption DEF HeldInv, Move, Threads, Connectors
    <3>2. CASE ~(~Closing /\ ~ExistingValid /\ ~pending)
      <4>1. RefsKept /\ connectLock' = connectLock
          BY <2>2, <3>2 DEF Lock
      <4>2. \E q \in {"exit", "idle", "loop"} : Move(t, "lock", q)
          BY <2>2, <3>2 DEF Lock
      <4> QED BY <2>1, <4>1, <4>2
    <3> QED BY <3>1, <3>2
  <2>3. CASE Begin(t) \/ Validate(t) \/ DialSucceeds(t) \/ DialFails(t) \/ Finish(t) \/ Failed(t)
    <3>1. RefsKept /\ connectLock' = connectLock
        BY <2>3 DEF Begin, Validate, DialSucceeds, DialFails, Finish, Failed
    <3>2. \E p \in {"begin", "validate", "dial", "finish", "failed"},
             q \in {"validate", "dial", "restore", "finish", "failed", "adopt"} : Move(t, p, q)
        BY <2>3 DEF Begin, Validate, DialSucceeds, DialFails, Finish, Failed
    <3> QED BY <2>1, <3>1, <3>2
  <2>4. CASE Restore(t) \/ Handoff(t)
    <3>1. RefsKept /\ connectLock' = NoClient
        BY <2>4 DEF Restore, Handoff
    <3>2. \E p \in {"restore", "handoff"}, q \in {"idle", "loop", "gates"} : Move(t, p, q)
        BY <2>4 DEF Restore, Handoff
    <3> QED BY <3>1, <3>2, SessionAssumption DEF HeldInv, Move, Threads, Connectors
  <2>5. CASE Adopt(t)
    <3>1. CASE connectLock' = connectLock /\ Goto(t, "handoff")
      <4>1. RefsKept /\ Move(t, "adopt", "handoff")
          BY <2>5, <3>1 DEF Adopt
      <4> QED BY <2>1, <3>1, <4>1
    <3>2. CASE connectLock' = NoClient /\ Goto(t, Raised(t))
      <4>1. RefsKept /\ \E q \in {"idle", "loop"} : Move(t, "adopt", q)
          BY <2>5, <3>2 DEF Adopt
      <4> QED BY <3>2, <4>1, SessionAssumption DEF HeldInv, Move, Threads, Connectors
    <3> QED BY <2>5, <3>1, <3>2 DEF Adopt
  <2>6. CASE Ask(t) \/ Gates(t) \/ Mark(t) \/ Regate(t) \/ Ungate(t) \/ Verify(t) \/ Check(t)
    <3>1. RefsKept /\ connectLock' = connectLock
        BY <2>6 DEF Ask, Gates, Mark, Regate, Ungate, Verify, Check
    <3>2. \E p \in {"ask", "gates", "mark", "regate", "ungate", "verify", "check"},
             q \in {"lock", "exit", "idle", "loop", "mark", "verify", "ungate", "regate", "check", "commit",
                    "invalid"} : Move(t, p, q)
        BY <2>6 DEF Ask, Gates, Mark, Regate, Ungate, Verify, Check
    <3> QED BY <2>1, <3>1, <3>2
  <2>7. CASE Commit(t) \/ Allow(t) \/ Notify(t) \/ NotifyRaises(t) \/ Complete(t) \/ Settle(t) \/ Repair(t) \/ Relost(t)
    <3>1. RefsKept /\ connectLock' = connectLock
        BY <2>7 DEF Commit, Allow, Notify, NotifyRaises, Complete, Settle, Repair, Relost
    <3>2. \E p \in {"commit", "allow", "notify", "complete", "settle", "repair", "relost"},
             q \in {"allow", "invalid", "notify", "complete", "settle", "repair", "raise", "relost", "exit",
                    "idle"} : Move(t, p, q)
        BY <2>7 DEF Commit, Allow, Notify, NotifyRaises, Complete, Settle, Repair, Relost
    <3> QED BY <2>1, <3>1, <3>2
  <2>8. CASE Invalid(t) \/ Unmark(t) \/ Discard(t) \/ Shut(t) \/ Same(t) \/ Reset(t) \/ Lose(t) \/ Raise(t)
    <3>1. closed' = closed /\ workerRef' = workerRef /\ connectLock' = connectLock
        BY <2>8 DEF Invalid, Unmark, Discard, Shut, Same, Reset, Lose, Raise
    <3>2. \E p \in InvalidPlaces, q \in InvalidPlaces \cup {"settle", "idle", "loop"} : Move(t, p, q)
        BY <2>8 DEF Invalid, Unmark, Discard, Shut, Same, Reset, Lose, Raise, InvalidPlaces
    <3> QED BY <2>1, <3>1, <3>2 DEF InvalidPlaces
  <2> QED BY <1>3, <2>2, <2>3, <2>4, <2>5, <2>6, <2>7, <2>8 DEF ConnectStep
<1>4. ASSUME NEW t \in Callers, CloseStep(t) PROVE HeldInv'
  <2> USE DEF At, workerVars, lockVars, sessionVars
  <2>1. CASE Close(t)
    <3>1. Move(t, "close", IF closed THEN "idle" ELSE "signal") /\ closed' = TRUE
        BY <2>1, Moves DEF Close
    <3> QED BY <1>1, <2>1, <3>1 DEF Close
  <2>2. CASE Signal(t) \/ MeshClose(t) \/ Detach(t) \/ Consume(t) \/ Final(t)
    <3>1. closed' = closed /\ workerRef' = workerRef /\ connectLock' = connectLock
        BY <2>2 DEF Signal, MeshClose, Detach, Consume, Final
    <3>2. \/ \E p \in {"signal", "meshClose", "detach"}, q \in {"meshClose", "detach", "consume"} : Move(t, p, q)
          \/ \E p \in {"consume", "final"}, q \in {"idle", "final"} : Move(t, p, q)
        BY <2>2, Moves DEF Signal, MeshClose, Detach, Consume, Final
    <3> QED BY <1>1, <3>1, <3>2
  <2> QED BY <1>4, <2>1, <2>2 DEF CloseStep
<1>5. ASSUME NEW h \in Handlers, HandlerStep(h) PROVE HeldInv'
  <2> USE DEF At, workerVars, lockVars, sessionVars
  <2>1. closed' = closed /\ connectLock' = connectLock
      BY <1>5 DEF HandlerStep, Report, Resolve, Vet, Recheck, Drop, Release, Lost, Wake, Schedule
  <2>2. CASE Moved(h, HandlerPlaces \cup {"idle"}) /\ workerRef' = workerRef
    <3>1. PICK q \in HandlerPlaces \cup {"idle"} : Move(h, pc[h], q)
        BY <2>2, Moves DEF Moved, Goto
    <3> QED BY <1>1, <2>1, <2>2, <3>1 DEF HandlerPlaces
  <2>3. CASE workerRef' = TRUE /\ ~workerRef /\ pc' = [pc EXCEPT ![h] = "idle", ![Worker] = "loop"]
    <3>1. pc'[Worker] = "loop" /\ \A u \in Connectors : u # Worker => pc'[u] = pc[u]
        BY <2>3 DEF PlaceInv
    <3> QED BY <2>1, <2>3, <3>1 DEF HeldInv
  <2>4. CASE Schedule(h)
    <3>1. \/ workerRef' = workerRef /\ Goto(h, "idle")
          \/ workerRef' = TRUE /\ ~workerRef /\ pc' = [pc EXCEPT ![h] = "idle", ![Worker] = "loop"]
        BY <2>4 DEF Schedule
    <3> QED BY <2>2, <2>3, <3>1 DEF Moved, Goto
  <2>5. CASE \E c \in Clients : Report(h, c)
      BY <2>2, <2>5 DEF Report, Moved, Goto, HandlerPlaces
  <2>6. CASE Resolve(h) \/ Vet(h) \/ Recheck(h)
      BY <2>2, <2>6 DEF Resolve, Vet, Recheck, Moved, Goto, HandlerPlaces
  <2>7. CASE Drop(h) \/ Release(h) \/ Lost(h) \/ Wake(h)
      BY <2>2, <2>7 DEF Drop, Release, Lost, Wake, Moved, Goto, HandlerPlaces
  <2> QED BY <1>5, <2>4, <2>5, <2>6, <2>7 DEF HandlerStep
<1>6. CASE WorkerLoop
  <2>1. \E q \in {"exit", "ask"} : Move(Worker, "loop", q)
      BY <1>6, Moves DEF WorkerLoop, At
  <2> QED BY <1>1, <1>6, <2>1 DEF WorkerLoop, sessionVars, workerVars, lockVars
<1>7. CASE WorkerExit
  <2>1. Move(Worker, "exit", "idle")
      BY <1>7, Moves DEF WorkerExit, At
  <2> QED BY <1>7, <2>1 DEF WorkerExit, sessionVars, lockVars, HeldInv, Move
<1>8. ASSUME NEW c \in Clients, LinkDrops(c) PROVE HeldInv'
    BY <1>8 DEF LinkDrops, HeldInv, sessionVars, workerVars, lockVars
<1>9. ASSUME UNCHANGED vars PROVE HeldInv'
    BY <1>9 DEF vars, HeldInv, sessionVars, workerVars, lockVars
<1> QED BY <1>2, <1>3, <1>4, <1>5, <1>6, <1>7, <1>8, <1>9 DEF Next

\* The rest of a run: steps outside the transaction, the publication and the discarding.
Outside == {"idle", "loop", "exit", "ask", "lock", "relost"} \cup ClosePlaces
OtherStep ==
    /\ UNCHANGED <<mine, seen, completed, undo, epoch, inflight, snap>>
    /\ closed => closed'
    /\ client' \in {client, NoClient}
    /\ \A c \in Clients : link'[c] = "up" => link[c] = "up" /\ (client' = client \/ client # c)
    /\ \A t \in Connectors : pc'[t] = pc[t] \/ (pc[t] \in Outside /\ pc'[t] \in Outside)
    /\ \/ ~pending' /\ ~replacing' /\ (client' = NoClient \/ closed')
       \/ /\ UNCHANGED <<pending, replacing>>
          /\ \A t \in Callers : pc[t] \in Consuming => pc'[t] \in Consuming
          /\ client' = client \/ \E t \in Callers : pc'[t] \in Consuming

CoreStep(t) ==
    \/ Lock(t) /\ connectLock' = t
    \/ Begin(t) \/ Validate(t) \/ DialSucceeds(t) \/ DialFails(t) \/ Finish(t) \/ Failed(t)
    \/ Restore(t) \/ Adopt(t) \/ Handoff(t) \/ Gates(t) \/ Mark(t) \/ Regate(t) \/ Ungate(t)
    \/ Verify(t) \/ Check(t) \/ Commit(t) \/ Allow(t) \/ Notify(t) \/ NotifyRaises(t)
    \/ Complete(t) \/ Settle(t) \/ Repair(t)
    \/ Invalid(t) \/ Unmark(t) \/ Discard(t) \/ Shut(t) \/ Same(t) \/ Reset(t) \/ Lose(t) \/ Raise(t)

LEMMA ClosesOnly ==
    ASSUME LinkInv, NEW c \in Clients \cup {NoClient}, CloseLink(c)
    PROVE  \A d \in Clients : /\ link'[d] = "up" => link[d] = "up" /\ d # c
                              /\ d # c => link'[d] = link[d]
<1>1. CASE c = NoClient
    BY <1>1, NoClientIsNone DEF CloseLink, linkVars
<1>2. CASE c # NoClient
    BY <1>2 DEF CloseLink, LinkInv
<1> QED BY <1>1, <1>2

LEMMA StepKinds ==
    PlaceInv /\ ClientInv /\ LinksInv /\ PlanInv /\ HeldInv /\ [Next]_vars
        => OtherStep \/ \E t \in Connectors : CoreStep(t)
<1> SUFFICES ASSUME PlaceInv, ClientInv, LinksInv, PlanInv, HeldInv, [Next]_vars
             PROVE  OtherStep \/ \E t \in Connectors : CoreStep(t)
    OBVIOUS
<1> USE ThreadKinds
<1> DEFINE Frame == UNCHANGED <<mine, seen, completed, undo, epoch, inflight, snap>>
           Flags == UNCHANGED <<client, closed, pending, replacing>>
           Ups == \A c \in Clients : link'[c] = "up" => link[c] = "up"
\* Steps of a thread that only go on.
<1>1. ASSUME NEW t \in Threads, NEW p, NEW q, Move(t, p, q), Frame, Flags, Ups,
             p \in Outside \/ t \in Handlers, q \in Outside \/ t \in Handlers,
             t \in Callers /\ p \in Consuming => q \in Consuming
      PROVE  OtherStep
    BY <1>1 DEF OtherStep, Move
<1> USE DEF At, sessionVars, localVars, linkVars, lockVars
<1>2. ASSUME NEW t \in Callers, NEW op \in {"ask", "close"}, Call(t, op) PROVE OtherStep
  <2>1. Move(t, "idle", op) /\ Frame /\ Flags /\ Ups
      BY <1>2, Moves DEF Call
  <2> QED BY <1>1, <2>1 DEF Outside, ClosePlaces, Consuming, Detaching
<1>3. ASSUME NEW t \in Connectors, ConnectStep(t), ~CoreStep(t) PROVE OtherStep
  <2>1. CASE Lock(t)
    <3>1. connectLock' = connectLock /\ \E q \in Outside : Move(t, "lock", q)
        BY <1>3, <2>1, Moves DEF Lock, CoreStep, Returned, Raised, Outside
    <3>2. Frame /\ Flags /\ Ups
        BY <2>1, <3>1 DEF Lock
    <3> QED BY <1>1, <3>1, <3>2 DEF Outside, Consuming, Detaching
  <2>2. CASE Ask(t) \/ Relost(t)
    <3>1. \E p \in {"ask", "relost"}, q \in Outside : Move(t, p, q)
        BY <2>2, Moves DEF Ask, Relost, Returned, Raised, Outside
    <3>2. Frame /\ Flags /\ Ups
        BY <2>2 DEF Ask, Relost
    <3> QED BY <1>1, <3>1, <3>2 DEF Outside, Consuming, Detaching
  <2> QED BY <1>3, <2>1, <2>2 DEF ConnectStep, CoreStep
<1>4. ASSUME NEW t \in Callers, CloseStep(t) PROVE OtherStep
  <2>1. CASE Close(t)
    <3>1. Move(t, "close", IF closed THEN "idle" ELSE "signal") /\ closed' = TRUE /\ Frame /\ Ups
          /\ UNCHANGED <<client, pending, replacing>>
        BY <2>1, Moves DEF Close
    <3> QED BY <3>1 DEF OtherStep, Outside, ClosePlaces, Consuming, Detaching, Move
  <2>2. CASE Signal(t) \/ MeshClose(t) \/ Final(t)
    <3>1. \/ \E p \in {"signal", "meshClose"}, q \in {"meshClose", "detach"} : Move(t, p, q)
          \/ Move(t, "final", "idle")
        BY <2>2, Moves DEF Signal, MeshClose, Final
    <3>2. Frame /\ Flags /\ Ups
        BY <2>2 DEF Signal, MeshClose, Final
    <3> QED BY <1>1, <3>1, <3>2 DEF Outside, ClosePlaces, Consuming, Detaching
  <2>3. CASE Detach(t)
    <3>1. Move(t, "detach", "consume") /\ Frame /\ client' = NoClient /\ CloseLink(client)
          /\ UNCHANGED <<closed, pending, replacing>>
        BY <2>3, Moves DEF Detach
    <3>2. \A c \in Clients : link'[c] = "up" => link[c] = "up" /\ client # c
        BY <3>1, ClosesOnly DEF LinksInv, ClientInv
    <3> QED BY <3>1, <3>2 DEF OtherStep, Outside, ClosePlaces, Consuming, Detaching, Move
  <2>4. CASE Consume(t)
    <3>1. Move(t, "consume", "final") /\ Frame /\ Ups /\ ~pending' /\ ~replacing'
          /\ UNCHANGED <<client, closed>>
        BY <2>4, Moves DEF Consume
    <3>2. closed
        BY <3>1 DEF Move, HeldInv, Consuming
    <3> QED BY <3>1, <3>2 DEF OtherStep, Outside, ClosePlaces, Move
  <2> QED BY <1>4, <2>1, <2>2, <2>3, <2>4 DEF CloseStep
<1>5. ASSUME NEW h \in Handlers, HandlerStep(h) PROVE OtherStep
  <2>1. ASSUME Goto(h, "idle") \/ (\E q : Goto(h, q)), Frame, Flags, Ups PROVE OtherStep
      BY <1>1, <2>1, Moves
  <2>2. CASE \E c \in Clients : Report(h, c)
      BY <2>1, <2>2 DEF Report
  <2>3. CASE Resolve(h)
    <3>1. CASE Accepts(plan[h].client)
      <4>1. Move(h, "resolve", "vet") /\ Frame /\ client' = NoClient /\ link' = link /\ ~pending' /\ ~replacing'
            /\ closed' = closed
          BY <2>3, <3>1, Moves DEF Resolve
      <4>2. \A c \in Clients : link[c] = "up" => client # c
          BY <3>1, <4>1, NoClientIsNone DEF Accepts, PlanInv, Move, Gone
      <4> QED BY <4>1, <4>2 DEF OtherStep, Move
    <3>2. CASE ~Accepts(plan[h].client)
        BY <2>1, <2>3, <3>2 DEF Resolve
    <3> QED BY <3>1, <3>2
  <2>4. CASE Vet(h)
    <3>1. Frame /\ Flags /\ \E q : Goto(h, q)
        BY <2>4 DEF Vet
    <3>2. \E c \in Clients \cup {NoClient} : CloseLink(c)
        BY <2>4 DEF Vet, PlanInv
    <3>3. Ups
        BY <3>2, ClosesOnly DEF LinksInv
    <3> QED BY <2>1, <3>1, <3>3
  <2>5. CASE Recheck(h) \/ Drop(h) \/ Release(h) \/ Lost(h) \/ Wake(h)
      BY <2>1, <2>5 DEF Recheck, Drop, Release, Lost, Wake
  <2>6. CASE Schedule(h)
    <3>1. Frame /\ Flags /\ Ups
        BY <2>6 DEF Schedule
    <3>2. CASE Goto(h, "idle")
        BY <2>1, <3>1, <3>2
    <3>3. CASE ~workerRef /\ pc' = [pc EXCEPT ![h] = "idle", ![Worker] = "loop"]
      <4>1. pc[Worker] = "idle" /\ pc'[Worker] = "loop" /\ \A u \in Connectors : u # Worker => pc'[u] = pc[u]
          BY <3>3 DEF PlaceInv, HeldInv
      <4> QED BY <3>1, <4>1 DEF OtherStep, Outside
    <3> QED BY <2>6, <3>2, <3>3 DEF Schedule
  <2> QED BY <1>5, <2>2, <2>3, <2>4, <2>5, <2>6 DEF HandlerStep
<1>6. ASSUME WorkerLoop \/ WorkerExit PROVE OtherStep
  <2>1. \E p \in {"loop", "exit"}, q \in {"ask", "exit", "idle"} : Move(Worker, p, q)
      BY <1>6, Moves DEF WorkerLoop, WorkerExit
  <2>2. Frame /\ Flags /\ Ups
      BY <1>6 DEF WorkerLoop, WorkerExit
  <2> QED BY <1>1, <2>1, <2>2 DEF Outside
<1>7. ASSUME NEW c \in Clients, LinkDrops(c) PROVE OtherStep
    BY <1>7 DEF LinkDrops, OtherStep, LinksInv, LinkInv
<1>8. ASSUME UNCHANGED vars PROVE OtherStep
    BY <1>8 DEF vars, OtherStep
<1> QED BY <1>2, <1>3, <1>4, <1>5, <1>6, <1>7, <1>8 DEF Next

\* A client that has just been dialled is nobody else's, and what a thread adopts it alone has.
LEMMA MineStep ==
    PlaceInv /\ ClientInv /\ LinksInv /\ PlanInv /\ HeldInv /\ MineInv /\ [Next]_vars => MineInv'
<1> SUFFICES ASSUME PlaceInv, ClientInv, LinksInv, PlanInv, HeldInv, MineInv, [Next]_vars
             PROVE  MineInv'
    OBVIOUS
<1> USE ThreadKinds, NoClientIsNone
<1> USE DEF Holding, Apart, Adopted, Discarded
<1>1. \A c \in Clients : Used(c) => Used(c)'
    BY LinkStep DEF PlanInv, Links
<1>2. ASSUME client' \in {client, NoClient}, mine' = mine,
             \A t \in Connectors : \/ pc'[t] = pc[t]
                                   \/ pc[t] \in Outside /\ pc'[t] \in Outside
                                   \/ /\ pc[t] \in Holding <=> pc'[t] \in Holding
                                      /\ pc'[t] \in Apart => \/ pc[t] \in Apart
                                                             \/ client' # mine[t]
                                      /\ mine[t] # NoClient =>
                                             pc'[t] \in Holding \cup {"failed", "raise", "repair"}
      PROVE  MineInv'
    BY <1>1, <1>2 DEF MineInv, Used, ClientInv, Outside, ClosePlaces
<1>3. CASE OtherStep
    BY <1>2, <1>3 DEF OtherStep
<1>4. ASSUME NEW t \in Connectors, CoreStep(t) PROVE MineInv'
  <2> USE Moves DEF At, sessionVars, localVars, Returned, Raised
  <2> DEFINE Same2 == client' = client /\ mine' = mine
  <2>1. ASSUME NEW p, NEW q, Move(t, p, q), client' = client, mine' = mine, p \in Holding <=> q \in Holding,
               q \in Apart => p \in Apart,
               p \in Holding \cup {"failed", "raise", "repair"} => q \in Holding \cup {"failed", "raise", "repair"}
        PROVE  MineInv'
      BY <1>2, <2>1 DEF Move, MineInv
  <2>2. CASE Lock(t) \/ Begin(t) \/ Validate(t)
    <3>1. Same2 /\ \E p \in {"lock", "begin", "validate"}, q \in {"lock", "exit", "idle", "loop", "begin", "validate",
              "dial", "restore"} : Move(t, p, q)
        BY <2>2 DEF Lock, Begin, Validate
    <3> QED BY <2>1, <3>1
  <2>3. CASE DialSucceeds(t)
    <3>1. PICK c \in Clients : link[c] = "unused" /\ link' = [link EXCEPT ![c] = "up"] /\ mine' = [mine EXCEPT ![t] = c]
        BY <2>3 DEF DialSucceeds
    <3>2. Move(t, "dial", "finish") /\ client' = client
        BY <2>3 DEF DialSucceeds
    <3>3. mine'[t] = c /\ \A u \in Connectors : u # t => mine'[u] = mine[u]
        BY <3>1 DEF ClientInv
    <3>4. link'[c] = "up" /\ \A d \in Clients : d # c => link'[d] = link[d]
        BY <3>1 DEF LinksInv, LinkInv
    <3>5. client # c /\ \A u \in Connectors : mine[u] # c
        BY <3>1 DEF MineInv
    <3> QED BY <3>2, <3>3, <3>4, <3>5 DEF MineInv, Move, ClientInv
  <2>4. CASE DialFails(t)
    <3>1. Move(t, "dial", "failed") /\ Same2
        BY <2>4 DEF DialFails
    <3>2. mine[t] = NoClient
        BY <3>1 DEF MineInv, Move
    <3> QED BY <1>1, <3>1, <3>2 DEF MineInv, Move, Used, ClientInv
  <2>5. CASE Finish(t)
    <3>1. Same2 /\ \E q \in {"adopt", "failed"} : Move(t, "finish", q)
        BY <2>5 DEF Finish
    <3> QED BY <1>1, <3>1 DEF MineInv, Move, Used, ClientInv
  \* The thread gives up its client.
  <2>6. ASSUME client' = client, mine' = [mine EXCEPT ![t] = NoClient], NEW p,
               NEW q \in Outside \cup {"restore"}, Move(t, p, q)
        PROVE  MineInv'
    <3>1. mine'[t] = NoClient /\ \A u \in Connectors : u # t => mine'[u] = mine[u]
        BY <2>6 DEF ClientInv
    <3> QED BY <1>1, <2>6, <3>1 DEF MineInv, Move, Used, ClientInv, Outside, ClosePlaces
  <2>7. CASE Failed(t) \/ Repair(t) \/ Raise(t)
    <3>1. client' = client /\ mine' = [mine EXCEPT ![t] = NoClient]
        BY <2>7 DEF Failed, Repair, Raise
    <3>2. \E q \in Outside \cup {"restore"} : Move(t, pc[t], q)
        BY <2>7 DEF Failed, Repair, Raise, Outside
    <3> QED BY <2>6, <3>1, <3>2
  <2>8. CASE Restore(t)
    <3>1. Same2 /\ \E q \in {"idle", "loop"} : Move(t, "restore", q)
        BY <2>8 DEF Restore
    <3> QED BY <2>1, <3>1
  <2>9. CASE Adopt(t)
    <3>1. CASE client' = client /\ mine' = [mine EXCEPT ![t] = NoClient] /\ Goto(t, Raised(t))
      <4>1. \E q \in Outside : Move(t, pc[t], q)
          BY <3>1 DEF Outside
      <4> QED BY <2>6, <3>1, <4>1
    <3>2. CASE client' = mine[t] /\ mine' = mine /\ Goto(t, "handoff")
      <4>1. Move(t, "adopt", "handoff")
          BY <2>9, <3>2 DEF Adopt
      <4>2. mine[t] # NoClient
          BY <4>1 DEF MineInv, Move
      <4> QED BY <1>1, <3>2, <4>1, <4>2 DEF MineInv, Move, Used, ClientInv
    <3> QED BY <2>9, <3>1, <3>2 DEF Adopt
  <2>10. CASE Handoff(t) \/ Gates(t) \/ Mark(t) \/ Regate(t) \/ Ungate(t) \/ Verify(t) \/ Check(t) \/ Commit(t)
    <3>1. Same2
        BY <2>10 DEF Handoff, Gates, Mark, Regate, Ungate, Verify, Check, Commit
    <3>2. \E p \in Adopted, q \in Adopted : Move(t, p, q)
        BY <2>10 DEF Handoff, Gates, Mark, Regate, Ungate, Verify, Check, Commit
    <3> QED BY <2>1, <3>1, <3>2
  <2>11. CASE Allow(t) \/ Notify(t) \/ NotifyRaises(t) \/ Complete(t) \/ Invalid(t) \/ Unmark(t)
    <3>1. Same2
        BY <2>11 DEF Allow, Notify, NotifyRaises, Complete, Invalid, Unmark
    <3>2. \E p \in Adopted, q \in Adopted : Move(t, p, q)
        BY <2>11 DEF Allow, Notify, NotifyRaises, Complete, Invalid, Unmark
    <3> QED BY <2>1, <3>1, <3>2
  <2>12. CASE Settle(t)
    <3>1. Same2 /\ \E q \in {"raise", "repair"} : Move(t, "settle", q)
        BY <2>12 DEF Settle
    <3> QED BY <1>1, <3>1 DEF MineInv, Move, Used, ClientInv
  <2>13. CASE Discard(t)
    <3>1. Move(t, "discard", "shut") /\ mine' = mine
        BY <2>13 DEF Discard
    <3>2. client' = NoClient \/ (client' = client /\ client # mine[t])
        BY <2>13 DEF Discard
    <3> QED BY <1>1, <3>1, <3>2 DEF MineInv, Move, Used, ClientInv
  <2>14. CASE Shut(t) \/ Same(t) \/ Reset(t) \/ Lose(t)
    <3>1. Same2
        BY <2>14 DEF Shut, Same, Reset, Lose
    <3>2. \E p \in Discarded, q \in Discarded \cup {"settle", "raise"} : Move(t, p, q)
        BY <2>14 DEF Shut, Same, Reset, Lose
    <3> QED BY <1>1, <3>1, <3>2 DEF MineInv, Move, Used, ClientInv
  <2> QED BY <1>4, <2>2, <2>3, <2>4, <2>5, <2>7, <2>8, <2>9, <2>10, <2>11, <2>12, <2>13, <2>14 DEF CoreStep
<1> QED BY <1>3, <1>4, StepKinds

\* Whoever takes a client from the interface closes it or has its link reported gone.
LEMMA LinkHeldStep ==
    PlaceInv /\ ClientInv /\ LinksInv /\ PlanInv /\ HeldInv /\ MineInv /\ LinkHeld /\ [Next]_vars => LinkHeld'
<1> SUFFICES ASSUME PlaceInv, ClientInv, LinksInv, PlanInv, HeldInv, MineInv, LinkHeld, [Next]_vars
             PROVE  LinkHeld'
    OBVIOUS
<1> USE ThreadKinds, NoClientIsNone
<1> DEFINE Ups == \A c \in Clients : link'[c] = "up" => link[c] = "up"
           Carrying == {"finish", "failed", "adopt", "shut"}
<1>1. CASE OtherStep
    BY <1>1 DEF OtherStep, LinkHeld, Outside, ClosePlaces
<1>2. ASSUME NEW t \in Connectors, CoreStep(t) PROVE LinkHeld'
  <2> USE Moves DEF At, sessionVars, localVars, linkVars, Returned, Raised
  <2>1. ASSUME client' = client, mine' = mine, Ups, NEW p, NEW q, Move(t, p, q), p \in Carrying => q \in Carrying
        PROVE  LinkHeld'
      BY <2>1 DEF LinkHeld, Move
  <2>2. CASE Lock(t) \/ Begin(t) \/ Validate(t) \/ DialFails(t) \/ Finish(t) \/ Restore(t)
    <3>1. client' = client /\ mine' = mine /\ Ups
        BY <2>2 DEF Lock, Begin, Validate, DialFails, Finish, Restore
    <3>2. \E p \in {"lock", "begin", "validate", "dial", "finish", "restore"}, q \in Places :
              Move(t, p, q) /\ (p = "finish" => q \in Carrying)
        BY <2>2 DEF Lock, Begin, Validate, DialFails, Finish, Restore, Places, ConnectPlaces
    <3> QED BY <2>1, <3>1, <3>2
  <2>3. CASE DialSucceeds(t)
    <3>1. PICK c \in Clients : link' = [link EXCEPT ![c] = "up"] /\ mine' = [mine EXCEPT ![t] = c]
        BY <2>3 DEF DialSucceeds
    <3>2. Move(t, "dial", "finish") /\ client' = client
        BY <2>3 DEF DialSucceeds
    <3>3. mine'[t] = c /\ \A u \in Connectors : u # t => mine'[u] = mine[u]
        BY <3>1 DEF ClientInv
    <3>4. \A d \in Clients : d # c => link'[d] = link[d]
        BY <3>1 DEF LinksInv, LinkInv
    <3> QED BY <3>2, <3>3, <3>4 DEF LinkHeld, Move
  \* The link that the thread holds is closed.
  <2>4. ASSUME client' = client, CloseLink(mine[t]), \A u \in Connectors : u # t => mine'[u] = mine[u],
               NEW p, NEW q, Move(t, p, q)
        PROVE  LinkHeld'
    <3>1. \A c \in Clients : link'[c] = "up" => link[c] = "up" /\ c # mine[t]
        BY <2>4, ClosesOnly DEF ClientInv, LinksInv
    <3> QED BY <2>4, <3>1 DEF LinkHeld, Move
  <2>5. CASE Failed(t) \/ Shut(t)
    <3>1. client' = client /\ CloseLink(mine[t]) /\ \A u \in Connectors : u # t => mine'[u] = mine[u]
        BY <2>5 DEF Failed, Shut, ClientInv
    <3>2. \E q : Move(t, pc[t], q)
        BY <2>5 DEF Failed, Shut
    <3> QED BY <2>4, <3>1, <3>2
  <2>6. CASE Adopt(t)
    <3>1. CASE Closing
      <4>1. client' = client /\ CloseLink(mine[t]) /\ mine' = [mine EXCEPT ![t] = NoClient]
          BY <2>6, <3>1 DEF Adopt
      <4>2. \E q : Move(t, pc[t], q)
          BY <2>6, <3>1 DEF Adopt
      <4> QED BY <2>4, <4>1, <4>2 DEF ClientInv
    <3>2. CASE ~Closing
      <4>1. Move(t, "adopt", "handoff") /\ client' = mine[t] /\ mine' = mine /\ CloseLink(client)
          BY <2>6, <3>2 DEF Adopt
      <4>2. \A c \in Clients : link'[c] = "up" => link[c] = "up" /\ c # client
          BY <4>1, ClosesOnly DEF ClientInv, LinksInv
      <4> QED BY <4>1, <4>2 DEF LinkHeld, Move
    <3> QED BY <3>1, <3>2
  <2>7. CASE Handoff(t) \/ Gates(t) \/ Mark(t) \/ Regate(t) \/ Ungate(t) \/ Verify(t) \/ Check(t) \/ Commit(t)
    <3>1. client' = client /\ mine' = mine /\ Ups
        BY <2>7 DEF Handoff, Gates, Mark, Regate, Ungate, Verify, Check, Commit
    <3>2. \E p \in Adopted, q \in Adopted : Move(t, p, q)
        BY <2>7 DEF Handoff, Gates, Mark, Regate, Ungate, Verify, Check, Commit, Adopted
    <3> QED BY <2>1, <3>1, <3>2 DEF Adopted
  <2>8. CASE Allow(t) \/ Notify(t) \/ NotifyRaises(t) \/ Complete(t) \/ Settle(t) \/ Invalid(t) \/ Unmark(t)
    <3>1. client' = client /\ mine' = mine /\ Ups
        BY <2>8 DEF Allow, Notify, NotifyRaises, Complete, Settle, Invalid, Unmark
    <3>2. \E p \in Adopted, q \in Adopted \cup {"raise", "repair"} : Move(t, p, q)
        BY <2>8 DEF Allow, Notify, NotifyRaises, Complete, Settle, Invalid, Unmark, Adopted
    <3> QED BY <2>1, <3>1, <3>2 DEF Adopted
  <2>9. CASE Repair(t) \/ Raise(t)
    <3>1. client' = client /\ Ups /\ mine' = [mine EXCEPT ![t] = NoClient]
        BY <2>9 DEF Repair, Raise
    <3>2. \E p \in {"repair", "raise"}, q \in Places : Move(t, p, q)
        BY <2>9 DEF Repair, Raise, Places, PublishPlaces
    <3> QED BY <3>1, <3>2 DEF LinkHeld, Move, ClientInv
  <2>10. CASE Discard(t)
    <3>1. Move(t, "discard", "shut") /\ mine' = mine /\ link' = link
        BY <2>10 DEF Discard
    <3>2. client' = client \/ client \in {mine[t], NoClient}
        BY <2>10 DEF Discard
    <3> QED BY <3>1, <3>2 DEF LinkHeld, Move
  <2>11. CASE Same(t) \/ Reset(t) \/ Lose(t)
    <3>1. client' = client /\ mine' = mine /\ Ups
        BY <2>11 DEF Same, Reset, Lose
    <3>2. \E p \in {"same", "reset", "lose"}, q \in Places : Move(t, p, q)
        BY <2>11 DEF Same, Reset, Lose, Places, PublishPlaces, InvalidPlaces
    <3> QED BY <2>1, <3>1, <3>2
  <2> QED BY <1>2, <2>2, <2>3, <2>5, <2>6, <2>7, <2>8, <2>9, <2>10, <2>11 DEF CoreStep
<1> QED BY <1>1, <1>2, StepKinds

\* A publication that was claimed is given back by the thread that claimed it.
LEMMA InflightStep ==
    PlaceInv /\ ClientInv /\ LinksInv /\ PlanInv /\ LocalInv /\ HeldInv /\ InflightHeld /\ [Next]_vars
        => InflightHeld'
<1> SUFFICES ASSUME PlaceInv, ClientInv, LinksInv, PlanInv, LocalInv, HeldInv, InflightHeld, [Next]_vars
             PROVE  InflightHeld'
    OBVIOUS
<1> USE ThreadKinds
<1> USE DEF Announcing, Invalidated, Discarded
<1>1. CASE OtherStep
    BY <1>1 DEF OtherStep, InflightHeld, Outside, ClosePlaces
<1>2. ASSUME NEW t \in Connectors, CoreStep(t) PROVE InflightHeld'
  <2> USE Moves DEF At, sessionVars, localVars, Returned, Raised
  <2> DEFINE Mines == \A u \in Connectors : u # t => mine'[u] = mine[u]
             Undos == \A u \in Connectors : u # t => undo'[u] = undo[u]
  \* The thread holds no publication, or gives it back.
  <2>1. ASSUME inflight' \in {inflight, NoClient}, Mines, Undos, NEW p, NEW q, Move(t, p, q),
               \/ p \notin Announcing \cup Invalidated
               \/ p \in Invalidated /\ "settle" \notin undo[t]
               \/ inflight' = NoClient \/ inflight' # mine[t]
        PROVE  InflightHeld'
      BY <2>1 DEF InflightHeld, Move
  \* The thread keeps what it holds.
  <2>2. ASSUME inflight' = inflight, mine' = mine, Undos, NEW p, NEW q, Move(t, p, q),
               \/ q \in Announcing
               \/ q \in Invalidated /\ "settle" \in undo'[t]
        PROVE  InflightHeld'
      BY <2>2 DEF InflightHeld, Move
  <2>3. CASE Lock(t) \/ Begin(t) \/ Validate(t) \/ DialSucceeds(t) \/ DialFails(t) \/ Finish(t) \/ Failed(t)
    <3>1. inflight' = inflight /\ Mines /\ Undos
        BY <2>3 DEF Lock, Begin, Validate, DialSucceeds, DialFails, Finish, Failed, ClientInv
    <3>2. \E p \in {"lock", "begin", "validate", "dial", "finish", "failed"}, q \in Places : Move(t, p, q)
        BY <2>3 DEF Lock, Begin, Validate, DialSucceeds, DialFails, Finish, Failed, Places, ConnectPlaces
    <3> QED BY <2>1, <3>1, <3>2
  <2>4. CASE Restore(t) \/ Adopt(t) \/ Handoff(t) \/ Gates(t) \/ Mark(t) \/ Regate(t) \/ Ungate(t)
    <3>1. inflight' = inflight /\ Mines /\ Undos
        BY <2>4 DEF Restore, Adopt, Handoff, Gates, Mark, Regate, Ungate, ClientInv
    <3>2. \E p \in {"restore", "adopt", "handoff", "gates", "mark", "regate", "ungate"}, q \in Places : Move(t, p, q)
        BY <2>4 DEF Restore, Adopt, Handoff, Gates, Mark, Regate, Ungate, Places, ConnectPlaces, PublishPlaces
    <3> QED BY <2>1, <3>1, <3>2
  <2>5. CASE Verify(t)
    <3>1. CASE Owned(t) /\ (pending => inflight = NoClient)
      <4>1. Move(t, "verify", "check") /\ mine' = mine /\ inflight' = mine[t]
          BY <2>5, <3>1 DEF Verify
      <4> QED BY <4>1 DEF InflightHeld, Move
    <3>2. CASE ~(Owned(t) /\ (pending => inflight = NoClient))
      <4>1. inflight' = inflight /\ Mines /\ Undos /\ Move(t, "verify", "invalid")
          BY <2>5, <3>2 DEF Verify
      <4> QED BY <2>1, <4>1
    <3> QED BY <3>1, <3>2
  <2>6. CASE Check(t)
    <3>1. CASE Owned(t)
      <4>1. Move(t, "check", "commit") /\ inflight' = inflight /\ mine' = mine /\ Undos
          BY <2>6, <3>1 DEF Check
      <4> QED BY <2>2, <4>1
    <3>2. CASE ~Owned(t)
      <4>1. Move(t, "check", "invalid") /\ Mines /\ Undos
          BY <2>6, <3>2 DEF Check
      <4>2. inflight' = IF inflight = mine[t] THEN NoClient ELSE inflight
          BY <2>6, <3>2 DEF Check
      <4> QED BY <2>1, <4>1, <4>2
    <3> QED BY <3>1, <3>2
  <2>7. CASE Commit(t) \/ Allow(t) \/ NotifyRaises(t)
    <3>1. inflight' = inflight /\ mine' = mine
        BY <2>7 DEF Commit, Allow, NotifyRaises
    <3>2. undo' \in {undo, [undo EXCEPT ![t] = {"settle"}]}
        BY <2>7 DEF Commit, Allow, NotifyRaises
    <3>3. Undos
        BY <3>2 DEF LocalInv
    <3>4. \/ \E p, q \in {"allow", "notify", "settle"} : Move(t, p, q)
          \/ \E q \in {"allow", "notify", "settle"} : Move(t, "commit", q)
          \/ \E p \in {"commit", "allow"} : Move(t, p, "invalid") /\ undo' = [undo EXCEPT ![t] = {"settle"}]
        BY <2>7 DEF Commit, Allow, NotifyRaises
    <3>5. ASSUME undo' = [undo EXCEPT ![t] = {"settle"}] PROVE "settle" \in undo'[t]
        BY <3>5 DEF LocalInv
    <3> QED BY <2>2, <3>1, <3>3, <3>4, <3>5
  <2>8. CASE Notify(t) \/ Complete(t)
    <3>1. inflight' = inflight /\ mine' = mine /\ Undos
        BY <2>8 DEF Notify, Complete
    <3>2. \E p \in {"notify", "complete"}, q \in {"complete", "settle"} : Move(t, p, q)
        BY <2>8 DEF Notify, Complete
    <3> QED BY <2>2, <3>1, <3>2
  <2>9. CASE Settle(t)
    <3>1. Mines /\ Undos /\ inflight' = IF inflight = mine[t] THEN NoClient ELSE inflight
        BY <2>9 DEF Settle
    <3>2. \E q \in {"raise", "repair"} : Move(t, "settle", q)
        BY <2>9 DEF Settle
    <3> QED BY <2>1, <3>1, <3>2
  <2>10. CASE Repair(t) \/ Raise(t)
    <3>1. inflight' = inflight /\ Mines /\ Undos
        BY <2>10 DEF Repair, Raise, ClientInv, LocalInv
    <3>2. \E p \in {"repair", "raise"}, q \in Places : Move(t, p, q)
        BY <2>10 DEF Repair, Raise, Places, PublishPlaces
    <3> QED BY <2>1, <3>1, <3>2
  <2>11. CASE Discard(t)
    <3>1. Move(t, "discard", "shut") /\ mine' = mine /\ inflight' \in {inflight, NoClient}
        BY <2>11 DEF Discard
    <3>2. undo' = undo \/ \E S : undo' = [undo EXCEPT ![t] = @ \cup S]
        BY <2>11 DEF Discard
    <3>3. Undos /\ ("settle" \in undo[t] => "settle" \in undo'[t])
        BY <3>2 DEF LocalInv
    <3> QED BY <3>1, <3>3 DEF InflightHeld, Move
  <2>12. CASE Invalid(t) \/ Unmark(t) \/ Shut(t) \/ Same(t) \/ Reset(t) \/ Lose(t)
    <3>1. inflight' = inflight /\ mine' = mine /\ undo' = undo
        BY <2>12 DEF Invalid, Unmark, Shut, Same, Reset, Lose
    <3>2. \/ \E p, q \in Invalidated : Move(t, p, q)
          \/ Move(t, "lose", IF "settle" \in undo[t] THEN "settle" ELSE "raise")
        BY <2>12 DEF Invalid, Unmark, Shut, Same, Reset, Lose
    <3> QED BY <2>1, <2>2, <3>1, <3>2
  <2> QED BY <1>2, <2>3, <2>4, <2>5, <2>6, <2>7, <2>8, <2>9, <2>10, <2>11, <2>12 DEF CoreStep
<1> QED BY <1>1, <1>2, StepKinds

\* Whoever set a provisional flag is still going to clear it, or a disconnect, a close() or the
\* next owner of the client has done so.
LEMMA FlagStep ==
    PlaceInv /\ ClientInv /\ LinksInv /\ PlanInv /\ LocalInv /\ HeldInv /\ MineInv /\ FlagInv /\ [Next]_vars
        => FlagInv'
<1> SUFFICES ASSUME PlaceInv, ClientInv, LinksInv, PlanInv, LocalInv, HeldInv, MineInv, FlagInv, [Next]_vars
             PROVE  FlagInv'
    OBVIOUS
<1> USE ThreadKinds, NoClientIsNone
<1> USE DEF FlagInv, FlagsOwed, Owing, OwnerIsPending, TransactionIsAlone, SnapshotIsClean, SessionIsCurrent
<1>1. \A t \in Connectors : pc[t] \in Adopted => mine[t] # NoClient
    BY DEF MineInv, Holding
<1>2. \A t, u \in Connectors : pc[t] \in Locked /\ pc[u] \in Locked => t = u
    BY DEF HeldInv
<1>3. CASE OtherStep
  <2>1. \A t \in Connectors : /\ pc'[t] \in Transacting \cup Adopted \cup {"begin"} => pc'[t] = pc[t]
                              /\ pc[t] \in Transacting \cup Adopted => pc'[t] = pc[t]
      BY <1>3 DEF OtherStep, Outside, ClosePlaces, Transacting, Adopted
  <2>2. OwnerIsPending' /\ TransactionIsAlone' /\ SnapshotIsClean'
      BY <1>1, <1>3, <2>1 DEF OtherStep
  <2>3. SessionIsCurrent'
    <3> SUFFICES ASSUME NEW t \in Connectors, client' = mine'[t], pc'[t] \in {"allow", "notify", "complete", "settle"}
                 PROVE  /\ pc'[t] \in {"allow", "notify", "complete"} => epoch' = seen'[t]
                        /\ pc'[t] = "settle" /\ ~HeartbeatFails => completed'[t]
        OBVIOUS
    <3>1. pc'[t] = pc[t] /\ pc[t] \in Adopted
        BY <2>1 DEF Adopted
    <3>2. client' = client
        BY <1>1, <1>3, <3>1 DEF OtherStep
    <3> QED BY <1>3, <3>1, <3>2 DEF OtherStep
  <2>4. FlagsOwed'
      BY <1>3, <2>1 DEF OtherStep
  <2> QED BY <2>2, <2>3, <2>4
<1>4. ASSUME NEW t \in Connectors, CoreStep(t) PROVE FlagInv'
  <2> USE Moves DEF At, sessionVars, localVars, Returned, Raised
  <2> DEFINE Others == \A u \in Connectors : u # t => mine'[u] = mine[u] /\ seen'[u] = seen[u] /\ completed'[u] = completed[u]
             Flags == UNCHANGED <<closed, pending, replacing, epoch, snap>>
  \* The flags and the client stay.
  <2>1. ASSUME Flags, client' = client, mine' = mine, Others, NEW p, NEW q, Move(t, p, q),
               p \in Transacting <=> q \in Transacting, q # "begin", p \notin Consuming,
               client = mine[t] => /\ p \in Adopted <=> q \in Adopted
                                   /\ q \in {"allow", "notify", "complete"} => epoch = seen'[t]
                                   /\ q = "settle" /\ ~HeartbeatFails => completed'[t]
        PROVE  FlagInv'
    <3>1. OwnerIsPending' /\ TransactionIsAlone'
        BY <2>1 DEF Move
    <3>2. SnapshotIsClean' /\ SessionIsCurrent'
        BY <2>1 DEF Move
    <3>3. FlagsOwed'
        BY <2>1 DEF Move
    <3> QED BY <3>1, <3>2, <3>3
  \* Only the client of a thread that has adopted nothing changes.
  <2>2. ASSUME Flags, client' = client, Others, NEW p, NEW q, Move(t, p, q),
               p \in Transacting <=> q \in Transacting, q # "begin", p \notin Consuming \cup Adopted,
               q \notin Adopted
        PROVE  FlagInv'
    <3>1. OwnerIsPending' /\ TransactionIsAlone'
        BY <2>2 DEF Move
    <3>2. SnapshotIsClean'
        BY <2>2 DEF Move
    <3>3. SessionIsCurrent'
        BY <2>2 DEF Move, Adopted
    <3>4. FlagsOwed'
        BY <2>2 DEF Move
    <3> QED BY <3>1, <3>2, <3>3, <3>4
  <2>3. CASE Lock(t) /\ connectLock' = t
    <3>1. connectLock # t
        BY <2>3, SessionAssumption DEF Lock, Threads, Connectors
    <3>2. Move(t, "lock", "begin") /\ ~Closing /\ ~pending /\ connectLock = NoClient /\ Flags
          /\ client' = client /\ mine' = mine /\ Others
        BY <2>3, <3>1 DEF Lock, lockVars
    <3>3. \A u \in Connectors : pc[u] \notin Locked
        BY <3>2, SessionAssumption DEF HeldInv, Threads, Connectors
    <3>4. \A u \in Connectors : pc[u] \in Adopted => client # mine[u]
        BY <3>2 DEF Closing
    <3>5. \A u \in Callers : pc[u] \notin Consuming
        BY <3>2 DEF Closing, HeldInv
    <3>6. replacing => HeartbeatFails
        BY <3>3, <3>4, <3>5 DEF Locked
    <3>7. OwnerIsPending' /\ TransactionIsAlone'
        BY <3>2, <3>3, <3>4 DEF Move, Adopted, Locked, Transacting
    <3>8. SnapshotIsClean'
        BY <3>2, <3>6 DEF Move
    <3>9. SessionIsCurrent'
        BY <3>2 DEF Move
    <3>10. FlagsOwed'
        BY <3>2, <3>6
    <3> QED BY <3>7, <3>8, <3>9, <3>10
  <2>4. CASE Begin(t)
    <3>1. Move(t, "begin", "validate") /\ client' = client /\ mine' = mine /\ closed' = closed /\ Others /\ pending'
          /\ snap'.pending = pending /\ snap'.replacing = replacing
        BY <2>4 DEF Begin
    <3>2. \A u \in Connectors : pc[u] \in Adopted => client # mine[u]
        BY <3>1 DEF Move
    <3>3. \A u \in Connectors : u # t => pc[u] # "begin"
        BY <1>2, <3>1 DEF Move, Locked
    <3>4. OwnerIsPending' /\ TransactionIsAlone'
        BY <3>1, <3>2 DEF Move, Adopted, Transacting
    <3>5. SnapshotIsClean'
        BY <3>1, <3>3 DEF Move
    <3>6. SessionIsCurrent'
        BY <3>1, <3>2 DEF Move, Adopted
    <3>7. FlagsOwed'
        BY <3>1 DEF Move, Transacting
    <3> QED BY <3>4, <3>5, <3>6, <3>7
  <2>5. CASE Validate(t) \/ DialFails(t) \/ Finish(t)
    <3>1. Flags /\ client' = client /\ Others
        BY <2>5 DEF Validate, DialFails, Finish, lockVars
    <3>2. \E p, q \in Transacting : Move(t, p, q)
        BY <2>5 DEF Validate, DialFails, Finish, Transacting
    <3> QED BY <2>2, <3>1, <3>2 DEF Transacting, Adopted, Consuming, Detaching
  <2>6. CASE DialSucceeds(t) \/ Failed(t)
    <3>1. Flags /\ client' = client /\ Others
        BY <2>6 DEF DialSucceeds, Failed, lockVars, ClientInv
    <3>2. \E p, q \in Transacting : Move(t, p, q)
        BY <2>6 DEF DialSucceeds, Failed, Transacting
    <3> QED BY <2>2, <3>1, <3>2 DEF Transacting, Adopted, Consuming, Detaching
  <2>7. CASE Repair(t) \/ Raise(t)
    <3>1. Flags /\ client' = client /\ Others
        BY <2>7 DEF Repair, Raise, lockVars, ClientInv, LocalInv
    <3>2. \E p \in {"repair", "raise"}, q \in {"relost", "exit", "idle", "loop"} : Move(t, p, q)
        BY <2>7 DEF Repair, Raise
    <3> QED BY <2>2, <3>1, <3>2 DEF Transacting, Adopted, Consuming, Detaching
  \* The transaction ends without a client.
  <2>8. ASSUME Move(t, "restore", "idle") \/ Move(t, "restore", "loop") \/ Move(t, "adopt", "idle")
                   \/ Move(t, "adopt", "loop"),
               client' = client, closed' = closed, snap' = snap, Others, ~pending', replacing' => HeartbeatFails
        PROVE  FlagInv'
    <3>1. \A u \in Connectors : pc[u] \in Adopted => client # mine[u]
        BY <2>8 DEF Move, Transacting
    <3>2. \A u \in Connectors : u # t => pc[u] # "begin"
        BY <1>2, <2>8 DEF Move, Locked, Transacting
    <3>3. OwnerIsPending' /\ TransactionIsAlone'
        BY <2>8, <3>1 DEF Move, Adopted, Transacting
    <3>4. SnapshotIsClean'
        BY <2>8, <3>2 DEF Move
    <3>5. SessionIsCurrent'
        BY <2>8, <3>1 DEF Move, Adopted
    <3>6. FlagsOwed'
        BY <2>8
    <3> QED BY <3>3, <3>4, <3>5, <3>6
  <2>9. CASE Restore(t)
    <3>1. Move(t, "restore", "idle") \/ Move(t, "restore", "loop")
        BY <2>9 DEF Restore
    <3> QED BY <2>8, <2>9, <3>1 DEF Restore
  <2>10. CASE Adopt(t)
    <3>1. CASE Closing
      <4>1. Move(t, "adopt", "idle") \/ Move(t, "adopt", "loop")
          BY <2>10, <3>1 DEF Adopt
      <4>2. client' = client /\ closed' = closed /\ snap' = snap /\ Others /\ ~pending' /\ ~replacing'
          BY <2>10, <3>1 DEF Adopt, ClientInv
      <4> QED BY <2>8, <4>1, <4>2
    <3>2. CASE ~Closing
      <4>1. Move(t, "adopt", "handoff") /\ client' = mine[t] /\ pending' /\ closed' = closed /\ snap' = snap
            /\ mine' = mine /\ Others
          BY <2>10, <3>2 DEF Adopt
      <4>2. mine[t] # NoClient
          BY <4>1 DEF MineInv, Holding, Move
      <4>3. \A u \in Connectors : client' = mine[u] => u = t
          BY <4>1, <4>2 DEF MineInv
      <4>4. \A u \in Connectors : u # t => pc[u] \notin Transacting \cup {"begin"}
          BY <1>2, <4>1 DEF Move, Locked, Transacting
      <4>5. OwnerIsPending' /\ TransactionIsAlone'
          BY <4>1, <4>4 DEF Move, Transacting
      <4>6. SnapshotIsClean'
          BY <4>1, <4>4 DEF Move
      <4>7. SessionIsCurrent'
          BY <4>1, <4>3 DEF Move
      <4>8. FlagsOwed'
          BY <4>1 DEF Move, Adopted
      <4> QED BY <4>5, <4>6, <4>7, <4>8
    <3> QED BY <3>1, <3>2
  <2>11. CASE Handoff(t) \/ Gates(t) \/ Mark(t) \/ Regate(t) \/ Ungate(t) \/ Check(t) \/ Invalid(t) \/ Unmark(t)
    <3>1. Flags /\ client' = client /\ mine' = mine /\ Others
        BY <2>11 DEF Handoff, Gates, Mark, Regate, Ungate, Check, Invalid, Unmark, lockVars
    <3>2. \E p, q \in Adopted \ {"allow", "notify", "complete", "settle"} : Move(t, p, q)
        BY <2>11 DEF Handoff, Gates, Mark, Regate, Ungate, Check, Invalid, Unmark, Adopted
    <3> QED BY <2>1, <3>1, <3>2 DEF Transacting, Adopted, Consuming, Detaching
  <2>12. CASE Verify(t)
    <3>1. CASE Owned(t) /\ pending'
      <4>1. client' = client /\ client = mine[t] /\ mine' = mine /\ closed' = closed /\ snap' = snap /\ Others
            /\ UNCHANGED <<replacing, epoch>> /\ \E q \in {"check", "invalid"} : Move(t, "verify", q)
          BY <2>12, <3>1 DEF Verify, Owned, lockVars
      <4>2. \A u \in Connectors : pc[u] # "begin"
          BY <4>1 DEF Move, Adopted
      <4>3. OwnerIsPending' /\ TransactionIsAlone'
          BY <3>1, <4>1 DEF Move, Adopted, Transacting
      <4>4. SnapshotIsClean'
          BY <4>1, <4>2 DEF Move
      <4>5. SessionIsCurrent'
          BY <4>1 DEF Move
      <4>6. FlagsOwed'
          BY <4>1 DEF Move, Adopted
      <4> QED BY <4>3, <4>4, <4>5, <4>6
    <3>2. CASE Move(t, "verify", "invalid") /\ pending' = pending
      <4>1. Flags /\ client' = client /\ mine' = mine /\ Others
          BY <2>12, <3>2 DEF Verify, lockVars
      <4> QED BY <2>1, <3>2, <4>1 DEF Transacting, Adopted, Consuming, Detaching
    <3>3. (Owned(t) /\ pending') \/ (Move(t, "verify", "invalid") /\ pending' = pending)
        BY <2>12 DEF Verify
    <3> QED BY <3>1, <3>2, <3>3
  <2>13. CASE Commit(t)
    <3>1. Flags /\ client' = client /\ mine' = mine /\ Others
        BY <2>13 DEF Commit, lockVars, LocalInv
    <3>2. \/ Move(t, "commit", "allow") /\ seen'[t] = epoch
          \/ Move(t, "commit", "invalid")
        BY <2>13 DEF Commit, LocalInv
    <3> QED BY <2>1, <3>1, <3>2 DEF Transacting, Adopted, Consuming, Detaching
  <2>14. CASE Allow(t) \/ Notify(t) \/ NotifyRaises(t)
    <3>1. Flags /\ client' = client /\ mine' = mine /\ Others /\ seen' = seen
        BY <2>14 DEF Allow, Notify, NotifyRaises, lockVars
    <3>2. \/ Move(t, "allow", "notify") /\ epoch = seen[t]
          \/ Move(t, "allow", "invalid")
          \/ Move(t, "notify", "complete")
          \/ Move(t, "notify", "settle") /\ HeartbeatFails
        BY <2>14 DEF Allow, Notify, NotifyRaises
    <3>3. client = mine[t] /\ pc[t] = "notify" => epoch = seen[t]
        OBVIOUS
    <3> QED BY <2>1, <3>1, <3>2, <3>3 DEF Transacting, Adopted, Consuming, Detaching, Move
  <2>15. CASE Complete(t)
    <3>1. Flags /\ client' = client /\ mine' = mine /\ Others
        BY <2>15 DEF Complete, lockVars, LocalInv
    <3>2. Move(t, "complete", "settle")
        BY <2>15 DEF Complete
    <3>3. completed'[t] = (client = mine[t] /\ epoch = seen[t])
        BY <2>15 DEF Complete, LocalInv
    <3>4. client = mine[t] => completed'[t]
        BY <3>2, <3>3 DEF Move
    <3> QED BY <2>1, <3>1, <3>2, <3>4 DEF Transacting, Adopted, Consuming, Detaching
  <2>16. CASE Settle(t)
    <3>1. Others /\ mine' = mine /\ client' = client /\ UNCHANGED <<closed, epoch, snap>>
          /\ \E q \in {"raise", "repair"} : Move(t, "settle", q)
        BY <2>16 DEF Settle, lockVars
    <3>2. CASE client # mine[t]
      <4>1. /\ pending => pending'
            /\ replacing => replacing'
            /\ pending' => pending
            /\ replacing' => replacing
        <5>1. pending' = (pending /\ client # mine[t])
            BY <2>16 DEF Settle
        <5>2. replacing' = (replacing /\ ~(client = mine[t] /\ completed[t]))
            BY <2>16 DEF Settle
        <5> QED BY <3>2, <5>1, <5>2
      <4>2. OwnerIsPending' /\ TransactionIsAlone'
          BY <3>1, <4>1 DEF Move, Transacting, Adopted
      <4>3. SnapshotIsClean' /\ SessionIsCurrent'
          BY <3>1, <4>1 DEF Move
      <4>4. FlagsOwed'
          BY <3>1, <3>2, <4>1 DEF Move, Transacting, Consuming, Detaching
      <4> QED BY <4>2, <4>3, <4>4
    <3>3. CASE client = mine[t]
      <4>1. ~pending' /\ (replacing' => HeartbeatFails)
          BY <2>16, <3>1, <3>3 DEF Settle, Move
      <4>2. \A u \in Connectors : client = mine[u] => u = t
          BY <1>1, <3>1, <3>3, ZenonT(60) DEF MineInv, Move, Adopted
      <4>3. OwnerIsPending' /\ TransactionIsAlone'
          BY <3>1, <4>1, <4>2 DEF Move, Transacting, Adopted
      <4>4. SnapshotIsClean'
          BY <3>1, <4>1 DEF Move
      <4>5. SessionIsCurrent'
          BY <3>1, <4>2 DEF Move
      <4>6. FlagsOwed'
          BY <4>1
      <4> QED BY <4>3, <4>4, <4>5, <4>6
    <3> QED BY <3>2, <3>3
  <2>17. CASE Discard(t)
    <3>1. Move(t, "discard", "shut") /\ mine' = mine /\ UNCHANGED <<closed, epoch, snap>> /\ completed' = completed
        BY <2>17 DEF Discard, lockVars
    <3>2. Others
        BY <2>17 DEF Discard, LocalInv
    <3>3. CASE client' = NoClient /\ ~pending' /\ ~replacing'
      <4>1. OwnerIsPending' /\ TransactionIsAlone'
          BY <1>1, <3>1, <3>3 DEF Move, Adopted, Transacting
      <4>2. SnapshotIsClean'
          BY <3>1, <3>3 DEF Move
      <4>3. SessionIsCurrent'
          BY <1>1, <3>1, <3>3 DEF Move, Adopted
      <4>4. FlagsOwed'
          BY <3>3
      <4> QED BY <4>1, <4>2, <4>3, <4>4
    <3>4. CASE client # mine[t] /\ UNCHANGED <<client, pending, replacing>>
        BY <2>1, <3>1, <3>2, <3>4 DEF Transacting, Adopted, Consuming, Detaching
    <3> QED BY <2>17, <3>3, <3>4 DEF Discard
  <2>18. CASE Shut(t) \/ Same(t) \/ Reset(t) \/ Lose(t)
    <3>1. Flags /\ client' = client /\ mine' = mine /\ Others
        BY <2>18 DEF Shut, Same, Reset, Lose, lockVars
    <3>2. \E p \in Discarded, q \in Discarded \cup {"settle", "raise"} : Move(t, p, q)
        BY <2>18 DEF Shut, Same, Reset, Lose, Discarded
    <3>3. client # mine[t]
        BY <3>2 DEF MineInv, Holding, Apart, Discarded, Move
    <3> QED BY <2>1, <3>1, <3>2, <3>3 DEF Transacting, Discarded, Consuming, Detaching
  <2> QED BY <1>4, <2>3, <2>4, <2>5, <2>6, <2>7, <2>9, <2>10, <2>11, <2>12, <2>13, <2>14, <2>15, <2>16, <2>17,
             <2>18 DEF CoreStep
<1> QED BY <1>3, <1>4, StepKinds

LeftInv ==
    /\ PlaceInv /\ ClientInv /\ LinksInv /\ PlanInv /\ LocalInv /\ HeldInv
    /\ MineInv /\ LinkHeld /\ InflightHeld /\ FlagInv

LEMMA LeftHolds == Spec => []LeftInv
<1>1. Init => LeftInv
  <2> SUFFICES ASSUME Init PROVE LeftInv
      OBVIOUS
  <2> USE ThreadKinds, SessionAssumption
  <2>1. PlaceInv /\ ClientInv
      BY CloseInit
  <2>2. LinksInv /\ LocalInv
      BY DEF Init, LinksInv, LinkInv, DueInv, LocalInv
  <2>3. PlanInv
    <3>1. "client" \in DOMAIN NoPlan /\ NoPlan.client = NoClient
        BY DEF NoPlan
    <3> QED BY <3>1 DEF Init, PlanInv
  <2>4. \A t \in Threads : pc[t] = "idle"
      BY DEF Init
  <2>5. \A t \in Connectors : mine[t] = NoClient /\ connectLock # t
      BY DEF Init, Connectors
  <2>6. client = NoClient /\ inflight = NoClient /\ ~pending /\ ~replacing /\ ~snap.pending /\ ~snap.replacing
      BY DEF Init
  <2>7. HeldInv
      BY <2>4, <2>5 DEF HeldInv, Locked, Transacting, Consuming, Detaching
  <2>8. MineInv
      BY <2>4, <2>5, <2>6 DEF MineInv, Holding, Apart, Adopted, Discarded
  <2>9. LinkHeld /\ InflightHeld
      BY <2>6 DEF Init, LinkHeld, InflightHeld
  <2>10. FlagInv
      BY <2>4, <2>6 DEF FlagInv, FlagsOwed, OwnerIsPending, TransactionIsAlone, SnapshotIsClean, SessionIsCurrent,
         Adopted, Transacting
  <2> QED BY <2>1, <2>2, <2>3, <2>7, <2>8, <2>9, <2>10 DEF LeftInv
<1>2. LeftInv /\ [Next]_vars => LeftInv'
  <2> SUFFICES ASSUME LeftInv, [Next]_vars PROVE LeftInv'
      OBVIOUS
  <2> USE DEF LeftInv
  <2>1. PlaceInv' /\ ClientInv' /\ PlanInv' /\ LocalInv' /\ HeldInv'
      BY PlaceStep, ClientStep, PlanStep, LocalStep, HeldStep
  <2>2. LinksInv'
      BY LinkStep DEF PlanInv, Links, LinksInv
  <2>3. MineInv' /\ LinkHeld' /\ InflightHeld' /\ FlagInv'
      BY MineStep, LinkHeldStep, InflightStep, FlagStep
  <2> QED BY <2>1, <2>2, <2>3
<1> QED BY <1>1, <1>2, PTL DEF Spec

\* When all threads have finished, every link the platform still holds is the interface's
\* client, and the provisional flags of connect() were given back, for any number of overlapping
\* calls, callbacks, reconnect attempts and clients.
THEOREM NothingIsLeft == Spec => []NothingLeftBehind
<1>1. LeftInv => NothingLeftBehind
  <2> SUFFICES ASSUME LeftInv, Quiet
               PROVE  /\ \A c \in Clients : link[c] = "up" => client = c
                      /\ ~pending /\ inflight = NoClient
                      /\ replacing => HeartbeatFails
      BY DEF NothingLeftBehind
  <2> USE DEF LeftInv
  <2>1. \A t \in Connectors : pc[t] = "idle"
      BY ThreadKinds DEF Quiet, At
  <2>2. \A c \in Clients : link[c] = "up" => client = c
      BY <2>1 DEF LinkHeld
  <2>3. inflight = NoClient
      BY <2>1 DEF InflightHeld, Announcing, Invalidated, Discarded
  <2>4. ~Owing
      BY <2>1, ThreadKinds DEF Owing, Transacting, Adopted, Consuming, Detaching
  <2>5. ~pending /\ (replacing => HeartbeatFails)
      BY <2>4 DEF FlagInv, FlagsOwed
  <2> QED BY <2>2, <2>3, <2>5
<1> QED BY <1>1, LeftHolds, PTL

(* The same while calls, callbacks and attempts are under way.              *)

\* Whoever waits waits for a thread that will let go: the connect lock is held by exactly the
\* thread that is inside the transaction; a link that is up is the interface's or in the hands
\* of the connect() that adopts or closes it; the publication belongs to a thread that gives
\* it back; while the provisional flags stand, which keep every other connect() out, some
\* thread is on its way to clear them; and the worker's reference, which keeps a second
\* worker from starting, stands for a worker that runs.
HeldByAThread ==
    /\ \A t \in Connectors : connectLock = t <=> pc[t] \in Locked
    /\ LinkHeld
    /\ InflightHeld
    /\ FlagsOwed
    /\ workerRef <=> pc[Worker] # "idle"

WorkerRuns == workerRef => pc[Worker] # "idle"

LEMMA WorkerStep == PlaceInv /\ WorkerRuns /\ [Next]_vars => WorkerRuns'
<1> SUFFICES ASSUME PlaceInv, WorkerRuns, [Next]_vars PROVE WorkerRuns'
    OBVIOUS
<1> USE ThreadKinds DEF WorkerRuns
<1>1. ASSUME NEW t \in Threads, t # Worker, NEW S, Moved(t, S), UNCHANGED workerRef PROVE WorkerRuns'
    BY <1>1 DEF Moved, PlaceInv
<1>2. ASSUME NEW t \in Callers, NEW op \in {"ask", "close"}, Call(t, op) PROVE WorkerRuns'
  <2>1. Moved(t, {op}) /\ UNCHANGED workerRef
      BY <1>2 DEF Call, Goto, Moved, workerVars
  <2> QED BY <1>1, <2>1
<1>3. ASSUME NEW t \in Connectors, ConnectStep(t) PROVE WorkerRuns'
  <2>1. UNCHANGED workerRef
      BY <1>3 DEF ConnectStep, Ask, Lock, Begin, Validate, DialSucceeds, DialFails, Finish, Failed,
         Restore, Adopt, Handoff, Gates, Mark, Regate, Ungate, Verify, Check, Commit, Allow, Notify,
         NotifyRaises, Complete, Settle, Repair, Relost, Invalid, Unmark, Discard, Shut, Same, Reset,
         Lose, Raise, workerVars
  <2>2. CASE t = Worker
    <3>1. Moved(t, ConnectAll \ {"idle"})
        BY <1>3, <2>2, ConnectMoves
    <3> QED BY <2>2, <3>1 DEF Moved, PlaceInv
  <2>3. CASE t # Worker
      BY <1>1, <1>3, <2>1, <2>3, ConnectMoves
  <2> QED BY <2>2, <2>3
<1>4. ASSUME NEW t \in Callers, CloseStep(t) PROVE WorkerRuns'
  <2>1. UNCHANGED workerRef
      BY <1>4 DEF CloseStep, Close, Signal, MeshClose, Detach, Consume, Final, workerVars
  <2> QED BY <1>1, <1>4, <2>1, CloseMoves
<1>5. ASSUME NEW h \in Handlers, HandlerStep(h) PROVE WorkerRuns'
  <2>1. CASE pc' = [pc EXCEPT ![h] = "idle", ![Worker] = "loop"]
      BY <2>1 DEF PlaceInv
  <2>2. CASE Moved(h, HandlerPlaces \cup {"idle"})
    <3>1. UNCHANGED workerRef \/ pc' = [pc EXCEPT ![h] = "idle", ![Worker] = "loop"]
        BY <1>5 DEF HandlerStep, Report, Resolve, Vet, Recheck, Drop, Release, Lost, Wake, Schedule,
           workerVars
    <3> QED BY <1>1, <2>1, <2>2, <3>1
  <2> QED BY <1>5, <2>1, <2>2, HandlerMoves
<1>6. ASSUME WorkerLoop \/ WorkerExit PROVE WorkerRuns'
    BY <1>6 DEF WorkerLoop, WorkerExit, Goto, workerVars, PlaceInv
<1>7. ASSUME NEW c \in Clients, LinkDrops(c) PROVE WorkerRuns'
    BY <1>7 DEF LinkDrops, workerVars
<1>8. ASSUME UNCHANGED vars PROVE WorkerRuns'
    BY <1>8 DEF vars, workerVars
<1> QED BY <1>2, <1>3, <1>4, <1>5, <1>6, <1>7, <1>8 DEF Next

\* At every moment, not only when all threads have finished: no lock, link, publication, flag
\* or worker reference is left without a thread that lets go of it.
THEOREM NothingStaysHeld == Spec => []HeldByAThread
<1>1. Init => WorkerRuns
    BY DEF Init, WorkerRuns
<1>2. LeftInv /\ WorkerRuns /\ [Next]_vars => WorkerRuns'
    BY WorkerStep DEF LeftInv
<1>3. LeftInv /\ WorkerRuns => HeldByAThread
    BY DEF LeftInv, HeldInv, FlagInv, WorkerRuns, HeldByAThread
<1> QED BY <1>1, <1>2, <1>3, LeftHolds, PTL DEF Spec

----------------------------------------------------------------------------
(* The types of the rest.                                                  *)

FlagTypes ==
    /\ closed \in BOOLEAN /\ closing \in BOOLEAN /\ notified \in BOOLEAN /\ pending \in BOOLEAN
    /\ replacing \in BOOLEAN /\ ever \in BOOLEAN /\ isConnected \in BOOLEAN
    /\ shutdown \in BOOLEAN /\ workerRef \in BOOLEAN
SessionTypes ==
    /\ state \in {"disconnected", "connecting", "connected", "disconnecting"}
    /\ inflight \in Clients \cup {NoClient}
    /\ epoch \in Nat /\ claim \in {"none", "connecting", "connected"}
    /\ connectLock \in Connectors \cup {NoClient} /\ calls \in 0..MaxCalls
SnapTypes == snap \in Snapshots
LocalTypes ==
    /\ seen \in [Connectors -> Nat] /\ completed \in [Connectors -> BOOLEAN]
    /\ undo \in [Connectors -> SUBSET {"reset", "lost", "settle"}]
Plans == [client : Clients \cup {NoClient}, epoch : Nat, provisional : BOOLEAN]
PlanTypes == plan \in [Handlers -> Plans]

LEMMA ConnectFlags ==
    ASSUME SnapTypes, FlagTypes, NEW t \in Connectors, ConnectStep(t)
    PROVE  FlagTypes'
<1>1. CASE Ask(t) \/ Lock(t) \/ Validate(t) \/ DialSucceeds(t) \/ DialFails(t)
    BY <1>1
    DEF Ask, Lock, Validate, DialSucceeds, DialFails, FlagTypes, SnapTypes, Snapshots,
        sessionVars, meshVars, workerVars
<1>2. CASE Begin(t) \/ Finish(t) \/ Failed(t) \/ Handoff(t)
    BY <1>2, ZenonT(60)
    DEF Begin, Finish, Failed, Handoff, FlagTypes, SnapTypes, Snapshots, sessionVars, meshVars,
        workerVars
<1>3. CASE Gates(t) \/ Mark(t) \/ Regate(t) \/ Ungate(t)
    BY <1>3
    DEF Gates, Mark, Regate, Ungate, FlagTypes, SnapTypes, Snapshots, sessionVars, meshVars,
        workerVars
<1>4. CASE Restore(t) \/ Adopt(t)
    BY <1>4 DEF Restore, Adopt, FlagTypes, SnapTypes, Snapshots, sessionVars, meshVars, workerVars
<1>5. CASE Verify(t) \/ Check(t) \/ Settle(t)
    BY <1>5
    DEF Verify, Check, Settle, FlagTypes, SnapTypes, Snapshots, sessionVars, meshVars,
        workerVars
<1>6. CASE Commit(t) \/ Allow(t) \/ Notify(t) \/ NotifyRaises(t) \/ Complete(t)
    BY <1>6, ZenonT(60)
    DEF Commit, Allow, Notify, NotifyRaises, Complete, FlagTypes, SnapTypes, Snapshots,
        sessionVars, meshVars, workerVars
<1>7. CASE Repair(t) \/ Relost(t) \/ Invalid(t) \/ Unmark(t)
    BY <1>7, ZenonT(60)
    DEF Repair, Relost, Invalid, Unmark, FlagTypes, SnapTypes, Snapshots, sessionVars, meshVars,
        workerVars
<1>8. CASE Shut(t) \/ Same(t) \/ Reset(t) \/ Lose(t) \/ Raise(t)
    BY <1>8, ZenonT(60)
    DEF Shut, Same, Reset, Lose, Raise, FlagTypes, SnapTypes, Snapshots, sessionVars, meshVars,
        workerVars
<1>9. CASE Discard(t)
    BY <1>9 DEF Discard, FlagTypes, SnapTypes, Snapshots, sessionVars, meshVars, workerVars
<1> QED BY <1>1, <1>2, <1>3, <1>4, <1>5, <1>6, <1>7, <1>8, <1>9 DEF ConnectStep

LEMMA ConnectSession ==
    ASSUME ClientInv, SnapTypes, SessionTypes, NEW t \in Connectors, ConnectStep(t)
    PROVE  SessionTypes' /\ plan' = plan
<1>1. CASE Ask(t) \/ Lock(t) \/ Validate(t) \/ DialSucceeds(t) \/ DialFails(t)
    BY <1>1
    DEF Ask, Lock, Validate, DialSucceeds, DialFails, SessionTypes, SnapTypes, Snapshots,
        ClaimCleared, ClientInv, sessionVars, lockVars
<1>2. CASE Begin(t) \/ Finish(t) \/ Failed(t) \/ Handoff(t)
    BY <1>2
    DEF Begin, Finish, Failed, Handoff, SessionTypes, SnapTypes, Snapshots, ClaimCleared,
        ClientInv, sessionVars, lockVars
<1>3. CASE Gates(t) \/ Mark(t) \/ Regate(t) \/ Ungate(t)
    BY <1>3
    DEF Gates, Mark, Regate, Ungate, SessionTypes, SnapTypes, Snapshots, ClaimCleared, ClientInv,
        sessionVars, lockVars
<1>4. CASE Restore(t) \/ Adopt(t)
    BY <1>4
    DEF Restore, Adopt, SessionTypes, SnapTypes, Snapshots, ClaimCleared, ClientInv, sessionVars,
        lockVars
<1>5. CASE Verify(t) \/ Check(t) \/ Settle(t)
    BY <1>5
    DEF Verify, Check, Settle, SessionTypes, SnapTypes, Snapshots, ClaimCleared, ClientInv,
        sessionVars, lockVars
<1>6. CASE Commit(t) \/ Allow(t) \/ Notify(t) \/ NotifyRaises(t) \/ Complete(t)
    BY <1>6
    DEF Commit, Allow, Notify, NotifyRaises, Complete, SessionTypes, SnapTypes, Snapshots,
        ClaimCleared, ClientInv, sessionVars, lockVars
<1>7. CASE Repair(t) \/ Relost(t) \/ Invalid(t) \/ Unmark(t)
    BY <1>7
    DEF Repair, Relost, Invalid, Unmark, SessionTypes, SnapTypes, Snapshots, ClaimCleared,
        ClientInv, sessionVars, lockVars
<1>8. CASE Shut(t) \/ Same(t) \/ Reset(t) \/ Lose(t) \/ Raise(t)
    BY <1>8
    DEF Shut, Same, Reset, Lose, Raise, SessionTypes, SnapTypes, Snapshots, ClaimCleared,
        ClientInv, sessionVars, lockVars
<1>9. CASE Discard(t)
    BY <1>9
    DEF Discard, SessionTypes, SnapTypes, Snapshots, ClaimCleared, ClientInv, sessionVars,
        lockVars
<1> QED BY <1>1, <1>2, <1>3, <1>4, <1>5, <1>6, <1>7, <1>8, <1>9 DEF ConnectStep

LEMMA ConnectLocals ==
    ASSUME SessionTypes, FlagTypes, SnapTypes, LocalTypes, NEW t \in Connectors, ConnectStep(t)
    PROVE  SnapTypes' /\ LocalTypes'
<1>1. CASE Ask(t) \/ Lock(t) \/ Validate(t) \/ DialSucceeds(t) \/ DialFails(t)
    BY <1>1
    DEF Ask, Lock, Validate, DialSucceeds, DialFails, SessionTypes, FlagTypes, SnapTypes,
        LocalTypes, Snapshots, lockVars, localVars
<1>2. CASE Begin(t) \/ Finish(t) \/ Failed(t) \/ Handoff(t)
    BY <1>2
    DEF Begin, Finish, Failed, Handoff, SessionTypes, FlagTypes, SnapTypes, LocalTypes,
        Snapshots, lockVars, localVars
<1>3. CASE Gates(t) \/ Mark(t) \/ Regate(t) \/ Ungate(t)
    BY <1>3
    DEF Gates, Mark, Regate, Ungate, SessionTypes, FlagTypes, SnapTypes, LocalTypes, Snapshots,
        lockVars, localVars
<1>4. CASE Restore(t) \/ Adopt(t)
    BY <1>4
    DEF Restore, Adopt, SessionTypes, FlagTypes, SnapTypes, LocalTypes, Snapshots, lockVars,
        localVars
<1>5. CASE Verify(t) \/ Check(t) \/ Settle(t)
    BY <1>5
    DEF Verify, Check, Settle, SessionTypes, FlagTypes, SnapTypes, LocalTypes, Snapshots,
        lockVars, localVars
<1>6. CASE Commit(t) \/ Allow(t) \/ Notify(t) \/ NotifyRaises(t) \/ Complete(t)
    BY <1>6
    DEF Commit, Allow, Notify, NotifyRaises, Complete, SessionTypes, FlagTypes, SnapTypes,
        LocalTypes, Snapshots, lockVars, localVars
<1>7. CASE Repair(t) \/ Relost(t) \/ Invalid(t) \/ Unmark(t)
    BY <1>7
    DEF Repair, Relost, Invalid, Unmark, SessionTypes, FlagTypes, SnapTypes, LocalTypes,
        Snapshots, lockVars, localVars
<1>8. CASE Shut(t) \/ Same(t) \/ Reset(t) \/ Lose(t) \/ Raise(t)
    BY <1>8
    DEF Shut, Same, Reset, Lose, Raise, SessionTypes, FlagTypes, SnapTypes, LocalTypes,
        Snapshots, lockVars, localVars
<1>9. CASE Discard(t)
    BY <1>9
    DEF Discard, SessionTypes, FlagTypes, SnapTypes, LocalTypes, Snapshots, lockVars, localVars
<1> QED BY <1>1, <1>2, <1>3, <1>4, <1>5, <1>6, <1>7, <1>8, <1>9 DEF ConnectStep

LEMMA HandlerTypes ==
    ASSUME ClientInv, SessionTypes, FlagTypes, PlanTypes, NEW h \in Handlers, HandlerStep(h)
    PROVE  SessionTypes' /\ FlagTypes' /\ PlanTypes' /\ UNCHANGED <<snap, seen, completed, undo>>
<1> USE DEF sessionVars, meshVars, workerVars, lockVars, localVars
<1> DEFINE Shared == SessionTypes' /\ FlagTypes' /\ UNCHANGED <<snap, seen, completed, undo>>
<1>1. NoPlan \in Plans
    BY DEF NoPlan, Plans
<1>2. ASSUME NEW c \in Clients, Report(h, c) PROVE Shared /\ PlanTypes'
  <2>1. PlanTypes'
      BY <1>2 DEF Report, PlanTypes, Plans
  <2> QED BY <1>2, <2>1 DEF Report, SessionTypes, FlagTypes
<1>3. ASSUME Resolve(h) PROVE Shared /\ PlanTypes'
  <2>1. [client |-> client, epoch |-> epoch, provisional |-> pending /\ ~replacing] \in Plans
      BY DEF Plans, ClientInv, SessionTypes
  <2>2. PlanTypes'
      BY <1>1, <1>3, <2>1 DEF Resolve, PlanTypes
  <2>3. SessionTypes' /\ UNCHANGED <<snap, seen, completed, undo>>
      BY <1>3 DEF Resolve, SessionTypes
  <2>4. FlagTypes'
      BY <1>3 DEF Resolve, FlagTypes
  <2> QED BY <2>2, <2>3, <2>4
<1>4. ASSUME Vet(h) \/ Recheck(h) \/ Drop(h) \/ Release(h) \/ Lost(h) \/ Wake(h) \/ Schedule(h)
      PROVE  Shared /\ PlanTypes'
  <2>1. plan' = plan \/ plan' = [plan EXCEPT ![h] = NoPlan]
      BY <1>4 DEF Vet, Recheck, Drop, Release, Lost, Wake, Schedule
  <2>2. PlanTypes'
      BY <1>1, <2>1 DEF PlanTypes
  <2>3. /\ UNCHANGED <<state, inflight, epoch, connectLock, calls, snap, seen, completed, undo>>
        /\ claim' \in {claim, "none"}
      BY <1>4 DEF Vet, Recheck, Drop, Release, Lost, Wake, Schedule
  <2>4. /\ UNCHANGED <<closed, closing, notified, pending, replacing, ever>>
        /\ isConnected' \in {isConnected, FALSE} /\ shutdown' \in {shutdown, FALSE}
        /\ workerRef' \in {workerRef, TRUE}
      BY <1>4 DEF Vet, Recheck, Drop, Release, Lost, Wake, Schedule
  <2>5. SessionTypes'
      BY <2>3 DEF SessionTypes
  <2>6. FlagTypes'
      BY <2>4 DEF FlagTypes
  <2> QED
      BY <2>2, <2>3, <2>5, <2>6
<1> HIDE DEF Shared
<1>5. Shared /\ PlanTypes'
    BY <1>2, <1>3, <1>4 DEF HandlerStep
<1> QED BY <1>5 DEF Shared

LEMMA CloseTypes ==
    ASSUME SessionTypes, FlagTypes, NEW t \in Callers, CloseStep(t)
    PROVE  SessionTypes' /\ FlagTypes' /\ UNCHANGED <<snap, seen, completed, undo, plan>>
<1> USE DEF sessionVars, meshVars, workerVars, lockVars, localVars
<1>1. UNCHANGED <<snap, seen, completed, undo, plan, inflight, epoch, connectLock, calls>>
    BY DEF CloseStep, Close, Signal, MeshClose, Detach, Consume, Final
<1>2. state' \in {state, "disconnecting", "disconnected"} /\ claim' \in {claim, "none"}
    BY DEF CloseStep, Close, Signal, MeshClose, Detach, Consume, Final, ClaimCleared
<1>3. /\ closed' \in {closed, TRUE} /\ closing' \in {closing, TRUE} /\ notified' \in {notified, TRUE}
      /\ pending' \in {pending, FALSE} /\ replacing' \in {replacing, FALSE} /\ ever' = ever
      /\ shutdown' \in {shutdown, TRUE} /\ workerRef' = workerRef
    BY DEF CloseStep, Close, Signal, MeshClose, Detach, Consume, Final
<1>4. isConnected' \in BOOLEAN
    BY DEF CloseStep, Close, Signal, MeshClose, Detach, Consume, Final, FlagTypes
<1>5. SessionTypes'
    BY <1>1, <1>2 DEF SessionTypes
<1>6. FlagTypes'
    BY <1>3, <1>4 DEF FlagTypes
<1> QED BY <1>1, <1>5, <1>6

\* Every variable keeps its type, for any number of callers, callbacks and clients.
THEOREM TypesHold == Spec => []TypeOK
<1> DEFINE Rest == SessionTypes /\ FlagTypes /\ SnapTypes /\ LocalTypes /\ PlanTypes
<1> DEFINE Inv == PlaceInv /\ ClientInv /\ LinksInv /\ PlanInv /\ Rest
<1>1. ASSUME Init PROVE Inv
  <2>1. PlaceInv /\ ClientInv
      BY <1>1, CloseInit
  <2>2. LinksInv
      BY <1>1 DEF Init, LinksInv, LinkInv, DueInv
  <2>3. NoPlan \in Plans
      BY DEF NoPlan, Plans
  <2>4. PlanTypes
      BY <1>1, <2>3 DEF Init, PlanTypes
  <2>5. PlanInv
    <3>1. "client" \in DOMAIN NoPlan /\ NoPlan.client = NoClient
        BY DEF NoPlan
    <3>2. DOMAIN plan = Handlers /\ \A h \in Handlers : plan[h] = NoPlan /\ pc[h] = "idle"
        BY <1>1 DEF Init, Threads
    <3> QED BY <3>1, <3>2 DEF PlanInv
  <2>6. SessionTypes /\ FlagTypes
    <3>1. /\ state = "disconnected" /\ inflight = NoClient /\ epoch = 0 /\ claim = "none"
          /\ connectLock = NoClient /\ calls = 0
        BY <1>1 DEF Init
    <3>2. SessionTypes
        BY <3>1, SessionAssumption DEF SessionTypes
    <3>3. FlagTypes
        BY <1>1 DEF Init, FlagTypes
    <3> QED BY <3>2, <3>3
  <2>7. SnapTypes /\ LocalTypes
      BY <1>1 DEF Init, SnapTypes, LocalTypes, Snapshots
  <2> QED BY <2>1, <2>2, <2>4, <2>5, <2>6, <2>7
<1>2. ASSUME Inv, [Next]_vars PROVE Inv'
  <2>1. PlaceInv' /\ ClientInv' /\ PlanInv'
      BY <1>2, PlaceStep, ClientStep, PlanStep
  <2>2. LinksInv'
      BY <1>2, LinkStep DEF PlanInv, Links, LinksInv
  <2>3. Rest'
    <3>1. ASSUME UNCHANGED <<snap, seen, completed, undo>> PROVE SnapTypes' /\ LocalTypes'
        BY <1>2, <3>1 DEF SnapTypes, LocalTypes
    <3>2. ASSUME plan' = plan PROVE PlanTypes'
        BY <1>2, <3>2 DEF PlanTypes
    <3>3. ASSUME NEW t \in Callers, NEW op, Call(t, op) PROVE Rest'
      <4>1. UNCHANGED <<sessionVars, meshVars, claim, workerVars, lockVars, localVars, plan>>
          BY <3>3 DEF Call
      <4>2. calls' \in 0..MaxCalls
          BY <1>2, <3>3, SessionAssumption DEF Call, SessionTypes
      <4> QED
          BY <1>2, <3>1, <3>2, <4>1, <4>2
          DEF SessionTypes, FlagTypes, sessionVars, meshVars, workerVars, lockVars, localVars
    <3>4. ASSUME \/ WorkerLoop \/ WorkerExit \/ UNCHANGED vars \/ \E c \in Clients : LinkDrops(c)
          PROVE  Rest'
      <4>1. /\ UNCHANGED <<sessionVars, meshVars, claim, shutdown, lockVars, localVars, plan, calls>>
            /\ workerRef' \in {workerRef, FALSE}
          BY <3>4 DEF WorkerLoop, WorkerExit, LinkDrops, vars, workerVars
      <4>2. SessionTypes'
          BY <1>2, <4>1 DEF SessionTypes, sessionVars, lockVars
      <4>3. FlagTypes'
          BY <1>2, <4>1 DEF FlagTypes, sessionVars, meshVars
      <4>4. UNCHANGED <<snap, seen, completed, undo>> /\ plan' = plan
          BY <4>1 DEF lockVars, localVars
      <4> QED
          BY <3>1, <3>2, <4>2, <4>3, <4>4
    <3>5. ASSUME NEW t \in Connectors, ConnectStep(t) PROVE Rest'
        BY <1>2, <3>2, <3>5, ConnectFlags, ConnectSession, ConnectLocals
    <3>6. ASSUME NEW h \in Handlers, HandlerStep(h) PROVE Rest'
        BY <1>2, <3>1, <3>6, HandlerTypes
    <3>7. ASSUME NEW t \in Callers, CloseStep(t) PROVE Rest'
        BY <1>2, <3>1, <3>2, <3>7, CloseTypes
    <3> HIDE DEF Rest
    <3> QED BY <1>2, <3>3, <3>4, <3>5, <3>6, <3>7 DEF Next
  <2> QED BY <2>1, <2>2, <2>3
<1>3. Inv => TypeOK
    BY DEF TypeOK, PlaceInv, ClientInv, LinksInv, LinkInv, SessionTypes, FlagTypes, SnapTypes,
       LocalTypes, PlanTypes, Plans
<1> QED BY <1>1, <1>2, <1>3, PTL DEF Spec

=============================================================================
