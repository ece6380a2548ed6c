----------------------------- MODULE BleSession -----------------------------
(***************************************************************************)
(* The session of one BLEInterface: the connect transaction and adoption   *)
(* of a client (interface.py, connection.py), verification and publication *)
(* (lifecycle_ownership_runtime.py), disconnect callbacks                  *)
(* (lifecycle_disconnect_runtime.py), the automatic reconnect worker       *)
(* (reconnection.py) and close() (lifecycle_shutdown_runtime.py).          *)
(*                                                                         *)
(* All of them share one state lock.  An action is one section under that  *)
(* lock with the thread-local code around it, or one blocking call made    *)
(* without it.  A client stands for one native link: it is created when a  *)
(* dial succeeds.  The address registry is reduced to this interface's own *)
(* claim; BleGate models the registry and its other users.                 *)
(***************************************************************************)
EXTENDS Naturals, FiniteSets

CONSTANTS
    Callers,        \* application threads that call connect() and close()
    Handlers,       \* threads that deliver disconnect callbacks
    Worker,         \* the automatic reconnect worker
    NoClient,       \* None
    AutoReconnect,  \* auto_reconnect
    HeartbeatFails, \* fault: the first heartbeat of a connection may raise
    MaxClients,     \* bound: links the platform establishes
    MaxCalls        \* bound: calls the application makes

ASSUME SessionAssumption ==
    /\ Worker \notin Callers \cup Handlers /\ Callers \cap Handlers = {}
    /\ AutoReconnect \in BOOLEAN /\ HeartbeatFails \in BOOLEAN
    /\ MaxClients \in Nat /\ MaxCalls \in Nat
    /\ NoClient \notin 1..MaxClients \cup Callers \cup Handlers \cup {Worker}

Clients == 1..MaxClients
Connectors == Callers \cup {Worker}
Threads == Connectors \cup Handlers

VARIABLES
    state,              \* BLEStateManager._state
    client,             \* self.client
    closed, closing,    \* session.closed, MeshInterface._closing
    notified,           \* session.disconnect_notified
    pending, replacing, \* client_publish_pending, client_replacement_pending
    epoch,              \* connection_session_epoch
    inflight,           \* connected_publish_inflight_client
    ever,               \* ever_connected
    isConnected,        \* MeshInterface.isConnected
    claim,              \* this interface's claim on the address in the registry
    shutdown,           \* _shutdown_event
    workerRef,          \* whether _reconnect_thread is set
    link,               \* the native state of each client
    due,                \* clients whose disconnect callback has not run yet
    connectLock, snap,  \* holder of _connect_lock, its _BLEConnectStateSnapshot
    pc,                 \* each thread: where it is
    mine,               \* each connector: the client it establishes
    seen,               \* each connector: the session epoch it remembers
    completed,          \* each connector: publish_completed
    undo,               \* each connector: what an invalidation still has to undo
    plan,               \* each handler: its _DisconnectPlan
    calls               \* calls made so far

sessionVars == <<state, client, closed, notified, pending, replacing, epoch, inflight, ever>>
meshVars == <<closing, isConnected>>
workerVars == <<shutdown, workerRef>>
linkVars == <<link, due>>
lockVars == <<connectLock, snap>>
localVars == <<mine, seen, completed, undo>>
vars == <<sessionVars, meshVars, claim, workerVars, linkVars, lockVars, pc, localVars, plan, calls>>

ConnectPlaces == {"ask", "lock", "begin", "validate", "dial", "finish", "failed", "restore",
                  "adopt", "handoff", "gates", "mark", "regate", "ungate"}
PublishPlaces == {"verify", "check", "commit", "allow", "notify", "complete", "settle",
                  "repair", "relost"}
InvalidPlaces == {"invalid", "unmark", "discard", "shut", "same", "reset", "lose", "raise"}
ClosePlaces == {"close", "signal", "meshClose", "detach", "consume", "final"}
HandlerPlaces == {"resolve", "vet", "drop", "recheck", "release", "lost", "wake", "schedule"}
Places == {"idle", "loop", "exit"} \cup ConnectPlaces \cup PublishPlaces
              \cup InvalidPlaces \cup ClosePlaces \cup HandlerPlaces

NoPlan == [client |-> NoClient, epoch |-> 0, provisional |-> FALSE]
Snapshots == [notified : BOOLEAN, pending : BOOLEAN, replacing : BOOLEAN, epoch : Nat]

TypeOK ==
    /\ state \in {"disconnected", "connecting", "connected", "disconnecting"}
    /\ client \in Clients \cup {NoClient} /\ inflight \in Clients \cup {NoClient}
    /\ {closed, closing, notified, pending, replacing, ever, isConnected, shutdown, workerRef}
           \subseteq BOOLEAN
    /\ epoch \in Nat
    /\ claim \in {"none", "connecting", "connected"}
    /\ link \in [Clients -> {"unused", "up", "down", "closed"}]
    /\ due \subseteq Clients
    /\ connectLock \in Connectors \cup {NoClient}
    /\ snap \in Snapshots
    /\ pc \in [Threads -> Places]
    /\ mine \in [Connectors -> Clients \cup {NoClient}]
    /\ seen \in [Connectors -> Nat]
    /\ completed \in [Connectors -> BOOLEAN]
    /\ undo \in [Connectors -> SUBSET {"reset", "lost", "settle"}]
    /\ plan \in [Handlers ->
           [client : Clients \cup {NoClient}, epoch : Nat, provisional : BOOLEAN]]
    /\ calls \in 0..MaxCalls

\* A constructed interface that has not connected yet.
Init ==
    /\ state = "disconnected" /\ client = NoClient
    /\ closed = FALSE /\ closing = FALSE
    /\ notified = FALSE /\ pending = FALSE /\ replacing = FALSE
    /\ epoch = 0 /\ inflight = NoClient /\ ever = FALSE
    /\ isConnected = FALSE /\ claim = "none"
    /\ shutdown = FALSE /\ workerRef = FALSE
    /\ link = [c \in Clients |-> "unused"] /\ due = {}
    /\ connectLock = NoClient
    /\ snap = [notified |-> FALSE, pending |-> FALSE, replacing |-> FALSE, epoch |-> 0]
    /\ pc = [t \in Threads |-> "idle"]
    /\ mine = [t \in Connectors |-> NoClient]
    /\ seen = [t \in Connectors |-> 0]
    /\ completed = [t \in Connectors |-> FALSE]
    /\ undo = [t \in Connectors |-> {}]
    /\ plan = [h \in Handlers |-> NoPlan]
    /\ calls = 0

----------------------------------------------------------------------------
(* Shared conditions.                                                      *)

At(t, l) == pc[t] = l
Goto(t, l) == pc' = [pc EXCEPT ![t] = l]

\* Where a connect() call continues when it returns and when it raises.
Returned(t) == IF t = Worker THEN "exit" ELSE "idle"
Raised(t) == IF t = Worker THEN "loop" ELSE "idle"

Closing == closed \/ state = "disconnecting"

\* _get_existing_client_if_valid
ExistingValid ==
    /\ state = "connected" /\ ~notified /\ ~pending
    /\ client # NoClient /\ link[client] = "up"

\* _get_connected_client_status with its revalidation under the state lock.
Owned(t) ==
    /\ ~closed
    /\ client = mine[t] /\ state = "connected" /\ link[mine[t]] = "up"

\* Closing an open link makes the platform report its disconnection as well.
CloseLink(c) ==
    IF c = NoClient
    THEN UNCHANGED linkVars
    ELSE /\ link' = [link EXCEPT ![c] = "closed"]
         /\ due' = IF link[c] = "up" THEN due \cup {c} ELSE due

\* _mark_disconnected by the owner drops both kinds of claim; _clear_connecting one.
ClaimCleared == IF claim = "connecting" THEN "none" ELSE claim

----------------------------------------------------------------------------
(* connect(): checks and the connect transaction.                          *)

Call(t, op) ==
    /\ t \in Callers /\ At(t, "idle")
    /\ calls < MaxCalls
    /\ calls' = calls + 1
    /\ Goto(t, op)
    /\ UNCHANGED <<sessionVars, meshVars, claim, workerVars, linkVars, lockVars, localVars, plan>>

\* The checks before any lock is taken.
Ask(t) ==
    /\ At(t, "ask")
    /\ Goto(t, IF Closing THEN Raised(t) ELSE IF ExistingValid THEN Returned(t) ELSE "lock")
    /\ UNCHANGED <<sessionVars, meshVars, claim, workerVars, linkVars, lockVars, localVars, plan, calls>>

\* The same checks under _connect_lock; a connection still being published is refused.
Lock(t) ==
    /\ At(t, "lock")
    /\ connectLock = NoClient
    /\ IF ~Closing /\ ~ExistingValid /\ ~pending
       THEN connectLock' = t /\ Goto(t, "begin")
       ELSE /\ Goto(t, IF ~Closing /\ ExistingValid THEN Returned(t) ELSE Raised(t))
            /\ UNCHANGED connectLock
    /\ UNCHANGED <<sessionVars, meshVars, claim, workerVars, linkVars, snap, localVars, plan, calls>>

\* _begin_connect_transaction
Begin(t) ==
    /\ At(t, "begin")
    /\ snap' = [notified |-> notified, pending |-> pending, replacing |-> replacing, epoch |-> epoch]
    /\ replacing' = (client # NoClient /\ ~pending)
    /\ pending' = TRUE
    /\ epoch' = epoch + 1
    /\ Goto(t, "validate")
    /\ UNCHANGED <<state, client, closed, notified, inflight, ever, meshVars, claim, workerVars,
                   linkVars, connectLock, localVars, plan, calls>>

\* _validate_connection_request and the transition to CONNECTING.
Validate(t) ==
    /\ At(t, "validate")
    /\ IF state = "disconnected" /\ ~closed
       THEN state' = "connecting" /\ Goto(t, "dial")
       ELSE Goto(t, "restore") /\ UNCHANGED state
    /\ UNCHANGED <<client, closed, notified, pending, replacing, epoch, inflight, ever, meshVars, claim,
                   workerVars, linkVars, lockVars, localVars, plan, calls>>

\* The blocking connect, direct or after discovery.
DialSucceeds(t) ==
    /\ At(t, "dial")
    /\ \E c \in Clients :
           /\ link[c] = "unused" /\ \A d \in 1..(c - 1) : link[d] # "unused"
           /\ link' = [link EXCEPT ![c] = "up"]
           /\ mine' = [mine EXCEPT ![t] = c]
    /\ Goto(t, "finish")
    /\ UNCHANGED <<sessionVars, meshVars, claim, workerVars, due, lockVars, seen, completed, undo, plan, calls>>

DialFails(t) ==
    /\ At(t, "dial")
    /\ Goto(t, "failed")
    /\ UNCHANGED <<sessionVars, meshVars, claim, workerVars, linkVars, lockVars, localVars, plan, calls>>

\* _finalize_connection: registration may have failed, the state or the link may have gone.
Finish(t) ==
    /\ At(t, "finish")
    /\ \/ /\ ~closed /\ state = "connecting" /\ link[mine[t]] = "up"
          /\ state' = "connected" /\ Goto(t, "adopt")
       \/ Goto(t, "failed") /\ UNCHANGED state
    /\ UNCHANGED <<client, closed, notified, pending, replacing, epoch, inflight, ever, meshVars, claim,
                   workerVars, linkVars, lockVars, localVars, plan, calls>>

\* The client is closed and _transition_failure_to_disconnected resets the state.
Failed(t) ==
    /\ At(t, "failed")
    /\ CloseLink(mine[t])
    /\ mine' = [mine EXCEPT ![t] = NoClient]
    /\ state' = "disconnected"
    /\ Goto(t, "restore")
    /\ UNCHANGED <<client, closed, notified, pending, replacing, epoch, inflight, ever, meshVars, claim,
                   workerVars, lockVars, seen, completed, undo, plan, calls>>

\* _restore_connect_provisional_state, and the locks are released.
Restore(t) ==
    /\ At(t, "restore")
    /\ notified' = snap.notified /\ pending' = snap.pending
    /\ replacing' = snap.replacing /\ epoch' = snap.epoch
    /\ connectLock' = NoClient
    /\ Goto(t, Raised(t))
    /\ UNCHANGED <<state, client, closed, inflight, ever, snap, meshVars, claim, workerVars, linkVars,
                   localVars, plan, calls>>

\* Mutant: the result is adopted without looking for a close() in the meantime.
AdoptClosed(t) ==
    /\ At(t, "adopt")
    /\ client' = mine[t] /\ notified' = FALSE /\ pending' = TRUE
    /\ CloseLink(client)
    /\ Goto(t, "handoff")
    /\ UNCHANGED <<state, closed, replacing, epoch, inflight, ever, lockVars, meshVars, claim, workerVars,
                   localVars, plan, calls>>

\* Mutant: a result that is refused is not closed.
AdoptDropsResult(t) ==
    /\ At(t, "adopt") /\ Closing
    /\ connectLock' = NoClient
    /\ notified' = snap.notified /\ epoch' = snap.epoch
    /\ pending' = FALSE /\ replacing' = FALSE
    /\ mine' = [mine EXCEPT ![t] = NoClient]
    /\ Goto(t, Raised(t))
    /\ UNCHANGED <<state, client, closed, inflight, ever, snap, meshVars, claim, workerVars, linkVars,
                   seen, completed, undo, plan, calls>>

\* _adopt_connect_result; the client it replaces is closed.
Adopt(t) ==
    /\ At(t, "adopt")
    /\ \/ /\ Closing
          /\ notified' = snap.notified /\ epoch' = snap.epoch
          /\ pending' = FALSE /\ replacing' = FALSE
          /\ CloseLink(mine[t])
          /\ mine' = [mine EXCEPT ![t] = NoClient]
          /\ connectLock' = NoClient /\ Goto(t, Raised(t))
          /\ UNCHANGED client
       \/ /\ ~Closing
          /\ client' = mine[t] /\ notified' = FALSE /\ pending' = TRUE
          /\ CloseLink(client)
          /\ Goto(t, "handoff")
          /\ UNCHANGED <<replacing, epoch, mine, connectLock>>
    /\ UNCHANGED <<state, closed, inflight, ever, snap, meshVars, claim, workerVars, seen, completed, undo,
                   plan, calls>>

\* The address is claimed provisionally and the locks are released.
Handoff(t) ==
    /\ At(t, "handoff")
    /\ claim' = "connecting"
    /\ connectLock' = NoClient
    /\ Goto(t, "gates")
    /\ UNCHANGED <<sessionVars, meshVars, workerVars, linkVars, snap, localVars, plan, calls>>

----------------------------------------------------------------------------
(* _finalize_connection_gates                                              *)

\* Ownership is probed twice; when it went away in between, the claim is withdrawn.
Gates(t) ==
    /\ At(t, "gates")
    /\ \/ Owned(t) /\ Goto(t, "mark")
       \/ ~Owned(t) /\ Goto(t, "verify")
       \/ ~Owned(t) /\ client \in {mine[t], NoClient} /\ Goto(t, "ungate")
    /\ UNCHANGED <<sessionVars, meshVars, claim, workerVars, linkVars, lockVars, localVars, plan, calls>>

Mark(t) ==
    /\ At(t, "mark")
    /\ claim' = "connected"
    /\ Goto(t, "regate")
    /\ UNCHANGED <<sessionVars, meshVars, workerVars, linkVars, lockVars, localVars, plan, calls>>

\* Whether the claim is withdrawn is decided under the lock and done after it.
Regate(t) ==
    /\ At(t, "regate")
    /\ Goto(t, IF ~Owned(t) /\ client \in {mine[t], NoClient} THEN "ungate" ELSE "verify")
    /\ UNCHANGED <<sessionVars, meshVars, claim, workerVars, linkVars, lockVars, localVars, plan, calls>>

Ungate(t) ==
    /\ At(t, "ungate")
    /\ claim' = "none"
    /\ Goto(t, "verify")
    /\ UNCHANGED <<sessionVars, meshVars, workerVars, linkVars, lockVars, localVars, plan, calls>>

----------------------------------------------------------------------------
(* _verify_and_publish_connected, _commit_and_publish_connected            *)

\* The publication is claimed for this client unless another thread publishes it.
Verify(t) ==
    /\ At(t, "verify")
    /\ IF Owned(t) /\ (pending => inflight = NoClient)
       THEN pending' = TRUE /\ inflight' = mine[t] /\ Goto(t, "check")
       ELSE Goto(t, "invalid") /\ UNCHANGED <<pending, inflight>>
    /\ UNCHANGED <<state, client, closed, notified, replacing, epoch, ever, meshVars, claim, workerVars,
                   linkVars, lockVars, localVars, plan, calls>>

Check(t) ==
    /\ At(t, "check")
    /\ IF Owned(t)
       THEN Goto(t, "commit") /\ UNCHANGED inflight
       ELSE /\ Goto(t, "invalid")
            /\ inflight' = IF inflight = mine[t] THEN NoClient ELSE inflight
    /\ UNCHANGED <<state, client, closed, notified, pending, replacing, epoch, ever, meshVars, claim,
                   workerVars, linkVars, lockVars, localVars, plan, calls>>

\* From here on an invalidation still runs the finally clause ("settle").
Commit(t) ==
    /\ At(t, "commit")
    /\ IF Owned(t)
       THEN /\ seen' = [seen EXCEPT ![t] = epoch] /\ Goto(t, "allow")
            /\ UNCHANGED undo
       ELSE /\ undo' = [undo EXCEPT ![t] = {"settle"}] /\ Goto(t, "invalid")
            /\ UNCHANGED seen
    /\ UNCHANGED <<sessionVars, meshVars, claim, workerVars, linkVars, lockVars, mine, completed, plan, calls>>

Allow(t) ==
    /\ At(t, "allow")
    /\ IF client = mine[t] /\ epoch = seen[t]
       THEN Goto(t, "notify") /\ UNCHANGED undo
       ELSE Goto(t, "invalid") /\ undo' = [undo EXCEPT ![t] = {"settle"}]
    /\ UNCHANGED <<sessionVars, meshVars, claim, workerVars, linkVars, lockVars, mine, seen, completed, plan, calls>>

\* _connected(expected_session_epoch) holds the state lock around the whole announcement.
Notify(t) ==
    /\ At(t, "notify")
    /\ isConnected' = (isConnected \/ (epoch = seen[t] /\ ~closing))
    /\ Goto(t, "complete")
    /\ UNCHANGED <<sessionVars, closing, claim, workerVars, linkVars, lockVars, localVars, plan, calls>>

\* The first heartbeat cannot be written: isConnected is set, established is not published.
NotifyRaises(t) ==
    /\ HeartbeatFails
    /\ At(t, "notify")
    /\ epoch = seen[t] /\ ~closing /\ ~isConnected
    /\ isConnected' = TRUE
    /\ undo' = [undo EXCEPT ![t] = {"settle"}]
    /\ Goto(t, "settle")
    /\ UNCHANGED <<sessionVars, closing, claim, workerVars, linkVars, lockVars, mine, seen, completed, plan, calls>>

Complete(t) ==
    /\ At(t, "complete")
    /\ LET done == client = mine[t] /\ epoch = seen[t]
       IN /\ completed' = [completed EXCEPT ![t] = done]
          /\ ever' = (ever \/ done)
    /\ Goto(t, "settle")
    /\ UNCHANGED <<state, client, closed, notified, pending, replacing, epoch, inflight, meshVars, claim,
                   workerVars, linkVars, lockVars, mine, seen, undo, plan, calls>>

\* The finally clause of _commit_and_publish_connected.
Settle(t) ==
    /\ At(t, "settle")
    /\ inflight' = IF inflight = mine[t] THEN NoClient ELSE inflight
    /\ pending' = (pending /\ client # mine[t])
    /\ replacing' = (replacing /\ ~(client = mine[t] /\ completed[t]))
    /\ Goto(t, IF "settle" \in undo[t] THEN "raise" ELSE "repair")
    /\ UNCHANGED <<state, client, closed, notified, epoch, ever, meshVars, claim, workerVars, linkVars,
                   lockVars, localVars, plan, calls>>

\* A publication that raced with the disconnect of its session is taken back.
Repair(t) ==
    /\ At(t, "repair")
    /\ Goto(t, IF completed[t] /\ ~Owned(t) /\ notified /\ ~Closing /\ epoch = seen[t]
               THEN "relost" ELSE Returned(t))
    /\ mine' = [mine EXCEPT ![t] = NoClient] /\ completed' = [completed EXCEPT ![t] = FALSE]
    /\ claim' = ClaimCleared
    /\ UNCHANGED <<sessionVars, meshVars, workerVars, linkVars, lockVars, seen, undo, plan, calls>>

Relost(t) ==
    /\ At(t, "relost")
    /\ isConnected' = FALSE
    /\ Goto(t, Returned(t))
    /\ UNCHANGED <<sessionVars, closing, claim, workerVars, linkVars, lockVars, localVars, plan, calls>>

----------------------------------------------------------------------------
(* _raise_for_invalidated_connect_result and the client it discards.       *)

\* The claim of another active client on the same address is spared.
Invalid(t) ==
    /\ At(t, "invalid")
    /\ Goto(t, IF client \in {mine[t], NoClient} THEN "unmark" ELSE "discard")
    /\ UNCHANGED <<sessionVars, meshVars, claim, workerVars, linkVars, lockVars, localVars, plan, calls>>

Unmark(t) ==
    /\ At(t, "unmark")
    /\ claim' = "none"
    /\ Goto(t, "discard")
    /\ UNCHANGED <<sessionVars, meshVars, workerVars, linkVars, lockVars, localVars, plan, calls>>

\* _discard_invalidated_connected_client: its first section.
Discard(t) ==
    LET owns == client = mine[t]
        provisional == client = NoClient /\ pending /\ inflight = mine[t]
        publish == replacing /\ ~notified
    IN /\ At(t, "discard")
       /\ seen' = [seen EXCEPT ![t] = epoch]
       /\ IF owns \/ provisional
          THEN /\ client' = NoClient /\ pending' = FALSE /\ replacing' = FALSE
               /\ inflight' = IF inflight = mine[t] THEN NoClient ELSE inflight
               /\ notified' = (notified \/ owns \/ publish)
               /\ undo' = [undo EXCEPT ![t] = @ \cup (IF Closing THEN {} ELSE
                              {"reset"} \cup (IF publish THEN {"lost"} ELSE {}))]
          ELSE UNCHANGED <<client, pending, replacing, inflight, notified, undo>>
       /\ Goto(t, "shut")
       /\ UNCHANGED <<state, closed, epoch, ever, meshVars, claim, workerVars, linkVars, lockVars,
                      mine, completed, plan, calls>>

Shut(t) ==
    /\ At(t, "shut")
    /\ CloseLink(mine[t])
    /\ Goto(t, "same")
    /\ UNCHANGED <<sessionVars, meshVars, claim, workerVars, lockVars, localVars, plan, calls>>

Same(t) ==
    /\ At(t, "same")
    /\ Goto(t, IF epoch = seen[t] /\ "reset" \in undo[t] THEN "reset" ELSE "lose")
    /\ UNCHANGED <<sessionVars, meshVars, claim, workerVars, linkVars, lockVars, localVars, plan, calls>>

Reset(t) ==
    /\ At(t, "reset")
    /\ state' = "disconnected"
    /\ Goto(t, "lose")
    /\ UNCHANGED <<client, closed, notified, pending, replacing, epoch, inflight, ever, meshVars, claim,
                   workerVars, linkVars, lockVars, localVars, plan, calls>>

Lose(t) ==
    /\ At(t, "lose")
    /\ isConnected' = (isConnected /\ ~("lost" \in undo[t] /\ epoch = seen[t]))
    /\ Goto(t, IF "settle" \in undo[t] THEN "settle" ELSE "raise")
    /\ UNCHANGED <<sessionVars, closing, claim, workerVars, linkVars, lockVars, localVars, plan, calls>>

\* The finally clause of connect() withdraws a provisional claim.
Raise(t) ==
    /\ At(t, "raise")
    /\ claim' = ClaimCleared
    /\ mine' = [mine EXCEPT ![t] = NoClient]
    /\ undo' = [undo EXCEPT ![t] = {}]
    /\ Goto(t, Raised(t))
    /\ UNCHANGED <<sessionVars, meshVars, workerVars, linkVars, lockVars, seen, completed, plan, calls>>

----------------------------------------------------------------------------
(* Links and disconnect callbacks.                                         *)

LinkDrops(c) ==
    /\ link[c] = "up"
    /\ link' = [link EXCEPT ![c] = "down"]
    /\ due' = due \cup {c}
    /\ UNCHANGED <<sessionVars, meshVars, claim, workerVars, lockVars, pc, localVars, plan, calls>>

\* Bleak reports each link once; the receive loop fails on the published client until it is gone.
Report(h, c) ==
    /\ At(h, "idle")
    /\ c \in due \/ (client = c /\ link[c] = "down")
    /\ due' = due \ {c}
    /\ plan' = [plan EXCEPT ![h].client = c]
    \* Another callback is being resolved: this one returns at once.
    /\ Goto(h, IF \E g \in Handlers : At(g, "resolve") THEN "idle" ELSE "resolve")
    /\ UNCHANGED <<sessionVars, meshVars, claim, workerVars, link, lockVars, localVars, calls>>

\* Mutant: callbacks of a client that was replaced are accepted.
AcceptsAny(c) ==
    /\ state = "connecting" => client = c
    /\ ~Closing
    /\ client = NoClient => pending \/ replacing
    /\ ~notified

\* _decide_disconnect_ownership for a callback about client c.
Accepts(c) ==
    /\ state = "connecting" => client = c
    /\ ~Closing
    /\ client = NoClient => pending \/ replacing
    /\ client # NoClient => client = c
    /\ ~notified

\* _resolve_disconnect_target
Resolve(h) ==
    /\ At(h, "resolve")
    /\ IF Accepts(plan[h].client)
       THEN /\ plan' = [plan EXCEPT ![h] = [client |-> client, epoch |-> epoch,
                                            provisional |-> pending /\ ~replacing]]
            /\ client' = NoClient /\ pending' = FALSE /\ replacing' = FALSE
            /\ notified' = TRUE /\ state' = "disconnected"
            /\ Goto(h, "vet")
       ELSE /\ plan' = [plan EXCEPT ![h] = NoPlan] /\ Goto(h, "idle")
            /\ UNCHANGED <<client, pending, replacing, notified, state>>
    /\ UNCHANGED <<closed, epoch, inflight, ever, meshVars, claim, workerVars, linkVars, lockVars,
                   localVars, calls>>

Stale(h) == epoch # plan[h].epoch \/ (client # NoClient /\ client # plan[h].client)

\* A stale callback keeps the claim of the active client and publishes nothing.
Vet(h) ==
    /\ At(h, "vet")
    /\ IF Stale(h)
       THEN /\ Goto(h, IF client = NoClient THEN "drop" ELSE "idle")
            /\ CloseLink(IF client = plan[h].client THEN NoClient ELSE plan[h].client)
            /\ plan' = IF client = NoClient THEN plan ELSE [plan EXCEPT ![h] = NoPlan]
       ELSE /\ Goto(h, "recheck") /\ CloseLink(plan[h].client) /\ UNCHANGED plan
    /\ UNCHANGED <<sessionVars, meshVars, claim, workerVars, lockVars, localVars, calls>>

Recheck(h) ==
    /\ At(h, "recheck")
    /\ IF Stale(h)
       THEN /\ Goto(h, IF client = NoClient THEN "drop" ELSE "idle")
            /\ plan' = IF client = NoClient THEN plan ELSE [plan EXCEPT ![h] = NoPlan]
       ELSE Goto(h, "release") /\ UNCHANGED plan
    /\ UNCHANGED <<sessionVars, meshVars, claim, workerVars, linkVars, lockVars, localVars, calls>>

Drop(h) ==
    /\ At(h, "drop")
    /\ claim' = "none"
    /\ plan' = [plan EXCEPT ![h] = NoPlan] /\ Goto(h, "idle")
    /\ UNCHANGED <<sessionVars, meshVars, workerVars, linkVars, lockVars, localVars, calls>>

Release(h) ==
    /\ At(h, "release")
    /\ claim' = "none"
    /\ Goto(h, IF plan[h].provisional THEN "wake" ELSE "lost")
    /\ UNCHANGED <<sessionVars, meshVars, workerVars, linkVars, lockVars, localVars, plan, calls>>

Lost(h) ==
    /\ At(h, "lost")
    /\ isConnected' = FALSE
    /\ Goto(h, "wake")
    /\ UNCHANGED <<sessionVars, closing, claim, workerVars, linkVars, lockVars, localVars, plan, calls>>

\* schedule_auto_reconnect
Wake(h) ==
    /\ At(h, "wake")
    /\ plan' = [plan EXCEPT ![h] = NoPlan]
    /\ IF AutoReconnect /\ ~closed
       THEN shutdown' = FALSE /\ Goto(h, "schedule")
       ELSE Goto(h, "idle") /\ UNCHANGED shutdown
    /\ UNCHANGED <<sessionVars, meshVars, claim, workerRef, linkVars, lockVars, localVars, calls>>

\* _schedule_reconnect: not while closing, connecting or connected, nor beside another worker.
Schedule(h) ==
    /\ At(h, "schedule")
    /\ IF ~closed /\ state = "disconnected" /\ ~workerRef
       THEN workerRef' = TRUE /\ pc' = [pc EXCEPT ![h] = "idle", ![Worker] = "loop"]
       ELSE Goto(h, "idle") /\ UNCHANGED workerRef
    /\ UNCHANGED <<sessionVars, meshVars, claim, shutdown, linkVars, lockVars, localVars, plan, calls>>

----------------------------------------------------------------------------
(* _attempt_reconnect_loop                                                 *)

\* Mutant: the worker retries until it is connected.
WorkerRetries ==
    /\ At(Worker, "loop")
    /\ Goto(Worker, IF state = "connected" THEN "exit" ELSE "ask")
    /\ UNCHANGED <<sessionVars, meshVars, claim, workerVars, linkVars, lockVars, localVars, plan, calls>>

\* A failed attempt returns here after its back-off.
WorkerLoop ==
    /\ At(Worker, "loop")
    /\ Goto(Worker, IF shutdown \/ Closing \/ state = "connected" THEN "exit" ELSE "ask")
    /\ UNCHANGED <<sessionVars, meshVars, claim, workerVars, linkVars, lockVars, localVars, plan, calls>>

\* on_exit clears the reference.
WorkerExit ==
    /\ At(Worker, "exit")
    /\ workerRef' = FALSE
    /\ Goto(Worker, "idle")
    /\ UNCHANGED <<sessionVars, meshVars, claim, shutdown, linkVars, lockVars, localVars, plan, calls>>

----------------------------------------------------------------------------
(* close()                                                                 *)

\* _await_management_shutdown; management operations are left out.
Close(t) ==
    /\ At(t, "close")
    /\ claim' = ClaimCleared
    /\ closed' = TRUE
    /\ state' = IF ~closed /\ state # "disconnected" THEN "disconnecting" ELSE state
    /\ Goto(t, IF closed THEN "idle" ELSE "signal")
    /\ UNCHANGED <<client, notified, pending, replacing, epoch, inflight, ever, meshVars, workerVars,
                   linkVars, lockVars, localVars, plan, calls>>

Signal(t) ==
    /\ At(t, "signal")
    /\ shutdown' = TRUE
    /\ Goto(t, "meshClose")
    /\ UNCHANGED <<sessionVars, meshVars, claim, workerRef, linkVars, lockVars, localVars, plan, calls>>

MeshClose(t) ==
    /\ At(t, "meshClose")
    /\ closing' = TRUE
    /\ Goto(t, "detach")
    /\ UNCHANGED <<sessionVars, isConnected, claim, workerVars, linkVars, lockVars, localVars, plan, calls>>

\* _detach_client_for_shutdown and the teardown of the client.
Detach(t) ==
    /\ At(t, "detach")
    /\ client' = NoClient
    /\ CloseLink(client)
    /\ Goto(t, "consume")
    /\ UNCHANGED <<state, closed, notified, pending, replacing, epoch, inflight, ever, meshVars, claim,
                   workerVars, lockVars, localVars, plan, calls>>

\* _consume_disconnect_notification_state and the lost event.
Consume(t) ==
    LET notify == /\ ~notified
                  /\ replacing \/ (~pending /\ ever)
    IN /\ At(t, "consume")
       /\ notified' = TRUE
       /\ pending' = FALSE /\ replacing' = FALSE
       /\ isConnected' = (isConnected /\ ~notify)
       /\ Goto(t, "final")
       /\ UNCHANGED <<state, client, closed, epoch, inflight, ever, closing, claim, workerVars, linkVars,
                      lockVars, localVars, plan, calls>>

\* _finalize_close_state
Final(t) ==
    /\ At(t, "final")
    /\ state' = "disconnected"
    /\ claim' = "none"
    /\ Goto(t, "idle")
    /\ UNCHANGED <<client, closed, notified, pending, replacing, epoch, inflight, ever, meshVars,
                   workerVars, linkVars, lockVars, localVars, plan, calls>>

----------------------------------------------------------------------------
ConnectStep(t) ==
    \/ Ask(t) \/ Lock(t) \/ Begin(t) \/ Validate(t) \/ DialSucceeds(t) \/ DialFails(t)
    \/ Finish(t) \/ Failed(t) \/ Restore(t) \/ Adopt(t) \/ Handoff(t)
    \/ Gates(t) \/ Mark(t) \/ Regate(t) \/ Ungate(t)
    \/ Verify(t) \/ Check(t) \/ Commit(t) \/ Allow(t) \/ Notify(t) \/ NotifyRaises(t)
    \/ Complete(t) \/ Settle(t) \/ Repair(t) \/ Relost(t)
    \/ Invalid(t) \/ Unmark(t) \/ Discard(t) \/ Shut(t) \/ Same(t) \/ Reset(t) \/ Lose(t) \/ Raise(t)

CloseStep(t) ==
    Close(t) \/ Signal(t) \/ MeshClose(t) \/ Detach(t) \/ Consume(t) \/ Final(t)

HandlerStep(h) ==
    \/ \E c \in Clients : Report(h, c)
    \/ Resolve(h) \/ Vet(h) \/ Recheck(h) \/ Drop(h) \/ Release(h) \/ Lost(h) \/ Wake(h) \/ Schedule(h)

Next ==
    \/ \E t \in Callers, op \in {"ask", "close"} : Call(t, op)
    \/ \E t \in Connectors : ConnectStep(t)
    \/ \E t \in Callers : CloseStep(t)
    \/ \E h \in Handlers : HandlerStep(h)
    \/ WorkerLoop \/ WorkerExit
    \/ \E c \in Clients : LinkDrops(c)

Spec == Init /\ [][Next]_vars

----------------------------------------------------------------------------
(* Fairness: threads are scheduled, dials and writes end, and a thread that *)
(* waits for the connect lock gets it, because the worker sleeps between    *)
(* its attempts without it.  Nothing is assumed of the links.               *)

FairSpec ==
    /\ Spec
    /\ \A t \in Connectors : WF_vars(ConnectStep(t)) /\ SF_vars(Lock(t))
    /\ \A t \in Callers : WF_vars(CloseStep(t))
    /\ \A h \in Handlers : WF_vars(HandlerStep(h))
    /\ WF_vars(WorkerLoop) /\ WF_vars(WorkerExit)

----------------------------------------------------------------------------
(* Properties.                                                             *)

\* No thread is in a call and no disconnection is still to be reported.
Quiet ==
    /\ \A t \in Threads : At(t, "idle")
    /\ due = {}
    /\ client # NoClient => link[client] = "up"

\* When all threads have finished, every link the platform still holds is the interface's
\* client: refused, failed, replaced, invalidated and lost clients were closed.  And every
\* path that set the provisional flags gave them back: connect() refuses while they stand.
\* Only a first heartbeat that raises may leave the replacement flag behind: the finally
\* clause of the publication clears it when the publication completed.
NothingLeftBehind ==
    Quiet => /\ \A c \in Clients : link[c] = "up" => client = c
             /\ ~pending /\ inflight = NoClient
             /\ replacing => HeartbeatFails

\* A connect that was dialling while close() ran does not install its client afterwards.
ClosedHasNoClient ==
    closed /\ (\A t \in Callers : pc[t] \notin {"signal", "meshClose", "detach"})
        => client = NoClient

\* A client whose link is up is taken from the interface only by close(), by the connect()
\* that discards its own result, or by its successor: no disconnect of another client does.
LiveClientKept ==
    [][client # NoClient /\ link[client] = "up" /\ client' # client
           => \/ closed
              \/ \E t \in Connectors : At(t, "discard") /\ mine[t] = client
              \/ \E t \in Connectors : At(t, "adopt") /\ client' = mine[t]]_vars

\* Every connect() and close() of the application returns, also beside the worker that
\* retries for ever; after close() the worker ends and none is started again.
EveryThreadEnds ==
    /\ \A t \in Callers : ~At(t, "idle") ~> At(t, "idle")
    /\ closed ~> []~workerRef

\* "Ensure state converges to disconnected after invalidation cleanup."
\* The code does not keep it (README, section 6), so no run checks it.
StateConverges == Quiet => (state = "connected" => client # NoClient)

\* A publication that raced with a disconnect is followed by a compensating lost event.
\* The code does not keep it (README, section 6), so no run checks it.
RacedPublicationIsTakenBack == Quiet => (isConnected => client # NoClient)

=============================================================================
