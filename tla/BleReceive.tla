----------------------------- MODULE BleReceive -----------------------------
(***************************************************************************)
(* The receive thread of a BLEInterface: the read loop and what it does    *)
(* with a failed read (receive_service.py), and how a receive thread is    *)
(* started and replaced (lifecycle_receive_runtime.py).  A thread that     *)
(* ends with an error cannot start its successor while it is still alive:  *)
(* it leaves that to a helper, which waits for it to die.                  *)
(*                                                                         *)
(* An action is one section under the state lock with the thread-local     *)
(* code around it, or one blocking call.  The session is reduced to its    *)
(* client; BleSession models what connect() and a disconnect do to it.     *)
(* Waits end by themselves, so the events that cut them short are left out. *)
(***************************************************************************)
EXTENDS Naturals

CONSTANTS
    MaxReceivers,   \* receive threads, and
    MaxClients,     \* clients that connect() may install
    MaxFails,       \* native thread starts that fail
    AutoReconnect,  \* BLEInterface.auto_reconnect
    Main, Helper    \* the application thread, the deferred restart

Receivers == 1..MaxReceivers
Clients == 1..MaxClients
Starters == Receivers \cup {Main, Helper}
None == 0

VARIABLES
    closed, wanted, \* session.closed, session.want_receive
    client,         \* BLEInterface.client
    thread,         \* session.receive_thread
    pending, since, \* receive_start_pending, and receive_start_pending_since: none, fresh or old
    up, due,        \* clients with a link; clients whose disconnect callback has not run yet
    life,           \* each receive thread: none, new, alive or dead
    at,             \* each thread: where it is
    mine,           \* each receive thread: the client it reads from
    plan,           \* each starter: what it has seen and decided, and the thread it creates
    inflight,       \* _deferred_restart_inflight
    target, strict, \* the thread the deferred restart waits for, and whether it was not seen alive
    fails,          \* native starts that have failed
    unheard         \* history: a thread that ended asked for no successor

sessionVars == <<closed, wanted, client>>
startVars == <<thread, pending, since>>
linkVars == <<up, due>>
helpVars == <<inflight, target, strict>>
vars == <<sessionVars, startVars, linkVars, life, at, mine, plan, helpVars, fails, unheard>>

StartPlaces == {"look", "decide", "schedule", "register", "launch", "native", "confirm"}
LoopPlaces == {"loop", "state", "read", "drop", "dropped", "recover", "recheck", "withdrawn",
               "throttle", "unwant", "close", "release", "join", "detach", "leave"}
HelperPlaces == {"wait", "finish", "failed", "again"}
Places == StartPlaces \cup LoopPlaces \cup HelperPlaces \cup {"idle", "end"}
Decisions == {"none", "proceed", "defer", "deferTimeout", "skip", "wait", "replace",
              "replaceTimeout", "unconfirmed"}
NoPlan == [existing |-> None, pending |-> FALSE, since |-> "none", what |-> "none", new |-> None]

TypeOK ==
    /\ {closed, wanted, pending, inflight, strict, unheard} \subseteq BOOLEAN
    /\ client \in Clients \cup {None} /\ thread \in Receivers \cup {None}
    /\ since \in {"none", "fresh", "old"}
    /\ up \subseteq Clients /\ due \subseteq Clients
    /\ life \in [Receivers -> {"none", "new", "alive", "dead"}]
    /\ at \in [Starters -> Places]
    /\ mine \in [Receivers -> Clients \cup {None}]
    /\ plan \in [Starters -> [existing : Receivers \cup {None}, pending : BOOLEAN,
                              since : {"none", "fresh", "old"}, what : Decisions,
                              new : Receivers \cup {None}]]
    /\ target \in Receivers \cup {None} /\ fails \in 0..MaxFails

\* The constructor starts the first receive thread.
Init ==
    /\ closed = FALSE /\ wanted = TRUE /\ client = None
    /\ thread = None /\ pending = FALSE /\ since = "none"
    /\ up = {} /\ due = {}
    /\ life = [t \in Receivers |-> "none"]
    /\ at = [s \in Starters |-> IF s = Main THEN "look" ELSE "idle"]
    /\ mine = [t \in Receivers |-> None]
    /\ plan = [s \in Starters |-> NoPlan]
    /\ inflight = FALSE /\ target = None /\ strict = FALSE /\ fails = 0 /\ unheard = FALSE

At(s, l) == at[s] = l
Goto(s, l) == at' = [at EXCEPT ![s] = l]
Alive(t) == t # None /\ life[t] = "alive"
Running == wanted /\ ~closed

\* start_receive_thread returns: a receive thread ends, the helper finishes.
Return(s) == Goto(s, CASE s = Helper -> "finish"
                       [] s \in Receivers -> "leave"
                       [] OTHER -> IF closed THEN "end" ELSE "idle")
Ends(t) == Goto(t, "leave")
NotPending == pending' = FALSE /\ since' = "none"

----------------------------------------------------------------------------
(* start_receive_thread.                                                   *)

\* _decide_receive_start.  A thread whose native start has returned has an identity.
Decision(s) ==
    IF thread = None THEN "proceed"
    ELSE IF thread = s THEN IF pending /\ since = "old" THEN "deferTimeout" ELSE "defer"
    ELSE IF Alive(thread) THEN "skip"
    ELSE IF life[thread] = "dead" THEN "replace"
    ELSE IF since = "old" THEN "replaceTimeout" ELSE "wait"

Look(s) ==
    /\ At(s, "look")
    /\ IF Running
         THEN /\ plan' = [plan EXCEPT ![s] = [existing |-> thread, pending |-> pending,
                             since |-> since, what |-> Decision(s), new |-> None]]
              /\ Goto(s, "decide")
         ELSE Return(s) /\ UNCHANGED plan
    /\ UNCHANGED <<sessionVars, startVars, linkVars, life, mine, helpVars, fails, unheard>>

\* A look that is out of date is repeated.
Unchanged(p) == thread = p.existing /\ pending = p.pending /\ since = p.since

Decide(s) == LET p == plan[s] IN
    /\ At(s, "decide")
    /\ IF ~(Running /\ Unchanged(p))
         THEN Goto(s, "look") /\ UNCHANGED <<startVars, plan, unheard>>
       ELSE \/ /\ p.what \in {"proceed", "replace", "replaceTimeout"}
               /\ thread' = IF p.what = "replace" THEN None ELSE thread
               /\ IF p.what = "proceed" THEN UNCHANGED <<pending, since>> ELSE NotPending
               /\ plan' = [plan EXCEPT ![s].existing = thread']
               /\ Goto(s, "register") /\ UNCHANGED unheard
            \/ /\ p.what \in {"skip", "deferTimeout"}
               /\ NotPending
               /\ IF p.what = "skip" THEN Return(s) ELSE Goto(s, "schedule")
               /\ UNCHANGED <<thread, plan, unheard>>
            \/ /\ p.what \in {"wait", "defer"}
               /\ since' = IF since = "none" THEN "fresh" ELSE since
               /\ pending' = (pending \/ p.what = "defer")
               /\ IF p.what = "defer" /\ (since = "none" \/ ~pending)
                    THEN Goto(s, "schedule") /\ UNCHANGED unheard
                    ELSE Return(s) /\ unheard' = (unheard \/ p.what = "defer")
               /\ UNCHANGED <<thread, plan>>
    /\ UNCHANGED <<sessionVars, linkVars, life, mine, helpVars, fails>>

\* _schedule_deferred_receive_restart: one helper at a time; its launch may fail.
Schedule(s) ==
    /\ At(s, "schedule")
    /\ \/ /\ ~inflight
          /\ inflight' = TRUE
          /\ target' = plan[s].existing /\ strict' = (plan[s].what = "unconfirmed")
          /\ at' = [at EXCEPT ![s] = IF s \in Receivers THEN "leave" ELSE "idle",
                             ![Helper] = "wait"]
          /\ UNCHANGED <<fails, unheard>>
       \/ /\ inflight \/ fails < MaxFails
          /\ fails' = IF inflight THEN fails ELSE fails + 1
          /\ unheard' = TRUE /\ Return(s)
          /\ UNCHANGED helpVars
    /\ UNCHANGED <<sessionVars, startVars, linkVars, life, mine, plan>>

\* The thread object is created and published.
Register(s) == \E t \in Receivers :
    /\ At(s, "register")
    /\ life[t] = "none" /\ \A u \in Receivers : life[u] = "none" => t <= u
    /\ IF ~Running \/ thread # plan[s].existing
         THEN Return(s) /\ UNCHANGED <<startVars, life, plan>>
       ELSE IF Alive(thread)
         THEN NotPending /\ Return(s) /\ UNCHANGED <<thread, life, plan>>
       ELSE /\ thread' = t /\ pending' = TRUE /\ since' = "fresh"
            /\ life' = [life EXCEPT ![t] = "new"]
            /\ plan' = [plan EXCEPT ![s].new = t]
            /\ Goto(s, "launch")
    /\ UNCHANGED <<sessionVars, linkVars, mine, helpVars, fails, unheard>>

Launch(s) ==
    /\ At(s, "launch")
    /\ IF Running /\ thread = plan[s].new THEN Goto(s, "native") ELSE Return(s)
    /\ UNCHANGED <<sessionVars, startVars, linkVars, life, mine, plan, helpVars, fails, unheard>>

\* The thread coordinator refuses a start once close() has cleaned up.
NativeStart(s) == LET t == plan[s].new IN
    /\ At(s, "native")
    /\ \/ /\ life' = [life EXCEPT ![t] = "alive"]
          /\ at' = [at EXCEPT ![s] = "confirm", ![t] = "loop"]
       \/ /\ closed /\ Goto(s, "confirm") /\ UNCHANGED life
    /\ UNCHANGED <<sessionVars, startVars, linkVars, mine, plan, helpVars, fails, unheard>>

\* The native start raises: the constructor fails, a helper tries again.
StartFails(s) == LET t == plan[s].new IN
    /\ At(s, "native") /\ fails < MaxFails
    /\ fails' = fails + 1
    /\ IF thread = t THEN thread' = None /\ NotPending ELSE UNCHANGED startVars
    /\ life' = [life EXCEPT ![t] = "dead"]
    /\ Goto(s, CASE s = Main -> "close" [] s = Helper -> "failed" [] OTHER -> "leave")
    /\ unheard' = (unheard \/ s \in Receivers)
    /\ UNCHANGED <<sessionVars, linkVars, mine, plan, helpVars>>

\* _probe_receive_thread_start: a thread that is not seen alive is left to the helper, even one
\* that has already come and gone.
Confirm(s) == LET t == plan[s].new IN
    /\ At(s, "confirm")
    /\ IF Alive(t)
         THEN (IF thread = t THEN NotPending ELSE UNCHANGED <<pending, since>>)
              /\ Return(s) /\ UNCHANGED plan
         ELSE /\ pending' = (pending \/ thread = t)
              /\ since' = IF thread = t /\ since = "none" THEN "fresh" ELSE since
              /\ plan' = [plan EXCEPT ![s].existing = t, ![s].what = "unconfirmed"]
              /\ Goto(s, "schedule")
    /\ UNCHANGED <<sessionVars, thread, linkVars, life, mine, helpVars, fails, unheard>>

----------------------------------------------------------------------------
(* The deferred restart.                                                   *)

HelperQuits ==
    /\ At(Helper, "wait") /\ ~Running
    /\ Goto(Helper, "finish")
    /\ UNCHANGED <<sessionVars, startVars, linkVars, life, mine, plan, helpVars, fails, unheard>>

UnwoundNever == TRUE \* mutant: does not wait for the thread to end
Unwound == thread # target \/ ~Alive(target)

\* A thread that was not seen alive after its start is dead or was refused: it never comes up.
HelperGoes ==
    /\ At(Helper, "wait") /\ Running
    /\ \/ ~strict /\ Unwound /\ Goto(Helper, "look")
       \/ strict /\ Goto(Helper, IF thread = target THEN "look" ELSE "finish")
    /\ UNCHANGED <<sessionVars, startVars, linkVars, life, mine, plan, helpVars, fails, unheard>>

Finish ==
    /\ at[Helper] \in {"finish", "failed"}
    /\ inflight' = FALSE
    /\ Goto(Helper, IF At(Helper, "failed") THEN "again" ELSE "idle")
    /\ UNCHANGED <<sessionVars, startVars, linkVars, life, mine, plan, target, strict, fails, unheard>>

\* After a start that raised.
Again ==
    /\ At(Helper, "again")
    /\ inflight' = TRUE /\ Goto(Helper, "wait")
    /\ UNCHANGED <<sessionVars, startVars, linkVars, life, mine, plan, target, strict, fails, unheard>>

\* The bound of RECEIVE_START_PENDING_TIMEOUT_SECONDS passes.  A start does not take that long.
PendingAges ==
    /\ since = "fresh" /\ since' = "old"
    /\ \A s \in Starters : at[s] \notin {"launch", "native", "confirm"}
    /\ UNCHANGED <<sessionVars, thread, pending, linkVars, life, at, mine, plan, helpVars, fails, unheard>>

----------------------------------------------------------------------------
(* The read loop.                                                          *)

Top(t) ==
    /\ At(t, "loop")
    /\ IF Running THEN Goto(t, "state") ELSE Ends(t)
    /\ UNCHANGED <<sessionVars, startVars, linkVars, life, mine, plan, helpVars, fails, unheard>>

\* _process_client_state.
State(t) ==
    /\ At(t, "state")
    /\ mine' = [mine EXCEPT ![t] = client]
    /\ Goto(t, IF client = None THEN "loop" ELSE "read")
    /\ wanted' = (wanted /\ ~(client = None /\ closed))
    /\ UNCHANGED <<closed, client, startVars, linkVars, life, plan, helpVars, fails, unheard>>

\* A read brings a packet or nothing, or an error that is to be retried.
ReadReturns(t) ==
    /\ At(t, "read")
    /\ Goto(t, "loop")
    /\ UNCHANGED <<sessionVars, startVars, linkVars, life, mine, plan, helpVars, fails, unheard>>

\* A GATT or D-Bus error counts as a disconnect; any other, without a retry left, closes the
\* interface, also when the client has been replaced meanwhile.
ReadFails(t) ==
    /\ At(t, "read")
    /\ \/ Goto(t, "drop")
       \/ IF closed THEN Ends(t) ELSE Goto(t, "close")
    /\ UNCHANGED <<sessionVars, startVars, linkVars, life, mine, plan, helpVars, fails, unheard>>

\* The client is taken out of the session and closed.
Disconnect == client' = None /\ up' = up \ {client}

\* handle_disconnect up to its decision: whose client is gone?
Drop(t) ==
    /\ At(t, "drop")
    /\ IF closed THEN Goto(t, "unwant") /\ UNCHANGED <<client, up>>
       ELSE IF client = None \/ client # mine[t] THEN Goto(t, "loop") /\ UNCHANGED <<client, up>>
       ELSE Disconnect /\ Goto(t, "dropped")
    /\ UNCHANGED <<closed, wanted, startVars, due, life, mine, plan, helpVars, fails, unheard>>

\* Its result: go on if there is a newer session, or one is to come.
GoesOn == client # None \/ AutoReconnect

Dropped(t) ==
    /\ At(t, "dropped")
    /\ Goto(t, IF GoesOn THEN "loop" ELSE "unwant")
    /\ UNCHANGED <<sessionVars, startVars, linkVars, life, mine, plan, helpVars, fails, unheard>>

Unwant(t) ==
    /\ At(t, "unwant")
    /\ wanted' = FALSE /\ Ends(t)
    /\ UNCHANGED <<closed, client, startVars, linkVars, life, mine, plan, helpVars, fails, unheard>>

\* A disconnect handler raises, which ends the loop; the receiver recovers if a thread is left
\* to take its place.
HandlerRaises(t) ==
    /\ at[t] \in {"drop", "dropped"} /\ \E u \in Receivers : life[u] = "none"
    /\ Goto(t, "recover")
    /\ UNCHANGED <<sessionVars, startVars, linkVars, life, mine, plan, helpVars, fails, unheard>>

\* recover_receive_thread.
Recover(t) ==
    /\ At(t, "recover")
    /\ IF closed THEN Ends(t) /\ UNCHANGED mine
       ELSE mine' = [mine EXCEPT ![t] = client] /\ Goto(t, "recheck")
    /\ UNCHANGED <<sessionVars, startVars, linkVars, life, plan, helpVars, fails, unheard>>

\* A disconnect of no client in particular takes the one there is.
Recheck(t) ==
    /\ At(t, "recheck")
    /\ IF closed THEN Goto(t, "unwant") /\ UNCHANGED <<client, up>>
       ELSE IF client = None \/ mine[t] \notin {None, client}
         THEN Goto(t, "throttle") /\ UNCHANGED <<client, up>>
       ELSE Disconnect /\ Goto(t, "withdrawn")
    /\ UNCHANGED <<closed, wanted, startVars, due, life, mine, plan, helpVars, fails, unheard>>

Withdrawn(t) ==
    /\ At(t, "withdrawn")
    /\ Goto(t, IF GoesOn THEN "throttle" ELSE "unwant")
    /\ UNCHANGED <<sessionVars, startVars, linkVars, life, mine, plan, helpVars, fails, unheard>>

Throttle(t) ==
    /\ At(t, "throttle")
    /\ IF Running THEN Goto(t, "look") ELSE Ends(t)
    /\ UNCHANGED <<sessionVars, startVars, linkVars, life, mine, plan, helpVars, fails, unheard>>

\* The thread has returned and dies.
Leave(t) ==
    /\ At(t, "leave")
    /\ Goto(t, "idle") /\ life' = [life EXCEPT ![t] = "dead"]
    /\ UNCHANGED <<sessionVars, startVars, linkVars, mine, plan, helpVars, fails, unheard>>

----------------------------------------------------------------------------
(* The session: connect(), close(), links and their callbacks.             *)

Connect == \E c \in Clients :
    /\ At(Main, "idle") /\ ~closed /\ client = None
    /\ c \notin up \cup due /\ \A t \in Receivers : mine[t] # c
    /\ client' = c /\ up' = up \cup {c}
    /\ UNCHANGED <<closed, wanted, startVars, due, life, at, mine, plan, helpVars, fails, unheard>>

LinkDrops(c) ==
    /\ c \in up
    /\ up' = up \ {c} /\ due' = due \cup {c}
    /\ UNCHANGED <<sessionVars, startVars, life, at, mine, plan, helpVars, fails, unheard>>

\* Nobody looks at the result of a callback's handle_disconnect.
Callback(c) ==
    /\ c \in due /\ due' = due \ {c}
    /\ client' = IF client = c /\ ~closed THEN None ELSE client
    /\ UNCHANGED <<closed, wanted, startVars, up, life, at, mine, plan, helpVars, fails, unheard>>

Close ==
    /\ At(Main, "idle")
    /\ Goto(Main, "close")
    /\ UNCHANGED <<sessionVars, startVars, linkVars, life, mine, plan, helpVars, fails, unheard>>

CloseBegin(s) ==
    /\ At(s, "close")
    /\ closed' = TRUE
    /\ Goto(s, IF ~closed THEN "release" ELSE IF s = Main THEN "end" ELSE "leave")
    /\ UNCHANGED <<wanted, client, startVars, linkVars, life, mine, plan, helpVars, fails, unheard>>

CloseUnwants(s) ==
    /\ At(s, "release")
    /\ wanted' = FALSE /\ Goto(s, "join")
    /\ UNCHANGED <<closed, client, startVars, linkVars, life, mine, plan, helpVars, fails, unheard>>

\* The join is bounded; a thread does not join itself.
Join(s) ==
    /\ At(s, "join")
    /\ IF ~Alive(thread) THEN thread' = None /\ NotPending ELSE UNCHANGED startVars
    /\ Goto(s, "detach")
    /\ UNCHANGED <<sessionVars, linkVars, life, mine, plan, helpVars, fails, unheard>>

CloseDetaches(s) ==
    /\ At(s, "detach")
    /\ Disconnect /\ Goto(s, IF s = Main THEN "end" ELSE "leave")
    /\ UNCHANGED <<closed, wanted, startVars, due, life, mine, plan, helpVars, fails, unheard>>

Start(s) == \/ Look(s) \/ Decide(s) \/ Schedule(s) \/ Register(s) \/ Launch(s)
            \/ NativeStart(s) \/ StartFails(s) \/ Confirm(s)
Receive(t) == \/ Top(t) \/ State(t) \/ ReadReturns(t) \/ ReadFails(t) \/ Drop(t) \/ Dropped(t)
              \/ Unwant(t) \/ HandlerRaises(t) \/ Recover(t) \/ Recheck(t) \/ Withdrawn(t)
              \/ Throttle(t) \/ Leave(t)

Next == \/ \E s \in Starters : Start(s)
        \/ HelperQuits \/ HelperGoes \/ Finish \/ Again \/ PendingAges
        \/ \E t \in Receivers : Receive(t)
        \/ \E s \in Receivers \cup {Main} : CloseBegin(s) \/ CloseUnwants(s)
                                               \/ Join(s) \/ CloseDetaches(s)
        \/ Close \/ Connect
        \/ \E c \in Clients : LinkDrops(c) \/ Callback(c)

Spec == Init /\ [][Next]_vars

----------------------------------------------------------------------------
(* Properties.                                                             *)

\* Nobody is about to start, end or replace a receive thread, or to close.
Quiet ==
    /\ At(Main, "idle") /\ At(Helper, "idle")
    /\ \A t \in Receivers : at[t] \in {"idle", "loop"}

\* With auto_reconnect, as long as the interface is open: whatever disconnects, errors, crashes
\* of the loop and failed starts there have been (receive_service.py, lifecycle_receive_runtime.py),
\* one receive thread lives, and it is the one on record.  Left out are ends so early that the
\* request for a successor is not heard.
ReceiverRemains ==
    AutoReconnect /\ Quiet /\ ~closed /\ ~unheard =>
        thread # None /\ \A t \in Receivers : Alive(t) <=> t = thread

\* "On disconnect: call iface.connect() on the same instance", docs/guides/ble.md on
\* auto_reconnect=False: the interface that is connected again receives.
ReconnectedReceives ==
    Quiet /\ ~closed /\ ~unheard /\ client # None => \E t \in Receivers : Alive(t)

=============================================================================
