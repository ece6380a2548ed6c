----------------------------- MODULE BleThreads -----------------------------
(***************************************************************************)
(* The register of the worker threads of a BLE interface                   *)
(* (interfaces/ble/coordination.py): threads are created and started by    *)
(* whoever needs one, while the interface may be cleaning up.  The native  *)
(* start runs outside the lock and may fail, or be interrupted so that     *)
(* nobody knows whether the thread is coming up.  Joins are bounded, so a  *)
(* thread may outlive them.  Named events are left out.                    *)
(***************************************************************************)
CONSTANTS
    Callers,        \* threads that use the coordinator
    Workers,        \* thread objects
    NoWorker        \* not one of them

VARIABLES
    native,         \* the life of each worker
    tracked,        \* _threads
    pendingStart,   \* _pending_start
    startingNow,    \* _starting_now
    indeterminate,  \* _indeterminate_start
    cleanedUp,      \* _cleaned_up
    pc, mine        \* the callers, and the worker each one starts

registers == <<tracked, pendingStart, startingNow, indeterminate, cleanedUp>>
vars == <<native, registers, pc, mine>>

\* "launching": the start was interrupted, and the thread may still come up.
Lives == {"unborn", "new", "launching", "alive", "dead"}
Places == {"idle", "native", "started", "failed", "interrupted", "retire", "cleaning"}

TypeOK ==
    /\ native \in [Workers -> Lives]
    /\ {tracked, pendingStart, startingNow, indeterminate} \subseteq SUBSET Workers
    /\ cleanedUp \in BOOLEAN
    /\ pc \in [Callers -> Places] /\ mine \in [Callers -> Workers \cup {NoWorker}]

Init ==
    /\ native = [w \in Workers |-> "unborn"]
    /\ tracked = {} /\ pendingStart = {} /\ startingNow = {} /\ indeterminate = {}
    /\ cleanedUp = FALSE
    /\ pc = [c \in Callers |-> "idle"] /\ mine = [c \in Callers |-> NoWorker]

Alive(w) == native[w] = "alive"
NoIdent(w) == native[w] \in {"unborn", "new", "launching"}
At(c, p) == pc[c] = p
Goto(c, p) == pc' = [pc EXCEPT ![c] = p]
Live(w, l) == native' = [native EXCEPT ![w] = l]

----------------------------------------------------------------------------
(* Creating and starting a worker.                                         *)

\* After the clean-up the caller gets an inert object instead.
Create(c, w) ==
    /\ At(c, "idle") /\ native[w] = "unborn" /\ ~cleanedUp
    /\ Live(w, "new")
    /\ tracked' = {v \in tracked : Alive(v) \/ NoIdent(v)} \cup {w}
    /\ UNCHANGED <<pendingStart, startingNow, indeterminate, cleanedUp, pc, mine>>

\* The handoff is recorded before the lock is released.  A worker is started by the code
\* that has created it, so not again after an interrupted start.  Mutant: only as pending.
BeginUnrecorded(c, w) ==
    /\ At(c, "idle") /\ ~cleanedUp
    /\ w \in tracked /\ native[w] = "new" /\ w \notin pendingStart
    /\ pendingStart' = pendingStart \cup {w}
    /\ mine' = [mine EXCEPT ![c] = w] /\ Goto(c, "native")
    /\ UNCHANGED <<native, tracked, startingNow, indeterminate, cleanedUp>>
Begin(c, w) ==
    /\ At(c, "idle") /\ ~cleanedUp
    /\ w \in tracked /\ native[w] = "new" /\ w \notin pendingStart
    /\ pendingStart' = pendingStart \cup {w} /\ startingNow' = startingNow \cup {w}
    /\ mine' = [mine EXCEPT ![c] = w] /\ Goto(c, "native")
    /\ UNCHANGED <<native, tracked, indeterminate, cleanedUp>>

\* Thread.start.
NativeStart(c) ==
    /\ At(c, "native")
    /\ LET w == mine[c] IN
       \/ Live(w, "alive") /\ Goto(c, "started")
       \/ UNCHANGED native /\ Goto(c, "failed")
       \/ Live(w, "launching") /\ Goto(c, "interrupted")
    /\ UNCHANGED <<registers, mine>>

\* The finally clause: a start known to have failed retires the worker, an interrupted
\* one keeps it; a clean-up that came in between leaves the join to the starter.
Settle(c) ==
    /\ pc[c] \in {"started", "failed", "interrupted"}
    /\ LET w == mine[c]
           refused == At(c, "failed") /\ NoIdent(w)
       IN /\ pendingStart' = pendingStart \ {w}
          /\ startingNow' = startingNow \ {w}
          /\ tracked' = IF refused THEN tracked \ {w} ELSE tracked
          /\ indeterminate' = IF ~At(c, "started") /\ ~refused THEN indeterminate \cup {w}
                              ELSE indeterminate
          /\ Goto(c, IF At(c, "started") /\ cleanedUp THEN "retire" ELSE "idle")
    /\ UNCHANGED <<native, cleanedUp, mine>>

\* The starter has joined its worker, for a bounded time.
Retire(c) ==
    /\ At(c, "retire")
    /\ tracked' = IF Alive(mine[c]) THEN tracked ELSE tracked \ {mine[c]}
    /\ Goto(c, "idle")
    /\ UNCHANGED <<native, pendingStart, startingNow, indeterminate, cleanedUp, mine>>

----------------------------------------------------------------------------
(* Clean-up, which may be repeated.                                        *)

CleanBegins(c) ==
    /\ At(c, "idle")
    /\ cleanedUp' = TRUE
    /\ Goto(c, "cleaning")
    /\ UNCHANGED <<native, tracked, pendingStart, startingNow, indeterminate, mine>>

\* After the joins: whoever lives, is being started or may come up stays registered.
CleanEnds(c) ==
    /\ At(c, "cleaning")
    /\ indeterminate' = {w \in indeterminate : NoIdent(w) \/ Alive(w)}
    /\ tracked' = {w \in tracked : Alive(w) \/ w \in startingNow \/ w \in indeterminate'}
    /\ pendingStart' = pendingStart \cap startingNow
    /\ Goto(c, "idle")
    /\ UNCHANGED <<native, startingNow, cleanedUp, mine>>

----------------------------------------------------------------------------
(* The workers.                                                            *)

ComesUp(w) ==
    /\ native[w] = "launching"
    /\ Live(w, "alive")
    /\ UNCHANGED <<registers, pc, mine>>

Ends(w) ==
    /\ Alive(w)
    /\ Live(w, "dead")
    /\ UNCHANGED <<registers, pc, mine>>

Next == \/ \E c \in Callers : \/ \E w \in Workers : Create(c, w) \/ Begin(c, w)
                              \/ NativeStart(c) \/ Settle(c) \/ Retire(c)
                              \/ CleanBegins(c) \/ CleanEnds(c)
        \/ \E w \in Workers : ComesUp(w) \/ Ends(w)

Spec == Init /\ [][Next]_vars

----------------------------------------------------------------------------
(* Properties.                                                             *)

\* No worker runs that a later clean-up could not join: not one whose start was on its way
\* while the register was emptied, nor one whose start was interrupted or that has outlived
\* a join.
LiveIsTracked == \A w \in Workers : Alive(w) => w \in tracked

=============================================================================
