----------------------------- MODULE BleRunner -----------------------------
(***************************************************************************)
(* The event-loop runner that all BLE clients of a process share           *)
(* (interfaces/ble/runner.py).  Application threads submit coroutines,     *)
(* stop the runner and restart it; a daemon thread owns the loop, from its *)
(* publication over run_forever to the cancellation of what is left.  The  *)
(* instance lock makes each section one step; what lies between two        *)
(* sections (the native loop, the joins, the readiness event) is not       *)
(* protected.                                                              *)
(*                                                                         *)
(* An owner stands for a thread, its loop and its readiness event.  A      *)
(* join or a wait may end before what it waits for: both are bounded, and  *)
(* a coroutine may block the loop for longer.                              *)
(***************************************************************************)
EXTENDS Naturals

CONSTANTS
    Callers,        \* threads that use the runner
    MaxOwners,      \* bound: threads the runner creates
    MaxCalls        \* bound: calls per thread

Owners == 1..MaxOwners
NoOwner == 0

VARIABLES
    thread, loop,       \* _thread and _loop, by owner
    stopRequested,      \* _stop_requested
    starting,           \* _loop_starting
    registered,         \* _atexit_registered
    place,              \* where each owner is
    ready,              \* its readiness event
    halted,             \* whether loop.stop has been scheduled on its loop
    crashed,            \* history: run_forever was left by an exception
    queued, tasks,      \* futures not yet done: submitted, and begun by the loop
    pc, calls,          \* the callers
    mine, seen          \* the thread and the loop a caller has captured

runnerVars == <<thread, loop, stopRequested, starting, registered>>
ownerVars == <<place, ready, halted, crashed>>
callerVars == <<pc, calls, mine, seen>>
vars == <<runnerVars, ownerVars, queued, tasks, callerVars>>

\* "limbo": the native start was interrupted, and the thread may still come up.
OwnerPlaces == {"none", "limbo", "born", "published", "entered", "running",
                "draining", "closing", "cleared", "dead"}
CallerPlaces == {"idle", "waitSubmit", "submit", "signal", "join", "check", "final",
                 "rejoin", "recheck", "waitRestart"}

TypeOK ==
    /\ thread \in 0..MaxOwners /\ loop \in 0..MaxOwners
    /\ {stopRequested, starting, registered} \subseteq BOOLEAN
    /\ place \in [Owners -> OwnerPlaces]
    /\ ready \in [Owners -> BOOLEAN] /\ halted \in [Owners -> BOOLEAN]
    /\ crashed \in [Owners -> BOOLEAN]
    /\ queued \in [Owners -> Nat] /\ tasks \in [Owners -> Nat]
    /\ pc \in [Callers -> CallerPlaces] /\ calls \in [Callers -> 0..MaxCalls]
    /\ mine \in [Callers -> 0..MaxOwners] /\ seen \in [Callers -> 0..MaxOwners]

Init ==
    /\ thread = NoOwner /\ loop = NoOwner
    /\ stopRequested = FALSE /\ starting = FALSE /\ registered = TRUE
    /\ place = [t \in Owners |-> "none"]
    /\ ready = [t \in Owners |-> FALSE] /\ halted = [t \in Owners |-> FALSE]
    /\ crashed = [t \in Owners |-> FALSE]
    /\ queued = [t \in Owners |-> 0] /\ tasks = [t \in Owners |-> 0]
    /\ pc = [c \in Callers |-> "idle"] /\ calls = [c \in Callers |-> 0]
    /\ mine = [c \in Callers |-> NoOwner] /\ seen = [c \in Callers |-> NoOwner]

\* Thread.is_alive and loop.is_running; the cancellation of what is left runs the loop again.
Alive(t) == t # NoOwner /\ place[t] \notin {"none", "limbo", "dead"}
LoopRuns(t) == t # NoOwner /\ place[t] \in {"entered", "running", "draining"}
IsRunning == Alive(thread) /\ LoopRuns(loop)

At(c, p) == pc[c] = p
Goto(c, p) == pc' = [pc EXCEPT ![c] = p]
Open(t) == queued[t] + tasks[t]

----------------------------------------------------------------------------
(* The owner thread.                                                       *)

OwnerAt(t, p) == place[t] = p
Become(t, p) == place' = [place EXCEPT ![t] = p]

\* A native launch that was interrupted may have succeeded.
ComesUp(t) ==
    /\ OwnerAt(t, "limbo")
    /\ Become(t, "born")
    /\ UNCHANGED <<runnerVars, ready, halted, crashed, queued, tasks, callerVars>>

\* The loop is published unless the runner has moved on.
Publish(t) ==
    /\ OwnerAt(t, "born")
    /\ IF thread # t \/ stopRequested
         THEN Become(t, "closing") /\ UNCHANGED loop
         ELSE Become(t, "published") /\ loop' = t
    /\ UNCHANGED <<thread, stopRequested, starting, registered, ready, halted, crashed,
                   queued, tasks, callerVars>>

\* run_forever: from here on is_running() says so.
Enter(t) ==
    /\ OwnerAt(t, "published")
    /\ Become(t, "entered")
    /\ UNCHANGED <<runnerVars, ready, halted, crashed, queued, tasks, callerVars>>

SignalReady(t) ==
    /\ OwnerAt(t, "entered")
    /\ Become(t, "running")
    /\ IF thread = t /\ ~stopRequested
         THEN starting' = FALSE /\ ready' = [ready EXCEPT ![t] = TRUE]
         ELSE UNCHANGED <<starting, ready>>
    /\ UNCHANGED <<thread, loop, stopRequested, registered, halted, crashed, queued, tasks,
                   callerVars>>

\* Coroutines begin and end, also while the loop is being drained.
TaskBegins(t) ==
    /\ place[t] \in {"running", "draining"} /\ queued[t] > 0
    /\ queued' = [queued EXCEPT ![t] = @ - 1]
    /\ tasks' = [tasks EXCEPT ![t] = @ + 1]
    /\ UNCHANGED <<runnerVars, ownerVars, callerVars>>

TaskEnds(t) ==
    /\ place[t] \in {"running", "draining"} /\ tasks[t] > 0
    /\ tasks' = [tasks EXCEPT ![t] = @ - 1]
    /\ UNCHANGED <<runnerVars, ownerVars, queued, callerVars>>

\* The scheduled stop ends run_forever.
Halt(t) ==
    /\ OwnerAt(t, "running") /\ halted[t]
    /\ Become(t, "draining")
    /\ UNCHANGED <<runnerVars, ready, halted, crashed, queued, tasks, callerVars>>

\* A task that raises SystemExit or KeyboardInterrupt, or a failing selector, ends it as well.
Crash(t) ==
    /\ OwnerAt(t, "running")
    /\ Become(t, "draining")
    /\ crashed' = [crashed EXCEPT ![t] = TRUE]
    /\ UNCHANGED <<runnerVars, ready, halted, queued, tasks, callerVars>>

\* _cancel_all_tasks, within its time; the loop is closed with whatever is left on it.
Drain(t) ==
    /\ OwnerAt(t, "draining")
    /\ Become(t, "closing")
    /\ \E n \in 0..tasks[t] : tasks' = [tasks EXCEPT ![t] = n]
    /\ UNCHANGED <<runnerVars, ready, halted, crashed, queued, callerVars>>

ClearReady(t) ==
    /\ OwnerAt(t, "closing")
    /\ Become(t, "cleared")
    /\ ready' = [ready EXCEPT ![t] = FALSE]
    /\ UNCHANGED <<runnerVars, halted, crashed, queued, tasks, callerVars>>

\* The runner is released, unless it is another owner's by now.
Retire(t) ==
    /\ OwnerAt(t, "cleared")
    /\ Become(t, "dead")
    /\ IF thread = t
         THEN /\ starting' = FALSE
              /\ loop' = IF loop = t THEN NoOwner ELSE loop
              /\ thread' = NoOwner
              /\ registered' = (registered /\ loop' # NoOwner)
         ELSE UNCHANGED <<starting, loop, thread, registered>>
    /\ UNCHANGED <<stopRequested, ready, halted, crashed, queued, tasks, callerVars>>

----------------------------------------------------------------------------
(* _start_locked, as part of a section.                                    *)

\* A running loop is used, a thread on its way is joined, otherwise one is created.
Reusable == thread # NoOwner /\ (Alive(thread) \/ starting)
Fresh(t) == place[t] = "none" /\ \A u \in Owners : place[u] = "none" => t <= u
NoFutures == \A t \in Owners : Open(t) = 0

\* The native start succeeds, fails before the launch, or is interrupted.
Create(c, t, waiting, from) ==
    /\ Fresh(t)
    /\ stopRequested' = FALSE
    /\ \/ /\ thread' = t /\ loop' = from /\ starting' = TRUE /\ registered' = TRUE
          /\ Become(t, "born")
          /\ mine' = [mine EXCEPT ![c] = t] /\ Goto(c, waiting)
       \/ /\ thread' = NoOwner /\ loop' = NoOwner /\ starting' = FALSE
          /\ registered' = ~NoFutures
          /\ Become(t, "dead")
          /\ Goto(c, "idle") /\ UNCHANGED mine
       \/ /\ thread' = t /\ loop' = from /\ starting' = TRUE /\ registered' = TRUE
          /\ Become(t, "limbo")
          /\ Goto(c, "idle") /\ UNCHANGED mine

Await(c, waiting) ==
    /\ mine' = [mine EXCEPT ![c] = thread] /\ Goto(c, waiting)
    /\ UNCHANGED <<runnerVars, place>>

\* The event is waited for, for a bounded time.
Wait(c, p, next) ==
    /\ At(c, p)
    /\ \/ ready[mine[c]] /\ Goto(c, next)
       \/ ~ready[mine[c]] /\ Goto(c, "idle")
    /\ UNCHANGED <<runnerVars, ownerVars, queued, tasks, calls, mine, seen>>

----------------------------------------------------------------------------
(* Calls.                                                                  *)

Called(c) ==
    /\ At(c, "idle") /\ calls[c] < MaxCalls
    /\ calls' = [calls EXCEPT ![c] = @ + 1]

\* _run_coroutine_threadsafe: _ensure_running, then submission and tracking in one section.
EnsureRunning(c) ==
    /\ Called(c)
    /\ \/ IsRunning /\ Goto(c, "submit") /\ UNCHANGED <<runnerVars, place, mine>>
       \/ ~IsRunning /\ Reusable /\ Await(c, "waitSubmit")
       \/ ~IsRunning /\ ~Reusable /\ \E t \in Owners : Create(c, t, "waitSubmit", loop)
    /\ UNCHANGED <<ready, halted, crashed, queued, tasks, seen>>

WaitSubmit(c) == Wait(c, "waitSubmit", "submit")

\* Mutant: the stop request is not looked at again.
AcceptsRunning == LoopRuns(loop)
Accepts == ~stopRequested /\ LoopRuns(loop)
Submit(c) ==
    /\ At(c, "submit")
    /\ Goto(c, "idle")
    /\ IF Accepts THEN queued' = [queued EXCEPT ![loop] = @ + 1] ELSE UNCHANGED queued
    /\ UNCHANGED <<runnerVars, ownerVars, tasks, calls, mine, seen>>

\* _stop: the request, the cancellation of every tracked future and the capture.
Stop(c) ==
    /\ Called(c)
    /\ stopRequested' = TRUE
    /\ queued' = [t \in Owners |-> 0] /\ tasks' = [t \in Owners |-> 0]
    /\ mine' = [mine EXCEPT ![c] = thread] /\ seen' = [seen EXCEPT ![c] = loop]
    /\ Goto(c, "signal")
    /\ UNCHANGED <<thread, loop, starting, registered, ownerVars>>

\* The loop is asked to stop if it runs; the thread is joined if it is alive.
SignalStop(c) ==
    /\ At(c, "signal")
    /\ halted' = IF LoopRuns(seen[c]) THEN [halted EXCEPT ![seen[c]] = TRUE] ELSE halted
    /\ Goto(c, IF Alive(mine[c]) THEN "join" ELSE "check")
    /\ UNCHANGED <<runnerVars, place, ready, crashed, queued, tasks, calls, mine, seen>>

\* A thread that has not ended by then is a zombie: False.
Join(c) ==
    /\ At(c, "join")
    /\ Goto(c, IF Alive(mine[c]) THEN "idle" ELSE "check")
    /\ UNCHANGED <<runnerVars, ownerVars, queued, tasks, calls, mine, seen>>

\* So is a launch that may still come up.  Mutant: it is taken for stopped.
StillStartingNever(c) == FALSE
StillStarting(c) == mine[c] # NoOwner /\ mine[c] = thread /\ starting
Check(c) ==
    /\ At(c, "check")
    /\ Goto(c, IF StillStarting(c) THEN "idle" ELSE "final")
    /\ UNCHANGED <<runnerVars, ownerVars, queued, tasks, calls, mine, seen>>

\* What has ended is released unless another start has replaced it: True.
Exited(c) == mine[c] = NoOwner \/ (~Alive(mine[c]) /\ ~starting)
Final(c) ==
    /\ At(c, "final")
    /\ thread' = IF thread = mine[c] /\ Exited(c) THEN NoOwner ELSE thread
    /\ loop' = IF loop = seen[c] /\ Exited(c) THEN NoOwner ELSE loop
    /\ registered' = (registered /\ (thread' # NoOwner \/ loop' # NoOwner))
    /\ Goto(c, "idle")
    /\ UNCHANGED <<stopRequested, starting, ownerVars, queued, tasks, calls, mine, seen>>

\* _restart: a live owner that is not starting is joined outside the lock.
RestartBegins(c) ==
    /\ Called(c)
    /\ IF IsRunning THEN Goto(c, "idle") /\ UNCHANGED mine
       ELSE /\ mine' = [mine EXCEPT ![c] = thread]
            /\ Goto(c, IF Alive(thread) /\ (stopRequested \/ (~starting /\ loop # NoOwner))
                         THEN "rejoin" ELSE "recheck")
    /\ UNCHANGED <<runnerVars, ownerVars, queued, tasks, seen>>

\* A live owner is never given up.
Rejoin(c) ==
    /\ At(c, "rejoin")
    /\ Goto(c, IF Alive(mine[c]) THEN "idle" ELSE "recheck")
    /\ UNCHANGED <<runnerVars, ownerVars, queued, tasks, calls, mine, seen>>

\* The runner may have a new owner by now, whose start is joined instead.  Mutant: the
\* captured one is taken for gone.
GoneUnseen(c) == thread = mine[c]
Gone(c) == thread = mine[c] /\ (mine[c] = NoOwner \/ (~Alive(mine[c]) /\ ~starting))
RestartDecides(c) ==
    /\ At(c, "recheck")
    /\ \/ IsRunning /\ Goto(c, "idle") /\ UNCHANGED <<runnerVars, place, mine>>
       \/ ~IsRunning /\ ~Gone(c) /\ Reusable /\ Await(c, "waitRestart")
       \/ /\ ~IsRunning /\ (Gone(c) \/ ~Reusable)
          /\ \E t \in Owners :
                Create(c, t, "waitRestart", IF Gone(c) THEN NoOwner ELSE loop)
    /\ UNCHANGED <<ready, halted, crashed, queued, tasks, calls, seen>>

WaitRestart(c) == Wait(c, "waitRestart", "idle")

----------------------------------------------------------------------------

OwnerStep(t) == \/ Publish(t) \/ Enter(t) \/ SignalReady(t) \/ Halt(t) \/ Drain(t)
                \/ ClearReady(t) \/ Retire(t)
OwnerChance(t) == ComesUp(t) \/ TaskBegins(t) \/ TaskEnds(t) \/ Crash(t)
CallerStep(c) == \/ WaitSubmit(c) \/ Submit(c) \/ SignalStop(c) \/ Join(c) \/ Check(c)
                 \/ Final(c) \/ Rejoin(c) \/ RestartDecides(c) \/ WaitRestart(c)
Call(c) == EnsureRunning(c) \/ Stop(c) \/ RestartBegins(c)

Next == \/ \E t \in Owners : OwnerStep(t) \/ OwnerChance(t)
        \/ \E c \in Callers : CallerStep(c) \/ Call(c)

Spec == Init /\ [][Next]_vars

\* The owner runs when it can, and every wait of a caller is bounded.
FairSpec == /\ Spec
            /\ \A t \in Owners : WF_vars(OwnerStep(t))
            /\ \A c \in Callers : WF_vars(CallerStep(c))

----------------------------------------------------------------------------
(* Properties.                                                             *)

\* However starts, stops, restarts, interrupted launches and crashes meet, a thread that
\* lives is the recorded owner, so there is never a second loop, and the process will stop
\* it when it exits.
OneOwner == \A t \in Owners : Alive(t) => thread = t /\ registered

\* No caller waits for ever on a future: when a loop that did not crash is gone, every
\* future submitted to it is done, also one that was submitted beside the stop.
NoLostFuture == \A t \in Owners : OwnerAt(t, "dead") /\ ~crashed[t] => Open(t) = 0

\* _stop() returns True only when the thread it found has ended and cannot come up any more.
StopTrueMeansGone == [][
    \A c \in Callers : At(c, "final") /\ pc'[c] = "idle" =>
        mine[c] = NoOwner \/ place[mine[c]] = "dead"]_vars

\* "Requests shutdown of the background asyncio loop" (runner.py:631): a published loop ends
\* once a stop has been requested.
\* The code does not keep it (README, section 6), so no run checks it.
StoppedLoopEnds == \A t \in Owners : stopRequested /\ loop = t ~> ~Alive(t)

=============================================================================
