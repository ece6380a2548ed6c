----------------------------- MODULE BleServices -----------------------------
(***************************************************************************)
(* The services that the BLE interfaces of one process share with each     *)
(* other and with their workers: the address gate, the event-loop runner   *)
(* and the thread register, and beside them the receive threads of one     *)
(* interface.  They have no state in common, so a behaviour moves one of   *)
(* them and leaves the others as they started: their interleavings would   *)
(* add nothing.                                                            *)
(***************************************************************************)
EXTENDS BleGate

CONSTANTS Callers, Workers, NoWorker, MaxOwners, MaxCalls,
          MaxReceivers, MaxClients, MaxFails, AutoReconnect, Main, Helper

ASSUME ServicesAssumption ==
    /\ {MaxOwners, MaxCalls, MaxReceivers, MaxClients, MaxFails} \subseteq Nat
    /\ Main # Helper /\ {Main, Helper} \cap (1..MaxReceivers) = {}

VARIABLES thread, loop, stopRequested, starting, registered, place, ready, halted, crashed,
          queued, tasks, runnerPc, calls, runnerMine, seen
Runner == INSTANCE BleRunner WITH pc <- runnerPc, mine <- runnerMine

VARIABLES native, tracked, pendingStart, startingNow, indeterminate, cleanedUp, threadsPc,
          threadsMine
Threads == INSTANCE BleThreads WITH pc <- threadsPc, mine <- threadsMine

VARIABLES receiveClosed, wanted, client, receiver, receivePending, since, linked, due, life,
          receiveAt, receiveMine, plan, inflight, target, strict, fails, unheard
Receive == INSTANCE BleReceive WITH
    closed <- receiveClosed, thread <- receiver, pending <- receivePending, at <- receiveAt,
    mine <- receiveMine, up <- linked

runnerVars == <<thread, loop, stopRequested, starting, registered, place, ready, halted,
                crashed, queued, tasks, runnerPc, calls, runnerMine, seen>>
threadsVars == <<native, tracked, pendingStart, startingNow, indeterminate, cleanedUp,
                 threadsPc, threadsMine>>
receiveVars == <<receiveClosed, wanted, client, receiver, receivePending, since, linked, due,
                 life, receiveAt, receiveMine, plan, inflight, target, strict, fails, unheard>>

Init4 == Init /\ Runner!Init /\ Threads!Init /\ Receive!Init

Next4 ==
    \/ /\ Runner!Init /\ Threads!Init /\ Receive!Init
       /\ Next /\ UNCHANGED <<runnerVars, threadsVars, receiveVars>>
    \/ /\ Init /\ Threads!Init /\ Receive!Init
       /\ Runner!Next /\ UNCHANGED <<vars, threadsVars, receiveVars>>
    \/ /\ Init /\ Runner!Init /\ Receive!Init
       /\ Threads!Next /\ UNCHANGED <<vars, runnerVars, receiveVars>>
    \/ /\ Init /\ Runner!Init /\ Threads!Init
       /\ Receive!Next /\ UNCHANGED <<vars, runnerVars, threadsVars>>

Spec4 == Init4 /\ [][Next4]_<<vars, runnerVars, threadsVars, receiveVars>>

\* The properties of the runner, the register and the receive threads, under their own names.
OneOwner == Runner!OneOwner
NoLostFuture == Runner!NoLostFuture
StopTrueMeansGone == Runner!StopTrueMeansGone
LiveIsTracked == Threads!LiveIsTracked
ReceiverRemains == Receive!ReceiverRemains

=============================================================================
