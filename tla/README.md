# A TLA+ development of the mtjk runtime

mtjk is a Python client library and command-line program for Meshtastic radios.
A program holds a `MeshInterface` over a transport (serial, TCP or Bluetooth LE);
a device behind that transport relays packets over a slow, lossy mesh.  What is
hard in the library is not the data but the sharing of state between threads:
application threads that send and wait, one receive thread per transport, a
thread that publishes events, timers, and in the Bluetooth case an event loop
and several workers.  This directory models those parts in TLA+, checks them with
TLC on small instances and proves the central invariants with TLAPS for all
instances.

Paths below are relative to `src/meshtastic/`.

## 1. The system

### Components

`docs/maintainers/runtime-state-ownership-audit.md` lists 38 state machines and
who owns each.  They group as follows; `PROJECT.json` lists every part, the ones
that are not modelled included, with the reason.

| Part | State it keeps | Operations | What must hold |
|---|---|---|---|
| **TX queue** (`mesh_interface_runtime/queue_send.py`) | ordered queue of packets and acknowledgement markers, firmware slots, claims on packet ids, replies awaited, tombstones with TTLs | `_send_to_radio` in any thread; `_record_queue_status`, `_correlate_queue_status_reply` in the receive thread | no packet lost or sent under another's claim; slots never over-counted; acknowledgements that arrive early survive; every call returns |
| **Request waits** (`mesh_interface_runtime/request_wait.py`, with `send_pipeline.py`, `flows.py`, `node.py`, `node_runtime/admin_wait.py`, `node_runtime/transport_runtime/ack.py`, `_command_scope.py`) | response handlers per packet id, active and retired ids per attribute, acknowledgements, errors, legacy flags | register, activate, wait, retire, correlate, re-arm, close a command scope | a reply concludes the request it answers and no other; nothing outlives its request |
| **TCP transport** (`tcp_interface.py` over `stream_interface.py`) | published socket, attempt counters and flags, shutdown flags | connect, close, write, read, reconnect | one owner per socket, none leaked, none closed while published; a closed link stays closed; calls return |
| **Stream and session** (`stream_interface.py`, `mesh_interface.py`) | frame buffer, `isConnected`, `failure`, `configId`, heartbeat timer | connect, configuration handshake, heartbeat, disconnect, reboot, close | one heartbeat chain; established and lost alternate; a new connection starts with an empty frame buffer |
| **Serial transport** (`serial_interface.py`, `transport_retry.py`) | the port, a retry window | connect with retries, close | a closed interface is not reopened, no port is dropped open |
| **Receive pipeline** (`mesh_interface_runtime/receive_pipeline.py`, `_protocol_runtime.py`) | node database | dispatch of each `FromRadio`, reboot handling | QueueStatus and responses reach the two runtimes above in arrival order |
| **Channel cache and download** (`node_runtime/channel_state.py`, `channel_request_runtime.py`, `response_runtime.py`) | complete and partial channel list, outstanding index, retry count | request, response, retry, install, invalidate | an installed list comes from one download; a stalled download is reported |
| **setURL** (`node_runtime/seturl/`) | plan, stage, cache guard | plan, write channels, write LoRa, deferred admin channels, resume | the device converges or the failure is reported and the caches are invalid; the session is never cut off by its own writes |
| **BLE runner and coordination** (`interfaces/ble/runner.py`, `coordination.py`) | event loop, its thread, pending futures; tracked threads and events | start, stop, restart, submit; create, start, join, clean up | one live loop; every tracked thread is joined |
| **BLE session** (`state.py`, `session_state.py`, `connection.py`, `lifecycle_*_runtime.py`) | connection state, client, session epoch, publication flags | connect, adopt, publish, disconnect, close | publication and disconnect alternate per session; a stale callback touches no newer client |
| **BLE gate** (`gating.py`) | per-address connecting and connected claims with owners | claim, release, probe, prune | one owner per address |
| **BLE reconnect** (`reconnection.py`, `policies.py`) | worker reference, back-off | schedule, attempt loop, exit | after a disconnect a worker runs, at most one |
| **BLE receive** (`receive_service.py`, `lifecycle_receive_runtime.py`, `lifecycle_decisions.py`) | receive thread wanted, recorded and starting; deferred restart in flight | start, read loop, recover, restart after death | while receiving is wanted a thread runs or is about to |
| **BLE notifications, management** | subscriptions, in-flight operations | begin, finish, drain | shutdown drains |
| Administration, settings, content (`node_runtime/`) | cached settings and session key | one admin request each | as request waits |
| CLI, OTA, tunnel, power monitoring, logging, data views, generated code | none shared with the runtime | | not modelled |

### How they interact

* An application thread calls `sendData`.  The pipeline draws a packet id, checked
  against the ids **Request waits** has reserved, registers the response handler,
  and hands the packet to the **TX queue**, whose `send_impl` writes to the
  **transport**.
* The transport's receive thread reads frames, and the **receive pipeline** hands
  QueueStatus messages to the TX queue and decoded packets to Request waits, which
  pops the handler under its lock and runs the callback outside it.
* Loss of the transport: the TCP reader reconnects by itself; the serial interface
  reports the loss; the BLE interface schedules a worker.  A reconnect repeats the
  configuration handshake and drops the send queue.
* `close()` may come from any thread, during any of these.
* Events (`established`, `lost`, received packets) are queued to one publishing
  thread and delivered later, in order.

### What is hard

Interleavings of senders that share one queue; an answer that arrives before the
call that caused it has returned; a write that fails after the device has received
it; state read under a lock and used after it; packet ids that are reused while
late replies travel; a blocking connect that outlives the call that should have
cancelled it; waits that must end by a deadline.  Nothing is persisted, so there is
no crash recovery: the counterpart is a device reboot or a lost transport.
`PROJECT.json` lists the forty main hazards, at their lines, with the properties that
cover each; section 6 lists the ones that the code does not exclude and the ones no
property reaches.

## 2. The modules

| Module | Models | Proofs |
|---|---|---|
| `OrderedDict` | Python's insertion-ordered dictionary, for the queue and the tombstones | used by |
| `TxQueue` | the TX queue | `TxQueue_proofs` |
| `RequestWait` | request waits, command scopes, the receive thread's correlation | `RequestWait_proofs` |
| `SocketOwnership` | abstract: the life of a native socket | implemented by |
| `TcpLink` | the TCP transport with its reader, reconnect and close | `TcpLink_proofs` |
| `SerialSession` | the serial transport, its reader, the heartbeat and the session above it | `SerialSession_proofs` |
| `BleSession` | one Bluetooth interface: connect, publication, disconnect, reconnect worker, close | `BleSession_proofs` |
| `BleGate` | the claims on an address that the interfaces of a process share | `BleServices_proofs` |
| `BleRunner` | the event loop that the BLE clients of a process share | `BleServices_proofs` |
| `BleThreads` | the register of worker threads | `BleServices_proofs` |
| `BleReceive` | the receive threads of one Bluetooth interface: read loop, recovery, deferred restart | `BleServices_proofs` |
| `BleServices` | the four before, side by side | `BleServices_proofs` |
| `ChannelDownload` | the download of the channel list, one index at a time | `ChannelDownload_proofs` |
| `ChannelTransactions` | deletion, setURL and single writes against device and cache | `ChannelTransactions_proofs` |
| `MC_*` | constants for TLC | |

In every module an action is one critical section of the lock that protects the
state, together with the thread-local code around it, or one unlocked read of
shared state, or one blocking call.  Each thread has a program counter whose values
are the gaps between those sections; that is where the code can be interrupted.
The definitions named `...` with the comment *mutant* are deliberately wrong
variants of a neighbouring definition.  They take part in no specification: replacing
the neighbour by its variant makes a property fail, which shows that the property
depends on that line of the code.

### TxQueue

The queue is an ordered dictionary from keys to packets.  A key is the packet id, or
a private negative key for packets whose id the firmware assigns; the value
`Acked` is the code's `False`, the marker left for an acknowledgement that came
while the packet was out of the queue.  `free` is `queueStatus.free`; `claimedKeys`
are the keys whose slot was taken from the *current* QueueStatus object, which is
how the code tells a refundable slot from one of a superseded snapshot.  `claims` is
`_active_send_id_claims`.  `got` and `cap` are what the first critical section of
the reconciliation read and the second one uses.

| Action | Code |
|---|---|
| `RejectDuplicate`, `Admit` | `_send_to_radio` up to the first section, `_enqueue_packet_locked` |
| `PopOldest`, `PopMarker`, `PopLocal`, `PopNothing` | `_pop_for_send_locked`, `_pop_capacity_exempt_locked` |
| `ForgetAcked`, `CheckEmpty`, `KeepWaiting`, `GiveUp`, `DeadlineExpired` | the loop of `_send_to_radio` |
| `Transmit`, `SendReturns`, `SendRaises` | `send_impl`, whose failure says nothing about delivery |
| `Reconcile`, `SettleDone`, `SettleSent`, `SettleRequeue`, `ReconcileDone` | `_reconcile_resent_queue`, per entry |
| `Release`, `ReleaseOwn` | the `finally` clauses |
| `ReceiveStatus`, `ApplyAck`, `ApplyError`, `ApplyNothing` | the receive thread |
| `AgeAwaiting`, `AgeTombstone`, `LocalNodeChanges` | TTLs; the local node number becomes known or is forgotten |

Abstractions: TTLs are two ages, fresh and old, and age in insertion order.  The
classification of a packet is read with the section that admits it.  A raised
`send_impl` and the recording of the retryable packet are one step.  The device
reports once on each packet it received.  A reconnect of the TCP transport, which
clears the queue under the lock but not the bookkeeping beside it, is not an action
here (section 6).

### RequestWait

Each caller issues requests of one kind: `response` (position, telemetry, waypoint),
`trace` (traceroute, whose callback re-arms the handler on a bare ACK), `ack` (an
admin write), `getter` (a bounded typed admin getter) and `async` (a user callback
nobody waits for).  Replies are classified once as routing ACK, routing NAK, the data
asked for, undecodable, or other data; the mesh may produce any of them for a
transmitted request, duplicate and delay them.  `Correlate` is the lock section that
selects and pops a handler; `Invoke` and `RunCallback` run it after the lock has been
released; `DecodeFailed` and `RestOfNak` are the further sections of an undecodable
payload and of a NAK.

| Action | Code |
|---|---|
| `Choose`, `Register`, `Activate` | `_send_data_with_wait`: id from an unlocked snapshot of the reserved ids, registration that may refuse it, activation of the scope |
| `Transmit`, `SendReturns`, `SendFails` | the send and its clean-up |
| `Poll`, `GetterCompletes`, `TimesOut`, `Conclude`, `Retire` | the wait loops and `retire_wait_request` |
| `CloseScope`, `CleanUp` | `_CommandScope` |
| `Correlate`, `DecodeFailed`, `Invoke`, `RunCallback`, `RestOfNak` | the receive thread |
| `QuarantineEnds`, `HandlerAges` | the 60 s quarantine of retired ids, the handler TTL |

Abstractions: reading the legacy flag and setting it is merged with the lock section
beside it.  `QuarantineEnds` requires that no reply of the id is under way: the code
assumes that no reply is later than the quarantine, and so does the model.  The legacy
waiters without an id are not callers here (section 6).  Admin writes inside a
command scope report through the scope and are excluded by `CommandAssumption`.

### TcpLink and SocketOwnership

`native` is the operating system's view of each socket: unused, open, dead (the peer
has gone) or closed.  `socket` is `self.socket`.  A thread that works on a handle has
it in `sock`.  Application threads call `connect`, `close` and write; the reader
reads, reconnects and starts the configuration.  All share `Write`, `SendSucceeds`,
`SendFails` (`_write_bytes`), `Drop` (`_close_socket_if_current`), `Shut`
(`_close_socket_handle`), `DialSucceeds`, `DialFails` and `Adopt` (`myConnect`).

| Action | Code |
|---|---|
| `Begin` | the application calls |
| `Conn`, `Start`, `Wait` | `_connect_socket_if_needed`, `StreamInterface.connect`, the wait for the configuration |
| `CloseBegin`, `MeshClose`, `CloseStream`, `Take` | `_shared_close`, `MeshInterface.close`, `_close_socket_and_join_reader` |
| `Top`, `Read`, `Unread`, `RecvData`, `RecvEof`, `Handle` | `_reader`, `_read_bytes` and the messages that change the link |
| `Plan`, `GiveUp`, `Sleep`, `Post`, `Vet`, `Unconfig`, `Confirm`, `Finish` | `_attempt_reconnect` |
| `PeerDrops` | the peer closes or resets a connection |

`SocketOwnership` is what a user of the transport needs to know: a socket is opened,
offered, published or refused, withdrawn and closed, in that order and never back, and
at most one is published.  `PhaseOf` is the refinement mapping from the link's
variables; `OwnershipKept` says the link implements it.

Abstractions: payload is left out, a received byte completes nothing, completes the
configuration or reports a reboot.  The bounded joins and drains of `close()` only add
delay.  `Vet` merges the read of `_wantExit` with the next read of `self.socket`.
Construction with `connectNow`, `noProto` and constructor cancellation are not
modelled: the initial state is an interface built with `connectNow=False`.

### SerialSession

`port` is the native state of each port object, `stream` is `self.stream`.  A
`SerialInterface` retries its connect and opens a port per try; the reader receives
data, publishes the session and starts the heartbeat; `closing` refuses new
heartbeats and `inflight` counts those being written.  `timer` is the timer the
interface holds a reference to, `loose` the timers that are running without one.

| Action | Code |
|---|---|
| `Connect`, `Skip`, `Refuse`, `Open`, `OpenFails` | `SerialInterface.connect` up to the opened port |
| `LaunchRefused`, `Launch`, `Ask`, `Succeed`, `WaitFails` | `StreamInterface.connect`: reader, `_start_config`, the wait for the configuration |
| `Exhausted`, `Retry` | the retry window |
| `Close`, `CloseBegin`, `Timers`, `QuiesceAtOnce`, `Quiesce`, `Shut`, `Join`, `Forget` | `close()` of the serial, stream and mesh layers |
| `Top`, `ReadNothing`, `ReadFails`, `ConfigComplete`, `Reboot`, `Drop` | `_reader` and the messages that change the session |
| `MarkAgain`, `Mark`, `FirstBeat`, `FirstBeatSent`, `Publish` | `_connected` |
| `LostKeeps`, `Lost` | `_disconnected` |
| `Fire`, `Beat`, `BeatKeeps`, `BeatSent` | the heartbeat timer's callback |
| `Unplugged` | the device goes away |

Abstractions: an undecodable frame during the configuration ends in the same place as a
wait that times out and is merged with it.  Repeated transient read errors are merged.
Cancelling the timer belongs to the section that takes it.  The disconnect message to
the device is part of `Quiesce`.  `MaxBeats` bounds the timers that run at once.

### BleSession

The state lock of the interface makes every section one action.  `epoch` is the session
epoch, which tells what belongs to an earlier session; `notified`, `pending`, `replacing` and `inflight` are the publication
flags; `link` is the native state of the link of each client and `due` says that its
disconnect has yet to be reported; `claim` is this interface's own entry in the
address registry.  `plan` is what a disconnect handler has resolved and uses later.

| Action | Code |
|---|---|
| `Call`, `Ask`, `Lock`, `Begin`, `Validate` | `connect()` up to the dial |
| `DialSucceeds`, `DialFails`, `Finish`, `Failed`, `Restore` | the connection orchestrator and its error paths |
| `AdoptClosed`, `Adopt`, `Handoff` | adoption of the new client |
| `Gates`, `Mark`, `Regate`, `Ungate` | `_finalize_connection_gates` |
| `Verify`, `Check`, `Commit`, `Allow`, `Notify`, `NotifyRaises`, `Complete`, `Settle`, `Repair`, `Relost` | `_verify_and_publish_connected` and the sections it calls |
| `Invalid`, `Unmark`, `Discard`, `Shut`, `Same`, `Reset`, `Lose`, `Raise` | a result that was invalidated meanwhile, and the client it discards |
| `LinkDrops`, `Report`, `Resolve`, `Vet`, `Recheck`, `Drop`, `Release`, `Lost`, `Wake`, `Schedule` | a link is lost; `handle_disconnect` |
| `WorkerLoop`, `WorkerExit` | the reconnect worker |
| `Close`, `Signal`, `MeshClose`, `Detach`, `Consume`, `Final` | `close()` |

Abstractions: one address; what other interfaces claim is `BleGate`'s subject.  ERROR is
merged with the reset that follows it.  Repeated checks that all answer no are one.
The receive thread is `BleReceive`'s subject; management operations and notifications are
left out, as is the roll-back of a failed hand-off (`interface.py:2464-2495`).  Retries are unlimited, which is
the default policy.  The sections of `_disconnected` are merged, and `Commit` joins the
snapshot (`lifecycle_ownership_runtime.py:895`) with the section that uses it (907).

### BleGate

`connected` and `connecting` are the registry's claims on the address, with their
owners; `stale` says that the provisional claim has outlived its age limit.  `entry` and
`holders` are the reference-counted lock of the address, which is removed with its last
user and created again: `holder` says who holds each lock object.  `sample` is what a
thread has seen of another interface outside the registry lock.

| Action | Code |
|---|---|
| `Fetch`, `Acquire`, `Unlock`, `PutBack`, `Cleaned` | the address lock and its clean-up |
| `Look`, `Probe`, `Answer` | `_is_currently_connected_elsewhere`: section, unlocked probe, section |
| `MarkConnecting`, `MarkConnected`, `ClearConnecting`, `Unmark` | the claims |
| `Start`, `DialSucceeds`, `DialFails`, `Gates`, `Regate`, `Verify`, `Undo`, `Discard` | `connect()` around them |
| `Loses`, `Release`, `Age`, `Dies` | a lost link and its release, the age of a claim, an interface that is collected |

Abstractions: one key per interface; claims without an owner and
`_clear_connecting_for_owner` do not occur.  Where `connect()` takes several snapshots in
a row and uses the last, the model takes one.

### BleRunner and BleThreads

An owner of `BleRunner` stands for a thread, its loop and its readiness event, from
creation over `run_forever` to the cancellation of what is left.  `thread` and `loop` are
the references the runner holds.

| Action | Code |
|---|---|
| `ComesUp`, `Publish`, `Enter`, `SignalReady`, `Halt`, `Crash`, `Drain`, `ClearReady`, `Retire` | the owner thread |
| `TaskBegins`, `TaskEnds` | coroutines on the loop |
| `EnsureRunning`, `Create`, `Await`, `WaitSubmit`, `Submit` | start and submission |
| `Stop`, `SignalStop`, `Join`, `StillStarting`, `Check`, `Final` | stop |
| `RestartBegins`, `Rejoin`, `RestartDecides`, `WaitRestart` | restart |

Bounded waits may end at any time.  The native start succeeds, fails or is interrupted so
that nobody knows which.  Calls from the loop's own thread, the deprecated timeout
alias, the zombie counter and the creation of the singleton are left out.

`BleThreads` has one action per section of `ThreadCoordinator`: `Create`, `Begin`,
`NativeStart`, `Settle` and `Retire` for a start, `CleanBegins` and `CleanEnds` for a
clean-up, `ComesUp` and `Ends` for the worker.  A worker is started once, by the thread
that created it, which is how the package uses it.  Joins only add delay and the named
events are plain `threading.Event` objects.

### BleReceive

`thread` is the receive thread on record, `life` the native state of each, `pending` and
`since` the mark of a start under way.  `plan` is what a starter has seen and decided.  A
thread that ends with an error cannot start its successor while it is itself on record and
alive, so it leaves that to `Helper`, which waits for it to die.

| Action | Code |
|---|---|
| `Look`, `Decide`, `Schedule`, `Register`, `Launch`, `NativeStart`, `StartFails`, `Confirm` | `start_receive_thread`: snapshot, decision, section, native start, probe |
| `HelperQuits`, `HelperGoes`, `Finish`, `Again` | `_schedule_deferred_receive_restart` |
| `Top`, `State`, `ReadReturns`, `ReadFails`, `HandlerRaises` | the read loop |
| `Drop`, `Dropped`, `Unwant` | `handle_read_loop_disconnect` |
| `Recover`, `Recheck`, `Withdrawn`, `Throttle`, `Leave` | `recover_receive_thread` and the end of the thread |
| `Close`, `CloseBegin`, `CloseUnwants`, `Join`, `CloseDetaches` | the part of `close()` that concerns the thread, also when a receive thread calls it |
| `Connect`, `LinkDrops`, `Callback`, `PendingAges` | a client is installed, loses its link, is reported; a start becomes old |

Abstractions: the session is its client (`BleSession` models the rest, and publication
only delays a read).  `handle_disconnect` is its decision and its result.  Wake-up events,
retry counters, the recovery back-off and the bound of 16 looks at a snapshot that keeps
changing only end waits earlier or later.  An inconclusive start does not occur with real
threads and the override hooks of legacy subclasses are not used.  A handler raises
(`HandlerRaises`) only while another thread can still be created.  `unheard` latches that a
request for a restart went unheard: the helper's flag was still set, a start was pending,
the helper could not be launched, or the ending thread's own start raised.  It takes part in
no guard.

`BleServices` instantiates `BleRunner`, `BleThreads` and `BleReceive` beside `BleGate`.
The four have no shared state, so a behaviour moves one of them and leaves the others at
their start.

### ChannelDownload

The application thread asks for the first channel and the receive thread for every
further one, from the callback of the last answer.  `channels` is the installed and
`partial` the growing list; `pending`, `retries` and `failed` have no lock.  `asked` is
what the device may still answer, late or twice.

| Action | Code |
|---|---|
| `Start`, `Reset`, `WaitCompletes`, `WaitTimesOut`, `Judge`, `Again` | `get_node`, `requestChannels`, `waitForConfig` and the loop of attempts |
| `Mark`, `Send`, `SendFails` | `request_channel`, in either thread |
| `ReceiveBad`, `ReceiveNak`, `ReceiveChannel` | an answer and its first checks |
| `Check`, `AppendPartial`, `Progress`, `Install`, `Finish` | `onResponseRequestChannel` |

Abstractions: the fields of one mark are set in one step.  The typed response contract
keeps acknowledgements and other variants away from the callback.  `overlap` latches that a
callback ran while the application made a request; it takes part in no guard.

### ChannelTransactions

A channel is its name, a table a function from slots to names.  `device` is the table
the radio holds, `channels` the cached one, `ref` its identity, which changes whenever the
list object is replaced; `job` is the transaction in progress with its plan, the list
it was made from and the set of items left.  `Place` is the order in which the code
writes them: ascending slots, the LoRa configuration, the deferred new admin channel and
the slot of the previous one; `Current` is the next of them.

| Action | Code |
|---|---|
| `WriteChannel`, `DeleteChannel`, `AddUrl`, `ReplaceUrl` with `WritePlan`, `DeletePlan`, `AddPlan`, `ReplacePlan` | the calls and their planners |
| `Check`, `Send`, `SendFails`, `KeepSlot`, `ReplaceEnds`, `Commit` | guards, writes and commits of the execution |
| `Failure`, `Compute`, `Capture`, `ResumeFails` | failure handling and the bounded resume |
| `Drop`, `StartConfig`, `Stream`, `Complete`, `Edit` | the link, the configuration download, the application's edits |

Abstractions: the local node only.  The mutation lock makes transactions sequential, so
there is one current job.  A write that the transport accepts reaches the device.
Choosing the administration channel is part of planning, except that a single write looks it
up in the cached list when it is sent (`Via`).  The LoRa configuration arrives
with `Complete`, a download is streamed completely, and the pacing between writes is left
out.  A URL has settings, their names differ and at most one is the administration channel.

The lookups hand out the cached channels themselves, so `Edit` changes any of them at any
time, between transactions and during one, to any other content: a channel is renamed, also
from or to "admin", switched off or on.  It keeps to the one rule of roles, that the PRIMARY
channel is in slot 0, so slot 0 is not switched off.  Four histories, which take part in no
guard, say which promises the code cannot keep then: `stale` latches that the cache comes
from a download, or a single write's slot, that was overtaken; `edited` has the slots whose
cached channel the application has changed since it was loaded or written; `renamed` latches
that such a change gave or took the name "admin", until a list loaded between transactions
replaces it; `job.hidden` has the slots that an edit had made look written when a resumed
replacement computed what is left.

## 3. What the runs check

`CHECK_DEADLOCK FALSE` everywhere: the number of calls is bounded, so every
behaviour ends in a state where all calls have been made and nothing is left to do.
That calls return is stated as a liveness property instead.

| Run | Instance | Shows |
|---|---|---|
| `tx_rf` | 2 senders, 2 calls, one slot, 1 QueueStatus; a packet, one without an id, one for the local node | `ClaimsExact`: claims on an id equal its holders; `NothingLost`: an admitted packet is on the air, queued, held by a call that will put it back, or withdrawn by its own deadline |
| `tx_markers` | 2 senders, 1 packet, 2 calls, 2 QueueStatus about it or a foreign id, tombstone limit 1, TTLs, fair senders | `SlotAccounting`: slots are not over-counted, and when every call has returned none is claimed and nothing is remembered of an id that is neither queued nor awaited, local packets excepted (section 6); `EarlyAckPinned`: the marker of a packet in the transport is not evicted; `EveryCallReturns`, whatever the device reports |
| `tx_resend` | 2 senders, 2 packets, 3 calls | **violated**: `AckedNotResent`, the first finding |
| `rw_pairs` | 2 ids; either 2 callers with 2 traceroutes each, or a bounded getter beside an admin write, with NAKs and undecodable payloads | `OneOwnerPerId`, `OutcomesAreActive`, `UnscopedUntouched`, `OutcomesComeFromOwnReply`, `GetterCanComplete` |
| `rw_command` | a traceroute and an async request inside a command, fair callers | `NoHandlerAfterCommand`, `ErrorIsReported` |
| `tcp_link` | 2 application threads, 2 calls, 3 sockets, 2 attempts, fair threads | `OneDialer`, `ClosedLinkHasNoSocket`, `NoSocketLeaks`, `OwnershipKept` (the refinement), `EveryThreadEnds` |
| `serial_session` | 2 callers, 1 call each, 2 ports, 2 tries, 1 timer | `CloseIsFinal`: after a close no heartbeat is written and no port is held; `SuccessMeansConfigured`, `EstablishedOnce`, `CallsReturn` |
| `ble_session` | 1 caller with 2 calls, 1 disconnect handler, the worker, 2 clients | `NothingLeftBehind`, `ClosedHasNoClient`, `LiveClientKept`, `EveryThreadEnds` |
| `ble_services` | gate: 2 interfaces, 2 connects each; runner: 2 callers, 3 calls, 3 owners; register: 2 callers, 2 workers; receive: 3 threads, 2 clients, 1 failed start, `auto_reconnect` | `OneLockHolder`, `PairArbitrated`, `NothingLeft`; `OneOwner`, `NoLostFuture`, `StopTrueMeansGone`; `LiveIsTracked`; `ReceiverRemains`: while receiving is wanted, a receive thread runs or somebody is about to start one |
| `ble_manual` | receive: 2 threads, 2 clients, no `auto_reconnect` | **violated**: `ReconnectedReceives`, the second finding |
| `channel_download` | 3 channels, 1 retry, 2 attempts, 2 downloads, 3 answers | `InstalledInOrder`, `ChainUnbroken`, `GetNodeReturns` |
| `channel_transactions` | 4 slots, the URL names a new channel and the administration channel and has LoRa settings, 2 jobs, 2 attempts, 2 downloads, 1 edit | `CacheMatchesDevice` outside `edited` slots, `ReplacementIsWhole` outside `hidden` ones, `AdminSlotUsed` unless `renamed`, `EditsSurvive` |

Each module's `TypeOK` is in no configuration: section 5 says where it is proved.  Of that of
`TxQueue` the types its properties rest on are proved (`ClaimTypes`, `EntryTypes`, `BookTypes`,
`CountTypes`).  That the order lists of its dictionaries enumerate their entries
(`OdWellFormed`) rests on `SelectSeq`, a recursion over a sequence, and is not proved; it held
in every instance above.

### Why the bounds are enough

* TX queue: one slot makes every second RF packet wait; two senders suffice for one
  to pop, send and reconcile the packet of the other, and for a retry of a packet
  whose first send is ambiguous.  A tombstone limit of one makes the second
  acknowledgement prune the first.  Two QueueStatus messages supersede a snapshot.
* Request waits: two ids for up to four requests force reuse; two callers suffice
  for one to draw the id the other has just retired while its replies travel.
* TCP: three sockets let a socket be lost, its replacement overtaken by another, and
  a third published; two attempts exercise both the retry and the exhausted budget.
* Serial: two ports let a connect fail with one and succeed, or race a close, with the
  other; one armed timer beside an unreferenced one is the case the wait of close must
  cover.
* BLE session: two clients are a client and its replacement, so that a callback of the
  first can meet the second; the application's second call is a connect after a close, a
  close during a connect, or a second connect, while the worker supplies the third actor.
* BLE services: two interfaces are a pair to arbitrate, and a second connect of each
  meets what the first has left.  Three owners let a restart replace an owner that a
  third already succeeds.  Two workers let one be cleaned up while another starts.  Three
  receive threads are one that fails, its successor and one more whose start may fail; two
  clients let a recovery meet the client that replaced its own.
* Downloads: with three channels an index has a predecessor and a successor, and three
  answers admit a duplicate beside each loss.
* Transactions: in four slots the administration channel sits in the middle, moves when
  a channel before it is deleted, and is deferred by a replacement; the second job meets
  the cache the first has left.

### Fairness

* TX queue: weak fairness on the steps of each sender (Python schedules runnable
  threads and a transport write returns or raises), strong fairness on `GiveUp`: the
  30 s bound is compared at the top of the loop and a sender that keeps coming round
  finds it passed.  None on the device: it need never answer.
* Request waits: weak fairness on each caller, whose waits have deadlines.  None on
  the mesh or the receive thread.
* TCP: weak fairness on the steps of each application thread, on the I/O of each
  thread and on the reader, because writes make progress within 10 s or raise, a
  connect has a timeout and the waits are bounded.  None on data arriving, on the peer
  dropping a connection or on application calls.  Liveness holds while the platform
  hands out finitely many sockets: a peer that accepts and drops connections for ever
  keeps a reader reconnecting, which is what the code intends.
* Serial: weak fairness on the steps of each caller and of the reader; the retry window
  and the waits are bounded.  None on the device.
* BLE session: weak fairness on connects, closes, handlers and the worker; strong fairness
  on taking the connect lock, which the worker releases between its attempts and sleeps.
  None on links.
* Downloads: weak fairness on the application thread, whose wait has a deadline, and on
  the receive thread.  None on answers.
* Gate, runner, register, receive threads, transactions: safety only.

## 4. Findings

**A packet acknowledged inside `send_impl` can be transmitted again** (`tx_resend`).
The audit (`docs/maintainers/runtime-state-ownership-audit.md:162-165`) says its marker
is pinned until reconciliation.  The pruning honours that, but another sender that
drains the queue pops the marker (`queue_send.py:207-216`); if the first `send_impl`
then raises, the reconciliation finds nothing and puts the packet back.

**An interface without `auto_reconnect` that is connected again may receive nothing**
(`ble_manual`).  The guide (`docs/guides/ble.md:366-368`) offers `auto_reconnect=False` for
"Manual reconnect" and says "On disconnect: call `iface.connect()` on the same instance".
When a failing read is what finds the disconnect, `handle_disconnect` answers false, the
read loop clears `want_receive` (`interfaces/ble/receive_service.py:572`) and ends.  Nothing
sets `want_receive` again, and `connect()` starts no receive thread.

## 5. What is proved

All theorems hold for every value of the constants that satisfies the modules' named
assumptions: any number of threads, packets, ids, sockets, clients, ports, channels.

| Theorem | Module | Along which argument |
|---|---|---|
| `ClaimsAreExact` | `TxQueue_proofs` | `IInv` = the types of the ownership variables, that an idle sender has popped nothing and a calling one has a packet (`Phases`), that holders are finite, and `ClaimsExact`.  `Phases` is needed at `Admit`, which resets what was popped, and finiteness at `Release`, which subtracts a cardinality. |
| `ClaimsAreTyped` | `TxQueue_proofs` | a conjunct of `IInv`; the order and content of the queue are not needed for ownership |
| `SlotsAreAccounted` | `TxQueue_proofs` | `QInv` = `IInv`, `CountInv` (the count itself; a claim counts only against the status it was taken from), `EntryInv` (the queue and each sender's resent packets are complete dictionaries, an id's key holds packets of that id, and a sender's place fixes what it has in hand, `EntryOk`) and `BookInv` (a claimed slot is in somebody's hands; whatever is remembered of a key is queued, in hand, awaited or a local packet's).  At the end nobody has anything in hand, which leaves the property |
| `EarlyAckStaysPinned` | `TxQueue_proofs` | from `QInv`: a packet in the transport is in its sender's popped list, so by `ClaimsExact` its id is claimed and the eviction passes over it (`SendingIsActive`); no marker stands under a private key |
| `NothingIsLost` | `TxQueue_proofs` | `QInv` with `LostInv`: what a loop has in hand it has sent, but for the packet in the transport (`HandsOk`); a private key is the queue's or one sender's (`Private`); an id that is on the air, reported, marked or seen sent by a sender stands for a packet the device has received (`Evidence`); and the property, with *in hand* narrowed to *not sent* (`Kept`), which is what the reconciliation puts back |
| `TypesHold` | `RequestWait_proofs` | `TypeOK` with "a caller past `idle` has begun a call" |
| `OutcomesStayActive` | `RequestWait_proofs` | needs only types: outcomes are recorded under an active id and retiring the id takes them along, in one section |
| `OwnersStayDistinct`, `ScopesStayWaits`, `NoCrossTalk` | `RequestWait_proofs` | `Ownership`: owners differ, a registered handler reserves its id, scopes are the waits, and every reply under way belongs to the owner of its id or its id is quarantined (`RepliesAttributed`) |
| `UnscopedStaysUntouched` | `RequestWait_proofs` | `Scoping` = `Ownership`, and that the id of every handler (`HandlersKnown`) and of the reply under way (`ReplyKnown`) is an active scope of its owner or in quarantine, so a reply is filed under its id or dropped |
| `NoHandlerOutlivesCommand` | `RequestWait_proofs` | `CommandInv`, for each command: a handler it owns is that of its current request, which is past its registration (`Handled`), a reply under way to that request finds it short of the clean-up unless the scope is closed (`Delivered`), and the scope is closed before the clean-up (`ClosedFirst`) |
| `GettersStayCompletable` | `RequestWait_proofs` | `GetterInv`: no request in progress has a quarantined id; the handler of a scoped request, and a reply in hand for one, has an id that a scoped wait owns or that is quarantined (`Held`), or a re-armed handler outlived its quarantine and no reply can find it (`Quiet`), so a traceroute re-arms over no getter; and a getter without a result has its handler under its id or its reply in hand (`Completable`) |
| `ErrorsStayUntilReported` | `RequestWait_proofs` | only a scope with the same packet id, or the wait's own conclusion, removes its error; ids differ by `IdsDiffer`, or by `Ownership` where `ScopedOnly` holds |
| `TypesHold` | `TcpLink_proofs` | `TypeInv`, in four groups of variables |
| `OneDialerAtATime` | `TcpLink_proofs` | `Dialing`: an application thread that dials holds the attempt lock, the reader has its flag set, and the lock is granted only while the flag is clear |
| `PublishedNeverClosed`, `EverySocketIsAccountedFor`, `LinkImplementsOwnership` | `TcpLink_proofs` | `HandleInv`: an unused handle is nobody's, an offered one belongs to one thread and was never published, a withdrawn one is in the hands of exactly one thread about to close it |
| `ClosedLinkIsBare` | `TcpLink_proofs` | `PendingInv`: while the shutdown intent stands and a socket is published, a `close()` is still going to take it; its second alternative covers `GiveUp`, which sets the intent with no close under way |
| `NothingStaysHeld` | `TcpLink_proofs` | `HeldInv`: `inProgress` stands exactly from the plan to the `finally` clause, whatever the attempt passes through (`Attempting`); the attempt lock and the mark of a close in progress stand for one thread that is about to release them (`Releases`, `Shutting`); and a caller that retires a handle goes on in its own call (`OwnCall`), so it cannot leave a close half way |
| `TypesHold` | `SerialSession_proofs` | each action keeps `TypeOK` |
| `NoLateHeartbeat` | `SerialSession_proofs` | `QuietInv`: a close disowns the timer in the section that sets `closing`, and a late timer is counted in flight only while `closing` is clear |
| `EventsAlternate`, `SuccessIsThisReader` | `SerialSession_proofs` | `EventInv`: the reader's place fixes `isConnected`, the last event and that the configuration is confirmed; `LaunchInv`: a caller about to launch a reader holds the lock and no other reader lives |
| `CloseLeavesNothing` | `SerialSession_proofs` | `StreamInv`: while the shutdown intent stands, a published port is in the hands of a call that will drop it |
| `CloseEndsTheSession` | `SerialSession_proofs` | `CloseIsFinal`, the conjunction of the two before |
| `NothingStaysHeld` | `SerialSession_proofs` | `HeldByACall` is inductive beside `LaunchInv`: the lock and the mark are each released by the step that follows, whether the launch succeeds, is refused or fails |
| `NothingAfterClose` | `BleSession_proofs` | `CloseInv`: a caller about to detach has closed the interface, and adoption looks at the closed flag in the section that installs |
| `OnlyItsOwnDisconnect` | `BleSession_proofs` | `LinksInv`: a link that has gone never comes up again and callbacks are about links that have gone; `PlanInv`: so is what a handler resolves |
| `NothingIsLeft` | `BleSession_proofs` | a link that is up is the interface's or in the hands of a connect about to adopt or close it (`LinkHeld`); a claimed publication is held by the thread that gives it back (`InflightHeld`); while a provisional flag stands, a transaction, the connect that owns the client or a `close()` is still going to clear it (`FlagsOwed`).  The last is inductive with four facts: the client stays pending while its connect is under way (`OwnerIsPending`), so no transaction runs beside such a connect (`TransactionIsAlone`) and each finds the flags clear (`SnapshotIsClean`), so restoring its snapshot moves no other's epoch (`SessionIsCurrent`).  All rest on clients having one connect each (`MineInv`) |
| `NothingStaysHeld` | `BleSession_proofs` | the same invariant (`LeftInv`), of which `HeldByAThread` names what a thread may wait for at any moment, and that the worker's reference stands for a worker that runs (`WorkerRuns`) |
| `TypesHold` | `BleSession_proofs` | `TypeOK` in groups of variables (`SessionTypes`, `FlagTypes`, `SnapTypes`, `LocalTypes`, `PlanTypes`), each kept by the steps of a connect, a handler and a close (`ConnectFlags`, `ConnectSession`, `ConnectLocals`, `HandlerTypes`, `CloseTypes`); where the threads are comes from `PlaceInv` |
| `LockIsOne` | `BleServices_proofs` | `LockInv`: the registry's entry is the lock object of everyone who has one in hand, and counts them, so an entry with users is not replaced |
| `GateIsCleared` | `BleServices_proofs` | `ClaimInv` and `EntryInv`: whoever is named in a claim still has a step to come that takes it back or is connected; an entry has users or claims |
| `OneOfTwoIsRefused` | `BleServices_proofs` | `PairInv`: under the hypothesis of `PairArbitrated`, which once lost is lost for good (`PairBack`), an interface that is up is the only one and nobody else is past the second question (`OnlyUp`); as long as nobody else has dialed it keeps its claim, provisional up to its mark and final from then on (`Claimed`), and no probe to come finds it down (`UpInv`), so whoever asks within the lock is told of it (`ToldElsewhere`) |
| `RunnerSettles`, `OneLoop`, `NoFutureIsLost`, `StopWaits` | `BleServices_proofs` | `RunnerInv`: whoever lives or may still come up is on record, and an interrupted launch counts as starting (`Recorded`); what somebody has captured was created, and a captured loop published (`Known`); once a stop is requested no future is open until there is a new owner (`Settled`); a stop under way has its request standing or its captured thread gone (`Stopping`).  A thread is created only where none on record lives or may come up (`Vacant`), which keeps `Recorded`; a loop that did not crash drains only after a request, which keeps `Settled` |
| `LiveStaysTracked` | `BleServices_proofs` | `ThreadsInv`: a start under way is recorded in the section that begins it, by the caller alone (`StartsRecorded`); one that was interrupted is starting or indeterminate and stays tracked (`LaunchesKept`); so what a clean-up takes off the register is known not to run |
| `OneReceives` | `BleServices_proofs` | `ReceiveInv`: while the interface is open with `auto_reconnect` and no request went unheard (`Attended`, which is never regained once lost), only the thread on record is new or lives, and it ends only while the helper waits for it (`OneReceiver`); a starter past its decision is alone with its start (`Starting`); the constructor's start ends before there is a client (`FirstStart`); the helper comes to rest only when somebody lives (`Helping`) |
| `GateTypesHold`, `RunnerTypesHold`, `RegisterTypesHold`, `ReceiveTypesHold` | `BleServices_proofs` | the types of what the inductive invariants above leave open, each kept by every action; the rest of `TypeOK` from `LockInv`, `RunnerInv` and `ThreadsInv` |
| `ServicesRunAlone` | `BleServices_proofs` | each disjunct of the composed step is a step of one component and a stutter of the others |
| `TypesHold` | `ChannelDownload_proofs` | `TypeInv` = `ListInv` (the lists, their lengths and that the partial list's indices are `Distinct`) and `ControlInv` |
| `ListsInstalledInOrder` | `ChannelDownload_proofs` | `OrderInv`: while no callback overlaps a request, the lists are in order (`CalmInv`) and the receive thread's place fixes how the outstanding index, its own index and the partial list's length hang together (`ReceiverInv`) |
| `RequestsGoOn` | `ChannelDownload_proofs` | `ChainInv`: while `get_node` waits for a download that has not failed, the receive thread's place fixes where the next request comes from: idle, one for the outstanding index is on the way; at the pending check, the answer in hand is the outstanding one or such a request is; past it, its step sends or fails.  Rests on `OrderInv`: the index after a list in order is not in it (`NextIsUnknown`), so `append` always makes progress and a request follows for the index it makes outstanding |
| `RoundsRunOut` | `ChannelDownload_proofs` | the variant `Budget`, the attempts of every channel still missing and those left for the present number: no step of a call increases it, and each round that asks again decreases it.  `LookInv`: the number `get_node` last looked at does not exceed the length of the partial list, because the list is emptied only when that number is 0 |
| `TypesHold` | `ChannelTransactions_proofs` | `TypeInv`: `TypeOK` with the places each kind of transaction has, and that a plan's list is not newer than the cached one |
| `EditsAreKept` | `ChannelTransactions_proofs` | `TypeInv`: cached and planned tables are functions on the slots and references grow, so a commit's guard, that the list is the one planned from, excludes a slot whose content differs from it |
| `CacheAgrees`, `ReplacementSucceedsWhole` | `ChannelTransactions_proofs` | `AgreeInv`: the cached list agrees with the device (`Agree`: outside `edited` the same, and while nothing is renamed an admin channel in both or in neither) but for the slot that a replacement has written and not committed (`CacheInv`, `WrittenInv`); for a deletion or an addition the device has the staged table in what has been written and agrees with the list it was planned from in the rest (`PartlyInv`), so its commit agrees; the device has what a replacement has not left, also when a resumed attempt computes that from the reloaded list, but for `job.hidden` (`WholeInv`); a single write's list is the cached one unless that has been replaced (`WriteInv`); the LoRa configuration likewise (`LoraInv`) |
| `WritesReachTheAdmin` | `ChannelTransactions_proofs` | `AdminInv`, beside `AgreeInv`: while the list is neither stale nor renamed (`Named`), the channel that a single write looks up in it is the device's (`SingleInv`, `SingleCarried`); a deletion's remaining slots are closed upwards and fix which admin slot it uses (`DeleteInv`); an addition leaves an admin channel alone or brings a first one last (`AddInv`); a replacement writes through the previous admin channel or the new one, and an admin channel in any other slot comes after the previous one, which is written last (`OrderedAdmins`), so the first admin channel of a reloaded list is one of the two (`ReplaceInv`) |

`NothingIsLost` assumes `DistinctIds`: two packets with an id have different ids, and none
has an id of `ForeignIds`.  A call may give another packet the id of one whose transport
write raised; the first is then replaced, as the caller asked, and is neither queued nor
known to have arrived.

`OwnersStayDistinct`, `ScopesStayWaits`, `NoCrossTalk` and `UnscopedStaysUntouched` assume
`ScopedOnly`: every request has a scoped wait and none is inside a command.  The assumption
is needed and is a fact about the code, not about the proof: the id of an async request or
of a getter stops being reserved when its one-shot handler is popped, a command's clean-up
retires an id a second time, and a stale reply to an async request can reach a traceroute
between the registration of its handler and the activation of its wait.  What holds with
those in play is what `OutcomesStayActive`, `NoHandlerOutlivesCommand`,
`GettersStayCompletable` and `ErrorsStayUntilReported` say, which do without it.

`GettersStayCompletable` and the first part of `ErrorsStayUntilReported` assume `IdsDiffer`
in every state: two requests in progress never have one packet id.  The low ten bits of an
id are a counter (`mesh_interface.py:1721-1735`), so this is what the code keeps as long as
fewer than 1024 ids are drawn during one request.  The theorems cover callers of every kind, inside commands
and outside; without the assumption a getter can be stranded (section 6).  `rw_pairs` checks
`GetterCanComplete` without it, on a getter with one request.

`AdminSlotUsed` leaves out the deletion of the first of several admin channels, and what is
written after the application has renamed a cached channel from or to "admin" (section 6).
The theorems of `BleServices_proofs` about the runner and the receive threads assume
`ServicesAssumption`: the bounds on threads are numbers, and the constructor's thread, the
restart helper and the receive threads are different.
The least slot of a table and the next
item of a plan exist because the natural numbers are well-ordered (`LeastNatural`, from the
library's `WFMin`).

Model-checked only is liveness, which TLAPS does not reach here: `EveryCallReturns`,
`ErrorIsReported`, `EveryThreadEnds` (of both modules), `CallsReturn`, `GetNodeReturns`.
Their safety halves are theorems for all but the first: the locks and marks a thread could
wait for always have a thread that lets go of them (`NothingStaysHeld`, of `TcpLink_proofs`,
`SerialSession_proofs` and `BleSession_proofs`), a recorded error stays until it is reported
(`ErrorsStayUntilReported`), and a call of `get_node` runs out of rounds (`RoundsRunOut`).
What TLC adds is that under the fairness of section 3 the steps these speak of are taken.
Every other property of the runs is a theorem, some under the assumptions just named.

## 6. What the code does not promise

The properties in the runs hold.  The following do not, or are out of the models' reach.
Where a module states the stronger property, its name is given; no run checks it.
Paths are under `src/meshtastic/` unless they begin with `docs/`.

### Seen in the models

* **TX queue.**  `_requeue_capacity_exempt_packet_locked` (`queue_send.py:437-457`) puts a
  local packet in front of a marker that stands under its own key, and the marker then
  overwrites it and keeps its tombstone; when
  `_prune_unexpected_ack_tombstones_locked` evicts that later (661-664) it pops the queue
  entry without `_forget_capacity_state_locked`, so `_packet_uses_capacity_by_id` keeps the
  id of a local packet for good.  `SlotAccounting` excepts local packets
  (`TxQueue!NothingRemembered` does not).
* **Request waits.**  A callback popped before a bounded getter times out files its NAK
  afterwards (`node.py:1997`; `docs/internals/admin-response-contracts.md:239-242` says
  the state is retired on every exit; `RequestWait!GetterLeavesNothing`).  A handler
  registered without `onResponseAckPermitted` takes a bare ACK, and the data that
  follows finds none (`mesh_interface.py:912-913`, `request_wait.py:810`;
  `RequestWait!AckOnlyNeverTriggers`).  The clean-up of a command that comes more than a
  quarantine (60 s) after its scope closed can retire an id that a getter of another
  thread has drawn since; that getter then waits for its timeout.  The id of
  a getter is free once its handler is popped: an admin write that draws it before an
  undecodable reply has been filed (`request_wait.py:820`) takes that error for its own.  This
  is what `OutcomesComeFromOwnReply` leaves out.  For the same reason two bounded getters can
  share an id: when the reply of the first has popped its handler and the second registers
  under the id, a send of the first that then raises drops the handler by id
  (`send_pipeline.py:514`), and the second waits for its timeout.
  One getter is enough when it issues two requests: a send that raises after the packet left
  keeps no quarantine, so its late reply can pop the handler of an admin write that has drawn
  the id and not yet activated its wait; the next request of the getter registers under the
  same id, and the end of the admin write retires it.  Each case of a shared id takes one that
  repeats during a request: 1024 draws of `_generate_packet_id`.
* **TCP.**  A `connect()` between whose two steps a whole `close()` fits undoes it: the
  shutdown flags are cleared and the reader reconnects (`tcp_interface.py:443` and
  `:255-256`; `stream_interface.py:523-525` says the connect lock prevents it;
  `TcpLink!ShutdownIntentSurvives`).
* **BLE session.**  The state can stay *connected* without a client when a disconnect
  falls between the commit and the publication (`lifecycle_ownership_runtime.py:509`,
  `:645-650`; `BleSession!StateConverges`).  A publication that raced a disconnect is not
  always taken back (`:932`, `:994-996`; `BleSession!RacedPublicationIsTakenBack`), and
  `isConnected` stays set when the first heartbeat raises.  A replacement whose first
  heartbeat raises keeps `client_replacement_pending` (`:966-972` clears it only for a
  completed publication), which `NothingLeftBehind` excepts: it takes two callers and two
  handlers in overlapping calls, so the run does not reach it.  A disconnect handler that has
  passed its checks releases the claim and clears `isConnected` of a successor that
  connected meanwhile (`lifecycle_disconnect_runtime.py:584`).  A disconnect that finds the
  worker past its loop but before `on_exit` schedules nothing (`reconnection.py:230`).
  Restoring a session after a failed replacement reuses an epoch number.
* **BLE gate.**  A probe's answer can be overtaken: with a claim pruned by age or with
  three interfaces two can be connected to one address (`gating.py:841`, `:408`;
  `docs/guides/ble.md:87-90` says the gate prevents it; `BleGate!OneLive`).  For two interfaces
  whose connects both end, `PairArbitrated` is what holds.
* **BLE runner.**  A stop between the publication of the loop (`runner.py:344`) and
  `run_forever` (392) never reaches the loop: `is_running()` is false at 660, so it is not
  told, and neither the readiness callback (375-382) nor the keep-alive ends it.  The loop
  runs on, and later starts wait for a readiness that does not come.  The docstring (631)
  says "Requests shutdown of the background asyncio loop", and the audit
  (`docs/maintainers/runtime-state-ownership-audit.md:46`) that a starter owns its thread
  until readiness or failure (`BleRunner!StoppedLoopEnds`, under `FairSpec`).  Futures on a loop
  that crashed may never complete, which `NoLostFuture` excepts; a submission while a
  crashed loop is being torn down fails although the class docstring promises a restart on
  next use.
* **BLE thread register.**  A second `start` of one worker whose first start was
  interrupted unregisters it although it may still come up.
* **BLE receive.**  Some requests for a successor go unheard, which `unheard` excepts in
  `ReceiverRemains`: while the helper's in-flight flag is set it takes no other
  (`lifecycle_receive_runtime.py:123`), a start that is pending is trusted to succeed, and a
  helper that cannot be launched, or a successor whose native start raises in the ending
  thread, is not retried.  Recovery disconnects whatever client is
  current (`receive_service.py:922`), which can be one that has connected since.  A disconnect
  handler that raises once more inside recovery leaves no receive thread.
* **Serial.**  `close()` forgets a port that a concurrent connect has just opened
  (`serial_interface.py:484`; `SerialSession!NoPortDropped`).  After a reboot or a lost stream
  the old heartbeat timer is not cancelled and the next session has two chains
  (`mesh_interface.py:1788`).  A connection that fails before it was announced is
  announced as lost.
* **Channel download.**  A callback that runs while the application makes a request can
  shift the list and move the outstanding index
  (`node_runtime/response_runtime.py:241`), which is what `overlap` excepts in
  `InstalledInOrder` and `ChainUnbroken`.
  `wait_for_config` returns true without channels when nothing failed
  (`node_runtime/channel_request_runtime.py:135`), so `get_node` can return although its
  docstring (`mesh_interface_runtime/node_view.py:526`) promises an error when retrieval
  repeatedly fails.  A stale
  duplicate of a partial answer can end a chain until its timeout.
* **Channel transactions.**  A LoRa write that raises although the device applied it leaves
  `localConfig.lora` as it was.  A replacement that fails while the link stays up
  invalidates the cache and nothing reloads it (`seturl/coordinator.py:252`).  A
  configuration download that a transaction overtakes installs a stale cache, after which a
  resumed replacement can report success with a slot missing (`mesh_interface.py:1953`); this is
  what `stale` excepts.  A single write is never committed into a list replaced meanwhile.
  A deletion knows one admin slot before and one after
  (`transport_runtime/channel.py:222-262`).  When it deletes the first of two admin channels
  that are not neighbours, it writes, once that slot is rewritten, through the one the second
  is yet to move to.  Two come about by `writeChannel`, or by a replacement that fails between
  the new admin channel and the slot of the previous one; `AdminSlotUsed` leaves this out.
  The channel lookups return live objects for edits that `writeChannel` is to send
  (`node.py:849`).  Once the application has renamed a cached channel from or to "admin", the
  write looks its admin slot up in that list (`transport_runtime/admin.py:22`,
  `channel_lookup_runtime.py:50`) and leaves through a slot that is not the device's admin
  channel: renaming the admin channel sends the write through slot 0, naming an earlier
  channel "admin" sends it through that one.  `renamed` excepts this in `AdminSlotUsed`; with
  that conjunct dropped, TLC finds a rename and a write that violate it.
  An edit between a reload and the computation of the remaining writes that makes a slot
  equal to what the URL asks for hides the slot (`seturl/helpers.py:48`), and the replacement
  reports success without it on the device; `job.hidden` excepts it in `ReplacementIsWhole`.

### Not reached by a property

| Where | What |
|---|---|
| `mesh_interface_runtime/flows.py:240` | outside a command a traceroute callback re-arms its handler after the wait has retired; only the handler's TTL removes it |
| `mesh_interface_runtime/request_wait.py:559` | a legacy waiter retires its attribute without an id, with every scoped wait of it |
| `mesh_interface_runtime/request_wait.py:612` | an acknowledgment recorded after the last poll is reported as a timeout |
| `node_runtime/admin_wait.py:70` | an admin write inside a wait files its NAK first without a request id; `UnscopedUntouched` leaves out the attributes of admin writes |
| `tcp_interface.py:651` | a reader-thread reconnect clears the queue without the slot and claim bookkeeping beside it |
| `stream_interface.py:637` | bytes of a frame cut off by the old connection stay in the frame buffer |
| `mesh_interface.py:1753` | the publishing thread delivers established and lost later, when the state they announce may have changed |
| `interfaces/ble/lifecycle_disconnect_runtime.py:618` | a second disconnect that finds the lock held returns, whatever its client |
| `interfaces/ble/lifecycle_shutdown_runtime.py:320` | a management operation outlives the bounded wait of shutdown |
| `interfaces/ble/discovery.py:547` | the cached discovery client is probed without its lock |
| `key_verification.py:238` | a left-over notification of the right kind answers a new handshake |

## 7. Not modelled

Notifications and management operations of the BLE interface: bookkeeping of one client at
a time beside `BleSession`, whose dial and finish outcomes stand for theirs.  The settings, owner and contact writes are each one
request of the shape `RequestWait` models.  Formatting, parsing and argument handling (CLI,
channel URLs, node tables, payload helpers) have no protocol state.  Bleak, sockets, serial
ports and the operating system appear only through the outcomes the code distinguishes.
Generated protobuf code, tests, examples, build scripts and laboratory tools (power
supplies, structured logs) are outside the runtime.  Most of the repository's lines belong
to these parts: the modules cover about a tenth of the package, the part where threads
share state.  `PROJECT.json` has an entry for each part with its reason.

## 8. Running

    tlc -workers 2 -config MC_TxQueue_rf.cfg MC_TxQueue
    tlapm TcpLink_proofs.tla

The longest runs are `tx_markers`, `rw_pairs`, `tcp_link`, `ble_session` and `ble_services`, at
two to four minutes with two workers; the others take at most little more than one.
