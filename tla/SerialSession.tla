--------------------------- MODULE SerialSession ---------------------------
(***************************************************************************)
(* A SerialInterface: the port with its retried connect and its close, the *)
(* reader thread, and the session MeshInterface keeps above it, which is   *)
(* isConnected, the heartbeat timers and the events of the connection.     *)
(*                                                                         *)
(* An action is one section of _connect_lock or _heartbeat_lock, one       *)
(* blocking call on the port, or one unlocked step between them.  Payload  *)
(* is left out: what the device sends completes the configuration, reports *)
(* a reboot or does neither.                                               *)
(***************************************************************************)
EXTENDS Naturals

CONSTANTS
    Callers,    \* application threads
    Ports,      \* port objects pyserial may open; each is opened once
    First,      \* the port object the constructor opened
    None,       \* no port, no thread
    MaxCalls,   \* bound: calls of each application thread
    MaxTries,   \* SERIAL_CONNECT_MAX_ATTEMPTS
    MaxBeats    \* bound: heartbeats sent at once

ASSUME SerialAssumption ==
    /\ First \in Ports /\ None \notin Ports \cup Callers
    /\ MaxCalls \in Nat /\ MaxTries \in Nat \ {0} /\ MaxBeats \in Nat

VARIABLES
    port,           \* each port object: unused, open, dead (device gone) or closed
    stream,         \* self.stream
    lock,           \* the caller that holds _connect_lock across several steps
    wantExit,       \* _wantExit
    busy,           \* _stream_close_in_progress
    closing,        \* _closing
    rx,             \* the reader thread: where it is
    rebooting,      \* whether the reader is in the branch of a reboot message
    asked,          \* whether the device has been asked for its configuration
    isConnected,    \* isConnected
    timer,          \* heartbeatTimer: none, armed, or fired and about to run
    loose,          \* timers that will run although heartbeatTimer is another or none
    inflight,       \* _heartbeat_inflight
    pc,             \* each caller: its place in connect() or close()
    retrying,       \* each caller: whether its close() is that of a failed attempt it may retry
    tries,          \* each caller: attempts of its connect()
    calls,          \* each caller: calls begun
    event,          \* history: the connection event queued last
    confirmed       \* history: whether this reader has seen its configuration complete

portVars == <<port, stream, lock>>
flagVars == <<wantExit, busy, closing>>
readerVars == <<rx, rebooting, asked, confirmed>>
beatVars == <<timer, loose, inflight>>
sessionVars == <<isConnected, event>>
callVars == <<pc, retrying, tries, calls>>
vars == <<portVars, flagVars, readerVars, beatVars, sessionVars, callVars>>

Places == {"idle", "connect", "launch", "ask", "wait", "failed", "retry",
           "close", "timers", "quiesce", "shut", "join", "forget"}
ReaderPlaces == {"dead", "top", "read", "mark", "beat", "sending", "publish", "lost", "drop"}

TypeOK ==
    /\ port \in [Ports -> {"unused", "open", "dead", "closed"}]
    /\ stream \in Ports \cup {None} /\ lock \in Callers \cup {None}
    /\ {wantExit, busy, closing, rebooting, asked, isConnected, confirmed} \subseteq BOOLEAN
    /\ rx \in ReaderPlaces
    /\ timer \in {"none", "armed", "fired"} /\ loose \in Nat /\ inflight \in Nat
    /\ pc \in [Callers -> Places] /\ retrying \in [Callers -> BOOLEAN]
    /\ tries \in [Callers -> 0..MaxTries] /\ calls \in [Callers -> 0..MaxCalls]
    /\ event \in {"none", "established", "lost"}

\* SerialInterface(connectNow=False)
Init ==
    /\ port = [p \in Ports |-> IF p = First THEN "open" ELSE "unused"]
    /\ stream = First /\ lock = None
    /\ wantExit = FALSE /\ busy = FALSE /\ closing = FALSE
    /\ rx = "dead" /\ rebooting = FALSE /\ asked = FALSE
    /\ isConnected = FALSE /\ event = "none" /\ confirmed = FALSE
    /\ timer = "none" /\ loose = 0 /\ inflight = 0
    /\ pc = [c \in Callers |-> "idle"]
    /\ retrying = [c \in Callers |-> FALSE]
    /\ tries = [c \in Callers |-> 0] /\ calls = [c \in Callers |-> 0]

At(c, l) == pc[c] = l
Goto(c, l) == pc' = [pc EXCEPT ![c] = l]

IsOpen(p) == p # None /\ port[p] \in {"open", "dead"}
Writable(p) == p # None /\ port[p] = "open"

\* _close_stream_safely
Closed(p) == [q \in Ports |-> IF q = p THEN "closed" ELSE port[q]]

----------------------------------------------------------------------------
(* connect()                                                               *)

Connect(c) ==
    /\ At(c, "idle") /\ calls[c] < MaxCalls
    /\ Goto(c, "connect")
    /\ tries' = [tries EXCEPT ![c] = 1] /\ calls' = [calls EXCEPT ![c] = @ + 1]
    /\ UNCHANGED <<portVars, flagVars, readerVars, beatVars, sessionVars, retrying>>

\* While a close() is in progress connect() returns silently.
Skip(c) ==
    /\ At(c, "connect") /\ lock = None /\ busy
    /\ Goto(c, "idle")
    /\ UNCHANGED <<portVars, flagVars, readerVars, beatVars, sessionVars, retrying, tries, calls>>

\* The previous reader is still alive: not retryable.
Refuse(c) ==
    /\ At(c, "connect") /\ lock = None /\ ~busy /\ rx # "dead"
    /\ Goto(c, "idle")
    /\ UNCHANGED <<portVars, flagVars, readerVars, beatVars, sessionVars, retrying, tries, calls>>

\* _ensure_stream_for_connect_locked; the lock is held on.
Open(c) ==
    /\ At(c, "connect") /\ lock = None /\ ~busy /\ rx = "dead"
    /\ IF IsOpen(stream) THEN UNCHANGED <<port, stream>>
       ELSE \E p \in Ports :
                /\ port[p] = "unused"
                /\ port' = [port EXCEPT ![p] = "open"] /\ stream' = p
    /\ lock' = c
    /\ Goto(c, "launch")
    /\ UNCHANGED <<flagVars, readerVars, beatVars, sessionVars, retrying, tries, calls>>

OpenFails(c) ==
    /\ At(c, "connect") /\ lock = None /\ ~busy /\ rx = "dead" /\ ~IsOpen(stream)
    /\ Goto(c, "failed")
    /\ UNCHANGED <<portVars, flagVars, readerVars, beatVars, sessionVars, retrying, tries, calls>>

\* A close() that ends now has dropped the stream just opened: not retryable.
LaunchRefused(c) ==
    /\ At(c, "launch") /\ stream = None
    /\ lock' = None
    /\ Goto(c, "idle")
    /\ UNCHANGED <<port, stream, flagVars, readerVars, beatVars, sessionVars, retrying, tries, calls>>

\* The flags, the wake-up bytes, and the new reader.
Launch(c) ==
    /\ At(c, "launch")
    /\ wantExit' = FALSE /\ closing' = FALSE
    /\ lock' = None
    /\ IF stream = None \/ Writable(stream)
       THEN /\ rx' = "top" /\ rebooting' = FALSE /\ asked' = FALSE /\ confirmed' = FALSE
            /\ Goto(c, "ask")
       ELSE /\ UNCHANGED readerVars
            /\ Goto(c, "failed")
    /\ UNCHANGED <<port, stream, busy, beatVars, sessionVars, retrying, tries, calls>>

\* _start_config
Ask(c) ==
    /\ At(c, "ask")
    /\ IF Writable(stream) THEN asked' = TRUE /\ Goto(c, "wait") /\ UNCHANGED retrying
       ELSE /\ Goto(c, "close") /\ retrying' = [retrying EXCEPT ![c] = TRUE]
            /\ UNCHANGED asked
    /\ UNCHANGED <<portVars, flagVars, rx, rebooting, confirmed, beatVars, sessionVars, tries, calls>>

\* _wait_connected
Succeed(c) ==
    /\ At(c, "wait") /\ isConnected
    /\ Goto(c, "idle")
    /\ UNCHANGED <<portVars, flagVars, readerVars, beatVars, sessionVars, retrying, tries, calls>>

\* A close() seen by the wait is not retried; a lost stream and the time-out are.
WaitFails(c) ==
    /\ At(c, "wait") /\ ~isConnected
    /\ Goto(c, "close")
    /\ retrying' = [retrying EXCEPT ![c] = ~wantExit]
    /\ UNCHANGED <<portVars, flagVars, readerVars, beatVars, sessionVars, tries, calls>>

\* Attempts, or the retry window, are used up.
Exhausted(c) ==
    /\ At(c, "failed")
    /\ Goto(c, "idle")
    /\ UNCHANGED <<portVars, flagVars, readerVars, beatVars, sessionVars, retrying, tries, calls>>

Retry(c) ==
    /\ At(c, "failed") /\ lock = None /\ tries[c] < MaxTries
    /\ tries' = [tries EXCEPT ![c] = @ + 1]
    /\ port' = Closed(stream) /\ stream' = None
    /\ Goto(c, "connect")
    /\ UNCHANGED <<lock, flagVars, readerVars, beatVars, sessionVars, retrying, calls>>

----------------------------------------------------------------------------
(* close(), by the application or after a failed attempt.                  *)

Close(c) ==
    /\ At(c, "idle") /\ calls[c] < MaxCalls
    /\ Goto(c, "close")
    /\ calls' = [calls EXCEPT ![c] = @ + 1] /\ retrying' = [retrying EXCEPT ![c] = FALSE]
    /\ UNCHANGED <<portVars, flagVars, readerVars, beatVars, sessionVars, tries>>

CloseBegin(c) ==
    /\ At(c, "close") /\ lock = None
    /\ IF busy THEN Goto(c, "join") /\ UNCHANGED <<busy, wantExit>>
       ELSE busy' = TRUE /\ wantExit' = TRUE /\ Goto(c, "timers")
    /\ UNCHANGED <<portVars, closing, readerVars, beatVars, sessionVars, retrying, tries, calls>>

\* MeshInterface.close: a timer that has fired already can no longer be cancelled.
Timers(c) ==
    /\ At(c, "timers")
    /\ IF closing THEN Goto(c, "shut") /\ UNCHANGED <<closing, timer, loose>>
       ELSE /\ closing' = TRUE
            /\ timer' = "none" /\ loose' = IF timer = "fired" THEN loose + 1 ELSE loose
            /\ Goto(c, "quiesce")
    /\ UNCHANGED <<portVars, wantExit, busy, readerVars, inflight, sessionVars, retrying, tries, calls>>

\* Mutant: close() does not wait for a heartbeat that is being sent.
QuiesceAtOnce(c) ==
    /\ At(c, "quiesce")
    /\ Goto(c, "shut")
    /\ UNCHANGED <<portVars, flagVars, readerVars, beatVars, sessionVars, retrying, tries, calls>>

\* The wait for heartbeats in flight, and the disconnect message, whose failure is suppressed.
Quiesce(c) ==
    /\ At(c, "quiesce") /\ inflight = 0
    /\ Goto(c, "shut")
    /\ UNCHANGED <<portVars, flagVars, readerVars, beatVars, sessionVars, retrying, tries, calls>>

Shut(c) ==
    /\ At(c, "shut") /\ lock = None
    /\ port' = Closed(stream) /\ stream' = None
    /\ busy' = FALSE
    /\ Goto(c, "join")
    /\ UNCHANGED <<lock, wantExit, closing, readerVars, beatVars, sessionVars, retrying, tries, calls>>

\* The join of the reader is bounded: it ends either way.
Join(c) ==
    /\ At(c, "join")
    /\ Goto(c, "forget")
    /\ UNCHANGED <<portVars, flagVars, readerVars, beatVars, sessionVars, retrying, tries, calls>>

\* SerialInterface.close drops the stream without the lock.
Forget(c) ==
    /\ At(c, "forget")
    /\ stream' = None
    /\ Goto(c, IF retrying[c] THEN "failed" ELSE "idle")
    /\ UNCHANGED <<port, lock, flagVars, readerVars, beatVars, sessionVars, retrying, tries, calls>>

----------------------------------------------------------------------------
(* The reader thread.                                                      *)

\* The loop condition.
Top ==
    /\ rx = "top"
    /\ rx' = IF wantExit THEN "lost" ELSE "read"
    /\ UNCHANGED <<portVars, flagVars, rebooting, asked, confirmed, beatVars, sessionVars, callVars>>

\* No byte, or one that completes no message of interest.
ReadNothing ==
    /\ rx = "read" /\ Writable(stream)
    /\ rx' = "top"
    /\ UNCHANGED <<portVars, flagVars, rebooting, asked, confirmed, beatVars, sessionVars, callVars>>

\* The stream has gone, or its device has and the read is not retried any more.
ReadFails ==
    /\ rx = "read" /\ ~Writable(stream)
    /\ rx' = "lost"
    /\ UNCHANGED <<portVars, flagVars, rebooting, asked, confirmed, beatVars, sessionVars, callVars>>

\* _handle_config_complete, for the configuration that was asked for.
ConfigComplete ==
    /\ rx = "read" /\ Writable(stream) /\ asked
    /\ rx' = "mark" /\ confirmed' = TRUE
    /\ UNCHANGED <<portVars, flagVars, rebooting, asked, beatVars, sessionVars, callVars>>

\* restart_config_after_reboot; its _start_config then finds the stream closed.
Reboot ==
    /\ rx = "read" /\ Writable(stream)
    /\ rx' = "lost" /\ rebooting' = TRUE
    /\ UNCHANGED <<portVars, flagVars, asked, confirmed, beatVars, sessionVars, callVars>>

\* Mutant: every completed configuration counts as a new connection.
MarkAgain ==
    /\ rx = "mark"
    /\ rx' = IF closing THEN "top" ELSE "beat"
    /\ isConnected' = (isConnected \/ ~closing)
    /\ UNCHANGED <<portVars, flagVars, rebooting, asked, confirmed, beatVars, event, callVars>>

\* MeshInterface._connected
Mark ==
    /\ rx = "mark"
    /\ rx' = IF closing \/ isConnected THEN "top" ELSE "beat"
    /\ isConnected' = (isConnected \/ ~closing)
    /\ UNCHANGED <<portVars, flagVars, rebooting, asked, confirmed, beatVars, event, callVars>>

\* The section of a heartbeat callback that arms the next timer; a timer it replaces still runs.
Armed(others) ==
    /\ timer' = "armed"
    /\ loose' = IF timer = "none" THEN others ELSE others + 1
    /\ inflight' = inflight + 1

FirstBeat ==
    /\ rx = "beat"
    /\ IF closing THEN rx' = "publish" /\ UNCHANGED beatVars
       ELSE rx' = "sending" /\ Armed(loose)
    /\ UNCHANGED <<portVars, flagVars, rebooting, asked, confirmed, sessionVars, callVars>>

\* A send that raises ends _connected before the event is published.
FirstBeatSent ==
    /\ rx = "sending"
    /\ inflight' = inflight - 1
    /\ rx' = IF Writable(stream) THEN "publish" ELSE "top"
    /\ UNCHANGED <<portVars, flagVars, rebooting, asked, confirmed, timer, loose, sessionVars, callVars>>

Publish ==
    /\ rx = "publish"
    /\ rx' = "top"
    /\ event' = IF closing THEN event ELSE "established"
    /\ UNCHANGED <<portVars, flagVars, rebooting, asked, confirmed, beatVars, isConnected, callVars>>

\* Mutant: the session stays marked as connected.
LostKeeps ==
    /\ rx = "lost"
    /\ event' = IF isConnected THEN "lost" ELSE event
    /\ rx' = "drop"
    /\ UNCHANGED <<portVars, flagVars, rebooting, asked, confirmed, beatVars, isConnected, callVars>>

\* MeshInterface._disconnected
Lost ==
    /\ rx = "lost"
    /\ isConnected' = FALSE
    /\ event' = IF isConnected THEN "lost" ELSE event
    /\ rx' = "drop"
    /\ UNCHANGED <<portVars, flagVars, rebooting, asked, confirmed, beatVars, callVars>>

\* StreamInterface._disconnected, and the end of the thread unless it reads on after a reboot.
Drop ==
    /\ rx = "drop" /\ lock = None
    /\ port' = Closed(stream) /\ stream' = None
    /\ rx' = IF rebooting THEN "top" ELSE "dead"
    /\ rebooting' = FALSE
    /\ UNCHANGED <<lock, flagVars, asked, confirmed, beatVars, sessionVars, callVars>>

Reader ==
    \/ Top \/ ReadNothing \/ ReadFails \/ ConfigComplete \/ Reboot
    \/ Mark \/ FirstBeat \/ FirstBeatSent \/ Publish \/ Lost \/ Drop

----------------------------------------------------------------------------
(* Heartbeat timers, and the device.                                       *)

Fire ==
    /\ timer = "armed" /\ timer' = "fired"
    /\ UNCHANGED <<portVars, flagVars, readerVars, loose, inflight, sessionVars, callVars>>

TimerSends == inflight > (IF rx = "sending" THEN 1 ELSE 0)

Beat ==
    /\ inflight < MaxBeats
    /\ \/ timer = "fired" /\ timer' = "armed" /\ inflight' = inflight + 1 /\ UNCHANGED loose
       \/ loose > 0 /\ ~closing /\ Armed(loose - 1)
       \/ loose > 0 /\ closing /\ loose' = loose - 1 /\ UNCHANGED <<timer, inflight>>
    /\ UNCHANGED <<portVars, flagVars, readerVars, sessionVars, callVars>>

\* Mutant: a send that raises stays in flight.
BeatKeeps ==
    /\ TimerSends
    /\ inflight' = IF Writable(stream) THEN inflight - 1 ELSE inflight
    /\ UNCHANGED <<portVars, flagVars, readerVars, timer, loose, sessionVars, callVars>>

BeatSent ==
    /\ TimerSends
    /\ inflight' = inflight - 1
    /\ UNCHANGED <<portVars, flagVars, readerVars, timer, loose, sessionVars, callVars>>

Unplugged ==
    /\ \E p \in Ports : port[p] = "open" /\ port' = [port EXCEPT ![p] = "dead"]
    /\ UNCHANGED <<stream, lock, flagVars, readerVars, beatVars, sessionVars, callVars>>

----------------------------------------------------------------------------
Connecting(c) ==
    \/ Skip(c) \/ Refuse(c) \/ Open(c) \/ OpenFails(c) \/ LaunchRefused(c) \/ Launch(c) \/ Ask(c)
    \/ Succeed(c) \/ WaitFails(c) \/ Exhausted(c) \/ Retry(c)

ClosingSteps(c) ==
    CloseBegin(c) \/ Timers(c) \/ Quiesce(c) \/ Shut(c) \/ Join(c) \/ Forget(c)

Next ==
    \/ \E c \in Callers : Connect(c) \/ Close(c) \/ Connecting(c) \/ ClosingSteps(c)
    \/ Reader \/ Fire \/ Beat \/ BeatSent \/ Unplugged

Spec == Init /\ [][Next]_vars

\* Threads are scheduled, waits and I/O are bounded; the device need not answer.  Each call
\* holds the lock a bounded number of times, so weak fairness is enough to get it.
FairSpec ==
    /\ Spec
    /\ \A c \in Callers : WF_vars(Connecting(c)) /\ WF_vars(ClosingSteps(c))
    /\ WF_vars(Reader) /\ WF_vars(BeatSent)

----------------------------------------------------------------------------
(* Properties.                                                             *)

\* Once a close() has passed its wait, no heartbeat is being sent until a connect() is under
\* way, whatever timers of this or an earlier session still fire.
QuietAfterClose == closing /\ (\A c \in Callers : ~At(c, "quiesce")) => inflight = 0

\* When all calls have returned, the last to change the shutdown intent was a close(), and the
\* reader has ended, the interface has no stream and does not count as connected.
ClosedIsBare ==
    wantExit /\ rx = "dead" /\ (\A c \in Callers : At(c, "idle")) => stream = None /\ ~isConnected

\* What a close() leaves behind: no heartbeat under way, no stream, no connected flag
\* (MeshInterface.close, StreamInterface._shared_close, SerialInterface.close).
CloseIsFinal == QuietAfterClose /\ ClosedIsBare

\* A connect() that waited and returns has not been satisfied by an earlier session: this
\* reader has seen its configuration complete.
SuccessMeansConfigured ==
    [][\A c \in Callers : At(c, "wait") /\ pc'[c] = "idle" => confirmed]_vars

\* Between two established events there is a lost one, whatever reboots, repeated
\* configurations, retries and closes come between.
EstablishedOnce ==
    [][rx = "publish" /\ rx' = "top" /\ ~closing => event # "established"]_vars

\* A stream is closed by the step that takes it out of the interface.
\* The code does not keep it (README, section 6), so no run checks it.
NoPortDropped == [][stream # None /\ stream' = None => port'[stream] = "closed"]_vars

\* connect(), its retries and close() end, although close() waits for heartbeats and the reader.
CallsReturn == \A c \in Callers : ~At(c, "idle") ~> At(c, "idle")

=============================================================================
