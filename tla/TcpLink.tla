------------------------------- MODULE TcpLink -------------------------------
(***************************************************************************)
(* The TCP transport (tcp_interface.py) on top of the connect/close/reader *)
(* machinery of stream_interface.py: which native socket the interface     *)
(* publishes, who may replace or close it, the reconnect attempts of the   *)
(* reader thread, and what close() leaves behind.                          *)
(*                                                                         *)
(* Application threads run connect(), close() and writes; one reader       *)
(* thread runs _reader.  An action is one section under _reconnect_lock or *)
(* _connect_lock, one unlocked read of the published socket, or one        *)
(* blocking call.  The payload of the stream is left out: a byte that      *)
(* arrives either completes nothing, completes the configuration download, *)
(* or reports a device reboot.                                             *)
(***************************************************************************)
EXTENDS Naturals, FiniteSets

CONSTANTS
    Callers,        \* application threads
    Reader,         \* the reader thread
    MaxHandles,     \* bound: sockets the platform hands out
    MaxAttempts,    \* _max_reconnect_attempts
    MaxCalls,       \* bound: calls the application makes
    NoSocket

ASSUME ThreadAssumption == Reader \notin Callers /\ NoSocket \notin Callers \cup {Reader}
ASSUME BoundAssumption ==
    MaxHandles \in Nat /\ MaxAttempts \in Nat \ {0} /\ MaxCalls \in Nat
ASSUME NoSocketAssumption == NoSocket \notin 1..MaxHandles

Threads == Callers \cup {Reader}
Handles == 1..MaxHandles

VARIABLES
    socket,             \* self.socket: the published handle
    native,             \* the state of every native socket
    attempts, fatal,    \* _reconnect_attempts, _fatal_disconnect
    attemptLock,        \* the thread that holds _reconnect_attempt_lock
    inProgress,         \* _reconnect_attempt_in_progress
    wantExit, closeInProgress,  \* _wantExit, _stream_close_in_progress
    closing, connected, \* MeshInterface._closing and isConnected
    pc, op,             \* each thread: where it is and what it is running
    sock,               \* each thread: the handle it works on
    cont,               \* each thread: where it goes after closing a handle
    kept,               \* reconnect_socket of the attempt in progress
    calls               \* calls made so far

linkVars == <<socket, native, attempts, fatal, attemptLock, inProgress>>
flagVars == <<wantExit, closeInProgress, closing, connected>>
localVars == <<sock, cont, kept, calls>>
vars == <<linkVars, flagVars, pc, op, localVars>>

CallerPlaces == {"idle", "conn", "start", "wait", "close", "meshClose", "closeStream", "take"}
ReaderPlaces == {"dead", "top", "read", "unread", "recv", "handle", "plan", "giveup",
                 "sleep", "post", "vet", "confirm", "unconfig", "finish"}
SharedPlaces == {"dial", "adopt", "write", "send", "drop", "shut"}
Places == CallerPlaces \cup ReaderPlaces \cup SharedPlaces
Ops == {"none", "write", "connect", "close", "reconnect", "message"}

TypeOK ==
    /\ socket \in Handles \cup {NoSocket}
    /\ native \in [Handles -> {"unused", "open", "dead", "closed"}]
    /\ attempts \in 0..MaxAttempts
    /\ attemptLock \in Threads \cup {NoSocket}
    /\ fatal \in BOOLEAN /\ inProgress \in BOOLEAN
    /\ wantExit \in BOOLEAN /\ closeInProgress \in BOOLEAN
    /\ closing \in BOOLEAN /\ connected \in BOOLEAN
    /\ pc \in [Threads -> Places]
    /\ op \in [Threads -> Ops]
    /\ sock \in [Threads -> Handles \cup {NoSocket}]
    /\ cont \in [Threads -> Places]
    /\ kept \in Handles \cup {NoSocket}
    /\ calls \in 0..MaxCalls

\* An interface built with connectNow=False.
Init ==
    /\ socket = NoSocket
    /\ native = [h \in Handles |-> "unused"]
    /\ attempts = 0
    /\ attemptLock = NoSocket
    /\ fatal = FALSE /\ inProgress = FALSE
    /\ wantExit = FALSE /\ closeInProgress = FALSE
    /\ closing = FALSE /\ connected = FALSE
    /\ pc = [t \in Threads |-> IF t = Reader THEN "dead" ELSE "idle"]
    /\ op = [t \in Threads |-> "none"]
    /\ sock = [t \in Threads |-> NoSocket]
    /\ cont = [t \in Threads |-> "idle"]
    /\ kept = NoSocket
    /\ calls = 0

----------------------------------------------------------------------------
(* Control: where a thread goes next.                                      *)

\* A thread at its place of rest runs nothing; a connect() that fails runs close().
OpAt(l, o) ==
    CASE l \in {"idle", "top", "finish", "dead"} -> "none"
      [] l = "close" -> "close"
      [] OTHER -> o

Goto(t, l) ==
    /\ pc' = [pc EXCEPT ![t] = l]
    /\ op' = [op EXCEPT ![t] = OpAt(l, @)]

\* Where each kind of write continues when it succeeds and when it raises.
Sent(t) ==
    CASE op[t] = "connect" -> "wait"
      [] op[t] = "close" -> "closeStream"
      [] op[t] = "reconnect" -> "confirm"
      [] op[t] = "message" -> "top"
      [] OTHER -> "idle"
NotSent(t) ==
    CASE op[t] = "connect" -> "close"
      [] op[t] = "close" -> "closeStream"
      [] op[t] = "reconnect" -> "unconfig"
      [] op[t] = "message" -> "top"
      [] OTHER -> "idle"

At(t, l) == pc[t] = l
ReaderAlive == pc[Reader] # "dead"
ShuttingDown == wantExit \/ fatal

----------------------------------------------------------------------------
(* Steps every thread may take: writing, retiring a handle, connecting.    *)

\* _write_bytes snapshots the published socket without a lock.
Write(t) ==
    /\ At(t, "write")
    /\ IF socket = NoSocket
       THEN Goto(t, NotSent(t)) /\ UNCHANGED sock
       ELSE Goto(t, "send") /\ sock' = [sock EXCEPT ![t] = socket]
    /\ UNCHANGED <<linkVars, flagVars, cont, kept, calls>>

SendSucceeds(t) ==
    /\ At(t, "send")
    /\ native[sock[t]] = "open"
    /\ Goto(t, Sent(t))
    /\ sock' = [sock EXCEPT ![t] = NoSocket]
    /\ UNCHANGED <<linkVars, flagVars, cont, kept, calls>>

\* A dead or closed handle raises; an open one may stall past the write timeout.
SendFails(t) ==
    /\ At(t, "send")
    /\ Goto(t, "drop")
    /\ cont' = [cont EXCEPT ![t] = NotSent(t)]
    /\ UNCHANGED <<linkVars, flagVars, sock, kept, calls>>

\* Mutant: the published socket is cleared without checking whose it is.
DropAnyOwner(t) ==
    /\ At(t, "drop")
    /\ socket' = NoSocket
    /\ Goto(t, "shut")
    /\ UNCHANGED <<native, attempts, fatal, attemptLock, inProgress, flagVars,
                   sock, cont, kept, calls>>

\* _close_socket_if_current: the locked half.  A read that finds its handle
\* already replaced does not reconnect.
Drop(t) ==
    /\ At(t, "drop")
    /\ socket' = IF socket = sock[t] THEN NoSocket ELSE socket
    /\ cont' = IF cont[t] = "plan" /\ socket # sock[t]
               THEN [cont EXCEPT ![t] = "top"] ELSE cont
    /\ Goto(t, "shut")
    /\ UNCHANGED <<native, attempts, fatal, attemptLock, inProgress, flagVars,
                   sock, kept, calls>>

\* Mutant: only the send side is shut down, the handle stays open.
ShutSendSide(t) ==
    /\ At(t, "shut")
    /\ attemptLock' = IF attemptLock = t THEN NoSocket ELSE attemptLock
    /\ sock' = [sock EXCEPT ![t] = NoSocket]
    /\ cont' = [cont EXCEPT ![t] = "idle"]
    /\ Goto(t, cont[t])
    /\ UNCHANGED <<native, socket, attempts, fatal, inProgress, flagVars, kept, calls>>

\* _close_socket_handle, outside the lock; it wakes a reader blocked in recv.
\* connect() still holds the attempt lock while it discards a refused socket.
Shut(t) ==
    /\ At(t, "shut")
    /\ native' = [native EXCEPT ![sock[t]] = "closed"]
    /\ attemptLock' = IF attemptLock = t THEN NoSocket ELSE attemptLock
    /\ sock' = [sock EXCEPT ![t] = NoSocket]
    /\ cont' = [cont EXCEPT ![t] = "idle"]
    /\ Goto(t, cont[t])
    /\ UNCHANGED <<socket, attempts, fatal, inProgress, flagVars, kept, calls>>

\* myConnect: the blocking connect.  A caller's failure releases the attempt
\* lock and raises; the reader's ends its attempt.
Fresh(h) == native[h] = "unused" /\ \A g \in 1..(h - 1) : native[g] # "unused"
DialSucceeds(t) ==
    /\ At(t, "dial")
    /\ \E h \in Handles :
          /\ Fresh(h)
          /\ native' = [native EXCEPT ![h] = "open"]
          /\ sock' = [sock EXCEPT ![t] = h]
    /\ Goto(t, "adopt")
    /\ UNCHANGED <<socket, attempts, fatal, attemptLock, inProgress, flagVars, cont, kept, calls>>

DialFails(t) ==
    /\ At(t, "dial")
    /\ attemptLock' = IF attemptLock = t THEN NoSocket ELSE attemptLock
    /\ Goto(t, IF t = Reader THEN "finish" ELSE "idle")
    /\ UNCHANGED <<socket, native, attempts, fatal, inProgress, flagVars, localVars>>

AfterConnect(t) == IF t = Reader THEN "post" ELSE "start"
Refused(t) == IF t = Reader THEN "finish" ELSE "idle"

\* Mutant: the shutdown intent is not consulted when a socket is published.
AdoptWhileClosing(t) ==
    /\ At(t, "adopt")
    /\ IF socket # NoSocket
       THEN /\ cont' = [cont EXCEPT ![t] = AfterConnect(t)]
            /\ Goto(t, "shut")
            /\ UNCHANGED <<socket, fatal, attemptLock, sock>>
       ELSE /\ socket' = sock[t]
            /\ fatal' = FALSE
            /\ attemptLock' = IF attemptLock = t THEN NoSocket ELSE attemptLock
            /\ sock' = [sock EXCEPT ![t] = NoSocket]
            /\ Goto(t, AfterConnect(t))
            /\ UNCHANGED cont
    /\ UNCHANGED <<native, attempts, inProgress, flagVars, kept, calls>>

\* Mutant: a new socket replaces the published one.
AdoptOverwrites(t) ==
    /\ At(t, "adopt")
    /\ IF wantExit
       THEN /\ cont' = [cont EXCEPT ![t] = Refused(t)]
            /\ Goto(t, "shut")
            /\ UNCHANGED <<socket, fatal, attemptLock, sock>>
       ELSE /\ socket' = sock[t]
            /\ fatal' = FALSE
            /\ attemptLock' = IF attemptLock = t THEN NoSocket ELSE attemptLock
            /\ sock' = [sock EXCEPT ![t] = NoSocket]
            /\ Goto(t, AfterConnect(t))
            /\ UNCHANGED cont
    /\ UNCHANGED <<native, attempts, inProgress, flagVars, kept, calls>>

\* myConnect: the locked adoption.  During shutdown, or when a socket is
\* already published, the new one is discarded.
Adopt(t) ==
    /\ At(t, "adopt")
    /\ IF wantExit \/ socket # NoSocket
       THEN /\ cont' = [cont EXCEPT ![t] = IF wantExit THEN Refused(t) ELSE AfterConnect(t)]
            /\ Goto(t, "shut")
            /\ UNCHANGED <<socket, fatal, attemptLock, sock>>
       ELSE /\ socket' = sock[t]
            /\ fatal' = FALSE
            /\ attemptLock' = IF attemptLock = t THEN NoSocket ELSE attemptLock
            /\ sock' = [sock EXCEPT ![t] = NoSocket]
            /\ Goto(t, AfterConnect(t))
            /\ UNCHANGED cont
    /\ UNCHANGED <<native, attempts, inProgress, flagVars, kept, calls>>

----------------------------------------------------------------------------
(* The application's calls.                                                *)

Begin(c, o) ==
    /\ At(c, "idle") /\ calls < MaxCalls
    /\ calls' = calls + 1
    /\ op' = [op EXCEPT ![c] = o]
    /\ pc' = [pc EXCEPT ![c] = CASE o = "write" -> "write"
                                 [] o = "connect" -> "conn"
                                 [] o = "close" -> "close"]
    /\ UNCHANGED <<linkVars, flagVars, sock, cont, kept>>

\* Mutant: the caller does not look for a reconnect attempt in progress.
ConnIgnoresAttempt(c) ==
    /\ At(c, "conn")
    /\ attemptLock = NoSocket
    /\ IF socket # NoSocket
       THEN Goto(c, "start") /\ UNCHANGED attemptLock
       ELSE IF ShuttingDown
       THEN Goto(c, "idle") /\ UNCHANGED attemptLock
       ELSE Goto(c, "dial") /\ attemptLock' = c
    /\ UNCHANGED <<socket, native, attempts, fatal, inProgress, flagVars, localVars>>

\* _connect_socket_if_needed: one round of its loop.  While a reconnect is in
\* progress the caller keeps polling, unless shutdown stops it.
Conn(c) ==
    /\ At(c, "conn")
    /\ attemptLock = NoSocket
    /\ \/ /\ socket # NoSocket
          /\ Goto(c, "start")
          /\ UNCHANGED attemptLock
       \/ /\ socket = NoSocket /\ ShuttingDown
          /\ Goto(c, "idle")
          /\ UNCHANGED attemptLock
       \/ /\ socket = NoSocket /\ ~ShuttingDown /\ ~inProgress
          /\ attemptLock' = c
          /\ Goto(c, "dial")
    /\ UNCHANGED <<socket, native, attempts, fatal, inProgress, flagVars, localVars>>

\* StreamInterface.connect under _connect_lock: it returns when a close() is in
\* progress, raises when the reader is alive, else it starts a new reader.
Start(c) ==
    /\ At(c, "start")
    /\ IF closeInProgress \/ ReaderAlive
       THEN Goto(c, "idle") /\ UNCHANGED <<wantExit, closing>>
       ELSE /\ wantExit' = FALSE
            /\ closing' = FALSE
            /\ pc' = [pc EXCEPT ![Reader] = "top", ![c] = "write"]
            /\ UNCHANGED op
    /\ UNCHANGED <<linkVars, closeInProgress, connected, localVars>>

\* _wait_connected: connected, or aborted by shutdown, a dead reader or the
\* timeout; a failed connect() closes the interface before it raises.
Wait(c) ==
    /\ At(c, "wait")
    /\ \/ connected /\ Goto(c, "idle")
       \/ Goto(c, "close")
    /\ UNCHANGED <<linkVars, flagVars, localVars>>

\* _shared_close, first section under _connect_lock.
CloseBegin(c) ==
    /\ At(c, "close")
    /\ IF closeInProgress
       THEN Goto(c, "take") /\ UNCHANGED <<closeInProgress, wantExit>>
       ELSE /\ closeInProgress' = TRUE
            /\ wantExit' = TRUE
            /\ Goto(c, "meshClose")
    /\ UNCHANGED <<linkVars, closing, connected, localVars>>

\* MeshInterface.close: the disconnect frame is sent once per connection.
MeshClose(c) ==
    /\ At(c, "meshClose")
    /\ closing' = TRUE
    /\ Goto(c, IF closing THEN "closeStream" ELSE "write")
    /\ UNCHANGED <<linkVars, wantExit, closeInProgress, connected, localVars>>

CloseStream(c) ==
    /\ At(c, "closeStream")
    /\ closeInProgress' = FALSE
    /\ Goto(c, "take")
    /\ UNCHANGED <<linkVars, wantExit, closing, connected, localVars>>

\* _close_socket_and_join_reader.  The half-close, the drain and the joins are
\* bounded waits: they only put time between taking the handle and closing it.
Take(c) ==
    /\ At(c, "take")
    /\ socket' = NoSocket
    /\ IF socket = NoSocket
       THEN Goto(c, "idle") /\ UNCHANGED <<sock, cont>>
       ELSE /\ sock' = [sock EXCEPT ![c] = socket]
            /\ cont' = [cont EXCEPT ![c] = "idle"]
            /\ Goto(c, "shut")
    /\ UNCHANGED <<native, attempts, fatal, attemptLock, inProgress, flagVars, kept, calls>>

CallerStep(c) ==
    \/ Conn(c) \/ Start(c) \/ Wait(c)
    \/ CloseBegin(c) \/ MeshClose(c) \/ CloseStream(c) \/ Take(c)

----------------------------------------------------------------------------
(* The reader thread.                                                      *)

\* The loop test; on the way out _disconnected() clears isConnected.
Top ==
    /\ At(Reader, "top")
    /\ Goto(Reader, IF wantExit THEN "dead" ELSE "read")
    /\ connected' = IF wantExit THEN FALSE ELSE connected
    /\ UNCHANGED <<linkVars, wantExit, closeInProgress, closing, localVars>>

\* _read_bytes snapshots the published socket without a lock.
Read ==
    /\ At(Reader, "read")
    /\ IF socket = NoSocket
       THEN Goto(Reader, "unread") /\ UNCHANGED sock
       ELSE Goto(Reader, "recv") /\ sock' = [sock EXCEPT ![Reader] = socket]
    /\ UNCHANGED <<linkVars, flagVars, cont, kept, calls>>

Unread ==
    /\ At(Reader, "unread")
    /\ Goto(Reader, IF ShuttingDown THEN "top" ELSE "plan")
    /\ UNCHANGED <<linkVars, flagVars, localVars>>

\* recv returned data: the retry budget and the fatal mark are reset.
RecvData ==
    /\ At(Reader, "recv")
    /\ native[sock[Reader]] = "open"
    /\ attempts' = 0
    /\ fatal' = FALSE
    /\ sock' = [sock EXCEPT ![Reader] = NoSocket]
    /\ Goto(Reader, "handle")
    /\ UNCHANGED <<socket, native, attemptLock, inProgress, flagVars, cont, kept, calls>>

\* recv returned nothing or raised.
RecvEof ==
    /\ At(Reader, "recv")
    /\ native[sock[Reader]] # "open"
    /\ cont' = [cont EXCEPT ![Reader] = "plan"]
    /\ Goto(Reader, "drop")
    /\ UNCHANGED <<linkVars, flagVars, sock, kept, calls>>

\* What the byte completes: nothing; the configuration download, which marks the
\* interface connected and sends the first heartbeat; or a reboot notice, which
\* marks it disconnected and asks for the configuration again.
Handle ==
    /\ At(Reader, "handle")
    /\ \/ Goto(Reader, "top") /\ UNCHANGED connected
       \/ /\ ~closing /\ ~connected
          /\ connected' = TRUE
          /\ op' = [op EXCEPT ![Reader] = "message"]
          /\ pc' = [pc EXCEPT ![Reader] = "write"]
       \/ /\ connected' = FALSE
          /\ op' = [op EXCEPT ![Reader] = "message"]
          /\ pc' = [pc EXCEPT ![Reader] = "write"]
    /\ UNCHANGED <<linkVars, wantExit, closeInProgress, closing, localVars>>

\* _attempt_reconnect, admission: a try-lock, then the locked plan.
Plan ==
    /\ At(Reader, "plan")
    /\ IF attemptLock # NoSocket \/ inProgress \/ ShuttingDown
       THEN Goto(Reader, "top") /\ UNCHANGED <<attempts, attemptLock, inProgress>>
       ELSE IF attempts >= MaxAttempts
       THEN /\ attemptLock' = Reader
            /\ Goto(Reader, "giveup")
            /\ UNCHANGED <<attempts, inProgress>>
       ELSE /\ attempts' = attempts + 1
            /\ inProgress' = TRUE
            /\ Goto(Reader, "sleep")
            /\ UNCHANGED attemptLock
    /\ UNCHANGED <<socket, native, fatal, flagVars, localVars>>

\* _on_fatal_disconnect, still under the attempt lock.
GiveUp ==
    /\ At(Reader, "giveup")
    /\ fatal' = TRUE
    /\ wantExit' = TRUE
    /\ attemptLock' = NoSocket
    /\ Goto(Reader, "top")
    /\ UNCHANGED <<socket, native, attempts, inProgress, closeInProgress, closing,
                   connected, localVars>>

\* The backoff sleep polls the shutdown flags; the first attempt does not sleep.
Sleep ==
    /\ At(Reader, "sleep")
    /\ Goto(Reader, IF attempts > 1 /\ ShuttingDown THEN "finish" ELSE "dial")
    /\ UNCHANGED <<linkVars, flagVars, localVars>>

\* After myConnect: three unlocked reads of self.socket and _wantExit.
Post ==
    /\ At(Reader, "post")
    /\ Goto(Reader, IF socket = NoSocket THEN "finish" ELSE "vet")
    /\ UNCHANGED <<linkVars, flagVars, localVars>>

Vet ==
    /\ At(Reader, "vet")
    /\ \/ /\ wantExit /\ socket = NoSocket
          /\ Goto(Reader, "finish")
          /\ UNCHANGED <<sock, cont, kept>>
       \/ /\ wantExit /\ socket # NoSocket
          /\ sock' = [sock EXCEPT ![Reader] = socket]
          /\ cont' = [cont EXCEPT ![Reader] = "finish"]
          /\ Goto(Reader, "drop")
          /\ UNCHANGED kept
       \/ /\ ~wantExit
          /\ kept' = socket
          /\ op' = [op EXCEPT ![Reader] = "reconnect"]
          /\ pc' = [pc EXCEPT ![Reader] = "write"]
          /\ UNCHANGED <<sock, cont>>
    /\ UNCHANGED <<linkVars, flagVars, calls>>

\* _start_config raised: the attempt retires the socket it started on.
Unconfig ==
    /\ At(Reader, "unconfig")
    /\ IF kept = NoSocket
       THEN Goto(Reader, "finish") /\ UNCHANGED <<sock, cont>>
       ELSE /\ sock' = [sock EXCEPT ![Reader] = kept]
            /\ cont' = [cont EXCEPT ![Reader] = "finish"]
            /\ Goto(Reader, "drop")
    /\ UNCHANGED <<linkVars, flagVars, kept, calls>>

\* _start_config succeeded: the retry budget is restored for the same owner only.
Confirm ==
    /\ At(Reader, "confirm")
    /\ attempts' = IF ~ShuttingDown /\ socket = kept THEN 0 ELSE attempts
    /\ Goto(Reader, "finish")
    /\ UNCHANGED <<socket, native, fatal, attemptLock, inProgress, flagVars, localVars>>

\* Mutant: a failed attempt leaves its flag set.
FinishForgets ==
    /\ At(Reader, "finish")
    /\ kept' = NoSocket
    /\ Goto(Reader, "top")
    /\ UNCHANGED <<linkVars, flagVars, sock, cont, calls>>

\* The finally clause of _attempt_reconnect.
Finish ==
    /\ At(Reader, "finish")
    /\ inProgress' = FALSE
    /\ kept' = NoSocket
    /\ Goto(Reader, "top")
    /\ UNCHANGED <<socket, native, attempts, fatal, attemptLock, flagVars, sock, cont, calls>>

ReaderStep ==
    \/ Top \/ Read \/ Unread \/ RecvEof \/ Handle \/ Plan \/ GiveUp \/ Sleep
    \/ Post \/ Vet \/ Unconfig \/ Confirm \/ Finish

----------------------------------------------------------------------------
IoStep(t) ==
    \/ Write(t) \/ SendSucceeds(t) \/ SendFails(t) \/ Drop(t) \/ Shut(t)
    \/ DialSucceeds(t) \/ DialFails(t) \/ Adopt(t)

\* The peer closes or resets a connection.
PeerDrops(h) ==
    /\ native[h] = "open"
    /\ native' = [native EXCEPT ![h] = "dead"]
    /\ UNCHANGED <<socket, attempts, fatal, attemptLock, inProgress, flagVars,
                   pc, op, localVars>>

Next ==
    \/ \E c \in Callers, o \in {"write", "connect", "close"} : Begin(c, o)
    \/ \E c \in Callers : CallerStep(c)
    \/ \E t \in Threads : IoStep(t)
    \/ ReaderStep
    \/ RecvData
    \/ \E h \in Handles : PeerDrops(h)

Spec == Init /\ [][Next]_vars

\* Threads are scheduled and every blocking call has a timeout; nothing makes the
\* application call, the peer send data or the peer drop the connection.
FairSpec ==
    /\ Spec
    /\ \A c \in Callers : WF_vars(CallerStep(c))
    /\ \A t \in Threads : WF_vars(IoStep(t))
    /\ WF_vars(ReaderStep)

----------------------------------------------------------------------------
(* Properties.                                                             *)

\* The published socket is never one that has been closed: every path withdraws
\* a handle under _reconnect_lock before it closes it natively (the comment in
\* _close_socket_if_current).
PublishedIsNotClosed == socket # NoSocket => native[socket] # "closed"

\* A reconnect of the reader and a connect() of an application thread never open
\* sockets at the same time: the attempt lock and the per-attempt flag exclude
\* each other even though the lock is released before the reader's blocking work.
OneDialer == \A s, t \in Threads :
    pc[s] \in {"dial", "adopt"} /\ pc[t] \in {"dial", "adopt"} => s = t

\* Once close() has finished and nothing has restarted the link, no socket is
\* published: a reconnect or connect() that was connecting meanwhile must have
\* discarded its socket.  (A fatal disconnect sets the same flag by itself.)
ClosedLinkHasNoSocket ==
    wantExit /\ ~fatal /\ (\A c \in Callers : op[c] # "close") => socket = NoSocket

\* Which abstract phase each native socket is in.
PhaseOf(h) ==
    IF native[h] = "unused" THEN "new"
    ELSE IF h = socket THEN "current"
    ELSE IF native[h] = "closed" THEN "closed"
    ELSE IF \E t \in Threads : At(t, "adopt") /\ sock[t] = h THEN "offered"
    ELSE "retiring"

\* The link keeps the ownership discipline of its sockets: one publication per
\* socket, one published socket, no close before withdrawal and no way back.
Ownership == INSTANCE SocketOwnership WITH phase <- [h \in Handles |-> PhaseOf(h)]
OwnershipKept == Ownership!Spec

\* No native socket leaks: whatever is neither published nor still being offered
\* is in the hands of a thread that is about to close it, on every path of every
\* failed, refused, redundant or overtaken connect attempt.
NoSocketLeaks == \A h \in Handles :
    PhaseOf(h) = "retiring" => \E t \in Threads : At(t, "shut") /\ sock[t] = h

\* After MeshInterface.close() has marked the interface closing the reader ends,
\* even one blocked in recv on a silent peer, unless connect() reopens it; and
\* every call returns: a connect() that polls for a reconnect attempt is released
\* when the attempt succeeds, fails or runs out of retries.
EveryThreadEnds ==
    /\ closing ~> (~ReaderAlive \/ ~closing)
    /\ \A c \in Callers : ~At(c, "idle") ~> At(c, "idle")

\* What the docstring of _shared_close says of a close() that overlaps a connect():
\* the latter is kept "from clearing the shutdown intent and restarting the reader
\* against a closed stream".
\* The code does not keep it (README, section 6), so no run checks it.
ShutdownIntentSurvives == [][wantExit /\ ~wantExit' => socket # NoSocket]_vars
=============================================================================
