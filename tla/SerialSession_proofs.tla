------------------------ MODULE SerialSession_proofs ------------------------
(***************************************************************************)
(* Proofs about SerialSession: types, the quiet time after close(), the    *)
(* pairing of events, what the success of connect() means, who holds the   *)
(* connect lock and the closing mark, and what is left after close(), for  *)
(* any number of callers, ports and attempts.                              *)
(***************************************************************************)
EXTENDS SerialSession, TLAPS

----------------------------------------------------------------------------
(* Types.                                                                  *)

\* The part of TypeOK that no step of a call changes on its own, and the heartbeats: the
\* reader's own beat is among those in flight.
BeatInv ==
    /\ loose \in Nat /\ inflight \in Nat
    /\ timer \in {"none", "armed", "fired"}
    /\ rx = "sending" => inflight >= 1

FlagInv ==
    /\ wantExit \in BOOLEAN /\ busy \in BOOLEAN /\ closing \in BOOLEAN
    /\ rebooting \in BOOLEAN /\ asked \in BOOLEAN /\ isConnected \in BOOLEAN /\ confirmed \in BOOLEAN

PlaceInv ==
    /\ rx \in ReaderPlaces
    /\ event \in {"none", "established", "lost"}
    /\ port \in [Ports -> {"unused", "open", "dead", "closed"}]
    /\ stream \in Ports \cup {None} /\ lock \in Callers \cup {None}

CallInv ==
    /\ pc \in [Callers -> Places] /\ retrying \in [Callers -> BOOLEAN]
    /\ tries \in [Callers -> 0..MaxTries] /\ calls \in [Callers -> 0..MaxCalls]

TypeInv == BeatInv /\ FlagInv /\ PlaceInv /\ CallInv

\* The steps, each with the variables it leaves alone.
LEMMA BeatStep == BeatInv /\ [Next]_vars => BeatInv'
<1> SUFFICES ASSUME BeatInv, [Next]_vars PROVE BeatInv'
    OBVIOUS
<1> USE DEF BeatInv
<1>1. ASSUME NEW c \in Callers, Connect(c) \/ Close(c) \/ Connecting(c) \/ ClosingSteps(c)
      PROVE  BeatInv'
  <2>1. CASE UNCHANGED <<readerVars, beatVars>>
      BY <2>1 DEF readerVars, beatVars
  <2>2. CASE Launch(c)
      BY <2>2 DEF Launch, readerVars, beatVars
  <2>3. CASE Ask(c)
      BY <2>3 DEF Ask, readerVars, beatVars
  <2>4. CASE Timers(c)
      BY <2>4 DEF Timers, readerVars, beatVars
  <2> QED BY <1>1, <2>1, <2>2, <2>3, <2>4 DEF Connect, Close, Connecting, ClosingSteps, Skip, Refuse,
        Open, OpenFails, LaunchRefused, Succeed, WaitFails, Exhausted, Retry, CloseBegin, Quiesce,
        Shut, Join, Forget
<1>2. ASSUME Reader PROVE BeatInv'
  <2>1. CASE FirstBeat
      BY <2>1 DEF FirstBeat, Armed, beatVars
  <2>2. CASE FirstBeatSent
      BY <2>2 DEF FirstBeatSent
  <2>3. CASE Top \/ ReadNothing \/ ReadFails \/ ConfigComplete \/ Reboot
      BY <2>3 DEF Top, ReadNothing, ReadFails, ConfigComplete, Reboot, beatVars
  <2>4. CASE Mark \/ Publish \/ Lost \/ Drop
      BY <2>4 DEF Mark, Publish, Lost, Drop, beatVars
  <2> QED BY <1>2, <2>1, <2>2, <2>3, <2>4 DEF Reader
<1>3. ASSUME Fire \/ Unplugged PROVE BeatInv'
    BY <1>3 DEF Fire, Unplugged, readerVars, beatVars
<1>4. ASSUME Beat PROVE BeatInv'
    BY <1>4 DEF Beat, Armed, readerVars, beatVars
<1>5. ASSUME BeatSent PROVE BeatInv'
    BY <1>5 DEF BeatSent, TimerSends, readerVars
<1>6. ASSUME UNCHANGED vars PROVE BeatInv'
    BY <1>6 DEF vars, readerVars, beatVars
<1> QED BY <1>1, <1>2, <1>3, <1>4, <1>5, <1>6 DEF Next

LEMMA FlagStep == FlagInv /\ [Next]_vars => FlagInv'
<1> SUFFICES ASSUME FlagInv, [Next]_vars PROVE FlagInv'
    OBVIOUS
<1>1. ASSUME NEW c \in Callers, Connect(c) \/ Close(c) \/ Connecting(c) \/ ClosingSteps(c)
      PROVE  FlagInv'
  <2>1. CASE UNCHANGED <<flagVars, readerVars, sessionVars>>
      BY <2>1, Zenon DEF FlagInv, flagVars, readerVars, sessionVars
  <2>2. CASE Launch(c)
      BY <2>2, Zenon DEF FlagInv, Launch, readerVars, sessionVars
  <2>3. CASE Ask(c)
      BY <2>3, Zenon DEF FlagInv, Ask, flagVars, sessionVars
  <2>4. CASE CloseBegin(c)
      BY <2>4, Zenon DEF FlagInv, CloseBegin, readerVars, sessionVars
  <2>5. CASE Timers(c)
      BY <2>5, Zenon DEF FlagInv, Timers, readerVars, sessionVars
  <2>6. CASE Shut(c)
      BY <2>6, Zenon DEF FlagInv, Shut, readerVars, sessionVars
  <2> QED BY <1>1, <2>1, <2>2, <2>3, <2>4, <2>5, <2>6 DEF Connect, Close, Connecting, ClosingSteps,
        Skip, Refuse, Open, OpenFails, LaunchRefused, Succeed, WaitFails, Exhausted, Retry,
        Quiesce, Join, Forget
<1>2. ASSUME Reader PROVE FlagInv'
  <2>1. CASE Mark
      BY <2>1, Zenon DEF FlagInv, Mark, flagVars
  <2>2. CASE FirstBeat \/ FirstBeatSent \/ Publish
      BY <2>2, Zenon DEF FlagInv, FirstBeat, FirstBeatSent, Publish, flagVars, sessionVars
  <2>3. CASE Top \/ ReadNothing \/ ReadFails \/ ConfigComplete \/ Reboot
      BY <2>3, Zenon DEF FlagInv, Top, ReadNothing, ReadFails, ConfigComplete, Reboot, flagVars, sessionVars
  <2>4. CASE Lost \/ Drop
      BY <2>4, Zenon DEF FlagInv, Lost, Drop, flagVars, sessionVars
  <2> QED BY <1>2, <2>1, <2>2, <2>3, <2>4 DEF Reader
<1>3. ASSUME Fire \/ Unplugged \/ Beat \/ BeatSent PROVE FlagInv'
    BY <1>3, Zenon DEF FlagInv, Fire, Unplugged, Beat, BeatSent, flagVars, readerVars, sessionVars
<1>4. ASSUME UNCHANGED vars PROVE FlagInv'
    BY <1>4, Zenon DEF FlagInv, vars, flagVars, readerVars, sessionVars
<1> QED BY <1>1, <1>2, <1>3, <1>4 DEF Next

LEMMA PlaceStep == PlaceInv /\ [Next]_vars => PlaceInv'
<1> SUFFICES ASSUME PlaceInv, [Next]_vars PROVE PlaceInv'
    OBVIOUS
<1> USE DEF PlaceInv, ReaderPlaces
<1>1. ASSUME NEW p PROVE port \in [Ports -> {"unused", "open", "dead", "closed"}]
                         => Closed(p) \in [Ports -> {"unused", "open", "dead", "closed"}]
    BY DEF Closed
<1>2. ASSUME NEW c \in Callers, Connect(c) \/ Close(c) \/ Connecting(c) \/ ClosingSteps(c)
      PROVE  PlaceInv'
  <2>1. CASE UNCHANGED <<portVars, readerVars, sessionVars>>
      BY <2>1 DEF portVars, readerVars, sessionVars
  <2>2. CASE Open(c)
      BY <2>2 DEF Open, readerVars, sessionVars
  <2>3. CASE LaunchRefused(c) \/ Launch(c)
      BY <2>3 DEF LaunchRefused, Launch, readerVars, sessionVars
  <2>4. CASE Ask(c)
      BY <2>4 DEF Ask, portVars, sessionVars
  <2>5. CASE Retry(c) \/ Shut(c)
      BY <1>1, <2>5 DEF Retry, Shut, readerVars, sessionVars
  <2>6. CASE Forget(c)
      BY <2>6 DEF Forget, readerVars, sessionVars
  <2> QED BY <1>2, <2>1, <2>2, <2>3, <2>4, <2>5, <2>6 DEF Connect, Close, Connecting, ClosingSteps,
        Skip, Refuse, OpenFails, Succeed, WaitFails, Exhausted, CloseBegin, Timers, Quiesce, Join
<1>3. ASSUME Reader PROVE PlaceInv'
  <2>1. CASE Drop
      BY <1>1, <2>1 DEF Drop, sessionVars
  <2>2. CASE Mark \/ FirstBeat \/ FirstBeatSent \/ Publish \/ Lost
      BY <2>2 DEF Mark, FirstBeat, FirstBeatSent, Publish, Lost, portVars, sessionVars
  <2>3. CASE Top \/ ReadNothing \/ ReadFails \/ ConfigComplete \/ Reboot
      BY <2>3 DEF Top, ReadNothing, ReadFails, ConfigComplete, Reboot, portVars, sessionVars
  <2> QED BY <1>3, <2>1, <2>2, <2>3 DEF Reader
<1>4. ASSUME Fire \/ Beat \/ BeatSent \/ Unplugged PROVE PlaceInv'
    BY <1>4 DEF Fire, Beat, BeatSent, Unplugged, portVars, readerVars, sessionVars
<1>5. ASSUME UNCHANGED vars PROVE PlaceInv'
    BY <1>5 DEF vars, portVars, readerVars, sessionVars
<1> QED BY <1>2, <1>3, <1>4, <1>5 DEF Next

LEMMA CallStep == CallInv /\ FlagInv /\ [Next]_vars => CallInv'
<1> SUFFICES ASSUME CallInv, FlagInv, [Next]_vars PROVE CallInv'
    OBVIOUS
<1> USE SerialAssumption DEF CallInv, Places, Goto, At, callVars
<1>1. ASSUME NEW c \in Callers, Connect(c) \/ Close(c) PROVE CallInv'
  <2>1. CASE Connect(c)
      BY <2>1 DEF Connect
  <2>2. CASE Close(c)
      BY <2>2 DEF Close
  <2> QED BY <1>1, <2>1, <2>2
<1>2. ASSUME NEW c \in Callers, Connecting(c) PROVE CallInv'
  <2>1. CASE WaitFails(c)
    <3>1. (~wantExit) \in BOOLEAN
        BY Zenon DEF FlagInv
    <3> QED BY <2>1, <3>1 DEF WaitFails
  <2>2. CASE Ask(c)
      BY <2>2 DEF Ask
  <2>3. CASE Retry(c)
      BY <2>3 DEF Retry
  <2>4. CASE Launch(c)
      BY <2>4 DEF Launch
  <2> QED BY <1>2, <2>1, <2>2, <2>3, <2>4 DEF Connecting, Skip, Refuse, Open, OpenFails,
        LaunchRefused, Succeed, Exhausted
<1>3. ASSUME NEW c \in Callers, ClosingSteps(c) PROVE CallInv'
  <2>1. \E place \in Places : pc' = [pc EXCEPT ![c] = place]
      BY <1>3 DEF ClosingSteps, CloseBegin, Timers, Quiesce, Shut, Join, Forget
  <2>2. UNCHANGED <<retrying, tries, calls>>
      BY <1>3 DEF ClosingSteps, CloseBegin, Timers, Quiesce, Shut, Join, Forget
  <2> QED BY <2>1, <2>2
<1>4. ASSUME Reader \/ Fire \/ Beat \/ BeatSent \/ Unplugged PROVE CallInv'
    BY <1>4 DEF Reader, Top, ReadNothing, ReadFails, ConfigComplete, Reboot, Mark, FirstBeat,
       FirstBeatSent, Publish, Lost, Drop, Fire, Beat, BeatSent, Unplugged
<1>5. ASSUME UNCHANGED vars PROVE CallInv'
    BY <1>5 DEF vars
<1> QED BY <1>1, <1>2, <1>3, <1>4, <1>5 DEF Next

LEMMA TypeInit == Init => TypeInv
<1> SUFFICES ASSUME Init PROVE TypeInv
    OBVIOUS
<1>1. BeatInv /\ PlaceInv
    BY SerialAssumption DEF Init, BeatInv, PlaceInv, ReaderPlaces
<1>2. FlagInv
    BY Zenon DEF Init, FlagInv
<1>3. CallInv
    BY SerialAssumption DEF Init, CallInv, Places
<1> QED BY <1>1, <1>2, <1>3 DEF TypeInv

LEMMA TypeStep == TypeInv /\ [Next]_vars => TypeInv'
    BY BeatStep, FlagStep, PlaceStep, CallStep DEF TypeInv

\* The session's variables keep their types: above all the heartbeats in flight never go below
\* none, although the reader and any number of timers send and end them.
THEOREM TypesHold == Spec => []TypeOK
<1>1. TypeInv => TypeOK
  <2> SUFFICES ASSUME TypeInv PROVE TypeOK
      OBVIOUS
  <2>1. {wantExit, busy, closing, rebooting, asked, isConnected, confirmed} \subseteq BOOLEAN
      BY Zenon DEF TypeInv, FlagInv
  <2> QED BY <2>1 DEF TypeInv, BeatInv, PlaceInv, CallInv, TypeOK
<1> QED BY <1>1, TypeInit, TypeStep, PTL DEF Spec

----------------------------------------------------------------------------
(* The quiet time after close().                                           *)

\* Since close() has cancelled or disowned the timers, none is armed.
QuietInv ==
    /\ closing => timer = "none"
    /\ QuietAfterClose

LEMMA QuietStep == BeatInv /\ CallInv /\ QuietInv /\ [Next]_vars => QuietInv'
<1> SUFFICES ASSUME BeatInv, CallInv, QuietInv, [Next]_vars PROVE QuietInv'
    OBVIOUS
<1> USE DEF BeatInv, QuietInv, QuietAfterClose, At, Goto
<1>1. pc \in [Callers -> Places]
    BY DEF CallInv
<1>2. ASSUME NEW c \in Callers, Connect(c) \/ Close(c) \/ Connecting(c) \/ ClosingSteps(c)
      PROVE  QuietInv'
  <2>1. CASE Launch(c)
      BY <2>1 DEF Launch, beatVars
  <2>2. CASE Timers(c)
    <3>1. CASE closing
        BY <1>1, <2>2, <3>1 DEF Timers
    <3>2. CASE ~closing
      <4>1. timer' = "none" /\ pc'[c] = "quiesce"
          BY <1>1, <2>2, <3>2 DEF Timers
      <4> QED BY <4>1
    <3> QED BY <3>1, <3>2
  <2>3. CASE Quiesce(c)
    <3>1. inflight' = 0 /\ UNCHANGED <<closing, timer>>
        BY <2>3 DEF Quiesce, flagVars, beatVars
    <3> QED BY <3>1
  <2>4. ASSUME At(c, "quiesce") => pc'[c] = "quiesce", UNCHANGED <<closing, timer, inflight>>,
               \E place : pc' = [pc EXCEPT ![c] = place]
        PROVE  QuietInv'
    <3>1. \A d \in Callers : At(d, "quiesce") => pc'[d] = "quiesce"
        BY <1>1, <2>4
    <3> QED BY <2>4, <3>1
  <2>5. CASE Connect(c) \/ Close(c)
      BY <1>1, <2>4, <2>5 DEF Connect, Close, flagVars, beatVars
  <2>6. CASE Skip(c) \/ Refuse(c) \/ Open(c) \/ OpenFails(c) \/ LaunchRefused(c)
      BY <1>1, <2>4, <2>6 DEF Skip, Refuse, Open, OpenFails, LaunchRefused, flagVars, beatVars
  <2>7. CASE Ask(c) \/ Succeed(c) \/ WaitFails(c) \/ Exhausted(c) \/ Retry(c)
      BY <1>1, <2>4, <2>7 DEF Ask, Succeed, WaitFails, Exhausted, Retry, flagVars, beatVars
  <2>8. CASE CloseBegin(c) \/ Shut(c) \/ Join(c) \/ Forget(c)
      BY <1>1, <2>4, <2>8 DEF CloseBegin, Shut, Join, Forget, flagVars, beatVars
  <2> QED BY <1>2, <2>1, <2>2, <2>3, <2>5, <2>6, <2>7, <2>8 DEF Connecting, ClosingSteps
<1>3. ASSUME Reader PROVE QuietInv'
  <2>1. CASE FirstBeat
      BY <2>1 DEF FirstBeat, Armed, beatVars, flagVars, callVars
  <2>2. CASE FirstBeatSent
      BY <2>2 DEF FirstBeatSent, flagVars, callVars
  <2>3. CASE Top \/ ReadNothing \/ ReadFails \/ ConfigComplete \/ Reboot
      BY <2>3 DEF Top, ReadNothing, ReadFails, ConfigComplete, Reboot, beatVars, flagVars, callVars
  <2>4. CASE Mark \/ Publish \/ Lost \/ Drop
      BY <2>4 DEF Mark, Publish, Lost, Drop, beatVars, flagVars, callVars
  <2> QED BY <1>3, <2>1, <2>2, <2>3, <2>4 DEF Reader
<1>4. ASSUME Fire \/ Unplugged PROVE QuietInv'
    BY <1>4 DEF Fire, Unplugged, beatVars, flagVars, callVars
<1>5. ASSUME Beat PROVE QuietInv'
    BY <1>5 DEF Beat, Armed, flagVars, callVars
<1>6. ASSUME BeatSent PROVE QuietInv'
    BY <1>6 DEF BeatSent, TimerSends, flagVars, callVars
<1>7. ASSUME UNCHANGED vars PROVE QuietInv'
    BY <1>7 DEF vars, beatVars, flagVars, callVars
<1> QED BY <1>2, <1>3, <1>4, <1>5, <1>6, <1>7 DEF Next

\* Once a close() has passed its wait, no heartbeat is being sent until a connect() is under
\* way, for any number of timers that fire late.
THEOREM NoLateHeartbeat == Spec => []QuietAfterClose
<1>1. Init => TypeInv /\ QuietInv
  <2>1. Init => QuietInv
      BY DEF Init, QuietInv, QuietAfterClose
  <2> QED BY <2>1, TypeInit
<1>2. TypeInv /\ QuietInv /\ [Next]_vars => TypeInv' /\ QuietInv'
    BY TypeStep, QuietStep DEF TypeInv
<1>3. QuietInv => QuietAfterClose
    BY DEF QuietInv
<1> QED BY <1>1, <1>2, <1>3, PTL DEF Spec

----------------------------------------------------------------------------
(* Events.                                                                 *)

\* The reader's place fixes isConnected and the event queued last.
EventInv ==
    /\ ~isConnected => event # "established"
    /\ rx \in {"beat", "sending", "publish"} => isConnected /\ event # "established"
    /\ rx \in {"drop", "dead"} => ~isConnected
    /\ isConnected \/ rx = "mark" => confirmed

\* Only the caller that holds the lock is about to launch a reader, and no other one lives.
LaunchInv == \A c \in Callers : At(c, "launch") => lock = c /\ rx = "dead"

SessionInv == EventInv /\ LaunchInv

LEMMA SessionStep == TypeInv /\ SessionInv /\ [Next]_vars => SessionInv'
<1> SUFFICES ASSUME TypeInv, SessionInv, [Next]_vars PROVE SessionInv'
    OBVIOUS
<1> USE SerialAssumption DEF SessionInv, EventInv, LaunchInv, At, Goto
<1>1. /\ pc \in [Callers -> Places] /\ None \notin Callers
      /\ lock \in Callers \cup {None}
    BY DEF TypeInv, CallInv, PlaceInv
<1>2. ASSUME NEW c \in Callers, Connect(c) \/ Close(c) \/ Connecting(c) \/ ClosingSteps(c)
      PROVE  SessionInv'
  <2>1. ASSUME ~At(c, "launch"), pc'[c] # "launch", \E place : pc' = [pc EXCEPT ![c] = place],
               UNCHANGED <<lock, rx, isConnected, event, confirmed>>
        PROVE  SessionInv'
    <3>1. \A d \in Callers : pc'[d] = "launch" => pc[d] = "launch"
        BY <1>1, <2>1
    <3> QED BY <2>1, <3>1
  <2>2. CASE Open(c)
    <3>1. /\ lock = None /\ lock' = c /\ rx = "dead"
          /\ pc' = [pc EXCEPT ![c] = "launch"]
          /\ UNCHANGED <<rx, isConnected, event, confirmed>>
        BY <2>2 DEF Open, readerVars, sessionVars
    <3>2. \A d \in Callers : pc'[d] = "launch" => d = c
        BY <1>1, <3>1
    <3> QED BY <3>1, <3>2
  <2>3. ASSUME At(c, "launch"), lock' = None, pc'[c] # "launch",
               \E place : pc' = [pc EXCEPT ![c] = place]
        PROVE  LaunchInv'
    <3>1. \A d \in Callers : At(d, "launch") => d = c
        BY <2>3
    <3>2. \A d \in Callers : pc'[d] # "launch"
        BY <1>1, <2>3, <3>1
    <3> QED BY <3>2
  <2>4. CASE LaunchRefused(c)
    <3>1. LaunchInv'
        BY <1>1, <2>3, <2>4 DEF LaunchRefused
    <3>2. EventInv'
        BY <2>4 DEF LaunchRefused, readerVars, sessionVars
    <3> QED BY <3>1, <3>2
  <2>5. CASE Launch(c)
    <3>1. LaunchInv'
        BY <1>1, <2>3, <2>5 DEF Launch
    <3>2. EventInv'
        BY <2>5 DEF Launch, readerVars, sessionVars
    <3> QED BY <3>1, <3>2
  <2>6. CASE Connect(c) \/ Close(c)
      BY <1>1, <2>1, <2>6 DEF Connect, Close, portVars, readerVars, sessionVars
  <2>7. CASE Skip(c) \/ Refuse(c) \/ OpenFails(c)
      BY <1>1, <2>1, <2>7 DEF Skip, Refuse, OpenFails, portVars, readerVars, sessionVars
  <2>8. CASE Ask(c) \/ Succeed(c) \/ WaitFails(c)
      BY <1>1, <2>1, <2>8 DEF Ask, Succeed, WaitFails, portVars, readerVars, sessionVars
  <2>9. CASE Exhausted(c) \/ Retry(c)
      BY <1>1, <2>1, <2>9 DEF Exhausted, Retry, portVars, readerVars, sessionVars
  <2>10. CASE CloseBegin(c) \/ Timers(c) \/ Quiesce(c)
      BY <1>1, <2>1, <2>10 DEF CloseBegin, Timers, Quiesce, portVars, readerVars, sessionVars
  <2>11. CASE Shut(c) \/ Join(c) \/ Forget(c)
      BY <1>1, <2>1, <2>11 DEF Shut, Join, Forget, portVars, readerVars, sessionVars
  <2> QED BY <1>2, <2>2, <2>4, <2>5, <2>6, <2>7, <2>8, <2>9, <2>10, <2>11 DEF Connecting, ClosingSteps
<1>3. ASSUME Reader PROVE SessionInv'
  <2>1. CASE Top \/ ReadNothing \/ ReadFails \/ ConfigComplete \/ Reboot
      BY <2>1 DEF Top, ReadNothing, ReadFails, ConfigComplete, Reboot, portVars, sessionVars, callVars
  <2>2. CASE Mark
      BY <2>2 DEF Mark, portVars, callVars
  <2>3. CASE FirstBeat \/ FirstBeatSent \/ Publish
      BY <2>3 DEF FirstBeat, FirstBeatSent, Publish, portVars, sessionVars, callVars
  <2>4. CASE Lost
      BY <2>4 DEF Lost, portVars, callVars
  <2>5. CASE Drop
      BY <2>5 DEF Drop, sessionVars, callVars
  <2> QED BY <1>3, <2>1, <2>2, <2>3, <2>4, <2>5 DEF Reader
<1>4. ASSUME Fire \/ Beat \/ BeatSent \/ Unplugged PROVE SessionInv'
    BY <1>4 DEF Fire, Beat, BeatSent, Unplugged, portVars, readerVars, sessionVars, callVars
<1>5. ASSUME UNCHANGED vars PROVE SessionInv'
    BY <1>5 DEF vars, portVars, readerVars, sessionVars, callVars
<1> QED BY <1>2, <1>3, <1>4, <1>5 DEF Next

LEMMA SessionInit == Init => TypeInv /\ SessionInv
<1>1. Init => SessionInv
    BY DEF Init, SessionInv, EventInv, LaunchInv, At
<1> QED BY <1>1, TypeInit

\* Between two established events there is a lost one, for any number of callers, reboots
\* and attempts.
THEOREM EventsAlternate == Spec => EstablishedOnce
<1>1. TypeInv /\ SessionInv /\ [Next]_vars => TypeInv' /\ SessionInv'
    BY TypeStep, SessionStep
<1>2. SessionInv /\ [Next]_vars
        => [rx = "publish" /\ rx' = "top" /\ ~closing => event # "established"]_vars
    BY DEF SessionInv, EventInv
<1> QED BY <1>1, <1>2, SessionInit, PTL DEF Spec, EstablishedOnce

\* A connect() that returns from its wait has the configuration of the reader that runs now,
\* however many calls overlap.
THEOREM SuccessIsThisReader == Spec => SuccessMeansConfigured
<1>1. TypeInv /\ SessionInv /\ [Next]_vars => TypeInv' /\ SessionInv'
    BY TypeStep, SessionStep
<1>2. TypeInv /\ SessionInv /\ [Next]_vars
        => [\A c \in Callers : At(c, "wait") /\ pc'[c] = "idle" => confirmed]_vars
  <2> SUFFICES ASSUME TypeInv, SessionInv, Next, NEW c \in Callers, At(c, "wait"), pc'[c] = "idle"
               PROVE  confirmed
      OBVIOUS
  <2>1. pc \in [Callers -> Places]
      BY DEF TypeInv, CallInv
  <2>2. \E d \in Callers : Connect(d) \/ Close(d) \/ Connecting(d) \/ ClosingSteps(d)
    <3>1. ~UNCHANGED callVars
        BY DEF callVars, At
    <3> QED BY <3>1 DEF Next, Reader, Top, ReadNothing, ReadFails, ConfigComplete, Reboot, Mark,
          FirstBeat, FirstBeatSent, Publish, Lost, Drop, Fire, Beat, BeatSent, Unplugged
  <2>3. PICK d \in Callers : Connect(d) \/ Close(d) \/ Connecting(d) \/ ClosingSteps(d)
      BY <2>2
  <2>4. \E place : pc' = [pc EXCEPT ![d] = place]
      BY <2>3 DEF Connect, Close, Connecting, ClosingSteps, Skip, Refuse, Open, OpenFails,
         LaunchRefused, Launch, Ask, Succeed, WaitFails, Exhausted, Retry, CloseBegin, Timers,
         Quiesce, Shut, Join, Forget, Goto
  <2>5. d = c
      BY <2>1, <2>4 DEF At
  <2>6. isConnected
      BY <2>1, <2>3, <2>5 DEF Connect, Close, Connecting, ClosingSteps, Skip, Refuse, Open, OpenFails,
         LaunchRefused, Launch, Ask, Succeed, WaitFails, Exhausted, Retry, CloseBegin, Timers,
         Quiesce, Shut, Join, Forget, Goto, At
  <2> QED BY <2>6 DEF SessionInv, EventInv
<1> QED BY <1>1, <1>2, SessionInit, PTL DEF Spec, SuccessMeansConfigured

----------------------------------------------------------------------------
(* What close() leaves.                                                    *)

\* While the interface is to be shut down, a stream it still has is in the hands of a call.
Responsible(c) == pc[c] \in {"launch", "timers", "quiesce", "shut", "join", "forget"}
StreamInv == wantExit /\ stream # None => \E c \in Callers : Responsible(c)

LEMMA StreamStep == TypeInv /\ StreamInv /\ [Next]_vars => StreamInv'
<1> SUFFICES ASSUME TypeInv, StreamInv, [Next]_vars PROVE StreamInv'
    OBVIOUS
<1> USE SerialAssumption DEF StreamInv, Responsible, At, Goto
<1>1. pc \in [Callers -> Places]
    BY DEF TypeInv, CallInv
<1>2. ASSUME NEW c \in Callers, Connect(c) \/ Close(c) \/ Connecting(c) \/ ClosingSteps(c)
      PROVE  StreamInv'
  <2>1. ASSUME \E place : pc' = [pc EXCEPT ![c] = place],
               Responsible(c) => Responsible(c)', UNCHANGED <<stream, wantExit>>
        PROVE  StreamInv'
    <3>1. \A d \in Callers : Responsible(d) => Responsible(d)'
        BY <1>1, <2>1
    <3> QED BY <2>1, <3>1
  <2>2. CASE Open(c)
    <3>1. pc'[c] = "launch"
        BY <1>1, <2>2 DEF Open
    <3> QED BY <3>1
  <2>3. CASE CloseBegin(c)
    <3>1. pc'[c] \in {"join", "timers"}
        BY <1>1, <2>3 DEF CloseBegin
    <3> QED BY <3>1
  <2>4. CASE LaunchRefused(c) \/ Retry(c) \/ Shut(c) \/ Forget(c)
    <3>1. stream' = None
        BY <2>4 DEF LaunchRefused, Retry, Shut, Forget
    <3> QED BY <3>1
  <2>5. CASE Launch(c)
      BY <2>5 DEF Launch
  <2>6. CASE Connect(c) \/ Close(c)
      BY <1>1, <2>1, <2>6 DEF Connect, Close, portVars, flagVars
  <2>7. CASE Skip(c) \/ Refuse(c) \/ OpenFails(c) \/ Exhausted(c)
      BY <1>1, <2>1, <2>7 DEF Skip, Refuse, OpenFails, Exhausted, portVars, flagVars
  <2>8. CASE Ask(c) \/ Succeed(c) \/ WaitFails(c)
      BY <1>1, <2>1, <2>8 DEF Ask, Succeed, WaitFails, portVars, flagVars
  <2>9. CASE Timers(c) \/ Quiesce(c) \/ Join(c)
      BY <1>1, <2>1, <2>9 DEF Timers, Quiesce, Join, portVars, flagVars
  <2> QED BY <1>2, <2>2, <2>3, <2>4, <2>5, <2>6, <2>7, <2>8, <2>9 DEF Connecting, ClosingSteps
<1>3. ASSUME Reader PROVE StreamInv'
    BY <1>3 DEF Reader, Top, ReadNothing, ReadFails, ConfigComplete, Reboot, Mark, FirstBeat,
       FirstBeatSent, Publish, Lost, Drop, portVars, flagVars, callVars
<1>4. ASSUME Fire \/ Beat \/ BeatSent \/ Unplugged PROVE StreamInv'
    BY <1>4 DEF Fire, Beat, BeatSent, Unplugged, portVars, flagVars, callVars
<1>5. ASSUME UNCHANGED vars PROVE StreamInv'
    BY <1>5 DEF vars, portVars, flagVars, callVars
<1> QED BY <1>2, <1>3, <1>4, <1>5 DEF Next

\* When all calls have returned after a close(), and the reader has ended, there is no stream
\* and no connection, for any number of callers, attempts and ports.
THEOREM CloseLeavesNothing == Spec => []ClosedIsBare
<1>1. Init => StreamInv
    BY DEF Init, StreamInv
<1>2. TypeInv /\ SessionInv /\ StreamInv /\ [Next]_vars => TypeInv' /\ SessionInv' /\ StreamInv'
    BY TypeStep, SessionStep, StreamStep
<1>3. SessionInv /\ StreamInv => ClosedIsBare
    BY DEF SessionInv, EventInv, StreamInv, Responsible, ClosedIsBare, At
<1> QED BY <1>1, <1>2, <1>3, SessionInit, PTL DEF Spec

(* Both halves of what a close() leaves behind, whatever the other calls, the timers and the
   reader were doing meanwhile. *)
THEOREM CloseEndsTheSession == Spec => []CloseIsFinal
<1>1. QuietAfterClose /\ ClosedIsBare => CloseIsFinal
    BY DEF CloseIsFinal
<1> QED BY <1>1, NoLateHeartbeat, CloseLeavesNothing, PTL
----------------------------------------------------------------------------
(* Nothing stays held.                                                     *)

\* A close() that marks the interface as being closed and has not yet taken its stream.
Shutting(c) == pc[c] \in {"timers", "quiesce", "shut"}

\* The two things a call may find taken are in the hands of a call that is about to let go of
\* them: _connect_lock, held across the opening of a port, and the mark that a close() is in
\* progress, which makes every connect() return and every other close() stand back.  And
\* there is never more than one such close().
HeldByACall ==
    /\ \A c \in Callers : lock = c <=> At(c, "launch")
    /\ busy <=> \E c \in Callers : Shutting(c)
    /\ \A c, d \in Callers : Shutting(c) /\ Shutting(d) => c = d

LEMMA HeldStep == TypeInv /\ SessionInv /\ HeldByACall /\ [Next]_vars => HeldByACall'
<1> SUFFICES ASSUME TypeInv, SessionInv, HeldByACall, [Next]_vars PROVE HeldByACall'
    OBVIOUS
<1> USE SerialAssumption DEF HeldByACall, Shutting, At, Goto
<1>1. /\ pc \in [Callers -> Places] /\ busy \in BOOLEAN /\ None \notin Callers
      /\ \A c \in Callers : At(c, "launch") => lock = c
    BY DEF TypeInv, CallInv, FlagInv, SessionInv, LaunchInv
<1>2. ASSUME NEW c \in Callers, Connect(c) \/ Close(c) \/ Connecting(c) \/ ClosingSteps(c)
      PROVE  HeldByACall'
  <2>1. ASSUME \E place : pc' = [pc EXCEPT ![c] = place],
               At(c, "launch")' = At(c, "launch"), Shutting(c)' = Shutting(c), UNCHANGED <<lock, busy>>
        PROVE  HeldByACall'
    <3>1. \A d \in Callers : At(d, "launch")' = At(d, "launch") /\ Shutting(d)' = Shutting(d)
        BY <1>1, <2>1
    <3> QED BY <2>1, <3>1
  <2>2. CASE Open(c)
    <3>1. /\ pc[c] = "connect" /\ pc' = [pc EXCEPT ![c] = "launch"]
          /\ lock = None /\ lock' = c /\ UNCHANGED busy
        BY <2>2 DEF Open, flagVars
    <3>2. \A d \in Callers : (At(d, "launch")' <=> d = c) /\ Shutting(d)' = Shutting(d)
        BY <1>1, <3>1
    <3> QED BY <3>1, <3>2
  <2>3. CASE LaunchRefused(c) \/ Launch(c)
    <3>1. /\ pc[c] = "launch" /\ lock' = None /\ UNCHANGED busy
          /\ \E place \in {"idle", "ask", "failed"} : pc' = [pc EXCEPT ![c] = place]
        BY <2>3 DEF LaunchRefused, Launch, flagVars
    <3>2. \A d \in Callers : ~At(d, "launch")' /\ Shutting(d)' = Shutting(d)
        BY <1>1, <3>1
    <3> QED BY <1>1, <3>1, <3>2
  <2>4. CASE CloseBegin(c)
    <3>1. pc[c] = "close" /\ UNCHANGED lock
        BY <2>4 DEF CloseBegin, portVars
    <3>2. CASE busy
        BY <1>1, <2>1, <2>4, <3>1, <3>2 DEF CloseBegin, portVars
    <3>3. CASE ~busy
      <4>1. busy' /\ pc' = [pc EXCEPT ![c] = "timers"]
          BY <2>4, <3>3 DEF CloseBegin
      <4>2. \A d \in Callers : At(d, "launch")' = At(d, "launch") /\ (Shutting(d)' <=> d = c)
          BY <1>1, <3>1, <3>3, <4>1
      <4> QED BY <3>1, <4>1, <4>2
    <3> QED BY <3>2, <3>3
  <2>5. CASE Shut(c)
    <3>1. pc[c] = "shut" /\ ~busy' /\ pc' = [pc EXCEPT ![c] = "join"] /\ UNCHANGED lock
        BY <2>5 DEF Shut
    <3>2. \A d \in Callers : At(d, "launch")' = At(d, "launch") /\ ~Shutting(d)'
        BY <1>1, <3>1
    <3> QED BY <3>1, <3>2
  <2>6. CASE Connect(c) \/ Close(c)
      BY <1>1, <2>1, <2>6 DEF Connect, Close, portVars, flagVars
  <2>7. CASE Skip(c) \/ Refuse(c) \/ OpenFails(c) \/ Exhausted(c)
      BY <1>1, <2>1, <2>7 DEF Skip, Refuse, OpenFails, Exhausted, portVars, flagVars
  <2>8. CASE Ask(c) \/ Succeed(c) \/ WaitFails(c) \/ Retry(c)
      BY <1>1, <2>1, <2>8 DEF Ask, Succeed, WaitFails, Retry, portVars, flagVars
  <2>9. CASE Timers(c) \/ Quiesce(c) \/ Join(c) \/ Forget(c)
      BY <1>1, <2>1, <2>9 DEF Timers, Quiesce, Join, Forget, portVars, flagVars
  <2> QED BY <1>2, <2>2, <2>3, <2>4, <2>5, <2>6, <2>7, <2>8, <2>9 DEF Connecting, ClosingSteps
<1>3. ASSUME Reader \/ Fire \/ Beat \/ BeatSent \/ Unplugged \/ UNCHANGED vars PROVE HeldByACall'
  <2>1. UNCHANGED <<lock, busy, pc>>
      BY <1>3 DEF Reader, Top, ReadNothing, ReadFails, ConfigComplete, Reboot, Mark, FirstBeat,
         FirstBeatSent, Publish, Lost, Drop, Fire, Beat, BeatSent, Unplugged, vars, portVars, flagVars,
         callVars
  <2> QED BY <2>1
<1> QED BY <1>2, <1>3 DEF Next

\* Neither _connect_lock nor the mark of a close() in progress outlives the call that took it,
\* on any path of the retried connect() and of close(), for any number of callers.
THEOREM NothingStaysHeld == Spec => []HeldByACall
<1>1. Init => HeldByACall
    BY SerialAssumption DEF Init, HeldByACall, Shutting, At
<1>2. TypeInv /\ SessionInv /\ HeldByACall /\ [Next]_vars => TypeInv' /\ SessionInv' /\ HeldByACall'
    BY TypeStep, SessionStep, HeldStep
<1> QED BY <1>1, <1>2, SessionInit, PTL DEF Spec
=============================================================================
