--------------------------- MODULE TcpLink_proofs ---------------------------
(***************************************************************************)
(* Proofs about TcpLink for any application threads, any number of sockets *)
(* and any retry limit: its types, what happens to every native socket,    *)
(* the exclusion of concurrent dialling, that each lock and mark has a     *)
(* thread that lets go of it, what close() leaves behind, and that the     *)
(* link implements SocketOwnership.                                        *)
(*                                                                         *)
(* Most actions are "calm": they leave the published socket and the native *)
(* states alone and move only threads that are neither offering a new      *)
(* socket nor about to close one.  The handle invariants survive a calm    *)
(* step for one common reason (CalmKeepsHandles); the six remaining        *)
(* actions are treated one by one.                                         *)
(***************************************************************************)
EXTENDS TcpLink, TLAPS

\* Where a thread may continue after it has closed a handle.
Conts == {"idle", "start", "plan", "top", "finish", "post", "close", "closeStream", "unconfig"}

\* The places at which a thread works on a handle.
HoldingPlaces == {"send", "drop", "shut", "recv", "adopt"}

LinkTypes ==
    /\ socket \in Handles \cup {NoSocket}
    /\ native \in [Handles -> {"unused", "open", "dead", "closed"}]
    /\ attempts \in 0..MaxAttempts
    /\ attemptLock \in Threads \cup {NoSocket}
    /\ fatal \in BOOLEAN /\ inProgress \in BOOLEAN
FlagTypes ==
    /\ wantExit \in BOOLEAN /\ closeInProgress \in BOOLEAN
    /\ closing \in BOOLEAN /\ connected \in BOOLEAN
ControlTypes ==
    /\ pc \in [Threads -> Places]
    /\ op \in [Threads -> Ops]
    /\ sock \in [Threads -> Handles \cup {NoSocket}]
    /\ \A t \in Threads : pc[t] \in HoldingPlaces => sock[t] \in Handles
LocalTypes ==
    /\ cont \in [Threads -> Conts]
    /\ kept \in Handles \cup {NoSocket}
    /\ calls \in 0..MaxCalls

TypeInv == LinkTypes /\ FlagTypes /\ ControlTypes /\ LocalTypes

LEMMA Constants ==
    /\ Reader \in Threads /\ Callers \subseteq Threads /\ Reader \notin Callers
    /\ NoSocket \notin Threads /\ NoSocket \notin Handles
    /\ Handles \subseteq Nat /\ MaxAttempts \in Nat /\ MaxCalls \in Nat
  BY ThreadAssumption, NoSocketAssumption, BoundAssumption DEF Threads, Handles

LEMMA PlaceNames ==
    /\ Places = {"idle", "conn", "start", "wait", "close", "meshClose", "closeStream", "take",
                 "dead", "top", "read", "unread", "recv", "handle", "plan", "giveup",
                 "sleep", "post", "vet", "confirm", "unconfig", "finish",
                 "dial", "adopt", "write", "send", "drop", "shut"}
    /\ Conts \subseteq Places /\ Conts \cap HoldingPlaces = {}
  BY DEF Places, CallerPlaces, ReaderPlaces, SharedPlaces, Conts, HoldingPlaces

LEMMA TypesImplied == TypeInv => TypeOK
  BY PlaceNames DEF TypeInv, TypeOK, LinkTypes, FlagTypes, ControlTypes, LocalTypes

LEMMA TypeInit == Init => TypeInv
  <1> SUFFICES ASSUME Init PROVE TypeInv OBVIOUS
  <1>1. LinkTypes
    <2>1. attempts \in 0..MaxAttempts /\ native \in [Handles -> {"unused", "open", "dead", "closed"}]
      BY Constants DEF Init
    <2> QED BY <2>1 DEF Init, LinkTypes
  <1>2. FlagTypes
    BY DEF Init, FlagTypes
  <1>3. ControlTypes
    BY PlaceNames DEF Init, ControlTypes, HoldingPlaces, Ops
  <1>4. LocalTypes
    BY Constants DEF Init, LocalTypes, Conts
  <1> QED BY <1>1, <1>2, <1>3, <1>4 DEF TypeInv

LEMMA Continuations ==
  ASSUME NEW t
  PROVE  /\ NotSent(t) \in Conts
         /\ Sent(t) \in Places \ HoldingPlaces
         /\ AfterConnect(t) \in Conts /\ Refused(t) \in Conts
  BY PlaceNames DEF NotSent, Sent, AfterConnect, Refused, Conts, HoldingPlaces

LEMMA OpAtOps == ASSUME NEW l, NEW o \in Ops PROVE OpAt(l, o) \in Ops
  BY DEF OpAt, Ops

\* What Goto does to the control variables.
LEMMA GotoMoves ==
  ASSUME TypeInv, NEW t \in Threads, NEW l \in Places, Goto(t, l)
  PROVE  /\ pc' \in [Threads -> Places] /\ op' \in [Threads -> Ops]
         /\ pc'[t] = l /\ \A u \in Threads : u # t => pc'[u] = pc[u]
  BY OpAtOps DEF Goto, TypeInv, ControlTypes

\* A move to l keeps the control types when l's handle, if it works on one, is there.
LEMMA MoveTypes ==
  ASSUME TypeInv, NEW t \in Threads, NEW l \in Places, Goto(t, l),
         sock' \in [Threads -> Handles \cup {NoSocket}],
         \A u \in Threads : u # t => sock'[u] = sock[u],
         l \in HoldingPlaces => sock'[t] \in Handles
  PROVE  ControlTypes'
  BY GotoMoves DEF TypeInv, ControlTypes

\* The same for a move that touches no handle, ...
LEMMA PlainMove ==
  ASSUME TypeInv, NEW t \in Threads, NEW l \in Places, Goto(t, l), UNCHANGED sock,
         l \notin HoldingPlaces \/ pc[t] \in HoldingPlaces
  PROVE  ControlTypes'
  BY MoveTypes DEF TypeInv, ControlTypes

\* ... and for one that takes up the handle h or lays it down.
LEMMA TakingMove ==
  ASSUME TypeInv, NEW t \in Threads, NEW l \in Places, Goto(t, l),
         NEW h \in Handles \cup {NoSocket}, sock' = [sock EXCEPT ![t] = h],
         l \in HoldingPlaces => h \in Handles
  PROVE  ControlTypes'
  BY MoveTypes DEF TypeInv, ControlTypes

LEMMA TypeStep == TypeInv /\ [Next]_vars => TypeInv'
  <1> SUFFICES ASSUME TypeInv, [Next]_vars PROVE TypeInv' OBVIOUS
  <1> USE Constants, PlaceNames
  <1>1. ASSUME NEW c \in Callers, NEW o \in {"write", "connect", "close"}, Begin(c, o) PROVE TypeInv'
    <2>1. pc' \in [Threads -> Places] /\ op' \in [Threads -> Ops]
      BY <1>1 DEF Begin, TypeInv, ControlTypes, Ops
    <2>2. pc'[c] \in {"write", "conn", "close"} /\ \A u \in Threads : u # c => pc'[u] = pc[u]
      BY <1>1 DEF Begin, TypeInv, ControlTypes
    <2>3. ControlTypes'
      BY <1>1, <2>1, <2>2 DEF Begin, TypeInv, ControlTypes, HoldingPlaces
    <2>4. LocalTypes'
      BY <1>1 DEF Begin, TypeInv, LocalTypes
    <2> QED BY <1>1, <2>3, <2>4 DEF Begin, TypeInv, LinkTypes, FlagTypes, linkVars, flagVars
  <1>2. ASSUME NEW t \in Threads, Write(t) PROVE TypeInv'
    <2>1. ControlTypes'
      <3>1. CASE socket = NoSocket
        BY <1>2, <3>1, Continuations, PlainMove DEF Write
      <3>2. CASE socket # NoSocket
        <4>1. socket \in Handles
          BY <3>2 DEF TypeInv, LinkTypes
        <4> QED BY <1>2, <3>2, <4>1, TakingMove DEF Write
      <3> QED BY <3>1, <3>2
    <2> QED BY <1>2, <2>1 DEF Write, TypeInv, LinkTypes, FlagTypes, LocalTypes, linkVars, flagVars
  <1>3. ASSUME NEW t \in Threads, SendSucceeds(t) PROVE TypeInv'
    <2>1. ControlTypes'
      BY <1>3, Continuations, TakingMove DEF SendSucceeds
    <2> QED BY <1>3, <2>1 DEF SendSucceeds, TypeInv, LinkTypes, FlagTypes, LocalTypes, linkVars, flagVars
  <1>4. ASSUME NEW t \in Threads, SendFails(t) PROVE TypeInv'
    <2>1. ControlTypes'
      BY <1>4, PlainMove DEF SendFails, At, HoldingPlaces
    <2>2. LocalTypes'
      BY <1>4, Continuations DEF SendFails, TypeInv, LocalTypes
    <2> QED BY <1>4, <2>1, <2>2 DEF SendFails, TypeInv, LinkTypes, FlagTypes, linkVars, flagVars
  <1>5. ASSUME NEW t \in Threads, Drop(t) PROVE TypeInv'
    <2>1. ControlTypes'
      BY <1>5, PlainMove DEF Drop, At, HoldingPlaces
    <2>2. LocalTypes'
      BY <1>5 DEF Drop, TypeInv, LocalTypes, Conts
    <2> QED BY <1>5, <2>1, <2>2 DEF Drop, TypeInv, LinkTypes, FlagTypes, flagVars
  <1>6. ASSUME NEW t \in Threads, Shut(t) PROVE TypeInv'
    <2>1. ControlTypes'
      <3>1. cont[t] \in Conts
        BY DEF TypeInv, LocalTypes
      <3> QED BY <1>6, <3>1, TakingMove DEF Shut
    <2>2. LocalTypes'
      BY <1>6 DEF Shut, TypeInv, LocalTypes, Conts
    <2>3. LinkTypes'
      BY <1>6 DEF Shut, TypeInv, LinkTypes
    <2> QED BY <1>6, <2>1, <2>2, <2>3 DEF Shut, TypeInv, FlagTypes, flagVars
  <1>7. ASSUME NEW t \in Threads, DialSucceeds(t) PROVE TypeInv'
    <2>1. ControlTypes'
      BY <1>7, TakingMove DEF DialSucceeds
    <2>3. LinkTypes'
      BY <1>7 DEF DialSucceeds, TypeInv, LinkTypes
    <2> QED BY <1>7, <2>1, <2>3 DEF DialSucceeds, TypeInv, FlagTypes, LocalTypes, flagVars
  <1>8. ASSUME NEW t \in Threads, DialFails(t) PROVE TypeInv'
    <2>1. ControlTypes'
      BY <1>8, PlainMove DEF DialFails, localVars, HoldingPlaces
    <2>3. LinkTypes'
      BY <1>8 DEF DialFails, TypeInv, LinkTypes
    <2> QED BY <1>8, <2>1, <2>3 DEF DialFails, TypeInv, FlagTypes, LocalTypes, flagVars, localVars
  <1>9. ASSUME NEW t \in Threads, Adopt(t) PROVE TypeInv'
    <2>1. ControlTypes'
      <3>1. CASE wantExit \/ socket # NoSocket
        BY <1>9, <3>1, PlainMove DEF Adopt, At, HoldingPlaces
      <3>2. CASE ~(wantExit \/ socket # NoSocket)
        BY <1>9, <3>2, Continuations, TakingMove DEF Adopt
      <3> QED BY <3>1, <3>2
    <2>2. LocalTypes'
      BY <1>9, Continuations DEF Adopt, TypeInv, LocalTypes
    <2>3. LinkTypes'
      BY ZenonT(40), <1>9 DEF Adopt, TypeInv, LinkTypes, ControlTypes, HoldingPlaces
    <2> QED BY <1>9, <2>1, <2>2, <2>3 DEF Adopt, TypeInv, FlagTypes, flagVars
  <1>10. ASSUME NEW c \in Callers, Conn(c) PROVE TypeInv'
    <2>1. ControlTypes'
      BY <1>10, PlainMove DEF Conn, HoldingPlaces, localVars
    <2>3. LinkTypes'
      BY <1>10 DEF Conn, TypeInv, LinkTypes
    <2> QED BY <1>10, <2>1, <2>3 DEF Conn, TypeInv, FlagTypes, LocalTypes, flagVars, localVars
  <1>11. ASSUME NEW c \in Callers, Start(c) PROVE TypeInv'
    <2>1. CASE closeInProgress \/ ReaderAlive
      <3>1. ControlTypes'
        BY <1>11, <2>1, PlainMove DEF Start, HoldingPlaces, localVars
      <3> QED BY <1>11, <2>1, <3>1 DEF Start, TypeInv, LinkTypes, FlagTypes, LocalTypes, linkVars, localVars
    <2>2. CASE ~(closeInProgress \/ ReaderAlive)
      <3>1. pc' = [pc EXCEPT ![Reader] = "top", ![c] = "write"] /\ UNCHANGED <<op, sock>>
        BY <1>11, <2>2 DEF Start, localVars
      <3>2. ControlTypes'
        BY <3>1 DEF TypeInv, ControlTypes, HoldingPlaces
      <3>3. FlagTypes'
        BY <1>11, <2>2 DEF Start, TypeInv, FlagTypes
      <3> QED BY <1>11, <3>2, <3>3 DEF Start, TypeInv, LinkTypes, LocalTypes, linkVars, localVars
    <2> QED BY <2>1, <2>2
  <1>12. ASSUME NEW c \in Callers, Wait(c) PROVE TypeInv'
    <2>1. ControlTypes'
      BY <1>12, PlainMove DEF Wait, HoldingPlaces, localVars
    <2> QED BY <1>12, <2>1 DEF Wait, TypeInv, LinkTypes, FlagTypes, LocalTypes, linkVars, flagVars, localVars
  <1>13. ASSUME NEW c \in Callers, CloseBegin(c) PROVE TypeInv'
    <2>1. ControlTypes'
      BY <1>13, PlainMove DEF CloseBegin, HoldingPlaces, localVars
    <2>2. FlagTypes'
      BY <1>13 DEF CloseBegin, TypeInv, FlagTypes
    <2> QED BY <1>13, <2>1, <2>2 DEF CloseBegin, TypeInv, LinkTypes, LocalTypes, linkVars, localVars
  <1>14. ASSUME NEW c \in Callers, MeshClose(c) PROVE TypeInv'
    <2>1. ControlTypes'
      BY <1>14, PlainMove DEF MeshClose, HoldingPlaces, localVars
    <2>2. FlagTypes'
      BY <1>14 DEF MeshClose, TypeInv, FlagTypes
    <2> QED BY <1>14, <2>1, <2>2 DEF MeshClose, TypeInv, LinkTypes, LocalTypes, linkVars, localVars
  <1>15. ASSUME NEW c \in Callers, CloseStream(c) PROVE TypeInv'
    <2>1. ControlTypes'
      BY <1>15, PlainMove DEF CloseStream, HoldingPlaces, localVars
    <2>2. FlagTypes'
      BY <1>15 DEF CloseStream, TypeInv, FlagTypes
    <2> QED BY <1>15, <2>1, <2>2 DEF CloseStream, TypeInv, LinkTypes, LocalTypes, linkVars, localVars
  <1>16. ASSUME NEW c \in Callers, Take(c) PROVE TypeInv'
    <2>1. ControlTypes' /\ LocalTypes'
      <3>1. CASE socket = NoSocket
        <4>1. ControlTypes'
          BY <1>16, <3>1, PlainMove DEF Take, HoldingPlaces
        <4> QED BY <1>16, <3>1, <4>1 DEF Take, TypeInv, LocalTypes
      <3>2. CASE socket # NoSocket
        <4>1. socket \in Handles
          BY <3>2 DEF TypeInv, LinkTypes
        <4>2. ControlTypes'
          BY <1>16, <3>2, <4>1, TakingMove DEF Take
        <4> QED BY <1>16, <3>2, <4>2 DEF Take, TypeInv, LocalTypes, Conts
      <3> QED BY <3>1, <3>2
    <2>2. LinkTypes'
      BY <1>16 DEF Take, TypeInv, LinkTypes
    <2> QED BY <1>16, <2>1, <2>2 DEF Take, TypeInv, FlagTypes, flagVars
  <1>17. ASSUME Top PROVE TypeInv'
    <2>1. ControlTypes'
      BY <1>17, PlainMove DEF Top, At, HoldingPlaces, localVars
    <2>2. FlagTypes'
      BY <1>17 DEF Top, TypeInv, FlagTypes
    <2> QED BY <1>17, <2>1, <2>2 DEF Top, TypeInv, LinkTypes, LocalTypes, linkVars, flagVars, localVars
  <1>18. ASSUME Read PROVE TypeInv'
    <2>1. ControlTypes'
      <3>1. CASE socket = NoSocket
        BY <1>18, <3>1, PlainMove DEF Read, HoldingPlaces
      <3>2. CASE socket # NoSocket
        <4>1. socket \in Handles
          BY <3>2 DEF TypeInv, LinkTypes
        <4> QED BY <1>18, <3>2, <4>1, TakingMove DEF Read
      <3> QED BY <3>1, <3>2
    <2> QED BY <1>18, <2>1 DEF Read, TypeInv, LinkTypes, FlagTypes, LocalTypes, linkVars, flagVars
  <1>19. ASSUME Unread PROVE TypeInv'
    <2>1. ControlTypes'
      BY <1>19, PlainMove DEF Unread, At, HoldingPlaces, localVars
    <2> QED BY <1>19, <2>1 DEF Unread, TypeInv, LinkTypes, FlagTypes, LocalTypes, linkVars, flagVars, localVars
  <1>20. ASSUME RecvData PROVE TypeInv'
    <2>1. ControlTypes'
      BY <1>20, TakingMove DEF RecvData, HoldingPlaces
    <2>2. LinkTypes'
      <3>1. attempts' \in 0..MaxAttempts
        BY <1>20 DEF RecvData
      <3> QED BY <1>20, <3>1 DEF RecvData, TypeInv, LinkTypes
    <2> QED BY <1>20, <2>1, <2>2 DEF RecvData, TypeInv, FlagTypes, LocalTypes, flagVars
  <1>21. ASSUME RecvEof PROVE TypeInv'
    <2>1. ControlTypes'
      BY <1>21, PlainMove DEF RecvEof, At, HoldingPlaces, localVars
    <2>2. LocalTypes'
      BY <1>21 DEF RecvEof, TypeInv, LocalTypes, Conts
    <2> QED BY <1>21, <2>1, <2>2 DEF RecvEof, TypeInv, LinkTypes, FlagTypes, linkVars, flagVars, localVars
  <1>22. ASSUME Handle PROVE TypeInv'
    <2>1. ControlTypes' /\ FlagTypes'
      <3>1. CASE Goto(Reader, "top") /\ UNCHANGED connected
        BY <1>22, <3>1, PlainMove DEF Handle, HoldingPlaces, localVars, TypeInv, FlagTypes
      <3>2. CASE /\ op' = [op EXCEPT ![Reader] = "message"]
                 /\ pc' = [pc EXCEPT ![Reader] = "write"]
                 /\ connected' \in BOOLEAN
        <4>1. "message" \in Ops
          BY DEF Ops
        <4>2. ControlTypes'
          BY <1>22, <3>2, <4>1 DEF Handle, TypeInv, ControlTypes, HoldingPlaces, localVars
        <4> QED BY <1>22, <3>2, <4>2 DEF Handle, TypeInv, FlagTypes
      <3> QED BY <1>22, <3>1, <3>2 DEF Handle
    <2> QED BY <1>22, <2>1 DEF Handle, TypeInv, LinkTypes, LocalTypes, linkVars, localVars
  <1>23. ASSUME Plan PROVE TypeInv'
    <2>1. ControlTypes'
      BY <1>23, PlainMove DEF Plan, At, HoldingPlaces, localVars
    <2>2. LinkTypes'
      <3>1. attempts' \in 0..MaxAttempts
        BY <1>23 DEF Plan, TypeInv, LinkTypes
      <3>2. attemptLock' \in Threads \cup {NoSocket} /\ inProgress' \in BOOLEAN
        BY <1>23 DEF Plan, TypeInv, LinkTypes
      <3> QED BY <1>23, <3>1, <3>2 DEF Plan, TypeInv, LinkTypes
    <2> QED BY <1>23, <2>1, <2>2 DEF Plan, TypeInv, FlagTypes, LocalTypes, linkVars, flagVars, localVars
  <1>24. ASSUME GiveUp PROVE TypeInv'
    <2>1. ControlTypes'
      BY <1>24, PlainMove DEF GiveUp, At, HoldingPlaces, localVars
    <2>2. LinkTypes'
      BY <1>24 DEF GiveUp, TypeInv, LinkTypes
    <2>3. FlagTypes'
      BY <1>24 DEF GiveUp, TypeInv, FlagTypes
    <2> QED BY <1>24, <2>1, <2>2, <2>3 DEF GiveUp, TypeInv, LocalTypes, linkVars, flagVars, localVars
  <1>25. ASSUME Sleep PROVE TypeInv'
    <2>1. ControlTypes'
      BY <1>25, PlainMove DEF Sleep, At, HoldingPlaces, localVars
    <2> QED BY <1>25, <2>1 DEF Sleep, TypeInv, LinkTypes, FlagTypes, LocalTypes, linkVars, flagVars, localVars
  <1>26. ASSUME Post PROVE TypeInv'
    <2>1. ControlTypes'
      BY <1>26, PlainMove DEF Post, At, HoldingPlaces, localVars
    <2> QED BY <1>26, <2>1 DEF Post, TypeInv, LinkTypes, FlagTypes, LocalTypes, linkVars, flagVars, localVars
  <1>27. ASSUME Vet PROVE TypeInv'
    <2>1. CASE wantExit /\ socket = NoSocket
      <3>1. ControlTypes'
        BY <1>27, <2>1, PlainMove DEF Vet, HoldingPlaces
      <3> QED BY <1>27, <2>1, <3>1 DEF Vet, TypeInv, LinkTypes, FlagTypes, LocalTypes, linkVars, flagVars
    <2>2. CASE wantExit /\ socket # NoSocket
      <3>1. socket \in Handles
        BY <2>2 DEF TypeInv, LinkTypes
      <3>2. ControlTypes'
        BY <1>27, <2>2, <3>1, TakingMove DEF Vet
      <3>3. LocalTypes'
        BY <1>27, <2>2 DEF Vet, TypeInv, LocalTypes, Conts
      <3> QED BY <1>27, <3>2, <3>3 DEF Vet, TypeInv, LinkTypes, FlagTypes, linkVars, flagVars
    <2>3. CASE ~wantExit
      <3>1. "reconnect" \in Ops
        BY DEF Ops
      <3>2. ControlTypes'
        BY <1>27, <2>3, <3>1 DEF Vet, TypeInv, ControlTypes, HoldingPlaces
      <3>3. LocalTypes'
        BY <1>27, <2>3 DEF Vet, TypeInv, LocalTypes, LinkTypes
      <3> QED BY <1>27, <3>2, <3>3 DEF Vet, TypeInv, LinkTypes, FlagTypes, linkVars, flagVars
    <2> QED BY <1>27, <2>1, <2>2, <2>3
  <1>28. ASSUME Unconfig PROVE TypeInv'
    <2>1. CASE kept = NoSocket
      <3>1. ControlTypes'
        BY <1>28, <2>1, PlainMove DEF Unconfig, HoldingPlaces
      <3> QED BY <1>28, <2>1, <3>1 DEF Unconfig, TypeInv, LinkTypes, FlagTypes, LocalTypes, linkVars, flagVars
    <2>2. CASE kept # NoSocket
      <3>1. kept \in Handles
        BY <2>2 DEF TypeInv, LocalTypes
      <3>2. ControlTypes'
        BY <1>28, <2>2, <3>1, TakingMove DEF Unconfig
      <3>3. LocalTypes'
        BY <1>28, <2>2 DEF Unconfig, TypeInv, LocalTypes, Conts
      <3> QED BY <1>28, <3>2, <3>3 DEF Unconfig, TypeInv, LinkTypes, FlagTypes, linkVars, flagVars
    <2> QED BY <2>1, <2>2
  <1>29. ASSUME Confirm PROVE TypeInv'
    <2>1. ControlTypes'
      BY <1>29, PlainMove DEF Confirm, At, HoldingPlaces, localVars
    <2>2. LinkTypes'
      BY <1>29 DEF Confirm, TypeInv, LinkTypes
    <2> QED BY <1>29, <2>1, <2>2 DEF Confirm, TypeInv, FlagTypes, LocalTypes, linkVars, flagVars, localVars
  <1>30. ASSUME Finish PROVE TypeInv'
    <2>1. ControlTypes'
      BY <1>30, PlainMove DEF Finish, At, HoldingPlaces, localVars
    <2>2. LinkTypes'
      BY <1>30 DEF Finish, TypeInv, LinkTypes
    <2>3. LocalTypes'
      BY <1>30 DEF Finish, TypeInv, LocalTypes
    <2> QED BY <1>30, <2>1, <2>2, <2>3 DEF Finish, TypeInv, FlagTypes, linkVars, flagVars, localVars
  <1>31. ASSUME NEW h \in Handles, PeerDrops(h) PROVE TypeInv'
    <2>1. LinkTypes'
      BY <1>31 DEF PeerDrops, TypeInv, LinkTypes
    <2> QED BY <1>31, <2>1 DEF PeerDrops, TypeInv, FlagTypes, ControlTypes, LocalTypes, flagVars, localVars
  <1>32. CASE UNCHANGED vars
    BY <1>32 DEF vars, linkVars, flagVars, localVars, TypeInv, LinkTypes, FlagTypes, ControlTypes, LocalTypes
  <1> QED
    BY <1>1, <1>2, <1>3, <1>4, <1>5, <1>6, <1>7, <1>8, <1>9, <1>10, <1>11, <1>12, <1>13, <1>14,
       <1>15, <1>16, <1>17, <1>18, <1>19, <1>20, <1>21, <1>22, <1>23, <1>24, <1>25, <1>26, <1>27,
       <1>28, <1>29, <1>30, <1>31, <1>32 DEF Next, CallerStep, IoStep, ReaderStep

\* Every reachable state has the declared types.
THEOREM TypesHold == Spec => []TypeOK
  <1>1. Spec => []TypeInv
    BY TypeInit, TypeStep, PTL DEF Spec
  <1> QED BY <1>1, TypesImplied, PTL

----------------------------------------------------------------------------
(* Handles.                                                                *)

\* The places at which a thread alone accounts for a handle.
Owning == {"adopt", "shut"}

\* A socket the platform has not handed out is known to nobody.
Unseen == \A h \in Handles : native[h] = "unused" =>
    socket # h /\ kept # h /\ \A t \in Threads : sock[t] # h

\* A socket on offer is known to its own thread only.
Offered == \A t \in Threads : pc[t] = "adopt" =>
    /\ native[sock[t]] \in {"open", "dead"}
    /\ sock[t] # socket /\ sock[t] # kept
    /\ \A u \in Threads : u # t => sock[u] # sock[t]

Published == socket # NoSocket => native[socket] \in {"open", "dead"}

\* What a thread is about to close is no longer published.
Withdrawn == \A t \in Threads : pc[t] = "shut" => sock[t] # socket

Accounted == \A h \in Handles : native[h] \in {"open", "dead"} /\ h # socket =>
    \E t \in Threads : pc[t] \in Owning /\ sock[t] = h

HandleInv == Unseen /\ Offered /\ Published /\ Withdrawn /\ Accounted

\* A step that leaves the published socket, the native states and the owning
\* threads alone, and copies only handles that were published or kept.
Calm ==
    /\ UNCHANGED <<socket, native>>
    /\ kept' \in {kept, NoSocket, socket}
    /\ \A t \in Threads :
          /\ sock'[t] \in {sock[t], NoSocket, socket, kept}
          /\ pc[t] \in Owning \/ pc'[t] \in Owning =>
                pc'[t] = pc[t] /\ sock'[t] = sock[t]

LEMMA HandleInit == Init => HandleInv
  BY Constants DEF Init, HandleInv, Unseen, Offered, Published, Withdrawn, Accounted

LEMMA CalmKeepsHandles == ASSUME TypeInv, HandleInv, Calm PROVE HandleInv'
  <1> USE Constants
  <1>1. Unseen'
    BY DEF HandleInv, Unseen, Calm
  <1>2. Offered'
    <2> SUFFICES ASSUME NEW t \in Threads, pc'[t] = "adopt"
                 PROVE /\ native[sock'[t]] \in {"open", "dead"}
                       /\ sock'[t] # socket /\ sock'[t] # kept'
                       /\ \A u \in Threads : u # t => sock'[u] # sock'[t]
      BY DEF Offered, Calm
    <2>1. pc[t] = "adopt" /\ sock'[t] = sock[t]
      BY DEF Calm, Owning
    <2>2. sock[t] \in Handles
      BY <2>1 DEF TypeInv, ControlTypes, HoldingPlaces
    <2> QED BY <2>1, <2>2 DEF HandleInv, Offered, Calm
  <1>3. Published'
    BY DEF HandleInv, Published, Calm
  <1>4. Withdrawn'
    BY DEF HandleInv, Withdrawn, Calm, Owning
  <1>5. Accounted'
    BY DEF HandleInv, Accounted, Calm
  <1> QED BY <1>1, <1>2, <1>3, <1>4, <1>5 DEF HandleInv

\* A move between places that own no handle.
LEMMA CalmMove ==
  ASSUME TypeInv, NEW t \in Threads, NEW l \in Places, Goto(t, l), pc[t] \notin Owning, l \notin Owning,
         UNCHANGED <<socket, native>>, kept' \in {kept, NoSocket, socket},
         NEW h \in {sock[t], NoSocket, socket, kept}, sock' = [sock EXCEPT ![t] = h]
  PROVE  Calm
  BY GotoMoves DEF TypeInv, ControlTypes, Calm

\* ... that touches no handle either.
LEMMA CalmPlainMove ==
  ASSUME TypeInv, NEW t \in Threads, NEW l \in Places, Goto(t, l), pc[t] \notin Owning, l \notin Owning,
         UNCHANGED <<socket, native, sock>>, kept' \in {kept, NoSocket, socket}
  PROVE  Calm
  BY GotoMoves DEF TypeInv, ControlTypes, Calm

CalmStep ==
    \/ \E c \in Callers, o \in {"write", "connect", "close"} : Begin(c, o)
    \/ \E c \in Callers : \/ Conn(c) \/ Start(c) \/ Wait(c)
                          \/ CloseBegin(c) \/ MeshClose(c) \/ CloseStream(c)
    \/ \E t \in Threads : Write(t) \/ SendSucceeds(t) \/ SendFails(t) \/ DialFails(t)
    \/ ReaderStep \/ RecvData
    \/ UNCHANGED vars

LEMMA CalmSteps == ASSUME TypeInv, CalmStep PROVE Calm
  <1> USE Constants, PlaceNames DEF Owning, At
  <1>1. ASSUME NEW c \in Callers, NEW o \in {"write", "connect", "close"}, Begin(c, o) PROVE Calm
    BY <1>1 DEF Begin, Calm, TypeInv, ControlTypes, linkVars
  <1>2. ASSUME NEW c \in Callers, Conn(c) PROVE Calm
    BY <1>2, CalmPlainMove DEF Conn, localVars
  <1>3. ASSUME NEW c \in Callers, Start(c) PROVE Calm
    <2>1. CASE closeInProgress \/ ReaderAlive
      BY <1>3, <2>1, CalmPlainMove DEF Start, linkVars, localVars
    <2>2. CASE ~(closeInProgress \/ ReaderAlive)
      BY <1>3, <2>2 DEF Start, Calm, TypeInv, ControlTypes, ReaderAlive, linkVars, localVars
    <2> QED BY <2>1, <2>2
  <1>4. ASSUME NEW c \in Callers, Wait(c) PROVE Calm
    BY <1>4, CalmPlainMove DEF Wait, linkVars, localVars
  <1>5. ASSUME NEW c \in Callers, CloseBegin(c) PROVE Calm
    BY <1>5, CalmPlainMove DEF CloseBegin, linkVars, localVars
  <1>6. ASSUME NEW c \in Callers, MeshClose(c) PROVE Calm
    BY <1>6, CalmPlainMove DEF MeshClose, linkVars, localVars
  <1>7. ASSUME NEW c \in Callers, CloseStream(c) PROVE Calm
    BY <1>7, CalmPlainMove DEF CloseStream, linkVars, localVars
  <1>8. ASSUME NEW t \in Threads, Write(t) PROVE Calm
    <2>1. CASE socket = NoSocket
      <3>1. NotSent(t) \in Places /\ NotSent(t) \notin Owning
        BY Continuations DEF Conts
      <3> QED BY <1>8, <2>1, <3>1, CalmPlainMove DEF Write, linkVars
    <2>2. CASE socket # NoSocket
      BY <1>8, <2>2, CalmMove DEF Write, linkVars
    <2> QED BY <2>1, <2>2
  <1>9. ASSUME NEW t \in Threads, SendSucceeds(t) PROVE Calm
    <2>1. Sent(t) \in Places /\ Sent(t) \notin Owning
      BY Continuations DEF HoldingPlaces
    <2> QED BY <1>9, <2>1, CalmMove DEF SendSucceeds, linkVars
  <1>10. ASSUME NEW t \in Threads, SendFails(t) PROVE Calm
    BY <1>10, CalmPlainMove DEF SendFails, linkVars
  <1>11. ASSUME NEW t \in Threads, DialFails(t) PROVE Calm
    BY <1>11, CalmPlainMove DEF DialFails, localVars
  <1>12. ASSUME Top PROVE Calm
    BY <1>12, CalmPlainMove DEF Top, linkVars, localVars
  <1>13. ASSUME Read PROVE Calm
    <2>1. CASE socket = NoSocket
      BY <1>13, <2>1, CalmPlainMove DEF Read, linkVars
    <2>2. CASE socket # NoSocket
      BY <1>13, <2>2, CalmMove DEF Read, linkVars
    <2> QED BY <2>1, <2>2
  <1>14. ASSUME Unread PROVE Calm
    BY <1>14, CalmPlainMove DEF Unread, linkVars, localVars
  <1>15. ASSUME RecvData PROVE Calm
    BY <1>15, CalmMove DEF RecvData
  <1>16. ASSUME RecvEof PROVE Calm
    BY <1>16, CalmPlainMove DEF RecvEof, linkVars
  <1>17. ASSUME Handle PROVE Calm
    <2>1. CASE Goto(Reader, "top")
      BY <1>17, <2>1, CalmPlainMove DEF Handle, linkVars, localVars
    <2>2. CASE pc' = [pc EXCEPT ![Reader] = "write"]
      BY <1>17, <2>2 DEF Handle, Calm, TypeInv, ControlTypes, linkVars, localVars
    <2> QED BY <1>17, <2>1, <2>2 DEF Handle
  <1>18. ASSUME Plan PROVE Calm
    BY <1>18, CalmPlainMove DEF Plan, localVars
  <1>19. ASSUME GiveUp PROVE Calm
    BY <1>19, CalmPlainMove DEF GiveUp, localVars
  <1>20. ASSUME Sleep PROVE Calm
    BY <1>20, CalmPlainMove DEF Sleep, linkVars, localVars
  <1>21. ASSUME Post PROVE Calm
    BY <1>21, CalmPlainMove DEF Post, linkVars, localVars
  <1>22. ASSUME Vet PROVE Calm
    <2>1. CASE wantExit /\ socket = NoSocket
      BY <1>22, <2>1, CalmPlainMove DEF Vet, linkVars
    <2>2. CASE wantExit /\ socket # NoSocket
      BY <1>22, <2>2, CalmMove DEF Vet, linkVars
    <2>3. CASE ~wantExit
      BY <1>22, <2>3 DEF Vet, Calm, TypeInv, ControlTypes, linkVars
    <2> QED BY <2>1, <2>2, <2>3
  <1>23. ASSUME Unconfig PROVE Calm
    <2>1. CASE kept = NoSocket
      BY <1>23, <2>1, CalmPlainMove DEF Unconfig, linkVars
    <2>2. CASE kept # NoSocket
      BY <1>23, <2>2, CalmMove DEF Unconfig, linkVars
    <2> QED BY <2>1, <2>2
  <1>24. ASSUME Confirm PROVE Calm
    BY <1>24, CalmPlainMove DEF Confirm, localVars
  <1>25. ASSUME Finish PROVE Calm
    BY <1>25, CalmPlainMove DEF Finish
  <1>26. CASE UNCHANGED vars
    BY <1>26 DEF vars, linkVars, localVars, Calm
  <1> QED
    BY <1>1, <1>2, <1>3, <1>4, <1>5, <1>6, <1>7, <1>8, <1>9, <1>10, <1>11, <1>12, <1>13, <1>14,
       <1>15, <1>16, <1>17, <1>18, <1>19, <1>20, <1>21, <1>22, <1>23, <1>24, <1>25, <1>26
       DEF CalmStep, ReaderStep

\* The six actions that are not calm.
LEMMA DropKeepsHandles ==
  ASSUME TypeInv, HandleInv, NEW t \in Threads, Drop(t) PROVE HandleInv'
  <1> USE Constants
  <1>1. /\ pc[t] = "drop" /\ pc'[t] = "shut" /\ \A u \in Threads : u # t => pc'[u] = pc[u]
        /\ UNCHANGED <<native, sock, kept>> /\ sock[t] \in Handles
        /\ socket' = IF socket = sock[t] THEN NoSocket ELSE socket
    BY GotoMoves, PlaceNames DEF Drop, At, TypeInv, ControlTypes, HoldingPlaces
  <1>2. Unseen'
    BY <1>1 DEF HandleInv, Unseen
  <1>3. Offered'
    <2> SUFFICES ASSUME NEW v \in Threads, pc'[v] = "adopt"
                 PROVE /\ native[sock[v]] \in {"open", "dead"}
                       /\ sock[v] # socket' /\ sock[v] # kept
                       /\ \A u \in Threads : u # v => sock[u] # sock[v]
      BY <1>1 DEF Offered
    <2>1. pc[v] = "adopt" /\ sock[v] \in Handles
      BY <1>1 DEF TypeInv, ControlTypes, HoldingPlaces
    <2> QED BY <1>1, <2>1 DEF HandleInv, Offered
  <1>4. Published'
    BY <1>1 DEF HandleInv, Published
  <1>5. Withdrawn'
    <2> SUFFICES ASSUME NEW v \in Threads, pc'[v] = "shut" PROVE sock[v] # socket'
      BY <1>1 DEF Withdrawn
    <2>1. sock[v] \in Handles
      BY <1>1 DEF TypeInv, ControlTypes, HoldingPlaces
    <2> QED BY <1>1, <2>1 DEF HandleInv, Withdrawn
  <1>6. Accounted'
    <2> SUFFICES ASSUME NEW h \in Handles, native[h] \in {"open", "dead"}, h # socket'
                 PROVE \E u \in Threads : pc'[u] \in Owning /\ sock[u] = h
      BY <1>1 DEF Accounted
    <2>1. CASE h = sock[t]
      BY <1>1, <2>1 DEF Owning
    <2>2. CASE h # sock[t]
      <3>1. PICK u \in Threads : pc[u] \in Owning /\ sock[u] = h
        BY <1>1, <2>2 DEF HandleInv, Accounted
      <3> QED BY <1>1, <2>2, <3>1
    <2> QED BY <2>1, <2>2
  <1> QED BY <1>2, <1>3, <1>4, <1>5, <1>6 DEF HandleInv

LEMMA ShutKeepsHandles ==
  ASSUME TypeInv, HandleInv, NEW t \in Threads, Shut(t) PROVE HandleInv'
  <1> USE Constants
  <1>1. /\ pc[t] = "shut" /\ pc'[t] \notin Owning /\ \A u \in Threads : u # t => pc'[u] = pc[u]
        /\ sock[t] \in Handles
    <2>1. cont[t] \in Conts
      BY DEF TypeInv, LocalTypes
    <2> QED BY <2>1, GotoMoves, PlaceNames DEF Shut, At, TypeInv, ControlTypes, HoldingPlaces, Owning
  <1>2. /\ UNCHANGED <<socket, kept>> /\ sock' = [sock EXCEPT ![t] = NoSocket]
        /\ native' = [native EXCEPT ![sock[t]] = "closed"]
        /\ sock \in [Threads -> Handles \cup {NoSocket}]
        /\ native \in [Handles -> {"unused", "open", "dead", "closed"}]
    BY DEF Shut, TypeInv, LinkTypes, ControlTypes
  <1>3. Unseen'
    BY <1>1, <1>2 DEF HandleInv, Unseen
  <1>4. Offered'
    <2> SUFFICES ASSUME NEW v \in Threads, pc'[v] = "adopt"
                 PROVE /\ native'[sock'[v]] \in {"open", "dead"}
                       /\ sock'[v] # socket /\ sock'[v] # kept
                       /\ \A u \in Threads : u # v => sock'[u] # sock'[v]
      BY <1>2 DEF Offered
    <2>1. v # t /\ pc[v] = "adopt" /\ sock[v] \in Handles
      BY <1>1 DEF TypeInv, ControlTypes, HoldingPlaces, Owning
    <2> QED BY <1>1, <1>2, <2>1 DEF HandleInv, Offered
  <1>5. Published'
    BY <1>1, <1>2 DEF HandleInv, Published, Withdrawn, TypeInv, LinkTypes
  <1>6. Withdrawn'
    BY <1>1, <1>2 DEF HandleInv, Withdrawn, Owning
  <1>7. Accounted'
    <2> SUFFICES ASSUME NEW h \in Handles, native'[h] \in {"open", "dead"}, h # socket
                 PROVE \E u \in Threads : pc'[u] \in Owning /\ sock'[u] = h
      BY <1>2 DEF Accounted
    <2>1. h # sock[t] /\ native[h] \in {"open", "dead"}
      BY <1>1, <1>2
    <2>2. PICK u \in Threads : pc[u] \in Owning /\ sock[u] = h
      BY <2>1 DEF HandleInv, Accounted
    <2> QED BY <1>1, <1>2, <2>1, <2>2
  <1> QED BY <1>3, <1>4, <1>5, <1>6, <1>7 DEF HandleInv

LEMMA DialKeepsHandles ==
  ASSUME TypeInv, HandleInv, NEW t \in Threads, DialSucceeds(t) PROVE HandleInv'
  <1> USE Constants
  <1>1. PICK h \in Handles : /\ native[h] = "unused"
                             /\ native' = [native EXCEPT ![h] = "open"]
                             /\ sock' = [sock EXCEPT ![t] = h]
    BY DEF DialSucceeds, Fresh
  <1>2. /\ pc[t] = "dial" /\ pc'[t] = "adopt" /\ \A u \in Threads : u # t => pc'[u] = pc[u]
        /\ UNCHANGED <<socket, kept>>
    BY GotoMoves, PlaceNames DEF DialSucceeds, At
  <1>3. /\ sock \in [Threads -> Handles \cup {NoSocket}]
        /\ native \in [Handles -> {"unused", "open", "dead", "closed"}]
        /\ h # socket /\ h # kept /\ \A u \in Threads : sock[u] # h
    BY <1>1 DEF TypeInv, LinkTypes, ControlTypes, HandleInv, Unseen
  <1>4. Unseen'
    BY <1>1, <1>2, <1>3 DEF HandleInv, Unseen
  <1>5. Offered'
    <2> SUFFICES ASSUME NEW v \in Threads, pc'[v] = "adopt"
                 PROVE /\ native'[sock'[v]] \in {"open", "dead"}
                       /\ sock'[v] # socket /\ sock'[v] # kept
                       /\ \A u \in Threads : u # v => sock'[u] # sock'[v]
      BY <1>2 DEF Offered
    <2>1. CASE v = t
      BY <1>1, <1>3, <2>1
    <2>2. CASE v # t
      <3>1. pc[v] = "adopt" /\ sock[v] \in Handles
        BY <1>2, <2>2 DEF TypeInv, ControlTypes, HoldingPlaces
      <3> QED BY <1>1, <1>3, <2>2, <3>1 DEF HandleInv, Offered
    <2> QED BY <2>1, <2>2
  <1>6. Published'
    BY <1>1, <1>2, <1>3 DEF HandleInv, Published, TypeInv, LinkTypes
  <1>7. Withdrawn'
    BY <1>1, <1>2, <1>3 DEF HandleInv, Withdrawn
  <1>8. Accounted'
    <2> SUFFICES ASSUME NEW g \in Handles, native'[g] \in {"open", "dead"}, g # socket
                 PROVE \E u \in Threads : pc'[u] \in Owning /\ sock'[u] = g
      BY <1>2 DEF Accounted
    <2>1. CASE g = h
      BY <1>1, <1>2, <1>3, <2>1 DEF Owning
    <2>2. CASE g # h
      <3>1. PICK u \in Threads : pc[u] \in Owning /\ sock[u] = g
        BY <1>1, <1>3, <2>2 DEF HandleInv, Accounted
      <3> QED BY <1>1, <1>2, <1>3, <3>1 DEF Owning
    <2> QED BY <2>1, <2>2
  <1> QED BY <1>4, <1>5, <1>6, <1>7, <1>8 DEF HandleInv

LEMMA AdoptKeepsHandles ==
  ASSUME TypeInv, HandleInv, NEW t \in Threads, Adopt(t) PROVE HandleInv'
  <1> USE Constants
  <1>1. /\ pc[t] = "adopt" /\ sock[t] \in Handles /\ UNCHANGED <<native, kept>>
        /\ sock \in [Threads -> Handles \cup {NoSocket}]
    BY DEF Adopt, At, TypeInv, ControlTypes, HoldingPlaces
  <1>2. /\ native[sock[t]] \in {"open", "dead"} /\ sock[t] # socket /\ sock[t] # kept
        /\ \A u \in Threads : u # t => sock[u] # sock[t]
    BY <1>1 DEF HandleInv, Offered
  <1>3. CASE wantExit \/ socket # NoSocket
    <2>1. /\ pc'[t] = "shut" /\ \A u \in Threads : u # t => pc'[u] = pc[u]
          /\ UNCHANGED <<socket, sock>>
      BY <1>3, GotoMoves, PlaceNames DEF Adopt
    <2>2. Unseen' /\ Published'
      BY <1>1, <2>1 DEF HandleInv, Unseen, Published
    <2>3. Offered'
      BY <1>1, <2>1 DEF HandleInv, Offered
    <2>4. Withdrawn'
      BY <1>2, <2>1 DEF HandleInv, Withdrawn
    <2>5. Accounted'
      BY <1>1, <2>1 DEF HandleInv, Accounted, Owning
    <2> QED BY <2>2, <2>3, <2>4, <2>5 DEF HandleInv
  <1>4. CASE ~(wantExit \/ socket # NoSocket)
    <2>1. /\ pc'[t] \notin Owning /\ \A u \in Threads : u # t => pc'[u] = pc[u]
          /\ socket = NoSocket /\ socket' = sock[t] /\ sock' = [sock EXCEPT ![t] = NoSocket]
      <3>1. AfterConnect(t) \in Places /\ AfterConnect(t) \notin Owning
        BY PlaceNames, Continuations DEF Conts, Owning
      <3> QED BY <1>4, <3>1, GotoMoves DEF Adopt
    <2>2. Unseen' /\ Published'
      BY <1>1, <1>2, <2>1 DEF HandleInv, Unseen, Published
    <2>3. Offered'
      <3> SUFFICES ASSUME NEW v \in Threads, pc'[v] = "adopt"
                   PROVE /\ native[sock'[v]] \in {"open", "dead"}
                         /\ sock'[v] # sock[t] /\ sock'[v] # kept
                         /\ \A u \in Threads : u # v => sock'[u] # sock'[v]
        BY <1>1, <2>1 DEF Offered
      <3>1. v # t /\ pc[v] = "adopt" /\ sock[v] \in Handles
        BY <2>1 DEF TypeInv, ControlTypes, HoldingPlaces, Owning
      <3> QED BY <1>1, <1>2, <2>1, <3>1 DEF HandleInv, Offered
    <2>4. Withdrawn'
      BY <1>1, <1>2, <2>1 DEF Withdrawn, Owning
    <2>5. Accounted'
      <3> SUFFICES ASSUME NEW h \in Handles, native[h] \in {"open", "dead"}, h # sock[t]
                   PROVE \E u \in Threads : pc'[u] \in Owning /\ sock'[u] = h
        BY <1>1, <2>1 DEF Accounted
      <3>1. PICK u \in Threads : pc[u] \in Owning /\ sock[u] = h
        BY <2>1 DEF HandleInv, Accounted
      <3> QED BY <1>1, <2>1, <3>1
    <2> QED BY <2>2, <2>3, <2>4, <2>5 DEF HandleInv
  <1> QED BY <1>3, <1>4

LEMMA TakeKeepsHandles ==
  ASSUME TypeInv, HandleInv, NEW c \in Callers, Take(c) PROVE HandleInv'
  <1> USE Constants
  <1>1. CASE socket = NoSocket
    BY <1>1, CalmPlainMove, CalmKeepsHandles, PlaceNames DEF Take, At, Owning
  <1>2. CASE socket # NoSocket
    <2>1. /\ pc[c] = "take" /\ pc'[c] = "shut" /\ \A u \in Threads : u # c => pc'[u] = pc[u]
          /\ socket' = NoSocket /\ sock' = [sock EXCEPT ![c] = socket] /\ UNCHANGED <<native, kept>>
      BY <1>2, GotoMoves, PlaceNames DEF Take, At
    <2>2. /\ sock \in [Threads -> Handles \cup {NoSocket}] /\ socket \in Handles
          /\ native[socket] \in {"open", "dead"}
      BY <1>2 DEF TypeInv, LinkTypes, ControlTypes, HandleInv, Published
    <2>3. Unseen' /\ Published'
      BY <2>1, <2>2 DEF HandleInv, Unseen, Published
    <2>4. Offered'
      <3> SUFFICES ASSUME NEW v \in Threads, pc'[v] = "adopt"
                   PROVE /\ native[sock'[v]] \in {"open", "dead"}
                         /\ sock'[v] # NoSocket /\ sock'[v] # kept
                         /\ \A u \in Threads : u # v => sock'[u] # sock'[v]
        BY <2>1 DEF Offered
      <3>1. v # c /\ pc[v] = "adopt" /\ sock[v] \in Handles
        BY <2>1 DEF TypeInv, ControlTypes, HoldingPlaces
      <3> QED BY <2>1, <2>2, <3>1 DEF HandleInv, Offered
    <2>5. Withdrawn'
      <3> SUFFICES ASSUME NEW v \in Threads, pc'[v] = "shut" PROVE sock'[v] # NoSocket
        BY <2>1 DEF Withdrawn
      <3>1. v = c \/ sock[v] \in Handles
        BY <2>1 DEF TypeInv, ControlTypes, HoldingPlaces
      <3> QED BY <2>1, <2>2, <3>1
    <2>6. Accounted'
      <3> SUFFICES ASSUME NEW h \in Handles, native[h] \in {"open", "dead"}
                   PROVE \E u \in Threads : pc'[u] \in Owning /\ sock'[u] = h
        BY <2>1 DEF Accounted
      <3>1. CASE h = socket
        BY <2>1, <2>2, <3>1 DEF Owning
      <3>2. CASE h # socket
        <4>1. PICK u \in Threads : pc[u] \in Owning /\ sock[u] = h
          BY <3>2 DEF HandleInv, Accounted
        <4> QED BY <2>1, <2>2, <4>1 DEF Owning
      <3> QED BY <3>1, <3>2
    <2> QED BY <2>3, <2>4, <2>5, <2>6 DEF HandleInv
  <1> QED BY <1>1, <1>2

LEMMA PeerDropsKeepsHandles ==
  ASSUME TypeInv, HandleInv, NEW h \in Handles, PeerDrops(h) PROVE HandleInv'
  <1> USE Constants
  <1>1. /\ native[h] = "open" /\ native' = [native EXCEPT ![h] = "dead"]
        /\ native \in [Handles -> {"unused", "open", "dead", "closed"}]
        /\ UNCHANGED <<socket, pc, sock, kept>>
    BY DEF PeerDrops, localVars, TypeInv, LinkTypes
  <1>2. Unseen' /\ Withdrawn'
    BY <1>1 DEF HandleInv, Unseen, Withdrawn
  <1>3. Published' /\ Accounted'
    BY <1>1 DEF HandleInv, Published, Accounted, TypeInv, LinkTypes
  <1>4. Offered'
    BY <1>1 DEF HandleInv, Offered, TypeInv, ControlTypes, HoldingPlaces
  <1> QED BY <1>2, <1>3, <1>4 DEF HandleInv

\* The steps of the specification, as the handle proofs split them.
LEMMA StepKinds ==
  ASSUME [Next]_vars
  PROVE  \/ CalmStep
         \/ \E t \in Threads : Drop(t) \/ Shut(t) \/ DialSucceeds(t) \/ Adopt(t)
         \/ \E c \in Callers : Take(c)
         \/ \E h \in Handles : PeerDrops(h)
  BY DEF Next, CallerStep, IoStep, CalmStep

LEMMA HandleStep == TypeInv /\ HandleInv /\ [Next]_vars => HandleInv'
  BY StepKinds, CalmSteps, CalmKeepsHandles, DropKeepsHandles, ShutKeepsHandles, DialKeepsHandles,
     AdoptKeepsHandles, TakeKeepsHandles, PeerDropsKeepsHandles

LEMMA HandlesHold == Spec => [](TypeInv /\ HandleInv)
  BY TypeInit, HandleInit, TypeStep, HandleStep, PTL DEF Spec

\* The published socket is never one that has been closed.
THEOREM PublishedNeverClosed == Spec => []PublishedIsNotClosed
  <1>1. HandleInv => PublishedIsNotClosed
    BY DEF HandleInv, Published, PublishedIsNotClosed
  <1> QED BY <1>1, HandlesHold, PTL

\* No native socket leaks, on any path.
THEOREM EverySocketIsAccountedFor == Spec => []NoSocketLeaks
  <1>1. TypeInv /\ HandleInv => NoSocketLeaks
    BY DEF TypeInv, LinkTypes, HandleInv, Accounted, NoSocketLeaks, PhaseOf, Owning, At
  <1> QED BY <1>1, HandlesHold, PTL

----------------------------------------------------------------------------
(* Who may dial.                                                           *)

DialPlaces == {"dial", "adopt"}
AttemptPlaces == {"sleep", "dial", "adopt"}

\* A caller that opens a socket holds the attempt lock; the reader's attempt is
\* marked in progress; the two never overlap.
Dialing ==
    /\ \A c \in Callers : pc[c] \in DialPlaces =>
          attemptLock = c /\ pc[Reader] \notin AttemptPlaces
    /\ pc[Reader] \in AttemptPlaces => inProgress
    /\ pc[Reader] = "giveup" => attemptLock = Reader

LEMMA DialingInit == Init => Dialing
  BY Constants DEF Init, Dialing, DialPlaces, AttemptPlaces

\* A step that takes no thread to a dialling place, does not release the attempt
\* lock of another thread, and ends the reader's attempt if it clears the flag.
LEMMA QuietKeepsDialing ==
  ASSUME TypeInv, Dialing,
         \A c \in Callers : pc'[c] \in DialPlaces => pc[c] \in DialPlaces /\ attemptLock' = attemptLock,
         pc'[Reader] \in AttemptPlaces => pc[Reader] \in AttemptPlaces /\ inProgress' = inProgress,
         pc'[Reader] = "giveup" => pc[Reader] = "giveup" /\ attemptLock' = attemptLock
  PROVE  Dialing'
  BY Constants DEF Dialing

LEMMA DialingStep == TypeInv /\ Dialing /\ [Next]_vars => Dialing'
  <1> SUFFICES ASSUME TypeInv, Dialing, [Next]_vars PROVE Dialing' OBVIOUS
  <1> USE Constants, PlaceNames DEF DialPlaces, AttemptPlaces, At
  <1>a. \A t \in Threads, l \in Places : Goto(t, l) =>
           pc'[t] = l /\ \A u \in Threads : u # t => pc'[u] = pc[u]
    BY GotoMoves
  <1>1. ASSUME NEW c \in Callers, NEW o \in {"write", "connect", "close"}, Begin(c, o) PROVE Dialing'
    BY <1>1, QuietKeepsDialing DEF Begin, TypeInv, ControlTypes, linkVars
  <1>2. ASSUME NEW t \in Threads, Write(t) PROVE Dialing'
    <2>1. NotSent(t) \in Places /\ NotSent(t) \notin DialPlaces \cup AttemptPlaces \cup {"giveup"}
      BY Continuations DEF Conts
    <2> QED BY <1>a, <1>2, <2>1, QuietKeepsDialing DEF Write, linkVars
  <1>3. ASSUME NEW t \in Threads, SendSucceeds(t) PROVE Dialing'
    <2>1. Sent(t) \in Places /\ Sent(t) \notin DialPlaces \cup AttemptPlaces \cup {"giveup"}
      BY Continuations DEF Sent
    <2> QED BY <1>a, <1>3, <2>1, QuietKeepsDialing DEF SendSucceeds, linkVars
  <1>4. ASSUME NEW t \in Threads, SendFails(t) PROVE Dialing'
    BY <1>a, <1>4, QuietKeepsDialing DEF SendFails, linkVars
  <1>5. ASSUME NEW t \in Threads, Drop(t) PROVE Dialing'
    BY <1>a, <1>5, QuietKeepsDialing DEF Drop
  <1>6. ASSUME NEW t \in Threads, Shut(t) PROVE Dialing'
    <2>1. cont[t] \in Conts
      BY DEF TypeInv, LocalTypes
    <2>2. pc[t] = "shut" /\ pc'[t] = cont[t] /\ \A u \in Threads : u # t => pc'[u] = pc[u]
      BY <1>a, <1>6, <2>1 DEF Shut
    <2>3. cont[t] \notin DialPlaces \cup AttemptPlaces \cup {"giveup"}
      BY <2>1 DEF Conts
    <2>4. inProgress' = inProgress /\ attemptLock' = IF attemptLock = t THEN NoSocket ELSE attemptLock
      BY <1>6 DEF Shut
    <2> QED BY <2>2, <2>3, <2>4, QuietKeepsDialing DEF Dialing
  <1>7. ASSUME NEW t \in Threads, DialSucceeds(t) PROVE Dialing'
    <2>1. pc[t] = "dial" /\ pc'[t] = "adopt" /\ \A u \in Threads : u # t => pc'[u] = pc[u]
      BY <1>a, <1>7 DEF DialSucceeds
    <2> QED BY <1>7, <2>1, QuietKeepsDialing DEF DialSucceeds
  <1>8. ASSUME NEW t \in Threads, DialFails(t) PROVE Dialing'
    <2>1. /\ pc[t] = "dial" /\ pc'[t] \in {"finish", "idle"} /\ \A u \in Threads : u # t => pc'[u] = pc[u]
          /\ inProgress' = inProgress /\ attemptLock' = IF attemptLock = t THEN NoSocket ELSE attemptLock
      BY <1>a, <1>8 DEF DialFails
    <2> QED BY <2>1, QuietKeepsDialing DEF Dialing
  <1>9. ASSUME NEW t \in Threads, Adopt(t) PROVE Dialing'
    <2>1. AfterConnect(t) \in {"post", "start"}
      BY DEF AfterConnect
    <2>2. /\ pc[t] = "adopt" /\ pc'[t] \in {"post", "start", "shut"}
          /\ \A u \in Threads : u # t => pc'[u] = pc[u]
          /\ inProgress' = inProgress
          /\ attemptLock' = attemptLock \/ attemptLock = t
      BY <1>a, <1>9, <2>1 DEF Adopt
    <2> QED BY <2>2, QuietKeepsDialing DEF Dialing
  <1>10. ASSUME NEW c \in Callers, Conn(c) PROVE Dialing'
    <2>1. CASE Goto(c, "dial")
      BY <1>a, <1>10, <2>1 DEF Conn, Dialing
    <2>2. CASE Goto(c, "start") \/ Goto(c, "idle")
      BY <1>a, <1>10, <2>2, QuietKeepsDialing DEF Conn, Goto
    <2> QED BY <1>10, <2>1, <2>2 DEF Conn
  <1>11. ASSUME NEW c \in Callers, Start(c) PROVE Dialing'
    <2>1. CASE closeInProgress \/ ReaderAlive
      BY <1>a, <1>11, <2>1, QuietKeepsDialing DEF Start, linkVars
    <2>2. CASE ~(closeInProgress \/ ReaderAlive)
      BY <1>11, <2>2, QuietKeepsDialing DEF Start, linkVars, TypeInv, ControlTypes
    <2> QED BY <2>1, <2>2
  <1>12. ASSUME NEW c \in Callers, Wait(c) PROVE Dialing'
    BY <1>a, <1>12, QuietKeepsDialing DEF Wait, linkVars
  <1>13. ASSUME NEW c \in Callers, CloseBegin(c) PROVE Dialing'
    BY <1>a, <1>13, QuietKeepsDialing DEF CloseBegin, linkVars
  <1>14. ASSUME NEW c \in Callers, MeshClose(c) PROVE Dialing'
    BY <1>a, <1>14, QuietKeepsDialing DEF MeshClose, linkVars
  <1>15. ASSUME NEW c \in Callers, CloseStream(c) PROVE Dialing'
    BY <1>a, <1>15, QuietKeepsDialing DEF CloseStream, linkVars
  <1>16. ASSUME NEW c \in Callers, Take(c) PROVE Dialing'
    BY <1>a, <1>16, QuietKeepsDialing DEF Take
  <1>17. ASSUME Top PROVE Dialing'
    BY <1>a, <1>17, QuietKeepsDialing DEF Top, linkVars
  <1>18. ASSUME Read PROVE Dialing'
    BY <1>a, <1>18, QuietKeepsDialing DEF Read, linkVars
  <1>19. ASSUME Unread PROVE Dialing'
    BY <1>a, <1>19, QuietKeepsDialing DEF Unread, linkVars
  <1>20. ASSUME RecvData PROVE Dialing'
    BY <1>a, <1>20, QuietKeepsDialing DEF RecvData
  <1>21. ASSUME RecvEof PROVE Dialing'
    BY <1>a, <1>21, QuietKeepsDialing DEF RecvEof, linkVars
  <1>22. ASSUME Handle PROVE Dialing'
    <2>1. CASE Goto(Reader, "top")
      BY <1>a, <1>22, <2>1, QuietKeepsDialing DEF Handle, linkVars
    <2>2. CASE pc' = [pc EXCEPT ![Reader] = "write"]
      BY <1>22, <2>2, QuietKeepsDialing DEF Handle, linkVars, TypeInv, ControlTypes
    <2> QED BY <1>22, <2>1, <2>2 DEF Handle
  <1>23. ASSUME Plan PROVE Dialing'
    <2>1. CASE Goto(Reader, "top")
      BY <1>a, <1>23, <2>1, QuietKeepsDialing DEF Plan, Goto, TypeInv, ControlTypes
    <2>2. CASE attemptLock = NoSocket /\ attemptLock' = Reader /\ Goto(Reader, "giveup")
      BY <1>a, <1>23, <2>2 DEF Plan, Dialing
    <2>3. CASE attemptLock = NoSocket /\ inProgress' /\ Goto(Reader, "sleep") /\ UNCHANGED attemptLock
      BY <1>a, <1>23, <2>3 DEF Plan, Dialing
    <2> QED BY <1>23, <2>1, <2>2, <2>3 DEF Plan
  <1>24. ASSUME GiveUp PROVE Dialing'
    BY <1>a, <1>24, QuietKeepsDialing DEF GiveUp, Dialing
  <1>25. ASSUME Sleep PROVE Dialing'
    BY <1>a, <1>25, QuietKeepsDialing DEF Sleep, linkVars
  <1>26. ASSUME Post PROVE Dialing'
    BY <1>a, <1>26, QuietKeepsDialing DEF Post, linkVars
  <1>27. ASSUME Vet PROVE Dialing'
    <2>1. CASE Goto(Reader, "finish") \/ Goto(Reader, "drop")
      BY <1>a, <1>27, <2>1, QuietKeepsDialing DEF Vet, linkVars
    <2>2. CASE pc' = [pc EXCEPT ![Reader] = "write"]
      BY <1>27, <2>2, QuietKeepsDialing DEF Vet, linkVars, TypeInv, ControlTypes
    <2> QED BY <1>27, <2>1, <2>2 DEF Vet
  <1>28. ASSUME Unconfig PROVE Dialing'
    BY <1>a, <1>28, QuietKeepsDialing DEF Unconfig, linkVars
  <1>29. ASSUME Confirm PROVE Dialing'
    BY <1>a, <1>29, QuietKeepsDialing DEF Confirm
  <1>30. ASSUME Finish PROVE Dialing'
    BY <1>a, <1>30, QuietKeepsDialing DEF Finish
  <1>31. ASSUME NEW h \in Handles, PeerDrops(h) PROVE Dialing'
    BY <1>31, QuietKeepsDialing DEF PeerDrops
  <1>32. CASE UNCHANGED vars
    BY <1>32, QuietKeepsDialing DEF vars, linkVars
  <1> QED
    BY <1>1, <1>2, <1>3, <1>4, <1>5, <1>6, <1>7, <1>8, <1>9, <1>10, <1>11, <1>12, <1>13, <1>14,
       <1>15, <1>16, <1>17, <1>18, <1>19, <1>20, <1>21, <1>22, <1>23, <1>24, <1>25, <1>26, <1>27,
       <1>28, <1>29, <1>30, <1>31, <1>32 DEF Next, CallerStep, IoStep, ReaderStep

\* No two threads are ever opening a socket at the same time.
THEOREM OneDialerAtATime == Spec => []OneDialer
  <1>1. Spec => [](TypeInv /\ Dialing)
    BY TypeInit, TypeStep, DialingInit, DialingStep, PTL DEF Spec
  <1>2. Dialing => OneDialer
    BY DEF Dialing, OneDialer, DialPlaces, AttemptPlaces, Threads
  <1> QED BY <1>1, <1>2, PTL

----------------------------------------------------------------------------
(* What close() leaves behind.                                             *)

\* A close() that still has to take the published socket.
Pending(c) == op[c] = "close" /\
    \/ pc[c] \in {"meshClose", "write", "send", "closeStream", "take"}
    \/ pc[c] \in {"drop", "shut"} /\ cont[c] = "closeStream"

\* Without the second alternative the invariant would not be inductive: giving up
\* sets _wantExit with no close() under way, and only the fatal mark tells.
PendingInv ==
    /\ \A c \in Callers : pc[c] = "close" => op[c] = "close"
    /\ wantExit /\ socket # NoSocket =>
          \/ \E c \in Callers : Pending(c)
          \/ fatal /\ pc[Reader] \in {"top", "dead"}

\* A step that neither sets the shutdown intent nor publishes, and keeps what it found.
LEMMA QuietKeepsPending ==
  ASSUME PendingInv,
         \A c \in Callers : pc'[c] = "close" => op'[c] = "close",
         wantExit' /\ socket' # NoSocket => wantExit /\ socket # NoSocket,
         wantExit' /\ socket' # NoSocket => \A c \in Callers : Pending(c) => Pending(c)',
         wantExit' /\ socket' # NoSocket =>
            (fatal /\ pc[Reader] \in {"top", "dead"} => fatal' /\ pc'[Reader] \in {"top", "dead"})
  PROVE  PendingInv'
  BY DEF PendingInv

\* Its instance for one thread that moves with Goto.
LEMMA QuietMove ==
  ASSUME TypeInv, PendingInv, NEW t \in Threads, NEW l \in Places, Goto(t, l),
         wantExit' => wantExit, socket' # NoSocket => socket # NoSocket, fatal' = fatal,
         \A u \in Threads : u # t => cont'[u] = cont[u],
         t \in Callers /\ op[t] = "close" /\ socket' # NoSocket =>
            \/ ~Pending(t)
            \/ l \in {"meshClose", "write", "send", "closeStream", "take"}
            \/ l \in {"drop", "shut"} /\ cont'[t] = "closeStream",
         t = Reader => (pc[Reader] \in {"top", "dead"} => ~wantExit \/ l \in {"top", "dead"})
  PROVE  PendingInv'
  <1> USE Constants
  <1>1. /\ pc'[t] = l /\ op'[t] = OpAt(l, op[t])
        /\ \A u \in Threads : u # t => pc'[u] = pc[u] /\ op'[u] = op[u] /\ cont'[u] = cont[u]
    BY DEF Goto, TypeInv, ControlTypes
  <1>2. \A c \in Callers : pc'[c] = "close" => op'[c] = "close"
    BY <1>1 DEF PendingInv, OpAt
  <1>3. ASSUME NEW c \in Callers, Pending(c), wantExit', socket' # NoSocket PROVE Pending(c)'
    <2>1. CASE c # t
      BY <1>1, <1>3, <2>1 DEF Pending
    <2>2. CASE c = t
      <3>1. op[t] = "close" /\ op'[t] = "close"
        BY <1>1, <1>3, <2>2 DEF Pending, OpAt
      <3> QED BY <1>1, <1>3, <2>2, <3>1 DEF Pending
    <2> QED BY <2>1, <2>2
  <1>4. wantExit' /\ socket' # NoSocket =>
           (fatal /\ pc[Reader] \in {"top", "dead"} => fatal' /\ pc'[Reader] \in {"top", "dead"})
    BY <1>1
  <1> QED BY <1>2, <1>3, <1>4, QuietKeepsPending

LEMMA PendingInit == Init => PendingInv
  BY Constants DEF Init, PendingInv

LEMMA PendingStep == TypeInv /\ PendingInv /\ [Next]_vars => PendingInv'
  <1> SUFFICES ASSUME TypeInv, PendingInv, [Next]_vars PROVE PendingInv' OBVIOUS
  <1> USE Constants, PlaceNames DEF At
  <1>1. ASSUME NEW c \in Callers, NEW o \in {"write", "connect", "close"}, Begin(c, o) PROVE PendingInv'
    <2>1. \A u \in Callers : pc'[u] = "close" => op'[u] = "close"
      BY <1>1 DEF Begin, PendingInv, TypeInv, ControlTypes
    <2>2. \A u \in Callers : Pending(u) => Pending(u)'
      BY <1>1 DEF Begin, Pending, TypeInv, ControlTypes
    <2> QED BY <1>1, <2>1, <2>2, QuietKeepsPending DEF Begin, linkVars, flagVars, TypeInv, ControlTypes
  <1>2. ASSUME NEW t \in Threads, Write(t) PROVE PendingInv'
    <2>1. NotSent(t) \in Places /\ (op[t] = "close" => NotSent(t) = "closeStream")
      BY Continuations DEF NotSent
    <2> QED BY <1>2, <2>1, QuietMove DEF Write, linkVars, flagVars
  <1>3. ASSUME NEW t \in Threads, SendSucceeds(t) PROVE PendingInv'
    <2>1. Sent(t) \in Places /\ (op[t] = "close" => Sent(t) = "closeStream")
      BY Continuations DEF Sent
    <2> QED BY <1>3, <2>1, QuietMove DEF SendSucceeds, linkVars, flagVars
  <1>4. ASSUME NEW t \in Threads, SendFails(t) PROVE PendingInv'
    <2>1. op[t] = "close" => cont'[t] = "closeStream"
      BY <1>4 DEF SendFails, NotSent, TypeInv, LocalTypes
    <2>2. \A u \in Threads : u # t => cont'[u] = cont[u]
      BY <1>4 DEF SendFails, TypeInv, LocalTypes
    <2> QED BY <1>4, <2>1, <2>2, QuietMove DEF SendFails, linkVars, flagVars
  <1>5. ASSUME NEW t \in Threads, Drop(t) PROVE PendingInv'
    <2>1. \A u \in Threads : u # t => cont'[u] = cont[u]
      BY <1>5 DEF Drop, TypeInv, LocalTypes
    <2>2. cont[t] = "closeStream" => cont'[t] = "closeStream"
      BY <1>5 DEF Drop
    <2>3. Pending(t) => cont[t] = "closeStream"
      BY <1>5 DEF Drop, Pending
    <2> QED BY <1>5, <2>1, <2>2, <2>3, QuietMove DEF Drop, flagVars
  <1>6. ASSUME NEW t \in Threads, Shut(t) PROVE PendingInv'
    <2>1. cont[t] \in Conts /\ \A u \in Threads : u # t => cont'[u] = cont[u]
      BY <1>6 DEF Shut, TypeInv, LocalTypes
    <2>2. Pending(t) => cont[t] = "closeStream"
      BY <1>6 DEF Shut, Pending
    <2> QED BY <1>6, <2>1, <2>2, QuietMove DEF Shut, flagVars
  <1>7. ASSUME NEW t \in Threads, DialSucceeds(t) PROVE PendingInv'
    BY <1>7, QuietMove DEF DialSucceeds, flagVars, Pending
  <1>8. ASSUME NEW t \in Threads, DialFails(t) PROVE PendingInv'
    BY <1>8, QuietMove DEF DialFails, flagVars, localVars, Pending
  <1>9. ASSUME NEW t \in Threads, Adopt(t) PROVE PendingInv'
    <2>1. CASE wantExit \/ socket # NoSocket
      <3>1. \A u \in Threads : u # t => cont'[u] = cont[u]
        BY <1>9, <2>1 DEF Adopt, TypeInv, LocalTypes
      <3> QED BY <1>9, <2>1, <3>1, QuietMove DEF Adopt, flagVars, Pending
    <2>2. CASE ~(wantExit \/ socket # NoSocket)
      <3>1. AfterConnect(t) \in Places /\ AfterConnect(t) # "close" /\ ~wantExit'
        BY <1>9, <2>2, Continuations DEF AfterConnect, Adopt, flagVars
      <3>2. \A c \in Callers : pc'[c] = "close" => op'[c] = "close"
        BY <1>9, <2>2, <3>1 DEF Adopt, Goto, PendingInv, TypeInv, ControlTypes
      <3> QED BY <3>1, <3>2 DEF PendingInv
    <2> QED BY <2>1, <2>2
  <1>10. ASSUME NEW c \in Callers, Conn(c) PROVE PendingInv'
    BY <1>10, QuietMove DEF Conn, flagVars, localVars, Pending
  <1>11. ASSUME NEW c \in Callers, Start(c) PROVE PendingInv'
    <2>1. CASE closeInProgress \/ ReaderAlive
      BY <1>11, <2>1, QuietMove DEF Start, linkVars, localVars, Pending
    <2>2. CASE ~(closeInProgress \/ ReaderAlive)
      <3>1. ~wantExit'
        BY <1>11, <2>2 DEF Start
      <3>2. \A u \in Callers : pc'[u] = "close" => op'[u] = "close"
        BY <1>11, <2>2 DEF Start, PendingInv, TypeInv, ControlTypes
      <3> QED BY <3>1, <3>2 DEF PendingInv
    <2> QED BY <2>1, <2>2
  <1>12. ASSUME NEW c \in Callers, Wait(c) PROVE PendingInv'
    BY <1>12, QuietMove DEF Wait, linkVars, flagVars, localVars, Pending
  <1>13. ASSUME NEW c \in Callers, CloseBegin(c) PROVE PendingInv'
    <2>1. op[c] = "close" /\ \E l \in {"take", "meshClose"} : Goto(c, l)
      BY <1>13 DEF CloseBegin, PendingInv
    <2>2. PICK l \in {"take", "meshClose"} : Goto(c, l)
      BY <2>1
    <2>3. pc'[c] = l /\ op'[c] = "close" /\ \A u \in Threads : u # c => pc'[u] = pc[u] /\ op'[u] = op[u]
      BY <2>1, <2>2 DEF Goto, OpAt, TypeInv, ControlTypes
    <2>4. Pending(c)'
      BY <2>3 DEF Pending
    <2> QED BY <2>3, <2>4 DEF PendingInv
  <1>14. ASSUME NEW c \in Callers, MeshClose(c) PROVE PendingInv'
    BY <1>14, QuietMove DEF MeshClose, linkVars, localVars
  <1>15. ASSUME NEW c \in Callers, CloseStream(c) PROVE PendingInv'
    BY <1>15, QuietMove DEF CloseStream, linkVars, localVars
  <1>16. ASSUME NEW c \in Callers, Take(c) PROVE PendingInv'
    <2>1. \A u \in Threads : u # c => cont'[u] = cont[u]
      BY <1>16 DEF Take, TypeInv, LocalTypes
    <2> QED BY <1>16, <2>1, QuietMove DEF Take, flagVars
  <1>17. ASSUME Top PROVE PendingInv'
    BY <1>17, QuietMove DEF Top, linkVars, localVars
  <1>18. ASSUME Read PROVE PendingInv'
    BY <1>18, QuietMove DEF Read, linkVars, flagVars
  <1>19. ASSUME Unread PROVE PendingInv'
    BY <1>19, QuietMove DEF Unread, linkVars, flagVars, localVars
  <1>20. ASSUME RecvData PROVE PendingInv'
    <2>1. /\ pc[Reader] = "recv" /\ UNCHANGED <<socket, wantExit, cont>>
          /\ \A c \in Callers : pc'[c] = pc[c] /\ op'[c] = op[c]
      BY <1>20 DEF RecvData, Goto, flagVars, TypeInv, ControlTypes
    <2> QED BY <2>1 DEF PendingInv, Pending
  <1>21. ASSUME RecvEof PROVE PendingInv'
    <2>1. \A u \in Threads : u # Reader => cont'[u] = cont[u]
      BY <1>21 DEF RecvEof, TypeInv, LocalTypes
    <2> QED BY <1>21, <2>1, QuietMove DEF RecvEof, linkVars, flagVars
  <1>22. ASSUME Handle PROVE PendingInv'
    <2>1. CASE Goto(Reader, "top")
      BY <1>22, <2>1, QuietMove DEF Handle, linkVars, localVars
    <2>2. CASE op' = [op EXCEPT ![Reader] = "message"] /\ pc' = [pc EXCEPT ![Reader] = "write"]
      <3>1. /\ pc[Reader] = "handle" /\ UNCHANGED <<socket, wantExit, fatal, cont>>
            /\ \A c \in Callers : pc'[c] = pc[c] /\ op'[c] = op[c]
        BY <1>22, <2>2 DEF Handle, linkVars, localVars, TypeInv, ControlTypes
      <3> QED BY <3>1 DEF PendingInv, Pending
    <2> QED BY <1>22, <2>1, <2>2 DEF Handle
  <1>23. ASSUME Plan PROVE PendingInv'
    BY <1>23, QuietMove DEF Plan, flagVars, localVars
  <1>24. ASSUME GiveUp PROVE PendingInv'
    <2>1. /\ pc'[Reader] = "top" /\ fatal'
          /\ \A c \in Callers : pc'[c] = pc[c] /\ op'[c] = op[c]
      BY <1>24 DEF GiveUp, Goto, TypeInv, ControlTypes
    <2> QED BY <2>1 DEF PendingInv
  <1>25. ASSUME Sleep PROVE PendingInv'
    BY <1>25, QuietMove DEF Sleep, linkVars, flagVars, localVars
  <1>26. ASSUME Post PROVE PendingInv'
    BY <1>26, QuietMove DEF Post, linkVars, flagVars, localVars
  <1>27. ASSUME Vet PROVE PendingInv'
    <2>1. CASE wantExit
      <3>1. \A u \in Threads : u # Reader => cont'[u] = cont[u]
        BY <1>27, <2>1 DEF Vet, TypeInv, LocalTypes
      <3> QED BY <1>27, <2>1, <3>1, QuietMove DEF Vet, linkVars, flagVars
    <2>2. CASE ~wantExit
      <3>1. /\ ~wantExit' /\ \A c \in Callers : pc'[c] = pc[c] /\ op'[c] = op[c]
        BY <1>27, <2>2 DEF Vet, flagVars, TypeInv, ControlTypes
      <3> QED BY <3>1 DEF PendingInv
    <2> QED BY <2>1, <2>2
  <1>28. ASSUME Unconfig PROVE PendingInv'
    <2>1. \A u \in Threads : u # Reader => cont'[u] = cont[u]
      BY <1>28 DEF Unconfig, TypeInv, LocalTypes
    <2> QED BY <1>28, <2>1, QuietMove DEF Unconfig, linkVars, flagVars
  <1>29. ASSUME Confirm PROVE PendingInv'
    BY <1>29, QuietMove DEF Confirm, flagVars, localVars
  <1>30. ASSUME Finish PROVE PendingInv'
    BY <1>30, QuietMove DEF Finish, flagVars
  <1>31. ASSUME NEW h \in Handles, PeerDrops(h) PROVE PendingInv'
    BY <1>31 DEF PeerDrops, flagVars, localVars, PendingInv, Pending
  <1>32. CASE UNCHANGED vars
    BY <1>32 DEF vars, linkVars, flagVars, localVars, PendingInv, Pending
  <1> QED
    BY <1>1, <1>2, <1>3, <1>4, <1>5, <1>6, <1>7, <1>8, <1>9, <1>10, <1>11, <1>12, <1>13, <1>14,
       <1>15, <1>16, <1>17, <1>18, <1>19, <1>20, <1>21, <1>22, <1>23, <1>24, <1>25, <1>26, <1>27,
       <1>28, <1>29, <1>30, <1>31, <1>32 DEF Next, CallerStep, IoStep, ReaderStep

\* A finished close() leaves no published socket behind.
THEOREM ClosedLinkIsBare == Spec => []ClosedLinkHasNoSocket
  <1>1. Spec => [](TypeInv /\ PendingInv)
    BY TypeInit, TypeStep, PendingInit, PendingStep, PTL DEF Spec
  <1>2. PendingInv => ClosedLinkHasNoSocket
    BY DEF PendingInv, Pending, ClosedLinkHasNoSocket
  <1> QED BY <1>1, <1>2, PTL

----------------------------------------------------------------------------
(* TcpLink implements SocketOwnership.                                     *)

phase == [h \in Handles |-> PhaseOf(h)]

\* A step of one socket from phase `from` to phase `to`.
LEMMA PhaseMoves ==
  ASSUME NEW h \in Handles, NEW from, NEW to, PhaseOf(h) = from, PhaseOf(h)' = to,
         \A g \in Handles : g # h => PhaseOf(g)' = PhaseOf(g)
  PROVE  Ownership!Moves(h, from, to)
  BY DEF Ownership!Moves

LEMMA PhasesStay ==
  ASSUME \A g \in Handles : PhaseOf(g)' = PhaseOf(g) PROVE UNCHANGED phase
  BY DEF phase

\* A socket's phase depends on whether it is published, its native state and
\* whether some thread offers it.
OfferedNow(h) == \E t \in Threads : pc[t] = "adopt" /\ sock[t] = h
LEMMA PhaseFrame ==
  ASSUME NEW g, native'[g] = native[g], (g = socket') <=> (g = socket), OfferedNow(g)' <=> OfferedNow(g)
  PROVE  PhaseOf(g)' = PhaseOf(g)
  BY DEF PhaseOf, OfferedNow, At

LEMMA CalmKeepsPhases == ASSUME TypeInv, Calm PROVE UNCHANGED phase
  <1>1. ASSUME NEW g \in Handles PROVE OfferedNow(g)' <=> OfferedNow(g)
    BY DEF OfferedNow, Calm, Owning
  <1>2. ASSUME NEW g \in Handles PROVE PhaseOf(g)' = PhaseOf(g)
    BY <1>1, PhaseFrame DEF Calm
  <1> QED BY <1>2, PhasesStay

LEMMA DropRefines ==
  ASSUME TypeInv, HandleInv, NEW t \in Threads, Drop(t)
  PROVE  (\E h \in Handles : Ownership!Withdraw(h)) \/ UNCHANGED phase
  <1> USE Constants
  <1>1. /\ pc[t] = "drop" /\ pc'[t] = "shut" /\ \A u \in Threads : u # t => pc'[u] = pc[u]
        /\ UNCHANGED <<native, sock>> /\ sock[t] \in Handles
        /\ socket' = IF socket = sock[t] THEN NoSocket ELSE socket
    BY GotoMoves, PlaceNames DEF Drop, At, TypeInv, ControlTypes, HoldingPlaces
  <1>2. \A g \in Handles : OfferedNow(g)' <=> OfferedNow(g)
    BY <1>1 DEF OfferedNow
  <1>3. CASE socket # sock[t]
    BY <1>1, <1>2, <1>3, PhaseFrame, PhasesStay
  <1>4. CASE socket = sock[t]
    <2>1. \A g \in Handles : g # socket => PhaseOf(g)' = PhaseOf(g)
      BY <1>1, <1>2, <1>4, PhaseFrame
    <2>2. native[socket] \in {"open", "dead"} /\ ~OfferedNow(socket)
      BY <1>1, <1>4 DEF HandleInv, Published, Offered, OfferedNow
    <2>3. PhaseOf(socket) = "current"
      BY <2>2 DEF PhaseOf
    <2>4. PhaseOf(sock[t])' = "retiring"
      BY <1>1, <1>2, <1>4, <2>2 DEF PhaseOf, OfferedNow, At
    <2>5. Ownership!Withdraw(sock[t])
      BY <1>1, <1>4, <2>1, <2>3, <2>4, PhaseMoves DEF Ownership!Withdraw
    <2> QED BY <1>1, <2>5
  <1> QED BY <1>3, <1>4

LEMMA ShutRefines ==
  ASSUME TypeInv, HandleInv, NEW t \in Threads, Shut(t)
  PROVE  (\E h \in Handles : Ownership!Close(h)) \/ UNCHANGED phase
  <1> USE Constants
  <1>1. /\ pc[t] = "shut" /\ pc'[t] \notin Owning /\ \A u \in Threads : u # t => pc'[u] = pc[u]
        /\ sock[t] \in Handles /\ UNCHANGED socket /\ sock' = [sock EXCEPT ![t] = NoSocket]
        /\ native' = [native EXCEPT ![sock[t]] = "closed"]
        /\ sock \in [Threads -> Handles \cup {NoSocket}]
        /\ native \in [Handles -> {"unused", "open", "dead", "closed"}]
    <2>1. cont[t] \in Conts
      BY DEF TypeInv, LocalTypes
    <2> QED
      BY <2>1, GotoMoves, PlaceNames DEF Shut, At, TypeInv, LinkTypes, ControlTypes, HoldingPlaces, Owning
  <1>2. \A g \in Handles : OfferedNow(g)' <=> OfferedNow(g)
    BY <1>1 DEF OfferedNow, Owning
  <1>3. sock[t] # socket /\ ~OfferedNow(sock[t]) /\ native[sock[t]] # "unused"
    BY <1>1 DEF HandleInv, Withdrawn, Offered, Unseen, OfferedNow
  <1> PICK h \in Handles : h = sock[t]
    BY <1>1
  <1>4. \A g \in Handles : g # h => PhaseOf(g)' = PhaseOf(g)
    BY <1>1, <1>2, PhaseFrame
  <1>5. PhaseOf(h)' = "closed"
    BY <1>1, <1>3 DEF PhaseOf
  <1>6. CASE native[sock[t]] = "closed"
    <2>1. PhaseOf(h) = "closed"
      BY <1>3, <1>6 DEF PhaseOf
    <2> QED
      <3>1. \A g \in Handles : PhaseOf(g)' = PhaseOf(g)
        BY <1>4, <1>5, <2>1
      <3> QED BY <3>1, PhasesStay
  <1>7. CASE native[sock[t]] # "closed"
    <2>1. PhaseOf(h) = "retiring"
      BY <1>3, <1>7 DEF PhaseOf, OfferedNow, At
    <2>2. Ownership!Close(h)
      BY <1>1, <1>4, <1>5, <2>1, PhaseMoves DEF Ownership!Close
    <2> QED BY <2>2
  <1> QED BY <1>6, <1>7

LEMMA DialRefines ==
  ASSUME TypeInv, HandleInv, NEW t \in Threads, DialSucceeds(t)
  PROVE  \E h \in Handles : Ownership!Open(h)
  <1> USE Constants
  <1>1. PICK h \in Handles : /\ native[h] = "unused"
                             /\ native' = [native EXCEPT ![h] = "open"]
                             /\ sock' = [sock EXCEPT ![t] = h]
    BY DEF DialSucceeds, Fresh
  <1>2. /\ pc[t] = "dial" /\ pc'[t] = "adopt" /\ \A u \in Threads : u # t => pc'[u] = pc[u]
        /\ UNCHANGED socket
        /\ sock \in [Threads -> Handles \cup {NoSocket}]
        /\ native \in [Handles -> {"unused", "open", "dead", "closed"}]
        /\ h # socket /\ \A u \in Threads : sock[u] # h
    BY <1>1, GotoMoves, PlaceNames
       DEF DialSucceeds, At, TypeInv, LinkTypes, ControlTypes, HandleInv, Unseen
  <1>3. \A g \in Handles : g # h => (OfferedNow(g)' <=> OfferedNow(g))
    BY <1>1, <1>2 DEF OfferedNow
  <1>4. \A g \in Handles : g # h => PhaseOf(g)' = PhaseOf(g)
    BY <1>1, <1>2, <1>3, PhaseFrame
  <1>5. PhaseOf(h) = "new"
    BY <1>1 DEF PhaseOf
  <1>6. PhaseOf(h)' = "offered"
    <2>1. native'[h] = "open" /\ socket' # h /\ \E u \in Threads : At(u, "adopt")' /\ sock'[u] = h
      BY <1>1, <1>2 DEF At
    <2> QED BY <2>1 DEF PhaseOf
  <1> QED BY <1>4, <1>5, <1>6, PhaseMoves DEF Ownership!Open

LEMMA AdoptRefines ==
  ASSUME TypeInv, HandleInv, NEW t \in Threads, Adopt(t)
  PROVE  \E h \in Handles : Ownership!Publish(h) \/ Ownership!Refuse(h)
  <1> USE Constants
  <1>1. /\ pc[t] = "adopt" /\ sock[t] \in Handles /\ UNCHANGED native
        /\ sock \in [Threads -> Handles \cup {NoSocket}]
    BY DEF Adopt, At, TypeInv, ControlTypes, HoldingPlaces
  <1>2. /\ native[sock[t]] \in {"open", "dead"} /\ sock[t] # socket
        /\ \A u \in Threads : u # t => sock[u] # sock[t]
    BY <1>1 DEF HandleInv, Offered
  <1> PICK h \in Handles : h = sock[t]
    BY <1>1
  <1>3. PhaseOf(h) = "offered"
    BY <1>1, <1>2 DEF PhaseOf, At
  <1>4. CASE wantExit \/ socket # NoSocket
    <2>1. /\ pc'[t] = "shut" /\ \A u \in Threads : u # t => pc'[u] = pc[u]
          /\ UNCHANGED <<socket, sock>>
      BY <1>4, GotoMoves, PlaceNames DEF Adopt
    <2>2. \A g \in Handles : g # h => (OfferedNow(g)' <=> OfferedNow(g))
      BY <1>1, <2>1 DEF OfferedNow
    <2>3. \A g \in Handles : g # h => PhaseOf(g)' = PhaseOf(g)
      BY <1>1, <2>1, <2>2, PhaseFrame
    <2>4. PhaseOf(h)' = "retiring"
      BY <1>1, <1>2, <2>1 DEF PhaseOf, At
    <2> QED BY <1>1, <1>3, <2>3, <2>4, PhaseMoves DEF Ownership!Refuse
  <1>5. CASE ~(wantExit \/ socket # NoSocket)
    <2>1. /\ pc'[t] \notin Owning /\ \A u \in Threads : u # t => pc'[u] = pc[u]
          /\ socket = NoSocket /\ socket' = sock[t] /\ sock' = [sock EXCEPT ![t] = NoSocket]
      <3>1. AfterConnect(t) \in Places /\ AfterConnect(t) \notin Owning
        BY PlaceNames, Continuations DEF Conts, Owning
      <3> QED BY <1>5, <3>1, GotoMoves DEF Adopt
    <2>2. \A g \in Handles : g # h => (OfferedNow(g)' <=> OfferedNow(g))
      BY <1>1, <2>1 DEF OfferedNow, Owning
    <2>3. \A g \in Handles : g # h => PhaseOf(g)' = PhaseOf(g)
      BY <1>1, <2>1, <2>2, PhaseFrame
    <2>4. PhaseOf(h)' = "current"
      BY <1>1, <1>2, <2>1 DEF PhaseOf
    <2>5. \A g \in Handles : PhaseOf(g) # "current"
      BY <2>1 DEF PhaseOf
    <2>6. Ownership!Publish(h)
      BY <1>1, <1>3, <2>3, <2>4, <2>5, PhaseMoves DEF Ownership!Publish
    <2> QED BY <2>6
  <1> QED BY <1>4, <1>5

LEMMA TakeRefines ==
  ASSUME TypeInv, HandleInv, NEW c \in Callers, Take(c)
  PROVE  (\E h \in Handles : Ownership!Withdraw(h)) \/ UNCHANGED phase
  <1> USE Constants
  <1>1. CASE socket = NoSocket
    BY <1>1, CalmPlainMove, CalmKeepsPhases, PlaceNames DEF Take, At, Owning
  <1>2. CASE socket # NoSocket
    <2>1. /\ pc[c] = "take" /\ pc'[c] = "shut" /\ \A u \in Threads : u # c => pc'[u] = pc[u]
          /\ socket' = NoSocket /\ sock' = [sock EXCEPT ![c] = socket] /\ UNCHANGED native
          /\ sock \in [Threads -> Handles \cup {NoSocket}] /\ socket \in Handles
      BY <1>2, GotoMoves, PlaceNames DEF Take, At, TypeInv, LinkTypes, ControlTypes
    <2>2. native[socket] \in {"open", "dead"} /\ ~OfferedNow(socket)
      BY <1>2 DEF HandleInv, Published, Offered, OfferedNow
    <2>3. \A g \in Handles : OfferedNow(g)' <=> OfferedNow(g)
      BY <2>1 DEF OfferedNow
    <2>4. \A g \in Handles : g # socket => PhaseOf(g)' = PhaseOf(g)
      BY <2>1, <2>3, PhaseFrame
    <2>5. PhaseOf(socket) = "current"
      BY <2>2 DEF PhaseOf
    <2>6. ASSUME NEW h \in Handles, h = socket PROVE PhaseOf(h)' = "retiring"
      BY <2>1, <2>2, <2>3, <2>6 DEF PhaseOf, OfferedNow, At
    <2>7. PICK h \in Handles : h = socket
      BY <2>1
    <2>8. Ownership!Withdraw(h)
      BY <2>4, <2>5, <2>6, <2>7, PhaseMoves DEF Ownership!Withdraw
    <2> QED BY <2>8
  <1> QED BY <1>1, <1>2

LEMMA PeerDropsRefines ==
  ASSUME TypeInv, HandleInv, NEW h \in Handles, PeerDrops(h) PROVE UNCHANGED phase
  <1>1. /\ native[h] = "open" /\ native' = [native EXCEPT ![h] = "dead"]
        /\ native \in [Handles -> {"unused", "open", "dead", "closed"}]
        /\ UNCHANGED <<socket, pc, sock>>
    BY DEF PeerDrops, localVars, TypeInv, LinkTypes
  <1>2. ASSUME NEW g \in Handles PROVE PhaseOf(g)' = PhaseOf(g)
    BY <1>1 DEF PhaseOf, At
  <1> QED BY <1>2, PhasesStay

LEMMA OwnershipInit == Init => Ownership!Init
  BY DEF Init, Ownership!Init, PhaseOf

LEMMA OwnershipStep == TypeInv /\ HandleInv /\ [Next]_vars => [Ownership!Next]_phase
  <1> SUFFICES ASSUME TypeInv, HandleInv, [Next]_vars PROVE [Ownership!Next]_phase OBVIOUS
  <1>1. CASE CalmStep
    BY <1>1, CalmSteps, CalmKeepsPhases
  <1>2. ASSUME NEW t \in Threads, Drop(t) PROVE [Ownership!Next]_phase
    BY <1>2, DropRefines DEF Ownership!Next
  <1>3. ASSUME NEW t \in Threads, Shut(t) PROVE [Ownership!Next]_phase
    BY <1>3, ShutRefines DEF Ownership!Next
  <1>4. ASSUME NEW t \in Threads, DialSucceeds(t) PROVE [Ownership!Next]_phase
    BY <1>4, DialRefines DEF Ownership!Next
  <1>5. ASSUME NEW t \in Threads, Adopt(t) PROVE [Ownership!Next]_phase
    BY <1>5, AdoptRefines DEF Ownership!Next
  <1>6. ASSUME NEW c \in Callers, Take(c) PROVE [Ownership!Next]_phase
    BY <1>6, TakeRefines DEF Ownership!Next
  <1>7. ASSUME NEW h \in Handles, PeerDrops(h) PROVE [Ownership!Next]_phase
    BY <1>7, PeerDropsRefines
  <1> QED BY StepKinds, <1>1, <1>2, <1>3, <1>4, <1>5, <1>6, <1>7

\* The link keeps the ownership discipline of its sockets.
THEOREM LinkImplementsOwnership == Spec => OwnershipKept
  <1>1. TypeInv /\ HandleInv /\ [Next]_vars => [Ownership!Next]_([h \in Handles |-> PhaseOf(h)])
    BY OwnershipStep DEF phase
  <1> QED BY OwnershipInit, <1>1, HandlesHold, PTL DEF Spec, OwnershipKept, Ownership!Spec
----------------------------------------------------------------------------
(* Nothing stays held.                                                     *)

\* The reader is inside an attempt: between the plan and the finally clause.
Attempting ==
    \/ pc[Reader] \in {"sleep", "dial", "adopt", "post", "vet", "confirm", "unconfig", "finish"}
    \/ pc[Reader] \in {"write", "send"} /\ op[Reader] = "reconnect"
    \/ pc[Reader] \in {"drop", "shut"} /\ cont[Reader] \in {"finish", "post", "unconfig"}

\* A place from which the attempt lock is released by the thread's own next steps.
Releases(t) ==
    IF t = Reader THEN pc[t] = "giveup"
    ELSE \/ pc[t] \in {"dial", "adopt"}
         \/ pc[t] = "shut" /\ op[t] = "connect" /\ cont[t] \in {"idle", "start"}

\* A close() between the two sections that set and clear _stream_close_in_progress.
Shutting(t) ==
    /\ t \in Callers /\ op[t] = "close"
    /\ \/ pc[t] \in {"meshClose", "write", "send", "closeStream"}
       \/ pc[t] \in {"drop", "shut"} /\ cont[t] = "closeStream"

\* What a call may find taken is in the hands of a thread that lets go of it by its own
\* next steps: the mark of a reconnect attempt, for which connect() polls; the attempt lock;
\* and the mark of a close() in progress, of which there is never a second.
HeldByAThread ==
    /\ inProgress <=> Attempting
    /\ \A t \in Threads : attemptLock = t <=> Releases(t)
    /\ closeInProgress <=> \E c \in Callers : Shutting(c)
    /\ \A c, d \in Callers : Shutting(c) /\ Shutting(d) => c = d

\* What a caller runs at the places that only connect(), or only close(), goes through; and a
\* caller that retires a handle its write failed on goes on where the failed write would.
OwnCall(c) ==
    /\ pc[c] \in {"conn", "dial", "adopt", "start", "wait"} => op[c] = "connect"
    /\ pc[c] \in {"close", "meshClose", "closeStream", "take"} => op[c] = "close"
    /\ pc[c] = "drop" => cont[c] = NotSent(c)
    /\ pc[c] = "shut" /\ cont[c] = "start" => op[c] = "connect"
    /\ pc[c] = "shut" /\ cont[c] = "closeStream" => op[c] = "close"

HeldInv == HeldByAThread /\ \A c \in Callers : OwnCall(c)

LEMMA HeldInit == Init => HeldInv
  BY Constants DEF Init, HeldInv, HeldByAThread, OwnCall, Attempting, Releases, Shutting

\* What a thread's own variables decide.
LEMMA OwnPlace ==
  ASSUME NEW t, pc'[t] = pc[t], op'[t] = op[t], cont'[t] = cont[t]
  PROVE  /\ Releases(t)' = Releases(t) /\ Shutting(t)' = Shutting(t)
         /\ t = Reader => Attempting' = Attempting
         /\ OwnCall(t)' = OwnCall(t)
  BY DEF Releases, Shutting, Attempting, OwnCall, NotSent

\* A step of thread t that leaves the other threads where they are, and keeps each mark in
\* line with where t goes.
LEMMA StepOf ==
  ASSUME TypeInv, HeldInv, NEW t \in Threads,
         \A u \in Threads : u # t => pc'[u] = pc[u] /\ op'[u] = op[u] /\ cont'[u] = cont[u],
         IF t = Reader THEN inProgress' <=> Attempting' ELSE inProgress' = inProgress,
         \/ attemptLock' = attemptLock /\ (Releases(t)' <=> Releases(t))
         \/ attemptLock = NoSocket /\ attemptLock' = t /\ Releases(t)'
         \/ attemptLock = t /\ attemptLock' = NoSocket /\ ~Releases(t)',
         \/ closeInProgress' = closeInProgress /\ (Shutting(t)' <=> Shutting(t))
         \/ ~closeInProgress /\ closeInProgress' /\ Shutting(t)'
         \/ Shutting(t) /\ ~closeInProgress' /\ ~Shutting(t)',
         t # Reader => OwnCall(t)'
  PROVE  HeldInv'
  <1> USE Constants DEF HeldInv
  <1>1. \A u \in Threads : u # t =>
           Releases(u)' = Releases(u) /\ Shutting(u)' = Shutting(u) /\ OwnCall(u)' = OwnCall(u)
    BY OwnPlace
  <1>2. inProgress' <=> Attempting'
    <2>1. CASE t = Reader
      BY <2>1
    <2>2. CASE t # Reader
      <3>1. Attempting' = Attempting
        BY <2>2, OwnPlace
      <3> QED BY <2>2, <3>1 DEF HeldByAThread
    <2> QED BY <2>1, <2>2
  <1>3. \A u \in Threads : attemptLock' = u <=> Releases(u)'
    BY <1>1 DEF HeldByAThread
  <1>4. closeInProgress \in BOOLEAN
        /\ (Shutting(t) => t \in Callers) /\ (Shutting(t)' => t \in Callers)
    BY DEF TypeInv, FlagTypes, Shutting
  <1>5. closeInProgress' <=> \E c \in Callers : Shutting(c)'
    BY <1>1, <1>4 DEF HeldByAThread
  <1>6. \A c, d \in Callers : Shutting(c)' /\ Shutting(d)' => c = d
    BY <1>1, <1>4 DEF HeldByAThread
  <1>7. \A c \in Callers : OwnCall(c)'
    BY <1>1
  <1> QED BY <1>2, <1>3, <1>5, <1>6, <1>7 DEF HeldByAThread

\* The same for a step that changes none of the marks.
LEMMA PlainStepOf ==
  ASSUME TypeInv, HeldInv, NEW t \in Threads,
         \A u \in Threads : u # t => pc'[u] = pc[u] /\ op'[u] = op[u] /\ cont'[u] = cont[u],
         UNCHANGED <<inProgress, attemptLock, closeInProgress>>,
         t = Reader => (Attempting' <=> Attempting),
         Releases(t)' <=> Releases(t),
         Shutting(t)' <=> Shutting(t),
         t # Reader => OwnCall(t)'
  PROVE  HeldInv'
  BY StepOf DEF HeldInv, HeldByAThread

\* What Goto does to the thread it moves and to the others.
LEMMA GotoFrame ==
  ASSUME TypeInv, NEW t \in Threads, NEW l \in Places, Goto(t, l)
  PROVE  /\ pc'[t] = l /\ op'[t] = OpAt(l, op[t]) /\ op[t] \in Ops /\ pc[t] \in Places
         /\ \A u \in Threads : u # t => pc'[u] = pc[u] /\ op'[u] = op[u]
  BY DEF Goto, TypeInv, ControlTypes

\* cont of the threads that do not move.
LEMMA ContFrame ==
  ASSUME TypeInv, NEW t \in Threads, NEW l, cont' = [cont EXCEPT ![t] = l]
  PROVE  cont'[t] = l /\ \A u \in Threads : u # t => cont'[u] = cont[u]
  BY DEF TypeInv, LocalTypes


LEMMA HeldStep == TypeInv /\ HeldInv /\ [Next]_vars => HeldInv'
  <1> SUFFICES ASSUME TypeInv, HeldInv, [Next]_vars PROVE HeldInv' OBVIOUS
  <1> USE Constants, PlaceNames DEF At, Attempting, Releases, Shutting, OwnCall
  <1>a. \A t \in Threads, l \in Places : Goto(t, l) =>
           /\ pc'[t] = l /\ op'[t] = OpAt(l, op[t])
           /\ \A u \in Threads : u # t => pc'[u] = pc[u] /\ op'[u] = op[u]
    BY GotoFrame
  <1>b. \A t \in Threads : op[t] \in Ops /\ pc[t] \in Places /\ cont[t] \in Conts
    BY DEF TypeInv, ControlTypes, LocalTypes
  <1>c. \A t \in Threads : t # Reader => t \in Callers /\ OwnCall(t)
    BY DEF HeldInv, Threads
  <1>d. \A c \in Callers : OwnCall(c)
    BY DEF HeldInv
  <1>1. ASSUME NEW c \in Callers, NEW o \in {"write", "connect", "close"}, Begin(c, o) PROVE HeldInv'
    <2>1. /\ pc[c] = "idle" /\ pc'[c] \in {"write", "conn", "close"} /\ (pc'[c] = "write" => op'[c] = "write")
          /\ (pc'[c] = "conn" => op'[c] = "connect") /\ (pc'[c] = "close" => op'[c] = "close")
          /\ \A u \in Threads : u # c => pc'[u] = pc[u] /\ op'[u] = op[u]
          /\ UNCHANGED <<inProgress, attemptLock, closeInProgress, cont>>
      BY <1>1 DEF Begin, TypeInv, ControlTypes, linkVars, flagVars
    <2> QED BY <1>c, <2>1, PlainStepOf
  <1>2. ASSUME NEW t \in Threads, Write(t) PROVE HeldInv'
    <2>1. pc[t] = "write" /\ UNCHANGED <<inProgress, attemptLock, closeInProgress, cont>>
      BY <1>2 DEF Write, linkVars, flagVars
    <2>2. CASE Goto(t, NotSent(t))
      <3>1. NotSent(t) \in Places
        BY Continuations
      <3> QED BY <1>a, <1>c, <2>1, <2>2, <3>1, PlainStepOf DEF NotSent, OpAt
    <2>3. CASE Goto(t, "send")
      BY <1>a, <1>c, <2>1, <2>3, PlainStepOf DEF OpAt
    <2> QED BY <1>2, <2>2, <2>3 DEF Write
  <1>3. ASSUME NEW t \in Threads, SendSucceeds(t) PROVE HeldInv'
    <2>1. pc[t] = "send" /\ Goto(t, Sent(t)) /\ UNCHANGED <<inProgress, attemptLock, closeInProgress, cont>>
      BY <1>3 DEF SendSucceeds, linkVars, flagVars
    <2>2. Sent(t) \in Places
      BY Continuations
    <2> QED BY <1>a, <1>c, <2>1, <2>2, PlainStepOf DEF Sent, OpAt
  <1>4. ASSUME NEW t \in Threads, SendFails(t) PROVE HeldInv'
    <2>1. /\ pc[t] = "send" /\ pc'[t] = "drop" /\ op'[t] = op[t]
          /\ \A u \in Threads : u # t => pc'[u] = pc[u] /\ op'[u] = op[u]
          /\ UNCHANGED <<inProgress, attemptLock, closeInProgress>>
      BY <1>a, <1>4 DEF SendFails, linkVars, flagVars, OpAt
    <2>2. cont'[t] = NotSent(t) /\ \A u \in Threads : u # t => cont'[u] = cont[u]
      BY <1>4, ContFrame DEF SendFails
    <2> QED BY <1>c, <2>1, <2>2, PlainStepOf DEF NotSent
  <1>5. ASSUME NEW t \in Threads, Drop(t) PROVE HeldInv'
    <2>1. /\ pc[t] = "drop" /\ pc'[t] = "shut" /\ op'[t] = op[t]
          /\ \A u \in Threads : u # t => pc'[u] = pc[u] /\ op'[u] = op[u]
          /\ UNCHANGED <<inProgress, attemptLock, closeInProgress>>
      BY <1>a, <1>5 DEF Drop, flagVars, OpAt
    <2>2. /\ cont'[t] = cont[t] \/ (cont[t] = "plan" /\ cont'[t] = "top")
          /\ \A u \in Threads : u # t => cont'[u] = cont[u]
      BY <1>5, ContFrame DEF Drop
    <2>3. t # Reader => /\ cont[t] \in {"close", "closeStream", "unconfig", "top", "idle"}
                        /\ op[t] = "connect" => cont[t] = "close"
                        /\ cont[t] = "closeStream" => op[t] = "close"
      BY <1>c, <2>1 DEF NotSent
    <2> QED BY <1>c, <2>1, <2>2, <2>3, PlainStepOf
  <1>6. ASSUME NEW t \in Threads, Shut(t) PROVE HeldInv'
    <2>1. /\ pc[t] = "shut" /\ pc'[t] = cont[t] /\ op'[t] = OpAt(cont[t], op[t])
          /\ \A u \in Threads : u # t => pc'[u] = pc[u] /\ op'[u] = op[u]
          /\ inProgress' = inProgress /\ closeInProgress' = closeInProgress
          /\ attemptLock' = IF attemptLock = t THEN NoSocket ELSE attemptLock
          /\ cont[t] \in Conts
      BY <1>a, <1>b, <1>6 DEF Shut, flagVars
    <2>2. cont'[t] = "idle" /\ \A u \in Threads : u # t => cont'[u] = cont[u]
      BY <1>6, ContFrame DEF Shut
    <2>3. ~Releases(t)' /\ (Shutting(t)' <=> Shutting(t)) /\ pc'[t] # "drop"
      BY <2>1, <2>2 DEF Conts, OpAt
    <2>4. attemptLock = t <=> Releases(t)
      BY DEF HeldInv, HeldByAThread
    <2>5. t = Reader => (inProgress' <=> Attempting')
      BY <2>1, <2>2 DEF HeldInv, HeldByAThread, Conts
    <2>6. t # Reader => OwnCall(t)'
      BY <1>c, <2>1, <2>2 DEF Conts, OpAt
    <2>7. t # Reader => inProgress' = inProgress
      BY <2>1
    <2>8. \/ attemptLock' = attemptLock /\ (Releases(t)' <=> Releases(t))
          \/ attemptLock = t /\ attemptLock' = NoSocket /\ ~Releases(t)'
      BY <2>1, <2>3, <2>4
    <2> HIDE DEF Attempting, Releases, Shutting, OwnCall
    <2> QED BY <2>1, <2>2, <2>3, <2>5, <2>6, <2>7, <2>8, StepOf
  <1>7. ASSUME NEW t \in Threads, DialSucceeds(t) PROVE HeldInv'
    <2>1. /\ pc[t] = "dial" /\ pc'[t] = "adopt" /\ op'[t] = op[t]
          /\ \A u \in Threads : u # t => pc'[u] = pc[u] /\ op'[u] = op[u]
          /\ UNCHANGED <<inProgress, attemptLock, closeInProgress, cont>>
      BY <1>a, <1>7 DEF DialSucceeds, flagVars, OpAt
    <2> QED BY <1>c, <2>1, PlainStepOf
  <1>8. ASSUME NEW t \in Threads, DialFails(t) PROVE HeldInv'
    <2>1. /\ pc[t] = "dial" /\ pc'[t] = (IF t = Reader THEN "finish" ELSE "idle")
          /\ \A u \in Threads : u # t => pc'[u] = pc[u] /\ op'[u] = op[u] /\ cont'[u] = cont[u]
          /\ inProgress' = inProgress /\ closeInProgress' = closeInProgress
          /\ attemptLock' = IF attemptLock = t THEN NoSocket ELSE attemptLock
      BY <1>a, <1>8 DEF DialFails, flagVars, localVars
    <2>2. attemptLock = t <=> Releases(t)
      BY DEF HeldInv, HeldByAThread
    <2>3. t = Reader => (inProgress' <=> Attempting')
      BY <2>1 DEF HeldInv, HeldByAThread
    <2>4. ~Releases(t)' /\ ~Shutting(t)' /\ ~Shutting(t)
      BY <2>1
    <2> QED BY <1>c, <2>1, <2>2, <2>3, <2>4, StepOf
  <1>9. ASSUME NEW t \in Threads, Adopt(t) PROVE HeldInv'
    <2>1. pc[t] = "adopt" /\ inProgress' = inProgress /\ closeInProgress' = closeInProgress
      BY <1>9 DEF Adopt, flagVars
    <2>2. attemptLock = t <=> Releases(t)
      BY DEF HeldInv, HeldByAThread
    <2>3. t = Reader => inProgress
      BY <2>1 DEF HeldInv, HeldByAThread
    <2>4. CASE wantExit \/ socket # NoSocket
      <3>1. /\ pc'[t] = "shut" /\ op'[t] = op[t] /\ attemptLock' = attemptLock
            /\ \A u \in Threads : u # t => pc'[u] = pc[u] /\ op'[u] = op[u] /\ cont'[u] = cont[u]
            /\ cont'[t] \in {Refused(t), AfterConnect(t)}
        <4>1. /\ Goto(t, "shut") /\ attemptLock' = attemptLock
              /\ \E l \in {Refused(t), AfterConnect(t)} : cont' = [cont EXCEPT ![t] = l]
          BY <1>9, <2>4 DEF Adopt
        <4>2. /\ cont'[t] \in {Refused(t), AfterConnect(t)}
              /\ \A u \in Threads : u # t => cont'[u] = cont[u]
          BY <4>1, ContFrame
        <4>3. "shut" \in Places /\ OpAt("shut", op[t]) = op[t]
          BY DEF OpAt, Places
        <4>4. /\ pc'[t] = "shut" /\ op'[t] = op[t]
              /\ \A u \in Threads : u # t => pc'[u] = pc[u] /\ op'[u] = op[u]
          BY <1>a, <4>1, <4>3
        <4> QED BY <4>1, <4>2, <4>4
      <3>2. t # Reader => op[t] = "connect"
        BY <1>c, <2>1
      <3> QED BY <1>c, <2>1, <2>2, <2>3, <3>1, <3>2, StepOf DEF Refused, AfterConnect
    <2>5. CASE ~(wantExit \/ socket # NoSocket)
      <3>1. AfterConnect(t) \in {"post", "start"} /\ (t = Reader <=> AfterConnect(t) = "post")
        BY DEF AfterConnect
      <3>2. /\ pc'[t] = AfterConnect(t) /\ op'[t] = op[t]
            /\ \A u \in Threads : u # t => pc'[u] = pc[u] /\ op'[u] = op[u] /\ cont'[u] = cont[u]
            /\ attemptLock' = IF attemptLock = t THEN NoSocket ELSE attemptLock
        BY <1>a, <1>9, <2>5, <3>1 DEF Adopt, OpAt
      <3> QED BY <1>c, <2>1, <2>2, <2>3, <3>1, <3>2, StepOf
    <2> QED BY <2>4, <2>5
  <1>10. ASSUME NEW c \in Callers, Conn(c) PROVE HeldInv'
    <2>1. /\ pc[c] = "conn" /\ attemptLock = NoSocket
          /\ UNCHANGED <<inProgress, closeInProgress, cont>>
      BY <1>10 DEF Conn, flagVars, localVars
    <2>2. CASE Goto(c, "dial") /\ attemptLock' = c
      BY <1>a, <1>c, <2>1, <2>2, StepOf DEF OpAt
    <2>3. CASE (Goto(c, "start") \/ Goto(c, "idle")) /\ attemptLock' = attemptLock
      BY <1>a, <1>c, <2>1, <2>3, PlainStepOf DEF OpAt
    <2> QED BY <1>10, <2>2, <2>3 DEF Conn
  <1>11. ASSUME NEW c \in Callers, Start(c) PROVE HeldInv'
    <2>1. pc[c] = "start" /\ UNCHANGED <<inProgress, attemptLock, closeInProgress, cont>>
      BY <1>11 DEF Start, linkVars, localVars
    <2>2. CASE closeInProgress \/ ReaderAlive
      BY <1>a, <1>c, <1>11, <2>1, <2>2, PlainStepOf DEF Start
    <2>3. CASE ~(closeInProgress \/ ReaderAlive)
      <3>1. /\ pc[Reader] = "dead" /\ pc'[Reader] = "top" /\ pc'[c] = "write"
            /\ \A u \in Callers : u # c => pc'[u] = pc[u]
            /\ op' = op
        BY <1>11, <2>3 DEF Start, ReaderAlive, TypeInv, ControlTypes
      <3>2. op[c] = "connect"
        BY <1>c, <2>1
      <3>3. \A u \in Threads : Releases(u)' = Releases(u)
        BY <2>1, <3>1 DEF Threads
      <3>4. \A u \in Callers : Shutting(u)' = Shutting(u)
        BY <2>1, <3>1, <3>2
      <3>5. Attempting' = Attempting
        BY <2>1, <3>1
      <3>6. \A u \in Callers : OwnCall(u)'
        BY <1>d, <2>1, <3>1 DEF NotSent
      <3> HIDE DEF Attempting, Releases, Shutting, OwnCall
      <3>7. HeldByAThread'
        BY <2>1, <3>3, <3>4, <3>5 DEF HeldInv, HeldByAThread
      <3> QED BY <3>6, <3>7 DEF HeldInv
    <2> QED BY <2>2, <2>3
  <1>12. ASSUME NEW c \in Callers, Wait(c) PROVE HeldInv'
    <2>1. /\ pc[c] = "wait" /\ pc'[c] \in {"idle", "close"} /\ (pc'[c] = "close" => op'[c] = "close")
          /\ \A u \in Threads : u # c => pc'[u] = pc[u] /\ op'[u] = op[u]
          /\ UNCHANGED <<inProgress, attemptLock, closeInProgress, cont>>
      BY <1>a, <1>12 DEF Wait, linkVars, flagVars, localVars, OpAt
    <2> QED BY <1>c, <2>1, PlainStepOf
  <1>13. ASSUME NEW c \in Callers, CloseBegin(c) PROVE HeldInv'
    <2>1. pc[c] = "close" /\ op[c] = "close" /\ UNCHANGED <<inProgress, attemptLock, cont>>
      BY <1>d, <1>13 DEF CloseBegin, linkVars, localVars
    <2>2. CASE closeInProgress
      BY <1>a, <1>c, <1>13, <2>1, <2>2, PlainStepOf DEF CloseBegin, OpAt
    <2>3. CASE ~closeInProgress
      <3>1. closeInProgress' /\ pc'[c] = "meshClose" /\ op'[c] = "close"
            /\ \A u \in Threads : u # c => pc'[u] = pc[u] /\ op'[u] = op[u]
        BY <1>a, <1>13, <2>1, <2>3 DEF CloseBegin, OpAt
      <3> QED BY <1>c, <2>1, <2>3, <3>1, StepOf, ZenonT(60)
    <2> QED BY <2>2, <2>3
  <1>14. ASSUME NEW c \in Callers, MeshClose(c) PROVE HeldInv'
    <2>1. /\ pc[c] = "meshClose" /\ pc'[c] \in {"closeStream", "write"} /\ op'[c] = op[c]
          /\ \A u \in Threads : u # c => pc'[u] = pc[u] /\ op'[u] = op[u]
          /\ UNCHANGED <<inProgress, attemptLock, closeInProgress, cont>>
      BY <1>a, <1>14 DEF MeshClose, linkVars, localVars, OpAt
    <2> QED BY <1>c, <2>1, PlainStepOf
  <1>15. ASSUME NEW c \in Callers, CloseStream(c) PROVE HeldInv'
    <2>1. /\ pc[c] = "closeStream" /\ pc'[c] = "take" /\ op'[c] = op[c] /\ ~closeInProgress'
          /\ \A u \in Threads : u # c => pc'[u] = pc[u] /\ op'[u] = op[u]
          /\ UNCHANGED <<inProgress, attemptLock, cont>>
      BY <1>a, <1>15 DEF CloseStream, linkVars, localVars, OpAt
    <2>2. op[c] = "close"
      BY <1>c, <2>1
    <2> QED BY <1>c, <2>1, <2>2, StepOf
  <1>16. ASSUME NEW c \in Callers, Take(c) PROVE HeldInv'
    <2>1. pc[c] = "take" /\ op[c] = "close" /\ UNCHANGED <<inProgress, attemptLock, closeInProgress>>
      BY <1>d, <1>16 DEF Take, flagVars
    <2>2. CASE socket = NoSocket
      BY <1>a, <1>c, <1>16, <2>1, <2>2, PlainStepOf DEF Take
    <2>3. CASE socket # NoSocket
      <3>1. /\ pc'[c] = "shut" /\ op'[c] = "close"
            /\ \A u \in Threads : u # c => pc'[u] = pc[u] /\ op'[u] = op[u]
        BY <1>a, <1>16, <2>1, <2>3 DEF Take, OpAt
      <3>2. cont'[c] = "idle" /\ \A u \in Threads : u # c => cont'[u] = cont[u]
        BY <1>16, <2>3, ContFrame DEF Take
      <3> QED BY <1>c, <2>1, <3>1, <3>2, PlainStepOf
    <2> QED BY <2>2, <2>3
  <1>17. ASSUME Top PROVE HeldInv'
    BY <1>a, <1>c, <1>17, PlainStepOf DEF Top, linkVars, flagVars, localVars
  <1>18. ASSUME Read PROVE HeldInv'
    BY <1>a, <1>c, <1>18, PlainStepOf DEF Read, linkVars, flagVars
  <1>19. ASSUME Unread PROVE HeldInv'
    BY <1>a, <1>c, <1>19, PlainStepOf DEF Unread, linkVars, flagVars, localVars
  <1>20. ASSUME RecvData PROVE HeldInv'
    BY <1>a, <1>c, <1>20, PlainStepOf DEF RecvData, flagVars
  <1>21. ASSUME RecvEof PROVE HeldInv'
    <2>1. /\ pc[Reader] = "recv" /\ pc'[Reader] = "drop"
          /\ \A u \in Threads : u # Reader => pc'[u] = pc[u] /\ op'[u] = op[u]
          /\ UNCHANGED <<inProgress, attemptLock, closeInProgress>>
      BY <1>a, <1>21 DEF RecvEof, linkVars, flagVars
    <2>2. cont'[Reader] = "plan" /\ \A u \in Threads : u # Reader => cont'[u] = cont[u]
      BY <1>21, ContFrame DEF RecvEof
    <2> QED BY <1>c, <2>1, <2>2, PlainStepOf
  <1>22. ASSUME Handle PROVE HeldInv'
    <2>1. pc[Reader] = "handle" /\ UNCHANGED <<inProgress, attemptLock, closeInProgress, cont>>
      BY <1>22 DEF Handle, linkVars, localVars
    <2>2. CASE Goto(Reader, "top")
      BY <1>a, <1>c, <2>1, <2>2, PlainStepOf
    <2>3. CASE op' = [op EXCEPT ![Reader] = "message"] /\ pc' = [pc EXCEPT ![Reader] = "write"]
      <3>1. /\ pc'[Reader] = "write" /\ op'[Reader] = "message"
            /\ \A u \in Threads : u # Reader => pc'[u] = pc[u] /\ op'[u] = op[u]
        BY <2>3 DEF TypeInv, ControlTypes
      <3> QED BY <1>c, <2>1, <3>1, PlainStepOf
    <2> QED BY <1>22, <2>2, <2>3 DEF Handle
  <1>23. ASSUME Plan PROVE HeldInv'
    <2>1. pc[Reader] = "plan" /\ UNCHANGED <<closeInProgress, cont>>
      BY <1>23 DEF Plan, flagVars, localVars
    <2>2. CASE Goto(Reader, "top") /\ UNCHANGED <<attemptLock, inProgress>>
      BY <1>a, <1>c, <2>1, <2>2, PlainStepOf
    <2>3. CASE Goto(Reader, "giveup") /\ attemptLock = NoSocket /\ attemptLock' = Reader /\ UNCHANGED inProgress
      <3>1. ~inProgress
        BY <2>1 DEF HeldInv, HeldByAThread
      <3> QED BY <1>a, <1>c, <2>1, <2>3, <3>1, StepOf
    <2>4. CASE Goto(Reader, "sleep") /\ inProgress' = TRUE /\ UNCHANGED attemptLock
      BY <1>a, <1>c, <2>1, <2>4, StepOf
    <2> QED BY <1>23, <2>2, <2>3, <2>4 DEF Plan
  <1>24. ASSUME GiveUp PROVE HeldInv'
    <2>1. /\ pc[Reader] = "giveup" /\ pc'[Reader] = "top" /\ attemptLock' = NoSocket
          /\ \A u \in Threads : u # Reader => pc'[u] = pc[u] /\ op'[u] = op[u]
          /\ UNCHANGED <<inProgress, closeInProgress, cont>>
      BY <1>a, <1>24 DEF GiveUp, localVars
    <2>2. attemptLock = Reader /\ ~inProgress
      BY <2>1 DEF HeldInv, HeldByAThread
    <2> QED BY <1>c, <2>1, <2>2, StepOf
  <1>25. ASSUME Sleep PROVE HeldInv'
    BY <1>a, <1>c, <1>25, PlainStepOf DEF Sleep, linkVars, flagVars, localVars
  <1>26. ASSUME Post PROVE HeldInv'
    BY <1>a, <1>c, <1>26, PlainStepOf DEF Post, linkVars, flagVars, localVars
  <1>27. ASSUME Vet PROVE HeldInv'
    <2>1. pc[Reader] = "vet" /\ UNCHANGED <<inProgress, attemptLock, closeInProgress>>
      BY <1>27 DEF Vet, linkVars, flagVars
    <2>2. CASE Goto(Reader, "finish") /\ UNCHANGED cont
      BY <1>a, <1>c, <2>1, <2>2, PlainStepOf
    <2>3. CASE Goto(Reader, "drop") /\ cont' = [cont EXCEPT ![Reader] = "finish"]
      <3>1. /\ pc'[Reader] = "drop" /\ \A u \in Threads : u # Reader => pc'[u] = pc[u] /\ op'[u] = op[u]
        BY <1>a, <2>3
      <3>2. cont'[Reader] = "finish" /\ \A u \in Threads : u # Reader => cont'[u] = cont[u]
        BY <2>3, ContFrame
      <3> QED BY <1>c, <2>1, <3>1, <3>2, PlainStepOf
    <2>4. CASE /\ op' = [op EXCEPT ![Reader] = "reconnect"] /\ pc' = [pc EXCEPT ![Reader] = "write"]
               /\ UNCHANGED cont
      <3>1. /\ pc'[Reader] = "write" /\ op'[Reader] = "reconnect"
            /\ \A u \in Threads : u # Reader => pc'[u] = pc[u] /\ op'[u] = op[u]
        BY <2>4 DEF TypeInv, ControlTypes
      <3> QED BY <1>c, <2>1, <2>4, <3>1, PlainStepOf
    <2> QED BY <1>27, <2>2, <2>3, <2>4 DEF Vet
  <1>28. ASSUME Unconfig PROVE HeldInv'
    <2>1. pc[Reader] = "unconfig" /\ UNCHANGED <<inProgress, attemptLock, closeInProgress>>
      BY <1>28 DEF Unconfig, linkVars, flagVars
    <2>2. CASE Goto(Reader, "finish") /\ UNCHANGED cont
      BY <1>a, <1>c, <2>1, <2>2, PlainStepOf
    <2>3. CASE Goto(Reader, "drop") /\ cont' = [cont EXCEPT ![Reader] = "finish"]
      <3>1. /\ pc'[Reader] = "drop" /\ \A u \in Threads : u # Reader => pc'[u] = pc[u] /\ op'[u] = op[u]
        BY <1>a, <2>3
      <3>2. cont'[Reader] = "finish" /\ \A u \in Threads : u # Reader => cont'[u] = cont[u]
        BY <2>3, ContFrame
      <3> QED BY <1>c, <2>1, <3>1, <3>2, PlainStepOf
    <2> QED BY <1>28, <2>2, <2>3 DEF Unconfig
  <1>29. ASSUME Confirm PROVE HeldInv'
    BY <1>a, <1>c, <1>29, PlainStepOf DEF Confirm, flagVars, localVars
  <1>30. ASSUME Finish PROVE HeldInv'
    <2>1. /\ pc[Reader] = "finish" /\ pc'[Reader] = "top" /\ ~inProgress'
          /\ \A u \in Threads : u # Reader => pc'[u] = pc[u] /\ op'[u] = op[u]
          /\ UNCHANGED <<attemptLock, closeInProgress, cont>>
      BY <1>a, <1>30 DEF Finish, flagVars
    <2> QED BY <1>c, <2>1, StepOf
  <1>31. ASSUME NEW h \in Handles, PeerDrops(h) PROVE HeldInv'
    BY <1>c, <1>31, PlainStepOf DEF PeerDrops, flagVars, localVars
  <1>32. CASE UNCHANGED vars
    BY <1>c, <1>32, PlainStepOf DEF vars, linkVars, flagVars, localVars
  <1> QED
    BY <1>1, <1>2, <1>3, <1>4, <1>5, <1>6, <1>7, <1>8, <1>9, <1>10, <1>11, <1>12, <1>13, <1>14,
       <1>15, <1>16, <1>17, <1>18, <1>19, <1>20, <1>21, <1>22, <1>23, <1>24, <1>25, <1>26, <1>27,
       <1>28, <1>29, <1>30, <1>31, <1>32 DEF Next, CallerStep, IoStep, ReaderStep

\* Neither the mark of a reconnect attempt, nor the attempt lock, nor the mark of a close() in
\* progress outlives the thread that set it, on any path of an attempt, a connect() and a close().
THEOREM NothingStaysHeld == Spec => []HeldByAThread
  <1>1. Spec => [](TypeInv /\ HeldInv)
    BY TypeInit, TypeStep, HeldInit, HeldStep, PTL DEF Spec
  <1>2. HeldInv => HeldByAThread
    BY DEF HeldInv
  <1> QED BY <1>1, <1>2, PTL
=============================================================================
