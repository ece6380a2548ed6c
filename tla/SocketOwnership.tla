--------------------------- MODULE SocketOwnership ---------------------------
(***************************************************************************)
(* What a TCPInterface promises about the native sockets it opens, without *)
(* threads, locks or retries: every socket is opened by one connect        *)
(* attempt, offered to the interface once, published or refused, and       *)
(* closed only after it has stopped being the published one; at most one   *)
(* is published, and a socket once withdrawn never comes back.  TcpLink    *)
(* implements this specification.                                          *)
(***************************************************************************)
CONSTANT Handles

VARIABLE phase

Phases == {"new", "offered", "current", "retiring", "closed"}

TypeOK == phase \in [Handles -> Phases]

Init == phase = [h \in Handles |-> "new"]

Moves(h, from, to) ==
    /\ phase[h] = from
    /\ phase' = [phase EXCEPT ![h] = to]

Open(h) == Moves(h, "new", "offered")

Publish(h) ==
    /\ \A g \in Handles : phase[g] # "current"
    /\ Moves(h, "offered", "current")

Refuse(h) == Moves(h, "offered", "retiring")

Withdraw(h) == Moves(h, "current", "retiring")

Close(h) == Moves(h, "retiring", "closed")

Next == \E h \in Handles :
    Open(h) \/ Publish(h) \/ Refuse(h) \/ Withdraw(h) \/ Close(h)

Spec == Init /\ [][Next]_phase

=============================================================================
