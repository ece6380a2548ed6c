----------------------- MODULE ChannelDownload_proofs -----------------------
(***************************************************************************)
(* Proofs about ChannelDownload: the types, which rest on the partial list *)
(* never holding an index twice, that a list is installed in order, that   *)
(* the chain of requests is not broken while get_node waits, and that its  *)
(* rounds run out.  An answer at work always leads to the next request,    *)
(* since the index after the ones in the partial list is never in it yet.  *)
(***************************************************************************)
EXTENDS ChannelDownload, FiniteSetTheorems, TLAPS

\* The two lists: append_partial_if_new keeps the indices of the partial list apart.
Distinct == \A k, l \in 1..Len(partial) : partial[k].index = partial[l].index => k = l
ListInv ==
    /\ channels = None \/ channels \in [1..MaxChannels -> Channel]
    /\ partial \in Seq(Channel)
    /\ Distinct

\* Everything else.
ControlInv ==
    /\ pending \in Indices \cup {NoIndex}
    /\ retries \in 0..RetryLimit /\ failed \in BOOLEAN
    /\ at \in [Threads -> AppPlaces \cup RxPlaces]
    /\ at["app"] \in AppPlaces /\ at["rx"] \in RxPlaces
    /\ idx \in [Threads -> Indices]
    /\ left \in 0..Attempts /\ last \in Nat /\ result \in Results
    /\ downloads \in 0..MaxDownloads
    /\ asked \in [Indices -> 0..MaxAsked]
    /\ overlap \in BOOLEAN
TypeInv == ListInv /\ ControlInv

----------------------------------------------------------------------------
(* Types.                                                                  *)

\* A list of channels without a repeated index has at most MaxChannels of them.
LEMMA ShortList ==
    ASSUME NEW cs \in Seq(Channel),
           \A k, l \in 1..Len(cs) : cs[k].index = cs[l].index => k = l
    PROVE  Len(cs) \in Nat /\ Len(cs) <= MaxChannels
<1> DEFINE f == [k \in 1..Len(cs) |-> cs[k].index]
<1> USE DownloadAssumption
<1>1. Len(cs) \in Nat /\ \A k \in 1..Len(cs) : cs[k] \in Channel
    OBVIOUS
<1>2. f \in Injection(1..Len(cs), Indices)
    BY <1>1 DEF Injection, IsInjective, Channel
<1>3. IsFiniteSet(Indices) /\ Cardinality(Indices) = MaxChannels
    BY FS_Interval DEF Indices
<1>4. Cardinality(1..Len(cs)) = Len(cs)
  <2> DEFINE n == Len(cs)
  <2>1. n \in Nat
      BY <1>1
  <2> HIDE DEF n
  <2>2. Cardinality(1..n) = IF 1 > n THEN 0 ELSE n - 1 + 1
      BY <2>1, FS_Interval
  <2>3. Cardinality(1..n) = n
      BY <2>1, <2>2
  <2> QED BY <2>3 DEF n
<1>5. Cardinality(1..Len(cs)) <= Cardinality(Indices)
    BY <1>2, <1>3, FS_Injection
<1> QED BY <1>1, <1>3, <1>4, <1>5

\* Renumbering and filling up a short list gives a complete one.
LEMMA RenumberedType ==
    ASSUME NEW cs \in Seq(Channel), Len(cs) <= MaxChannels
    PROVE  /\ Renumbered(cs) \in Seq(Channel)
           /\ Len(Renumbered(cs)) = Len(cs)
           /\ \A k \in 1..Len(cs) : Renumbered(cs)[k].index = k - 1
<1> USE DownloadAssumption
<1>1. Len(cs) \in Nat /\ \A k \in 1..Len(cs) : cs[k] \in Channel /\ k - 1 \in Indices
    BY DEF Indices
<1>2. Renumbered(cs) \in [1..Len(cs) -> Channel]
    BY <1>1 DEF Renumbered, Channel
<1>3. \A k \in 1..Len(cs) : Renumbered(cs)[k].index = k - 1
    BY <1>1 DEF Renumbered, Channel
<1> QED BY <1>1, <1>2, <1>3

LEMMA FilledType ==
    ASSUME NEW cs \in Seq(Channel) PROVE Filled(cs) \in [1..MaxChannels -> Channel]
<1> USE DownloadAssumption
<1>1. \A k \in 1..MaxChannels : [index |-> k - 1, from |-> Disabled] \in Channel
    BY DEF Channel, Indices
<1>2. \A k \in 1..MaxChannels : k <= Len(cs) => cs[k] \in Channel
    OBVIOUS
<1> QED BY <1>1, <1>2 DEF Filled

LEMMA ListStep == TypeInv /\ [Next]_vars => ListInv'
<1> SUFFICES ASSUME TypeInv, [Next]_vars PROVE ListInv'
    OBVIOUS
<1> USE DownloadAssumption
<1>1. Len(partial) \in Nat /\ idx["rx"] \in Indices
    BY DEF TypeInv, ListInv, ControlInv, Threads
<1>2. ASSUME UNCHANGED listVars PROVE ListInv'
    BY <1>2 DEF TypeInv, ListInv, Distinct, listVars
<1>3. ASSUME Reset PROVE ListInv'
    BY <1>3 DEF Reset, ListInv, Distinct
<1>4. ASSUME AppendPartial PROVE ListInv'
  <2> DEFINE new == [index |-> idx["rx"], from |-> idx["rx"]]
  <2>1. new \in Channel
      BY <1>1 DEF Channel
  <2>2. CASE Known(idx["rx"])
      BY <1>4, <2>2 DEF AppendPartial, TypeInv, ListInv, Distinct
  <2>3. CASE ~Known(idx["rx"])
    <3>1. partial' = Append(partial, new) /\ channels' = channels
        BY <1>4, <2>3 DEF AppendPartial
    <3>2. partial \in Seq(Channel) /\ Distinct
        BY DEF TypeInv, ListInv
    <3>3. /\ partial' \in Seq(Channel) /\ Len(partial') = Len(partial) + 1
          /\ partial'[Len(partial) + 1] = new
          /\ \A k \in 1..Len(partial) : partial'[k] = partial[k]
        BY <1>1, <2>1, <3>1, <3>2
    <3>4. Distinct'
        BY <1>1, <2>3, <3>2, <3>3 DEF Known, Distinct
    <3> QED BY <3>1, <3>3, <3>4 DEF TypeInv, ListInv
  <2> QED BY <2>2, <2>3
<1>5. ASSUME Install PROVE ListInv'
  <2>1. Len(partial) <= MaxChannels
      BY ShortList DEF TypeInv, ListInv, Distinct
  <2>2. /\ Renumbered(partial) \in Seq(Channel)
        /\ Len(Renumbered(partial)) = Len(partial)
        /\ \A k \in 1..Len(partial) : Renumbered(partial)[k].index = k - 1
      BY <2>1, RenumberedType DEF TypeInv, ListInv
  <2>3. Filled(Renumbered(partial)) \in [1..MaxChannels -> Channel]
      BY <2>2, FilledType
  <2>4. partial' = Renumbered(partial) /\ channels' = Filled(Renumbered(partial))
      BY <1>5 DEF Install
  <2>5. Distinct'
      BY <1>1, <2>2, <2>4 DEF Distinct
  <2> QED BY <2>2, <2>3, <2>4, <2>5 DEF ListInv
<1> QED
  <2>1. ASSUME Watched(AppStep) PROVE ListInv'
      BY <2>1, <1>2, <1>3 DEF Watched, AppStep, Mark, Send, SendFails, Start, WaitCompletes,
         WaitTimesOut, Judge, Again, listVars
  <2>2. ASSUME Watched(RxStep) PROVE ListInv'
      BY <2>2, <1>2, <1>4, <1>5 DEF Watched, RxStep, Mark, Send, SendFails, Check, Progress,
         Finish, listVars
  <2>3. ASSUME Watched(Network) PROVE ListInv'
      BY <2>3, <1>2 DEF Watched, Network, ReceiveBad, ReceiveNak, ReceiveChannel
  <2>4. ASSUME UNCHANGED vars PROVE ListInv'
      BY <2>4, <1>2 DEF vars
  <2> QED BY <2>1, <2>2, <2>3, <2>4 DEF Next

LEMMA ControlStep == TypeInv /\ [Next]_vars => ControlInv'
<1> SUFFICES ASSUME ControlInv, Len(partial) \in Nat, [Next]_vars PROVE ControlInv'
    BY DEF TypeInv, ListInv
<1> USE DownloadAssumption DEF ControlInv, Threads, AppPlaces, RxPlaces, Results,
        listVars, trackVars, callVars, Goto, At
<1>1. ASSUME NEW A, Watched(A) PROVE overlap' \in BOOLEAN
    BY <1>1 DEF Watched
<1>2. ASSUME overlap' \in BOOLEAN, Mark("app") \/ Mark("rx") PROVE ControlInv'
  <2>1. failed' \in BOOLEAN
      BY <1>2, Zenon DEF Mark
  <2>2. CASE Mark("app")
      BY <1>2, <2>1, <2>2 DEF Mark
  <2>3. CASE Mark("rx")
      BY <1>2, <2>1, <2>3 DEF Mark
  <2> QED BY <1>2, <2>2, <2>3
<1>3. ASSUME overlap' \in BOOLEAN, Send("app") \/ Send("rx") PROVE ControlInv'
  <2>1. CASE Send("app")
      BY <1>3, <2>1 DEF Send, AfterSend
  <2>2. CASE Send("rx")
      BY <1>3, <2>2 DEF Send, AfterSend
  <2> QED BY <1>3, <2>1, <2>2
<1>4. ASSUME overlap' \in BOOLEAN, SendFails("app") \/ SendFails("rx") PROVE ControlInv'
  <2>1. CASE SendFails("app")
      BY <1>4, <2>1 DEF SendFails, AfterSend
  <2>2. CASE SendFails("rx")
      BY <1>4, <2>2 DEF SendFails, AfterSend
  <2> QED BY <1>4, <2>1, <2>2
<1>5. ASSUME overlap' \in BOOLEAN, Start PROVE ControlInv'
    BY <1>5 DEF Start, Indices
<1>6. ASSUME overlap' \in BOOLEAN, Reset \/ WaitCompletes \/ WaitTimesOut \/ Judge
      PROVE ControlInv'
    BY <1>6 DEF Reset, WaitCompletes, WaitTimesOut, Judge
<1>7. ASSUME overlap' \in BOOLEAN, Again PROVE ControlInv'
    BY <1>7, SMTT(30) DEF Again, LeftAfter
<1>8. ASSUME overlap' \in BOOLEAN, NEW i \in Indices, ReceiveBad(i) PROVE ControlInv'
    BY <1>8 DEF ReceiveBad, Answer
<1>9. ASSUME overlap' \in BOOLEAN, NEW i \in Indices, ReceiveNak(i) PROVE ControlInv'
  <2>1. CASE Exhausted
      BY <1>9, <2>1 DEF ReceiveNak, Answer
  <2>2. CASE ~Exhausted
    <3>1. pending \in Indices /\ retries + 1 \in 0..RetryLimit
        BY <2>2 DEF Exhausted
    <3> QED BY <1>9, <2>2, <3>1 DEF ReceiveNak, Answer, Outstanding
  <2> QED BY <2>1, <2>2
<1>10. ASSUME overlap' \in BOOLEAN, NEW i \in Indices, ReceiveChannel(i) PROVE ControlInv'
    BY <1>10 DEF ReceiveChannel, Answer
<1>11. ASSUME overlap' \in BOOLEAN, Check PROVE ControlInv'
    BY <1>11 DEF Check, Skips
<1>12. ASSUME overlap' \in BOOLEAN, AppendPartial PROVE ControlInv'
    BY <1>12 DEF AppendPartial
<1>13. ASSUME overlap' \in BOOLEAN, Progress PROVE ControlInv'
  <2>1. failed' \in BOOLEAN
      BY <1>13, Zenon DEF Progress
  <2> QED BY <1>13, <2>1 DEF Progress, PlaceAfter, Following, Indices
<1>14. ASSUME overlap' \in BOOLEAN, Install \/ Finish PROVE ControlInv'
  <2>1. CASE Install
      BY <1>14, <2>1 DEF Install
  <2>2. CASE Finish
      BY <1>14, <2>2 DEF Finish
  <2> QED BY <1>14, <2>1, <2>2
<1> QED
  <2>1. ASSUME Watched(AppStep) PROVE ControlInv'
    <3>1. AppStep /\ overlap' \in BOOLEAN
        BY <2>1, <1>1 DEF Watched
    <3> QED BY <3>1, <1>2, <1>3, <1>4, <1>5, <1>6, <1>7 DEF AppStep
  <2>2. ASSUME Watched(RxStep) PROVE ControlInv'
    <3>1. RxStep /\ overlap' \in BOOLEAN
        BY <2>2, <1>1 DEF Watched
    <3> QED BY <3>1, <1>2, <1>3, <1>4, <1>11, <1>12, <1>13, <1>14 DEF RxStep
  <2>3. ASSUME Watched(Network) PROVE ControlInv'
    <3>1. Network /\ overlap' \in BOOLEAN
        BY <2>3, <1>1 DEF Watched
    <3> QED BY <3>1, <1>8, <1>9, <1>10 DEF Network
  <2>4. ASSUME UNCHANGED vars PROVE ControlInv'
      BY <2>4 DEF vars
  <2> QED BY <2>1, <2>2, <2>3, <2>4 DEF Next

LEMMA TypeStep == TypeInv /\ [Next]_vars => TypeInv'
    BY ListStep, ControlStep DEF TypeInv

LEMMA TypeInit == Init => TypeInv
<1> SUFFICES ASSUME Init PROVE TypeInv
    OBVIOUS
<1>1. ListInv
    BY DEF Init, ListInv, Distinct
<1>2. failed \in BOOLEAN /\ overlap \in BOOLEAN
    BY Zenon DEF Init
<1>3. ControlInv
    BY <1>2, DownloadAssumption DEF Init, ControlInv, Threads, AppPlaces, RxPlaces, Results,
       NoIndex, Indices
<1> QED BY <1>1, <1>3 DEF TypeInv

\* The variables of the download keep their types, for any number of channels, retry limit and
\* attempts: above all the partial list never grows beyond the channels there are.
THEOREM TypesHold == Spec => []TypeOK
<1>1. Init => TypeInv
    BY TypeInit
<1>2. TypeInv => TypeOK
    BY DEF TypeInv, ListInv, ControlInv, TypeOK
<1> QED BY <1>1, <1>2, TypeStep, PTL DEF Spec

----------------------------------------------------------------------------
(* The list is installed in order.                                         *)

\* The place of the receive thread fixes how the outstanding index, the index it works on
\* and the length of the partial list hang together.
ReceiverInv == LET n == Len(partial) IN
    /\ at["rx"] \in {"idle", "check"} => pending \in {n, NoIndex}
    /\ At("rx", "append") => idx["rx"] = n /\ pending = n
    /\ At("rx", "progress") => idx["rx"] = n - 1 /\ pending = n - 1
    /\ At("rx", "install") => n = MaxChannels /\ pending = n - 1
    /\ At("rx", "finish") => n = MaxChannels
    /\ At("rx", "mark") => idx["rx"] = n /\ pending \in {n - 1, n}
    /\ At("rx", "send") => idx["rx"] = n /\ pending = n

ListsInOrder ==
    /\ \A k \in 1..Len(partial) : partial[k] = [index |-> k - 1, from |-> k - 1]
    /\ channels # None => \A i \in Indices : channels[i + 1] = [index |-> i, from |-> i]

\* While no callback has run during a request of the application.
CalmInv ==
    /\ Requesting => At("rx", "idle")
    /\ ListsInOrder
    /\ At("app", "mark") => idx["app"] = Len(partial)
    /\ At("app", "send") => idx["app"] = Len(partial) /\ pending = Len(partial)
    /\ ~At("app", "mark") => ReceiverInv

OrderInv ==
    /\ At("app", "reset") => idx["app"] = 0
    /\ ~overlap => CalmInv

\* What every step of OrderStep needs of the types.
LEMMA Lengths == TypeInv => /\ Len(partial) \in Nat /\ Len(partial) <= MaxChannels
                            /\ \A t \in Threads : idx[t] \in 0..(MaxChannels - 1)
                            /\ pending \in 0..MaxChannels
                            /\ at \in [Threads -> AppPlaces \cup RxPlaces]
                            /\ idx \in [Threads -> Indices]
<1> SUFFICES ASSUME TypeInv PROVE /\ Len(partial) \in Nat /\ Len(partial) <= MaxChannels
                                  /\ \A t \in Threads : idx[t] \in 0..(MaxChannels - 1)
                                  /\ pending \in 0..MaxChannels
                                  /\ at \in [Threads -> AppPlaces \cup RxPlaces]
                                  /\ idx \in [Threads -> Indices]
    OBVIOUS
<1>1. Len(partial) \in Nat /\ Len(partial) <= MaxChannels
    BY ShortList DEF TypeInv, ListInv, Distinct
<1>2. /\ at \in [Threads -> AppPlaces \cup RxPlaces]
      /\ idx \in [Threads -> Indices]
      /\ pending \in Indices \cup {NoIndex}
    BY DEF TypeInv, ControlInv
<1> QED BY <1>1, <1>2, DownloadAssumption DEF Indices, NoIndex

\* Only Reset makes the lists calm again.
Stepped == Watched(AppStep) \/ Watched(RxStep) \/ Watched(Network)
LEMMA CalmBefore == Stepped /\ ~overlap' => /\ overlap => At("app", "reset") /\ at'["app"] = "mark"
                                            /\ Requesting' => at'["rx"] = "idle"
    BY DEF Stepped, Watched

\* Steps that leave the lists alone leave them in order.
LEMMA SameLists == UNCHANGED listVars => /\ Len(partial)' = Len(partial)
                                         /\ ListsInOrder => ListsInOrder'
    BY DEF listVars, ListsInOrder

LEMMA OrderStep == TypeInv /\ OrderInv /\ Stepped => OrderInv'
<1> SUFFICES ASSUME TypeInv, OrderInv, Stepped PROVE OrderInv'
    OBVIOUS
<1> DEFINE n == Len(partial)
<1> USE DownloadAssumption DEF Threads, Goto, At
<1>1. /\ n \in Nat /\ n <= MaxChannels
      /\ idx["app"] \in 0..(MaxChannels - 1) /\ idx["rx"] \in 0..(MaxChannels - 1)
      /\ pending \in 0..MaxChannels
      /\ at \in [Threads -> AppPlaces \cup RxPlaces] /\ idx \in [Threads -> Indices]
    BY Lengths
<1>2. ASSUME UNCHANGED listVars, at'["app"] # "mark" \/ ~At("app", "reset"), ~overlap'
      PROVE  /\ CalmInv /\ (Requesting' => at'["rx"] = "idle")
             /\ ListsInOrder' /\ Len(partial)' = n
    BY <1>2, CalmBefore, SameLists DEF OrderInv, CalmInv
<1>3. ASSUME Start PROVE OrderInv'
  <2>1. /\ at["app"] = "idle" /\ at'["app"] = "reset"
        /\ at'["rx"] = at["rx"]
        /\ idx'["app"] = 0 /\ idx'["rx"] = idx["rx"]
        /\ UNCHANGED listVars /\ pending' = pending
      BY <1>1, <1>3 DEF Start, listVars, trackVars, callVars, Indices, NoIndex
  <2>2. ASSUME ~overlap' PROVE CalmInv'
    <3>1. CalmInv /\ (Requesting' => at'["rx"] = "idle") /\ ListsInOrder' /\ Len(partial)' = n
        BY <1>2, <2>1, <2>2
    <3> QED BY <1>1, <2>1, <3>1 DEF CalmInv, ReceiverInv, Requesting, NoIndex
  <2> QED BY <2>1, <2>2 DEF OrderInv
<1>4. ASSUME Reset PROVE OrderInv'
  <2>1. /\ at["app"] = "reset" /\ at'["app"] = "mark" /\ at'["rx"] = at["rx"]
        /\ channels' = None /\ partial' = <<>> /\ idx' = idx /\ idx["app"] = 0
      BY <1>1, <1>4 DEF Reset, OrderInv
  <2>2. Len(partial)' = 0 /\ ListsInOrder'
      BY <2>1 DEF ListsInOrder
  <2>3. ASSUME ~overlap' PROVE CalmInv'
      BY <2>1, <2>2, <2>3, CalmBefore DEF CalmInv, Requesting
  <2> QED BY <2>1, <2>3 DEF OrderInv
<1>5. ASSUME Mark("app") PROVE OrderInv'
  <2>1. /\ at["app"] = "mark" /\ at'["app"] = "send"
        /\ at'["rx"] = at["rx"]
        /\ idx' = idx /\ UNCHANGED listVars
        /\ pending' = idx["app"]
      BY <1>1, <1>5 DEF Mark, listVars, trackVars, callVars, Indices, NoIndex
  <2>2. ASSUME ~overlap' PROVE CalmInv'
    <3>1. CalmInv /\ (Requesting' => at'["rx"] = "idle") /\ ListsInOrder' /\ Len(partial)' = n
        BY <1>2, <2>1, <2>2
    <3> QED BY <1>1, <2>1, <3>1 DEF CalmInv, ReceiverInv, Requesting, NoIndex
  <2> QED BY <2>1, <2>2 DEF OrderInv
<1>6. ASSUME Send("app") PROVE OrderInv'
  <2>1. /\ at["app"] = "send" /\ at'["app"] = "wait"
        /\ at'["rx"] = at["rx"]
        /\ idx' = idx /\ UNCHANGED listVars
        /\ pending' = pending
      BY <1>1, <1>6 DEF Send, AfterSend, listVars, trackVars, callVars, Indices, NoIndex
  <2>2. ASSUME ~overlap' PROVE CalmInv'
    <3>1. CalmInv /\ (Requesting' => at'["rx"] = "idle") /\ ListsInOrder' /\ Len(partial)' = n
        BY <1>2, <2>1, <2>2
    <3> QED BY <1>1, <2>1, <3>1 DEF CalmInv, ReceiverInv, Requesting, NoIndex
  <2> QED BY <2>1, <2>2 DEF OrderInv
<1>7. ASSUME SendFails("app") PROVE OrderInv'
  <2>1. /\ at["app"] = "send" /\ at'["app"] \in {"wait", "idle"}
        /\ at'["rx"] = at["rx"]
        /\ idx' = idx /\ UNCHANGED listVars
        /\ pending' = idx["app"]
      BY <1>1, <1>7 DEF SendFails, AfterSend, listVars, trackVars, callVars, Indices, NoIndex
  <2>2. ASSUME ~overlap' PROVE CalmInv'
    <3>1. CalmInv /\ (Requesting' => at'["rx"] = "idle") /\ ListsInOrder' /\ Len(partial)' = n
        BY <1>2, <2>1, <2>2
    <3> QED BY <1>1, <2>1, <3>1 DEF CalmInv, ReceiverInv, Requesting, NoIndex
  <2> QED BY <2>1, <2>2 DEF OrderInv
<1>8. ASSUME WaitCompletes \/ WaitTimesOut \/ Judge PROVE OrderInv'
  <2>1. /\ at["app"] \in {"wait", "judge"} /\ at'["app"] \in {"judge", "again", "idle"}
        /\ at'["rx"] = at["rx"]
        /\ idx' = idx /\ UNCHANGED listVars
        /\ pending' = pending
      BY <1>1, <1>8 DEF WaitCompletes, WaitTimesOut, Judge, listVars, trackVars, callVars, Indices, NoIndex
  <2>2. ASSUME ~overlap' PROVE CalmInv'
    <3>1. CalmInv /\ (Requesting' => at'["rx"] = "idle") /\ ListsInOrder' /\ Len(partial)' = n
        BY <1>2, <2>1, <2>2
    <3> QED BY <1>1, <2>1, <3>1 DEF CalmInv, ReceiverInv, Requesting, NoIndex
  <2> QED BY <2>1, <2>2 DEF OrderInv
<1>9. ASSUME Again PROVE OrderInv'
  <2>1. /\ at["app"] = "again" /\ at'["app"] \in {"idle", "reset", "mark", "wait"}
        /\ at'["app"] = "reset" => idx'["app"] = 0
        /\ at'["app"] = "mark" => idx'["app"] = n
        /\ at'["rx"] = at["rx"] /\ idx'["rx"] = idx["rx"]
        /\ UNCHANGED listVars /\ pending' = pending
      BY <1>1, <1>9 DEF Again, listVars, trackVars, callVars, Indices, NoIndex
  <2>2. ASSUME ~overlap' PROVE CalmInv'
    <3>1. CalmInv /\ (Requesting' => at'["rx"] = "idle") /\ ListsInOrder' /\ Len(partial)' = n
        BY <1>2, <2>1, <2>2
    <3> QED BY <1>1, <2>1, <3>1 DEF CalmInv, ReceiverInv, Requesting, NoIndex
  <2> QED BY <2>1, <2>2 DEF OrderInv
<1>10. ASSUME NEW i \in Indices, ReceiveBad(i) PROVE OrderInv'
  <2>1. /\ at' = at /\ idx' = idx
        /\ UNCHANGED listVars /\ pending' = pending
      BY <1>1, <1>10 DEF ReceiveBad, listVars, trackVars, callVars, Indices, NoIndex
  <2>2. ASSUME ~overlap' PROVE CalmInv'
    <3>1. CalmInv /\ (Requesting' => at'["rx"] = "idle") /\ ListsInOrder' /\ Len(partial)' = n
        BY <1>2, <2>1, <2>2
    <3> QED BY <1>1, <2>1, <3>1 DEF CalmInv, ReceiverInv, Requesting, NoIndex
  <2> QED BY <2>1, <2>2 DEF OrderInv
<1>11. ASSUME NEW i \in Indices, ReceiveNak(i) PROVE OrderInv'
  <2>1. /\ at["rx"] = "idle" /\ at'["app"] = at["app"]
        /\ idx'["app"] = idx["app"]
        /\ UNCHANGED listVars /\ pending' = pending
        /\ \/ at'["rx"] = "idle"
           \/ at'["rx"] = "mark" /\ idx'["rx"] = pending /\ pending # NoIndex
      BY <1>1, <1>11 DEF ReceiveNak, Answer, Exhausted, Outstanding, listVars, trackVars, callVars, Indices, NoIndex
  <2>2. ASSUME ~overlap' PROVE CalmInv'
    <3>1. CalmInv /\ (Requesting' => at'["rx"] = "idle") /\ ListsInOrder' /\ Len(partial)' = n
        BY <1>2, <2>1, <2>2
    <3> QED BY <1>1, <2>1, <3>1 DEF CalmInv, ReceiverInv, Requesting, NoIndex
  <2> QED BY <2>1, <2>2 DEF OrderInv
<1>12. ASSUME NEW i \in Indices, ReceiveChannel(i) PROVE OrderInv'
  <2>1. /\ at["rx"] = "idle" /\ at'["rx"] = "check" /\ at'["app"] = at["app"]
        /\ idx'["app"] = idx["app"]
        /\ UNCHANGED listVars /\ pending' = pending
      BY <1>1, <1>12 DEF ReceiveChannel, Answer, listVars, trackVars, callVars, Indices, NoIndex
  <2>2. ASSUME ~overlap' PROVE CalmInv'
    <3>1. CalmInv /\ (Requesting' => at'["rx"] = "idle") /\ ListsInOrder' /\ Len(partial)' = n
        BY <1>2, <2>1, <2>2
    <3> QED BY <1>1, <2>1, <3>1 DEF CalmInv, ReceiverInv, Requesting, NoIndex
  <2> QED BY <2>1, <2>2 DEF OrderInv
<1>13. ASSUME Check PROVE OrderInv'
  <2>1. /\ at["rx"] = "check" /\ at'["app"] = at["app"]
        /\ idx' = idx
        /\ UNCHANGED listVars /\ pending' = pending
        /\ \/ at'["rx"] = "idle"
           \/ at'["rx"] = "append" /\ idx["rx"] = pending
      BY <1>1, <1>13 DEF Check, Skips, listVars, trackVars, callVars, Indices, NoIndex
  <2>2. ASSUME ~overlap' PROVE CalmInv'
    <3>1. CalmInv /\ (Requesting' => at'["rx"] = "idle") /\ ListsInOrder' /\ Len(partial)' = n
        BY <1>2, <2>1, <2>2
    <3> QED BY <1>1, <2>1, <3>1 DEF CalmInv, ReceiverInv, Requesting, NoIndex
  <2> QED BY <2>1, <2>2 DEF OrderInv
<1>14. ASSUME AppendPartial PROVE OrderInv'
  <2>1. at["rx"] = "append" /\ at'["app"] = at["app"] /\ UNCHANGED <<channels, pending, idx>>
      BY <1>1, <1>14 DEF AppendPartial, trackVars
  <2>2. ASSUME ~overlap' PROVE CalmInv'
    <3>1. CalmInv /\ (Requesting' => at'["rx"] = "idle")
        BY <2>1, <2>2, CalmBefore DEF OrderInv
    <3>2. ~At("app", "mark") /\ idx["rx"] = n /\ pending = n
        BY <2>1, <3>1 DEF CalmInv, ReceiverInv, Requesting
    <3>3. ~Known(idx["rx"])
      <4>1. \A k \in 1..n : partial[k].index = k - 1
        <5>1. \A k \in 1..n : partial[k] = [index |-> k - 1, from |-> k - 1]
            BY <3>1 DEF CalmInv, ListsInOrder
        <5> SUFFICES ASSUME NEW k \in 1..n PROVE partial[k].index = k - 1
            OBVIOUS
        <5>2. partial[k] = [index |-> k - 1, from |-> k - 1]
            BY <5>1
        <5> QED BY <5>2
      <4>2. \A k \in 1..n : k - 1 # n
          BY <1>1
      <4> QED BY <3>2, <4>1, <4>2 DEF Known
    <3>4. /\ partial' = Append(partial, [index |-> n, from |-> n])
          /\ at'["rx"] = "progress"
        BY <1>1, <1>14, <3>2, <3>3 DEF AppendPartial
    <3>5. Len(partial)' = n + 1 /\ ListsInOrder'
      <4>1. partial \in Seq(Channel) /\ [index |-> n, from |-> n] \in Channel
          BY <1>1, <3>2 DEF TypeInv, ListInv, Channel, Indices
      <4>2. /\ Len(partial') = n + 1 /\ partial'[n + 1] = [index |-> n, from |-> n]
            /\ \A k \in 1..n : partial'[k] = partial[k]
          BY <1>1, <3>4, <4>1
      <4>3. \A k \in 1..n : partial[k] = [index |-> k - 1, from |-> k - 1]
          BY <3>1 DEF CalmInv, ListsInOrder
      <4>4. \A k \in 1..(n + 1) : partial'[k] = [index |-> k - 1, from |-> k - 1]
        <5> SUFFICES ASSUME NEW k \in 1..(n + 1)
                     PROVE  partial'[k] = [index |-> k - 1, from |-> k - 1]
            OBVIOUS
        <5>1. CASE k = n + 1
          <6>1. k - 1 = n
              BY <1>1, <5>1
          <6>2. partial'[n + 1] = [index |-> n, from |-> n]
              BY <4>2
          <6> QED BY <5>1, <6>1, <6>2, Zenon
        <5>2. CASE k # n + 1
          <6>1. k \in 1..n
              BY <1>1, <5>2
          <6>2. partial'[k] = partial[k]
              BY <4>2, <6>1
          <6>3. partial[k] = [index |-> k - 1, from |-> k - 1]
              BY <4>3, <6>1
          <6> QED BY <6>2, <6>3, Zenon
        <5> QED BY <5>1, <5>2
      <4> QED BY <2>1, <3>1, <4>2, <4>4 DEF CalmInv, ListsInOrder
    <3> QED BY <1>1, <2>1, <3>1, <3>2, <3>4, <3>5 DEF CalmInv, ReceiverInv, Requesting
  <2> QED BY <2>1, <2>2 DEF OrderInv
<1>15. ASSUME Progress PROVE OrderInv'
  <2>1. /\ at["rx"] = "progress" /\ at'["app"] = at["app"]
        /\ idx'["app"] = idx["app"]
        /\ UNCHANGED listVars /\ pending' = pending
        /\ \/ /\ idx["rx"] = MaxChannels - 1
              /\ at'["rx"] = "install"
           \/ /\ idx["rx"] < MaxChannels - 1
              /\ at'["rx"] = "mark" /\ idx'["rx"] = idx["rx"] + 1
      BY <1>1, <1>15 DEF Progress, PlaceAfter, Following, listVars, trackVars, callVars, Indices, NoIndex
  <2>2. ASSUME ~overlap' PROVE CalmInv'
    <3>1. CalmInv /\ (Requesting' => at'["rx"] = "idle") /\ ListsInOrder' /\ Len(partial)' = n
        BY <1>2, <2>1, <2>2
    <3> QED BY <1>1, <2>1, <3>1 DEF CalmInv, ReceiverInv, Requesting, NoIndex
  <2> QED BY <2>1, <2>2 DEF OrderInv
<1>16. ASSUME Install PROVE OrderInv'
  <2>1. /\ at["rx"] = "install" /\ at'["rx"] = "finish" /\ at'["app"] = at["app"]
        /\ UNCHANGED <<pending, idx>>
        /\ partial' = Renumbered(partial) /\ channels' = Filled(Renumbered(partial))
      BY <1>1, <1>16 DEF Install, trackVars
  <2>2. ASSUME ~overlap' PROVE CalmInv'
    <3>1. CalmInv /\ (Requesting' => at'["rx"] = "idle")
        BY <2>1, <2>2, CalmBefore DEF OrderInv
    <3>2. ~At("app", "mark") /\ n = MaxChannels
        BY <2>1, <3>1 DEF CalmInv, ReceiverInv, Requesting
    <3>3. \A k \in 1..n : partial[k] = [index |-> k - 1, from |-> k - 1]
        BY <3>1 DEF CalmInv, ListsInOrder
    <3>4. \A k \in 1..n : Renumbered(partial)[k] = [index |-> k - 1, from |-> k - 1]
      <4> SUFFICES ASSUME NEW k \in 1..n
                   PROVE  Renumbered(partial)[k] = [index |-> k - 1, from |-> k - 1]
          OBVIOUS
      <4>1. Renumbered(partial)[k] = [partial[k] EXCEPT !.index = k - 1]
          BY DEF Renumbered
      <4>2. partial[k] = [index |-> k - 1, from |-> k - 1]
          BY <3>3
      <4> QED BY <4>1, <4>2
    <3>5. Len(Renumbered(partial)) = n
        BY <1>1, RenumberedType DEF TypeInv, ListInv
    <3>6. \A i \in Indices : Filled(Renumbered(partial))[i + 1] = [index |-> i, from |-> i]
      <4> SUFFICES ASSUME NEW i \in Indices
                   PROVE  Filled(Renumbered(partial))[i + 1] = [index |-> i, from |-> i]
          OBVIOUS
      <4>1. i \in Nat /\ i + 1 \in 1..MaxChannels /\ i + 1 - 1 = i
          BY DEF Indices
      <4>2. Filled(Renumbered(partial))[i + 1] = Renumbered(partial)[i + 1]
          BY <3>2, <3>5, <4>1 DEF Filled
      <4> QED BY <3>2, <3>4, <4>1, <4>2
    <3>7. Len(partial)' = n /\ ListsInOrder'
        BY <2>1, <3>4, <3>5, <3>6 DEF ListsInOrder
    <3> QED BY <1>1, <2>1, <3>1, <3>2, <3>7 DEF CalmInv, ReceiverInv, Requesting
  <2> QED BY <2>1, <2>2 DEF OrderInv
<1>17. ASSUME Finish PROVE OrderInv'
  <2>1. /\ at["rx"] = "finish" /\ at'["rx"] = "idle" /\ at'["app"] = at["app"]
        /\ idx' = idx
        /\ UNCHANGED listVars /\ pending' = NoIndex
      BY <1>1, <1>17 DEF Finish, listVars, trackVars, callVars, Indices, NoIndex
  <2>2. ASSUME ~overlap' PROVE CalmInv'
    <3>1. CalmInv /\ (Requesting' => at'["rx"] = "idle") /\ ListsInOrder' /\ Len(partial)' = n
        BY <1>2, <2>1, <2>2
    <3> QED BY <1>1, <2>1, <3>1 DEF CalmInv, ReceiverInv, Requesting, NoIndex
  <2> QED BY <2>1, <2>2 DEF OrderInv
<1>18. ASSUME Mark("rx") PROVE OrderInv'
  <2>1. /\ at["rx"] = "mark" /\ at'["rx"] = "send" /\ at'["app"] = at["app"]
        /\ idx' = idx
        /\ UNCHANGED listVars /\ pending' = idx["rx"]
      BY <1>1, <1>18 DEF Mark, listVars, trackVars, callVars, Indices, NoIndex
  <2>2. ASSUME ~overlap' PROVE CalmInv'
    <3>1. CalmInv /\ (Requesting' => at'["rx"] = "idle") /\ ListsInOrder' /\ Len(partial)' = n
        BY <1>2, <2>1, <2>2
    <3> QED BY <1>1, <2>1, <3>1 DEF CalmInv, ReceiverInv, Requesting, NoIndex
  <2> QED BY <2>1, <2>2 DEF OrderInv
<1>19. ASSUME Send("rx") PROVE OrderInv'
  <2>1. /\ at["rx"] = "send" /\ at'["rx"] = "idle" /\ at'["app"] = at["app"]
        /\ idx' = idx
        /\ UNCHANGED listVars /\ pending' = pending
      BY <1>1, <1>19 DEF Send, AfterSend, listVars, trackVars, callVars, Indices, NoIndex
  <2>2. ASSUME ~overlap' PROVE CalmInv'
    <3>1. CalmInv /\ (Requesting' => at'["rx"] = "idle") /\ ListsInOrder' /\ Len(partial)' = n
        BY <1>2, <2>1, <2>2
    <3> QED BY <1>1, <2>1, <3>1 DEF CalmInv, ReceiverInv, Requesting, NoIndex
  <2> QED BY <2>1, <2>2 DEF OrderInv
<1>20. ASSUME SendFails("rx") PROVE OrderInv'
  <2>1. /\ at["rx"] = "send" /\ at'["rx"] = "idle" /\ at'["app"] = at["app"]
        /\ idx' = idx
        /\ UNCHANGED listVars /\ pending' = idx["rx"]
      BY <1>1, <1>20 DEF SendFails, AfterSend, listVars, trackVars, callVars, Indices, NoIndex
  <2>2. ASSUME ~overlap' PROVE CalmInv'
    <3>1. CalmInv /\ (Requesting' => at'["rx"] = "idle") /\ ListsInOrder' /\ Len(partial)' = n
        BY <1>2, <2>1, <2>2
    <3> QED BY <1>1, <2>1, <3>1 DEF CalmInv, ReceiverInv, Requesting, NoIndex
  <2> QED BY <2>1, <2>2 DEF OrderInv
<1> QED
  <2>1. ASSUME AppStep PROVE OrderInv'
      BY <2>1, <1>3, <1>4, <1>5, <1>6, <1>7, <1>8, <1>9 DEF AppStep
  <2>2. ASSUME RxStep PROVE OrderInv'
      BY <2>2, <1>13, <1>14, <1>15, <1>16, <1>17, <1>18, <1>19, <1>20 DEF RxStep
  <2>3. ASSUME Network PROVE OrderInv'
      BY <2>3, <1>10, <1>11, <1>12 DEF Network
  <2> QED BY <2>1, <2>2, <2>3 DEF Stepped, Watched

LEMMA OrderInit == Init => OrderInv
<1> SUFFICES ASSUME Init PROVE OrderInv
    OBVIOUS
<1>1. Len(partial) = 0 /\ ListsInOrder
    BY DEF Init, ListsInOrder
<1> QED BY <1>1 DEF Init, OrderInv, CalmInv, ReceiverInv, Requesting, At, Threads

LEMMA OrderNext == TypeInv /\ OrderInv /\ [Next]_vars => TypeInv' /\ OrderInv'
<1>1. ASSUME OrderInv, UNCHANGED vars PROVE OrderInv'
    BY <1>1 DEF vars, listVars, trackVars, callVars, OrderInv, CalmInv, ReceiverInv, ListsInOrder,
       Requesting, At
<1> QED BY <1>1, TypeStep, OrderStep DEF Next, Stepped

\* However answers are lost, late, repeated or refused, and whatever the limits are: a list
\* that onResponseRequestChannel installs has every channel where the device has it, unless a
\* callback ran while the application was making a request of this download.
THEOREM ListsInstalledInOrder == Spec => []InstalledInOrder
<1>1. Init => TypeInv /\ OrderInv
    BY TypeInit, OrderInit
<1>2. OrderInv => InstalledInOrder
    BY DEF OrderInv, CalmInv, ListsInOrder, InstalledInOrder
<1> QED BY <1>1, <1>2, OrderNext, PTL DEF Spec

----------------------------------------------------------------------------
(* The chain of requests.                                                  *)

\* While get_node waits, an answer that the receive thread works on leads to the next request,
\* and when there is none the outstanding index has a request on the way.
Waiting == at["app"] \in {"wait", "judge", "again"}
ChainInv ==
    (Waiting /\ ~overlap /\ channels = None /\ ~failed) =>
        /\ at["rx"] \in {"idle", "check"} => pending # NoIndex
        /\ At("rx", "idle") => asked[pending] > 0
        /\ At("rx", "check") => idx["rx"] = pending \/ asked[pending] > 0
        /\ ~At("rx", "finish")

\* The next index is not in a list in order.
LEMMA NextIsUnknown ==
    ASSUME ListsInOrder, Len(partial) \in Nat
    PROVE  ~Known(Len(partial))
<1> SUFFICES ASSUME Known(Len(partial)) PROVE FALSE
    OBVIOUS
<1>1. PICK k \in 1..Len(partial) : partial[k].index = Len(partial)
    BY DEF Known
<1>2. partial[k] = [index |-> k - 1, from |-> k - 1]
    BY DEF ListsInOrder
<1>3. partial[k].index = k - 1
    BY <1>2
<1> QED BY <1>1, <1>3

LEMMA FilledIsThere == \A cs : Filled(cs) # None
<1> SUFFICES ASSUME NEW cs, Filled(cs) = <<>> PROVE FALSE
    BY DEF None
<1>1. DOMAIN Filled(cs) = 1..MaxChannels
    BY DEF Filled
<1>2. DOMAIN <<>> = {}
    OBVIOUS
<1>3. 1 \in 1..MaxChannels
    BY DownloadAssumption
<1> QED BY <1>1, <1>2, <1>3

LEMMA ChainStep == TypeInv /\ OrderInv /\ ChainInv /\ Stepped => ChainInv'
<1> SUFFICES ASSUME TypeInv, OrderInv, ChainInv, Stepped, Waiting', ~overlap', channels' = None, ~failed'
             PROVE  /\ at'["rx"] \in {"idle", "check"} => pending' # NoIndex
                    /\ at'["rx"] = "idle" => asked'[pending'] > 0
                    /\ at'["rx"] = "check" => idx'["rx"] = pending' \/ asked'[pending'] > 0
                    /\ at'["rx"] # "finish"
    BY DEF ChainInv, At
<1> DEFINE n == Len(partial)
           Goal == /\ at'["rx"] \in {"idle", "check"} => pending' # NoIndex
                   /\ at'["rx"] = "idle" => asked'[pending'] > 0
                   /\ at'["rx"] = "check" => idx'["rx"] = pending' \/ asked'[pending'] > 0
                   /\ at'["rx"] # "finish"
<1> USE DownloadAssumption DEF Threads, Goto, At, Waiting, Requesting
<1>1. /\ n \in Nat /\ n <= MaxChannels
      /\ idx["app"] \in 0..(MaxChannels - 1) /\ idx["rx"] \in 0..(MaxChannels - 1)
      /\ pending \in 0..MaxChannels
      /\ at \in [Threads -> AppPlaces \cup RxPlaces] /\ idx \in [Threads -> Indices]
    BY Lengths
<1>2. asked \in [Indices -> 0..MaxAsked] /\ (\A t \in Threads : idx[t] # NoIndex)
    BY <1>1 DEF TypeInv, ControlInv, NoIndex
<1>3. ~overlap /\ CalmInv
    BY CalmBefore DEF OrderInv
\* A request that was sent is on the way.
<1>4. ASSUME NEW t \in Threads, Send(t) PROVE pending' = pending /\ asked'[idx[t]] > 0
    BY <1>1, <1>2, <1>4 DEF Send, trackVars
<1>5. ASSUME NEW i \in Indices, Answer(i) PROVE \A j \in Indices \ {i} : asked'[j] = asked[j]
    BY <1>2, <1>5 DEF Answer
<1>6. ASSUME AppStep PROVE Goal
  <2>1. at'["rx"] = at["rx"]
      BY <1>1, <1>6 DEF AppStep, Start, Reset, WaitCompletes, WaitTimesOut, Judge, Again, Mark, Send, SendFails,
         AfterSend
  <2>2. CASE Send("app")
    <3>1. at["app"] = "send" /\ at["rx"] = "idle" /\ pending = idx["app"]
        BY <1>3, <2>2 DEF Send, CalmInv
    <3> QED BY <1>2, <1>4, <2>1, <2>2, <3>1
  <2>3. CASE SendFails("app")
      BY <2>3 DEF SendFails
  <2>4. CASE Start \/ Reset \/ Mark("app")
    <3>1. at'["app"] \in {"reset", "mark", "send"}
        BY <1>1, <2>4 DEF Start, Reset, Mark
    <3> QED BY <3>1
  <2>5. CASE WaitCompletes \/ WaitTimesOut \/ Judge \/ Again
    <3>1. Waiting /\ UNCHANGED <<channels, failed, pending, asked>> /\ idx'["rx"] = idx["rx"]
        BY <1>1, <2>5 DEF WaitCompletes, WaitTimesOut, Judge, Again, listVars, trackVars
    <3> QED BY <1>3, <2>1, <3>1 DEF ChainInv
  <2> QED BY <1>6, <2>2, <2>3, <2>4, <2>5 DEF AppStep
<1>7. ASSUME RxStep PROVE Goal
  <2>1. at'["app"] = at["app"] /\ ~Requesting
      BY <1>1, <1>7 DEF RxStep, Check, AppendPartial, Progress, Install, Finish, Mark, Send, SendFails, AfterSend
  <2>2. CASE Send("rx")
    <3>1. idx["rx"] = pending /\ at'["rx"] = "idle"
        BY <1>1, <1>3, <2>1, <2>2 DEF Send, AfterSend, CalmInv, ReceiverInv
    <3> QED BY <1>2, <1>4, <2>2, <3>1
  <2>3. CASE SendFails("rx")
      BY <2>3 DEF SendFails
  <2>4. CASE Mark("rx") \/ Progress
    <3>1. at'["rx"] \in {"send", "install", "mark"}
        BY <1>1, <2>4 DEF Mark, Progress, PlaceAfter
    <3> QED BY <3>1
  <2>5. CASE Check
    <3>1. at["rx"] = "check" /\ UNCHANGED <<channels, failed, pending, asked, idx>>
          /\ at'["rx"] = IF Skips(idx["rx"]) THEN "idle" ELSE "append"
        BY <1>1, <2>5 DEF Check, listVars, trackVars
    <3> QED BY <1>3, <2>1, <3>1 DEF ChainInv, Skips
  <2>6. CASE AppendPartial
    <3>1. at["rx"] = "append"
        BY <2>6 DEF AppendPartial
    <3>2. idx["rx"] = n /\ ListsInOrder
        BY <1>3, <2>1, <3>1 DEF CalmInv, ReceiverInv
    <3>3. ~Known(idx["rx"])
        BY <1>1, <3>2, NextIsUnknown
    <3>4. at'["rx"] = "progress"
        BY <1>1, <2>6, <3>3 DEF AppendPartial
    <3> QED BY <3>4
  <2>7. CASE Install
      BY <2>7, FilledIsThere DEF Install
  <2>8. CASE Finish
    <3>1. at["rx"] = "finish" /\ UNCHANGED <<channels, failed>>
        BY <2>8 DEF Finish, listVars
    <3> QED BY <1>3, <2>1, <3>1 DEF ChainInv
  <2> QED BY <1>7, <2>2, <2>3, <2>4, <2>5, <2>6, <2>7, <2>8 DEF RxStep
<1>8. ASSUME NEW i \in Indices, ReceiveBad(i) PROVE Goal
    BY <1>8 DEF ReceiveBad
<1>9. ASSUME NEW i \in Indices, ReceiveNak(i) PROVE Goal
  <2>1. at'["rx"] = "mark"
      BY <1>1, <1>9 DEF ReceiveNak
  <2> QED BY <2>1
<1>10. ASSUME NEW i \in Indices, ReceiveChannel(i) PROVE Goal
  <2>1. /\ Answer(i) /\ at["rx"] = "idle" /\ at'["rx"] = "check" /\ at'["app"] = at["app"]
        /\ UNCHANGED <<channels, failed, pending>> /\ idx'["rx"] = i
      BY <1>1, <1>10 DEF ReceiveChannel, Answer, listVars, trackVars
  <2>2. pending # NoIndex /\ asked[pending] > 0
      BY <1>3, <2>1 DEF ChainInv
  <2>3. pending \in Indices
      BY <1>1, <2>2 DEF Indices, NoIndex
  <2> QED BY <1>5, <2>1, <2>2, <2>3
<1> QED BY <1>6, <1>7, <1>8, <1>9, <1>10 DEF Stepped, Watched, Network

\* The client never breaks the chain of its requests: while get_node waits for a download that
\* has not failed, the outstanding index has a request on the way or an answer at work, however
\* many late, repeated or refused answers came before.
THEOREM RequestsGoOn == Spec => []ChainUnbroken
<1>1. Init => TypeInv /\ OrderInv /\ ChainInv
  <2>1. Init => TypeInv /\ OrderInv
      BY TypeInit, OrderInit
  <2>2. Init => ChainInv
      BY DEF Init, ChainInv, Waiting, Threads
  <2> QED BY <2>1, <2>2
<1>2. TypeInv /\ OrderInv /\ ChainInv /\ [Next]_vars => TypeInv' /\ OrderInv' /\ ChainInv'
  <2>1. ASSUME ChainInv, UNCHANGED vars PROVE ChainInv'
      BY <2>1 DEF vars, listVars, trackVars, callVars, ChainInv, Waiting, At
  <2> QED BY <2>1, ChainStep, OrderNext DEF Next, Stepped
<1>3. ChainInv => ChainUnbroken
    BY DEF ChainInv, ChainUnbroken, Waiting, At
<1> QED BY <1>1, <1>2, <1>3, PTL DEF Spec

----------------------------------------------------------------------------
(* get_node runs out of attempts.                                          *)

\* The rounds the call has left at most: an attempt number of them for every channel that is
\* missing since it last looked, and those of the present number of channels.
AttemptsAfter(n) == (MaxChannels - n) * Attempts
Budget == AttemptsAfter(last) + left

\* The number of channels that get_node looked at never exceeds what the partial list has,
\* although reset_for_download empties the list: it is reached with no channel only.
LookInv ==
    /\ ~At("app", "idle") => last <= Len(partial)
    /\ At("app", "reset") => last = 0

\* A round that asks again.
AsksAgain == At("app", "again") /\ at'["app"] \notin {"again", "idle"}
BudgetShrinks ==
    /\ (~At("app", "idle") /\ ~At("app", "idle")') => Budget' <= Budget
    /\ AsksAgain => Budget' < Budget

LEMMA MoreLeft ==
    ASSUME NEW m \in 0..MaxChannels, NEW n \in 0..MaxChannels
    PROVE  /\ AttemptsAfter(n) \in Nat
           /\ m < n => AttemptsAfter(n) + Attempts <= AttemptsAfter(m)
<1> USE DownloadAssumption
<1>1. \A a, b \in Nat : a * b \in Nat
    OBVIOUS
<1>2. \A a, b, d \in Nat : a + 1 <= b => a * d + d <= b * d
  <2> SUFFICES ASSUME NEW a \in Nat, NEW b \in Nat, NEW d \in Nat, a + 1 <= b
               PROVE  a * d + d <= b * d
      OBVIOUS
  <2> DEFINE k == b - (a + 1)
  <2>1. k \in Nat /\ b = a + 1 + k
      OBVIOUS
  <2> HIDE DEF k
  <2>2. b * d = a * d + d + k * d
      BY <2>1
  <2>3. k * d \in Nat /\ a * d \in Nat
      BY <2>1, <1>1
  <2> QED BY <2>2, <2>3
<1>3. MaxChannels - n \in Nat /\ MaxChannels - m \in Nat
    OBVIOUS
<1>4. m < n => (MaxChannels - n) + 1 <= MaxChannels - m
    OBVIOUS
<1> QED BY <1>1, <1>2, <1>3, <1>4 DEF AttemptsAfter

LEMMA LookStep == TypeInv /\ LookInv /\ [Next]_vars => LookInv'
<1> SUFFICES ASSUME TypeInv, LookInv, [Next]_vars PROVE LookInv'
    OBVIOUS
<1> USE DownloadAssumption DEF At
<1>1. at \in [Threads -> AppPlaces \cup RxPlaces] /\ "app" \in Threads /\ "rx" \in Threads
    BY DEF TypeInv, ControlInv, Threads
<1>2. Len(partial) \in Nat /\ Len(partial) <= MaxChannels /\ last \in Nat
    BY Lengths DEF TypeInv, ControlInv
<1>3. ASSUME UNCHANGED <<partial, last>>, at'["app"] = at["app"] PROVE LookInv'
    BY <1>3 DEF LookInv
<1>4. ASSUME UNCHANGED <<partial, last>>, at["app"] # "idle", at'["app"] # "reset" PROVE LookInv'
    BY <1>4 DEF LookInv
<1>5. ASSUME AppStep PROVE LookInv'
  <2>1. CASE Mark("app") \/ Send("app") \/ SendFails("app") \/ WaitCompletes \/ WaitTimesOut \/ Judge
    <3>1. UNCHANGED <<partial, last>> /\ at["app"] # "idle" /\ at'["app"] # "reset"
        BY <1>1, <2>1 DEF Mark, Send, SendFails, WaitCompletes, WaitTimesOut, Judge, Goto,
           AfterSend, listVars, callVars
    <3> QED BY <3>1, <1>4
  <2>2. CASE Start
    <3>1. last' = 0 /\ UNCHANGED partial
        BY <2>2 DEF Start, listVars
    <3> QED BY <1>2, <3>1 DEF LookInv
  <2>3. CASE Reset
    <3>1. partial' = <<>> /\ last' = last /\ last = 0 /\ at'["app"] = "mark"
        BY <1>1, <2>3 DEF Reset, Goto, LookInv, callVars
    <3> QED BY <3>1 DEF LookInv
  <2>4. CASE Again
    <3>1. UNCHANGED partial /\ at["app"] = "again"
        BY <2>4 DEF Again, listVars
    <3>2. CASE LeftAfter(Len(partial)) = 0
        BY <1>1, <1>2, <2>4, <3>1, <3>2 DEF Again, Goto, LookInv
    <3>3. CASE LeftAfter(Len(partial)) # 0
      <4>1. last' = Len(partial) /\ (at'["app"] = "reset" => Len(partial) = 0)
          BY <1>1, <2>4, <3>3 DEF Again, Goto
      <4> QED BY <1>2, <3>1, <4>1 DEF LookInv
    <3> QED BY <3>2, <3>3
  <2> QED BY <1>5, <2>1, <2>2, <2>3, <2>4 DEF AppStep
<1>6. ASSUME RxStep PROVE LookInv'
  <2>1. CASE Mark("rx") \/ Send("rx") \/ SendFails("rx") \/ Check \/ Progress \/ Finish
    <3>1. UNCHANGED <<partial, last>> /\ at'["app"] = at["app"]
        BY <1>1, <2>1 DEF Mark, Send, SendFails, Check, Progress, Finish, Goto, listVars, callVars
    <3> QED BY <3>1, <1>3
  <2>2. CASE AppendPartial
    <3>1. last' = last /\ at'["app"] = at["app"]
        BY <1>1, <2>2 DEF AppendPartial, Goto, callVars
    <3>2. Len(partial') >= Len(partial)
      <4>1. partial \in Seq(Channel)
          BY DEF TypeInv, ListInv
      <4> QED BY <1>2, <2>2, <4>1 DEF AppendPartial
    <3>3. Len(partial') \in Nat
        BY <1>2, ListStep, ShortList DEF ListInv, Distinct
    <3> QED BY <1>2, <3>1, <3>2, <3>3 DEF LookInv
  <2>3. CASE Install
    <3>1. last' = last /\ at'["app"] = at["app"] /\ partial' = Renumbered(partial)
        BY <1>1, <2>3 DEF Install, Goto, callVars
    <3>2. Len(Renumbered(partial)) = Len(partial)
        BY <1>2, RenumberedType DEF TypeInv, ListInv
    <3> QED BY <3>1, <3>2 DEF LookInv
  <2> QED BY <1>6, <2>1, <2>2, <2>3 DEF RxStep
<1>7. ASSUME Network PROVE LookInv'
  <2>1. UNCHANGED <<partial, last>> /\ at'["app"] = at["app"]
      BY <1>1, <1>7 DEF Network, ReceiveBad, ReceiveNak, ReceiveChannel, Answer, Goto, listVars, callVars
  <2> QED BY <2>1, <1>3
<1>8. CASE UNCHANGED vars
    BY <1>8, <1>3 DEF vars, listVars, callVars
<1> QED BY <1>5, <1>6, <1>7, <1>8 DEF Next, Watched

LEMMA BudgetType == TypeInv /\ LookInv /\ ~At("app", "idle") => last \in 0..MaxChannels /\ Budget \in Nat
<1> SUFFICES ASSUME TypeInv, LookInv, ~At("app", "idle") PROVE last \in 0..MaxChannels /\ Budget \in Nat
    OBVIOUS
<1>1. last \in 0..MaxChannels /\ left \in Nat
    BY Lengths, DownloadAssumption DEF TypeInv, ControlInv, LookInv
<1>2. AttemptsAfter(last) \in Nat
    BY <1>1, MoreLeft
<1> QED BY <1>1, <1>2 DEF Budget

LEMMA BudgetStep == TypeInv /\ LookInv /\ [Next]_vars => BudgetShrinks
<1> SUFFICES ASSUME TypeInv, LookInv, [Next]_vars PROVE BudgetShrinks
    OBVIOUS
<1> USE DownloadAssumption DEF At
<1>1. at \in [Threads -> AppPlaces \cup RxPlaces] /\ "app" \in Threads /\ "rx" \in Threads
    BY DEF TypeInv, ControlInv, Threads
<1>2. ~At("app", "idle") => last \in 0..MaxChannels /\ Budget \in Nat
    BY BudgetType
<1>3. ASSUME UNCHANGED <<left, last>>, ~AsksAgain PROVE BudgetShrinks
  <2>1. Budget' = Budget
      BY <1>3 DEF Budget, AttemptsAfter
  <2> QED BY <1>2, <1>3, <2>1 DEF BudgetShrinks
<1>4. CASE Start
  <2>1. at["app"] = "idle"
      BY <1>4 DEF Start
  <2> QED BY <2>1 DEF BudgetShrinks, AsksAgain
<1>5. CASE Again
  <2>1. CASE LeftAfter(Len(partial)) = 0
    <3>1. at'["app"] = "idle"
        BY <1>1, <1>5, <2>1 DEF Again, Goto
    <3> QED BY <3>1 DEF BudgetShrinks, AsksAgain
  <2>2. CASE LeftAfter(Len(partial)) # 0
    <3> DEFINE n == Len(partial)
    <3>1. at["app"] = "again" /\ left' = LeftAfter(n) - 1 /\ last' = n
        BY <1>5, <2>2 DEF Again
    <3>2. last \in 0..MaxChannels /\ n \in 0..MaxChannels /\ last <= n /\ left \in Nat
        BY <1>2, <3>1, Lengths DEF LookInv, TypeInv, ControlInv
    <3> HIDE DEF n
    <3>3. AttemptsAfter(n) \in Nat /\ AttemptsAfter(last) \in Nat
          /\ (last < n => AttemptsAfter(n) + Attempts <= AttemptsAfter(last))
        BY <3>2, MoreLeft
    <3>4. Budget' = AttemptsAfter(n) + (LeftAfter(n) - 1)
        BY <3>1 DEF Budget, AttemptsAfter
    <3>5. Budget' < Budget
      <4>1. CASE n = last
          BY <3>2, <3>3, <3>4, <4>1 DEF Budget, LeftAfter
      <4>2. CASE n # last
        <5>1. last < n
            BY <3>2, <4>2
        <5>2. LeftAfter(n) = Attempts - 1
            BY <4>2 DEF LeftAfter
        <5> QED BY <3>2, <3>3, <3>4, <5>1, <5>2 DEF Budget
      <4> QED BY <4>1, <4>2
    <3>6. Budget' <= Budget
        BY <1>2, <3>1, <3>2, <3>3, <3>4, <3>5, <2>2 DEF LeftAfter, n, TypeInv, ControlInv
    <3> QED BY <3>5, <3>6 DEF BudgetShrinks
  <2> QED BY <2>1, <2>2
<1>6. ASSUME AppStep, ~Start, ~Again PROVE BudgetShrinks
  <2>1. UNCHANGED <<left, last>> /\ at["app"] # "again"
      BY <1>6 DEF AppStep, Mark, Send, SendFails, Reset, WaitCompletes, WaitTimesOut, Judge, callVars
  <2> QED BY <1>3, <2>1 DEF AsksAgain
<1>7. ASSUME RxStep \/ Network PROVE BudgetShrinks
  <2>1. UNCHANGED <<left, last>>
      BY <1>7 DEF RxStep, Network, Mark, Send, SendFails, Check, AppendPartial, Progress, Install,
         Finish, ReceiveBad, ReceiveNak, ReceiveChannel, callVars
  <2>2. at'["app"] = at["app"]
      BY <1>1, <1>7 DEF RxStep, Network, Mark, Send, SendFails, Check, AppendPartial, Progress,
         Install, Finish, ReceiveBad, ReceiveNak, ReceiveChannel, Answer, Goto
  <2> QED BY <1>3, <2>1, <2>2 DEF AsksAgain
<1>8. CASE UNCHANGED vars
    BY <1>8, <1>3 DEF vars, callVars, AsksAgain
<1> QED BY <1>4, <1>5, <1>6, <1>7, <1>8 DEF Next, Watched

\* A call of get_node asks again a bounded number of times, whatever the receive thread does
\* meanwhile: what is left of its rounds is a number while it runs, never grows, and is less
\* after each round that asks again, progress or none.
THEOREM RoundsRunOut ==
    Spec => [](~At("app", "idle") => Budget \in Nat) /\ [][BudgetShrinks]_vars
<1>1. Init => TypeInv /\ LookInv
  <2>1. Init => LookInv
      BY DEF Init, LookInv, At, Threads
  <2> QED BY <2>1, TypeInit
<1>2. TypeInv /\ LookInv /\ [Next]_vars => TypeInv' /\ LookInv'
    BY TypeStep, LookStep
<1>3. TypeInv /\ LookInv => (~At("app", "idle") => Budget \in Nat)
    BY BudgetType
<1>4. TypeInv /\ LookInv /\ [Next]_vars => [BudgetShrinks]_vars
    BY BudgetStep
<1> QED BY <1>1, <1>2, <1>3, <1>4, PTL DEF Spec
=============================================================================
