-------------------------- MODULE ChannelDownload --------------------------
(***************************************************************************)
(* Downloading the channels of a node one index at a time:                 *)
(* node_runtime/channel_request_runtime.py asks,                           *)
(* node_runtime/response_runtime.py receives, channel_state.py holds the   *)
(* list, and get_node of node_view.py waits and asks again.                *)
(*                                                                         *)
(* The application thread and the receive thread both issue requests.      *)
(* The lists have a lock; the outstanding index, the retry count and the   *)
(* failure flag have none.  Every request has a one-shot handler of its    *)
(* own, but all handlers run the same callback on the same state: a late   *)
(* answer is told from the expected one by its index alone.                *)
(***************************************************************************)
EXTENDS Naturals, Sequences

CONSTANTS
    MaxChannels,    \* MAX_CHANNELS
    RetryLimit,     \* CHANNEL_ROUTING_RETRY_LIMIT
    Attempts,       \* requestChannelAttempts of get_node
    MaxDownloads,   \* bound: downloads of this node
    MaxAsked        \* bound: unanswered requests of one index

ASSUME DownloadAssumption ==
    /\ MaxChannels \in Nat \ {0} /\ RetryLimit \in Nat /\ Attempts \in Nat \ {0}
    /\ MaxDownloads \in Nat /\ MaxAsked \in Nat \ {0}

Threads == {"app", "rx"}
Indices == 0..(MaxChannels - 1)
NoIndex == MaxChannels      \* no request outstanding
Disabled == MaxChannels     \* a channel that fills up a short list
None == <<>>                \* self._channels is None: an installed list is never empty

\* A channel: the index it carries and the index under which the device sent it.
Channel == [index : Indices, from : Indices \cup {Disabled}]

VARIABLES
    channels,       \* _channels
    partial,        \* _partial_channels
    pending,        \* _pending_channel_request_index
    retries,        \* _pending_channel_retry_count
    failed,         \* _channel_request_failed
    at, idx,        \* each thread: where it is, and the index it works on
    left, last,     \* get_node: retries_left and last_index
    result,         \* get_node: how its last call ended
    downloads,      \* downloads begun
    asked,          \* each index: requests whose handler is still registered
    overlap         \* history: a callback ran while the application made a request

listVars == <<channels, partial>>
trackVars == <<pending, retries, failed>>
callVars == <<left, last, result, downloads>>
vars == <<listVars, trackVars, at, idx, callVars, asked, overlap>>

AppPlaces == {"idle", "reset", "mark", "send", "wait", "judge", "again"}
RxPlaces == {"idle", "check", "append", "progress", "install", "finish", "mark", "send"}
Results == {"none", "channels", "unfailed", "error"}

TypeOK ==
    /\ channels = None \/ channels \in [1..MaxChannels -> Channel]
    /\ partial \in Seq(Channel)
    /\ pending \in Indices \cup {NoIndex}
    /\ retries \in 0..RetryLimit /\ failed \in BOOLEAN
    /\ at \in [Threads -> AppPlaces \cup RxPlaces]
    /\ at["app"] \in AppPlaces /\ at["rx"] \in RxPlaces
    /\ idx \in [Threads -> Indices]
    /\ left \in 0..Attempts /\ last \in Nat /\ result \in Results
    /\ downloads \in 0..MaxDownloads
    /\ asked \in [Indices -> 0..MaxAsked]
    /\ overlap \in BOOLEAN

Init ==
    /\ channels = None /\ partial = <<>>
    /\ pending = NoIndex /\ retries = 0 /\ failed = FALSE
    /\ at = [t \in Threads |-> "idle"] /\ idx = [t \in Threads |-> 0]
    /\ left = 0 /\ last = 0 /\ result = "none" /\ downloads = 0
    /\ asked = [i \in Indices |-> 0]
    /\ overlap = FALSE

Goto(t, place) == at' = [at EXCEPT ![t] = place]
At(t, place) == at[t] = place

----------------------------------------------------------------------------
(* One request, by either thread.                                          *)

\* mark_channel_request_sent(i): a new index starts with a fresh retry count.
Mark(t) ==
    /\ At(t, "mark")
    /\ retries' = IF pending # idx[t] THEN 0 ELSE retries
    /\ pending' = idx[t]
    /\ failed' = FALSE
    /\ Goto(t, "send")
    /\ UNCHANGED <<listVars, idx, callVars, asked>>

AfterSend == [app |-> "wait", rx |-> "idle"]

\* _send_admin registers a handler and transmits.
Send(t) ==
    /\ At(t, "send")
    /\ asked[idx[t]] < MaxAsked
    /\ asked' = [asked EXCEPT ![idx[t]] = @ + 1]
    /\ Goto(t, AfterSend[t])
    /\ UNCHANGED <<listVars, trackVars, idx, callVars>>

\* _send_admin raises, or sends nothing and returns None.  An exception leaves get_node;
\* in the receive thread both end the callback with the failure flag set.
SendFails(t) ==
    /\ At(t, "send")
    /\ retries' = IF pending # idx[t] THEN 0 ELSE retries
    /\ pending' = idx[t]
    /\ failed' = TRUE
    /\ \/ /\ Goto(t, AfterSend[t])
          /\ UNCHANGED result
       \/ /\ t = "app"
          /\ Goto(t, "idle")
          /\ result' = "error"
    /\ UNCHANGED <<listVars, idx, left, last, downloads, asked>>

----------------------------------------------------------------------------
(* The application thread: get_node.                                       *)

\* requestChannels(0), and the first turn of the loop.
Start ==
    /\ At("app", "idle")
    /\ downloads < MaxDownloads
    /\ downloads' = downloads + 1
    /\ idx' = [idx EXCEPT !["app"] = 0]
    /\ left' = Attempts - 1
    /\ last' = 0
    /\ result' = "none"
    /\ Goto("app", "reset")
    /\ UNCHANGED <<listVars, trackVars, asked>>

\* reset_for_download.
Reset ==
    /\ At("app", "reset")
    /\ channels' = None
    /\ partial' = <<>>
    /\ Goto("app", "mark")
    /\ UNCHANGED <<trackVars, idx, callVars, asked>>

\* waitForSet on the completion probe; the poll may also find the deadline passed.
WaitCompletes ==
    /\ At("app", "wait")
    /\ channels # None \/ failed
    /\ Goto("app", "judge")
    /\ UNCHANGED <<listVars, trackVars, idx, callVars, asked>>

WaitTimesOut ==
    /\ At("app", "wait")
    /\ Goto("app", "again")
    /\ UNCHANGED <<listVars, trackVars, idx, callVars, asked>>

\* wait_for_config reads the list and the flag once more to compute what it returns.
Judge ==
    /\ At("app", "judge")
    /\ IF channels # None \/ ~failed
         THEN /\ result' = IF channels # None THEN "channels" ELSE "unfailed"
              /\ Goto("app", "idle")
         ELSE Goto("app", "again") /\ UNCHANGED result
    /\ UNCHANGED <<listVars, trackVars, idx, left, last, downloads, asked>>

\* retries_left of get_node: progress starts the attempts over.  Mutant: anything does.
LeftUnconditional(n) == Attempts - 1
LeftAfter(n) == IF n # last THEN Attempts - 1 ELSE left

\* Give up, or ask again from the number of channels received so far.  A complete partial
\* list that is not installed yet is out of the range request_channels accepts.
Again ==
    /\ At("app", "again")
    /\ LET n == Len(partial) IN
         IF LeftAfter(n) = 0
           THEN /\ result' = "error"
                /\ Goto("app", "idle")
                /\ UNCHANGED <<idx, left, last>>
           ELSE /\ left' = LeftAfter(n) - 1
                /\ last' = n
                /\ idx' = IF n \in Indices THEN [idx EXCEPT !["app"] = n] ELSE idx
                /\ Goto("app", CASE n = 0 -> "reset"
                                 [] n \in Indices \ {0} -> "mark"
                                 [] OTHER -> "wait")
                /\ UNCHANGED result
    /\ UNCHANGED <<listVars, trackVars, downloads, asked>>

----------------------------------------------------------------------------
(* The receive thread: onResponseRequestChannel.                           *)

\* An answer takes the handler of its request, however late it is.  The response contract
\* keeps routing ACKs and answers of another kind from it; it does not look at the index.
Answer(i) ==
    /\ At("rx", "idle")
    /\ asked[i] > 0
    /\ asked' = [asked EXCEPT ![i] = @ - 1]

\* An admin payload that does not decode ends the download.
ReceiveBad(i) ==
    /\ Answer(i)
    /\ failed' = TRUE
    /\ UNCHANGED <<listVars, pending, retries, at, idx, callVars>>

\* _retry_pending_channel_request gives up when nothing is outstanding or the limit is
\* reached.  Mutant: the index of the refused request is asked for again.
Exhausted == pending = NoIndex \/ retries >= RetryLimit
Refused(i) == i
Outstanding(i) == pending

\* Whatever request a NAK is about, the outstanding index is asked for again.
ReceiveNak(i) ==
    /\ Answer(i)
    /\ IF Exhausted
         THEN failed' = TRUE /\ UNCHANGED <<retries, at, idx>>
         ELSE /\ retries' = retries + 1
              /\ idx' = [idx EXCEPT !["rx"] = Outstanding(i)]
              /\ Goto("rx", "mark")
              /\ UNCHANGED failed
    /\ UNCHANGED <<listVars, pending, callVars>>

ReceiveChannel(i) ==
    /\ Answer(i)
    /\ idx' = [idx EXCEPT !["rx"] = i]
    /\ Goto("rx", "check")
    /\ UNCHANGED <<listVars, trackVars, callVars>>

\* _should_skip_channel_response.  Mutant: whatever index the answer has.
SkipsFailedOnly(i) == failed \/ pending = NoIndex
Skips(i) == failed \/ pending = NoIndex \/ i # pending

Check ==
    /\ At("rx", "check")
    /\ Goto("rx", IF Skips(idx["rx"]) THEN "idle" ELSE "append")
    /\ UNCHANGED <<listVars, trackVars, idx, callVars, asked>>

\* append_partial_if_new.
Known(i) == \E k \in 1..Len(partial) : partial[k].index = i
AppendPartial ==
    /\ At("rx", "append")
    /\ IF Known(idx["rx"])
         THEN Goto("rx", "idle") /\ UNCHANGED partial
         ELSE /\ partial' = Append(partial, [index |-> idx["rx"], from |-> idx["rx"]])
              /\ Goto("rx", "progress")
    /\ UNCHANGED <<channels, trackVars, idx, callVars, asked>>

\* After the last index the list is installed, after any other the next one is asked for.
\* Mutant: the list is installed one index too early.
PlaceTooEarly(i) == IF i >= MaxChannels - 2 THEN "install" ELSE "mark"
PlaceAfter(i) == IF i >= MaxChannels - 1 THEN "install" ELSE "mark"
Following(i) == IF i >= MaxChannels - 1 THEN i ELSE i + 1

Progress ==
    /\ At("rx", "progress")
    /\ failed' = FALSE
    /\ retries' = 0
    /\ Goto("rx", PlaceAfter(idx["rx"]))
    /\ idx' = [idx EXCEPT !["rx"] = Following(@)]
    /\ UNCHANGED <<listVars, pending, callVars, asked>>

\* install_partial_channels: the objects of the partial list, renumbered in place, and
\* disabled channels after them.
Renumbered(cs) == [k \in 1..Len(cs) |-> [cs[k] EXCEPT !.index = k - 1]]
Filled(cs) == [k \in 1..MaxChannels |-> IF k <= Len(cs) THEN cs[k]
                                        ELSE [index |-> k - 1, from |-> Disabled]]
Install ==
    /\ At("rx", "install")
    /\ partial' = Renumbered(partial)
    /\ channels' = Filled(Renumbered(partial))
    /\ Goto("rx", "finish")
    /\ UNCHANGED <<trackVars, idx, callVars, asked>>

Finish ==
    /\ At("rx", "finish")
    /\ pending' = NoIndex
    /\ retries' = 0
    /\ Goto("rx", "idle")
    /\ UNCHANGED <<listVars, failed, idx, callVars, asked>>

----------------------------------------------------------------------------

AppStep == \/ Mark("app") \/ Send("app") \/ SendFails("app") \/ Start \/ Reset
           \/ WaitCompletes \/ WaitTimesOut \/ Judge \/ Again
RxStep == \/ Mark("rx") \/ Send("rx") \/ SendFails("rx")
          \/ Check \/ AppendPartial \/ Progress \/ Install \/ Finish
Network == \E i \in Indices : ReceiveBad(i) \/ ReceiveNak(i) \/ ReceiveChannel(i)

\* The application has read or is clearing the lists and has not sent its request yet.
Requesting == at["app"] \in {"reset", "mark", "send"}
Watched(A) ==
    /\ A
    /\ overlap' = \/ (overlap /\ ~(At("app", "reset") /\ at'["app"] = "mark"))
                   \/ (Requesting' /\ at'["rx"] # "idle")

Next == Watched(AppStep) \/ Watched(RxStep) \/ Watched(Network)

Spec == Init /\ [][Next]_vars

\* Both threads keep running; replies may be lost.
FairSpec == Spec /\ WF_vars(Watched(AppStep /\ ~Start)) /\ WF_vars(Watched(RxStep))

----------------------------------------------------------------------------
(* Properties.                                                             *)

\* However answers are lost, delayed beyond the wait or refused: an installed list is complete
\* and every channel in it stands where the device has it, unless a callback has run while
\* the application was making a request of this download.
InstalledInOrder == (channels # None /\ ~overlap) =>
    \A i \in Indices : channels[i + 1] = [index |-> i, from |-> i]

\* The client itself never breaks the chain of requests: while get_node waits for a download
\* that has not failed, the outstanding index has a request on the way or an answer at work.
ChainUnbroken ==
    (/\ At("app", "wait") /\ At("rx", "idle")
     /\ channels = None /\ ~failed /\ ~overlap) => pending # NoIndex /\ asked[pending] > 0

\* get_node ends: it starts its attempts over only after progress.
GetNodeReturns == ~At("app", "idle") ~> At("app", "idle")

=============================================================================
