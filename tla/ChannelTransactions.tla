------------------------ MODULE ChannelTransactions ------------------------
(***************************************************************************)
(* Transactions on the channel table of the local node: deleting a channel *)
(* (node_runtime/transport_runtime/channel.py), setURL in its add-only and *)
(* replace-all forms (node_runtime/seturl/), and single channel writes.    *)
(* They run under the node's mutation lock, write slot by slot to the      *)
(* device and keep the channel cache, which the configuration download     *)
(* replaces and the application edits in place meanwhile.                  *)
(*                                                                         *)
(* The mutation lock makes the transactions sequential: the model has the  *)
(* current one.  A channel is its name: slot 0 is PRIMARY, "off" is        *)
(* DISABLED, any other SECONDARY; "admin" names the administration         *)
(* channel.  A table is a function from slots to channels, so it is its    *)
(* own fingerprint.  A write that the transport accepts reaches the device.*)
(***************************************************************************)
EXTENDS Naturals, Sequences, FiniteSets

CONSTANTS
    MaxChannels,    \* MAX_CHANNELS
    Names,          \* channel names that occur
    Table0,         \* the device's table at the start
    Url,            \* the settings of the URL, a sequence of names
    UrlLora,        \* whether the URL carries a LoRa configuration
    MaxAttempts,    \* MAX_REPLACE_ALL_RESUME_ATTEMPTS
    MaxReloads,     \* bound: configuration downloads
    MaxEdits,       \* bound: edits of the cache by the application
    MaxJobs,        \* bound: operations
    NoList          \* the cache is None; no slot

Slots == 0..(MaxChannels - 1)
Lora == MaxChannels     \* the LoRa configuration among the slots to be written
Items == Slots \cup {Lora}
Channels == Names \cup {"off", "admin"}
Tables == [Slots -> Channels]

ASSUME TransactionAssumption ==
    /\ MaxChannels \in Nat \ {0} /\ MaxAttempts \in Nat \ {0}
    /\ MaxReloads \in Nat /\ MaxEdits \in Nat /\ MaxJobs \in Nat
    /\ Table0 \in Tables /\ Table0[0] # "off" /\ UrlLora \in BOOLEAN
    /\ Url \in Seq(Channels \ {"off"}) /\ Len(Url) \in 1..MaxChannels
    /\ \A k, l \in 1..Len(Url) : Url[k] = Url[l] => k = l
    /\ NoList \notin Tables \cup Items

VARIABLES
    device,         \* the device's table
    deviceLora,     \* the device's LoRa configuration: "old" or "new"
    channels,       \* _channels: the cached list, or NoList
    ref,            \* which list object that is
    lora,           \* localConfig.lora: "old", "new" or "unset"
    pc, job,        \* the transaction: where it is, and its plan
    result,         \* how the last one ended
    connected,      \* isConnected
    incoming,       \* _localChannels: slots received so far
    reloads, edits, jobs,
    stale,          \* history: the cache comes from a download or a write that was overtaken
    edited,         \* history: the slots whose cached channel the application has changed
    renamed         \* history: such a change gave or took the name "admin"

deviceVars == <<device, deviceLora>>
cacheVars == <<channels, ref, lora>>
linkVars == <<connected, incoming, reloads>>
editVars == <<edits, edited, renamed>>
vars == <<deviceVars, cacheVars, pc, job, result, linkVars, editVars, jobs, stale>>

Kinds == {"write", "delete", "add", "replace"}
Places == {"idle", "check", "send", "keep", "failed", "resume", "capture"}
NoJob == [kind |-> "write", ref |-> 0, base |-> Table0, staged |-> Table0,
          todo |-> {}, via |-> 0, before |-> 0, after |-> 0, next |-> NoList,
          last |-> NoList, attempt |-> 0, loraSent |-> FALSE,
          hidden |-> {}]   \* hidden is history: see Compute

TypeOK ==
    /\ device \in Tables /\ deviceLora \in {"old", "new"}
    /\ channels \in Tables \cup {NoList} /\ ref \in 0..MaxReloads
    /\ lora \in {"old", "new", "unset"}
    /\ pc \in Places
    /\ job.kind \in Kinds /\ job.ref \in 0..MaxReloads
    /\ job.base \in Tables /\ job.staged \in Tables
    /\ job.todo \subseteq Items /\ (pc \in {"check", "send"} => job.todo # {})
    /\ {job.via, job.before, job.after} \subseteq Slots
    /\ {job.next, job.last} \subseteq Slots \cup {NoList}
    /\ job.attempt \in 0..MaxAttempts /\ job.loraSent \in BOOLEAN /\ job.hidden \subseteq Slots
    /\ result \in {"none", "ok", "error"}
    /\ connected \in BOOLEAN
    /\ incoming \in Seq(Channels) /\ Len(incoming) <= MaxChannels
    /\ reloads \in 0..MaxReloads /\ edits \in 0..MaxEdits /\ jobs \in 0..MaxJobs
    /\ stale \in BOOLEAN /\ renamed \in BOOLEAN /\ edited \subseteq Slots

Init ==
    /\ device = Table0 /\ deviceLora = "old"
    /\ channels = Table0 /\ ref = 0 /\ lora = "old"
    /\ pc = "idle" /\ job = NoJob /\ result = "none"
    /\ connected = TRUE /\ incoming = <<>> /\ reloads = 0
    /\ edits = 0 /\ jobs = 0
    /\ stale = FALSE /\ renamed = FALSE /\ edited = {}

----------------------------------------------------------------------------
(* Tables.                                                                 *)

Least(S) == CHOOSE s \in S : \A r \in S : s <= r

\* _named_admin_index_in_channels and _get_admin_channel_index.
NamedAdmin(tb) == IF tb # NoList /\ \E s \in Slots : tb[s] = "admin"
                    THEN Least({s \in Slots : tb[s] = "admin"}) ELSE NoList
AdminIndex(tb) == IF NamedAdmin(tb) = NoList THEN 0 ELSE NamedAdmin(tb)

\* The table after one channel is taken out and the rest moves up.
Without(tb, d) == [s \in Slots |-> IF s < d THEN tb[s]
                                   ELSE IF s + 1 \in Slots THEN tb[s + 1] ELSE "off"]

\* The table the URL asks for: every slot it does not name is disabled.
Replaced == [s \in Slots |-> IF s < Len(Url) THEN Url[s + 1] ELSE "off"]

\* The URL's channels whose names are new, by their place in the URL; the first of them goes
\* to the first free slot, and so on.
Additions(tb) == {k \in 1..Len(Url) : \A s \in Slots : tb[s] # Url[k]}
Free(tb) == {s \in Slots : tb[s] = "off"}
Before(S, x) == Cardinality({y \in S : y < x})
Added(tb, s) == {k \in Additions(tb) : Before(Additions(tb), k) = Before(Free(tb), s)}
Extended(tb) == [s \in Slots |-> IF s \in Free(tb) /\ Added(tb, s) # {}
                                    THEN Url[CHOOSE k \in Added(tb, s) : TRUE] ELSE tb[s]]

LoraItem == IF UrlLora THEN {Lora} ELSE {}

----------------------------------------------------------------------------
(* Plans, made from the cached list.                                       *)

Plan(kind, staged, todo) ==
    [NoJob EXCEPT !.kind = kind, !.ref = ref, !.base = channels, !.staged = staged,
        !.todo = todo, !.via = AdminIndex(channels),
        !.before = AdminIndex(channels), !.after = AdminIndex(channels)]

\* The order of the writes: the slots ascending, the LoRa configuration, the slots that are
\* deferred.  A replacement defers the new admin channel and, after it, the slot of the
\* previous one; add-only defers its first channel named admin.  Mutant: nothing is deferred.
PlaceUndeferred(j, item) == item
Place(j, item) == CASE item = j.last -> Lora + 2
                    [] item = j.next -> Lora + 1
                    [] OTHER -> item
Current(j) == CHOOSE item \in j.todo : \A k \in j.todo : Place(j, item) <= Place(j, k)

\* _build_rewrite_plan: the slots from the deleted one on that change, through the admin
\* channel as it was until its slot has been rewritten.
SlotsFrom(d, staged) == {s \in Slots : s >= d /\ staged[s] # channels[s]}
DeletePlan(d) ==
    LET staged == Without(channels, d) IN
    [Plan("delete", staged, SlotsFrom(d, staged)) EXCEPT
        !.after = IF AdminIndex(channels) >= d THEN AdminIndex(staged) ELSE @]

AddPlan ==
    LET staged == Extended(channels) IN
    [Plan("add", staged, {s \in Slots : staged[s] # channels[s]} \cup LoraItem) EXCEPT
        !.next = IF NamedAdmin(channels) = NoList THEN NamedAdmin(staged) ELSE NoList]

ReplacePlan ==
    LET previous == NamedAdmin(channels)
        new == NamedAdmin(Replaced) IN
    [Plan("replace", Replaced, Slots \cup LoraItem) EXCEPT !.attempt = 1, !.next = new,
        !.last = IF previous = new THEN NoList ELSE previous]

WritePlan(s) == Plan("write", channels, {s})

----------------------------------------------------------------------------
(* The application's operations.                                           *)

Replacing == job.kind = "replace"
StepPlace(j) == IF j.todo = {} THEN "keep"
                ELSE IF j.kind = "replace" /\ Current(j) # Lora THEN "check" ELSE "send"

\* The lists are read under the state lock, the plan is made from them at once.
Begin(j) ==
    /\ job' = j
    /\ pc' = StepPlace(j)
    /\ UNCHANGED result

Refuse == result' = "error" /\ UNCHANGED <<pc, job>>

Call(A) ==
    /\ pc = "idle"
    /\ jobs < MaxJobs
    /\ jobs' = jobs + 1
    /\ IF channels = NoList THEN Refuse ELSE A
    /\ UNCHANGED <<deviceVars, cacheVars, linkVars, editVars, stale>>

WriteChannel == \E s \in Slots : Call(Begin(WritePlan(s)))
DeleteChannel == \E d \in Slots : Call(IF d = 0 THEN Refuse ELSE Begin(DeletePlan(d)))
AddUrl == Call(
    CASE Cardinality(Additions(channels)) > Cardinality(Free(channels)) -> Refuse
      [] AddPlan.todo = {} -> result' = "ok" /\ UNCHANGED <<pc, job>>
      [] OTHER -> Begin(AddPlan))
ReplaceUrl == Call(Begin(ReplacePlan))

----------------------------------------------------------------------------
(* Steps of a transaction.                                                 *)

\* _validate_replace_cache; the slot of the previous admin channel is written through the
\* admin channel of the cached list, once that has a new one.
Check ==
    /\ pc = "check"
    /\ IF channels # NoList /\ ref = job.ref /\ channels = job.base
         THEN /\ pc' = "send"
              /\ job' = IF Current(job) = job.last /\ job.next # NoList
                          THEN [job EXCEPT !.via = AdminIndex(channels)] ELSE job
              /\ UNCHANGED channels
         ELSE pc' = "failed" /\ channels' = NoList /\ UNCHANGED job
    /\ UNCHANGED <<deviceVars, ref, lora, result, linkVars, editVars, jobs, stale>>

\* The admin channel of a single write is looked up in the cached list as it is by then, that
\* of the others was looked up for their plan.
Via == IF job.kind = "write" THEN AdminIndex(channels) ELSE job.via

Applied ==
    LET item == Current(job) IN
    /\ device' = IF item = Lora THEN device
                 ELSE [device EXCEPT ![item] = job.staged[item]]
    /\ deviceLora' = IF item = Lora THEN "new" ELSE deviceLora

\* A single write is not compared with the list that has replaced the one it was read from.
Overtaken == job.kind = "write" /\ channels # NoList /\ device' # device /\ ref # job.ref

\* The write is accepted; the send pipeline waits for the link.  The LoRa configuration of a replacement enters the cache at once.
Send ==
    /\ pc = "send" /\ connected
    /\ Applied
    /\ LET item == Current(job)
           j == [job EXCEPT !.todo = @ \ {item},
                    !.loraSent = @ \/ item = Lora,
                    !.via = IF item = job.before /\ job.kind = "delete" THEN job.after ELSE @] IN
       /\ IF Replacing /\ item # Lora
            THEN pc' = "keep" /\ job' = [job EXCEPT !.loraSent = j.loraSent]
            ELSE pc' = StepPlace(j) /\ job' = j
       /\ lora' = IF Replacing /\ item = Lora THEN "new" ELSE lora
    /\ stale' = (stale \/ Overtaken)
    /\ UNCHANGED <<channels, ref, result, linkVars, editVars, jobs>>

\* The write raises; the device may have it all the same.
SendFails ==
    /\ pc = "send"
    /\ Applied \/ UNCHANGED deviceVars
    /\ pc' = "failed"
    /\ stale' = (stale \/ Overtaken)
    /\ UNCHANGED <<cacheVars, job, result, linkVars, editVars, jobs>>

End(outcome) == pc' = "idle" /\ result' = outcome

\* apply_replace_channel_write: each slot is committed as it is written.  Mutant: without
\* looking at the list again.
ChangedNever == FALSE
Changed == ref # job.ref \/ channels # job.base
KeepSlot ==
    /\ pc = "keep" /\ Replacing /\ job.todo # {}
    /\ IF channels = NoList \/ Changed
         THEN pc' = "failed" /\ channels' = NoList /\ UNCHANGED <<job, edited>>
         ELSE LET s == Current(job)
                  j == [job EXCEPT !.todo = @ \ {s}, !.base[s] = job.staged[s]] IN
              /\ channels' = [channels EXCEPT ![s] = job.staged[s]]
              /\ edited' = edited \ {s}
              /\ job' = j
              /\ pc' = StepPlace(j)
    /\ UNCHANGED <<deviceVars, ref, lora, result, linkVars, edits, renamed, jobs, stale>>

ReplaceEnds ==
    /\ pc = "keep" /\ Replacing /\ job.todo = {}
    /\ End("ok")
    /\ UNCHANGED <<deviceVars, cacheVars, job, linkVars, editVars, jobs, stale>>

\* The commits of the other operations: a list that changed is dropped, not overwritten.
\* Add-only compares the contents, delete the list object as well.
Commits == /\ channels # NoList /\ channels = job.base
           /\ job.kind = "delete" => ref = job.ref
Commit ==
    /\ pc = "keep" /\ ~Replacing
    /\ channels' = CASE job.kind = "write" -> channels
                     [] job.kind # "write" /\ Commits -> job.staged
                     [] OTHER -> NoList
    /\ edited' = IF channels' = channels THEN edited
                 ELSE {s \in edited : job.staged[s] = job.base[s]}
    /\ lora' = IF job.kind = "add" /\ UrlLora THEN "new" ELSE lora
    /\ End("ok")
    /\ UNCHANGED <<deviceVars, ref, job, linkVars, edits, renamed, jobs, stale>>

\* Every failure drops the cached list, since the device may hold some of the slots; a
\* replacement then tries to resume.  Mutant: add-only keeps it.
AfterFailureKept == IF job.kind \in {"write", "add"} THEN channels ELSE NoList
AfterFailure == IF job.kind = "write" THEN channels ELSE NoList
AttemptsExhausted == job.attempt >= MaxAttempts
Failure ==
    /\ pc = "failed"
    /\ channels' = AfterFailure
    /\ lora' = IF job.loraSent /\ job.kind \in {"add", "replace"} THEN "unset" ELSE lora
    /\ IF Replacing /\ ~AttemptsExhausted
         THEN pc' = "resume" /\ UNCHANGED result
         ELSE End("error")
    /\ UNCHANGED <<deviceVars, ref, job, linkVars, editVars, jobs, stale>>

\* _reconnect_and_compute_remaining: when the link is up and the list reloaded, what is
\* left is what differs from it.  Mutant: what was not tried yet, the write that raised
\* being taken for done.  A slot that the application has edited since the reload to what it
\* ought to become looks written: hidden has those.
RemainingUntried == (job.todo \ {Current(job)}) \cap Slots
Remaining == {s \in Slots : channels[s] # job.staged[s]}
Compute ==
    /\ pc = "resume"
    /\ connected /\ channels # NoList
    /\ LET loraNeeded == UrlLora /\ lora # "new"
           j == [job EXCEPT !.hidden = edited \ Remaining] IN
       IF Remaining = {} /\ ~loraNeeded
         THEN End("ok") /\ job' = j
         ELSE /\ job' = [j EXCEPT !.todo = Remaining \cup (IF loraNeeded THEN {Lora} ELSE {}),
                            !.via = AdminIndex(channels), !.attempt = @ + 1,
                            !.loraSent = FALSE]
              /\ pc' = "capture"
              /\ UNCHANGED result
    /\ UNCHANGED <<deviceVars, cacheVars, linkVars, editVars, jobs, stale>>

\* _capture_replace_cache: the next attempt starts from the list as it is by then.
Capture ==
    /\ pc = "capture"
    /\ IF channels = NoList THEN pc' = "failed" /\ UNCHANGED job
       ELSE LET j == [job EXCEPT !.ref = ref, !.base = channels] IN
            job' = j /\ pc' = StepPlace(j)
    /\ UNCHANGED <<deviceVars, cacheVars, result, linkVars, editVars, jobs, stale>>

\* The waits for the link and for the reload are bounded.
ResumeFails ==
    /\ pc = "resume"
    /\ channels' = NoList
    /\ lora' = IF job.loraSent THEN "unset" ELSE lora
    /\ End("error")
    /\ UNCHANGED <<deviceVars, ref, job, linkVars, editVars, jobs, stale>>

----------------------------------------------------------------------------
(* The link and the application's edits.                                   *)

Drop ==
    /\ connected
    /\ connected' = FALSE
    /\ UNCHANGED <<deviceVars, cacheVars, pc, job, result, incoming, reloads, editVars, jobs, stale>>

\* _start_config: after a connect, or when the device has rebooted.
StartConfig ==
    /\ reloads < MaxReloads
    /\ reloads' = reloads + 1
    /\ incoming' = <<>>
    /\ UNCHANGED <<deviceVars, cacheVars, pc, job, result, connected, editVars, jobs, stale>>

\* The device reports the next slot.  Its LoRa configuration is taken over with the end.
Stream ==
    /\ reloads > ref
    /\ Len(incoming) < MaxChannels
    /\ incoming' = Append(incoming, device[Len(incoming)])
    /\ UNCHANGED <<deviceVars, cacheVars, pc, job, result, connected, reloads, editVars, jobs, stale>>

\* _handle_config_complete: setChannels replaces the list, whoever works on it.
Complete ==
    /\ reloads > ref
    /\ Len(incoming) = MaxChannels
    /\ channels' = [s \in Slots |-> incoming[s + 1]]
    /\ ref' = reloads
    /\ lora' = deviceLora
    /\ connected' = TRUE
    /\ stale' = (channels' # device \/ (stale /\ pc # "idle"))
    /\ edited' = {}
    /\ renamed' = (renamed /\ pc # "idle")
    /\ UNCHANGED <<deviceVars, pc, job, result, incoming, reloads, edits, jobs>>

\* node.channels, getChannelByName and their kin hand out the cached channels themselves: the
\* application changes any of them, at any time and to anything, and writes the slot afterwards
\* or never.  It keeps the roles' rule of one PRIMARY channel, in slot 0.
Edit ==
    /\ edits < MaxEdits /\ channels # NoList
    /\ edits' = edits + 1
    /\ \E s \in Slots, c \in Channels :
         /\ c # channels[s] /\ (s = 0 => c # "off")
         /\ channels' = [channels EXCEPT ![s] = c]
         /\ edited' = edited \cup {s}
         /\ renamed' = (renamed \/ "admin" \in {c, channels[s]})
    /\ UNCHANGED <<deviceVars, ref, lora, pc, job, result, linkVars, jobs, stale>>

----------------------------------------------------------------------------

Transaction == \/ Check \/ Send \/ SendFails \/ KeepSlot \/ ReplaceEnds \/ Commit
               \/ Failure \/ Compute \/ Capture \/ ResumeFails
Calls == WriteChannel \/ DeleteChannel \/ AddUrl \/ ReplaceUrl
Environment == Drop \/ StartConfig \/ Stream \/ Complete \/ Edit

Next == Transaction \/ Calls \/ Environment

Spec == Init /\ [][Next]_vars

----------------------------------------------------------------------------
(* Properties.                                                             *)

\* Between transactions the cached list says what the device has, in every slot the
\* application has not edited: whatever was written, lost, half done or reloaded, unless an
\* overtaken download or write is in it.
CacheMatchesDevice == (pc = "idle" /\ channels # NoList /\ ~stale) =>
    \A s \in Slots \ edited : channels[s] = device[s]

\* setURL returns from a replacement only when the device has all of it, however many
\* attempts and reloads it took, except in a slot which an edit made look written.
ReplacementIsWhole == [][
    (Replacing /\ pc # "idle" /\ pc' = "idle" /\ result' = "ok" /\ ~stale) =>
        /\ \A s \in Slots \ job'.hidden : device[s] = Replaced[s]
        /\ UrlLora => deviceLora = "new"]_vars

\* As long as the device has an admin channel, every write goes through one, except when a
\* deletion takes away the first of several and the next one is further down the list, and
\* when the application has renamed a cached channel from or to "admin": the admin channel is
\* looked up in that list, so the write then leaves through whatever the device has there.
AdminSlotUsed == [][
    (/\ Send \/ SendFails
     /\ ~stale /\ ~renamed
     /\ job.kind = "delete" => job.after <= job.before
     /\ \E s \in Slots : device[s] = "admin") => device[Via] = "admin"]_vars

\* An edit made while a transaction runs is dropped with its list, never overwritten by the
\* channel that the transaction has planned for the slot.
EditsSurvive == [][
    (channels # NoList /\ channels' # NoList /\ ref' = ref /\ edits' = edits) =>
        \A s \in Slots : channels[s] # job.base[s] => channels'[s] = channels[s]]_vars

=============================================================================
