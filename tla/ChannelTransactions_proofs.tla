--------------------- MODULE ChannelTransactions_proofs ---------------------
(***************************************************************************)
(* Proofs about ChannelTransactions: the types; that no transaction writes *)
(* over an edit that the application makes in the cached list meanwhile;   *)
(* that the cached list agrees with the device between transactions; that  *)
(* a replacement which reports success is whole; and that every write goes *)
(* through an admin channel that the device has.                           *)
(***************************************************************************)
EXTENDS ChannelTransactions, FiniteSetTheorems, WellFoundedInduction, TLAPS

Jobs == [kind : Kinds, ref : 0..MaxReloads, base : Tables, staged : Tables,
         todo : SUBSET Items, via : Slots, before : Slots, after : Slots,
         next : Slots \cup {NoList}, last : Slots \cup {NoList},
         attempt : 0..MaxAttempts, loraSent : BOOLEAN, hidden : SUBSET Slots]

\* The device, the cache and the link.
CacheTypes ==
    /\ device \in Tables /\ deviceLora \in {"old", "new"}
    /\ channels \in Tables \cup {NoList} /\ ref \in 0..MaxReloads
    /\ lora \in {"old", "new", "unset"}
    /\ connected \in BOOLEAN
    /\ incoming \in Seq(Channels) /\ Len(incoming) <= MaxChannels
    /\ reloads \in 0..MaxReloads /\ edits \in 0..MaxEdits /\ jobs \in 0..MaxJobs
    /\ stale \in BOOLEAN /\ renamed \in BOOLEAN /\ edited \subseteq Slots

\* The transaction, and which places which kind of it has.
JobTypes ==
    /\ pc \in Places /\ job \in Jobs
    /\ result \in {"none", "ok", "error"}
    /\ pc \in {"check", "send"} => job.todo # {}
    /\ pc \in {"check", "resume", "capture"} => Replacing
    /\ pc = "resume" => job.attempt < MaxAttempts
    /\ job.kind = "write" => Lora \notin job.todo
    /\ job.ref <= ref
    /\ (pc = "keep" /\ ~Replacing) => job.todo = {}

TypeInv == CacheTypes /\ JobTypes

----------------------------------------------------------------------------
(* Least slots.                                                            *)

Below == {ss \in Nat \X Nat : ss[1] < ss[2]}

LEMMA BelowIsWellFounded == IsWellFoundedOn(Below, Nat)
BY NatLessThanWellFounded, Zenon DEF Below, OpToRel

\* A set of natural numbers has a least one.
LEMMA LeastNatural ==
    ASSUME NEW T, T \subseteq Nat, T # {}
    PROVE  \E x \in T : \A y \in T : x <= y
<1>1. \A x, y \in Nat : x < y => <<x, y>> \in Below
  BY DEF Below
<1>2. PICK x \in T : \A y \in T : <<y, x>> \notin Below
  BY BelowIsWellFounded, WFMin
<1>3. ASSUME NEW y \in T PROVE x <= y
  <2>1. x \in Nat /\ y \in Nat /\ ~(y < x)
    BY <1>1, <1>2
  <2> QED
    BY <2>1
<1> QED
  BY <1>3

LEMMA LeastSlot ==
    ASSUME NEW S, S \subseteq Slots, S # {}
    PROVE  Least(S) \in S /\ \A r \in S : Least(S) <= r
<1>1. S \subseteq Nat
  BY TransactionAssumption DEF Slots
<1>2. \E s \in S : \A r \in S : s <= r
  BY <1>1, LeastNatural
<1> QED
  BY <1>2 DEF Least

\* _named_admin_index finds the first admin channel of a list, when there is one.
LEMMA AdminFound ==
    ASSUME NEW tb \in Tables
    PROVE  /\ AdminIndex(tb) \in Slots
           /\ NamedAdmin(tb) \in Slots \cup {NoList}
           /\ IF \E s \in Slots : tb[s] = "admin"
                THEN /\ NamedAdmin(tb) = AdminIndex(tb)
                     /\ tb[AdminIndex(tb)] = "admin"
                     /\ \A r \in Slots : tb[r] = "admin" => AdminIndex(tb) <= r
                ELSE NamedAdmin(tb) = NoList /\ AdminIndex(tb) = 0
<1>1. tb # NoList /\ 0 \in Slots /\ NoList \notin Slots
  BY TransactionAssumption DEF Slots, Items
<1> DEFINE S == {s \in Slots : tb[s] = "admin"}
<1>2. CASE S # {}
  <2>1. Least(S) \in S /\ \A r \in S : Least(S) <= r
    BY <1>2, LeastSlot
  <2>2. NamedAdmin(tb) = Least(S)
    BY <1>1, <1>2 DEF NamedAdmin
  <2> QED
    BY <1>1, <1>2, <2>1, <2>2 DEF AdminIndex
<1>3. CASE S = {}
  BY <1>1, <1>3 DEF NamedAdmin, AdminIndex
<1> QED
  BY <1>2, <1>3

\* What is written next is there, and nothing comes before it.
LEMMA CurrentIsFirst ==
    ASSUME NEW j, j.todo \subseteq Items, j.todo # {}
    PROVE  /\ Current(j) \in j.todo
           /\ \A k \in j.todo : Place(j, Current(j)) <= Place(j, k)
<1> DEFINE T == {Place(j, k) : k \in j.todo}
<1>1. \A k \in j.todo : Place(j, k) \in Nat
  BY TransactionAssumption DEF Place, Items, Slots, Lora
<1>2. T \subseteq Nat /\ T # {}
  BY <1>1
<1>3. \E x \in T : \A y \in T : x <= y
  BY <1>2, LeastNatural
<1>4. \E k \in j.todo : \A l \in j.todo : Place(j, k) <= Place(j, l)
  BY <1>3
<1> QED
  BY <1>4 DEF Current

----------------------------------------------------------------------------
(* Plans.                                                                  *)

\* What a plan writes is a table, whatever the list it was made from.
LEMMA PlansAreTables ==
    ASSUME NEW tb \in Tables
    PROVE  /\ \A d \in Slots : Without(tb, d) \in Tables
           /\ Replaced \in Tables
           /\ Extended(tb) \in Tables
<1>1. "off" \in Channels /\ \A s \in Slots : tb[s] \in Channels
  BY DEF Channels, Tables
<1>2. \A k \in 1..Len(Url) : Url[k] \in Channels
  BY TransactionAssumption
<1>3. ASSUME NEW d \in Slots PROVE Without(tb, d) \in Tables
  BY <1>1 DEF Without, Tables
<1>4. \A s \in Slots : s < Len(Url) => s + 1 \in 1..Len(Url)
  BY TransactionAssumption DEF Slots
<1>5. Replaced \in Tables
  BY <1>1, <1>2, <1>4 DEF Replaced, Tables
<1>6. ASSUME NEW s \in Slots, Added(tb, s) # {}
      PROVE  (CHOOSE k \in Added(tb, s) : TRUE) \in 1..Len(Url)
  <2>1. (CHOOSE k \in Added(tb, s) : TRUE) \in Added(tb, s)
    BY <1>6
  <2> QED
    BY <2>1 DEF Added, Additions
<1>7. Extended(tb) \in Tables
  BY <1>1, <1>2, <1>6 DEF Extended, Tables
<1> QED
  BY <1>3, <1>5, <1>7

\* A plan as it comes from the cached list, before an administration channel is deferred.
IsPlan(p, kind, staged, todo) ==
    /\ p \in Jobs
    /\ p.kind = kind /\ p.staged = staged /\ p.todo = todo
    /\ p.ref = ref /\ p.base = channels /\ p.via = AdminIndex(channels)
    /\ p.before = AdminIndex(channels) /\ p.after = AdminIndex(channels)
    /\ p.next = NoList /\ p.last = NoList /\ p.hidden = {}

LEMMA PlanIsJob ==
    ASSUME CacheTypes, channels # NoList,
           NEW kind \in Kinds, NEW staged \in Tables, NEW todo \in SUBSET Items
    PROVE  IsPlan(Plan(kind, staged, todo), kind, staged, todo)
<1>1. channels \in Tables /\ AdminIndex(channels) \in Slots /\ ref \in 0..MaxReloads
  BY AdminFound DEF CacheTypes
<1>2. 0 \in 0..MaxAttempts
  BY TransactionAssumption
<1> QED
  BY <1>1, <1>2 DEF IsPlan, Plan, NoJob, Jobs, Kinds
LEMMA WriteIsJob ==
    ASSUME CacheTypes, channels # NoList, NEW s \in Slots
    PROVE  LET p == WritePlan(s) IN
           /\ p \in Jobs /\ p.kind = "write" /\ p.ref = ref
           /\ p.base = channels /\ p.staged = channels /\ p.todo = {s}
           /\ p.via = AdminIndex(channels)
<1>1. channels \in Tables /\ {s} \in SUBSET Items /\ "write" \in Kinds
  BY DEF CacheTypes, Items, Kinds
<1> QED
  BY <1>1, PlanIsJob DEF WritePlan, IsPlan

LEMMA DeleteIsJob ==
    ASSUME CacheTypes, channels # NoList, NEW d \in Slots
    PROVE  LET p == DeletePlan(d)
               staged == Without(channels, d) IN
           /\ p \in Jobs /\ p.kind = "delete" /\ p.ref = ref
           /\ p.base = channels /\ p.staged = staged
           /\ p.todo = {s \in Slots : s >= d /\ staged[s] # channels[s]}
           /\ p.via = AdminIndex(channels) /\ p.before = AdminIndex(channels)
           /\ p.after = IF AdminIndex(channels) >= d THEN AdminIndex(staged)
                                                     ELSE AdminIndex(channels)
           /\ p.next = NoList /\ p.last = NoList
<1> DEFINE staged == Without(channels, d)
           todo == SlotsFrom(d, staged)
           p == Plan("delete", staged, todo)
<1>1. channels \in Tables /\ staged \in Tables /\ "delete" \in Kinds
  BY PlansAreTables DEF CacheTypes, Kinds
<1>2. todo = {s \in Slots : s >= d /\ staged[s] # channels[s]} /\ todo \in SUBSET Items
  BY DEF SlotsFrom, Items
<1>3. AdminIndex(staged) \in Slots
  BY <1>1, AdminFound
<1> HIDE DEF staged, todo
<1>4. /\ p \in Jobs
      /\ p.kind = "delete" /\ p.staged = staged /\ p.todo = todo
      /\ p.ref = ref /\ p.base = channels /\ p.via = AdminIndex(channels)
      /\ p.before = AdminIndex(channels) /\ p.after = AdminIndex(channels)
      /\ p.next = NoList /\ p.last = NoList
  BY <1>1, <1>2, PlanIsJob DEF IsPlan
<1>5. DeletePlan(d) = [p EXCEPT !.after = IF AdminIndex(channels) >= d
                                            THEN AdminIndex(staged) ELSE @]
  BY DEF DeletePlan, staged, todo
<1> HIDE DEF p
<1> QED
  BY <1>2, <1>3, <1>4, <1>5 DEF Jobs, staged

LEMMA AddIsJob ==
    ASSUME CacheTypes, channels # NoList
    PROVE  LET p == AddPlan
               staged == Extended(channels) IN
           /\ p \in Jobs /\ p.kind = "add" /\ p.ref = ref
           /\ p.base = channels /\ p.staged = staged
           /\ p.todo = {s \in Slots : staged[s] # channels[s]} \cup LoraItem
           /\ p.via = AdminIndex(channels)
           /\ p.next = (IF NamedAdmin(channels) = NoList THEN NamedAdmin(staged) ELSE NoList)
           /\ p.last = NoList
<1> DEFINE staged == Extended(channels)
           todo == {s \in Slots : staged[s] # channels[s]} \cup LoraItem
           next == IF NamedAdmin(channels) = NoList THEN NamedAdmin(staged) ELSE NoList
           p == Plan("add", staged, todo)
<1>1. channels \in Tables /\ staged \in Tables /\ "add" \in Kinds
  BY PlansAreTables DEF CacheTypes, Kinds
<1>2. todo \in SUBSET Items
  BY DEF LoraItem, Items
<1>3. next \in Slots \cup {NoList}
  BY <1>1, AdminFound
<1>4. /\ p \in Jobs
      /\ p.kind = "add" /\ p.staged = staged /\ p.todo = todo
      /\ p.ref = ref /\ p.base = channels /\ p.via = AdminIndex(channels)
      /\ p.last = NoList
  BY <1>1, <1>2, PlanIsJob DEF IsPlan
<1>5. AddPlan = [p EXCEPT !.next = next]
  BY DEF AddPlan
<1> HIDE DEF p, next, todo
<1>6. LET q == [p EXCEPT !.next = next] IN
      /\ q \in Jobs /\ q.kind = "add" /\ q.ref = ref
      /\ q.base = channels /\ q.staged = staged /\ q.todo = todo
      /\ q.via = AdminIndex(channels) /\ q.next = next /\ q.last = NoList
  BY <1>3, <1>4 DEF Jobs
<1> QED
  BY <1>5, <1>6 DEF todo, next

LEMMA ReplaceIsJob ==
    ASSUME CacheTypes, channels # NoList
    PROVE  LET p == ReplacePlan IN
           /\ p \in Jobs /\ p.kind = "replace" /\ p.ref = ref
           /\ p.base = channels /\ p.staged = Replaced
           /\ p.todo = Slots \cup LoraItem
           /\ p.via = AdminIndex(channels)
           /\ p.next = NamedAdmin(Replaced)
           /\ p.last = (IF NamedAdmin(channels) = NamedAdmin(Replaced)
                          THEN NoList ELSE NamedAdmin(channels))
           /\ p.hidden = {}
<1> DEFINE todo == Slots \cup LoraItem
           new == NamedAdmin(Replaced)
           last == IF NamedAdmin(channels) = new THEN NoList ELSE NamedAdmin(channels)
           p == Plan("replace", Replaced, todo)
<1>1. channels \in Tables /\ Replaced \in Tables /\ "replace" \in Kinds
  BY PlansAreTables DEF CacheTypes, Kinds
<1>2. todo \in SUBSET Items
  BY DEF LoraItem, Items
<1>3. {new, last} \subseteq Slots \cup {NoList} /\ 1 \in 0..MaxAttempts
  BY <1>1, AdminFound, TransactionAssumption
<1>4. /\ p \in Jobs
      /\ p.kind = "replace" /\ p.staged = Replaced /\ p.todo = todo
      /\ p.ref = ref /\ p.base = channels /\ p.via = AdminIndex(channels)
      /\ p.hidden = {}
  BY <1>1, <1>2, PlanIsJob DEF IsPlan
<1>5. ReplacePlan = [p EXCEPT !.attempt = 1, !.next = new, !.last = last]
  BY DEF ReplacePlan
<1> HIDE DEF p, new, last, todo
<1>6. LET q == [p EXCEPT !.attempt = 1, !.next = new, !.last = last] IN
      /\ q \in Jobs /\ q.kind = "replace" /\ q.ref = ref
      /\ q.base = channels /\ q.staged = Replaced /\ q.todo = todo
      /\ q.via = AdminIndex(channels) /\ q.next = new /\ q.last = last
      /\ q.hidden = {}
  BY <1>3, <1>4 DEF Jobs
<1> QED
  BY <1>5, <1>6 DEF todo, new, last

----------------------------------------------------------------------------
(* What each step does.                                                    *)

\* A call is refused, has nothing to do, or begins a job.
Idle == pc = "idle" /\ pc' = "idle" /\ job' = job
Begun(p) == /\ pc = "idle" /\ channels # NoList
            /\ job' = p /\ pc' = StepPlace(p) /\ result' = result

LEMMA CallDoes ==
    ASSUME Calls
    PROVE  /\ pc = "idle" /\ jobs < MaxJobs /\ jobs' = jobs + 1
           /\ UNCHANGED <<deviceVars, cacheVars, linkVars, editVars, stale>>
           /\ \/ Idle /\ result' \in {"ok", "error"}
              \/ \E s \in Slots : Begun(WritePlan(s))
              \/ \E d \in Slots \ {0} : Begun(DeletePlan(d))
              \/ AddPlan.todo # {} /\ Begun(AddPlan)
              \/ Begun(ReplacePlan)
<1>1. CASE WriteChannel
  BY <1>1 DEF WriteChannel, Call, Refuse, Begin, Idle, Begun
<1>2. CASE DeleteChannel
  BY <1>2 DEF DeleteChannel, Call, Refuse, Begin, Idle, Begun
<1>3. CASE AddUrl
  BY <1>3 DEF AddUrl, Call, Refuse, Begin, Idle, Begun
<1>4. CASE ReplaceUrl
  BY <1>4 DEF ReplaceUrl, Call, Refuse, Begin, Idle, Begun
<1> QED
  BY <1>1, <1>2, <1>3, <1>4 DEF Calls

\* The plan that a transaction follows: it stays the same to its end.
SamePlan == /\ job'.kind = job.kind /\ job'.staged = job.staged
            /\ job'.before = job.before /\ job'.after = job.after
            /\ job'.next = job.next /\ job'.last = job.last
SameBase == job'.ref = job.ref /\ job'.base = job.base

LEMMA CheckDoes ==
    ASSUME TypeInv, Check
    PROVE  /\ pc = "check" /\ job' \in Jobs /\ SamePlan /\ SameBase
           /\ job'.todo = job.todo /\ job'.attempt = job.attempt /\ job'.hidden = job.hidden
           /\ UNCHANGED <<deviceVars, ref, lora, result, linkVars, editVars, jobs, stale>>
           /\ \/ /\ pc' = "send" /\ channels' = channels
                 /\ channels # NoList /\ ref = job.ref /\ channels = job.base
                 /\ job'.via = IF Current(job) = job.last /\ job.next # NoList
                                 THEN AdminIndex(channels) ELSE job.via
              \/ pc' = "failed" /\ channels' = NoList
<1>1. job \in Jobs /\ pc = "check"
  BY DEF TypeInv, JobTypes, Check
<1>2. CASE channels # NoList /\ ref = job.ref /\ channels = job.base
  <2>1. AdminIndex(channels) \in Slots
    BY <1>2, AdminFound DEF TypeInv, CacheTypes
  <2> DEFINE moves == Current(job) = job.last /\ job.next # NoList
  <2>2. job' = IF moves THEN [job EXCEPT !.via = AdminIndex(channels)] ELSE job
    BY <1>2 DEF Check
  <2>3. pc' = "send" /\ channels' = channels
        /\ UNCHANGED <<deviceVars, ref, lora, result, linkVars, editVars, jobs, stale>>
    BY <1>2 DEF Check
  <2> HIDE DEF moves
  <2>4. /\ job' \in Jobs /\ SamePlan /\ SameBase
        /\ job'.todo = job.todo /\ job'.attempt = job.attempt /\ job'.hidden = job.hidden
        /\ job'.via = IF moves THEN AdminIndex(channels) ELSE job.via
    BY <1>1, <2>1, <2>2 DEF Jobs, SamePlan, SameBase
  <2> QED
    BY <1>1, <1>2, <2>3, <2>4 DEF moves
<1>3. CASE ~(channels # NoList /\ ref = job.ref /\ channels = job.base)
  <2>1. job' = job /\ pc' = "failed" /\ channels' = NoList
        /\ UNCHANGED <<deviceVars, ref, lora, result, linkVars, editVars, jobs, stale>>
    BY <1>3 DEF Check
  <2> QED
    BY <1>1, <2>1 DEF SamePlan, SameBase
<1> QED
  BY <1>2, <1>3

\* What a write does to the device.
Write(item) == /\ device' = IF item = Lora THEN device
                            ELSE [device EXCEPT ![item] = job.staged[item]]
               /\ deviceLora' = IF item = Lora THEN "new" ELSE deviceLora

LEMMA CurrentIsItem ==
    ASSUME TypeInv, job.todo # {}
    PROVE  /\ Current(job) \in job.todo /\ Current(job) \in Items
           /\ \A k \in job.todo : Place(job, Current(job)) <= Place(job, k)
<1>1. job.todo \subseteq Items
  BY DEF TypeInv, JobTypes, Jobs
<1> QED
  BY <1>1, CurrentIsFirst

LEMMA WriteTypes ==
    ASSUME TypeInv, NEW item \in Items, Write(item)
    PROVE  device' \in Tables /\ deviceLora' \in {"old", "new"}
<1>1. job.staged \in Tables
  BY DEF TypeInv, JobTypes, Jobs
<1> QED
  BY <1>1 DEF TypeInv, CacheTypes, Write, Tables, Items

LEMMA SendDoes ==
    ASSUME TypeInv, Send
    PROVE  LET item == Current(job) IN
           /\ pc = "send" /\ Write(item) /\ job' \in Jobs /\ SamePlan /\ SameBase
           /\ job'.attempt = job.attempt /\ job'.hidden = job.hidden
           /\ IF Replacing /\ item # Lora
                THEN pc' = "keep" /\ job'.todo = job.todo /\ job'.via = job.via
                ELSE /\ pc' = StepPlace(job') /\ job'.todo = job.todo \ {item}
                     /\ job'.via = IF item = job.before /\ job.kind = "delete"
                                     THEN job.after ELSE job.via
           /\ lora' = IF Replacing /\ item = Lora THEN "new" ELSE lora
           /\ stale' = (stale \/ Overtaken)
           /\ UNCHANGED <<channels, ref, result, linkVars, editVars, jobs>>
<1> DEFINE item == Current(job)
           j == [job EXCEPT !.todo = @ \ {item}, !.loraSent = @ \/ item = Lora,
                    !.via = IF item = job.before /\ job.kind = "delete" THEN job.after ELSE @]
<1>1. job \in Jobs
  BY DEF TypeInv, JobTypes
<1>2. /\ pc = "send" /\ Write(item)
      /\ IF Replacing /\ item # Lora
           THEN pc' = "keep" /\ job' = [job EXCEPT !.loraSent = j.loraSent]
           ELSE pc' = StepPlace(j) /\ job' = j
      /\ lora' = IF Replacing /\ item = Lora THEN "new" ELSE lora
      /\ stale' = (stale \/ Overtaken)
      /\ UNCHANGED <<channels, ref, result, linkVars, editVars, jobs>>
  BY DEF Send, Applied, Write
<1>3. /\ j \in Jobs
      /\ j.kind = job.kind /\ j.staged = job.staged /\ j.before = job.before
      /\ j.after = job.after /\ j.next = job.next /\ j.last = job.last
      /\ j.ref = job.ref /\ j.base = job.base /\ j.attempt = job.attempt
      /\ j.hidden = job.hidden
      /\ j.todo = job.todo \ {item}
      /\ j.via = (IF item = job.before /\ job.kind = "delete" THEN job.after ELSE job.via)
      /\ j.loraSent \in BOOLEAN
  BY <1>1 DEF Jobs
<1> HIDE DEF j, item
<1>4. CASE Replacing /\ item # Lora
  <2>1. job' = [job EXCEPT !.loraSent = j.loraSent]
    BY <1>2, <1>4
  <2>2. job' \in Jobs /\ SamePlan /\ SameBase /\ job'.attempt = job.attempt
        /\ job'.todo = job.todo /\ job'.via = job.via /\ job'.hidden = job.hidden
    BY <1>1, <1>3, <2>1 DEF Jobs, SamePlan, SameBase
  <2> QED
    BY <1>2, <1>4, <2>2 DEF item
<1>5. CASE ~(Replacing /\ item # Lora)
  <2>1. job' = j /\ pc' = StepPlace(j)
    BY <1>2, <1>5
  <2>2. pc' = StepPlace(job')
    BY <2>1
  <2> QED
    BY <1>2, <1>3, <1>5, <2>1, <2>2 DEF SamePlan, SameBase, item
<1> QED
  BY <1>4, <1>5

LEMMA SendFailsDoes ==
    ASSUME SendFails
    PROVE  /\ pc = "send" /\ pc' = "failed" /\ job' = job
           /\ Write(Current(job)) \/ UNCHANGED deviceVars
           /\ stale' = (stale \/ Overtaken)
           /\ UNCHANGED <<cacheVars, result, linkVars, editVars, jobs>>
BY DEF SendFails, Applied, Write

LEMMA KeepSlotDoes ==
    ASSUME TypeInv, KeepSlot
    PROVE  LET s == Current(job) IN
           /\ pc = "keep" /\ Replacing /\ job.todo # {}
           /\ job' \in Jobs /\ SamePlan /\ job'.ref = job.ref
           /\ job'.attempt = job.attempt /\ job'.via = job.via /\ job'.hidden = job.hidden
           /\ UNCHANGED <<deviceVars, ref, lora, result, linkVars, edits, renamed, jobs, stale>>
           /\ \/ /\ pc' = "failed" /\ channels' = NoList
                 /\ job' = job /\ edited' = edited
              \/ /\ channels # NoList /\ ref = job.ref /\ channels = job.base
                 /\ channels' = [channels EXCEPT ![s] = job.staged[s]]
                 /\ job'.todo = job.todo \ {s} /\ pc' = StepPlace(job')
                 /\ edited' = edited \ {s}
<1> DEFINE s == Current(job)
           b == [job.base EXCEPT ![s] = job.staged[s]]
           j == [job EXCEPT !.todo = @ \ {s}, !.base[s] = job.staged[s]]
<1>1. job \in Jobs
  BY DEF TypeInv, JobTypes
<1>2. /\ pc = "keep" /\ Replacing /\ job.todo # {}
      /\ UNCHANGED <<deviceVars, ref, lora, result, linkVars, edits, renamed, jobs, stale>>
  BY DEF KeepSlot
<1>3. CASE channels = NoList \/ Changed
  <2>1. pc' = "failed" /\ channels' = NoList /\ job' = job /\ edited' = edited
    BY <1>3 DEF KeepSlot
  <2> QED
    BY <1>1, <1>2, <2>1 DEF SamePlan
<1>4. CASE ~(channels = NoList \/ Changed)
  <2>1. /\ channels' = [channels EXCEPT ![s] = job.staged[s]]
        /\ job' = j /\ pc' = StepPlace(j) /\ edited' = edited \ {s}
        /\ channels # NoList /\ ref = job.ref /\ channels = job.base
    BY <1>4 DEF KeepSlot, Changed
  <2>2. b \in Tables
    <3>1. job.base \in Tables /\ \A r \in Slots : job.staged[r] \in Channels
      BY <1>1 DEF Jobs, Tables
    <3>2. CASE s \in Slots
      BY <3>1, <3>2 DEF Tables
    <3>3. CASE s \notin Slots
      BY <3>1, <3>3 DEF Tables
    <3> QED
      BY <3>2, <3>3
  <2>3. j = [job EXCEPT !.todo = @ \ {s}, !.base = b]
    BY <1>1 DEF Jobs
  <2> HIDE DEF b, s
  <2>4. LET i == [job EXCEPT !.todo = @ \ {s}, !.base = b] IN
        /\ i \in Jobs
        /\ i.kind = job.kind /\ i.staged = job.staged /\ i.before = job.before
        /\ i.after = job.after /\ i.next = job.next /\ i.last = job.last
        /\ i.ref = job.ref /\ i.attempt = job.attempt
        /\ i.todo = job.todo \ {s} /\ i.via = job.via /\ i.hidden = job.hidden
    BY <1>1, <2>2 DEF Jobs
  <2> HIDE DEF j
  <2>5. pc' = StepPlace(job')
    BY <2>1
  <2> QED
    BY <1>2, <2>1, <2>3, <2>4, <2>5 DEF SamePlan, s
<1> QED
  BY <1>3, <1>4

LEMMA ComputeDoes ==
    ASSUME TypeInv, Compute
    PROVE  LET needed == UrlLora /\ lora # "new" IN
           /\ pc = "resume" /\ channels # NoList
           /\ job' \in Jobs /\ SamePlan /\ SameBase /\ job'.hidden = edited \ Remaining
           /\ UNCHANGED <<deviceVars, cacheVars, linkVars, editVars, jobs, stale>>
           /\ \/ /\ Remaining = {} /\ ~needed
                 /\ pc' = "idle" /\ result' = "ok" /\ job'.todo = job.todo
              \/ /\ pc' = "capture" /\ result' = result
                 /\ job'.todo = Remaining \cup (IF needed THEN {Lora} ELSE {})
                 /\ job'.via = AdminIndex(channels)
<1> DEFINE needed == UrlLora /\ lora # "new"
           todo == Remaining \cup (IF needed THEN {Lora} ELSE {})
           hidden == edited \ Remaining
<1>1. /\ pc = "resume" /\ channels # NoList
      /\ UNCHANGED <<deviceVars, cacheVars, linkVars, editVars, jobs, stale>>
  BY DEF Compute
<1>4. job \in Jobs /\ hidden \in SUBSET Slots
  BY DEF TypeInv, JobTypes, CacheTypes
<1>2. CASE Remaining = {} /\ ~needed
  <2>1. pc' = "idle" /\ result' = "ok" /\ job' = [job EXCEPT !.hidden = hidden]
    BY <1>2 DEF Compute, End
  <2> HIDE DEF hidden
  <2>2. /\ job' \in Jobs /\ SamePlan /\ SameBase
        /\ job'.hidden = hidden /\ job'.todo = job.todo
    BY <1>4, <2>1 DEF Jobs, SamePlan, SameBase
  <2> QED
    BY <1>1, <1>2, <2>1, <2>2 DEF hidden
<1>3. CASE ~(Remaining = {} /\ ~needed)
  <2>1. /\ pc' = "capture" /\ result' = result
        /\ job' = [[job EXCEPT !.hidden = hidden] EXCEPT !.todo = todo,
                       !.via = AdminIndex(channels), !.attempt = @ + 1, !.loraSent = FALSE]
    BY <1>3 DEF Compute
  <2>2. todo \in SUBSET Items
    BY DEF Remaining, Items
  <2>3. AdminIndex(channels) \in Slots
    BY <1>1, AdminFound DEF TypeInv, CacheTypes
  <2>4. job \in Jobs /\ job.attempt + 1 \in 0..MaxAttempts
    BY <1>1, TransactionAssumption DEF TypeInv, JobTypes, Jobs
  <2> HIDE DEF todo, needed, hidden
  <2>5. /\ job' \in Jobs /\ SamePlan /\ SameBase
        /\ job'.todo = todo /\ job'.via = AdminIndex(channels) /\ job'.hidden = hidden
    BY <1>4, <2>1, <2>2, <2>3, <2>4 DEF Jobs, SamePlan, SameBase
  <2> QED
    BY <1>1, <2>1, <2>5 DEF todo, needed, hidden
<1> QED
  BY <1>2, <1>3

LEMMA CaptureDoes ==
    ASSUME TypeInv, Capture
    PROVE  /\ pc = "capture" /\ job' \in Jobs /\ SamePlan
           /\ job'.todo = job.todo /\ job'.via = job.via /\ job'.hidden = job.hidden
           /\ UNCHANGED <<deviceVars, cacheVars, result, linkVars, editVars, jobs, stale>>
           /\ \/ pc' = "failed" /\ job' = job
              \/ /\ channels # NoList /\ pc' = StepPlace(job')
                 /\ job'.ref = ref /\ job'.base = channels
<1>1. /\ pc = "capture" /\ job \in Jobs
      /\ UNCHANGED <<deviceVars, cacheVars, result, linkVars, editVars, jobs, stale>>
  BY DEF Capture, TypeInv, JobTypes
<1>2. CASE channels = NoList
  <2>1. pc' = "failed" /\ job' = job
    BY <1>2 DEF Capture
  <2> QED
    BY <1>1, <2>1 DEF SamePlan
<1>3. CASE channels # NoList
  <2>1. job' = [job EXCEPT !.ref = ref, !.base = channels] /\ pc' = StepPlace(job')
    BY <1>3 DEF Capture
  <2>2. channels \in Tables /\ ref \in 0..MaxReloads
    BY <1>3 DEF TypeInv, CacheTypes
  <2>3. /\ job' \in Jobs /\ SamePlan /\ job'.todo = job.todo /\ job'.via = job.via
        /\ job'.hidden = job.hidden /\ job'.ref = ref /\ job'.base = channels
    BY <1>1, <2>1, <2>2 DEF Jobs, SamePlan
  <2> QED
    BY <1>1, <1>3, <2>1, <2>3
<1> QED
  BY <1>2, <1>3

\* The ends and the failures of a transaction.
LEMMA EndDoes ==
    ASSUME ReplaceEnds \/ Commit \/ Failure \/ ResumeFails
    PROVE  /\ UNCHANGED <<deviceVars, ref, job, linkVars, edits, renamed, jobs, stale>>
           /\ \/ /\ ReplaceEnds /\ pc = "keep" /\ Replacing /\ job.todo = {}
                 /\ pc' = "idle" /\ result' = "ok" /\ UNCHANGED <<channels, lora, edited>>
              \/ /\ Commit /\ pc = "keep" /\ ~Replacing /\ pc' = "idle" /\ result' = "ok"
                 /\ channels' = IF job.kind = "write" THEN channels
                                ELSE IF Commits THEN job.staged ELSE NoList
                 /\ edited' = IF channels' = channels THEN edited
                              ELSE {s \in edited : job.staged[s] = job.base[s]}
                 /\ lora' = IF job.kind = "add" /\ UrlLora THEN "new" ELSE lora
              \/ /\ Failure /\ pc = "failed" /\ edited' = edited
                 /\ channels' = (IF job.kind = "write" THEN channels ELSE NoList)
                 /\ lora' \in {lora, "unset"}
                 /\ \/ /\ Replacing /\ ~AttemptsExhausted
                       /\ pc' = "resume" /\ result' = result
                    \/ pc' = "idle" /\ result' = "error"
              \/ /\ ResumeFails /\ pc = "resume" /\ pc' = "idle" /\ result' = "error"
                 /\ edited' = edited
                 /\ channels' = NoList /\ lora' \in {lora, "unset"}
<1> USE DEF editVars
<1>1. CASE ReplaceEnds
  BY <1>1 DEF ReplaceEnds, End, cacheVars
<1>2. CASE Commit
  BY <1>2 DEF Commit, End
<1>3. CASE Failure
  BY <1>3 DEF Failure, End, AfterFailure
<1>4. CASE ResumeFails
  BY <1>4 DEF ResumeFails, End
<1> QED
  BY <1>1, <1>2, <1>3, <1>4

\* The application changes a cached channel.
Edited(s, c) == /\ channels' = [channels EXCEPT ![s] = c]
                /\ edited' = edited \cup {s}
                /\ renamed' = (renamed \/ "admin" \in {c, channels[s]})

\* What the device, the link and the application do beside a transaction.
LEMMA EnvironmentDoes ==
    ASSUME TypeInv, Environment
    PROVE  /\ UNCHANGED <<deviceVars, pc, job, result, jobs>>
           /\ \/ UNCHANGED <<cacheVars, editVars, stale>>
              \/ /\ channels' = [s \in Slots |-> incoming[s + 1]] /\ channels' \in Tables
                 /\ ref < reloads /\ ref' = reloads /\ lora' = deviceLora
                 /\ stale' = (channels' # device \/ (stale /\ pc # "idle"))
                 /\ edited' = {} /\ renamed' = (renamed /\ pc # "idle") /\ edits' = edits
              \/ /\ channels # NoList /\ UNCHANGED <<ref, lora, stale>>
                 /\ channels' \in Tables /\ edits' = edits + 1
                 /\ \E s \in Slots, c \in Channels : Edited(s, c)
<1>1. CASE Drop \/ StartConfig \/ Stream
  BY <1>1 DEF Drop, StartConfig, Stream
<1>2. CASE Complete
  <2>1. \A s \in Slots : s + 1 \in 1..MaxChannels
    BY TransactionAssumption DEF Slots
  <2>2. \A k \in 1..MaxChannels : incoming[k] \in Channels
    BY <1>2 DEF Complete, TypeInv, CacheTypes
  <2>3. channels' \in Tables
    BY <1>2, <2>1, <2>2 DEF Complete, Tables
  <2>4. ref < reloads
    BY <1>2, TransactionAssumption DEF Complete, TypeInv, CacheTypes
  <2> QED
    BY <1>2, <2>3, <2>4 DEF Complete
<1>3. CASE Edit
  <2>1. PICK s \in Slots, c \in Channels : Edited(s, c)
    BY <1>3, Zenon DEF Edit, Edited
  <2>2. channels # NoList /\ edits' = edits + 1
        /\ UNCHANGED <<deviceVars, ref, lora, pc, job, result, jobs, stale>>
    BY <1>3 DEF Edit
  <2>3. channels' \in Tables
    BY <2>1, <2>2 DEF Edited, TypeInv, CacheTypes, Tables
  <2> QED
    BY <2>1, <2>2, <2>3
<1> QED
  BY <1>1, <1>2, <1>3 DEF Environment

\* No plan changes but when a call begins a job.
LEMMA PlanStays ==
    ASSUME TypeInv, Transaction \/ Environment
    PROVE  job' \in Jobs /\ SamePlan
<1>1. job \in Jobs
  BY DEF TypeInv, JobTypes
<1>2. job' = job => job' \in Jobs /\ SamePlan
  BY <1>1 DEF SamePlan
<1> QED
  BY <1>2, CheckDoes, SendDoes, SendFailsDoes, KeepSlotDoes, ComputeDoes, CaptureDoes, EndDoes,
     EnvironmentDoes DEF Transaction

----------------------------------------------------------------------------
(* Types.                                                                  *)

LEMMA InitTypes == Init => TypeInv
<1> SUFFICES ASSUME Init PROVE TypeInv
  OBVIOUS
<1>1. CacheTypes
  <2>1. connected \in BOOLEAN /\ stale \in BOOLEAN /\ renamed \in BOOLEAN
    BY Zenon DEF Init
  <2>2. incoming \in Seq(Channels) /\ Len(incoming) <= MaxChannels
    BY TransactionAssumption DEF Init
  <2> QED
    BY <2>1, <2>2, TransactionAssumption DEF Init, CacheTypes
<1>2. 0 \in Slots /\ 0 \in 0..MaxReloads /\ 0 \in 0..MaxAttempts
  BY TransactionAssumption DEF Slots
<1>3. NoJob \in Jobs
  BY <1>2, TransactionAssumption DEF NoJob, Jobs, Kinds
<1>4. NoJob.kind = "write" /\ NoJob.todo = {} /\ NoJob.ref = 0
  BY DEF NoJob
<1>5. JobTypes
  BY <1>3, <1>4 DEF Init, JobTypes, Places
<1> QED
  BY <1>1, <1>5 DEF TypeInv

LEMMA CacheTypesStep == TypeInv /\ [Next]_vars => CacheTypes'
<1> SUFFICES ASSUME TypeInv, [Next]_vars PROVE CacheTypes'
  OBVIOUS
<1> USE DEF TypeInv, CacheTypes
<1>1. ASSUME UNCHANGED <<deviceVars, channels, ref, linkVars, editVars, stale>>,
             lora' \in {lora, "new", "unset"}, jobs' \in 0..MaxJobs
      PROVE  CacheTypes'
  BY <1>1 DEF deviceVars, linkVars, editVars
<1>2. CASE Check
  BY <1>2, CheckDoes DEF deviceVars, linkVars, editVars
<1>3. CASE Send \/ SendFails
  <2>1. device' \in Tables /\ deviceLora' \in {"old", "new"}
    <3>1. CASE Write(Current(job))
      <4>1. Current(job) \in Items
        BY <1>3, SendDoes, SendFailsDoes, CurrentIsItem DEF JobTypes
      <4> QED
        BY <3>1, <4>1, WriteTypes
    <3>2. CASE UNCHANGED deviceVars
      BY <3>2 DEF deviceVars
    <3> QED
      BY <1>3, <3>1, <3>2, SendDoes, SendFailsDoes
  <2>2. Overtaken \in BOOLEAN
    BY DEF Overtaken
  <2>3. /\ lora' \in {lora, "new"} /\ stale' = (stale \/ Overtaken)
        /\ UNCHANGED <<channels, ref, linkVars, editVars, jobs>>
    BY <1>3, SendDoes, SendFailsDoes DEF cacheVars
  <2> QED
    BY <2>1, <2>2, <2>3 DEF linkVars, editVars
<1>4. CASE KeepSlot
  <2>1. channels' \in Tables \cup {NoList}
    BY <1>4, KeepSlotDoes DEF JobTypes, Jobs, Tables
  <2>2. edited' \subseteq Slots
    BY <1>4, KeepSlotDoes
  <2> QED
    BY <1>4, <2>1, <2>2, KeepSlotDoes DEF deviceVars, linkVars
<1>5. CASE Compute \/ Capture
  BY <1>1, <1>5, ComputeDoes, CaptureDoes DEF cacheVars, editVars
<1>6. CASE ReplaceEnds \/ Commit \/ Failure \/ ResumeFails
  <2>1. channels' \in Tables \cup {NoList} /\ lora' \in {lora, "new", "unset"}
    BY <1>6, EndDoes DEF JobTypes, Jobs
  <2>2. edited' \subseteq Slots
    <3>1. Commit => edited' \subseteq edited
      BY DEF Commit
    <3> QED
      BY <1>6, <3>1, EndDoes
  <2> QED
    BY <1>6, <2>1, <2>2, EndDoes DEF deviceVars, linkVars
<1>7. CASE Calls
  BY <1>1, <1>7, CallDoes, TransactionAssumption DEF cacheVars, editVars
<1>8. CASE Drop \/ StartConfig \/ Stream
  <2>1. connected' \in BOOLEAN
    BY <1>8, Zenon DEF Drop, StartConfig, Stream
  <2>4. reloads' \in 0..MaxReloads
    BY <1>8, TransactionAssumption DEF Drop, StartConfig, Stream
  <2>2. incoming' \in Seq(Channels) /\ Len(incoming') <= MaxChannels
    <3>1. CASE Stream
      <4>1. Len(incoming) \in Slots
        BY <3>1, TransactionAssumption DEF Stream, Slots
      <4>2. device[Len(incoming)] \in Channels
        BY <4>1 DEF Tables
      <4> QED
        BY <3>1, <4>2, TransactionAssumption DEF Stream
    <3>2. CASE Drop \/ StartConfig
      <4>1. incoming' = incoming \/ incoming' = <<>>
        BY <3>2 DEF Drop, StartConfig
      <4>2. <<>> \in Seq(Channels) /\ Len(<<>>) <= MaxChannels
        BY TransactionAssumption
      <4> QED
        BY <4>1, <4>2
    <3> QED
      BY <1>8, <3>1, <3>2
  <2>3. UNCHANGED <<deviceVars, cacheVars, editVars, jobs, stale>>
    BY <1>8 DEF Drop, StartConfig, Stream
  <2> QED
    BY <2>1, <2>2, <2>3, <2>4 DEF deviceVars, cacheVars, editVars
<1>9. CASE Complete \/ Edit
  <2>1. channels' \in Tables \cup {NoList} /\ lora' \in {lora, deviceLora} /\ ref' \in {ref, reloads}
    BY <1>9, EnvironmentDoes DEF Environment, cacheVars
  <2>2. edits' \in 0..MaxEdits /\ UNCHANGED <<incoming, reloads, jobs>>
    BY <1>9, TransactionAssumption DEF Complete, Edit, linkVars
  <2>4. connected' \in BOOLEAN
    BY <1>9, Zenon DEF Complete, Edit, linkVars
  <2>5. stale' \in BOOLEAN
    BY <1>9, Zenon DEF Complete, Edit
  <2>6. renamed' \in BOOLEAN
    BY <1>9, Zenon DEF Complete, Edit
  <2>7. edited' \subseteq Slots
    BY <1>9 DEF Complete, Edit
  <2>3. UNCHANGED deviceVars
    BY <1>9 DEF Complete, Edit
  <2> QED
    BY <2>1, <2>2, <2>3, <2>4, <2>5, <2>6, <2>7 DEF deviceVars
<1>10. CASE UNCHANGED vars
  BY <1>10 DEF vars, deviceVars, cacheVars, linkVars, editVars
<1> QED
  BY <1>2, <1>3, <1>4, <1>5, <1>6, <1>7, <1>8, <1>9, <1>10 DEF Next, Transaction, Environment

\* Where a job goes on.
LEMMA StepPlaces ==
    ASSUME NEW j
    PROVE  /\ StepPlace(j) \in {"keep", "check", "send"}
           /\ j.todo = {} <=> StepPlace(j) = "keep"
           /\ StepPlace(j) = "check" => j.kind = "replace" /\ Current(j) # Lora
           /\ (StepPlace(j) = "send" /\ j.kind = "replace") => Current(j) = Lora
BY DEF StepPlace

LEMMA JobTypesStep == TypeInv /\ [Next]_vars => JobTypes'
<1> SUFFICES ASSUME TypeInv, [Next]_vars PROVE JobTypes'
  OBVIOUS
<1> USE DEF Replacing
<1>1. JobTypes /\ job \in Jobs /\ ref \in Nat /\ reloads \in Nat /\ job.ref \in Nat
      /\ job.todo \subseteq Items
  BY DEF TypeInv, CacheTypes, JobTypes, Jobs
<1>2. CASE Check
  BY <1>1, <1>2, CheckDoes DEF JobTypes, Places, SamePlan, SameBase
<1>3. CASE Send
  <2>1. job'.ref <= ref'
    BY <1>1, <1>3, SendDoes DEF JobTypes, SameBase
  <2>2. job'.todo \subseteq job.todo /\ job'.kind = job.kind
    BY <1>3, SendDoes DEF SamePlan
  <2>3. CASE Replacing /\ Current(job) # Lora
    BY <1>1, <1>3, <2>1, <2>3, SendDoes DEF JobTypes, Places, SamePlan
  <2>4. CASE ~(Replacing /\ Current(job) # Lora)
    <3>1. pc' = StepPlace(job') /\ job' \in Jobs /\ result' = result
      BY <1>3, <2>4, SendDoes
    <3> QED
      BY <1>1, <2>1, <2>2, <3>1, StepPlaces DEF JobTypes, Places
  <2> QED
    BY <2>3, <2>4
<1>4. CASE SendFails
  BY <1>1, <1>4, SendFailsDoes DEF JobTypes, Places, cacheVars
<1>5. CASE KeepSlot
  <2>1. /\ job' \in Jobs /\ job'.ref = job.ref /\ ref' = ref /\ job'.kind = job.kind
        /\ job.kind = "replace" /\ result' = result
    BY <1>5, KeepSlotDoes DEF SamePlan
  <2>2. pc' = "failed" \/ pc' = StepPlace(job')
    BY <1>5, KeepSlotDoes
  <2> QED
    BY <1>1, <2>1, <2>2, StepPlaces DEF JobTypes, Places
<1>6. CASE Compute
  <2>1. pc = "resume" /\ UNCHANGED ref
    BY <1>6, ComputeDoes DEF cacheVars
  <2> QED
    BY <1>1, <1>6, <2>1, ComputeDoes DEF JobTypes, Places, SamePlan, SameBase
<1>7. CASE Capture
  <2>1. /\ job' \in Jobs /\ ref' = ref /\ job'.kind = job.kind /\ result' = result
        /\ job.kind = "replace" /\ job'.ref \in {job.ref, ref}
    BY <1>7, CaptureDoes DEF SamePlan, cacheVars, JobTypes, TypeInv
  <2>2. pc' = "failed" \/ pc' = StepPlace(job')
    BY <1>7, CaptureDoes
  <2> QED
    BY <1>1, <2>1, <2>2, StepPlaces DEF JobTypes, Places
<1>8. CASE ReplaceEnds \/ Commit \/ Failure \/ ResumeFails
  <2>1. ~AttemptsExhausted => job.attempt < MaxAttempts
    BY <1>1, TransactionAssumption DEF Jobs, AttemptsExhausted
  <2>2. /\ job' = job /\ ref' = ref
        /\ pc' = "idle" \/ (pc' = "resume" /\ Replacing /\ ~AttemptsExhausted)
        /\ result' \in {result, "ok", "error"}
    BY <1>8, EndDoes
  <2> QED
    BY <1>1, <2>1, <2>2 DEF JobTypes, Places
<1>9. CASE Calls
  <2>1. UNCHANGED ref
    BY <1>9, CallDoes DEF cacheVars
  <2>2. CASE Idle /\ result' \in {"ok", "error"}
    BY <1>1, <2>1, <2>2 DEF JobTypes, Idle
  <2>3. ASSUME NEW p, Begun(p), p \in Jobs, p.ref = ref, p.kind = "write" => Lora \notin p.todo
        PROVE  JobTypes'
    <3>1. p.todo # {} \/ p.kind \in Kinds
      BY <2>3 DEF Jobs
    <3>2. (StepPlace(p) = "keep" => p.todo = {}) /\ result' = result
      BY <2>3, StepPlaces DEF Begun
    <3> QED
      BY <1>1, <2>1, <2>3, <3>2, StepPlaces DEF JobTypes, Places, Begun
  <2>4. ASSUME NEW s \in Slots, Begun(WritePlan(s)) PROVE JobTypes'
    <3>1. Lora \notin {s}
      BY TransactionAssumption DEF Slots, Lora
    <3> QED
      BY <2>3, <2>4, <3>1, WriteIsJob DEF TypeInv, Begun
  <2>5. ASSUME NEW d \in Slots, Begun(DeletePlan(d)) PROVE JobTypes'
    BY <2>3, <2>5, DeleteIsJob DEF TypeInv, Begun
  <2>6. Begun(AddPlan) => JobTypes'
    BY <2>3, AddIsJob DEF TypeInv, Begun
  <2>7. Begun(ReplacePlan) => JobTypes'
    BY <2>3, ReplaceIsJob DEF TypeInv, Begun
  <2> QED
    BY <1>9, <2>2, <2>4, <2>5, <2>6, <2>7, CallDoes
<1>10. CASE Environment
  <2>1. UNCHANGED <<pc, job, result>> /\ ref <= ref'
    BY <1>1, <1>10, EnvironmentDoes DEF cacheVars
  <2> QED
    BY <1>1, <2>1, CacheTypesStep DEF JobTypes, CacheTypes
<1>11. CASE UNCHANGED vars
  BY <1>1, <1>11 DEF vars, cacheVars, JobTypes
<1> QED
  BY <1>2, <1>3, <1>4, <1>5, <1>6, <1>7, <1>8, <1>9, <1>10, <1>11 DEF Next, Transaction

LEMMA TypeStep == TypeInv /\ [Next]_vars => TypeInv'
BY CacheTypesStep, JobTypesStep DEF TypeInv

\* Every variable stays in its range, whatever the tables, the URL and the bounds are: an
\* administration channel that is used is a slot, and what is planned and cached is a table.
THEOREM TypesHold == Spec => []TypeOK
<1>1. TypeInv => TypeOK
  BY DEF TypeInv, CacheTypes, JobTypes, Jobs, TypeOK
<1> QED
  BY <1>1, InitTypes, TypeStep, PTL DEF Spec

----------------------------------------------------------------------------
(* The application's edits.                                                *)

\* What each step does to a channel that is not the one the current plan was made from.
Kept == (channels # NoList /\ channels' # NoList /\ ref' = ref /\ edits' = edits) =>
    \A s \in Slots : channels[s] # job.base[s] => channels'[s] = channels[s]

LEMMA EditStep == TypeInv /\ [Next]_vars => Kept
<1> SUFFICES ASSUME TypeInv, [Next]_vars PROVE Kept
  OBVIOUS
<1>1. ASSUME \/ channels' = NoList \/ UNCHANGED channels
             \/ channels = job.base \/ ref' # ref \/ edits' # edits
      PROVE  Kept
  BY <1>1 DEF Kept
<1>2. CASE Transaction
  <2>1. Commit => channels' = channels \/ channels' = NoList \/ channels = job.base
    BY EndDoes DEF Commits
  <2> QED
    BY <1>1, <1>2, <2>1, CheckDoes, SendDoes, SendFailsDoes, KeepSlotDoes, ComputeDoes, CaptureDoes,
       EndDoes DEF Transaction, cacheVars
<1>3. CASE Environment
  <2>1. edits \in Nat /\ ref \in Nat /\ reloads \in Nat
    BY TransactionAssumption DEF TypeInv, CacheTypes
  <2>2. edits + 1 # edits /\ (ref < reloads => reloads # ref)
    BY <2>1
  <2> QED
    BY <1>1, <1>3, <2>2, EnvironmentDoes DEF cacheVars
<1>4. CASE Calls \/ UNCHANGED vars
  BY <1>1, <1>4, CallDoes DEF vars, cacheVars
<1> QED
  BY <1>2, <1>3, <1>4 DEF Next

\* An edit made in the cached list while a transaction runs stays there, or the list is
\* dropped or replaced by a later download: no commit of a transaction writes over it.
THEOREM EditsAreKept == Spec => EditsSurvive
<1>1. TypeInv /\ [Next]_vars => TypeInv' /\ [Kept]_vars
  BY TypeStep, EditStep
<1> QED
  BY <1>1, InitTypes, PTL DEF Spec, EditsSurvive, Kept

----------------------------------------------------------------------------
(* The cache and the device.                                               *)

\* Two channels of slot s agree: they are the same but in the slots S, and where no edit has
\* touched the name they are at least both the admin channel or neither.
Agree(S, s, c, d) == /\ s \notin S => c = d
                     /\ ~renamed => (c = "admin" <=> d = "admin")

\* A replacement has written the current slot and not committed it yet.
Written(s) == pc = "keep" /\ Replacing /\ job.todo # {} /\ s = Current(job)
WrittenInv == (pc = "keep" /\ Replacing /\ job.todo # {}) => Current(job) \in Slots

\* When the cached list must agree with the device: not while a failure is about to drop it,
\* nor while a deletion or an addition, which commit at the end, is in progress.
Committed == pc = "idle" \/ job.kind = "write" \/ (Replacing /\ pc # "failed")
CacheInv == (channels # NoList /\ ~stale /\ Committed) =>
    \A s \in Slots : Written(s) \/ Agree(edited, s, channels[s], device[s])

\* A single write: its list is the cached one, apart from edits.
WriteInv == (job.kind = "write" /\ pc = "send" /\ channels # NoList /\ ref = job.ref) =>
    \A s \in Slots : Agree(edited, s, channels[s], job.staged[s])

\* A deletion or an addition: the device has what has been written; what the plan leaves as
\* it is agrees in the cached list, however that was reloaded meanwhile.
Partly == job.kind \in {"delete", "add"} /\ pc \in {"send", "keep"}
Rewrites(s) == job.staged[s] # job.base[s]
There(s) == IF s \in job.todo THEN job.base[s] ELSE job.staged[s]
PartlyInv == Partly => \A s \in Slots :
    /\ s \in job.todo => Rewrites(s)
    /\ (~stale /\ Rewrites(s) /\ s \notin job.todo) => device[s] = job.staged[s]
    /\ (~stale /\ ~Rewrites(s) /\ s \notin edited /\ channels # NoList) => channels[s] = device[s]
    /\ (~stale /\ ~renamed) => (There(s) = "admin" <=> device[s] = "admin")

\* A replacement: the device has what is not left, but in a slot that an edit hides.
Working == pc \in {"check", "send", "keep", "capture"}
WholeInv ==
    /\ (Replacing /\ pc # "idle") => job.staged = Replaced
    /\ (Replacing /\ Working /\ ~stale) => \A s \in Slots :
         /\ Written(s) => device[s] = job.staged[s]
         /\ s \notin job.todo => Agree(job.hidden, s, device[s], job.staged[s])

\* The LoRa configuration.
LoraInv ==
    /\ lora = "new" => deviceLora = "new"
    /\ (job.kind \in {"add", "replace"} /\ Working /\ UrlLora /\ Lora \notin job.todo)
         => deviceLora = "new"

AgreeInv == WrittenInv /\ CacheInv /\ WriteInv /\ PartlyInv /\ WholeInv /\ LoraInv

LEMMA SameCurrent ==
    ASSUME SamePlan, job'.todo = job.todo
    PROVE  Current(job') = Current(job)
BY DEF Current, Place, SamePlan

LEMMA Tabled ==
    ASSUME TypeInv
    PROVE  /\ device \in Tables /\ job.staged \in Tables /\ job.base \in Tables
           /\ channels # NoList => channels \in Tables
           /\ job.todo \subseteq Items /\ Lora \notin Slots
BY TransactionAssumption DEF TypeInv, CacheTypes, JobTypes, Jobs, Slots, Lora

\* At the start there is no transaction and the cache is the device's table.
LEMMA InitAgrees == Init => AgreeInv
BY DEF Init, NoJob, AgreeInv, WrittenInv, CacheInv, WriteInv, PartlyInv, Partly, WholeInv, LoraInv,
       Agree, Replacing, Working

\* A download that completes brings the device's table or is known to be overtaken; an edit
\* is known by its slot, and as a renaming.
LEMMA EnvironmentAgrees == TypeInv /\ AgreeInv /\ Environment => AgreeInv'
<1> SUFFICES ASSUME TypeInv, AgreeInv, Environment PROVE AgreeInv'
  OBVIOUS
<1> USE DEF AgreeInv, Replacing, Working, Written
<1>1. UNCHANGED <<device, deviceLora, pc, job, result, jobs>>
  BY EnvironmentDoes DEF deviceVars
<1>2. Current(job') = Current(job)
  BY <1>1
<1>3. \/ pc = "idle"
      \/ (stale => stale') /\ (renamed => renamed')
  BY EnvironmentDoes, Zenon DEF editVars, Edited
<1>4. WrittenInv'
  BY <1>1, <1>2 DEF WrittenInv
<1>5. WholeInv'
  <2>1. CASE pc = "idle"
    BY <1>1, <2>1 DEF WholeInv
  <2>2. CASE (stale => stale') /\ (renamed => renamed')
    BY <1>1, <1>2, <2>2 DEF WholeInv, Agree, Replaced
  <2> QED
    BY <1>3, <2>1, <2>2
<1>6. LoraInv'
  BY <1>1, EnvironmentDoes DEF LoraInv, cacheVars
<1> USE DEF Rewrites, There
<1>7. CASE UNCHANGED <<cacheVars, editVars, stale>>
  <2>1. CacheInv' /\ WriteInv'
    BY <1>1, <1>2, <1>7 DEF CacheInv, Committed, WriteInv, Agree, cacheVars, editVars
  <2>2. PartlyInv'
    BY <1>1, <1>7 DEF PartlyInv, Partly, cacheVars, editVars
  <2> QED
    BY <1>4, <1>5, <1>6, <2>1, <2>2
<1>8. ASSUME ref < reloads, ref' = reloads, stale' = (channels' # device \/ (stale /\ pc # "idle")),
             renamed' = (renamed /\ pc # "idle")
      PROVE  AgreeInv'
  <2>1. CacheInv'
    BY <1>1, <1>8 DEF CacheInv, Agree
  <2>2. ref' # job'.ref
    BY <1>1, <1>8 DEF TypeInv, CacheTypes, JobTypes, Jobs
  <2>3. WriteInv'
    BY <2>2 DEF WriteInv
  <2>4. ~stale' => channels' = device
    BY <1>8
  <2>5. PartlyInv'
    <3>1. CASE pc = "idle"
      BY <1>1, <3>1 DEF Partly, PartlyInv
    <3>2. CASE pc # "idle"
      <4>1. (stale => stale') /\ (renamed => renamed')
        BY <1>8, <3>2
      <4> QED
        BY <1>1, <2>4, <4>1 DEF PartlyInv, Partly
    <3> QED
      BY <3>1, <3>2
  <2> QED
    BY <1>4, <1>5, <1>6, <2>1, <2>3, <2>5
<1>9. ASSUME channels # NoList, UNCHANGED <<ref, lora, stale>>, NEW s \in Slots, NEW c \in Channels,
             Edited(s, c)
      PROVE  AgreeInv'
  <2>1. channels \in Tables
    BY <1>9, Tabled
  <2>2. \A r \in Slots : channels'[r] = IF r = s THEN c ELSE channels[r]
    BY <1>9, <2>1 DEF Tables, Edited
  <2>3. edited' = edited \cup {s} /\ renamed' = (renamed \/ "admin" \in {c, channels[s]})
    BY <1>9 DEF Edited
  <2>5. CacheInv'
    <3>1. ASSUME ~stale', Committed', NEW r \in Slots
          PROVE  Written(r)' \/ Agree(edited, r, channels[r], device[r])'
      <4>1. Written(r) \/ Agree(edited, r, channels[r], device[r])
        BY <1>1, <1>9, <3>1 DEF CacheInv, Committed
      <4> QED
        BY <1>1, <1>2, <2>2, <2>3, <4>1 DEF Agree
    <3> QED
      BY <3>1 DEF CacheInv
  <2>6. WriteInv'
    <3>1. ASSUME job.kind = "write", pc = "send", ref = job.ref, NEW r \in Slots
          PROVE  Agree(edited, r, channels[r], job.staged[r])'
      <4>1. Agree(edited, r, channels[r], job.staged[r])
        BY <1>9, <3>1 DEF WriteInv
      <4> QED
        BY <1>1, <2>2, <2>3, <4>1 DEF Agree
    <3> QED
      BY <1>1, <1>9, <3>1 DEF WriteInv
  <2>7. PartlyInv'
    BY <1>1, <1>9, <2>2, <2>3 DEF PartlyInv, Partly
  <2> QED
    BY <1>4, <1>5, <1>6, <2>5, <2>6, <2>7
<1> QED
  BY <1>7, <1>8, <1>9, EnvironmentDoes

\* The guard of a replacement changes nothing but the list, which it may drop.
LEMMA CheckAgrees == TypeInv /\ AgreeInv /\ Check => AgreeInv'
<1> SUFFICES ASSUME TypeInv, AgreeInv, Check PROVE AgreeInv'
  OBVIOUS
<1> USE DEF AgreeInv, Replacing, Working, Written
<1>1. /\ pc = "check" /\ Replacing /\ SamePlan /\ job'.todo = job.todo
      /\ job'.hidden = job.hidden
      /\ UNCHANGED <<device, deviceLora, ref, lora, stale, edited, renamed>>
      /\ \/ pc' = "send" /\ channels' = channels
         \/ pc' = "failed" /\ channels' = NoList
  <2>1. pc = "check" => Replacing
    BY DEF TypeInv, JobTypes
  <2> QED
    BY <2>1, CheckDoes DEF deviceVars, editVars
<1>2. WrittenInv' /\ CacheInv' /\ WriteInv'
  BY <1>1 DEF WrittenInv, CacheInv, Committed, WriteInv, Agree, SamePlan
<1>3. PartlyInv' /\ WholeInv' /\ LoraInv'
  BY <1>1 DEF PartlyInv, Partly, WholeInv, LoraInv, Agree, SamePlan, Replaced
<1> QED
  BY <1>2, <1>3

\* A write brings one slot of the device to what is planned.
LEMMA WriteDoes ==
    ASSUME TypeInv, NEW item \in Items, Write(item)
    PROVE  \A s \in Slots : device'[s] = IF s = item THEN job.staged[s] ELSE device[s]
BY Tabled DEF Write, Tables

\* A single write is sent, or raises.
LEMMA SingleWriteAgrees ==
    ASSUME TypeInv, AgreeInv, Send \/ SendFails, job.kind = "write"
    PROVE  CacheInv'
<1> DEFINE item == Current(job)
<1>1. /\ pc = "send" /\ job.todo # {} /\ job'.kind = "write"
      /\ Write(item) \/ UNCHANGED device
      /\ stale' = (stale \/ Overtaken) /\ UNCHANGED <<channels, ref, edited, renamed>>
  BY SendDoes, SendFailsDoes DEF TypeInv, JobTypes, cacheVars, deviceVars, editVars, SamePlan
<1>2. item \in Items
  BY <1>1, CurrentIsItem
<1>3. ASSUME channels # NoList, ~stale', NEW s \in Slots 
      PROVE  Agree(edited, s, channels[s], device[s])'
  <2>1. ~stale /\ ~Overtaken
    BY <1>1, <1>3
  <2>2. Agree(edited, s, channels[s], device[s])
    BY <1>1, <1>3, <2>1 DEF AgreeInv, CacheInv, Committed, Written
  <2>3. CASE device'[s] = device[s]
    BY <1>1, <2>2, <2>3 DEF Agree
  <2>4. CASE device'[s] # device[s]
    <3>1. Write(item)
      BY <1>1, <2>4
    <3>2. device'[s] = job.staged[s]
      BY <1>2, <2>4, <3>1, WriteDoes
    <3>3. ref = job.ref
      BY <1>3, <2>1, <2>4 DEF Overtaken
    <3>4. Agree(edited, s, channels[s], job.staged[s])
      BY <1>1, <1>3, <3>3 DEF AgreeInv, WriteInv
    <3> QED
      BY <1>1, <3>2, <3>4 DEF Agree
  <2> QED
    BY <2>3, <2>4
<1> QED
  BY <1>1, <1>3 DEF CacheInv

\* Each write of a deletion or an addition takes one item from what is left.
LEMMA PartlyStep ==
    ASSUME TypeInv, AgreeInv, Send, ~Replacing
    PROVE  PartlyInv'
<1> DEFINE item == Current(job)
<1>1. /\ pc = "send" /\ SamePlan /\ SameBase /\ Write(item)
      /\ job'.todo = job.todo \ {item} /\ (stale => stale')
      /\ UNCHANGED <<channels, edited, renamed>>
  BY SendDoes DEF editVars
<1>2. item \in Items /\ item \in job.todo
  BY <1>1, CurrentIsItem DEF TypeInv, JobTypes
<1>3. \A s \in Slots : device'[s] = IF s = item THEN job.staged[s] ELSE device[s]
  BY <1>1, <1>2, WriteDoes
<1> HIDE DEF item
<1>4. ASSUME Partly', NEW s \in Slots
      PROVE  /\ s \in job'.todo => Rewrites(s)'
             /\ (~stale' /\ Rewrites(s)' /\ s \notin job'.todo) => device'[s] = job'.staged[s]
             /\ (~stale' /\ ~Rewrites(s)' /\ s \notin edited' /\ channels' # NoList)
                  => channels'[s] = device'[s]
             /\ (~stale' /\ ~renamed') => (There(s)' = "admin" <=> device'[s] = "admin")
  <2>1. Partly /\ Rewrites(s)' = Rewrites(s)
    BY <1>1, <1>4 DEF Partly, Rewrites, SamePlan, SameBase
  <2>2. /\ s \in job.todo => Rewrites(s)
        /\ (~stale /\ Rewrites(s) /\ s \notin job.todo) => device[s] = job.staged[s]
        /\ (~stale /\ ~Rewrites(s) /\ s \notin edited /\ channels # NoList) => channels[s] = device[s]
        /\ (~stale /\ ~renamed) => (There(s) = "admin" <=> device[s] = "admin")
    BY <2>1 DEF AgreeInv, PartlyInv
  <2>3. CASE s = item
    BY <1>1, <1>2, <1>3, <2>1, <2>2, <2>3 DEF There, SamePlan, SameBase
  <2>4. CASE s # item
    BY <1>1, <1>3, <2>1, <2>2, <2>4 DEF There, SamePlan, SameBase
  <2> QED
    BY <2>3, <2>4
<1> QED
  BY <1>4 DEF PartlyInv

\* Writes that are not of a replacement.
LEMMA OtherSendAgrees ==
    ASSUME TypeInv, AgreeInv, Send, ~Replacing
    PROVE  AgreeInv'
<1> DEFINE item == Current(job)
<1>1. /\ pc = "send" /\ SamePlan /\ SameBase /\ Write(item) /\ job' \in Jobs
      /\ pc' \in {"keep", "check", "send"}
      /\ job'.todo = job.todo \ {item} /\ UNCHANGED <<channels, ref, lora, edited, renamed>>
  BY SendDoes, StepPlaces DEF editVars
<1>2. item \in Items /\ item \in job.todo /\ job.kind \in Kinds
  BY <1>1, CurrentIsItem DEF TypeInv, JobTypes, Jobs
<1>3. ~Replacing'
  BY <1>1 DEF Replacing, SamePlan
<1>4. WrittenInv' /\ WholeInv'
  BY <1>3 DEF WrittenInv, WholeInv
<1>5. CacheInv'
  <2>1. CASE job.kind = "write"
    BY <2>1, SingleWriteAgrees
  <2>2. CASE job.kind # "write"
    BY <1>1, <1>3, <2>2 DEF CacheInv, Committed, SamePlan
  <2> QED
    BY <2>1, <2>2
<1>6. WriteInv'
  BY <1>1 DEF AgreeInv, WriteInv, Agree, SamePlan, SameBase
<1>7. LoraInv'
  <2>1. deviceLora' = IF item = Lora THEN "new" ELSE deviceLora
    BY <1>1 DEF Write
  <2> HIDE DEF item
  <2> QED
    BY <1>1, <2>1 DEF AgreeInv, LoraInv, SamePlan, Working
<1> QED
  BY <1>4, <1>5, <1>6, <1>7, PartlyStep DEF AgreeInv

\* A slot of a replacement is sent: the device has it, the cache not yet.
LEMMA ReplaceSlotAgrees ==
    ASSUME TypeInv, AgreeInv, Send, Replacing, Current(job) # Lora
    PROVE  AgreeInv'
<1> DEFINE item == Current(job)
<1>1. /\ pc = "send" /\ SamePlan /\ Write(item) /\ job'.todo = job.todo /\ pc' = "keep"
      /\ job'.hidden = job.hidden /\ UNCHANGED <<edited, renamed>>
      /\ stale' = (stale \/ Overtaken) /\ UNCHANGED <<channels, ref, lora>>
  BY SendDoes DEF editVars
<1>2. item \in job.todo /\ item \in Slots /\ item \in Items
  BY <1>1, CurrentIsItem DEF TypeInv, JobTypes, Items
<1>3. Current(job') = item
  BY <1>1, SameCurrent
<1>4. \A s \in Slots : device'[s] = IF s = item THEN job.staged[s] ELSE device[s]
  BY <1>1, <1>2, WriteDoes
<1>5. deviceLora' = deviceLora
  BY <1>1 DEF Write
<1> HIDE DEF item
<1> USE DEF Replacing, SamePlan
<1>6. WrittenInv'
  BY <1>1, <1>2, <1>3 DEF WrittenInv
<1>7. CacheInv'
  BY <1>1, <1>2, <1>3, <1>4 DEF AgreeInv, CacheInv, Committed, Written, Agree
<1>8. WriteInv' /\ PartlyInv'
  BY <1>1 DEF WriteInv, PartlyInv, Partly
<1>9. WholeInv'
  <2>1. job'.staged = job.staged /\ (job.staged = Replaced)' = (job.staged = Replaced)
    BY <1>1 DEF Replaced
  <2>2. ASSUME ~stale', NEW s \in Slots
        PROVE  /\ Written(s)' => device'[s] = job'.staged[s]
               /\ s \notin job'.todo => Agree(job.hidden, s, device[s], job.staged[s])'
    <3>1. s \notin job.todo => Agree(job.hidden, s, device[s], job.staged[s])
      BY <1>1, <2>2 DEF AgreeInv, WholeInv, Working
    <3>2. Written(s)' => s = item
      BY <1>3 DEF Written
    <3> QED
      BY <1>1, <1>2, <1>4, <2>1, <3>1, <3>2 DEF Agree
  <2> QED
    BY <1>1, <2>1, <2>2 DEF AgreeInv, WholeInv
<1>10. LoraInv'
  BY <1>1, <1>5 DEF AgreeInv, LoraInv, Working
<1> QED
  BY <1>6, <1>7, <1>8, <1>9, <1>10 DEF AgreeInv

\* The LoRa configuration of a replacement is sent and cached at once.
LEMMA ReplaceLoraAgrees ==
    ASSUME TypeInv, AgreeInv, Send, Replacing, Current(job) = Lora
    PROVE  AgreeInv'
<1>1. /\ pc = "send" /\ SamePlan /\ Write(Lora) /\ pc' = StepPlace(job')
      /\ job'.todo = job.todo \ {Lora}
      /\ job'.hidden = job.hidden /\ UNCHANGED <<edited, renamed>>
      /\ stale' = (stale \/ Overtaken) /\ UNCHANGED <<channels, ref>>
  BY SendDoes DEF editVars
<1>2. device' = device /\ deviceLora' = "new"
  BY <1>1 DEF Write
<1>3. pc' = "keep" => job'.todo = {}
  BY <1>1, StepPlaces
<1>4. pc' \in {"keep", "check", "send"}
  BY <1>1, StepPlaces
<1>5. \A s \in Slots : s \in job.todo => s \in job'.todo
  BY <1>1, Tabled
<1> USE DEF Replacing, SamePlan
<1>6. WrittenInv'
  BY <1>3 DEF WrittenInv
<1>7. CacheInv'
  BY <1>1, <1>2, <1>3, <1>4 DEF AgreeInv, CacheInv, Committed, Written, Agree
<1>8. WriteInv' /\ PartlyInv' /\ LoraInv'
  BY <1>1, <1>2 DEF WriteInv, PartlyInv, Partly, LoraInv
<1>9. WholeInv'
  <2>1. job'.staged = job.staged /\ (job.staged = Replaced)' = (job.staged = Replaced)
    BY <1>1 DEF Replaced
  <2>2. ASSUME ~stale', NEW s \in Slots
        PROVE  /\ ~Written(s)'
               /\ s \notin job'.todo => Agree(job.hidden, s, device[s], job.staged[s])'
    <3>1. s \notin job.todo => Agree(job.hidden, s, device[s], job.staged[s])
      BY <1>1, <2>2 DEF AgreeInv, WholeInv, Working
    <3> QED
      BY <1>1, <1>2, <1>3, <1>5, <2>1, <2>2, <3>1 DEF Agree, Written
  <2> QED
    BY <1>1, <2>1, <2>2 DEF AgreeInv, WholeInv
<1> QED
  BY <1>6, <1>7, <1>8, <1>9 DEF AgreeInv

\* A write that raises: only a single write keeps its list.
LEMMA SendFailsAgrees ==
    ASSUME TypeInv, AgreeInv, SendFails
    PROVE  AgreeInv'
<1>1. /\ pc = "send" /\ pc' = "failed" /\ job' = job /\ UNCHANGED <<channels, lora, ref>>
      /\ Write(Current(job)) \/ UNCHANGED <<device, deviceLora>>
  BY SendFailsDoes DEF cacheVars, deviceVars
<1>2. deviceLora' \in {deviceLora, "new"}
  BY <1>1 DEF Write
<1>3. CacheInv'
  <2>1. CASE job.kind = "write"
    BY <2>1, SingleWriteAgrees
  <2>2. CASE job.kind # "write"
    BY <1>1, <2>2 DEF CacheInv, Committed
  <2> QED
    BY <2>1, <2>2
<1>4. WrittenInv' /\ WriteInv' /\ PartlyInv'
  BY <1>1 DEF WrittenInv, WriteInv, PartlyInv, Partly
<1>5. WholeInv'
  BY <1>1 DEF AgreeInv, WholeInv, Working, Replaced, Replacing
<1>6. LoraInv'
  BY <1>1, <1>2 DEF AgreeInv, LoraInv, Working
<1> QED
  BY <1>3, <1>4, <1>5, <1>6 DEF AgreeInv

\* A slot of a replacement is committed, or the list is dropped.
LEMMA KeepSlotAgrees ==
    ASSUME TypeInv, AgreeInv, KeepSlot
    PROVE  AgreeInv'
<1> DEFINE item == Current(job)
<1>1. /\ pc = "keep" /\ Replacing /\ job.todo # {} /\ SamePlan
      /\ job'.hidden = job.hidden
      /\ UNCHANGED <<device, deviceLora, ref, lora, stale, renamed>>
      /\ \/ pc' = "failed" /\ channels' = NoList
         \/ /\ channels # NoList
            /\ channels' = [channels EXCEPT ![item] = job.staged[item]]
            /\ job'.todo = job.todo \ {item} /\ pc' = StepPlace(job')
            /\ edited' = edited \ {item}
  BY KeepSlotDoes DEF deviceVars
<1>2. item \in Slots
  BY <1>1 DEF AgreeInv, WrittenInv
<1> USE DEF Replacing, SamePlan
<1>3. CASE pc' = "failed" /\ channels' = NoList
  BY <1>1, <1>3 DEF AgreeInv, WrittenInv, CacheInv, WriteInv, PartlyInv, Partly, WholeInv, Working,
                    LoraInv, Replaced
<1>4. CASE /\ channels # NoList
           /\ channels' = [channels EXCEPT ![item] = job.staged[item]]
           /\ job'.todo = job.todo \ {item} /\ pc' = StepPlace(job')
           /\ edited' = edited \ {item}
  <2>1. pc' = "keep" => job'.todo = {}
    BY <1>4, StepPlaces
  <2>2. pc' \in {"keep", "check", "send"}
    BY <1>4, StepPlaces
  <2>3. \A s \in Slots : channels'[s] = IF s = item THEN job.staged[s] ELSE channels[s]
    BY <1>4, Tabled DEF Tables
  <2>4. item # Lora
    BY <1>2, Tabled
  <2>5. \A s \in Slots : Written(s) <=> s = item
    BY <1>1 DEF Written
  <2>6. ASSUME ~stale PROVE device[item] = job.staged[item]
    BY <1>1, <1>2, <2>5, <2>6 DEF AgreeInv, WholeInv, Working
  <2> HIDE DEF item
  <2>7. CacheInv'
    <3>1. ASSUME ~stale', NEW s \in Slots PROVE Agree(edited, s, channels[s], device[s])'
      BY <1>1, <1>4, <2>3, <2>5, <2>6, <3>1 DEF AgreeInv, CacheInv, Committed, Agree
    <3> QED
      BY <3>1 DEF CacheInv
  <2>8. WrittenInv' /\ WriteInv' /\ PartlyInv'
    BY <1>1, <2>1 DEF WrittenInv, WriteInv, PartlyInv, Partly
  <2>9. WholeInv'
    <3>1. \A s \in Slots : s \notin job'.todo => s \notin job.todo \/ s = item
      BY <1>4
    <3> QED
      BY <1>1, <2>1, <2>2, <2>5, <3>1 DEF AgreeInv, WholeInv, Working, Written, Agree, Replaced
  <2>10. LoraInv'
    BY <1>1, <1>4, <2>4 DEF AgreeInv, LoraInv, Working
  <2> QED
    BY <2>7, <2>8, <2>9, <2>10 DEF AgreeInv
<1> QED
  BY <1>1, <1>3, <1>4

\* What a resumed replacement takes for done is done.
LEMMA ComputeAgrees ==
    ASSUME TypeInv, AgreeInv, Compute
    PROVE  AgreeInv'
<1>1. /\ pc = "resume" /\ channels # NoList /\ SamePlan /\ job'.hidden = edited \ Remaining
      /\ UNCHANGED <<device, deviceLora, channels, ref, lora, stale, edited, renamed>>
      /\ pc' \in {"idle", "capture"}
      /\ pc' = "capture" =>
           job'.todo = Remaining \cup (IF UrlLora /\ lora # "new" THEN {Lora} ELSE {})
  BY ComputeDoes DEF deviceVars, cacheVars, editVars
<1>2. Replacing /\ (Replacing)'
  BY <1>1 DEF TypeInv, JobTypes, Replacing, SamePlan
<1>3. job.staged = Replaced
  BY <1>1, <1>2 DEF AgreeInv, WholeInv
<1>4. ASSUME ~stale, NEW s \in Slots PROVE Agree(edited, s, channels[s], device[s])
  BY <1>1, <1>2, <1>4 DEF AgreeInv, CacheInv, Committed, Written
<1>5. CacheInv'
  BY <1>1, <1>4 DEF CacheInv, Agree
<1>6. WrittenInv' /\ WriteInv' /\ PartlyInv'
  BY <1>1 DEF WrittenInv, WriteInv, PartlyInv, Partly
<1>7. WholeInv'
  <2>1. CASE pc' = "idle"
    BY <2>1 DEF WholeInv, Working
  <2>2. CASE pc' = "capture"
    <3>1. job'.staged = Replaced /\ job'.staged = job.staged
      BY <1>1, <1>3 DEF SamePlan
    <3>2. ASSUME ~stale, NEW s \in Slots, s \notin job'.todo
          PROVE  Agree(job.hidden, s, device[s], job.staged[s])'
      <4>1. s \notin Remaining
        BY <1>1, <2>2, <3>2
      <4>2. channels[s] = job.staged[s]
        BY <3>2, <4>1 DEF Remaining
      <4>3. s \notin job'.hidden => s \notin edited
        BY <1>1, <4>1
      <4> QED
        BY <1>1, <1>4, <3>1, <3>2, <4>2, <4>3 DEF Agree
    <3> QED
      BY <1>1, <2>2, <3>1, <3>2 DEF WholeInv, Written, Replaced
  <2> QED
    BY <1>1, <2>1, <2>2
<1>8. LoraInv'
  BY <1>1 DEF AgreeInv, LoraInv, Working
<1> QED
  BY <1>5, <1>6, <1>7, <1>8 DEF AgreeInv

\* The next attempt starts.
LEMMA CaptureAgrees ==
    ASSUME TypeInv, AgreeInv, Capture
    PROVE  AgreeInv'
<1>1. /\ pc = "capture" /\ SamePlan /\ job'.todo = job.todo
      /\ job'.hidden = job.hidden
      /\ UNCHANGED <<device, deviceLora, channels, ref, lora, stale, edited, renamed>>
      /\ pc' = "failed" \/ pc' = StepPlace(job')
  BY CaptureDoes DEF deviceVars, cacheVars, editVars
<1>2. Replacing /\ (Replacing)'
  BY <1>1 DEF TypeInv, JobTypes, Replacing, SamePlan
<1>3. pc' \in {"failed", "keep", "check", "send"} /\ (pc' = "keep" => job'.todo = {})
  BY <1>1, StepPlaces
<1> USE DEF Replacing, SamePlan
<1>4. CacheInv'
  BY <1>1, <1>2, <1>3 DEF AgreeInv, CacheInv, Committed, Written, Agree
<1>5. WrittenInv' /\ WriteInv' /\ PartlyInv'
  BY <1>2, <1>3 DEF WrittenInv, WriteInv, PartlyInv, Partly
<1>6. WholeInv'
  BY <1>1, <1>2, <1>3 DEF AgreeInv, WholeInv, Working, Written, Agree, Replaced
<1>7. LoraInv'
  BY <1>1, <1>2, <1>3 DEF AgreeInv, LoraInv, Working
<1> QED
  BY <1>4, <1>5, <1>6, <1>7 DEF AgreeInv

\* A transaction ends with a list that agrees, or with none.
LEMMA EndAgrees ==
    ASSUME TypeInv, AgreeInv, ReplaceEnds \/ Commit \/ Failure \/ ResumeFails
    PROVE  AgreeInv'
<1>1. /\ job' = job /\ UNCHANGED <<device, deviceLora, ref, stale, renamed>>
      /\ pc' \in {"idle", "resume"}
  BY EndDoes DEF deviceVars
<1>2. WrittenInv' /\ WriteInv' /\ PartlyInv'
  BY <1>1 DEF WrittenInv, WriteInv, PartlyInv, Partly
<1>3. WholeInv'
  <2>1. pc' # "idle" /\ Replacing => pc # "idle"
    BY EndDoes
  <2> QED
    BY <1>1, <2>1 DEF AgreeInv, WholeInv, Working, Replaced, Replacing
<1>4. LoraInv'
  <2>1. lora' \in {lora, "unset"} \/ (Commit /\ job.kind = "add" /\ UrlLora /\ pc = "keep")
    BY EndDoes
  <2>2. (Commit /\ job.kind = "add" /\ pc = "keep") => job.todo = {}
    BY DEF TypeInv, JobTypes, Replacing
  <2> QED
    BY <1>1, <2>1, <2>2 DEF AgreeInv, LoraInv, Working
<1>5. CacheInv'
  <2>1. CASE ReplaceEnds
    <3>1. pc = "keep" /\ Replacing /\ job.todo = {} /\ UNCHANGED <<channels, edited>>
      BY <2>1 DEF ReplaceEnds, cacheVars, editVars
    <3> QED
      BY <1>1, <3>1 DEF AgreeInv, CacheInv, Committed, Written, Agree
  <2>2. CASE channels' = NoList
    BY <2>2 DEF CacheInv
  <2>3. CASE /\ job.kind = "write" /\ channels' = channels /\ edited' = edited
    BY <1>1, <2>3 DEF AgreeInv, CacheInv, Committed, Written, Agree, Replacing
  <2>4. CASE /\ Commit /\ pc = "keep" /\ ~Replacing /\ job.kind # "write" /\ channels' = job.staged
             /\ Commits
             /\ edited' = IF channels' = channels THEN edited
                          ELSE {s \in edited : job.staged[s] = job.base[s]}
    <3>1. job.todo = {} /\ job.kind \in {"delete", "add"}
      BY <2>4 DEF TypeInv, JobTypes, Jobs, Kinds, Replacing
    <3>2. channels # NoList /\ channels = job.base
      BY <2>4 DEF Commits
    <3>3. ASSUME NEW s \in Slots, s \notin edited' PROVE Rewrites(s) \/ s \notin edited
      BY <2>4, <3>3 DEF Rewrites
    <3>4. ASSUME ~stale, NEW s \in Slots PROVE Agree(edited, s, channels[s], device[s])'
      <4>1. /\ Rewrites(s) => device[s] = job.staged[s]
            /\ ~Rewrites(s) /\ s \notin edited => channels[s] = device[s]
            /\ ~renamed => (job.staged[s] = "admin" <=> device[s] = "admin")
        BY <2>4, <3>1, <3>2, <3>4 DEF AgreeInv, PartlyInv, Partly, There
      <4>2. ~Rewrites(s) => job.staged[s] = channels[s]
        BY <3>2 DEF Rewrites
      <4> QED
        BY <1>1, <2>4, <3>3, <4>1, <4>2 DEF Agree
    <3> QED
      BY <1>1, <3>4 DEF CacheInv
  <2> QED
    BY <2>1, <2>2, <2>3, <2>4, EndDoes
<1> QED
  BY <1>2, <1>3, <1>4, <1>5 DEF AgreeInv

\* What a plan leaves alone agrees with the cached list that it was made from.
LEMMA CallAgrees ==
    ASSUME TypeInv, AgreeInv, Calls
    PROVE  AgreeInv'
<1>1. /\ pc = "idle" /\ UNCHANGED <<device, deviceLora, channels, ref, lora, stale, edited, renamed>>
  BY CallDoes DEF deviceVars, cacheVars, editVars
<1>2. ASSUME channels # NoList, ~stale, NEW s \in Slots PROVE Agree(edited, s, channels[s], device[s])
  BY <1>1, <1>2 DEF AgreeInv, CacheInv, Committed, Written
<1>3. lora' = "new" => deviceLora' = "new"
  BY <1>1 DEF AgreeInv, LoraInv
<1>4. CASE Idle
  BY <1>1, <1>4 DEF Idle, AgreeInv, WrittenInv, CacheInv, Committed, Written, WriteInv,
                    PartlyInv, Partly, WholeInv, Working, LoraInv, Agree
<1>5. ASSUME NEW p, Begun(p)
      PROVE  /\ job' = p /\ channels # NoList /\ pc' \in {"keep", "check", "send"}
             /\ pc' = "keep" => p.todo = {}
             /\ p.kind # "replace" => pc' # "check"
  BY <1>5, StepPlaces DEF Begun
<1> USE DEF AgreeInv, Replacing
<1>6. ASSUME NEW s \in Slots, Begun(WritePlan(s)) PROVE AgreeInv'
  <2>1. job'.kind = "write" /\ job'.staged = channels
    BY <1>5, <1>6, WriteIsJob DEF TypeInv
  <2>2. CacheInv' /\ WriteInv'
    BY <1>1, <1>2, <1>5, <1>6, <2>1 DEF CacheInv, WriteInv, Agree
  <2> QED
    BY <1>3, <2>1, <2>2 DEF WrittenInv, PartlyInv, Partly, WholeInv, LoraInv
<1>7. ASSUME NEW p, Begun(p), p.kind \in {"delete", "add"}, p.base = channels,
             \A s \in Slots : s \in p.todo <=> p.staged[s] # channels[s],
             p.kind = "add" /\ UrlLora => Lora \in p.todo
      PROVE  AgreeInv'
  <2>1. job' = p /\ pc' \in {"keep", "send"}
    BY <1>5, <1>7
  <2>2. PartlyInv'
    <3>1. ASSUME NEW s \in Slots PROVE s \in job'.todo <=> Rewrites(s)'
      BY <1>7, <2>1 DEF Rewrites
    <3>2. ASSUME ~stale', NEW s \in Slots
          PROVE  /\ There(s)' = channels[s]
                 /\ s \notin edited' => channels'[s] = device'[s]
                 /\ ~renamed' => (channels[s] = "admin" <=> device'[s] = "admin")
      BY <1>1, <1>2, <1>5, <1>7, <2>1, <3>2 DEF There, Agree
    <3> QED
      BY <3>1, <3>2 DEF PartlyInv
  <2> QED
    BY <1>3, <1>7, <2>1, <2>2 DEF WrittenInv, CacheInv, Committed, WriteInv, WholeInv, LoraInv
<1>8. ASSUME NEW d \in Slots \ {0}, Begun(DeletePlan(d)) PROVE AgreeInv'
  <2> DEFINE p == DeletePlan(d)
  <2>1. /\ p.kind = "delete" /\ p.base = channels /\ p.staged = Without(channels, d)
        /\ p.todo = {s \in Slots : s >= d /\ p.staged[s] # channels[s]}
    BY <1>5, <1>8, DeleteIsJob DEF TypeInv
  <2>2. \A s \in Slots : ~(s >= d) => p.staged[s] = channels[s]
    BY <2>1, TransactionAssumption DEF Without, Slots
  <2> QED
    BY <1>7, <1>8, <2>1, <2>2
<1>9. ASSUME Begun(AddPlan) PROVE AgreeInv'
  <2>1. Lora \notin Slots
    BY Tabled
  <2> QED
    BY <1>5, <1>7, <1>9, <2>1, AddIsJob DEF TypeInv, LoraItem
<1>10. ASSUME Begun(ReplacePlan) PROVE AgreeInv'
  <2>1. job'.kind = "replace" /\ job'.staged = Replaced /\ job'.todo = Slots \cup LoraItem
    BY <1>5, <1>10, ReplaceIsJob DEF TypeInv
  <2>2. 0 \in Slots
    BY TransactionAssumption DEF Slots
  <2>3. pc' \in {"check", "send"}
    BY <1>5, <1>10, <2>1, <2>2
  <2>4. CacheInv'
    BY <1>1, <1>2 DEF CacheInv, Agree
  <2>5. UrlLora => Lora \in job'.todo
    BY <2>1 DEF LoraItem
  <2> QED
    BY <1>3, <2>1, <2>3, <2>4, <2>5 DEF WrittenInv, WriteInv, PartlyInv, Partly, WholeInv, Written,
                                       LoraInv, Replaced
<1> QED
  BY <1>4, <1>6, <1>8, <1>9, <1>10, CallDoes

LEMMA AgreeStep == TypeInv /\ AgreeInv /\ [Next]_vars => AgreeInv'
<1>1. ASSUME TypeInv, AgreeInv, Send PROVE AgreeInv'
  BY <1>1, OtherSendAgrees, ReplaceSlotAgrees, ReplaceLoraAgrees
<1>2. ASSUME AgreeInv, UNCHANGED vars PROVE AgreeInv'
  BY <1>2 DEF vars, deviceVars, cacheVars, editVars, AgreeInv, WrittenInv, CacheInv, Committed,
              Written, WriteInv, PartlyInv, Partly, Rewrites, There, WholeInv, Working, LoraInv,
              Agree, Replacing, Replaced
<1> QED
  BY <1>1, <1>2, CallAgrees, EnvironmentAgrees, CheckAgrees, SendFailsAgrees, KeepSlotAgrees,
     ComputeAgrees, CaptureAgrees, EndAgrees DEF Next, Transaction

\* Between transactions the cached list says what the device has, in every slot the
\* application has not edited, whatever was written, lost, half done or reloaded, for any
\* tables, URL and number of attempts.
THEOREM CacheAgrees == Spec => []CacheMatchesDevice
<1>1. TypeInv /\ AgreeInv => CacheMatchesDevice
  BY DEF AgreeInv, CacheInv, Committed, Written, Agree, CacheMatchesDevice
<1> QED
  BY <1>1, InitTypes, TypeStep, InitAgrees, AgreeStep, PTL DEF Spec

\* What holds when a transaction ends with success.
Whole == (Replacing /\ pc # "idle" /\ pc' = "idle" /\ result' = "ok" /\ ~stale) =>
    /\ \A s \in Slots \ job'.hidden : device[s] = Replaced[s]
    /\ UrlLora => deviceLora = "new"

LEMMA WholeStep == TypeInv /\ AgreeInv /\ [Next]_vars => Whole
<1> SUFFICES ASSUME TypeInv, AgreeInv, [Next]_vars, Replacing, pc # "idle", pc' = "idle",
                    result' = "ok", ~stale
             PROVE  /\ \A s \in Slots \ job'.hidden : device[s] = Replaced[s]
                    /\ UrlLora => deviceLora = "new"
  BY DEF Whole
<1>1. job.staged = Replaced
  BY DEF AgreeInv, WholeInv
<1>3. CASE pc = "keep" /\ job.todo = {} /\ job' = job
  BY <1>1, <1>3 DEF AgreeInv, WholeInv, Agree, LoraInv, Working, Replacing
<1>4. CASE Compute
  <2>1. /\ pc = "resume" /\ channels # NoList /\ Remaining = {} /\ ~(UrlLora /\ lora # "new")
        /\ job'.hidden = edited \ Remaining
    BY <1>4, ComputeDoes
  <2>2. ASSUME NEW s \in Slots \ job'.hidden PROVE device[s] = Replaced[s]
    <3>1. channels[s] = Replaced[s] /\ s \notin edited
      BY <1>1, <2>1, <2>2 DEF Remaining
    <3>2. Agree(edited, s, channels[s], device[s])
      BY <2>1, <2>2 DEF AgreeInv, CacheInv, Committed, Written
    <3> QED
      BY <3>1, <3>2 DEF Agree
  <2> QED
    BY <2>1, <2>2 DEF AgreeInv, LoraInv
<1>5. pc' = StepPlace(job') => pc' # "idle"
  BY StepPlaces
<1>6. CASE Transaction
  BY <1>3, <1>4, <1>5, <1>6, CheckDoes, SendDoes, SendFailsDoes, KeepSlotDoes, CaptureDoes, EndDoes
     DEF Transaction
<1>7. CASE Environment \/ Calls \/ UNCHANGED vars
  BY <1>7, EnvironmentDoes, CallDoes DEF vars
<1> QED
  BY <1>6, <1>7 DEF Next

\* setURL returns from a replacement only when the device has all of it, however many attempts,
\* lost writes and reloads it took.
THEOREM ReplacementSucceedsWhole == Spec => ReplacementIsWhole
<1>1. TypeInv /\ AgreeInv /\ [Next]_vars => TypeInv' /\ AgreeInv' /\ [Whole]_vars
  BY TypeStep, AgreeStep, WholeStep
<1> QED
  BY <1>1, InitTypes, InitAgrees, PTL DEF Spec, ReplacementIsWhole, Whole

----------------------------------------------------------------------------
(* The admin channel.                                                      *)

HasAdmin == \E s \in Slots : device[s] = "admin"

\* The cached list can be trusted to name the device's admin channel.
Named == ~stale /\ ~renamed

\* A single write goes through the first admin channel of the cached list, which is there.
SingleInv == (job.kind = "write" /\ pc = "send") =>
    /\ \A r, s \in job.todo : r = s
    /\ channels # NoList

\* A deletion writes the slots that change in order, first through the admin channel as it was
\* and, once its slot has been written, through the one it has become.
Rewritten(d) == {s \in Slots : s >= d /\ job.staged[s] # job.base[s]}
Deletes(d) ==
    /\ job.staged = Without(job.base, d)
    /\ job.before = AdminIndex(job.base)
    /\ job.before >= d => job.after = AdminIndex(job.staged)
    /\ job.todo \subseteq Rewritten(d)
    /\ \A s \in job.todo, r \in Rewritten(d) : s < r => r \in job.todo
    /\ job.via = IF job.before \in Rewritten(d) \ job.todo THEN job.after ELSE job.before
    /\ job.next = NoList /\ job.last = NoList
DeleteInv == (job.kind = "delete" /\ pc = "send") => \E d \in Slots : Deletes(d)

\* An addition leaves an admin channel alone, and writes a first one last.
AddInv == (job.kind = "add" /\ pc = "send") =>
    /\ job.last = NoList /\ job.via = AdminIndex(job.base)
    /\ \A s \in Slots : job.base[s] = "admin" => job.staged[s] = "admin" /\ s \notin job.todo
    /\ (\A s \in Slots : job.base[s] # "admin") =>
         \A s \in Slots : job.staged[s] = "admin" => s \in job.todo /\ s = job.next

\* A replacement reaches the device through the previous admin channel or the new one.  An
\* admin channel in another slot comes after the previous one.
Reaches == HasAdmin => device[job.via] = "admin" /\ job.via \in {job.next, job.last}
Previous == IF job.last # NoList THEN job.last ELSE job.next
OrderedAdmins == \A s \in Slots : (device[s] = "admin" /\ s \notin {job.next, job.last}) =>
    /\ Previous \in Slots /\ device[Previous] = "admin"
    /\ \A r \in Slots : device[r] = "admin" => Previous <= r
ReplaceInv == (Replacing /\ pc # "idle") =>
    /\ job.next = NamedAdmin(Replaced)
    /\ job.last = job.next => job.last = NoList
    /\ Named =>
         /\ OrderedAdmins
         /\ pc \in {"capture", "send"} => Reaches
         /\ pc = "check" => Reaches \/ (Current(job) = job.last /\ job.next # NoList)
         /\ (pc = "keep" /\ job.todo # {}) => Reaches \/ Current(job) \in {job.next, job.last}

AdminInv == SingleInv /\ DeleteInv /\ AddInv /\ ReplaceInv

\* The n-th new channel has one free slot to go to.
LEMMA BeforeIsOne ==
    ASSUME NEW S, S \subseteq Nat, IsFiniteSet(S), NEW x \in S, NEW y \in S,
           Before(S, x) = Before(S, y)
    PROVE  x = y
<1>1. ASSUME NEW u \in S, NEW v \in S, u < v PROVE Before(S, u) # Before(S, v)
  <2> DEFINE U == {z \in S : z < u}
             V == {z \in S : z < v}
  <2>1. u \in Nat /\ v \in Nat /\ ~(u < u) /\ \A z \in Nat : z < u => z < v
    BY <1>1
  <2>5. U \subseteq V
    BY <2>1
  <2>4. U \subseteq V /\ u \in V /\ u \notin U /\ V \subseteq S
    BY <1>1, <2>1, <2>5
  <2>2. IsFiniteSet(V)
    BY <2>4, FS_Subset
  <2>3. Cardinality(U) # Cardinality(V)
    BY <2>2, <2>4, FS_Subset
  <2> QED
    BY <2>3 DEF Before
<1>2. x \in Nat /\ y \in Nat
  OBVIOUS
<1> QED
  BY <1>1, <1>2

\* A replacement has at most one admin channel, an addition brings at most one.
LEMMA ReplacedAdmin ==
    \A s \in Slots : Replaced[s] = "admin" <=> s = NamedAdmin(Replaced)
<1>1. Replaced \in Tables
  BY TransactionAssumption, PlansAreTables
<1>2. ASSUME NEW r \in Slots, NEW s \in Slots, Replaced[r] = "admin", Replaced[s] = "admin"
      PROVE  r = s
  <2>1. r < Len(Url) /\ s < Len(Url) /\ Url[r + 1] = "admin" /\ Url[s + 1] = "admin"
    BY <1>2 DEF Replaced
  <2>2. r + 1 \in 1..Len(Url) /\ s + 1 \in 1..Len(Url)
    BY <2>1, TransactionAssumption DEF Slots
  <2>3. r + 1 = s + 1
    BY <2>1, <2>2, TransactionAssumption
  <2> QED
    BY <2>3 DEF Slots
<1>3. NoList \notin Slots
  BY TransactionAssumption DEF Items
<1> QED
  BY <1>1, <1>2, <1>3, AdminFound

LEMMA AddedAdmin ==
    ASSUME NEW tb \in Tables
    PROVE  /\ \A s \in Slots : tb[s] = "admin" => Extended(tb)[s] = "admin"
           /\ (\A s \in Slots : tb[s] # "admin") =>
                \A r, s \in Slots : Extended(tb)[r] = "admin" /\ Extended(tb)[s] = "admin" => r = s
<1>1. \A s \in Slots : s \notin Free(tb) => Extended(tb)[s] = tb[s]
  BY DEF Extended
<1>2. \A s \in Slots : tb[s] = "admin" => s \notin Free(tb)
  BY DEF Free
<1>3. ASSUME \A s \in Slots : tb[s] # "admin",
             NEW r \in Slots, NEW s \in Slots,
             Extended(tb)[r] = "admin", Extended(tb)[s] = "admin"
      PROVE  r = s
  <2> DEFINE k(i) == CHOOSE n \in Added(tb, i) : TRUE
  <2>1. ASSUME NEW i \in Slots, Extended(tb)[i] = "admin"
        PROVE  /\ i \in Free(tb) /\ k(i) \in 1..Len(Url) /\ Url[k(i)] = "admin"
               /\ Before(Additions(tb), k(i)) = Before(Free(tb), i)
    <3>1. i \in Free(tb) /\ Added(tb, i) # {} /\ Url[k(i)] = "admin"
      BY <1>3, <2>1 DEF Extended
    <3>2. k(i) \in Added(tb, i)
      BY <3>1
    <3> QED
      BY <3>1, <3>2 DEF Added, Additions
  <2>2. k(r) = k(s)
    BY <1>3, <2>1, TransactionAssumption
  <2>3. r \in Free(tb) /\ s \in Free(tb) /\ Before(Free(tb), r) = Before(Free(tb), s)
    BY <1>3, <2>1, <2>2
  <2>4. Free(tb) \subseteq Slots /\ Slots \subseteq Nat
    BY DEF Free, Slots
  <2>5. IsFiniteSet(Free(tb))
    <3>1. IsFiniteSet(Slots)
      BY TransactionAssumption, FS_Interval DEF Slots
    <3> QED
      BY <2>4, <3>1, FS_Subset
  <2> HIDE DEF k
  <2> QED
    BY <2>3, <2>4, <2>5, BeforeIsOne
<1> QED
  BY <1>1, <1>2, <1>3

\* What a plan begins with.
LEMMA PlannedAdmin ==
    ASSUME TypeInv, AgreeInv, pc = "idle", channels # NoList, Named, HasAdmin
    PROVE  /\ NamedAdmin(channels) = AdminIndex(channels) /\ AdminIndex(channels) \in Slots
           /\ device[AdminIndex(channels)] = "admin"
           /\ \A s \in Slots : device[s] = "admin" => AdminIndex(channels) <= s
<1>1. \A s \in Slots : channels[s] = "admin" <=> device[s] = "admin"
  BY DEF AgreeInv, CacheInv, Committed, Written, Agree, Named
<1>2. channels \in Tables
  BY Tabled
<1> QED
  BY <1>1, <1>2, AdminFound DEF HasAdmin

LEMMA InitAdmins == Init => AdminInv
BY DEF Init, AdminInv, SingleInv, DeleteInv, AddInv, ReplaceInv

LEMMA CallAdmins ==
    ASSUME TypeInv, AgreeInv, AdminInv, Calls
    PROVE  AdminInv'
<1>1. pc = "idle" /\ UNCHANGED <<device, channels, stale, renamed>>
  BY CallDoes DEF deviceVars, cacheVars, editVars
<1> USE DEF AdminInv, Replacing
<1>2. CASE Idle
  BY <1>1, <1>2 DEF Idle, SingleInv, DeleteInv, AddInv, ReplaceInv
<1>3. ASSUME NEW p, Begun(p)
      PROVE  job' = p /\ channels # NoList /\ channels \in Tables /\ pc' \in {"keep", "check", "send"}
  BY <1>3, StepPlaces, Tabled DEF Begun
<1>4. ASSUME NEW s \in Slots, Begun(WritePlan(s)) PROVE AdminInv'
  <2>1. job'.kind = "write" /\ job'.todo = {s}
    BY <1>3, <1>4, WriteIsJob DEF TypeInv
  <2>2. SingleInv'
    BY <1>1, <1>3, <1>4, <2>1 DEF SingleInv
  <2> QED
    BY <2>1, <2>2 DEF DeleteInv, AddInv, ReplaceInv
<1>5. ASSUME NEW d \in Slots \ {0}, Begun(DeletePlan(d)) PROVE AdminInv'
  <2> DEFINE staged == Without(channels, d)
  <2>1. /\ job'.kind = "delete" /\ job'.base = channels /\ job'.staged = staged
        /\ job'.todo = {s \in Slots : s >= d /\ staged[s] # channels[s]}
        /\ job'.via = AdminIndex(channels) /\ job'.before = AdminIndex(channels)
        /\ job'.after = (IF AdminIndex(channels) >= d THEN AdminIndex(staged)
                                                      ELSE AdminIndex(channels))
        /\ job'.next = NoList /\ job'.last = NoList
    BY <1>3, <1>5, DeleteIsJob DEF TypeInv
  <2> HIDE DEF staged
  <2>2. Rewritten(d)' = job'.todo
    BY <2>1 DEF Rewritten
  <2>3. Deletes(d)'
    BY <2>1, <2>2 DEF Deletes, staged
  <2> QED
    BY <2>1, <2>3 DEF SingleInv, DeleteInv, AddInv, ReplaceInv
<1>6. ASSUME Begun(AddPlan) PROVE AdminInv'
  <2> DEFINE staged == Extended(channels)
  <2>1. /\ job'.kind = "add" /\ job'.base = channels /\ job'.staged = staged
        /\ job'.todo = {s \in Slots : staged[s] # channels[s]} \cup LoraItem
        /\ job'.via = AdminIndex(channels)
        /\ job'.next = (IF NamedAdmin(channels) = NoList THEN NamedAdmin(staged) ELSE NoList)
        /\ job'.last = NoList
    BY <1>3, <1>6, AddIsJob DEF TypeInv
  <2>2. staged \in Tables /\ channels \in Tables
    BY <1>3, <1>6, PlansAreTables
  <2>3. \A s \in Slots : s \in job'.todo <=> staged[s] # channels[s]
    <3>1. \A s \in Slots : s \notin LoraItem
      BY Tabled DEF LoraItem
    <3> QED
      BY <2>1, <3>1
  <2>4. \A s \in Slots : channels[s] = "admin" => staged[s] = "admin" /\ s \notin job'.todo
    BY <2>2, <2>3, AddedAdmin
  <2>5. ASSUME \A s \in Slots : channels[s] # "admin", NEW s \in Slots, staged[s] = "admin"
        PROVE  s \in job'.todo /\ s = job'.next
    <3>1. NamedAdmin(channels) = NoList
      BY <2>2, <2>5, AdminFound
    <3>2. NamedAdmin(staged) \in Slots /\ staged[NamedAdmin(staged)] = "admin"
      BY <2>2, <2>5, AdminFound
    <3>3. s = NamedAdmin(staged)
      BY <2>2, <2>5, <3>2, AddedAdmin
    <3> QED
      BY <2>1, <2>3, <2>5, <3>1, <3>3
  <2> HIDE DEF staged
  <2>6. AddInv'
    BY <2>1, <2>4, <2>5 DEF AddInv
  <2> QED
    BY <2>1, <2>6 DEF SingleInv, DeleteInv, ReplaceInv
<1>7. ASSUME Begun(ReplacePlan) PROVE AdminInv'
  <2>1. /\ job'.kind = "replace" /\ job'.next = NamedAdmin(Replaced)
        /\ job'.via = AdminIndex(channels)
        /\ job'.last = (IF NamedAdmin(channels) = NamedAdmin(Replaced)
                          THEN NoList ELSE NamedAdmin(channels))
        /\ job'.todo = Slots \cup LoraItem
    BY <1>3, <1>7, ReplaceIsJob DEF TypeInv
  <2>2. pc' # "keep"
    <3>1. 0 \in job'.todo
      BY <2>1, TransactionAssumption DEF Slots
    <3> QED
      BY <1>3, <1>7, <3>1, StepPlaces DEF Begun
  <2>3. NoList \notin Slots
    BY TransactionAssumption DEF Items
  <2>4. ASSUME Named, HasAdmin
        PROVE  /\ NamedAdmin(channels) = AdminIndex(channels) /\ AdminIndex(channels) \in Slots
               /\ device[AdminIndex(channels)] = "admin"
               /\ \A s \in Slots : device[s] = "admin" => AdminIndex(channels) <= s
    BY <1>1, <1>3, <1>7, <2>4, PlannedAdmin
  <2>5. ASSUME Named PROVE OrderedAdmins'
    <3>1. ASSUME HasAdmin PROVE Previous' = AdminIndex(channels)
      BY <2>1, <2>3, <2>4, <2>5, <3>1 DEF Previous
    <3> QED
      BY <1>1, <2>4, <2>5, <3>1 DEF OrderedAdmins, HasAdmin
  <2>6. ASSUME Named PROVE Reaches'
    BY <1>1, <2>1, <2>3, <2>4, <2>6 DEF Reaches, HasAdmin
  <2>7. ReplaceInv'
    BY <1>1, <2>1, <2>2, <2>5, <2>6 DEF ReplaceInv, Named
  <2> QED
    BY <2>1, <2>7 DEF SingleInv, DeleteInv, AddInv
<1> QED
  BY <1>2, <1>4, <1>5, <1>6, <1>7, CallDoes

LEMMA EnvironmentAdmins ==
    ASSUME TypeInv, AdminInv, Environment
    PROVE  AdminInv'
<1>1. UNCHANGED <<device, pc, job>> /\ ((Named' => Named) \/ pc = "idle")
  <2>1. \/ pc = "idle"
        \/ (stale => stale') /\ (renamed => renamed')
    BY EnvironmentDoes, Zenon DEF editVars, Edited
  <2> QED
    BY <2>1, EnvironmentDoes DEF deviceVars, Named
<1> USE DEF AdminInv, HasAdmin, Replacing
<1>2. SingleInv'
  <2>1. channels # NoList => channels' # NoList
    BY EnvironmentDoes, TransactionAssumption DEF cacheVars
  <2> QED
    BY <1>1, <2>1 DEF SingleInv
<1>3. DeleteInv'
  BY <1>1 DEF DeleteInv, Deletes, Rewritten
<1>4. AddInv'
  BY <1>1 DEF AddInv
<1>5. ReplaceInv'
  BY <1>1 DEF ReplaceInv, OrderedAdmins, Previous, Reaches, Replaced
<1> QED
  BY <1>2, <1>3, <1>4, <1>5

\* The deferred slots are the last.
LEMMA DeferredIsLast ==
    ASSUME TypeInv, NEW j \in Jobs, j.todo # {}, j.last = j.next => j.last = NoList
    PROVE  /\ Current(j) = j.last => j.todo = {j.last}
           /\ Current(j) = j.next => j.todo \subseteq {j.next, j.last}
           /\ Current(j) \in {j.next, j.last} => \A s \in Items : s \in j.todo => s \in {j.next, j.last}
<1>1. j.todo \subseteq Items /\ NoList \notin Items
  BY TransactionAssumption DEF Jobs
<1>2. Current(j) \in j.todo /\ \A k \in j.todo : Place(j, Current(j)) <= Place(j, k)
  BY <1>1, CurrentIsFirst
<1>3. \A k \in Items : k \in Nat /\ k <= Lora
  BY TransactionAssumption DEF Items, Slots, Lora
<1>4. ASSUME NEW k \in Items
      PROVE  /\ k = j.last => Place(j, k) = Lora + 2
             /\ (k # j.last /\ k = j.next) => Place(j, k) = Lora + 1
             /\ (k # j.last /\ k # j.next) => Place(j, k) = k
  <2>1. k = j.last => k # j.next
    BY <1>1, <1>4
  <2>2. CASE k = j.last
    BY <2>1, <2>2, Zenon DEF Place
  <2>3. CASE k # j.last /\ k = j.next
    BY <2>3, Zenon DEF Place
  <2>4. CASE k # j.last /\ k # j.next
    BY <2>4, Zenon DEF Place
  <2> QED
    BY <2>1, <2>2, <2>3, <2>4
<1>5. Lora \in Nat
  BY TransactionAssumption DEF Lora
<1>6. ASSUME Current(j) = j.last, NEW k \in j.todo PROVE k = j.last
  BY <1>1, <1>2, <1>3, <1>4, <1>5, <1>6
<1>7. ASSUME Current(j) = j.next, NEW k \in j.todo PROVE k \in {j.next, j.last}
  <2>1. j.next # j.last
    BY <1>1, <1>2, <1>7
  <2> QED
    BY <1>1, <1>2, <1>3, <1>4, <1>5, <1>7, <2>1
<1> QED
  BY <1>2, <1>6, <1>7

LEMMA CheckAdmins ==
    ASSUME TypeInv, AgreeInv, AdminInv, Check
    PROVE  AdminInv'
<1> DEFINE item == Current(job)
<1>1. pc = "check" /\ Replacing /\ job \in Jobs /\ job.todo # {}
  BY CheckDoes DEF TypeInv, JobTypes
<1>2. /\ SamePlan /\ job'.todo = job.todo /\ UNCHANGED <<device, stale, renamed>>
      /\ \/ /\ pc' = "send" /\ channels # NoList
            /\ job'.via = IF item = job.last /\ job.next # NoList
                            THEN AdminIndex(channels) ELSE job.via
         \/ pc' = "failed"
  BY CheckDoes DEF deviceVars, editVars
<1> HIDE DEF item
<1>3. SingleInv' /\ DeleteInv' /\ AddInv'
  BY <1>1, <1>2 DEF SingleInv, DeleteInv, AddInv, SamePlan, Replacing
<1>4. /\ job.next = NamedAdmin(Replaced)
      /\ job.last = job.next => job.last = NoList
      /\ Named => OrderedAdmins /\ (Reaches \/ (item = job.last /\ job.next # NoList))
  BY <1>1 DEF AdminInv, ReplaceInv, item
<1>5. Named => OrderedAdmins'
  BY <1>2, <1>4 DEF OrderedAdmins, Previous, SamePlan
<1>6. ASSUME Named, pc' = "send" PROVE Reaches'
  <2>1. CASE item = job.last /\ job.next # NoList
    <3>1. job'.via = AdminIndex(channels) /\ channels # NoList
      BY <1>2, <1>6, <2>1
    <3>2. \A s \in Slots : channels[s] = "admin" <=> device[s] = "admin"
      BY <1>1, <1>6, <3>1 DEF AgreeInv, CacheInv, Committed, Written, Agree, Named
    <3>3. ASSUME HasAdmin
          PROVE  device[AdminIndex(channels)] = "admin" /\ AdminIndex(channels) \in Slots
      BY <3>1, <3>2, <3>3, Tabled, AdminFound DEF HasAdmin
    <3>4. job.todo = {job.last}
      BY <1>1, <1>4, <2>1, DeferredIsLast DEF item
    <3>5. \A s \in Slots : s # job.last => (device[s] = "admin" <=> Replaced[s] = "admin")
      BY <1>1, <1>6, <3>4 DEF AgreeInv, WholeInv, Working, Agree, Named
    <3>6. HasAdmin => AdminIndex(channels) \in {job.next, job.last}
      BY <1>4, <3>3, <3>5, ReplacedAdmin
    <3> QED
      BY <1>2, <3>1, <3>3, <3>6 DEF Reaches, HasAdmin, SamePlan
  <2>2. CASE ~(item = job.last /\ job.next # NoList)
    BY <1>2, <1>4, <1>6, <2>2 DEF Reaches, HasAdmin, SamePlan
  <2> QED
    BY <2>1, <2>2
<1>7. ReplaceInv'
  BY <1>2, <1>4, <1>5, <1>6 DEF ReplaceInv, SamePlan, Replaced, Named
<1> QED
  BY <1>3, <1>7 DEF AdminInv

\* A write never makes the cached list trusted again.
LEMMA NamedStays ==
    ASSUME TypeInv, Send \/ SendFails
    PROVE  Named' => Named
<1>1. stale' = (stale \/ Overtaken) /\ UNCHANGED editVars
  BY SendDoes, SendFailsDoes
<1>2. stale => stale'
  BY <1>1, Zenon
<1>3. renamed' = renamed
  BY <1>1 DEF editVars
<1> QED
  BY <1>2, <1>3 DEF Named

\* A single write is sent.
LEMMA SingleSendAdmins ==
    ASSUME TypeInv, AdminInv, Send, job.kind = "write"
    PROVE  AdminInv'
<1>1. /\ pc = "send" /\ SamePlan /\ job'.todo = job.todo \ {Current(job)}
      /\ pc' = StepPlace(job')
  BY SendDoes DEF Replacing
<1>2. job.todo # {} /\ Current(job) \in job.todo
  BY <1>1, CurrentIsItem DEF TypeInv, JobTypes
<1>3. job'.todo = {}
  BY <1>1, <1>2 DEF AdminInv, SingleInv
<1>4. pc' = "keep"
  BY <1>1, <1>3, StepPlaces
<1> QED
  BY <1>1, <1>4 DEF AdminInv, SingleInv, DeleteInv, AddInv, ReplaceInv, Replacing, SamePlan

\* A deletion goes on with the next slot, perhaps through the admin channel's new slot.
LEMMA DeleteSendAdmins ==
    ASSUME TypeInv, AdminInv, Send, job.kind = "delete"
    PROVE  AdminInv'
<1> DEFINE item == Current(job)
<1>1. /\ pc = "send" /\ SamePlan /\ SameBase /\ job'.todo = job.todo \ {item}
      /\ job'.via = IF item = job.before THEN job.after ELSE job.via
  BY SendDoes DEF Replacing
<1>2. item \in job.todo /\ \A k \in job.todo : Place(job, item) <= Place(job, k)
  BY <1>1, CurrentIsItem DEF TypeInv, JobTypes
<1>3. PICK d \in Slots : Deletes(d)
  BY <1>1 DEF AdminInv, DeleteInv
<1> HIDE DEF item
<1>4. \A k \in job.todo : item <= k
  <2>1. \A k \in job.todo : Place(job, k) = k
    BY <1>3, TransactionAssumption DEF Deletes, Rewritten, Place, Items
  <2> QED
    BY <1>2, <2>1
<1>5. Rewritten(d)' = Rewritten(d)
  BY <1>1 DEF Rewritten, SamePlan, SameBase
<1>6. job'.todo \subseteq Rewritten(d)
  BY <1>1, <1>3 DEF Deletes
<1>7. ASSUME NEW s \in job'.todo, NEW r \in Rewritten(d), s < r PROVE r \in job'.todo
  <2>1. s \in job.todo /\ r \in job.todo
    BY <1>1, <1>3, <1>7 DEF Deletes
  <2>2. s \in Nat /\ r \in Nat /\ item \in Nat
    BY <1>2, <1>3, <2>1 DEF Deletes, Rewritten, Slots
  <2>3. item # r
    BY <1>4, <1>7, <2>1, <2>2
  <2> QED
    BY <1>1, <2>1, <2>3
<1>8. job'.via = IF job.before \in Rewritten(d) \ job'.todo THEN job.after ELSE job.before
  BY <1>1, <1>2, <1>3 DEF Deletes
<1>9. Deletes(d)'
  BY <1>1, <1>3, <1>5, <1>6, <1>7, <1>8 DEF Deletes, SamePlan, SameBase
<1>10. DeleteInv'
  BY <1>9 DEF DeleteInv
<1> QED
  BY <1>1, <1>10 DEF AdminInv, SingleInv, AddInv, ReplaceInv, Replacing, SamePlan

\* An addition goes on: the first admin channel is the last to be written.
LEMMA AddSendAdmins ==
    ASSUME TypeInv, AdminInv, Send, job.kind = "add"
    PROVE  AdminInv'
<1> DEFINE item == Current(job)
<1>1. /\ pc = "send" /\ SamePlan /\ SameBase /\ job'.todo = job.todo \ {item}
      /\ job'.via = job.via /\ pc' = StepPlace(job')
  BY SendDoes DEF Replacing
<1>2. job.todo # {} /\ job \in Jobs
  BY <1>1 DEF TypeInv, JobTypes
<1>3. /\ job.last = NoList /\ job.via = AdminIndex(job.base)
      /\ \A s \in Slots : job.base[s] = "admin" => job.staged[s] = "admin" /\ s \notin job.todo
      /\ (\A s \in Slots : job.base[s] # "admin") =>
           \A s \in Slots : job.staged[s] = "admin" => s \in job.todo /\ s = job.next
  BY <1>1 DEF AdminInv, AddInv
<1>4. ASSUME pc' = "send", NEW s \in Slots, s \in job.todo, s = job.next PROVE s # item
  <2>1. SUFFICES ASSUME s = item PROVE FALSE
    OBVIOUS
  <2>2. job.last # job.next
    BY <1>3, <1>4, TransactionAssumption DEF Items
  <2>3. job.todo \subseteq {job.next, job.last}
    BY <1>2, <1>4, <2>1, <2>2, DeferredIsLast
  <2>4. NoList \notin job.todo
    BY <1>2, TransactionAssumption DEF Jobs
  <2>5. job'.todo = {}
    BY <1>1, <1>3, <1>4, <2>1, <2>3, <2>4
  <2> QED
    BY <1>1, <1>4, <2>5, StepPlaces
<1> HIDE DEF item
<1>5. AddInv'
  BY <1>1, <1>3, <1>4 DEF AddInv, SamePlan, SameBase
<1> QED
  BY <1>1, <1>5 DEF AdminInv, SingleInv, DeleteInv, ReplaceInv, Replacing, SamePlan

\* A write of a replacement, which may not have reached the device: an admin channel that the
\* URL does not ask for is not written over before the previous one.
LEMMA OrderedStays ==
    ASSUME TypeInv, AgreeInv, AdminInv, Replacing, pc = "send", Named, SamePlan,
           Write(Current(job)) \/ UNCHANGED device
    PROVE  OrderedAdmins'
<1> DEFINE item == Current(job)
<1>1. /\ job.next = NamedAdmin(Replaced)
      /\ job.last = job.next => job.last = NoList
      /\ OrderedAdmins
  BY DEF AdminInv, ReplaceInv
<1>2. item \in job.todo /\ item \in Items /\ job \in Jobs /\ job.todo # {}
  BY CurrentIsItem DEF TypeInv, JobTypes
<1>3. job.staged = Replaced
  BY DEF AgreeInv, WholeInv
<1>4. Previous' = Previous /\ Previous \in {job.next, job.last}
  BY DEF Previous, SamePlan
<1>5. CASE UNCHANGED device
  BY <1>1, <1>4, <1>5 DEF OrderedAdmins, SamePlan
<1>6. CASE Write(item)
  <2>1. \A s \in Slots : device'[s] = IF s = item THEN Replaced[s] ELSE device[s]
    BY <1>2, <1>3, <1>6, WriteDoes
  <2>2. ASSUME NEW s \in Slots, device'[s] = "admin", s \notin {job.next, job.last}
        PROVE  /\ Previous \in Slots /\ device'[Previous] = "admin"
               /\ \A r \in Slots : device'[r] = "admin" => Previous <= r
    <3>1. Replaced[s] # "admin"
      BY <1>1, <2>2, ReplacedAdmin
    <3>2. device[s] = "admin" /\ s # item
      BY <2>1, <2>2, <3>1
    <3>3. s \in job.todo
      BY <1>3, <3>1, <3>2 DEF AgreeInv, WholeInv, Working, Agree, Named
    <3>4. item \notin {job.next, job.last}
      BY <1>1, <1>2, <2>2, <3>3, DeferredIsLast
    <3>5. /\ Previous \in Slots /\ device[Previous] = "admin"
          /\ \A r \in Slots : device[r] = "admin" => Previous <= r
      BY <1>1, <2>2, <3>2 DEF OrderedAdmins
    <3>6. device'[Previous] = "admin"
      BY <1>4, <2>1, <3>4, <3>5
    <3>7. \A r \in Slots : device'[r] = "admin" => device[r] = "admin"
      BY <1>1, <2>1, <3>4, ReplacedAdmin
    <3> QED
      BY <3>5, <3>6, <3>7
  <2> QED
    BY <1>4, <2>2 DEF OrderedAdmins, SamePlan
<1> QED
  BY <1>5, <1>6

\* A slot of a replacement is sent.
LEMMA ReplaceSlotSendAdmins ==
    ASSUME TypeInv, AgreeInv, AdminInv, Send, Replacing, Current(job) # Lora
    PROVE  AdminInv'
<1> DEFINE item == Current(job)
<1>1. /\ pc = "send" /\ SamePlan /\ Write(item) /\ job'.todo = job.todo /\ job'.via = job.via
      /\ pc' = "keep" /\ (Named' => Named)
  BY SendDoes, NamedStays
<1>2. item \in Items /\ Current(job') = item
  BY <1>1, CurrentIsItem, SameCurrent DEF TypeInv, JobTypes
<1>3. /\ job.next = NamedAdmin(Replaced)
      /\ job.last = job.next => job.last = NoList
      /\ Named => Reaches
  BY <1>1 DEF AdminInv, ReplaceInv
<1>4. job.staged = Replaced
  BY <1>1 DEF AgreeInv, WholeInv
<1>5. \A s \in Slots : device'[s] = IF s = item THEN Replaced[s] ELSE device[s]
  BY <1>1, <1>2, <1>4, WriteDoes
<1>7. Named' => OrderedAdmins'
  BY <1>1, OrderedStays
<1>8. ASSUME Named', item \notin {job.next, job.last} PROVE Reaches'
  <2>1. \A s \in Slots : device'[s] = "admin" => device[s] = "admin"
    BY <1>3, <1>5, <1>8, ReplacedAdmin
  <2>2. HasAdmin' => HasAdmin
    BY <2>1 DEF HasAdmin
  <2>3. job.via \in Slots
    BY DEF TypeInv, JobTypes, Jobs
  <2> QED
    BY <1>1, <1>3, <1>5, <1>8, <2>2, <2>3 DEF Reaches, SamePlan
<1> HIDE DEF item
<1>9. ReplaceInv'
  BY <1>1, <1>2, <1>3, <1>7, <1>8 DEF ReplaceInv, SamePlan, Replaced
<1> QED
  BY <1>1, <1>9 DEF AdminInv, SingleInv, DeleteInv, AddInv

\* The LoRa configuration of a replacement is sent.
LEMMA ReplaceLoraSendAdmins ==
    ASSUME TypeInv, AgreeInv, AdminInv, Send, Replacing, Current(job) = Lora
    PROVE  AdminInv'
<1>1. /\ pc = "send" /\ SamePlan /\ Write(Lora) /\ job'.via = job.via
      /\ pc' = StepPlace(job') /\ (Named' => Named)
  <2>1. job'.via = job.via
    BY SendDoes DEF Replacing
  <2> QED
    BY <2>1, SendDoes, NamedStays
<1>2. device' = device
  BY <1>1 DEF Write
<1>3. pc' \in {"keep", "check", "send"}
  BY <1>1, StepPlaces
<1>4. /\ job.next = NamedAdmin(Replaced)
      /\ job.last = job.next => job.last = NoList
      /\ Named => OrderedAdmins /\ Reaches
  BY <1>1 DEF AdminInv, ReplaceInv
<1>5. Named' => OrderedAdmins' /\ Reaches'
  BY <1>1, <1>2, <1>4 DEF OrderedAdmins, Previous, Reaches, HasAdmin, SamePlan
<1>6. ReplaceInv'
  BY <1>1, <1>3, <1>4, <1>5 DEF ReplaceInv, SamePlan, Replaced
<1> QED
  BY <1>1, <1>6 DEF AdminInv, SingleInv, DeleteInv, AddInv, Replacing, SamePlan

\* A write raises.
LEMMA SendFailsAdmins ==
    ASSUME TypeInv, AgreeInv, AdminInv, SendFails
    PROVE  AdminInv'
<1>1. /\ pc = "send" /\ pc' = "failed" /\ job' = job /\ SamePlan
      /\ Write(Current(job)) \/ UNCHANGED device
      /\ (Named' => Named)
  BY SendFailsDoes, NamedStays DEF deviceVars, SamePlan
<1>2. Replacing /\ Named' => OrderedAdmins'
  BY <1>1, OrderedStays
<1>3. ReplaceInv'
  BY <1>1, <1>2 DEF AdminInv, ReplaceInv, Replacing, Replaced
<1> QED
  BY <1>1, <1>3 DEF AdminInv, SingleInv, DeleteInv, AddInv

\* A slot of a replacement is committed.
LEMMA KeepSlotAdmins ==
    ASSUME TypeInv, AgreeInv, AdminInv, KeepSlot
    PROVE  AdminInv'
<1> DEFINE item == Current(job)
<1>1. /\ pc = "keep" /\ Replacing /\ job.todo # {} /\ SamePlan /\ job'.via = job.via
      /\ UNCHANGED <<device, stale, renamed>> /\ job' \in Jobs
      /\ pc' = "failed" \/ (job'.todo = job.todo \ {item} /\ pc' = StepPlace(job'))
  BY KeepSlotDoes DEF deviceVars
<1>2. item \in job.todo /\ item \in Slots /\ job \in Jobs
  BY <1>1, CurrentIsItem DEF AgreeInv, WrittenInv, TypeInv, JobTypes
<1>3. /\ job.next = NamedAdmin(Replaced)
      /\ job.last = job.next => job.last = NoList
      /\ Named => OrderedAdmins /\ (Reaches \/ item \in {job.next, job.last})
  BY <1>1 DEF AdminInv, ReplaceInv
<1>4. Named => OrderedAdmins'
  BY <1>1, <1>3 DEF OrderedAdmins, Previous, SamePlan
<1>5. Reaches => Reaches'
  BY <1>1 DEF Reaches, HasAdmin, SamePlan
<1>6. ASSUME item \in {job.next, job.last}, pc' # "failed"
      PROVE  \/ pc' = "keep" /\ job'.todo = {}
             \/ pc' = "check" /\ Current(job') = job'.last /\ job'.next # NoList
  <2>1. item = job.last => job.todo = {job.last}
    BY <1>2, <1>3, DeferredIsLast
  <2>2. item = job.next => job.todo \subseteq {job.next, job.last}
    BY <1>2, <1>3, DeferredIsLast
  <2>3. CASE job'.todo = {}
    BY <1>1, <1>6, <2>3, StepPlaces
  <2>4. CASE job'.todo # {}
    <3>1. item = job.next /\ job'.todo = {job.last}
      BY <1>1, <1>6, <2>1, <2>2, <2>4
    <3>2. Current(job') = job.last
      BY <1>1, <2>4, <3>1, CurrentIsFirst DEF Jobs
    <3>3. job.last # Lora /\ job.next # NoList
      BY <1>2, <3>1, TransactionAssumption, Tabled DEF Jobs, Items, Lora, Slots
    <3>4. job'.kind = "replace"
      BY <1>1 DEF SamePlan, Replacing
    <3>5. pc' = "check"
      BY <1>1, <1>6, <2>4, <3>2, <3>3, <3>4 DEF StepPlace
    <3> QED
      BY <1>1, <3>2, <3>3, <3>5 DEF SamePlan
  <2> QED
    BY <2>3, <2>4
<1>7. pc' = "failed" \/ (pc' \in {"keep", "check", "send"} /\ (pc' = "keep" => job'.todo = {}))
  BY <1>1, StepPlaces
<1>8. ReplaceInv'
  <2>1. CASE pc' = "failed"
    BY <1>1, <1>3, <1>4, <2>1 DEF ReplaceInv, SamePlan, Replaced, Named
  <2>2. CASE pc' # "failed" /\ item \in {job.next, job.last}
    BY <1>1, <1>3, <1>4, <1>6, <2>2 DEF ReplaceInv, SamePlan, Replaced, Named
  <2>3. CASE pc' # "failed" /\ item \notin {job.next, job.last}
    BY <1>1, <1>3, <1>4, <1>5, <1>7, <2>3 DEF ReplaceInv, SamePlan, Replaced, Named
  <2> QED
    BY <2>1, <2>2, <2>3
<1> QED
  BY <1>1, <1>8 DEF AdminInv, SingleInv, DeleteInv, AddInv, Replacing, SamePlan

\* A replacement that resumes: an admin channel that the URL does not ask for comes after the
\* previous one, so the first one of the reloaded list is the previous or the new one.
LEMMA ComputeAdmins ==
    ASSUME TypeInv, AgreeInv, AdminInv, Compute
    PROVE  AdminInv'
<1>1. /\ pc = "resume" /\ channels # NoList /\ Replacing
      /\ UNCHANGED <<device, stale, renamed>> /\ job'.kind = job.kind
      /\ \/ pc' = "idle"
         \/ pc' = "capture" /\ SamePlan /\ job'.via = AdminIndex(channels)
  BY ComputeDoes DEF deviceVars, editVars, TypeInv, JobTypes, SamePlan
<1>2. SingleInv' /\ DeleteInv' /\ AddInv'
  BY <1>1 DEF SingleInv, DeleteInv, AddInv, Replacing
<1>3. CASE pc' = "idle"
  BY <1>2, <1>3 DEF AdminInv, ReplaceInv
<1>4. CASE pc' = "capture" /\ SamePlan /\ job'.via = AdminIndex(channels)
  <2>1. /\ job.next = NamedAdmin(Replaced)
        /\ job.last = job.next => job.last = NoList
        /\ Named => OrderedAdmins
    BY <1>1 DEF AdminInv, ReplaceInv
  <2>2. Named => OrderedAdmins'
    BY <1>1, <1>4, <2>1 DEF OrderedAdmins, Previous, SamePlan
  <2>3. ASSUME Named, HasAdmin
        PROVE  device[AdminIndex(channels)] = "admin" /\ AdminIndex(channels) \in {job.next, job.last}
    <3>1. \A s \in Slots : channels[s] = "admin" <=> device[s] = "admin"
      BY <1>1, <2>3, Zenon DEF AgreeInv, CacheInv, Committed, Written, Agree, Named
    <3>2. /\ AdminIndex(channels) \in Slots /\ device[AdminIndex(channels)] = "admin"
          /\ \A r \in Slots : device[r] = "admin" => AdminIndex(channels) <= r
      BY <1>1, <2>3, <3>1, Tabled, AdminFound DEF HasAdmin
    <3>3. ASSUME AdminIndex(channels) \notin {job.next, job.last} PROVE FALSE
      <4>1. /\ Previous \in Slots /\ device[Previous] = "admin"
            /\ Previous <= AdminIndex(channels)
        BY <2>1, <2>3, <3>2, <3>3 DEF OrderedAdmins
      <4>2. AdminIndex(channels) <= Previous
        BY <3>2, <4>1
      <4>3. Previous = AdminIndex(channels)
        BY <3>2, <4>1, <4>2, TransactionAssumption DEF Slots
      <4> QED
        BY <3>3, <4>3 DEF Previous
    <3> QED
      BY <3>2, <3>3
  <2>4. Named' => Reaches'
    BY <1>1, <1>4, <2>3 DEF Reaches, HasAdmin, SamePlan, Named
  <2>5. ReplaceInv'
    BY <1>1, <1>4, <2>1, <2>2, <2>4 DEF ReplaceInv, SamePlan, Replaced, Named
  <2> QED
    BY <1>2, <2>5 DEF AdminInv
<1> QED
  BY <1>1, <1>3, <1>4

LEMMA CaptureAdmins ==
    ASSUME TypeInv, AgreeInv, AdminInv, Capture
    PROVE  AdminInv'
<1>1. /\ pc = "capture" /\ Replacing /\ SamePlan /\ job'.via = job.via
      /\ UNCHANGED <<device, stale, renamed>>
      /\ pc' = "failed" \/ pc' = StepPlace(job')
  BY CaptureDoes DEF deviceVars, editVars, TypeInv, JobTypes
<1>2. pc' \in {"failed", "keep", "check", "send"}
  BY <1>1, StepPlaces
<1>3. /\ job.next = NamedAdmin(Replaced)
      /\ job.last = job.next => job.last = NoList
      /\ Named => OrderedAdmins /\ Reaches
  BY <1>1 DEF AdminInv, ReplaceInv
<1>4. Named' => OrderedAdmins' /\ Reaches'
  BY <1>1, <1>3 DEF OrderedAdmins, Previous, Reaches, HasAdmin, SamePlan, Named
<1>5. ReplaceInv'
  BY <1>1, <1>2, <1>3, <1>4 DEF ReplaceInv, SamePlan, Replaced
<1> QED
  BY <1>1, <1>5 DEF AdminInv, SingleInv, DeleteInv, AddInv, Replacing, SamePlan

LEMMA EndAdmins ==
    ASSUME TypeInv, AdminInv, ReplaceEnds \/ Commit \/ Failure \/ ResumeFails
    PROVE  AdminInv'
<1>1. /\ job' = job /\ UNCHANGED <<device, stale, renamed>> /\ pc # "idle"
      /\ pc' = "idle" \/ (pc' = "resume" /\ Replacing)
  BY EndDoes DEF deviceVars
<1>2. ReplaceInv'
  BY <1>1 DEF AdminInv, ReplaceInv, OrderedAdmins, Previous, Replacing, Replaced, Named
<1> QED
  BY <1>1, <1>2 DEF AdminInv, SingleInv, DeleteInv, AddInv

LEMMA AdminStep == TypeInv /\ AgreeInv /\ AdminInv /\ [Next]_vars => AdminInv'
<1> SUFFICES ASSUME TypeInv, AgreeInv, AdminInv, [Next]_vars PROVE AdminInv'
  OBVIOUS
<1>1. CASE Send
  <2>1. job.kind \in {"write", "delete", "add"} \/ Replacing
    BY DEF TypeInv, JobTypes, Jobs, Kinds, Replacing
  <2> QED
    BY <1>1, <2>1, SingleSendAdmins, DeleteSendAdmins, AddSendAdmins, ReplaceSlotSendAdmins,
       ReplaceLoraSendAdmins
<1>2. CASE UNCHANGED vars
  BY <1>2 DEF vars, deviceVars, cacheVars, editVars, AdminInv, SingleInv, HasAdmin, DeleteInv,
              Deletes, Rewritten, AddInv, ReplaceInv, Replacing, OrderedAdmins, Previous, Reaches,
              Replaced, Named
<1> QED
  BY <1>1, <1>2, CallAdmins, EnvironmentAdmins, CheckAdmins, SendFailsAdmins, KeepSlotAdmins,
     ComputeAdmins, CaptureAdmins, EndAdmins DEF Next, Transaction

\* What is planned for a slot, or still there.
LEMMA PartlyAgrees ==
    ASSUME TypeInv, AgreeInv, Named, pc = "send", job.kind \in {"delete", "add"}, NEW s \in Slots
    PROVE  device[s] = "admin" <=> (IF s \in job.todo THEN job.base[s] ELSE job.staged[s]) = "admin"
BY DEF AgreeInv, PartlyInv, Partly, There, Named

\* A deletion that leaves the first admin channel where it is or moves it up: when its slot
\* has been rewritten, the new one has been written before.
LEMMA DeleteCarried ==
    ASSUME TypeInv, AgreeInv, AdminInv, Named, pc = "send", job.kind = "delete",
           job.after <= job.before, HasAdmin
    PROVE  device[job.via] = "admin"
<1>1. PICK d \in Slots : Deletes(d)
  BY DEF AdminInv, DeleteInv
<1>2. job.base \in Tables /\ job.staged \in Tables
  BY Tabled
<1>3. \A s \in Slots : /\ s \in Nat
                       /\ s < d => job.staged[s] = job.base[s]
                       /\ (~(s < d) /\ job.staged[s] = "admin") =>
                            s + 1 \in Slots /\ job.base[s + 1] = "admin"
  BY <1>1, TransactionAssumption DEF Deletes, Without, Slots
<1>4. PICK s \in Slots : device[s] = "admin"
  BY DEF HasAdmin
<1>5. s \in job.todo => job.base[s] = "admin"
  BY <1>4, PartlyAgrees
<1>6. s \notin job.todo => job.staged[s] = "admin"
  BY <1>4, PartlyAgrees
<1>7. \E r \in Slots : job.base[r] = "admin"
  BY <1>3, <1>5, <1>6
<1>8. /\ job.before = AdminIndex(job.base) /\ job.before \in Slots
      /\ job.base[job.before] = "admin"
  BY <1>1, <1>2, <1>7, AdminFound DEF Deletes
<1>9. CASE job.before \notin Rewritten(d) \ job.todo
  <2>1. job.via = job.before
    BY <1>1, <1>9 DEF Deletes
  <2>2. job.before \notin job.todo => job.staged[job.before] = job.base[job.before]
    BY <1>1, <1>3, <1>8, <1>9 DEF Rewritten, Slots
  <2> QED
    BY <1>8, <2>1, <2>2, PartlyAgrees
<1>10. CASE job.before \in Rewritten(d) \ job.todo
  <2>1. /\ job.before >= d /\ job.staged[job.before] # job.base[job.before]
        /\ job.via = job.after /\ job.after = AdminIndex(job.staged)
    BY <1>1, <1>10 DEF Deletes, Rewritten
  <2>2. \E r \in Slots : job.staged[r] = "admin"
    <3>1. CASE s \in job.todo
      <4>1. s \in Rewritten(d) /\ s # job.before /\ ~(s < job.before)
        BY <1>1, <1>10, <3>1 DEF Deletes
      <4>2. s - 1 \in Slots /\ ~(s - 1 < d) /\ (s - 1) + 1 = s
        BY <1>1, <1>3, <1>8, <2>1, <4>1, TransactionAssumption DEF Slots
      <4>3. job.staged[s - 1] = "admin"
        BY <1>1, <1>5, <3>1, <4>2 DEF Deletes, Without
      <4> QED
        BY <4>2, <4>3
    <3> QED
      BY <1>6, <3>1
  <2>3. job.after \in Slots /\ job.staged[job.after] = "admin"
    BY <1>2, <2>1, <2>2, AdminFound
  <2>4. job.after < job.before
    BY <1>3, <1>8, <2>1, <2>3
  <2>5. job.after \notin job.todo
    BY <1>1, <1>10, <2>4 DEF Deletes
  <2> QED
    BY <2>1, <2>3, <2>5, PartlyAgrees
<1> QED
  BY <1>9, <1>10

\* An addition: an admin channel that was there is left alone, one that is new comes last.
LEMMA AddCarried ==
    ASSUME TypeInv, AgreeInv, AdminInv, Named, pc = "send", job.kind = "add", HasAdmin
    PROVE  device[job.via] = "admin"
<1>1. /\ job.via = AdminIndex(job.base) /\ job.base \in Tables
      /\ \A s \in Slots : job.base[s] = "admin" => job.staged[s] = "admin" /\ s \notin job.todo
      /\ (\A s \in Slots : job.base[s] # "admin") =>
           \A s \in Slots : job.staged[s] = "admin" => s \in job.todo /\ s = job.next
  BY Tabled DEF AdminInv, AddInv
<1>2. \E s \in Slots : job.base[s] = "admin"
  <2>1. PICK s \in Slots : device[s] = "admin"
    BY DEF HasAdmin
  <2>2. (IF s \in job.todo THEN job.base[s] ELSE job.staged[s]) = "admin"
    BY <2>1, PartlyAgrees
  <2> QED
    BY <1>1, <2>2
<1>3. job.via \in Slots /\ job.base[job.via] = "admin"
  BY <1>1, <1>2, AdminFound
<1> QED
  BY <1>1, <1>3, PartlyAgrees

\* A single write looks the admin channel up when it is sent.
LEMMA SingleCarried ==
    ASSUME TypeInv, AgreeInv, AdminInv, Named, pc = "send", job.kind = "write", HasAdmin
    PROVE  device[AdminIndex(channels)] = "admin"
<1>1. channels # NoList
  BY DEF AdminInv, SingleInv
<1>2. \A s \in Slots : channels[s] = "admin" <=> device[s] = "admin"
  BY <1>1 DEF AgreeInv, CacheInv, Committed, Written, Agree, Named
<1> QED
  BY <1>1, <1>2, Tabled, AdminFound DEF HasAdmin

\* What holds when a write is sent.
Through == (/\ Send \/ SendFails
            /\ ~stale /\ ~renamed
            /\ job.kind = "delete" => job.after <= job.before
            /\ \E s \in Slots : device[s] = "admin") => device[Via] = "admin"

LEMMA ThroughStep == TypeInv /\ AgreeInv /\ AdminInv => Through
<1> SUFFICES ASSUME TypeInv, AgreeInv, AdminInv, Send \/ SendFails, Named,
                    job.kind = "delete" => job.after <= job.before, HasAdmin
             PROVE  device[Via] = "admin"
  BY DEF Through, HasAdmin, Named
<1>1. pc = "send"
  BY DEF Send, SendFails
<1>2. job.kind \in {"delete", "add"} \/ job.kind = "write" \/ Replacing
  BY DEF TypeInv, JobTypes, Jobs, Kinds, Replacing
<1>3. CASE job.kind = "write"
  BY <1>1, <1>3, SingleCarried DEF Via
<1>4. CASE Replacing
  BY <1>1, <1>4 DEF AdminInv, ReplaceInv, Reaches, Replacing, Via
<1>5. CASE job.kind \in {"delete", "add"}
  BY <1>1, <1>5, DeleteCarried, AddCarried DEF Via
<1> QED
  BY <1>2, <1>3, <1>4, <1>5

\* As long as the device has an admin channel, every write of a channel operation goes through
\* one: a replacement moves the admin channel last, a deletion follows the one that moves up,
\* whichever writes fail and however the cached list is reloaded and edited meanwhile, unless
\* an edit gives a cached channel the name "admin" or takes it away.
THEOREM WritesReachTheAdmin == Spec => AdminSlotUsed
<1>1. TypeInv /\ AgreeInv /\ AdminInv /\ [Next]_vars
        => TypeInv' /\ AgreeInv' /\ AdminInv' /\ [Through]_vars
  BY TypeStep, AgreeStep, AdminStep, ThroughStep
<1> QED
  BY <1>1, InitTypes, InitAgrees, InitAdmins, PTL DEF Spec, AdminSlotUsed, Through
=============================================================================
