---------------------------- MODULE FamilyCache ----------------------------
(***************************************************************************)
(* One Protect device family (cameras, lights, sensors, fobs, sirens ...)  *)
(* from the console's list endpoint to Home Assistant's device registry:   *)
(* which answers replace the cached collection, which only merge, how many *)
(* empty answers and errors the cache outlives, when a missing device is   *)
(* removed from the registry, and which devices the platforms add to it.   *)
(*                                                                         *)
(* An answer is applied in the step that reads it; the race of an answer   *)
(* with frames and other answers is in SensorPreservation and SirenGuard.  *)
(* An answer that left the console before a device was adopted is a short  *)
(* answer here.                                                            *)
(***************************************************************************)
EXTENDS Integers, FiniteSets

CONSTANTS
  Device,          \* device ids
  MaxEmptyFetches, \* MAX_CONSECUTIVE_EMPTY_FETCHES
  MaxMissingPolls, \* MAX_CONSECUTIVE_MISSING_POLLS
  Family,          \* the families the run looks at, one at a time
  MaxChanges,      \* bound: adoptions and removals at the console
  MaxFaults,       \* bound: faulty answers
  MaxReloads       \* bound: reloads of the config entry

ASSUME FamilyAssumption ==
  /\ {MaxEmptyFetches, MaxMissingPolls, MaxChanges, MaxFaults, MaxReloads} \subseteq Nat
  /\ Family # {}

VARIABLES
  family,       \* the family followed, chosen at the start
  adopted,      \* console: the devices it has
  cache,        \* data[family]: ids of the cached records
  registry,     \* Home Assistant's device registry, this family's devices
  known,        \* the platforms' known_..._ids: devices they have added
  emptyFetches, \* FamilyTracking.empty_fetches
  fetchErrors,  \* FamilyTracking.fetch_errors
  previous,     \* FamilyTracking.previous_ids
  missing,      \* FamilyTracking.missing_polls (0: not in the map)
  poll,         \* the poll has yet to read the family, or to read the others
  changes, faults, reloads,
  lackedBy,     \* history: answers lacking a device since a poll completed with it
  absent,       \* history: polls in a row that completed without it
  counted,      \* history: devices a completed poll of this session had
  silent        \* history: kinds of answers that lacked devices but named none

tracking == <<emptyFetches, fetchErrors, previous, missing>>
history == <<lackedBy, absent, counted, silent>>
bounds == <<changes, faults, reloads>>
vars == <<family, adopted, cache, registry, known, tracking, poll, bounds, history>>

CountsErrors == family \in {"cameras", "lights", "sensors"}
HasTimer == family \in {"sensors", "sirens"}

Enough == MaxMissingPolls + 1      \* the histories count no further

TypeOK ==
  /\ family \in Family
  /\ {adopted, cache, registry, known, previous, counted} \subseteq SUBSET Device
  /\ emptyFetches \in 0 .. MaxEmptyFetches
  /\ fetchErrors \in Nat
  /\ missing \in [Device -> 0 .. MaxMissingPolls]
  /\ poll \in {"idle", "reading", "read"}
  /\ changes \in 0 .. MaxChanges
  /\ faults \in 0 .. MaxFaults
  /\ reloads \in 0 .. MaxReloads
  /\ lackedBy \in [Device -> 0 .. Enough]
  /\ absent \in [Device -> 0 .. Enough]
  /\ silent \subseteq {"error", "partial"}

Zero == [d \in Device |-> 0]
Bump(count, devices) ==
  [d \in Device |-> IF d \in devices /\ count[d] < Enough THEN count[d] + 1 ELSE count[d]]
Clear(count, devices) == [d \in Device |-> IF d \in devices THEN 0 ELSE count[d]]

Init ==
  /\ family \in Family
  /\ adopted \in SUBSET Device
  /\ cache = {}
  /\ registry = {}
  /\ known = {}
  /\ emptyFetches = 0
  /\ fetchErrors = 0
  /\ previous = {}
  /\ missing = Zero
  /\ poll = "idle"
  /\ changes = 0 /\ faults = 0 /\ reloads = 0
  /\ lackedBy = Zero
  /\ absent = Zero
  /\ counted = {}
  /\ silent = {}

-----------------------------------------------------------------------------
(* The console adopts a device or loses one.                               *)
ConsoleChange(d) ==
  /\ changes < MaxChanges
  /\ changes' = changes + 1
  /\ adopted' = IF d \in adopted THEN adopted \ {d} ELSE adopted \cup {d}
  /\ UNCHANGED <<family, cache, registry, known, tracking, poll, faults, reloads, history>>

(* The discovery callbacks of the platforms, run by every published        *)
(* update: a device is added the first time it is seen.                    *)
Discover(records) ==
  /\ registry' = registry \cup (records \ known)
  /\ known' = known \cup records

(* A device frame writes its record into the cache, known or not.          *)
DeviceFrame(d) ==
  /\ d \in adopted \ cache
  /\ cache' = cache \cup {d}
  /\ Discover(cache')
  /\ UNCHANGED <<family, adopted, tracking, poll, bounds, history>>

-----------------------------------------------------------------------------
(* _update_collection: a complete answer replaces the collection, one with *)
(* records missing is merged over it, an empty one keeps it for a while.   *)

Replace(items) ==
  /\ items # {}
  /\ cache' = items
  /\ emptyFetches' = 0

Merge_Replaces(items) ==
  /\ cache' = IF items = {} THEN cache ELSE items
  /\ emptyFetches' = 0

Merge(items) ==
  /\ cache' = cache \cup items
  /\ emptyFetches' = 0

NothingToKeep ==
  /\ cache = {}
  /\ cache' = {}
  /\ emptyFetches' = 0

KeepOverEmpty ==
  /\ cache # {}
  /\ emptyFetches < MaxEmptyFetches
  /\ emptyFetches' = emptyFetches + 1
  /\ UNCHANGED cache

GiveUp_Keeps ==
  /\ cache # {}
  /\ emptyFetches >= MaxEmptyFetches
  /\ emptyFetches' = 0
  /\ UNCHANGED cache

GiveUp ==
  /\ cache # {}
  /\ emptyFetches >= MaxEmptyFetches
  /\ cache' = {}
  /\ emptyFetches' = 0

Empty == NothingToKeep \/ KeepOverEmpty \/ GiveUp

(* A whole answer says of every device whether the console has it, an      *)
(* error says nothing, nor does a partial answer of what it leaves out.    *)
Says(items) ==
  /\ lackedBy' = Bump(lackedBy, Device \ items)
  /\ UNCHANGED silent

SaysNothing(kind) ==
  /\ silent' = silent \cup {kind}
  /\ UNCHANGED lackedBy

Whole(items) ==
  /\ Replace(items) \/ (items = {} /\ Empty)
  /\ fetchErrors' = 0
  /\ Says(items)

Partial(items) ==
  /\ Merge(items)
  /\ fetchErrors' = 0
  /\ SaysNothing("partial")

NotFound ==
  /\ Empty
  /\ fetchErrors' = 0
  /\ Says({})

(* An error counted by _absorb_transient_error; the other families keep    *)
(* their cache and count nothing (NoAnswer).                               *)
Absorbed ==
  /\ IF CountsErrors THEN /\ fetchErrors < MaxEmptyFetches
                          /\ fetchErrors' = fetchErrors + 1
                          /\ emptyFetches' = 0
     ELSE UNCHANGED <<fetchErrors, emptyFetches>>
  /\ SaysNothing("error")
  /\ UNCHANGED cache

Escalated ==
  /\ CountsErrors
  /\ fetchErrors >= MaxEmptyFetches
  /\ fetchErrors' = fetchErrors + 1
  /\ UNCHANGED <<cache, emptyFetches, lackedBy, silent>>

(* What the console may answer, the truth first.                           *)
GoodAnswer == Whole(adopted) /\ UNCHANGED faults

BadAnswer ==
  /\ faults < MaxFaults
  /\ faults' = faults + 1
  /\ \/ \E items \in (SUBSET adopted) \ {adopted} : Whole(items) \/ Partial(items)
     \/ NotFound
     \/ Absorbed

BadError ==
  /\ faults < MaxFaults
  /\ faults' = faults + 1
  /\ Escalated

-----------------------------------------------------------------------------
(* The poll reads the family, then (PollCompleted) counts the missing. An  *)
(* error of this family or another fails it before it gets there.          *)

StartPoll ==
  /\ poll = "idle"
  /\ poll' = "reading"
  /\ UNCHANGED <<family, adopted, cache, registry, known, tracking, bounds, history>>

PollReads ==
  /\ poll = "reading"
  /\ poll' = "read"
  /\ GoodAnswer \/ BadAnswer
  /\ UNCHANGED <<family, adopted, registry, known, previous, missing, changes, reloads,
                 absent, counted>>

PollEscalates ==
  /\ poll = "reading"
  /\ poll' = "idle"
  /\ BadError
  /\ Discover(cache) \/ UNCHANGED <<registry, known>>
  /\ UNCHANGED <<family, adopted, previous, missing, changes, reloads, absent, counted>>

(* Listeners hear of a failed poll too, if the one before succeeded.       *)
PollFailsElsewhere ==
  /\ poll # "idle"
  /\ faults < MaxFaults
  /\ faults' = faults + 1
  /\ poll' = "idle"
  /\ Discover(cache) \/ UNCHANGED <<registry, known>>
  /\ UNCHANGED <<family, adopted, cache, tracking, changes, reloads, history>>

(* The reconcile timer's own read: nothing is evicted by it.               *)
TimerReads ==
  /\ HasTimer
  /\ GoodAnswer \/ BadAnswer \/ BadError
  /\ Discover(cache')
  /\ UNCHANGED <<family, adopted, previous, missing, poll, changes, reloads, absent, counted>>

Gone_AtTheLimit ==
  {d \in previous \ cache : missing[d] + 1 >= MaxMissingPolls}

(* _evict_missing_devices: gone for too many polls, and still in grace.    *)
Gone == {d \in previous \ cache : missing[d] >= MaxMissingPolls}
Pending == (previous \ cache) \ Gone

NextMissing_KeepsCount ==
  [d \in Device |-> IF d \in Pending THEN missing[d] + 1
                    ELSE IF d \in Gone THEN 0 ELSE missing[d]]

NextMissing == [d \in Device |-> IF d \in Pending THEN missing[d] + 1 ELSE 0]

NextPrevious_NoGrace == cache

NextPrevious == cache \cup Pending

PollCompletes ==
  /\ poll = "read"
  /\ poll' = "idle"
  /\ previous' = NextPrevious
  /\ missing' = NextMissing
  /\ registry' = (registry \ Gone) \cup (cache \ known)
  /\ known' = known \cup cache
  /\ lackedBy' = Clear(lackedBy, cache)
  /\ absent' = Clear(Bump(absent, Device), cache)
  /\ counted' = counted \cup cache
  /\ UNCHANGED <<family, adopted, cache, emptyFetches, fetchErrors, bounds, silent>>

(* A reload or a restart of Home Assistant: the reconciler and platforms   *)
(* start afresh, the registry is kept on disk.                             *)
Reload ==
  /\ reloads < MaxReloads
  /\ reloads' = reloads + 1
  /\ cache' = {} /\ known' = {} /\ previous' = {}
  /\ emptyFetches' = 0 /\ fetchErrors' = 0
  /\ missing' = Zero
  /\ poll' = "idle"
  /\ counted' = {}
  /\ UNCHANGED <<family, adopted, registry, changes, faults, lackedBy, absent, silent>>

-----------------------------------------------------------------------------
Next ==
  \/ \E d \in Device : ConsoleChange(d) \/ DeviceFrame(d)
  \/ StartPoll
  \/ PollReads
  \/ PollEscalates
  \/ PollFailsElsewhere
  \/ TimerReads
  \/ PollCompletes
  \/ Reload

Spec == Init /\ [][Next]_vars

(* The poll runs on its timer, its reads end by their timeouts, and it     *)
(* completes unless one of them fails.                                     *)
FairSpec ==
  /\ Spec
  /\ WF_vars(StartPoll)
  /\ WF_vars(PollReads \/ PollEscalates)
  /\ WF_vars(PollCompletes)

-----------------------------------------------------------------------------
Removed(d) == d \in registry /\ d \notin registry'

(* However errors, partial and empty answers, frames, timer and reloads    *)
(* fall, a device is not removed unless an answer lacked it since a poll   *)
(* completed with it.                                                      *)
NoRemovalWithoutAnAnswer ==
  [][\A d \in Device : Removed(d) => lackedBy[d] > 0]_vars

(* A device is kept for the whole grace window: a completed poll that has  *)
(* it restarts the window, however it came and went before.                *)
RemovedOnlyAfterGrace ==
  [][\A d \in Device : Removed(d) => absent[d] >= MaxMissingPolls]_vars

(* While every answer is whole (or says there is nothing), a device is     *)
(* lacking in more answers than the grace window has polls before it goes. *)
EvictionNeedsEvidence ==
  [][\A d \in Device : Removed(d) /\ silent = {} => lackedBy[d] > MaxMissingPolls]_vars

(* "A failed fetch is no evidence that a device was removed": the same     *)
(* holds when some fetches fail.                                           *)
FailedFetchIsNoEvidence ==
  [][\A d \in Device : Removed(d) /\ silent \subseteq {"error"}
                         => lackedBy[d] > MaxMissingPolls]_vars

(* When changes and faults cease, the cache is the console's list for good *)
(* (_update_collection neither wedges on old records nor loses new ones).  *)
CacheConverges == <>[](cache = adopted)

(* A device the console no longer has leaves the registry in the end, if a *)
(* poll of this session completed while it was cached.                     *)
StaleDevicesLeave == <>[](registry \cap counted \subseteq adopted)

(* "Platform discovery callbacks add newly observed coordinator devices":  *)
(* a device the console has is in the registry in the end.                 *)
ObservedDevicesAreAdded == <>[](adopted \subseteq registry)

(* The three together: what a removal needs, however the polls fell.       *)
RemovalsAreEarned == NoRemovalWithoutAnAnswer /\ RemovedOnlyAfterGrace /\ EvictionNeedsEvidence

=============================================================================
