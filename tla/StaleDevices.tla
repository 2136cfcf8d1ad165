---------------------------- MODULE StaleDevices ----------------------------
(***************************************************************************)
(* The clean-up of Network devices of one site. Each poll lists the site's *)
(* devices through the v1 API, checked against the classic list of the     *)
(* same poll, or through the classic API alone when v1 answers 5xx. Either *)
(* list may omit devices the console has. A classic list names a device by *)
(* the v1 id known for its MAC, or else by an id of its own. Removal       *)
(* cannot be undone, so it takes MaxMissing polls that are evidence.       *)
(***************************************************************************)
EXTENDS Naturals

CONSTANTS
  Device,
  MaxMissing      \* MAX_CONSECUTIVE_MISSING_POLLS

ASSUME StaleAssumption == MaxMissing \in Nat \ {0}

VARIABLES
  named,      \* fixed at Init: has the site a classic name?
  adopted,    \* console: the site's devices
  source,     \* _site_sources: "none", "v1", "legacy"
  tracked,    \* _site_tracked_devices: ids, and with them their MACs
  absence,    \* _site_absence_counts, 0 for an id without one
  aliases,    \* _site_aliases: the devices whose v1 id is known
  entries,    \* device registry: ids that may have an entry
  misses      \* history: polls with evidence against each device in a row

staleVars == <<named, adopted, source, tracked, absence, aliases, entries, misses>>

Id == Device \X {"v1", "legacy"}

StaleTypeOK ==
  /\ named \in BOOLEAN
  /\ adopted \subseteq Device /\ aliases \subseteq Device
  /\ source \in {"none", "v1", "legacy"}
  /\ tracked \subseteq Id /\ entries \subseteq Id
  /\ absence \in [Id -> 0 .. MaxMissing - 1]
  /\ misses \in [Device -> 0 .. MaxMissing]

StaleInit ==
  /\ named \in BOOLEAN
  /\ adopted \in SUBSET Device
  /\ source = "none"
  /\ tracked = {} /\ aliases = {} /\ entries = {}
  /\ absence = [id \in Id |-> 0]
  /\ misses = [d \in Device |-> 0]

-----------------------------------------------------------------------------
(* _process_site: the ids of the primary list, by its source.              *)
IdsOf(src, devices) ==
  {<<d, IF src = "v1" \/ d \in aliases THEN "v1" ELSE "legacy">> : d \in devices}

(* _cleanup_stale_devices. A poll is [src, listed, classic]: the devices   *)
(* of the primary list, and of the classic list of a v1 poll, {} when that *)
(* is not verified.                                                        *)
Missing(p) == {id \in tracked : id \notin IdsOf(p.src, p.listed) /\ id[1] \notin p.listed}

Trustworthy(p) == source = p.src /\ ~(p.listed = {} /\ tracked # {})

Unverified_Always(p) == Missing(p) # {}

Unverified(p) == named /\ p.src = "v1" /\ Missing(p) # {} /\ p.classic = {}

Spared_Never(p) == {}

Spared(p) == {id \in Missing(p) : id[1] \in p.classic}

Counted(p) == Missing(p) \ Spared(p)

Removed(p) == {id \in Counted(p) : absence[id] + 1 >= MaxMissing}

Aliases(p) == aliases \cup (IF p.src = "v1" THEN p.listed ELSE {})

Ineligible(p) ==
  /\ tracked' = IF source = "none" THEN IdsOf(p.src, p.listed)
                ELSE IF Trustworthy(p) THEN tracked \cup IdsOf(p.src, p.listed)
                ELSE tracked
  /\ absence' = IF ~Trustworthy(p) THEN absence
                ELSE [id \in Id |-> IF id \in Missing(p) THEN absence[id] ELSE 0]
  /\ aliases' = Aliases(p)
  /\ entries' = entries \cup IdsOf(p.src, p.listed)

Eligible(p) ==
  /\ absence' = [id \in Id |-> IF id \in Spared(p) THEN absence[id]
                               ELSE IF id \in Counted(p) \ Removed(p) THEN absence[id] + 1
                               ELSE 0]
  /\ tracked' = IdsOf(p.src, p.listed) \cup Spared(p) \cup (Counted(p) \ Removed(p))
  /\ aliases' = Aliases(p) \ {id[1] : id \in Removed(p)}
  /\ entries' = (entries \cup IdsOf(p.src, p.listed)) \ Removed(p)

(* What a poll says of a device: it is in none of the poll's lists, which  *)
(* are not empty; or it is in the primary list, of the same source as the  *)
(* one before.                                                             *)
Against(p, d) ==
  /\ p.listed # {} /\ (named /\ p.src = "v1" => p.classic # {})
  /\ d \notin p.listed \cup p.classic

Witnessed(p) ==
  misses' = [d \in Device |-> IF d \in p.listed /\ p.src = source THEN 0
                              ELSE IF Against(p, d) /\ misses[d] < MaxMissing
                              THEN misses[d] + 1 ELSE misses[d]]

Cleanup(p) ==
  /\ IF Trustworthy(p) /\ ~Unverified(p) THEN Eligible(p) ELSE Ineligible(p)
  /\ Witnessed(p)
  /\ source' = p.src
  /\ UNCHANGED <<named, adopted>>

-----------------------------------------------------------------------------
(* A completed poll; a failed one changes nothing.                         *)
V1Poll ==
  \E listed \in SUBSET adopted, classic \in IF named THEN SUBSET adopted ELSE {{}} :
    Cleanup([src |-> "v1", listed |-> listed, classic |-> classic])

(* The fallback, which takes an empty list for a failure.                  *)
LegacyPoll ==
  /\ named
  /\ \E listed \in SUBSET adopted \ {{}} :
       Cleanup([src |-> "legacy", listed |-> listed, classic |-> {}])

(* A v1 poll after a v1 poll whose lists are right.                        *)
RightPoll ==
  /\ source = "v1"
  /\ Cleanup([src |-> "v1", listed |-> adopted, classic |-> IF named THEN adopted ELSE {}])

(* A device is adopted or forgotten at the console.                        *)
Adopts(d) ==
  /\ adopted' = IF d \in adopted THEN adopted \ {d} ELSE adopted \cup {d}
  /\ UNCHANGED <<named, source, tracked, absence, aliases, entries, misses>>

StaleNext == V1Poll \/ LegacyPoll \/ \E d \in Device : Adopts(d)

StaleSpec == StaleInit /\ [][StaleNext]_staleVars

-----------------------------------------------------------------------------
(* Nothing is removed without evidence: MaxMissing polls whose lists, all  *)
(* of them and none empty, lacked the device, since a poll of a settled    *)
(* source last listed it. Fallbacks, failures of the check and ids that    *)
(* change with the source are no evidence.                                 *)
RemovalNeedsEvidence ==
  [][\A id \in entries \ entries' : misses'[id[1]] >= MaxMissing]_staleVars

(* A tracked device that is gone for good loses its entry, if the console  *)
(* has another (an empty list is never believed), however often the source *)
(* changes.                                                                *)
GoneDevicesLeave ==
  \A d \in Device :
    <>[](d \notin adopted /\ adopted # {}) =>
      (<<d, "v1">> \in tracked ~> <<d, "v1">> \notin entries)

=============================================================================
