---------------------------- MODULE LegacyNames ----------------------------
(***************************************************************************)
(* The classic name of one site. The config poll looks the classic sites   *)
(* up once per cycle and publishes the mapping when it commits, much later;*)
(* after a failed lookup it publishes the last good name. A write that has *)
(* no name looks the mapping up by itself, at most once per cooldown and   *)
(* one lookup at a time, and publishes it at once.                         *)
(***************************************************************************)
EXTENDS Integers

CONSTANTS
  Writer,       \* writes in progress that need the site's classic name
  Cooldown,     \* LEGACY_REMAP_COOLDOWN, in ticks
  MaxLookups,   \* bound: lookups, by the poll and on demand
  MaxTicks      \* bound: time

ASSUME LegacyAssumption == {Cooldown, MaxLookups, MaxTicks} \subseteq Nat

VARIABLES
  siteListed,    \* is the site in data["sites"]?
  hasName,       \* is it in data["legacy_site_names"]?
  mappingFailed, \* data["legacy_mapping_failed"]
  namePoll,      \* the poll in progress
  writer,        \* where each write is
  lookedUp,      \* ticks since the last on-demand lookup started
  lookups,       \* bound
  ticks,         \* bound
  askedAt,       \* history: when the last on-demand lookup asked the console
  askedSoon      \* history: did one ask within the cooldown of another?

legacyVars == <<siteListed, hasName, mappingFailed, namePoll, writer, lookedUp, lookups,
                ticks, askedAt, askedSoon>>

NoNamePoll == [phase |-> "idle", name |-> FALSE, failed |-> FALSE]
Holding == {w \in Writer : writer[w] = "looking"}

LegacyTypeOK ==
  /\ siteListed \in BOOLEAN /\ hasName \in BOOLEAN /\ mappingFailed \in BOOLEAN
  /\ namePoll \in [phase : {"idle", "looking", "fetching"}, name : BOOLEAN, failed : BOOLEAN]
  /\ writer \in [Writer -> {"idle", "queued", "looking", "named", "raised"}]
  /\ lookedUp \in 0 .. Cooldown
  /\ lookups \in 0 .. MaxLookups
  /\ ticks \in 0 .. MaxTicks
  /\ askedAt \in {-1} \cup 0 .. MaxTicks
  /\ askedSoon \in BOOLEAN

LegacyInit ==
  /\ siteListed = FALSE /\ hasName = FALSE /\ mappingFailed = FALSE
  /\ namePoll = NoNamePoll
  /\ writer = [w \in Writer |-> "idle"]
  /\ lookedUp = Cooldown
  /\ lookups = 0 /\ ticks = 0
  /\ askedAt = -1
  /\ askedSoon = FALSE

-----------------------------------------------------------------------------
(* The poll: the sites, then the classic sites.                            *)
NamePollStarts ==
  /\ namePoll.phase = "idle" /\ lookups < MaxLookups
  /\ lookups' = lookups + 1
  /\ namePoll' = [NoNamePoll EXCEPT !.phase = "looking"]
  /\ UNCHANGED <<siteListed, hasName, mappingFailed, writer, lookedUp, ticks, askedAt, askedSoon>>

(* The name to publish is fixed here, before the sections are fetched: the *)
(* console's, which may know none, or after a failed lookup the last good. *)
PollLooksUp ==
  /\ namePoll.phase = "looking"
  /\ \/ \E known \in BOOLEAN :
          namePoll' = [phase |-> "fetching", name |-> known, failed |-> FALSE]
     \/ namePoll' = [phase |-> "fetching", name |-> hasName, failed |-> TRUE]
  /\ UNCHANGED <<siteListed, hasName, mappingFailed, writer, lookedUp, lookups, ticks,
                 askedAt, askedSoon>>

NamePollCommits ==
  /\ namePoll.phase = "fetching"
  /\ namePoll' = NoNamePoll
  /\ siteListed' = TRUE
  /\ hasName' = namePoll.name
  /\ mappingFailed' = namePoll.failed
  /\ UNCHANGED <<writer, lookedUp, lookups, ticks, askedAt, askedSoon>>

(* The poll finds no site selected.                                        *)
PollClears ==
  /\ namePoll.phase = "looking" /\ siteListed
  /\ namePoll' = NoNamePoll
  /\ siteListed' = FALSE /\ hasName' = FALSE /\ mappingFailed' = FALSE
  /\ UNCHANGED <<writer, lookedUp, lookups, ticks, askedAt, askedSoon>>

NamePollFails ==
  /\ namePoll.phase # "idle"
  /\ namePoll' = NoNamePoll
  /\ UNCHANGED <<siteListed, hasName, mappingFailed, writer, lookedUp, lookups, ticks,
                 askedAt, askedSoon>>

-----------------------------------------------------------------------------
(* resolve_legacy_site_name, of a site without internalReference.          *)
Resolved == IF hasName' THEN "named" ELSE "raised"

(* A write asks for the name. Without one it looks the mapping up, if the  *)
(* site is there: it is not in the mapping.                                *)
WriteAsks(w) ==
  /\ writer[w] \in {"idle", "named", "raised"}
  /\ writer' = [writer EXCEPT ![w] = IF hasName THEN "named"
                                     ELSE IF siteListed THEN "queued" ELSE "raised"]
  /\ writer' # writer
  /\ UNCHANGED <<siteListed, hasName, mappingFailed, namePoll, lookedUp, lookups, ticks,
                 askedAt, askedSoon>>

(* (History.)                                                              *)
Asked ==
  /\ askedAt' = ticks
  /\ askedSoon' = (askedSoon \/ (askedAt >= 0 /\ ticks - askedAt < Cooldown))

TakesLock_Bug(w) ==
  /\ writer[w] = "queued" /\ Holding = {}
  /\ lookedUp >= Cooldown /\ lookups < MaxLookups
  /\ lookups' = lookups + 1
  /\ Asked
  /\ writer' = [writer EXCEPT ![w] = "looking"]
  /\ UNCHANGED <<siteListed, hasName, mappingFailed, namePoll, lookedUp, ticks>>

(* It takes the lock; within the cooldown another write has already asked. *)
TakesLock(w) ==
  /\ writer[w] = "queued" /\ Holding = {}
  /\ lookedUp >= Cooldown /\ lookups < MaxLookups
  /\ lookedUp' = 0
  /\ lookups' = lookups + 1
  /\ Asked
  /\ writer' = [writer EXCEPT ![w] = "looking"]
  /\ UNCHANGED <<siteListed, hasName, mappingFailed, namePoll, ticks>>

FindsItAsked(w) ==
  /\ writer[w] = "queued" /\ Holding = {}
  /\ lookedUp < Cooldown
  /\ UNCHANGED <<siteListed, hasName, mappingFailed, namePoll, lookedUp, lookups, ticks,
                 askedAt, askedSoon>>
  /\ writer' = [writer EXCEPT ![w] = Resolved]

(* The lookup ends: published, with the flag cleared, or nothing changed.  *)
(* Only the sites in the data are mapped.                                  *)
LookupAnswered(w, known) ==
  /\ writer[w] = "looking"
  /\ hasName' = (known /\ siteListed)
  /\ mappingFailed' = FALSE
  /\ writer' = [writer EXCEPT ![w] = Resolved]
  /\ UNCHANGED <<siteListed, namePoll, lookedUp, lookups, ticks, askedAt, askedSoon>>

LookupFails(w) ==
  /\ writer[w] = "looking"
  /\ UNCHANGED <<siteListed, hasName, mappingFailed, namePoll, lookedUp, lookups, ticks,
                 askedAt, askedSoon>>
  /\ writer' = [writer EXCEPT ![w] = Resolved]

LegacyTick ==
  /\ ticks < MaxTicks
  /\ ticks' = ticks + 1
  /\ lookedUp' = IF lookedUp < Cooldown THEN lookedUp + 1 ELSE lookedUp
  /\ UNCHANGED <<siteListed, hasName, mappingFailed, namePoll, writer, lookups, askedAt,
                 askedSoon>>

LegacyNext ==
  \/ NamePollStarts \/ PollLooksUp \/ NamePollCommits \/ PollClears \/ NamePollFails
  \/ \E w \in Writer : WriteAsks(w) \/ TakesLock(w) \/ FindsItAsked(w) \/ LookupFails(w)
  \/ \E w \in Writer, known \in BOOLEAN : LookupAnswered(w, known)
  \/ LegacyTick

LegacySpec == LegacyInit /\ [][LegacyNext]_legacyVars

-----------------------------------------------------------------------------
(* A classic API that is down or slow is not asked again on every write:   *)
(* two on-demand lookups never ask within one cooldown, though the lookup  *)
(* is awaited, fails, and leaves a queue of writes behind it.              *)
LookupsAreSpaced == ~askedSoon

=============================================================================
