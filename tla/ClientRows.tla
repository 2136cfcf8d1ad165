----------------------------- MODULE ClientRows -----------------------------
(***************************************************************************)
(* Entities of the clients of a network: device trackers (device_tracker)  *)
(* and Wake buttons (button), which exist for clients that are away most   *)
(* of the time. Their registry rows outlive the entry; options say which   *)
(* clients are tracked and whether clients are controlled. A setup brings  *)
(* back what has a row, a publication adds who is connected, and a task    *)
(* that setup starts adds who has been connected, from the console's       *)
(* history: an entity must be added once, whoever comes first.             *)
(***************************************************************************)
EXTENDS Naturals

CONSTANTS
  Mac,       \* clients, by their MAC address
  MaxSetups  \* bound: how often the entry is set up

ASSUME ClientRowsAssumption == MaxSetups \in Nat

VARIABLES
  where,       \* console: how a client is connected
  tracks,      \* option: the connection types that are tracked
  control,     \* option: client control
  setups,      \* how often the entry was set up
  running,     \* the entry is loaded
  trackedTypes,\* of this session: track_wifi, track_wired
  trackerRows, \* registry rows of trackers
  wakeRows,    \* per client its Wake button's row
  trackers,    \* per unique ID how often this session has added an entity
  wakes,       \* per client how often this session has added a Wake button
  knownMacs,   \* tracked
  knownWakes,  \* known_wake_macs
  seeding,     \* the history task: {} when there is none, else one record
  enabledSince \* history: Wake buttons enabled since the setup

clientVars == <<where, tracks, control, setups, running, trackedTypes, trackerRows, wakeRows,
                trackers, wakes, knownMacs, knownWakes, seeding, enabledSince>>

Type == {"wifi", "wired"}
Place == Type \cup {"away", "unknown"}

(* A tracker's unique ID: the MAC with a prefix, or, from before the       *)
(* platform had IDs of its own, the MAC as the API spells it.              *)
TrackerId == [mac : Mac, form : {"prefixed", "bare"}]
Prefixed(m) == [mac |-> m, form |-> "prefixed"]

ClientRowsInit ==
  /\ where = [m \in Mac |-> "away"]
  /\ tracks \in SUBSET Type /\ control \in BOOLEAN
  /\ setups = 0 /\ running = FALSE /\ trackedTypes = {}
  /\ trackerRows \in SUBSET TrackerId
  /\ wakeRows = [m \in Mac |-> "none"]
  /\ trackers = [id \in TrackerId |-> 0] /\ wakes = [m \in Mac |-> 0]
  /\ knownMacs = {} /\ knownWakes = {} /\ seeding = {}
  /\ enabledSince = {}

-----------------------------------------------------------------------------
WantedBy(m, types) == where[m] \in types \/ (where[m] = "unknown" /\ types # {})
Unwanted(m, types) == where[m] # "away" /\ ~WantedBy(m, types)

(* The clients of a publication; a poll that has not run, or whose site is *)
(* not listed, publishes none.                                             *)
Connected(published) == {m \in Mac : published /\ where[m] # "away"}
WakeableNow(published) == {m \in Mac : published /\ where[m] = "wired"}

OnceMore(n) == IF n = 2 THEN 2 ELSE n + 1

AddedTrackers(counts, ids) == [id \in TrackerId |-> IF id \in ids THEN OnceMore(counts[id]) ELSE counts[id]]
AddedWakes(counts, macs) == [m \in Mac |-> IF m \in macs THEN OnceMore(counts[m]) ELSE counts[m]]

(* A new Wake button is registered as disabled.                            *)
Registered(macs) == [m \in Mac |-> IF m \in macs /\ wakeRows[m] = "none" THEN "disabled" ELSE wakeRows[m]]

(* _migrate_tracker_unique_ids: a bare row is renamed unless the name is   *)
(* taken.                                                                  *)
Migrated ==
  {id \in trackerRows : id.form = "prefixed" \/ Prefixed(id.mac) \in trackerRows}
  \cup {Prefixed(id.mac) : id \in {row \in trackerRows : row.form = "bare"}}

(* The rows that survive setting up with these types: all but those of a   *)
(* client that is connected another way.                                   *)
Surviving_Connected(published, types) ==
  IF types = {} THEN {}
  ELSE {id \in Migrated : id.mac \in Connected(published) /\ WantedBy(id.mac, types)}

Surviving(published, types) ==
  IF types = {} THEN {}
  ELSE {id \in Migrated : ~(id.mac \in Connected(published) /\ Unwanted(id.mac, types))}

NewTrackers(published, types, known) ==
  {Prefixed(m) : m \in {c \in Connected(published) : WantedBy(c, types) /\ c \notin known}}

-----------------------------------------------------------------------------
ClientMoves(m, place) ==
  /\ where[m] # place
  /\ where' = [where EXCEPT ![m] = place]
  /\ UNCHANGED <<tracks, control, setups, running, trackedTypes, trackerRows, wakeRows, trackers,
                 wakes, knownMacs, knownWakes, seeding, enabledSince>>

(* The options flow; the entry is then reloaded, but not at once.          *)
OptionsChange(types, controls) ==
  /\ tracks' = types /\ control' = controls
  /\ UNCHANGED <<where, setups, running, trackedTypes, trackerRows, wakeRows, trackers, wakes,
                 knownMacs, knownWakes, seeding, enabledSince>>

(* Home Assistant then reloads the entry, some time later.                 *)
UserSwitchesWake(m) ==
  /\ wakeRows[m] # "none"
  /\ wakeRows' = [wakeRows EXCEPT ![m] = IF @ = "enabled" THEN "disabled" ELSE "enabled"]
  /\ enabledSince' = enabledSince \cup {m}
  /\ UNCHANGED <<where, tracks, control, setups, running, trackedTypes, trackerRows, trackers, wakes,
                 knownMacs, knownWakes, seeding>>

(* Both platforms are set up. Wake buttons with an enabled row come back   *)
(* whether or not the console is asked for its history; those the user     *)
(* has disabled only while their client is connected.                      *)
RestoredWakes(published) ==
  {m \in Mac : wakeRows[m] = "enabled" \/ (wakeRows[m] = "disabled" /\ m \in Connected(published))}

SetUp(published) ==
  /\ ~running /\ setups < MaxSetups
  /\ running' = TRUE /\ setups' = setups + 1 /\ trackedTypes' = tracks
  /\ LET kept == Surviving(published, tracks)
         keptMacs == {id.mac : id \in kept}
         new == NewTrackers(published, tracks, keptMacs)
     IN
     /\ trackerRows' = kept \cup new
     /\ trackers' = AddedTrackers([id \in TrackerId |-> 0], kept \cup new)
     /\ knownMacs' = keptMacs \cup {id.mac : id \in new}
  /\ IF control
     THEN LET restored == RestoredWakes(published)
              new == WakeableNow(published) \ restored
          IN  /\ wakes' = AddedWakes([m \in Mac |-> 0], restored \cup new)
              /\ knownWakes' = restored \cup new
              /\ wakeRows' = Registered(new)
              /\ seeding' = {[known |-> knownWakes']}
     ELSE /\ wakes' = [m \in Mac |-> 0] /\ knownWakes' = {} /\ seeding' = {}
          /\ wakeRows' = [m \in Mac |-> "none"]
  /\ enabledSince' = {}
  /\ UNCHANGED <<where, tracks, control>>

(* A publication. Trackers follow the options of the setup, buttons the    *)
(* current ones.                                                           *)
ClientsPublished ==
  /\ running
  /\ LET new == NewTrackers(TRUE, trackedTypes, knownMacs) IN
       /\ trackerRows' = trackerRows \cup new
       /\ trackers' = AddedTrackers(trackers, new)
       /\ knownMacs' = knownMacs \cup {id.mac : id \in new}
  /\ LET new == IF control THEN WakeableNow(TRUE) \ knownWakes ELSE {} IN
       /\ wakes' = AddedWakes(wakes, new)
       /\ knownWakes' = knownWakes \cup new
       /\ wakeRows' = Registered(new)
  /\ UNCHANGED <<where, tracks, control, setups, running, trackedTypes, seeding, enabledSince>>

(* _async_seed_wake_history: the history names clients seen on a wire not  *)
(* long ago. Who is known is looked up after the answer.                   *)
SeedKnown_BeforeTheAnswer(seed) == seed.known
SeedKnown(seed) == knownWakes

HistoryAnswers(seed, recent) ==
  /\ seeding' = {}
  /\ LET new == recent \ SeedKnown(seed) IN
       /\ wakes' = AddedWakes(wakes, new)
       /\ knownWakes' = knownWakes \cup new
       /\ wakeRows' = Registered(new)
  /\ UNCHANGED <<where, tracks, control, setups, running, trackedTypes, trackerRows, trackers,
                 knownMacs, enabledSince>>

HistoryFails ==
  /\ seeding # {}
  /\ seeding' = {}
  /\ UNCHANGED <<where, tracks, control, setups, running, trackedTypes, trackerRows, wakeRows,
                 trackers, wakes, knownMacs, knownWakes, enabledSince>>

(* Unloading cancels the entry's background tasks.                         *)
ClientsUnload ==
  /\ running
  /\ running' = FALSE /\ seeding' = {}
  /\ UNCHANGED <<where, tracks, control, setups, trackedTypes, trackerRows, wakeRows, trackers,
                 wakes, knownMacs, knownWakes, enabledSince>>

ClientRowsNext ==
  \/ \E m \in Mac, place \in Place : ClientMoves(m, place)
  \/ \E types \in SUBSET Type, controls \in BOOLEAN : OptionsChange(types, controls)
  \/ \E m \in Mac : UserSwitchesWake(m)
  \/ \E published \in BOOLEAN : SetUp(published)
  \/ ClientsPublished \/ HistoryFails \/ ClientsUnload
  \/ \E seed \in seeding, recent \in SUBSET Mac : HistoryAnswers(seed, recent)

ClientRowsSpec == ClientRowsInit /\ [][ClientRowsNext]_clientVars

-----------------------------------------------------------------------------
(* An entity is added once: retained and new trackers, restored, connected *)
(* and remembered clients never meet on one unique ID. Every tracker's row *)
(* and, in a session with client control, every Wake button that setup     *)
(* found enabled has its entity, whether or not its client is there.       *)
OneEntityEach ==
  running =>
    /\ \A id \in TrackerId : trackers[id] = (IF id \in trackerRows THEN 1 ELSE 0)
    /\ \A m \in Mac : wakes[m] <= 1
    /\ control => \A m \in Mac : 
                    wakeRows[m] = "enabled" /\ m \notin enabledSince => wakes[m] = 1

(* "A client merely missing from the connected-client snapshot is NOT      *)
(* evidence that its tracker should go": a client loses its tracker only   *)
(* when nothing is tracked or it is seen connected in another way.         *)
AbsentClientsAreTracked ==
  [][\A lost \in trackerRows \ trackerRows' :
       \/ tracks = {} \/ Unwanted(lost.mac, tracks)
       \/ Prefixed(lost.mac) \in trackerRows']_clientVars

(* Both: the entities of clients are there, once, until they have to go.   *)
ClientEntitiesAreKept == []OneEntityEach /\ AbsentClientsAreTracked

=============================================================================
