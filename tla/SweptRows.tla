----------------------------- MODULE SweptRows -----------------------------
(***************************************************************************)
(* Rows of the entity registry that setting up an entry may delete. The    *)
(* registry outlives the entry and holds what the user made of an entity:  *)
(* its name, its area. A platform discovers entities at every publication  *)
(* and, once, after its first pass, sweeps rows whose object seems to be   *)
(* gone: switches of network rules (switch.py) and sensors of switch ports *)
(* (sensor.py). What the first refresh of the coordinators could not read  *)
(* must not look like something that is gone.                              *)
(***************************************************************************)
EXTENDS Naturals, FiniteSets

CONSTANTS
  NetSite,
  RuleName,
  Prefix,    \* sites whose ID starts every other site's
  PortDevice,
  PortIndex,
  MaxLoads   \* bound: how often the entry is set up

ASSUME SweptAssumption == Prefix \subseteq NetSite /\ MaxLoads \in Nat

VARIABLES
  platform,   \* fixed at Init: whose rows, "switch" or "sensor"
  signalled,  \* fixed at Init: a section whose failed fetch shows in its availability
  ruleAt,     \* console: per rule, see SwitchState
  portAt,     \* console: per device and port, see PortState
  loads,      \* how often the entry was set up
  isLoaded,
  rows,       \* the registry's, with what the user made of each
  entities,   \* of this session; the keys of known_switch_keys, known_sensor_keys
  shown,      \* the published objects that are to have an entity
  aliases,    \* _site_aliases: devices this session has seen in the v1 list
  setUpFrom   \* history: the device list the last setup read

sweptVars == <<platform, signalled, ruleAt, portAt, loads, isLoaded, rows, entities, shown,
               aliases, setUpFrom>>

(* A bare rule lacks the flag its switch shows; a hidden one is built in.  *)
SwitchState == {"absent", "on", "bare", "hidden"}
PortState == {"none", "down", "up"}
Gone == [p \in PortIndex |-> "none"]

(* A device is known by its ID of the v1 list or by the one of the legacy  *)
(* list, which takes its place while the v1 list fails.                    *)
PortRow == [device : PortDevice, id : {"v1", "legacy"}, port : PortIndex]
NetRule == [site : NetSite, name : RuleName]

SweptInit ==
  /\ platform \in {"switch", "sensor"}
  /\ signalled \in (IF platform = "switch" THEN BOOLEAN ELSE {TRUE})
  /\ ruleAt = [r \in NetRule |-> "absent"]
  /\ portAt = [d \in PortDevice |-> Gone]
  /\ loads = 0 /\ isLoaded = FALSE
  /\ rows = {} /\ entities = {} /\ shown = {}
  /\ aliases = {} /\ setUpFrom = "none"

-----------------------------------------------------------------------------
(* Rules. A refresh asks every site; `answered` are the sites that answer, *)
(* all of them `listed` by the config coordinator.                         *)

(* discover_network_rule_switches: hidden and bare rules get no switch.    *)
RulesShown(answered) ==
  {r \in NetRule : /\ ruleAt[r] = "on"
                   /\ r.site \in answered}

(* A failed fetch of a section with a signal publishes its previous rules, *)
(* of one without a signal none.                                           *)
RulesKept(listed, answered) ==
  IF signalled THEN {r \in shown : r.site \in listed \ answered} ELSE {}

(* _stale_switch_unique_ids: only a site whose answer lists something is   *)
(* evidence, and only for a row that no other known site claims.           *)
Listing(answered) == {r \in NetRule : ruleAt[r] # "absent" /\ r.site \in answered}

Qualified_Empty(listed, answered) ==
  IF signalled THEN answered ELSE listed

Qualified(listed, answered) ==
  {s \in (IF signalled THEN answered ELSE listed) : \E r \in Listing(answered) : r.site = s}

Claims(r, listed) == {s \in listed : s = r.site \/ s \in Prefix}

StaleRules(listed, answered) ==
  {r \in rows \cap NetRule :
     /\ Cardinality(Claims(r, listed)) = 1
     /\ Claims(r, listed) \subseteq Qualified(listed, answered)
     /\ ~(r \in Listing(answered) /\ ruleAt[r] # "hidden")}

-----------------------------------------------------------------------------
(* Ports. The inventory of a refresh: `source` is the list that answered,  *)
(* "none" when the Network application is not usable; without the legacy   *)
(* list there are no port records. A device that this session has seen in  *)
(* the v1 list keeps its ID there when the legacy list takes over.         *)
IdOf(d, source, seen) == IF source = "legacy" /\ d \notin seen THEN "legacy" ELSE "v1"

ListedDevices(source) == IF source = "none" THEN {} ELSE {d \in PortDevice : portAt[d] # Gone}

Known(row, source, seen) ==
  row.device \in ListedDevices(source) /\ row.id = IdOf(row.device, source, seen)

PortsRead(d, legacy) == IF legacy THEN {p \in PortIndex : portAt[d][p] # "none"} ELSE {}

PortRows(source, legacy, seen, state) ==
  {row \in PortRow : /\ Known(row, source, seen)
                     /\ row.port \in PortsRead(row.device, legacy)
                     /\ portAt[row.device][row.port] = state}

SeenBy(source) == IF source = "v1" THEN ListedDevices(source) ELSE {}

(* The sweep of async_setup_entry. A device without port records says      *)
(* nothing about its ports.                                                *)
StalePorts_NoRecords(source, legacy, created) ==
  {row \in rows \ (NetRule \cup created) :
     ~Known(row, source, {}) \/ row.port \notin PortsRead(row.device, legacy)}

StalePorts(source, legacy, created) ==
  {row \in rows \ (NetRule \cup created) :
     \/ ~Known(row, source, {})
     \/ /\ PortsRead(row.device, legacy) # {}
        /\ row.port \notin PortsRead(row.device, legacy)}

-----------------------------------------------------------------------------
ConsoleChangesRule(r, state) ==
  /\ platform = "switch" /\ ruleAt[r] # state
  /\ ruleAt' = [ruleAt EXCEPT ![r] = state]
  /\ UNCHANGED <<platform, signalled, portAt, loads, isLoaded, rows, entities, shown,
                 aliases, setUpFrom>>

ConsoleChangesDevice(d, ports) ==
  /\ platform = "sensor" /\ portAt[d] # ports
  /\ portAt' = [portAt EXCEPT ![d] = ports]
  /\ UNCHANGED <<platform, signalled, ruleAt, loads, isLoaded, rows, entities, shown,
                 aliases, setUpFrom>>

(* Setting up the switch platform: discovery, then the one sweep. New rows *)
(* are registered by a task of their own, after both.                      *)
LoadSwitches(listed, answered) ==
  /\ platform = "switch" /\ ~isLoaded /\ loads < MaxLoads
  /\ loads' = loads + 1 /\ isLoaded' = TRUE
  /\ shown' = RulesShown(answered)
  /\ entities' = shown'
  /\ rows' = (rows \ StaleRules(listed, answered)) \cup entities'
  /\ UNCHANGED <<platform, signalled, ruleAt, portAt, aliases, setUpFrom>>

(* A publication: what it shows for the first time gets an entity.         *)
RulesPublished(listed, answered) ==
  /\ platform = "switch" /\ isLoaded
  /\ shown' = RulesShown(answered) \cup RulesKept(listed, answered)
  /\ entities' = entities \cup shown'
  /\ rows' = rows \cup (shown' \ entities)
  /\ UNCHANGED <<platform, signalled, ruleAt, portAt, loads, isLoaded, aliases, setUpFrom>>

(* The sensor platform's first pass also brings back the sensors of down   *)
(* ports that have a row.                                                  *)
LoadSensors(source, legacy) ==
  /\ platform = "sensor" /\ ~isLoaded /\ loads < MaxLoads
  /\ source = "legacy" => legacy
  /\ loads' = loads + 1 /\ isLoaded' = TRUE
  /\ aliases' = SeenBy(source) /\ setUpFrom' = source
  /\ shown' = PortRows(source, legacy, {}, "up")
  /\ entities' = shown' \cup (rows \cap PortRows(source, legacy, {}, "down"))
  /\ rows' = (rows \ StalePorts(source, legacy, entities')) \cup entities'
  /\ UNCHANGED <<platform, signalled, ruleAt, portAt>>

PortsPublished_Unheard(source, legacy) ==
  /\ platform = "sensor" /\ isLoaded
  /\ source = "legacy" => legacy
  /\ aliases' = aliases \cup SeenBy(source)
  /\ shown' = PortRows(source, legacy, aliases, "up")
  /\ UNCHANGED <<platform, signalled, ruleAt, portAt, loads, isLoaded, rows, entities, setUpFrom>>

PortsPublished(source, legacy) ==
  /\ platform = "sensor" /\ isLoaded
  /\ source = "legacy" => legacy
  /\ aliases' = aliases \cup SeenBy(source)
  /\ shown' = PortRows(source, legacy, aliases, "up")
  /\ entities' = entities \cup shown'
  /\ rows' = rows \cup (shown' \ entities)
  /\ UNCHANGED <<platform, signalled, ruleAt, portAt, loads, isLoaded, setUpFrom>>

EntryUnloads ==
  /\ isLoaded
  /\ isLoaded' = FALSE /\ entities' = {} /\ shown' = {}
  /\ UNCHANGED <<platform, signalled, ruleAt, portAt, loads, rows, aliases, setUpFrom>>

SweptNext ==
  \/ \E r \in NetRule, state \in SwitchState : ConsoleChangesRule(r, state)
  \/ \E d \in PortDevice, ports \in [PortIndex -> PortState] : ConsoleChangesDevice(d, ports)
  \/ \E listed \in {{}, NetSite} : \E answered \in SUBSET listed :
       LoadSwitches(listed, answered) \/ RulesPublished(listed, answered)
  \/ \E source \in {"v1", "legacy", "none"}, legacy \in BOOLEAN :
       LoadSensors(source, legacy) \/ PortsPublished(source, legacy)
  \/ EntryUnloads

SweptSpec == SweptInit /\ [][SweptNext]_sweptVars

-----------------------------------------------------------------------------
(* "An EMPTY collection is never sufficient evidence to prune": the row of *)
(* a rule's switch, and with it what the user made of it, is lost only     *)
(* when the console no longer has the rule, or has made it a built-in one; *)
(* not because a fetch timed out, another site answered or none was listed.*)
RuleRowsAreKept ==
  [][\A r \in (rows \ rows') \cap NetRule : ruleAt[r] \in {"absent", "hidden"}]_sweptVars

(* What is published has an entity: also a rule that got its flag, or a    *)
(* port that came up, after the entry was set up; and every entity has its *)
(* row, whatever the sweep took.                                           *)
EveryObjectHasAnEntity ==
  isLoaded => shown \subseteq entities /\ entities \subseteq rows

(* The row of a port's sensor outlives a port that is down, a failed       *)
(* legacy list and a reload. It is lost while the console still has        *)
(* the port only if the entry is set up without the Network application or *)
(* from the legacy list alone, which knows the device by another ID.       *)
PortRowsAreKept ==
  [][\A lost \in (rows \ rows') \ NetRule :
       \/ portAt[lost.device][lost.port] = "none" \/ lost.id = "legacy"
       \/ setUpFrom' # "v1"]_sweptVars

(* Rows of living objects are kept, and every shown object has an entity.  *)
LivingRowsAreKept == RuleRowsAreKept /\ PortRowsAreKept /\ []EveryObjectHasAnEntity

(* "purging the registry on it would lose devices": the sensor of a port   *)
(* that the console still has is not purged because a setup could not read *)
(* the inventory.                                                          *)
UnreadPortsAreKept ==
  [][\A row \in (rows \ rows') \ NetRule :
       row.id = "v1" => portAt[row.device][row.port] = "none"]_sweptVars

=============================================================================
