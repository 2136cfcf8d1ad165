# A TLA+ model of unifi_insights

`custom_components/unifi_insights` is a Home Assistant integration for UniFi
consoles. It polls the Network, Protect, Access, Site Manager, Mobility, Carrier
Fabric and InnerSpace APIs, listens to Protect's and Access's WebSocket streams,
keeps what it learns in coordinators, and sends commands. All of it runs in one
asyncio loop: two pieces of code interleave only at an `await`, and between two
awaits everything is atomic. What makes the code hard is what happens across
those awaits: an answer that was overtaken by a frame, two readers of the same
collection, a command whose effect and whose confirmation are seconds apart, a
counter that decides whether a device is deleted for good.

This directory models the parts whose state outlives one call, or whose calls
read state that others change, checks them with TLC on small instances, and
proves the most important invariants with TLAPS for every value of the constants.

## 1. Inventory

Paths are below `src/custom_components/unifi_insights/`. The bold name is the module
that models the part; what has none is left out for the reason given or in section 7.

| Part | State it keeps | Operations | What is hard, and what must hold |
|---|---|---|---|
| Protect reconciler `coordinators/protect_events.py` (pure: input -> effects) with its shell `coordinators/protect.py` | cached collections, per family generations, counters, sensor tracking, siren stops, events, tamper records | poll (30 s), reconcile timer, device frames, event frames, reconnect refresh, command overlays | unordered answers, lost frames, absorbed errors, devices that leave |
| - sensors: frames against answers | `SensorTracking` | `_apply_device_frame`, `_preserved_groups` | an overtaken answer must not undo a frame, and nothing may wedge: **SensorPreservation** |
| - sirens and the manual stop | `siren_stops`, `ws_generation["sirens"]` | `mark_siren_stopped`, `_apply_siren_stop_guards` | a stale reading must not switch a stopped siren on, a new run must not be hidden: **SirenGuard** |
| - device families and stale devices | `FamilyTracking`, device registry, the platforms' known ids | `_update_collection`, `_absorb_transient_error`, `_evict_missing_devices`, discovery | removal cannot be undone, so it needs evidence and a grace window: **FamilyCache** |
| - event frames: latches | a latch per camera or light | `_apply_start_end`, `_expire_stale_latches`, `_drop_rebuilt_latches` | lost ends, rebuilt records; a sensor must not stay on: **EventLatches** |
| - event frames: store, digital inputs | `data["events"]`, `event_seen`, `events_swept_at` | `_apply_event_frame`, `_sweep_event_store`, `_apply_digital_input_event` | late and repeated frames against a bounded store: **EventStore** |
| - alarm hub tamper | `TamperRecord` per alarm hub | `_apply_tamper_event`, `_overlay_tamper_records` | REST lags the stream, a false all-clear: **TamperOverlay** |
| - sensor refresh coalescing and tasks | in-flight task, pending flag, debouncer, timers | `async_refresh_sensors`, `async_stop_websocket`, `async_shutdown` | what is asked for during a fetch is owed; cancellation spreads to awaiters: **SensorRefresh** |
| - alarm panel, global alarm manager | arm mode, probe result, `_global_alarm_manager_probe_after` | `_probe_global_alarm_manager`, `_async_send_arm_command` | probes racing each other and a command's refusal: **GlobalAlarmManager** |
| - stream `coordinators/protect_ws.py` | connection health | parse, connect, disconnect | parsing of envelopes |
| Network devices `coordinators/device.py`, `data_transforms.py` | devices, stats, radio and VPN data, port byte samples, reuse counters | poll, statistics, rates | old readings bridge failed ones for a bounded number of polls; a rate must not be made from a counter that restarted: **DevicePoll** |
| - outlets of a PDU (with `switch.py`) | the cached arrays, `_pending_outlet_writes`, `_outlet_payload_provenance` | `async_set_outlet_state`, reconciling a poll, judging its arrays | one document for all outlets, reported late: a write must not switch other outlets back, nor stick when it never happened: **OutletWrites** |
| - stale devices (with `base.py`) | source, tracked ids, absence counts and aliases of each site, device registry | `_cleanup_stale_devices` | two lists, ids that change with the source, failed checks; removal cannot be undone: **StaleDevices** |
| Network configuration `coordinators/config.py`, `config_sections.py`: vouchers | inventories, newest voucher, request and commit numbers | poll, generate, delete | an inventory read before a command and committed after it: **Vouchers** |
| - classic site names | the mapping, the time of the last look-up | poll, on-demand look-up | a failing look-up must not be repeated at every write: **LegacyNames** |
| - rule toggles (with `switch.py`) | rules of a section, failed sections, retries | toggle, refresh, retry, poll | a write that could not be read back: **RuleToggles** |
| Rule audit `coordinators/rule_audit.py`, `event.py` | baseline, numbered changes in a bounded buffer | a diff per refresh, one event per change | a failed or doubtful section is not a deletion; refreshes overlap: **RuleAudit** |
| Access `coordinators/access.py`: emergency modes | the lock | `async_set_emergency_mode`, `emergency_target` | a pair only taken whole; failed and late writes: **AccessEmergency** |
| - tasks and socket | update lock, tracked refreshes and reads, debounce timer, socket task, `auth_failed` | poll, debounced refresh, `_async_expire`, `async_stop_websocket`, `async_shutdown` | two stops meeting, a stop met by a task it stops, reads after the client is closed: **AccessSession** |
| Access webhook `access_webhook.py`: receiver | replay cache, receiver, handlers reading a body | verify, admit once, dispatch, register, unregister | the edges of the window, a full cache, reloads: **AccessWebhook** |
| - endpoint on the console | stored endpoint id, the console's list | publish, adopt, disable, retire, move | lost answers, deletions, URL changes: **AccessEndpoint** |
| Site Manager accounts `coordinators/site_manager.py` | `_ACCOUNT_REGISTRY`: one client and coordinator per API key, reference counts | acquire, first refresh, release | two entries at once, a key that changes, an acquire during a close: **SharedAccount** implements **AccountLease** |
| Mobility `coordinators/mobility.py` | `_OWNERS`: the entry of each key | take, release, hand over | at most one poller per key, and one in the end: **MobilityOwner** implements **SolePoller** |
| Carrier Fabric `coordinators/carrier_fabric.py`, `service_targets.py` | one list of subscribers per account | suspend, resume, poll | the right account, one retry, what is shown after the call: **CarrierFabric** |
| Entry life cycle `__init__.py`, `probe.py` | probe results, retry budgets, what the entry started | setup, retry, unload | an attempt that fails half-way; budgets that outlive attempts: **EntrySetup** |
| Facade `coordinators/facade.py`, InnerSpace `innerspace.py` | one snapshot, the memo of the correlated plans | rebuild when told, refresh on request, shutdown | coordinators publish at different times; a memo that is too old: **FacadeView** |
| Identity `config_flow.py`, `console_identity.py` | unique ids, console ids, registry rows | add, discover, reconfigure, rename rows with undo | an entry that comes to stand for another console; half-renamed rows: **EntryIdentity**, **SiteRows** |
| Entity platforms `sensor.py`, `switch.py`, `button.py`, `device_tracker.py`, ... | registry rows, the keys known in a session | discovery, sweep after setup | a row removed because something was not read; an entity added twice: **SweptRows**, **ClientRows** |
| Services `services.py`, `service_targets.py` | none of their own, they read caches and registries | route a call, work through all consoles | caches and rows behind the consoles, two consoles with one site id: **ProtectTargets**, **NetworkTargets**, **BatchActions** |
| Dashboard `websocket_api.py`, `dashboard_snapshots.py`, `topology.py` | subscriptions, unload watchers | subscribe, tell, send, end | a stream that stays behind, one that survives its entry: **DashboardStreams** |
| Diagnostics | none | a redacted dump | |

How they interact: the shell of each coordinator awaits a request and then
calls one synchronous function that changes the cache; listeners (entities,
discovery callbacks) run inside that call. Frames arrive as callbacks between
awaits. Effects the reconciler asks for (remove a device, re-arm the poll timer,
refresh sensors) are executed by `protect.py` right after the step. The facade
listens to all coordinators of a console and tells entities, dashboard streams and the
discovery callbacks of the platforms; services read the coordinators' caches and the
registries when they are called. Entries share the account registry and the Mobility
owners, which are module-level.

## 2. Modules

| Module | Models | Source |
|---|---|---|
| `SensorPreservation` | one sensor: console, stream, one `/sensors` request, the preservation rules | `protect_events.py` 870-962, 1558-1708; `protect.py` 1094-1141 |
| `SirenGuard` | one siren: console, stream, poll and reconcile timer, the stop command and its guard | `protect_events.py` 284-320, 714-723, 1320-1388, 1835-1903; `protect.py` 646-661, 1298-1377, 1400-1450, 1723-1730 |
| `FamilyCache` | one family of devices: answers of every kind, counters, eviction, registry, discovery, reload | `protect_events.py` 1320-1516, 1764-1831; `protect.py` 626-661, 930-1141; `camera.py` 56-86 |
| `EventLatches`, `EventStore`, `TamperOverlay` | one latch; the event store; one alarm hub | `protect_events.py` event and sweep functions, `protect.py` poll |
| `SensorRefresh`, `GlobalAlarmManager` | who fetches sensors when; is the panel true | `protect.py` |
| `AccessEmergency`, `AccessSession` | emergency commands; tasks and stopping | `coordinators/access.py`, `access_events.py`, `__init__.py` |
| `AccessWebhook`, `AccessEndpoint` | deliveries; the endpoint | `access_webhook.py`, `config_flow.py`, `__init__.py` |
| `OutletWrites`, `StaleDevices` | the outlets of one PDU; the clean-up of one site | `coordinators/device.py` 256-788, 1597-2140, 2211-2391, 2441-2620; `switch.py` 970-1055 |
| `DevicePoll` | a poll of the Network devices of a site | `coordinators/device.py` 805-2210; `data_transforms.py` |
| `Vouchers`, `LegacyNames`, `RuleToggles` | the hotspot vouchers, the classic name and the toggled rules of one site | `coordinators/config.py` 106-1102; `config_sections.py` 293-473; `base.py` 80-296 |
| `RuleAudit` | the audit of one family of rules | `coordinators/rule_audit.py` 103-355; `config.py` 246-601; `event.py` 853-937 |
| `SharedAccount`, `AccountLease` | the account registry; what it promises | `coordinators/site_manager.py` 200-268; `config_flow.py` 960-992; `__init__.py` 700-910 |
| `MobilityOwner`, `SolePoller` | who polls Mobility; what that promises | `coordinators/mobility.py` 214-317; `__init__.py` 709-1149; `config_flow.py` 960-992 |
| `EntrySetup` | the setup, retries and unload of one entry | `probe.py` 42-214; `__init__.py` 101-917; `config_flow.py` 913-958 |
| `EntryIdentity`, `SiteRows` | which console an entry stands for; its rows when that changes | `console_identity.py` 59-397; `config_flow.py` 276-1168; `__init__.py` 608-1142 |
| `FacadeView` | the snapshot of a console | `coordinators/facade.py` 228-685; `innerspace_transforms.py` 428-604 |
| `ProtectTargets`, `NetworkTargets` | where a service call goes | `service_targets.py` 70-1843; `protect.py` 232-1072; `device.py` 859-2044; `services.py` 600-996 |
| `BatchActions` | the calls that work through all consoles | `services.py` 98-790; `service_targets.py` 1582-1645; `facade.py` 705-719 |
| `CarrierFabric` | calls to Carrier Fabric accounts | `coordinators/carrier_fabric.py` 84-282; `service_targets.py` 1318-1488; `services.py` 501-573 |
| `DashboardStreams` | the streams to the cards, the topology | `websocket_api.py` 110-1186; `topology.py` 490-749; `dashboard_snapshots.py` 161-986 |
| `SweptRows`, `ClientRows` | rows of rules and ports; rows of clients | `sensor.py` 991-1586; `switch.py` 103-1512; `button.py` 96-712; `device_tracker.py` 54-320; `client_wake.py` 78-115 |
| `MCPolls`, `MCLive`, `MCSteps`, `MCEntry`, `MCServices` | compositions for TLC | |
| `SensorPreservation_proofs`, `SirenGuard_proofs`, `FamilyCache_proofs` | theorems about the module of that name | |
| `Events_proofs`, `Requests_proofs`, `Network_proofs`, `Entry_proofs` | theorems about Protect's events, refreshes and alarm panel; Access, services, facade and dashboard; the Network coordinators; entries | |

Each action is one atomic stretch of the code, from an `await` to the next. A
definition whose name is another's with a suffix after an underscore
(`Gone_AtTheLimit`) is that definition with a plausible mistake in it; no action
uses it, it shows which property notices.

**SensorPreservation.** `reported[g]` counts the changes of group `g` at the
console; its parity is the state and the number is the timestamp. A frame carries
some groups in stream order, possibly late or repeated, a door frame possibly
without its timestamp. `BeginRequest` takes the stamp, `ConsoleAnswers` produces
the answer, `ApplyAnswer` is `_preserved_groups` for every group at once.
`restLags` is fixed at the start of a behaviour: whether `/sensors` itself may
serve older states. The model has one request at a time. Coalescing gives that
but for one gap, seen in `SensorRefresh`: a caller that arrives after a fetch has
ended and before its owner ran on owns a second fetch, and if the owner loops,
both are in flight (the docstring's "at most 2 REST calls per burst" counts one
owner). Two fetches at once are not modelled here.

**SirenGuard.** A run is its number, standing for `activatedAt`. The poll and,
once `StreamStarts`, the reconcile timer each have a request in flight; a frame
bumps the generation and voids both. `StopAtConsole` and `MarkStopped` are the
two ends of `async_stop_siren`'s await. Every siren batch, also one that brings
no status, runs the guards over what is cached, as the code does.

**FamilyCache.** `family` is fixed at the start: families differ in whether
transient errors are counted (`_TRANSIENT_ABSORBING_FAMILIES`) and whether the reconcile
timer reads them too. `GoodAnswer`, `BadAnswer` and `BadError` are the kinds of
outcome `_read_device_family` passes on: whole, partial, empty, 404, error.
`PollFailsElsewhere` is a later family failing the poll. `PollCompletes` is
eviction, its effects and the discovery that follows. `lackedBy`, `absent`,
`counted` and `silent` are history.

**EventLatches.** `record` keeps of a cached record what `_apply_start_end` and the
sensor read: is it there, has it a start (a record rebuilt from REST has none),
has it ended. A frame writes both fields. `DeviceFrame`, `SweepOnly` and `PollStarts`
are the inputs that sweep. `gap` is the age of the poll timer, which a device
frame re-arms, `onFor` the history the property is about.

**EventStore.** `Sweep` is `_sweep_event_store` and part of every input, as in the
code. `EventArrives` stores a new event that is not history and dispatches its
digital input in the same step; any event may arrive at any time, any number of
times. `ahead` is how far the console's clock is ahead.

**TamperOverlay.** `tampered` counts the changes at the console, `tamper` is the
record. `TamperFrame` may carry an older status or none; `ApplyAsk` overlays the
record on an answer, or on the cache when the request failed.

**SensorRefresh.** A fetch is named by its owner. `Enter` is the synchronous head
of `async_refresh_sensors`, `FetchEnds` the end of the shielded task, which wakes
its awaiters one by one (`Resumes`). `CancelAll` is
`_cancel_sensor_background_task` for every driver, in `async_stop_websocket` and again in
`async_shutdown`. `debouncer` models Home Assistant's `Debouncer` as it is used.

**GlobalAlarmManager.** `Turn` is the probe up to its await, `Returns` and `Fails`
what follows it, `Refused` and `MarkEnabled` an arm command the console refuses.
Arming itself is one request and keeps no state.

**AccessEmergency.** One action per await of `async_set_emergency_mode`: waiting for the
lock, the read, the write, the read-back, the refresh. `late` holds writes whose
answer never came and which the console may still apply; `touched` is history.

**AccessSession.** `Over` is the end of a task by any way: it gives up the lock and its
read ends. `Stop` and `Settle` are the two halves of `async_stop_websocket`, called by
`_async_expire` from whichever task met the 401 and by unloading. `waits` is the set
`asyncio.wait` was given.

**AccessWebhook.** `reading` are handlers awaiting their body, `Handles` the
synchronous rest. The cache lives with the entry, `receiver` and `accepting` with the
coordinator, so a reload turns a reading handler's `current` off. A restart
empties the cache, as the code documents, and begins `dispatched` anew.

**AccessEndpoint.** `setup` walks through `_async_publish_endpoint` and
`_async_disable`; every request may be carried out and its answer lost. A reconfigure
flow's move (`LeaveStarts`, `LeaveEnds`) runs beside it. `strayed` is the history of
the two ways an endpoint is knowingly left behind (section 6).

**OutletWrites.** `config` is what the controller wants, `reported` the two arrays the
next answer carries; each outlet of each array catches up by itself, at most `MaxLag` after a
change (the answer's way included). A poll is two steps, because it holds the refresh lock
from start to end: `PollStarts` takes it, `Completes(raw)` judges the raw arrays and lays the
pending writes over them. `Incomplete` are the raw arrays that lack something. A command is
three steps: `Calls` reads the relay state a cycle write repeats, `Sends` takes the lock,
builds the array and passes or refuses it, `PutSucceeds` or `PutFails` ends the request under the
same lock. There is one command at a time because the switch platform has
`PARALLEL_UPDATES = 1` (`switch.py` 78). `fresh` is history: the cells whose present value
Home Assistant wrote with success or was told of. An outlet's name and a source switch,
which starts provenance anew, are left out.

**StaleDevices.** A poll is one step: nothing is awaited between its answers and the
clean-up. It carries the devices of the primary list and those of the classic list, `{}`
when the cross-check failed or came back empty. `IdsOf` gives a device its v1 id or, on a fallback
without an alias, an id of its own. `entries` are the ids that may have a registry entry.
`misses` is history: the polls in a row whose lists could have shown the device and did not.

**DevicePoll.** A poll walks through `ListsAnswer`, per device `StatisticsAnswer` and
`RadiosAnswer`, and ends in `UpdateSucceeds` or `UpdateFails`, which publishes everything or
nothing. `faulty`, fixed at the start, names the one kind of reading that may fail in a
behaviour. `sample` is the last byte count of a port; a device that restarts counts
from zero. `history` counts the failed attempts since the published reading was made.
Ports and outlets of the legacy record are merged without a property about it.

**Vouchers.** A fetch takes a number from `requestSeq` before it asks; a commit below
`committedSeq` is dropped. `PollAsks`, `PollFetched` and `PollCommits` are the poll,
`Generates`/`Deletes`, `CommandAnswered` and `CommandFetched` a command with the fetch that follows it; a fetch
that fails yields a copy of what is published. `confirmed` is the newest change whose own
fetch was committed.

**LegacyNames.** The poll looks the classic sites up early and publishes the mapping when it commits.
`WriteAsks`, `TakesLock` and `LookupAnswered`/`LookupFails` are the on-demand look-up under its lock;
`FindsItAsked` is the check repeated after the lock was waited for.

**RuleToggles.** `keepsLast` tells the two kinds of sections apart: those that keep their rules after a
failed fetch, and routes and VPN clients, which become empty. The poll, the
refresh after a write and the retry each read and commit the section on their own; `unread` says that
the family of a written rule could not be read back.

**RuleAudit.** `Process` is `RuleAuditTracker.process` with the baseline, the doubtful empty answer
(`pendingEmpty`) and the numbering; `EntityFires` the entity's catching up with the buffer. `told` is
history: the rules as a listener of the events would put them together. Rules are compared as
a whole, and the order in which one refresh numbers its changes is left open.

**SharedAccount, AccountLease.** `Acquire` takes or creates the account of the entry's key,
`Release` and `Close` are the two halves of `async_release_account`: the account leaves the registry, its first
refresh is cancelled and awaited, the client is closed. Another entry may acquire the key in between and gets
a new account. `AccountLease` has no accounts: an entry leases a key, and a key is served while
somebody leases it. The refinement maps `serving` to the keys with an open account.

**MobilityOwner, SolePoller.** `SetUpMobility` takes a free key if the entry is the oldest enabled candidate;
`Unload` gives it back and, when the entry was disabled, schedules the reload of the next
candidate; `Delete` and `HandOverAfterRemoval` are the two callbacks of a removal. `SolePoller` maps a key to
the set of entries polling it.

**EntrySetup.** `step` walks through `async_setup_entry`: the three probes, the verdict, the first refreshes, what is
started and registered. `partial` and `inconclusive` are the retry budgets that outlive an attempt;
`Fails` is any exception, `live` and `registered` what then remains and what unloading ends.

**EntryIdentity.** `at` says which console answers at an address, and may change. `AddLocal` is
the user flow, `Discover` the identification during setup, `Reconfigure` the reconfigure flow up to its save or
to its wait for the Access webhook of the console it leaves, `MoveEnds` the save after that wait.

**SiteRows.** `Begin`, `Rename`, `AllRenamed` and `Save` are the transition, `RestoreRow`, `RestoreEntry` and
`RestoreEnds` its undo. A call that raises may have taken effect or not. `Adopt` is the first
namespace of an entry, `Migrate` the renaming of a legacy row by a platform.

**FacadeView.** An object of `data` stands for one published by a coordinator, numbered so that identity
and content can differ. `PublishPart` and `Overlay` publish inside a poll and from frames. `EndPoll` tells
the listeners unless the poll failed for the second time in a row. `RequestRefresh` polls the config
and device coordinators, Protect too unless the refresh is for one site, and never InnerSpace. The memo is valid while the
objects it was made from are the same ones.

**ProtectTargets, NetworkTargets.** A call is one step: routing awaits nothing. `known`, `wasRead` and
`listed` are the caches, which polls bring up to date one collection or one site at a time (`ReadCollection`,
`ReadSite`), `home` and `at` what is true at the consoles, `rows` what the registries say. `routed` and `sent` keep
the target until the caller has its answer. `PairDoorbells` is the pairing of a chime with doorbells, `ExportCall` the
calls for a console, a site or all of them.

**BatchActions.** `RemoveClients` and `RefreshData` begin a call, `HistoryRead`, `Forget` and `Refreshed` are its
requests and `Fail` their failures, which are noted and raised in the end. Clients are named, lose their names and come back between them.

**CarrierFabric.** `CarrierRequest` picks the account, `CarrierConflict` repeats the request once, `CarrierRefresh` and
`CarrierDone` are the poll before the call returns. Timer polls (`ReadList`, `PublishList`) run beside it.
`answering` holds the accounts whose `last_update_success` is true: a poll that fails (`PollFails`, `CarrierDone(FALSE)`)
keeps `shown` and takes the account out, which makes its entities unavailable (`entity.py` 778-818). The call
has succeeded all the same: `async_refresh` does not raise (`carrier_fabric.py` 266, 282).

**DashboardStreams.** `section` holds the objects a facade publishes, `Tell` is the facade calling its listeners; each stream
compares object identities, then contents. `hooked`, `watched` and `watchers` are the unload hook of an entry and the streams
it ends. `Graph` is the topology: the parent of each client from two lists read at different times, the edges
of devices that claim each other as uplink.

**SweptRows, ClientRows.** A setup and a publication are one step each. `LoadSwitches` and `LoadSensors` are the first pass of a
platform, which ends with the sweep, `RulesPublished` and `PortsPublished` later ones. `rows` outlive the entry, `entities` and
the `known` sets do not. In `ClientRows`, `HistoryAnswers` is the task a setup starts, which comes back while
publications add entities too.

The `MC` modules compose parts that share no variable: `part`, fixed at the start,
says which of them a behaviour moves, so that one run answers for all without the
product of their states. The theorems are about each part's own specification;
`ServicesAreSound` and `EntriesAreSound` take those of `MCServices` and `MCEntry` to the compositions. Where
a run's properties would be many, a part's promises are one property that
conjoins them, each with its own comment (`SetupIsSound`, `StreamsAreTrue`).

## 3. Runs

| Run | Shows | Bounds |
|---|---|---|
| `SirenGuard` | overtaken answers are void, new runs are believed, the true state shows in the end, and before the stream is started a stopped siren stays off | 2 requesters, 2 runs, 1 frame, 1 stop, timeout 1, time to live 1 |
| `SirenGuard_timer` | violation, finding 1 | 1 run, no frame |
| `FamilyCache` | no removal without answers that lacked the device, nor inside its grace window; cache and registry converge | 2 devices, a family with counted errors and one without, empty limit 1, missing limit 2, 1 change, 3 faults, 1 reload |
| `FamilyCache_evidence` | violation, finding 2 | |
| `FamilyCache_readopt` | violation, finding 3 | |
| `OutletWrites_cycle` | violation, finding 4 | guard 2, lag 1 |
| `SweptRows_unread` | violation, finding 5 | 1 device with 2 ports |
| `MCPolls` | `SensorPreservation`: an answer older than a frame undoes no frame before the cap, and the cache is never wrong for ever | the door group, caps 2 and 1 (10 and 3 in the code), 2 changes, 3 clock readings |
| | `OutletWrites`: a write changes nothing else Home Assistant knows of, and what is shown becomes the controller's | 2 outlets, one of them with power cycling, guard 1 and no lag, 2 commands or console changes |
| | `StaleDevices`: a device is removed only after enough polls that lacked it, and a gone device is removed | 2 devices, missing limit 2 |
| `MCLive` | `TamperOverlay`: no answer clears a newer tamper status, and the status shown becomes the console's | 3 tamper changes, 4 readings |
| | `SensorRefresh`: nothing asked for is forgotten, nobody joins a cancelled fetch, every call returns | poll, timer and reconnect, 2 loops |
| | `AccessSession`: stops settle and return, and no read follows the close | 2 debounced refreshes, poll, command, both ways to stop |
| `MCSteps` | `EventLatches`, `EventStore`: a motion sensor is never on for longer than timeout, poll interval and poll; the store keeps what the timeline shows, forgets the rest, dispatches an input once | timeout 3, interval 2, poll 2; 2 events, timeline 2, margin 2, sweep interval 1, 8 clock readings |
| | `GlobalAlarmManager`: the panel is true again within a re-probe, a turn and two requests | two askers, re-probe 3, back-off 1, turn 2, timeout 2 |
| | `AccessEmergency`, `AccessWebhook`, `AccessEndpoint`: commands keep the other mode; a result is sent once; the console holds one endpoint | 2 commands; 2 deliveries, cache of 1, age 2, skew 1, 5 seconds; 3 endpoint ids, 2 URLs |
| | `Vouchers`: no answer asked for before a confirmed change replaces it; the kept voucher never becomes redeemable again | 2 vouchers, a poll, 2 commands, 3 fetches, 3 changes |
| | `LegacyNames`: on-demand look-ups are a cooldown apart | 2 writers, cooldown 2, 4 look-ups, 4 ticks |
| | `RuleToggles`: a toggle that could not be read back has a retry | 1 rule of each kind of section, 2 writes |
| | `RuleAudit`: the events replay the rules | 2 rules, 2 overlapping refreshes, buffer 2, 2 edits, 1 empty answer, 3 reports |
| | `DevicePoll`: rates fit the line, reuse is bounded | 1 access point, reuse 1, radio interval 2, 5 clock readings |
| | `SweptRows`, `ClientRows`: rows of what the console still has are kept, entities are added once and follow the options | 2 sites, 2 rule names, 1 device with 2 ports, 2 setups; 1 client, 3 setups |
| `MCEntry` | `SharedAccount` implements `AccountLease`, and whoever is set up reads from an open account under its key | 2 entries, 2 keys, 4 accounts, 2 re-keys |
| | `MobilityOwner` implements `SolePoller`; a key given up is taken again | 3 entries, 2 keys, 2 changes by the user |
| | `EntrySetup`: verdicts need evidence, a failed attempt leaves nothing behind, an application that is down cannot keep a working one offline | budgets of 3, 1 failing refresh |
| | `EntryIdentity`: an entry stays with the console it was identified with; one entry per console | 2 entries, 2 consoles, 2 addresses, 4 edits |
| | `SiteRows`: rows and entry change together | 2 rows, 2 namespaces, 2 faults, 2 transitions |
| `MCServices` | `ProtectTargets`, `NetworkTargets`: a call goes to a console that has what it names as far as is known, or to none | 2 consoles each; 1 chime, 2 cameras, one shared title, 1 move; 2 sites, 1 device, 1 client, 1 move |
| | `BatchActions`: one failure stops nothing, known clients stay | 2 clients in 2 spots, 2 changes |
| | `FacadeView`: the snapshot is current, fits the plans, and a requested refresh shows the news | 2 sites in the plans, 2 published objects |
| | `CarrierFabric`: no account is guessed; a call that returns without an error shows its result, or the account is unavailable because the poll at its end failed | 2 accounts, 2 subscribers, 3 pieces of work |
| | `DashboardStreams`: streams are current, none outlives its entry, each ends once, the topology's parents end at a gateway | 2 streams, a gateway and a device, 1 roaming client, 2 ports, 2 pieces of work |

Why the bounds are enough: the caps and limits only matter by "below, at, above",
which the small values have; each bound on faults is one more than the limit it
must pass, so that every counter can both trip and be reset; clocks need a
reading before, at and after a stamp. Two commands, events, deliveries,
outlets, refreshes, entries or consoles are the least that can disturb each other, and the
code treats all of a kind alike; a cache of one is full with the first delivery;
three ids let one endpoint be lost, one adopted and one created; three entries let a key
pass over one that is not a candidate; four accounts let both keys be closed and acquired again; a setup must
follow one whose rows it finds. The proofs remove the bounds for the safety properties they cover.

The outlets' guard and lag are the least pair with the lag below the guard, as in the
code (3 to 15 s against 60 s); an answer may still be older than a change that follows it,
because the controller changes while it is on its way and `OutletTick` only bounds the
age. `WritesKeepEachOther` was also checked once with guard 2, lag 1 and 3 changes.

TLC's deadlock check is off where a behaviour may end: at the last reading of a bounded clock
or counter (`SirenGuard` and all `MC` modules), or with an unloaded coordinator. That nothing
hangs before is what `CallersAreServed`, `StopsSettleAndReturn`, `SetupIsSound` and the other liveness
properties say.

## 4. Fairness

The reconcile timer and the poll keep asking, so `BeginRequest`, `SendRequest`
and `StartPoll` are weakly fair, and so are the steps that follow an await whose
end the client's timeout guarantees. A console asked for ever answers for ever
(strong fairness of `ConsoleAnswers`): single requests may fail. For the poll
there is one assumption the code only makes likely: every device frame re-arms
the poll timer (`protect_events.py` 839-841), so frames must leave gaps longer than
the poll interval again and again. The reconcile timer is not re-armed.

`MCLive`: the same for the request for alarm hubs. A sensor fetch ends, because the client times
out, and the event loop runs what it has scheduled; nothing is assumed of who calls. A cancelled task is
told so and ends (`CancelLands`, `SocketEnds`), and a stop goes on when what it awaits is
over; Access's reads and commands need not end by themselves.

`MCPolls`: polls keep starting, PUTs end, arrays
catch up and time passes; answers may fail or be incomplete, but whole answers come again and
again (strong fairness of `PollCompletes`), and so does a v1 poll with right lists directly after a v1
poll (`RightPoll`). Without the last, a site that answers 5xx every other time is never cleaned,
which is what the code wants.

`MCEntry`: Home Assistant runs what it has scheduled for an entry (`Progress`: setups, reloads, the
callbacks of a removal), and a setup goes on and is tried again (`SetupProgress`); an outcome of a probe is never assumed.

`MCSteps` and `MCServices` check safety only. Bounded-time properties (`StuckSensorHeals`,
`PanelIsTrueAgain`) need no fairness: they are invariants over an age, and the clock does
not pass a due poll or a request's timeout. `LatchTick` therefore assumes that a due
poll starts; device frames may hold it off, and then do the sweeping themselves.

## 5. Proofs

| Theorem | States |
|---|---|
| `SensorPreservation_proofs!TypeCorrect`, `HeldBackBounded` | counters never pass their caps; a differing REST state is overridden at most `MaxDoor * (MaxWs + 1) + MaxWs` times in a row (door) or `MaxWs` (others) |
| `SensorPreservation_proofs!StaleRecognised`, `RestUndoesNoFrame` | a cache ahead of an answer implies a frame at or after the request's stamp; no answer takes a group back unless the cap gave it to REST |
| `SirenGuard_proofs!TypeCorrect`, `AnswersAreOrdered`, `GuardBelievesNewRuns` | types; no answer undoes a frame, for any number of requesters; a guard's limit never reaches a run begun after its stop |
| `FamilyCache_proofs!TypeCorrect`, `RemovalHasAnAnswer`, `GraceIsKept`, `EvictionHasEvidence`, `RemovalsEarned` | types; the three removal properties for any devices and limits, alone and together |
| `Events_proofs!OnSensorsAreLatched`, `StuckSensorsHeal` | for any timeout and intervals: a sensor that is on has a latch, and is on for at most the sum of the three |
| `Events_proofs!StoredEventsAreForgotten`, `InputsAreDispatchedOnce`, `TimelineStaysComplete`, `StoreIsExact` | for any events, retention and sweep interval: the store is bounded in time, complete for the timeline, and dispatches an input once |
| `Events_proofs!NoAnswerClearsTamper` | for any number of changes: no answer puts an older tamper status, or none, in place of one on record |
| `Events_proofs!OwedRefreshesAreFetched`, `NoCallerIsCancelledByAnother` | for any callers and cap: what is owed has somebody who will fetch it; nobody joins a cancelled fetch |
| `Requests_proofs!OtherModeIsNeverLost` | for any number of commands, failures and late writes: only a command for a mode, or one turning on the other, turns it off |
| `Requests_proofs!ResultsAreSentOnce` | for any window, skew, cache size and deliveries: once between two starts |
| `Requests_proofs!ClosedMeansUnread`, `StopsSettle` | for any number of debounced refreshes: no read after the close, and a stop that returns leaves no other tracked work |
| `Network_proofs!RemovalHasEvidence` | for any devices and threshold: no entry is removed without that many polls whose lists all lacked the device |
| `Network_proofs!VouchersStayAhead` | for any vouchers, polls and commands: no answer asked for before a confirmed change replaces it, and the kept voucher does not become redeemable again |
| `Network_proofs!LookupsKeepTheirDistance` | for any writers and cooldown: on-demand look-ups that asked are a cooldown apart |
| `Network_proofs!UnreadWritesAreRetried` | for any rules and any overlap of poll, refresh and retry: an unread write has a retry pending or running |
| `Requests_proofs!OneEndpointAtMost` | whatever answers are lost and whatever is deleted meanwhile: at most one endpoint of the entry, unless its URL changed while it did not know the id |
| `Requests_proofs!ProtectCallsReachTheirConsole`, `NetworkCallsReachTheirConsole` | for any consoles, sites, resources and stale rows: calls go to what has what they name, or on evidence, or nowhere |
| `Requests_proofs!CallsDoAllTheyCan` | for any sites and clients and any failures: a call tries all, raises exactly when something failed, and forgets no client that kept its name |
| `Requests_proofs!FacadeIsCurrent` | for any plans and number of publications: the snapshot at rest is the coordinators' data, the memo is never stale, a refresh shows the news |
| `Requests_proofs!CarrierCallsShowTheirResult` | for any accounts and subscribers: no account is guessed, and a call without an error has a suspension it asked for in place and its result on show, unless the poll at its end failed, which makes the account unavailable |
| `Requests_proofs!StreamsShowTheTruth` | for any streams, devices and clients: cards show what would be built now, streams end once and with their entry, following the parents ends |
| `Entry_proofs!EntriesAreSound` | the safety of all five parts of `MCEntry` for their composition, without fairness |
| `Requests_proofs!ServicesAreSound` | all of the five above for the composition that `MCServices` runs |
| `Events_proofs!PanelNeverLiesForLong` | for any intervals and timeouts: what is known of the manager contradicts the console for a bounded time |
| `Network_proofs!NoOutletIsSwitchedBack` | for any outlets and commands: a write changes nothing but what it is for |
| `Network_proofs!PublishedReadingsAreHonest` | for any devices and limits: no rate above the line's speed, nothing bridged beyond its allowance |
| `Network_proofs!EventsReplay` | for any rules, refreshes and buffer: the events lead from the first answer to the last one believed |
| `SirenGuard_proofs!OneReaderIsSafe` | for any bounds with a request's timeout within the guard's time to live: before the stream is up a stopped siren stays off |
| `Entry_proofs!SetupsAreSafe` | for any retries and failures: verdicts need evidence, and a setup that failed leaves nothing running |
| `Entry_proofs!LivingRowsStay`, `ClientEntitiesStay` | for any sites, rules, ports and clients: rows go only with what they stand for, every object shown has an entity, once |
| `Entry_proofs!MobilityInvHolds`, `OneEntryPolls`, `MobilityImplements` | for any entries and keys: who polls a key holds its row, is alone, and every step is one of `SolePoller` or a stutter |
| `Entry_proofs!EntriesLeaseAccounts` | for any entries, keys and accounts: the registry implements `AccountLease`, and whoever is set up reads from an open account under its key |
| `Entry_proofs!EntriesKeepTheirIdentity` | for any entries, consoles and addresses: an entry stays with its console, and two share a unique id only if one was saved by a reconfigure that waited |
| `Entry_proofs!RowsAndEntryAgree` | for any rows and namespaces: after a transition in which at most one call raised, rows and entry agree |

None of the properties is inductive as it stands. `CapInv` ties the history of
overridden answers to the two counters (`heldBack <= tsPolls * (MaxWs + 1) +
wsPolls`): each timestamp poll can be followed by a full run of recency polls, and
nothing else resets one without the other. `OrderInv` says that neither cache
nor answer runs ahead of the console, so only a frame after the stamp can put the
cache ahead of an answer. `SirenGuard`'s `Inv` adds that nothing in flight with the
current generation is older than the last status frame. `FamilyCache`'s invariant
ties the missing counter to the histories of absent polls and answers.

`LatchInv` bounds `onFor` by the latch's age while the latch is young and by what is
left of the poll's turn (`Slack`) once it is stale. `StoreInv` ties a stamp to the event's
start (`startedAt[e] <= seen[e] + ahead`), so that an event dropped for its stamp is
old enough to be refused when it comes again. `TamperInv` says that the cached status
is the record's whenever the record is newer than the request, and that a record never
runs ahead of an answer given after it. `RefreshInv` adds that the slot is never a
cancelled fetch and that the cooldown has no refresh running. `EmergencyInv`: a command
past the lock holds it, and while nobody touched the console its target fits the pair
it read. `WebhookInv`: a digest is kept exactly as long as its timestamp is accepted,
and what was sent is remembered until then. `SessionInv` (`SettlingIsQuiet`,
`StopsAreQuiet`): whatever a settling stop has to outlive is in what it awaits or was
barred from starting by the flags set before. `StaleInv` (`CountsAreEvidence`) bounds a counter
by the history: `absence[id] <= misses[d]` for every id of a device: a poll that counts an
absence is evidence, and one that resets `misses` resets the counter too.

`VoucherInv`: the numbers of fetches in progress are distinct; of two answers the one with the
higher number shows every change the other shows; an answer held and not yet overtaken shows
every confirmed change; the voucher a command created is nobody else's. `LegacyInv`: the stamp counts the
ticks since the last request, up to the cooldown. `ToggleInv`: of a section that does not keep
its rules a failed fetch holds nothing, which is what lets the refresh notice that a written rule is gone.
`MobilityInv`: who polls a key holds that key's row. `LeaseInv` ties the three places an account
is known in: its users, the registry's row, and the entries that hold it; a row whose last user
gave up is gone before the account closes. `IdentityInv`: what a waiting reconfigure will save is
the console its entry stands for. `RowInv` (`ChangeIsTracked`): in each phase of a transition the
rows that carry the new namespace are among those attempted, so the undo finds all of them.

`EndpointInv` (as long as nothing strayed): every endpoint the console has is the stored one or carries the
current URL, and so it is of one being deleted by a move; a setup under way works with the current URL,
updates the console's only endpoint, or creates one on a console that has none. `AlarmInv`: a request on its way with an answer that
is wrong by now is at least as old as the error; a wait set by a wrong answer began with
it; and then the timer's turn and its own request are what is left. `OutletInv`: of every cell Home Assistant
was told of or wrote, the pending write or the arrays the device reports hold what the controller has, and a
cache that may be built upon agrees with the controller on all of them; a payload on its way differs from the
controller in the command's own cells only. `PollInv`: a sample is behind the device's counter by no more than the line could carry since
the sample was stamped, the reading under way likewise, and each count of failed attempts covers the history's.
`AuditInv`: the buffer holds the newest changes in the order of their numbers, and the newest unfired change of a rule says what the
baseline says. `OneReaderInv`: until the stream is up only the poll reads, and an answer that still shows the
stopped run is at least as old as the guard that meets it.

`SetupInv`: what runs is registered to be ended, apart from the account and the platforms, which
have their own ends; the budget of inconclusive attempts counts only such attempts. `SweptInv`: every object shown has an entity with a
row. `ClientInv`: the `known` sets and the entities agree, one for one. `BatchInv`: the sites of a call are those tried
and those left, failures are among the tried, and a client picked to be forgotten is not one that had its name
all along. `FacadeInv`: an object still in place has the content it had when the memo was made from it, and what was published and
not told belongs to a poll that still runs or failed again. `CarrierInv`: once a call was answered the
account has what was asked for, and so has what the call's own poll read. `DashboardInv`: the open streams, the facade's
listeners and the hook's watchers are the same set, and what a stream said last was built from contents that its remembered inputs stand for.
The routing properties are inductive beside the types (`TargetsInv`, `NetTargetsInv`), because a call is one step; the work is
in the lemmas that take the choice of a console apart.

The refinements `AccountLease` and `SolePoller` are also checked by TLC (`AccountsAreLeased`,
`ImplementsSolePoller`).

Assumptions are those of the modules (`SensorAssumption`, `SirenAssumption`,
`FamilyAssumption`, `LatchAssumption`, `StoreAssumption`, `TamperAssumption`,
`RefreshAssumption`, `EmergencyAssumption`, `SessionAssumption`, `WebhookAssumption`,
`StaleAssumption`, `VoucherAssumption`, `LegacyAssumption`, `ToggleAssumption`,
`MobilityAssumption`, `SharedAssumption`, `IdentityAssumption`, `RowsAssumption`, `EndpointAssumption`,
`AlarmAssumption`, `OutletAssumption`, `PollAssumption`, `RuleAuditAssumption`, `SetupAssumption`, `SweptAssumption`,
`ClientRowsAssumption`, `ProtectTargetsAssumption`, `NetTargetsAssumption`, `BatchAssumption`, `FacadeAssumption`, `CarrierAssumption`,
`DashboardAssumption`): naturals, positive intervals, sets that are not empty, and that names are distinct.
Beyond that: rules, consoles, accounts and subscribers are finitely many, where the code counts or lists them; a request's timeout is
within the siren guard's time to live, and the probe's backoff within its re-probe, as the code's constants are;
and the controller shows a write within the outlet guard's time (`MaxLag < Guard`), which the code
relies on and cannot enforce. A device that drops its whole `outlet_overrides` array in one answer and
brings it back is not among the incomplete answers of `OutletWrites`.

Only model-checked is liveness, which the prover does not do under fairness: `CacheKeepsCatchingUp`,
`ShowsTheConsole`, `CacheConverges`, `StaleDevicesLeave`, `ShowsTheController`, `GoneDevicesLeave`, `HandedOver`,
and the liveness parts of `TamperIsShown`, `CallersAreServed`, `StopsSettleAndReturn` and `SetupIsSound`, whose
safety parts are theorems. `EntitiesAreKept` adds the type invariants of the parts of `MCSteps` to two theorems; each of them is a conjunct of
its part's inductive invariant. `ViewIsCurrent` and the theorems on a bounded time state what happens once something is due or at
rest, not that it comes to that. `MCSteps`, `MCPolls` and `MCLive` have no theorem
of their own: their parts are proved about in different modules, part by part.

## 6. Findings and known limits

1. `SirenGuard_timer`: one failed reading ends the guard, and the other
   requester's older reading switches a stopped siren back on until the next read.
2. `FamilyCache_evidence`: absorbed errors count as missing polls, although a
   comment says a failed fetch is no evidence of removal.
3. `FamilyCache_readopt`: a device removed by the clean-up and adopted again in the
   same session is not added again.
4. `OutletWrites_cycle`: a power-cycling switch repeats a relay state it read before it
   waited for the refresh lock. When a poll finishes meanwhile and brings another
   state, the write switches the relay back.
5. `SweptRows_unread`: the sensor platform's sweep (`sensor.py` 1568) takes the first refresh's device
   list for complete. An entry set up without its Network application, or from the
   classic list, which names devices by other ids, loses the registry rows of ports the console still has,
   though a comment (`device.py` 1909) warns of just that.

Seen while modelling, not claimed as findings, and part of what the properties
exclude:

- Families: a poll that had a device and then failed on a later family does not
  restart the device's grace window; a device that leaves across a restart or reload
  stays registered, because `previous_ids` starts empty; a device known only through
  frames or the timer between two polls is first seen by the next completed poll.
- Latches: a poll's answer in mid-motion rebuilds the record without a start and so
  turns the sensor off until the next frame (`protect_events.py` 1521-1531). The latch
  of a device that vanished and came back may write an end to a record that needs none.
- Events: the wall clock is assumed to go forward. A console clock ahead of Home
  Assistant's makes an old event look recent, which is why `DispatchedOnce` has
  `ahead = 0`.
- Tamper: an event that carries no status takes the place of the record before, and
  the protection of that record's status ends.
- Sensor refresh: a reconnect during a running debounced refresh is dropped by the
  debouncer, and it leaves `_sensor_reconnect_task` pointing at a task that has ended,
  so that stopping does not cancel the one still running; it ends with its fetch.
- Global alarm manager: failed probes make the panel wrong for as long as they fail;
  a probe's answer in flight may overwrite the mark of a refused command for up to
  one re-probe.
- Emergency modes: what the console's own users change between a command's read
  and its write is overwritten (`touched`); the lock only orders this entry's commands.
- Endpoint: one created under a URL that then changes while the entry does not know
  the id, and one given up with a cleared token, are not adopted later (`strayed`); a
  console that applies a create only after a later setup's list is not modelled; a
  move that ends beside a reload may leave the reload's endpoint on the old console.
- Outlets: a device's first answer is believed when it is complete in itself; an outlet it
  lacks in both arrays cannot be known. A device that leaves an answer loses its pending
  writes. What the console changes in a written field within the guard time is hidden by
  the pending value and overwritten by the next write. A PUT that was applied but reported as
  failed may be reverted by the next write, because the cache never learnt of it.
- Stale devices: a device listed only by a poll that changed the source, or first seen
  under a fallback's own id, is not tracked and leaves its entry behind; coming back in a
  poll that changed the source does not reset the counter; an emptied site is never
  cleaned; a reload forgets what was tracked.
- Vouchers: the copy of the inventory that a failed fetch yields may replace a change confirmed
  in between (`config.py` 518-520).
- Classic names: a poll whose look-up failed takes away a name that an on-demand look-up
  published meanwhile (`config.py` 412-415).
- Rule audit: overlapping refreshes may number one change more than once (`event.py` 876); the replay is
  right all the same.
- Device polls: a good reading thrown away with a failed poll lets an older one stay published for longer
  than `MAX_STATS_REUSE_POLLS` (`device.py` 1484-1488). The radio details' attempt is stamped although
  its poll fails. Port samples are stamped at the end of a poll, so a rate may be off by
  what polls differ in length.
- Mobility: after a re-key the old key's row outlives its poller (the comment at `mobility.py` 48 thinks otherwise), because
  the release looks the row up by the new key; nobody takes that key until the entry is gone. There is no
  hand-over when an owner is disabled during a setup that then fails, when the successor is itself still in
  setup, or when a re-keyed owner leaves.
- Identity: a reconfigure that waits between its check and its save may give two entries one
  unique id (`config_flow.py` 1108-1110); the property excludes such entries (`waited`).
- Site rows: two calls that raise can part rows and entry.
- Protect targets: a console that is still warming up answers "not found", because its collections are
  published empty, so the case of a console that cannot tell does not arise there.
- Network targets: a client call is sent unseen when one console has the site; a client's row
  wins without a look at the caches; with a site given, a console that cannot tell may be chosen
  although another owns the device in another site.
- Carrier Fabric: when the poll at the end of a call fails, the call returns without an error (`async_refresh` does
  not raise, `carrier_fabric.py` 266 and 282; ADR 010, lines 53-55, decides so) and the state before the call stays published until
  the next poll; the property then promises that the account is unavailable, not that the result is
  shown. A timer poll that read before the call may publish after the call's own and make the account
  available with the old state. Of a resume the property says that the subscriber is not shown suspended without being so.
- Dashboard: a Protect stream compares Protect's collections only, so a camera's site, read
  from the Network devices (`websocket_api.py` 463), stays old until one of them changes; the hours
  of a timeline pass without a change of input; registry changes that keep the count are seen at the
  next change of data. A build that raises leaves the stream as it was until something
  else is replaced (modelled). Switches that claim each other as uplink can form a circle.
- Rows: a deselected site whose id starts with another's name may lose rows to the other's prefix; Wi-Fi
  switches are never swept; a port that is down and not listed at setup is not restored
  later; a Network device removed as stale and adopted again stays in the platforms' `known` sets
  and gets no entities until a reload.

## 7. Not modelled, and the plan

Left out because they keep no state of their own: what an entity shows, field-by-field
conversions, diagnostics, InnerSpace's geometry and images, the layout of dashboard snapshots, forms
and their errors, the wake packet. Left out because they are parsing: envelopes of Protect's
stream (`protect_ws.py`), field validation of services. Left out of the models that exist:

- which event type goes to which collection, which door is a lock or a gate, signatures and payloads;
- two Protect sensor fetches at once (section 2), two polls of one coordinator at once in `FacadeView`;
- the config coordinator's sections that only replace their last answer, and the client's own;
- in `DevicePoll` the merging of classic ports, outlets and uplinks;
- in `SweptRows` the predicate on availability at setup, which repeats the discovery's, and the sensors that
  fall back to statistics;
- in `DashboardStreams` node keys and node details;
- discovery flows and the migrations of old entry versions.

Two hazards in `PROJECT.json` have no property: device frames that hold the Protect poll off for ever
(the fair specifications assume gaps between them, section 4), and the arm mode read by the poll and
by the reconcile timer, whose answers are applied in the order they return: the next reading, half a minute
later at most, is applied whatever came before.

What is worth doing next, most important first:

1. Protect's write commands other than the siren stop, and its sensor fetches two at a time;
2. the arm mode of Protect with its two readers, and proofs about both.
