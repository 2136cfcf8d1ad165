--------------------------- MODULE DashboardStreams ---------------------------
(***************************************************************************)
(* What the dashboard cards are sent: streams of snapshots of one site, or *)
(* of Protect, that ride on the facade of an entry. When the facade tells  *)
(* its listeners, a stream compares the objects its snapshot is made from  *)
(* with those of last time, builds the snapshot again only when one is     *)
(* another object, and sends it only when it says something else. Streams  *)
(* end with their connection or with their entry, which is unloaded,       *)
(* reloaded, or fails to unload. The topology snapshot places the clients  *)
(* of two lists that are read at different times.                          *)
(***************************************************************************)
EXTENDS Naturals, FiniteSets

CONSTANTS
  Stream,             \* subscriptions a connection asks for, each once
  KindsOf,            \* the payloads each may ask for
  Gear,               \* network devices of the site
  Gateways,           \* those that are gateways
  DeviceLists,        \* the lists of devices polls bring, each with its uplink
  Roamer,             \* clients of the site
  Hole,               \* switch ports
  NoUplink,           \* a device or client without uplink data
  MaxDashboardWork    \* bound: objects published, moves and registrations

Kind == {"topology", "site_health", "performance", "internet_activity", "timeline", "protect"}

ASSUME DashboardAssumption ==
  /\ KindsOf \in [Stream -> SUBSET Kind]
  /\ Gear # {} /\ Hole # {} /\ MaxDashboardWork \in Nat
  /\ Gateways \subseteq Gear /\ NoUplink \notin Gear
  /\ DeviceLists \subseteq UNION {[who -> Gear \cup {NoUplink}] : who \in SUBSET Gear}
  /\ [d \in Gear |-> NoUplink] \in DeviceLists

VARIABLES
  section,        \* what the facade publishes: an object and its content each
  place,        \* where each client is plugged in
  been,         \* the places it was plugged in so far
  life,         \* the entry
  hooked,       \* the unload hook is registered on the entry
  watched,      \* a set of watchers is kept for the entry
  watchers,     \* the streams in it: the hook of the entry will end them
  listeners,    \* the streams the facade calls
  told,         \* nothing was replaced since the listeners were called
  stream,       \* the subscriptions
  streamWork          \* objects published, moves and registrations so far

dashboardVars == 
  <<section, place, been, life, hooked, watched, watchers, listeners, told, stream, streamWork>>

(* What the facade publishes. The flags and the sizes of the registries    *)
(* are compared by value, the rest by identity.                            *)
Object == {"sites", "devices", "stats", "clients", "client_links", "network_facts",
           "internet_activity", "protect"}
Value == {"available", "protect_available", "selected", "registered"}
Section == Object \cup Value

(* The lists of places are kept for the clients the console reports.       *)
ListedWith(value) == UNION {[who -> value] : who \in SUBSET Roamer}
ContentOf(s) ==
  CASE s = "devices" -> DeviceLists
    [] s = "clients" -> ListedWith(Gear \cup {NoUplink})
    [] s = "client_links" -> ListedWith(Gear \X Hole)
    [] OTHER -> BOOLEAN

(* Of a closed stream only its end is kept.                                *)
NoStream == [state |-> "unused", kind |-> "topology", inputs |-> <<>>, said |-> <<>>, raised |-> FALSE]

Closed(last) == [NoStream EXCEPT !.state = "closed", !.said = last]

DashboardTypeOK ==
  /\ \A s \in Section : section[s].content \in ContentOf(s) /\ section[s].object \in 0 .. MaxDashboardWork
  /\ place \in [Roamer -> Gear \X Hole]
  /\ been \in [Roamer -> SUBSET (Gear \X Hole)]
  /\ life \in {"loaded", "unloading", "unloaded", "stuck"}
  /\ hooked \in BOOLEAN /\ watched \in BOOLEAN /\ told \in BOOLEAN
  /\ watchers \subseteq Stream /\ listeners \subseteq Stream
  /\ \A b \in Stream : stream[b].state \in {"unused", "open", "closed"} /\ stream[b].kind \in Kind
  /\ streamWork \in 0 .. MaxDashboardWork

-----------------------------------------------------------------------------
(* The topology graph.                                                     *)

(* A gateway is always a root: its uplink may name a switch below it.      *)
DeviceEdge_GatewayBelow(devices, d) ==
  IF devices[d] \in DOMAIN devices \ {d} THEN {<<d, devices[d]>>} ELSE {}

DeviceEdge(devices, d) ==
  IF d \notin Gateways /\ devices[d] \in DOMAIN devices \ {d} THEN {<<d, devices[d]>>} ELSE {}

(* A device that names itself is neither placed nor reported.              *)
DeviceUnresolved(devices, d) ==
  d \notin Gateways /\ devices[d] \notin DOMAIN devices

ClientParent(devices, uplink, link) ==
  IF uplink \in DOMAIN devices THEN {uplink} ELSE {link[1]} \cap DOMAIN devices

ClientEdge_PortOfAnyLink(devices, c, uplink, link) ==
  {<<c, target, link[2]>> : target \in ClientParent(devices, uplink, link)}

(* The port of the older list is trusted when it names the same switch.    *)
ClientEdge(devices, c, uplink, link) ==
  {<<c, target, IF link[1] = target THEN link[2] ELSE NoUplink>> :
     target \in ClientParent(devices, uplink, link)}

Graph(devices, clients, links) ==
  LET Link(c) == IF c \in DOMAIN links THEN links[c] ELSE <<NoUplink, NoUplink>>
      clientEdges == UNION {ClientEdge(devices, c, clients[c], Link(c)) : c \in DOMAIN clients}
  IN [ nodes |-> DOMAIN devices \cup DOMAIN clients,
       edges |-> UNION {DeviceEdge(devices, d) : d \in DOMAIN devices},
       clientEdges |-> clientEdges,
       unresolved |-> {d \in DOMAIN devices : DeviceUnresolved(devices, d)}
                        \cup {c \in DOMAIN clients : \A e \in clientEdges : e[1] # c} ]

-----------------------------------------------------------------------------
(* Snapshots and what they are made from.                                  *)

(* What the builder of each payload reads of it.                           *)
TopologyReads == {"sites", "devices", "clients", "client_links", "network_facts", "available", "registered"}
SiteHealthReads == {"sites", "devices", "clients", "network_facts", "available", "registered"}
PerformanceReads == {"sites", "devices", "stats", "network_facts", "available", "registered"}
InternetActivityReads == {"sites", "devices", "network_facts", "internet_activity", "registered"}
TimelineReads == {"protect"}
ProtectReads == {"protect", "devices", "protect_available", "registered"}

ReadsOf(kind) ==
  CASE kind = "topology" -> TopologyReads
    [] kind = "site_health" -> SiteHealthReads
    [] kind = "performance" -> PerformanceReads
    [] kind = "internet_activity" -> InternetActivityReads
    [] kind = "timeline" -> TimelineReads
    [] kind = "protect" -> ProtectReads

(* What each stream compares to decide whether to build again. The generic *)
(* streams compare the same for every payload.                             *)
TopologyInputs_NoLinks ==
  {"sites", "devices", "clients", "network_facts", "available", "selected", "registered"}

TopologyInputs ==
  {"sites", "devices", "clients", "client_links", "network_facts", "available", "selected",
   "registered"}

ProtectInputs == {"protect", "protect_available", "registered"}

InputsOf(kind) ==
  CASE kind = "topology" -> TopologyInputs
    [] kind = "protect" -> ProtectInputs
    [] kind = "timeline" -> Section \ {"client_links"}
    [] OTHER -> Section \ {"client_links", "protect"}

(* Objects by their identity, flags and counts by their value.             *)
Inputs(kind) ==
  [s \in InputsOf(kind) |-> IF s \in Value THEN section[s].content ELSE section[s].object]

(* Only the Protect payload does not ask for a site.                       *)
Served(kind) == kind = "protect" \/ section["selected"].content

Shows(s) == section[s].content
Contents(kind) == [s \in ReadsOf(kind) |-> Shows(s)]

(* A site that left the selection is reported as such.                     *)
Snapshot(kind) ==
  IF ~Served(kind) THEN <<"site_unavailable">>
  ELSE IF kind # "topology" THEN <<"snapshot", Contents(kind)>>
  ELSE << "topology",
          Graph(Shows("devices"), Shows("clients"), Shows("client_links")),
          [s \in TopologyReads \ {"devices", "clients", "client_links"} |-> Shows(s)] >>

-----------------------------------------------------------------------------
(* The coordinators published their first poll before the entry loaded.    *)
DashboardInit ==
  /\ place = [c \in Roamer |-> CHOOSE p \in Gear \X Hole : TRUE]
  /\ section = [s \in Section |->
       [object |-> 0,
        content |-> CASE s = "devices" -> [d \in Gear |-> NoUplink]
                      [] s = "clients" -> [c \in Roamer |-> place[c][1]]
                      [] s = "client_links" -> place
                      [] s \in {"available", "protect_available", "selected"} -> TRUE
                      [] OTHER -> FALSE]]
  /\ been = [c \in Roamer |-> {place[c]}]
  /\ life = "loaded" /\ hooked = FALSE /\ watched = FALSE
  /\ watchers = {} /\ listeners = {} /\ told = TRUE
  /\ stream = [b \in Stream |-> NoStream]
  /\ streamWork = 0

Worked == streamWork < MaxDashboardWork /\ streamWork' = streamWork + 1
LifeVars == <<life, hooked, watched, watchers, listeners>>

(* A client is plugged in elsewhere.                                       *)
Replug(c, p) ==
  /\ Worked /\ p # place[c]
  /\ place' = [place EXCEPT ![c] = p]
  /\ been' = [been EXCEPT ![c] = @ \cup {p}]
  /\ UNCHANGED <<section, LifeVars, told, stream>>

(* A list holds the places of the clients when it is read.                 *)
AsItIs(s, content) ==
  CASE s = "clients" -> \A c \in DOMAIN content : content[c] \in {NoUplink, place[c][1]}
    [] s = "client_links" -> \A c \in DOMAIN content : content[c] = place[c]
    [] OTHER -> TRUE

(* A coordinator replaces a section, with the same content or another, and *)
(* tells nobody yet: a poll replaces several of them, parts of it before   *)
(* it ends, and no listener is told of a registration.                     *)
Replace(s, content) ==
  /\ life # "unloaded" /\ Worked
  /\ AsItIs(s, content)
  /\ s \in Value => content # section[s].content
  /\ section' = [section EXCEPT ![s] = [object |-> IF s \in Value THEN 0 ELSE streamWork + 1,
                                       content |-> content]]
  /\ told' = FALSE
  /\ UNCHANGED <<place, been, LifeVars, stream>>

(* _async_forward. A build that raises is logged: the stream is not told,  *)
(* and builds again when something else is replaced.                       *)
Forward(b, raises) ==
  LET kind == stream[b].kind
      fails == raises /\ Served(kind)
  IN IF Inputs(kind) = stream[b].inputs THEN stream[b]
     ELSE [state |-> stream[b].state, kind |-> kind, inputs |-> Inputs(kind),
           said |-> IF fails THEN stream[b].said ELSE Snapshot(kind), raised |-> fails]

(* The facade calls its listeners.                                         *)
Tell(raising) ==
  /\ life # "unloaded"
  /\ told' = TRUE
  /\ stream' = [b \in Stream |->
       IF b \in listeners THEN Forward(b, b \in raising) ELSE stream[b]]
  /\ UNCHANGED <<section, place, been, LifeVars, streamWork>>

(* One hook an entry for the set of its streams.                           *)
Watch(b) ==
  /\ hooked' = (hooked \/ ~watched)
  /\ watched' = TRUE
  /\ watchers' = watchers \cup {b}

Subscribe(b, kind) ==
  /\ life = "loaded" /\ stream[b].state = "unused"
  /\ Served(kind)
  /\ stream' = [stream EXCEPT ![b] =
       [state |-> "open", kind |-> kind, inputs |-> Inputs(kind), said |-> Snapshot(kind),
        raised |-> FALSE]]
  /\ listeners' = listeners \cup {b}
  /\ Watch(b)
  /\ UNCHANGED <<section, place, been, life, told, streamWork>>

(* The client unsubscribes, or its connection closes.                      *)
Unsubscribe_StaysListener(b) ==
  /\ stream[b].state = "open"
  /\ stream' = [stream EXCEPT ![b] = Closed(<<>>)]
  /\ watchers' = watchers \ {b}
  /\ UNCHANGED <<section, place, been, life, hooked, watched, listeners, told, streamWork>>

Unsubscribe(b) ==
  /\ stream[b].state = "open"
  /\ stream' = [stream EXCEPT ![b] = Closed(<<>>)]
  /\ listeners' = listeners \ {b}
  /\ watchers' = watchers \ {b}
  /\ UNCHANGED <<section, place, been, life, hooked, watched, told, streamWork>>

(* The entry is unloading, its facade still calls, and the platforms may   *)
(* refuse: then the streams go on, though no new one is served.            *)
BeginUnload ==
  /\ life = "loaded" /\ life' = "unloading"
  /\ UNCHANGED <<section, place, been, hooked, watched, watchers, listeners, told, stream, streamWork>>

UnloadFails ==
  /\ life = "unloading" /\ life' = "stuck"
  /\ UNCHANGED <<section, place, been, hooked, watched, watchers, listeners, told, stream, streamWork>>

Pending == {b \in watchers : stream[b].state = "open"}

(* Unloaded: the hook takes the set of watchers and ends each of them.     *)
EndUnload_KeepsTheSet ==
  /\ life = "unloading" /\ life' = "unloaded"
  /\ stream' = [b \in Stream |->
       IF hooked /\ b \in Pending
       THEN Closed(<<"entry_unloaded">>) ELSE stream[b]]
  /\ listeners' = IF hooked THEN listeners \ Pending ELSE listeners
  /\ watchers' = IF hooked THEN {} ELSE watchers
  /\ hooked' = FALSE
  /\ UNCHANGED <<section, place, been, watched, told, streamWork>>

EndUnload ==
  /\ life = "unloading" /\ life' = "unloaded"
  /\ stream' = [b \in Stream |->
       IF hooked /\ b \in Pending
       THEN Closed(<<"entry_unloaded">>) ELSE stream[b]]
  /\ listeners' = IF hooked THEN listeners \ Pending ELSE listeners
  /\ watchers' = IF hooked THEN {} ELSE watchers
  /\ watched' = (watched /\ ~hooked)
  /\ hooked' = FALSE
  /\ UNCHANGED <<section, place, been, told, streamWork>>

Reload ==
  /\ life = "unloaded" /\ life' = "loaded"
  /\ UNCHANGED <<section, place, been, hooked, watched, watchers, listeners, told, stream, streamWork>>

DashboardNext ==
  \/ \E c \in Roamer, p \in Gear \X Hole : Replug(c, p)
  \/ \E s \in Section : \E content \in ContentOf(s) : Replace(s, content)
  \/ \E raising \in SUBSET listeners : Tell(raising)
  \/ \E b \in Stream : \E kind \in KindsOf[b] : Subscribe(b, kind)
  \/ \E b \in Stream : Unsubscribe(b)
  \/ BeginUnload \/ UnloadFails \/ EndUnload \/ Reload

DashboardSpec == DashboardInit /\ [][DashboardNext]_dashboardVars

-----------------------------------------------------------------------------
(* Properties.                                                             *)

(* Once the listeners were called, what a card last got is what would be   *)
(* built for it now: nothing a snapshot is made from is missing from what  *)
(* the stream compares. The build may have raised, and a Protect snapshot  *)
(* also shows the sites its devices are in, which its stream leaves out.   *)
StreamsAreCurrent ==
  told => \A b \in Stream : stream[b].state = "open" /\ ~stream[b].raised =>
    LET kind == stream[b].kind
    IN IF kind = "protect"
       THEN \A s \in ProtectReads \ {"devices"} : stream[b].said[2][s] = Shows(s)
       ELSE stream[b].said = Snapshot(kind)

(* A stream ends once: after the last message of an unload, or after the   *)
(* client left, nothing is sent on it.                                     *)
StreamsEndOnce ==
  [][\A b \in Stream : stream[b].state = "closed" => stream'[b] = stream[b]]_dashboardVars

(* No stream outlives its entry, however often the entry was reloaded and  *)
(* whoever subscribed before: each still open is told, and neither the     *)
(* facade nor the watchers keep one.                                       *)
NoStreamOutlivesItsEntry ==
  life = "unloaded" =>
    watchers = {} /\ listeners = {} /\ \A b \in Stream : stream[b].state # "open"

(* A client is never drawn on a port of a switch it was never plugged in,  *)
(* though its switch and its port come from lists of different ages.       *)
PortsBelongToTheParent ==
  LET graph == Graph(Shows("devices"), Shows("clients"), Shows("client_links"))
  IN \A e \in graph.clientEdges : e[3] # NoUplink => <<e[2], e[3]>> \in been[e[1]]

(* Whatever the uplinks say, as long as those of the other devices do not  *)
(* go in circles, following the parents ends, with a gateway or a node     *)
(* reported as unresolved when the device does not name itself.            *)
Circular(edges, among) ==
  \E loop \in SUBSET among \ {{}} : \A d \in loop : \E e \in edges : e[1] = d /\ e[2] \in loop

ParentsEnd ==
  LET devices == Shows("devices")
      graph == Graph(devices, Shows("clients"), Shows("client_links"))
      plain == DOMAIN devices \ Gateways
      uplinks == {<<d, devices[d]>> : d \in {x \in plain : devices[x] # x}}
  IN ~Circular(uplinks, plain) =>
       /\ ~Circular(graph.edges, DOMAIN devices)
       /\ \A d \in plain :
            (\E e \in graph.edges : e[1] = d) \/ d \in graph.unresolved \/ devices[d] = d

StreamsAreTrue ==
  /\ [](StreamsAreCurrent /\ NoStreamOutlivesItsEntry /\ PortsBelongToTheParent /\ ParentsEnd)
  /\ StreamsEndOnce
=============================================================================
