----------------------------- MODULE FacadeView -----------------------------
(***************************************************************************)
(* The facade of a console: one snapshot put together from the data its    *)
(* coordinators publish. Each coordinator polls on its own, may publish    *)
(* parts of a poll before it ends, and tells its listeners at the end      *)
(* unless it failed for the second time in a row; frames are published and *)
(* told at once. The facade rebuilds the snapshot when told, keeps the     *)
(* correlated InnerSpace view while what it is made from did not change,   *)
(* and serves the refreshes users ask for.                                 *)
(***************************************************************************)
EXTENDS Naturals, FiniteSets

CONSTANTS
  PlanSite,      \* sites a floor plan may be tied to
  AnySite,       \* a floor plan that is tied to none
  NoMatch,       \* a placed device that matches no device, or several
  MaxPublished   \* bound: objects published

ASSUME FacadeAssumption == AnySite \notin PlanSite /\ MaxPublished \in Nat

VARIABLES
  data,        \* what each coordinator publishes: the object and its content
  success,     \* last_update_success of each
  polling,     \* coordinators with a poll in progress
  snapshot,    \* what the facade publishes
  memo,        \* the view kept: the objects and the key it was made from
  listening,   \* the facade was not shut down
  refreshing,  \* coordinators a requested refresh still waits for
  published    \* objects published so far

facadeVars == <<data, success, polling, snapshot, memo, listening, refreshing, published>>

Owner == {"config", "device", "protect", "innerspace"}

(* The content that matters: the sites in which a device has the MAC of    *)
(* the placed one, the Protect cameras that have it, the site of the plan, *)
(* the sections that failed.                                               *)
Content(o) ==
  CASE o = "device" -> SUBSET PlanSite
    [] o = "protect" -> SUBSET {"camera"}
    [] o = "innerspace" -> PlanSite \cup {AnySite}
    [] o = "config" -> {{}}
NotRefreshing == [waiting |-> {}, done |-> TRUE]

FacadeTypeOK ==
  /\ \A o \in Owner : data[o].object \in 0 .. MaxPublished /\ data[o].content \in Content(o)
  /\ success \in [Owner -> BOOLEAN]
  /\ polling \subseteq Owner
  /\ listening \in BOOLEAN
  /\ refreshing.waiting \subseteq Owner /\ refreshing.done \in BOOLEAN
  /\ published \in 0 .. MaxPublished

(* correlate_innerspace_devices: the one device with the MAC, among the    *)
(* plan's site when it has one, and the Protect devices.                   *)
BuildView(plan, network, protect) ==
  LET net == IF plan = AnySite THEN network ELSE network \cap {plan}
      candidates == net \cup protect
  IN IF Cardinality(candidates) = 1 THEN CHOOSE x \in candidates : TRUE ELSE NoMatch

CorrelationKey_NetworkOnly(network, protect) == <<network>>
CorrelationKey(network, protect) == <<network, protect>>

Objects(d) == <<d["innerspace"].object, d["device"].object, d["protect"].object>>

(* _innerspace_view: kept while no object changed; rebuilt when InnerSpace *)
(* published or the fields the correlation reads changed.                  *)
View(d) ==
  LET key == CorrelationKey(d["device"].content, d["protect"].content)
      built == [objects |-> Objects(d), key |-> key,
                view |-> BuildView(d["innerspace"].content, d["device"].content,
                                   d["protect"].content)]
  IN IF memo.objects = Objects(d) THEN memo
     ELSE IF memo.objects[1] # Objects(d)[1] \/ memo.key # key THEN built
     ELSE [memo EXCEPT !.objects = Objects(d)]

Aggregate_KeepsAvailability ==
  /\ memo' = View(data')
  /\ snapshot' = [shown |-> [o \in Owner |-> data'[o]], view |-> memo'.view,
                  available |-> IF data'["config"] = snapshot.shown["config"]
                                THEN snapshot.available ELSE success']

(* _aggregate_data, from what the coordinators have at this moment.        *)
Aggregate ==
  /\ memo' = View(data')
  /\ snapshot' = [shown |-> [o \in Owner |-> data'[o]], available |-> success',
                  view |-> memo'.view]

Told == IF listening THEN Aggregate ELSE UNCHANGED <<snapshot, memo>>

First(o) == [object |-> 0, content |-> IF o = "innerspace" THEN AnySite ELSE {}]

FacadeInit ==
  /\ data = [o \in Owner |-> First(o)]
  /\ success = [o \in Owner |-> TRUE]
  /\ polling = {} /\ published = 0 /\ listening = TRUE
  /\ memo = [objects |-> <<0, 0, 0>>, key |-> CorrelationKey({}, {}), view |-> NoMatch]
  /\ snapshot = [shown |-> data, available |-> success, view |-> NoMatch]
  /\ refreshing = NotRefreshing

-----------------------------------------------------------------------------
Publish(o, content) ==
  /\ published < MaxPublished
  /\ published' = published + 1
  /\ data' = [data EXCEPT ![o] = [object |-> published + 1, content |-> content]]

(* A poll of the timer, and a part of it published while it runs.          *)
StartPoll(o) ==
  /\ listening /\ o \notin polling
  /\ polling' = polling \cup {o}
  /\ UNCHANGED <<data, success, snapshot, memo, listening, refreshing, published>>

PublishPart(content) ==
  /\ "protect" \in polling
  /\ Publish("protect", content)
  /\ UNCHANGED <<success, polling, snapshot, memo, listening, refreshing>>

(* The end of a poll: the base class tells the listeners unless this poll  *)
(* and the one before it failed.                                           *)
TellsListeners(o, ok) == ok \/ success[o]

EndPoll(o, ok) ==
  /\ o \in polling
  /\ polling' = polling \ {o}
  /\ success' = [success EXCEPT ![o] = ok]
  /\ \/ ok /\ \E content \in Content(o) : Publish(o, content)
     \/ UNCHANGED <<data, published>>
  /\ refreshing' = [refreshing EXCEPT !.waiting = @ \ {o}]
  /\ IF TellsListeners(o, ok) THEN Told ELSE UNCHANGED <<snapshot, memo>>
  /\ UNCHANGED listening

(* A Protect frame replaces a camera, an outlet write shown ahead of the   *)
(* next poll replaces a device; both tell at once.                         *)
Overlay(o, content) ==
  /\ o = "protect" \/ (o = "device" /\ content = data[o].content)
  /\ Publish(o, content)
  /\ UNCHANGED <<success, polling, listening, refreshing>>
  /\ Told

(* async_request_refresh and async_refresh_or_raise: the config and device *)
(* coordinators are polled together, Protect too unless the refresh is for *)
(* one site, InnerSpace never; the snapshot is rebuilt when all have       *)
(* ended, whatever became of them.                                         *)
Children(includeProtect) ==
  {"config", "device"} \cup (IF includeProtect THEN {"protect"} ELSE {})

RequestRefresh(includeProtect) ==
  LET targets == Children(includeProtect) IN
  /\ listening /\ refreshing.done /\ polling \cap targets = {}
  /\ refreshing' = [waiting |-> targets, done |-> FALSE]
  /\ polling' = polling \cup targets
  /\ UNCHANGED <<data, success, snapshot, memo, listening, published>>

RefreshEnds_LeftToTheListeners ==
  /\ ~refreshing.done /\ refreshing.waiting = {}
  /\ refreshing' = NotRefreshing
  /\ UNCHANGED <<data, success, polling, snapshot, memo, listening, published>>

RefreshEnds ==
  /\ ~refreshing.done /\ refreshing.waiting = {}
  /\ refreshing' = NotRefreshing
  /\ UNCHANGED <<data, success, polling, listening, published>>
  /\ Aggregate

(* async_shutdown gives the listeners back.                                *)
Shutdown ==
  /\ listening /\ refreshing.done
  /\ listening' = FALSE /\ polling' = {}
  /\ UNCHANGED <<data, success, snapshot, memo, refreshing, published>>

FacadeNext ==
  \/ \E o \in Owner : StartPoll(o) \/ \E ok \in BOOLEAN : EndPoll(o, ok)
  \/ \E content \in Content("protect") : PublishPart(content)
  \/ \E o \in {"protect", "device"} : \E content \in Content(o) : Overlay(o, content)
  \/ \E includeProtect \in BOOLEAN : RequestRefresh(includeProtect)
  \/ RefreshEnds \/ Shutdown

FacadeSpec == FacadeInit /\ [][FacadeNext]_facadeVars

-----------------------------------------------------------------------------
(* While nothing is in flight, the snapshot says of every coordinator      *)
(* whether its last poll succeeded, and shows what those that succeeded    *)
(* have published, although their polls overlap, publish in parts and are  *)
(* silent when they go on failing.                                         *)
SnapshotIsCurrent ==
  listening /\ polling = {} /\ refreshing.done =>
    /\ snapshot.available = success
    /\ \A o \in Owner : success[o] => snapshot.shown[o] = data[o]

(* The placed devices are matched with the devices of the same snapshot:   *)
(* keeping the view never shows a match that they no longer support.       *)
ViewFitsTheSnapshot ==
  snapshot.view = BuildView(snapshot.shown["innerspace"].content,
                            snapshot.shown["device"].content,
                            snapshot.shown["protect"].content)

(* When a refresh somebody asked for returns, the snapshot shows what the  *)
(* coordinators have, also what a failing one published before it failed.  *)
RefreshShowsTheNews ==
  [][refreshing'.done /\ ~refreshing.done =>
       snapshot'.shown = data' /\ snapshot'.available = success']_facadeVars

(* What entities and calls read is one consistent and current picture.     *)
ViewIsCurrent == [](SnapshotIsCurrent /\ ViewFitsTheSnapshot) /\ RefreshShowsTheNews
=============================================================================
