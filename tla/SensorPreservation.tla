------------------------- MODULE SensorPreservation -------------------------
(***************************************************************************)
(* One Protect sensor in the reconciler of coordinators/protect_events.py: *)
(* the frames of the "devices" stream race the answers of the /sensors     *)
(* endpoint, and _preserved_groups decides, group by group (door, motion,  *)
(* tamper, leak), which of the two the cache keeps.                        *)
(*                                                                         *)
(* The console's state of a group is the number of times it has changed;   *)
(* its parity is what is reported (open or closed, wet or dry), and the    *)
(* number itself is the openStatusChangedAt the console would give it.     *)
(* The model follows a sensor that stays in the answers; FamilyCache is    *)
(* about sensors that leave them.                                          *)
(***************************************************************************)
EXTENDS Integers

CONSTANTS
  Group,                         \* sensor state groups
  Door,                          \* the group with a second, timestamp rule
  MaxWsRecencyPreservePolls,     \* 10 in the code
  MaxDoorStatePreservePolls,     \* 3 in the code
  MaxChanges,                    \* bound: changes of a group at the console
  MaxTime                        \* bound: monotonic clock readings

ASSUME SensorAssumption ==
  /\ Door \in Group
  /\ MaxWsRecencyPreservePolls \in Nat \ {0}
  /\ MaxDoorStatePreservePolls \in Nat
  /\ MaxChanges \in Nat
  /\ MaxTime \in Nat

VARIABLES
  restLags,   \* fixed at Init: may /sensors serve an older state than frames?
  reported,   \* console: changes of each group so far
  streamed,   \* console: newest change of each group a frame has carried
  now,        \* the monotonic clock
  cache,      \* cached state of each group
  doorTs,     \* cached openStatusChangedAt, or NoTs
  wsSeen,     \* SensorTracking.ws_seen
  wsPolls,    \* SensorTracking.ws_preserve_polls
  latched,    \* SensorTracking.ws_latched
  tsPolls,    \* SensorTracking.ts_preserve_polls
  request,    \* the one /sensors request (async_refresh_sensors coalesces)
  heldBack    \* history: answers in a row whose differing state was overridden

(* A definition whose name extends another's with an underscore (such as   *)
(* FrameSinceRequest_StampedAfter) is that definition with a bug in it. No *)
(* action uses it; it shows which property would notice.                   *)

tracking == <<wsSeen, wsPolls, latched, tsPolls>>
vars == <<restLags, reported, streamed, now, cache, doorTs, tracking, request, heldBack>>

Never == -1                      \* no frame has carried the group yet
NoTs == -1                       \* openStatusChangedAt is None
State(change) == change % 2      \* what a reader sees of a group

Request == [phase : {"idle", "sent", "answered"}, at : Nat,
            state : [Group -> Nat], ts : Nat \cup {NoTs}]

TypeOK ==
  /\ restLags \in BOOLEAN
  /\ reported \in [Group -> Nat]
  /\ streamed \in [Group -> Nat]
  /\ now \in Nat
  /\ cache \in [Group -> Nat]
  /\ doorTs \in Nat \cup {NoTs}
  /\ wsSeen \in [Group -> Nat \cup {Never}]
  /\ wsPolls \in [Group -> 0 .. MaxWsRecencyPreservePolls]
  /\ latched \in SUBSET Group
  /\ tsPolls \in 0 .. MaxDoorStatePreservePolls
  /\ request \in Request
  /\ heldBack \in [Group -> Nat]

(* A first answer has filled the cache; no frame has arrived yet.          *)
Init ==
  /\ restLags \in BOOLEAN
  /\ reported = [g \in Group |-> 0]
  /\ streamed = [g \in Group |-> 0]
  /\ now = 0
  /\ cache = [g \in Group |-> 0]
  /\ doorTs \in {0, NoTs}
  /\ wsSeen = [g \in Group |-> Never]
  /\ wsPolls = [g \in Group |-> 0]
  /\ latched = {}
  /\ tsPolls = 0
  /\ request = [phase |-> "idle", at |-> 0,
                state |-> [g \in Group |-> 0], ts |-> doorTs]
  /\ heldBack = [g \in Group |-> 0]

-----------------------------------------------------------------------------
(* The console and the clock.                                              *)

ConsoleChange(g) ==
  /\ reported[g] < MaxChanges
  /\ reported' = [reported EXCEPT ![g] = @ + 1]
  /\ UNCHANGED <<restLags, streamed, now, cache, doorTs, tracking, request, heldBack>>

Tick ==
  /\ now < MaxTime
  /\ now' = now + 1
  /\ UNCHANGED <<restLags, reported, streamed, cache, doorTs, tracking, request, heldBack>>

(* A frame carries some groups, in stream order: never older than the one  *)
(* before, possibly late, possibly a repeat. A door frame may carry its    *)
(* state, its timestamp or both. Each group carried is stamped.            *)
DeviceFrame ==
  \E carried \in (SUBSET Group) \ {{}}, change \in [Group -> 0 .. MaxChanges],
     fields \in {{"state"}, {"state", "ts"}, {"ts"}} :
    /\ \A g \in Group : IF g \in carried
                        THEN change[g] \in streamed[g] .. reported[g]
                        ELSE change[g] = streamed[g]
    /\ Door \notin carried => fields = {"state"}
    /\ streamed' = change
    /\ cache' = [g \in Group |->
                   IF g \in carried /\ (g = Door => "state" \in fields)
                   THEN change[g] ELSE cache[g]]
    /\ doorTs' = IF Door \in carried /\ "ts" \in fields THEN change[Door] ELSE doorTs
    /\ wsSeen' = [g \in Group |-> IF g \in carried THEN now ELSE wsSeen[g]]
    /\ UNCHANGED <<restLags, reported, now, wsPolls, latched, tsPolls, request, heldBack>>

-----------------------------------------------------------------------------
(* The request: stamped before it goes out, answered by the console, then  *)
(* either applied or lost to an error (which changes nothing here).        *)

BeginRequest ==
  /\ request.phase = "idle"
  /\ request' = [request EXCEPT !.phase = "sent", !.at = now]
  /\ UNCHANGED <<restLags, reported, streamed, now, cache, doorTs, tracking, heldBack>>

ConsoleAnswers ==
  /\ request.phase = "sent"
  /\ \E seen \in [Group -> 0 .. MaxChanges] : \E ts \in {seen[Door], NoTs} :
       /\ \A g \in Group : seen[g] \in IF restLags
                                       THEN request.state[g] .. reported[g]
                                       ELSE {reported[g]}
       /\ request' = [request EXCEPT !.phase = "answered", !.state = seen, !.ts = ts]
  /\ UNCHANGED <<restLags, reported, streamed, now, cache, doorTs, tracking, heldBack>>

RequestFails ==
  /\ request.phase = "sent"
  /\ request' = [request EXCEPT !.phase = "idle"]
  /\ UNCHANGED <<restLags, reported, streamed, now, cache, doorTs, tracking, heldBack>>

-----------------------------------------------------------------------------
(* _preserved_groups.                                                      *)

Agrees(g) == State(cache[g]) = State(request.state[g])

(* A latched group that still differs: REST wins, the counter is left.     *)
StillLatched(g) == g \in latched /\ ~Agrees(g)

(* A latched group that agrees starts over from zero.                      *)
WsCount(g) == IF g \in latched THEN 0 ELSE wsPolls[g]

FrameSinceRequest_StampedAfter(g) == wsSeen[g] # Never /\ wsSeen[g] >= now

FrameSinceRequest(g) == wsSeen[g] # Never /\ wsSeen[g] >= request.at

CapTrips(g) ==
  /\ ~StillLatched(g)
  /\ FrameSinceRequest(g)
  /\ WsCount(g) >= MaxWsRecencyPreservePolls

KeptByRecency(g) ==
  /\ ~StillLatched(g)
  /\ FrameSinceRequest(g)
  /\ WsCount(g) < MaxWsRecencyPreservePolls

CachedTsIsNewer == doorTs # NoTs /\ (request.ts = NoTs \/ doorTs > request.ts)

KeptByTimestamp ==
  /\ ~KeptByRecency(Door)
  /\ CachedTsIsNewer
  /\ tsPolls < MaxDoorStatePreservePolls

Kept(g) == KeptByRecency(g) \/ (g = Door /\ KeptByTimestamp)

NextWsPolls(g) ==
  IF StillLatched(g) THEN wsPolls[g]
  ELSE IF ~FrameSinceRequest(g) THEN 0
  ELSE IF CapTrips(g) THEN WsCount(g)
  ELSE WsCount(g) + 1

NextTsPolls_NotCounted == IF KeptByRecency(Door) THEN tsPolls ELSE 0

NextTsPolls ==
  IF KeptByRecency(Door) THEN tsPolls
  ELSE IF KeptByTimestamp THEN tsPolls + 1 ELSE 0

(* How many answers in a row the rules may override, and the history that  *)
(* counts them (no further than one too many).                             *)
HeldBackBound(g) ==
  IF g = Door
  THEN MaxDoorStatePreservePolls * (MaxWsRecencyPreservePolls + 1)
         + MaxWsRecencyPreservePolls
  ELSE MaxWsRecencyPreservePolls

Longer(g) == IF heldBack[g] > HeldBackBound(g) THEN heldBack[g] ELSE heldBack[g] + 1

ApplyAnswer ==
  /\ request.phase = "answered"
  /\ wsPolls' = [g \in Group |-> NextWsPolls(g)]
  /\ latched' = {g \in Group : StillLatched(g) \/ CapTrips(g)}
  /\ tsPolls' = NextTsPolls
  /\ cache' = [g \in Group |-> IF Kept(g) THEN cache[g] ELSE request.state[g]]
  /\ doorTs' = IF Kept(Door) THEN doorTs ELSE request.ts
  /\ heldBack' = [g \in Group |->
                    IF Kept(g) /\ ~Agrees(g) THEN Longer(g) ELSE 0]
  /\ request' = [request EXCEPT !.phase = "idle"]
  /\ UNCHANGED <<restLags, reported, streamed, now, wsSeen>>

-----------------------------------------------------------------------------
Next ==
  \/ \E g \in Group : ConsoleChange(g)
  \/ Tick
  \/ DeviceFrame
  \/ BeginRequest
  \/ ConsoleAnswers
  \/ RequestFails
  \/ ApplyAnswer

Spec == Init /\ [][Next]_vars

(* The reconcile timer keeps asking, an applied answer needs no await, and *)
(* a console asked for ever answers for ever (some requests may fail).     *)
FairSpec ==
  /\ Spec
  /\ WF_vars(BeginRequest)
  /\ SF_vars(ConsoleAnswers)
  /\ WF_vars(ApplyAnswer)

-----------------------------------------------------------------------------
(* If the cache is ahead of an answer that is about to be applied, a frame *)
(* with that group's own fields arrived at or after the request's stamp.   *)
(* This is what stamping before the await buys (_fetch_sensors).           *)
StaleAnswerIsRecognised ==
  ~restLags /\ request.phase = "answered" =>
    \A g \in Group : cache[g] > request.state[g] => FrameSinceRequest(g)

(* Applying an answer never takes a group back to an older console state,  *)
(* unless the recency cap has given the group to REST.                     *)
RestNeverUndoesAFrame ==
  [][~restLags /\ request.phase = "answered" /\ request'.phase = "idle" =>
       \A g \in Group : cache'[g] < cache[g] => g \in latched']_vars

(* However the two rules and the latch follow each other, a REST state     *)
(* that differs from the cache is overridden only so many answers in a     *)
(* row: MaxWs.. for a group without timestamps, and for the door, whose    *)
(* timestamp rule can fill the gaps between runs of recency, the product.  *)
HeldBackIsBounded == \A g \in Group : heldBack[g] <= HeldBackBound(g)

(* A sensor never wedges: as long as /sensors itself is up to date, the    *)
(* cache shows what the console reports again and again, whatever stale    *)
(* frames the stream repeats.                                              *)
CacheKeepsCatchingUp ==
  ~restLags => \A g \in Group : []<>(State(cache[g]) = State(reported[g]))

=============================================================================
