---------------------------- MODULE AccessWebhook ----------------------------
(***************************************************************************)
(* The receiver of signed Access results. A delivery is read, verified     *)
(* (its age and its skew, whole seconds), admitted once by the replay      *)
(* cache and dispatched. The cache belongs to the entry and outlives a     *)
(* reload; the coordinator a handler dispatches to does not. Deliveries    *)
(* whose signature or size is refused change nothing and are left out.     *)
(***************************************************************************)
EXTENDS Integers, FiniteSets

CONSTANTS
  Delivery,     \* signed deliveries; the network may repeat each
  CacheSize,    \* REPLAY_CACHE_SIZE
  MaxAge,       \* MAX_SIGNATURE_AGE_SECONDS
  FutureSkew,   \* MAX_FUTURE_SKEW_SECONDS
  MaxSecond     \* bound of the model: the last second

ASSUME WebhookAssumption ==
  {CacheSize, MaxAge, FutureSkew, MaxSecond} \subseteq Nat

VARIABLES
  wallclock,    \* time.time(), never set back
  stamp,        \* the second each delivery was signed at, by the console's clock
  expiry,       \* ReplayCache._expiry: digest -> last second it is kept
  reading,      \* bodies being read: [delivery, current], by the current handler?
  receiver,     \* is a receiver registered?
  accepting,    \* webhook_active and not auth_failed, of the current coordinator
  fired         \* history: results sent per delivery since the start (2 is "many")

webhookVars == <<wallclock, stamp, expiry, reading, receiver, accepting, fired>>

WebhookTypeOK ==
  /\ wallclock \in 0 .. MaxSecond
  /\ stamp \in [Delivery -> 0 .. MaxSecond]
  /\ DOMAIN expiry \subseteq Delivery
  /\ \A d \in DOMAIN expiry : expiry[d] \in Nat
  /\ reading \subseteq [delivery : Delivery, current : BOOLEAN]
  /\ receiver \in BOOLEAN /\ accepting \in BOOLEAN
  /\ fired \in [Delivery -> 0 .. 2]

EmptyCache == [d \in {} |-> 0]

WebhookInit ==
  /\ wallclock = 0
  /\ stamp \in [Delivery -> 0 .. MaxSecond]
  /\ expiry = EmptyCache
  /\ reading = {}
  /\ receiver = FALSE
  /\ accepting = FALSE
  /\ fired = [d \in Delivery |-> 0]

-----------------------------------------------------------------------------
(* verify_delivery: the window of the signature's timestamp.               *)
Fresh(d) == wallclock - stamp[d] <= MaxAge /\ stamp[d] - wallclock <= FutureSkew

(* ReplayCache.check: forget what is past, then admit what is new if there *)
(* is room.                                                                *)
Live_OneEarly == {d \in DOMAIN expiry : expiry[d] > wallclock}

Live == {d \in DOMAIN expiry : expiry[d] >= wallclock}

Admits(d) == d \notin Live /\ Cardinality(Live) < CacheSize

CheckReplay(d) ==
  expiry' = [e \in Live \cup (IF Admits(d) THEN {d} ELSE {}) |->
               IF e \in Live THEN expiry[e] ELSE stamp[e] + MaxAge]

(* _dispatch_verified: not while inactive or without a token, and not for  *)
(* a door or a result that is not known.                                   *)
Dispatches(r) == r.current /\ accepting

-----------------------------------------------------------------------------
Arrives(d) ==
  /\ receiver
  /\ reading' = reading \cup {[delivery |-> d, current |-> TRUE]}
  /\ UNCHANGED <<wallclock, stamp, expiry, receiver, accepting, fired>>

(* The body is there: the rest of _async_handle is one step.               *)
Handles(r) ==
  LET d == r.delivery
  IN  /\ r \in reading
      /\ reading' = reading \ {r}
      /\ IF Fresh(d) THEN CheckReplay(d) ELSE UNCHANGED expiry
      /\ \E known \in BOOLEAN :
           fired' = IF Fresh(d) /\ Admits(d) /\ Dispatches(r) /\ known
                         THEN [fired EXCEPT ![d] = IF @ = 2 THEN 2 ELSE @ + 1]
                         ELSE fired
      /\ UNCHANGED <<wallclock, stamp, receiver, accepting>>

(* The body did not come within BODY_READ_TIMEOUT_SECONDS.                 *)
BodyTimesOut(r) ==
  /\ r \in reading
  /\ reading' = reading \ {r}
  /\ UNCHANGED <<wallclock, stamp, expiry, receiver, accepting, fired>>

(* The end of async_setup_access_webhook; _make_handler takes the cache    *)
(* the entry already has.                                                  *)
Registers ==
  /\ ~receiver
  /\ receiver' = TRUE
  /\ accepting' = TRUE
  /\ UNCHANGED <<wallclock, stamp, expiry, reading, fired>>

(* async_unload_access_webhook: a handler that is still reading keeps a    *)
(* coordinator that is not active any more.                                *)
Unregisters ==
  /\ receiver
  /\ receiver' = FALSE
  /\ accepting' = FALSE
  /\ reading' = {[r EXCEPT !.current = FALSE] : r \in reading}
  /\ UNCHANGED <<wallclock, stamp, expiry, fired>>

TokenRejected ==
  /\ accepting
  /\ accepting' = FALSE
  /\ UNCHANGED <<wallclock, stamp, expiry, reading, receiver, fired>>

(* Home Assistant starts again: an empty cache, and the count begins anew. *)
WebhookRestart ==
  /\ expiry' = EmptyCache
  /\ reading' = {}
  /\ receiver' = FALSE
  /\ accepting' = FALSE
  /\ fired' = [d \in Delivery |-> 0]
  /\ UNCHANGED <<wallclock, stamp>>

WebhookTick ==
  /\ wallclock < MaxSecond
  /\ wallclock' = wallclock + 1
  /\ UNCHANGED <<stamp, expiry, reading, receiver, accepting, fired>>

WebhookNext ==
  \/ \E d \in Delivery : Arrives(d)
  \/ \E r \in reading : Handles(r) \/ BodyTimesOut(r)
  \/ Registers \/ Unregisters \/ TokenRejected
  \/ WebhookRestart
  \/ WebhookTick

WebhookSpec == WebhookInit /\ [][WebhookNext]_webhookVars

-----------------------------------------------------------------------------
(* "Admit each authentic digest once while its timestamp is inside the     *)
(* window", also across reloads, at the edges of the window and when the   *)
(* cache is full: a result is sent at most once between two starts.        *)
DeliveredOnce == \A d \in Delivery : fired[d] <= 1

(* For the proof: what was sent is remembered, exactly as long as it could *)
(* be accepted again.                                                      *)
SentIsRemembered ==
  \A d \in Delivery :
    fired[d] > 0 /\ wallclock <= stamp[d] + MaxAge =>
      d \in DOMAIN expiry

RememberedAsLongAsFresh ==
  \A d \in DOMAIN expiry : expiry[d] = stamp[d] + MaxAge

=============================================================================
