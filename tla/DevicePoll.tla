----------------------------- MODULE DevicePoll -----------------------------
(***************************************************************************)
(* A poll of the Network device coordinator, seen from one site: the       *)
(* device list with its legacy record, per device its statistics and, for  *)
(* an access point, its radios, and the site's VPN connections. All sites  *)
(* are published together or not at all; a reading that fails alone is     *)
(* bridged by the published one for a few polls. From two port counters a  *)
(* poll makes a rate. Identities and stale devices are in StaleDevices,    *)
(* pending outlet writes in OutletWrites.                                  *)
(***************************************************************************)
EXTENDS Naturals

CONSTANTS
  NetDevice,
  MaxReuse,      \* MAX_STATS_REUSE_POLLS
  RadioInterval, \* SCAN_INTERVAL_DEVICE_DETAILS
  ReadTime,      \* a poll's requests time out
  Speed,         \* of the line, in bytes per unit of time
  MaxClock,      \* bound: readings of the clock
  Nothing,       \* an absent reading, rate or sample
  Pending        \* a reading still asked for

(* Statistics: the ports' bytes if the metrics call answered, and a rate.  *)
Statistics == [bytes : Nat \cup {Nothing},
               rate : [bytes : Nat, elapsed : Nat] \cup {Nothing}]

ASSUME PollAssumption ==
  /\ {MaxReuse, Speed, MaxClock} \subseteq Nat
  /\ {RadioInterval, ReadTime} \subseteq Nat \ {0}
  /\ Pending \notin Statistics \cup {Nothing}

VARIABLES
  faulty,    \* fixed at Init: the one kind of reading that may fail in this behaviour
  clockNow,  \* time.monotonic()
  counter,   \* console: bytes a device has moved since it started
  published, \* data: per device its stats, wans and radios, and the site's vpn
  update,    \* the poll: phase, when it started, what it has read
  current,   \* last_update_success
  failures,  \* _stats_failures, _legacy_wan_failures, _vpn_connection_failures
  reused,    \* _reused_stats
  sample,    \* _prev_port_bytes
  asked,     \* _radio_details_last_attempt, Never if there is none
  history    \* history: [tries, lost], see ReadingsAreHonest

pollVars == <<faulty, clockNow, counter, published, update, current, failures, reused, sample, asked,
              history>>

Never == MaxClock + 1
Reading == {"stats", "wans"}

Stats(bytes, rate) == [bytes |-> bytes, rate |-> rate]
Idling == [phase |-> "idle", since |-> 0, listed |-> {}, legacy |-> TRUE,
           stats |-> [d \in NetDevice |-> Pending], radio |-> [d \in NetDevice |-> Nothing]]
Blank == [stats |-> [d \in NetDevice |-> Nothing], wans |-> [d \in NetDevice |-> FALSE],
          radio |-> [d \in NetDevice |-> Nothing], vpn |-> FALSE]
NoTries == [tries |-> [k \in Reading |-> [d \in NetDevice |-> 0]],
            lost |-> [k \in Reading |-> [d \in NetDevice |-> FALSE]],
            vpnTries |-> 0]

PollInit ==
  /\ faulty \in {"stats", "wans", "radios", "vpn"}
  /\ clockNow = 0
  /\ counter = [d \in NetDevice |-> 0]
  /\ published = Blank
  /\ update = Idling
  /\ current = FALSE
  /\ failures = [stats |-> [d \in NetDevice |-> 0], wans |-> 0, vpn |-> 0]
  /\ reused = {}
  /\ sample = [d \in NetDevice |-> Nothing]
  /\ asked = [d \in NetDevice |-> Never]
  /\ history = NoTries

-----------------------------------------------------------------------------
(* Time passes and devices move bytes, at most Speed per unit; one that    *)
(* restarts counts from zero.                                              *)
TimePasses ==
  /\ clockNow < MaxClock
  /\ update.phase # "idle" => clockNow < update.since + ReadTime
  /\ clockNow' = clockNow + 1
  /\ \E moved \in [NetDevice -> {0, Speed}] :
       /\ faulty # "stats" => \A d \in NetDevice : moved[d] = 0
       /\ counter' = [d \in NetDevice |-> counter[d] + moved[d]]
  /\ UNCHANGED <<faulty, published, update, current, failures, reused, sample, asked, history>>

DeviceRestarts(d) ==
  /\ counter[d] > 0
  /\ counter' = [counter EXCEPT ![d] = 0]
  /\ UNCHANGED <<faulty, clockNow, published, update, current, failures, reused, sample, asked, history>>

(* A poll with sites to read.                                              *)
UpdateStarts ==
  /\ update.phase = "idle"
  /\ update' = [Idling EXCEPT !.phase = "asking", !.since = clockNow]
  /\ reused' = {}
  /\ UNCHANGED <<faulty, clockNow, counter, published, current, failures, sample, asked, history>>

(* The config coordinator lists no site: everything published is dropped,  *)
(* and of the schedules all but the statistics' failures and the samples.  *)
NoSites ==
  /\ update.phase = "idle"
  /\ published' = Blank
  /\ failures' = [failures EXCEPT !.wans = 0, !.vpn = 0]
  /\ asked' = [d \in NetDevice |-> Never]
  /\ current' = TRUE
  /\ history' = NoTries
  /\ UNCHANGED <<faulty, clockNow, counter, update, reused, sample>>

Bridges(n) == n <= MaxReuse

Later(n) == IF n > MaxReuse THEN n ELSE n + 1    \* of a count in the history

(* The devices and the clients are listed, and the legacy list or none: a  *)
(* failed legacy call is counted here, before the poll is known to succeed.*)
(* A v1 list that fails with a 5xx is replaced by a legacy one: the same   *)
(* to this module, with legacy = TRUE.                                     *)
ListsAnswer(listed, legacy) ==
  /\ update.phase = "asking"
  /\ update' = [update EXCEPT !.phase = "reading", !.listed = listed, !.legacy = legacy]
  /\ failures' = [failures EXCEPT !.wans = IF legacy THEN 0 ELSE Later(@)]
  /\ history' = [history EXCEPT !.tries["wans"] =
                   [d \in NetDevice |-> IF legacy THEN @[d] ELSE Later(@[d])]]
  /\ UNCHANGED <<faulty, clockNow, counter, published, current, reused, sample, asked>>

(* _process_device: a failed call is counted at once, and the published    *)
(* statistics take its place while they may; the device is then "reused".  *)
StatisticsAnswer(d, outcome) ==
  /\ update.phase = "reading" /\ d \in update.listed /\ update.stats[d] = Pending
  /\ LET n == IF outcome = "failed" THEN Later(failures.stats[d]) ELSE 0
         bridged == outcome = "failed" /\ Bridges(n) /\ published.stats[d] # Nothing
         read == CASE outcome = "answered" -> Stats(counter[d], Nothing)
                   [] outcome = "noMetrics" -> Stats(Nothing, Nothing)
                   [] OTHER -> IF bridged THEN published.stats[d] ELSE Nothing
     IN  /\ update' = [update EXCEPT !.stats[d] = read]
         /\ failures' = [failures EXCEPT !.stats[d] = n]
         /\ reused' = IF bridged THEN reused \cup {d} ELSE reused
  /\ history' = IF outcome = "failed" THEN [history EXCEPT !.tries["stats"][d] = Later(@)]
                ELSE history
  /\ UNCHANGED <<faulty, clockNow, counter, published, current, sample, asked>>

(* _fetch_radio_details, beside it: due or not, and stamped either way.    *)
(* Only access points are asked; only where radios may fail there are any. *)
AccessPoint == IF faulty = "radios" THEN NetDevice ELSE {}

RadioDue(d) == d \in AccessPoint /\ (asked[d] = Never \/ clockNow >= asked[d] + RadioInterval)

RadiosAnswer(d, answered) ==
  /\ update.phase = "reading" /\ d \in update.listed /\ RadioDue(d)
  /\ asked' = [asked EXCEPT ![d] = clockNow]
  /\ update' = [update EXCEPT !.radio[d] = IF answered THEN "available" ELSE "failed"]
  /\ UNCHANGED <<faulty, clockNow, counter, published, current, failures, reused, sample, history>>

(* What is published of the radios: the answer, the record marked as       *)
(* unavailable after a failure, or the record as it was when not due.      *)
RadioRecord(d) ==
  CASE update.radio[d] = "available" -> "available"
    [] update.radio[d] = "failed" /\ published.radio[d] # Nothing -> "unavailable"
    [] OTHER -> published.radio[d]

AllRead == \A d \in update.listed : update.stats[d] # Pending
RadiosRead == \A d \in update.listed : update.radio[d] # Nothing \/ ~RadioDue(d)

(* Any site's list that fails, this one's or another's, fails the poll:    *)
(* nothing it read is published. What was counted and stamped stays.       *)
UpdateFails ==
  /\ \/ update.phase = "asking"
     \/ update.phase = "reading" /\ AllRead /\ RadiosRead
  /\ update' = Idling
  /\ current' = FALSE
  /\ history' =
       IF update.phase = "asking" THEN history
       ELSE [history EXCEPT
               !.lost["stats"] = [d \in NetDevice |->
                  @[d] \/ (d \in update.listed /\ failures.stats[d] = 0)],
               !.lost["wans"] = [d \in NetDevice |-> @[d] \/ update.legacy]]
  /\ UNCHANGED <<faulty, clockNow, counter, published, failures, reused, sample, asked>>

-----------------------------------------------------------------------------
(* _compute_port_rates: from the last sample to this poll's, both stamped  *)
(* with the time their poll ended. A reused device keeps its sample.       *)
SampleOf_Restamped(d) ==
  CASE d \in reused -> IF sample[d] = Nothing THEN Nothing ELSE [sample[d] EXCEPT !.at = clockNow]
    [] d \in update.listed \ reused /\ update.stats[d] # Nothing /\ update.stats[d].bytes # Nothing
         -> [at |-> clockNow, bytes |-> update.stats[d].bytes]
    [] OTHER -> Nothing

SampleOf(d) ==
  CASE d \in reused -> sample[d]
    [] d \in update.listed \ reused /\ update.stats[d] # Nothing /\ update.stats[d].bytes # Nothing
         -> [at |-> clockNow, bytes |-> update.stats[d].bytes]
    [] OTHER -> Nothing

Rated(d) ==
  LET read == update.stats[d] IN
  IF \/ d \in reused \/ read = Nothing \/ read.bytes = Nothing
     \/ sample[d] = Nothing \/ clockNow <= sample[d].at \/ read.bytes < sample[d].bytes
  THEN read
  ELSE [read EXCEPT !.rate = [bytes |-> read.bytes - sample[d].bytes,
                              elapsed |-> clockNow - sample[d].at]]

(* _vpn_connections_or_previous: a failure counts when its poll is stored. *)
VpnFailures_NeverCounted(answered) == IF answered THEN 0 ELSE failures.vpn

VpnFailures(answered) == IF answered THEN 0 ELSE Later(failures.vpn)

(* Every site was read: one publication, after the last await.             *)
UpdateSucceeds(vpn) ==
  /\ update.phase = "reading" /\ AllRead /\ RadiosRead
  /\ LET listed == update.listed
         n == VpnFailures(vpn)
         bridgedWans == ~update.legacy /\ Bridges(failures.wans)
     IN
     /\ published' =
          [stats |-> [d \in NetDevice |-> IF d \in listed THEN Rated(d) ELSE Nothing],
           wans |-> [d \in NetDevice |->
              d \in listed /\ (update.legacy \/ (bridgedWans /\ published.wans[d]))],
           radio |-> [d \in NetDevice |-> IF d \in listed THEN RadioRecord(d) ELSE Nothing],
           vpn |-> vpn \/ (Bridges(n) /\ published.vpn)]
     /\ failures' = [failures EXCEPT
          !.stats = [d \in NetDevice |-> IF d \in listed THEN @[d] ELSE 0], !.vpn = n]
     /\ sample' = [d \in NetDevice |-> SampleOf(d)]
     /\ asked' = [d \in NetDevice |-> IF d \in listed THEN asked[d] ELSE Never]
     /\ history' =
          [tries |-> [k \in Reading |-> [d \in NetDevice |->
              IF d \in listed /\ (IF k = "stats" THEN failures.stats[d] > 0 ELSE ~update.legacy)
              THEN history.tries[k][d] ELSE 0]],
           lost |-> [k \in Reading |-> [d \in NetDevice |->
              /\ d \in listed
              /\ IF k = "stats" THEN failures.stats[d] > 0 ELSE ~update.legacy
              /\ history.lost[k][d]]],
           vpnTries |-> IF vpn THEN 0 ELSE Later(history.vpnTries)]
  /\ current' = TRUE
  /\ update' = Idling
  /\ UNCHANGED <<faulty, clockNow, counter, reused>>

MayAnswer(kind) == IF faulty = kind THEN BOOLEAN ELSE {TRUE}

PollNext ==
  \/ TimePasses \/ UpdateStarts \/ NoSites \/ UpdateFails
  \/ \E d \in NetDevice : DeviceRestarts(d)
  \/ \E listed \in SUBSET NetDevice, legacy \in MayAnswer("wans") : ListsAnswer(listed, legacy)
  \/ \E d \in NetDevice :
       \/ \E outcome \in {"answered", "noMetrics", "unsupported", "failed"} :
            (outcome = "answered" \/ faulty = "stats") /\ StatisticsAnswer(d, outcome)
       \/ \E answered \in MayAnswer("radios") : RadiosAnswer(d, answered)
  \/ \E vpn \in MayAnswer("vpn") : UpdateSucceeds(vpn)

PollSpec == PollInit /\ [][PollNext]_pollVars

-----------------------------------------------------------------------------
(* No rate exceeds what the line can carry, give or take one poll's time:  *)
(* bytes are read during a poll and stamped at its end. Reused statistics, *)
(* failed polls, restarts and missing metrics never make two polls' bytes  *)
(* look like one's.                                                        *)
RatesFitTheLine ==
  \A d \in NetDevice :
    LET stats == published.stats[d] IN
    stats # Nothing /\ stats.rate # Nothing =>
      stats.rate.bytes <= Speed * (stats.rate.elapsed + ReadTime)

(* "so frozen values don't stay available indefinitely": what a successful *)
(* poll leaves published was read at most MaxReuse failed attempts ago,    *)
(* unless an attempt in between was good and thrown away with its poll;    *)
(* VPN connections at most MaxReuse successful polls ago.                  *)
ReuseIsBounded ==
  current /\ update.phase = "idle" =>
    /\ \A d \in NetDevice :
         /\ published.stats[d] # Nothing /\ ~history.lost["stats"][d]
              => history.tries["stats"][d] <= MaxReuse
         /\ published.wans[d] /\ ~history.lost["wans"][d] => history.tries["wans"][d] <= MaxReuse
    /\ published.vpn => history.vpnTries <= MaxReuse

(* What a poll publishes is what it measured or, for a bounded time, what  *)
(* an earlier one did.                                                     *)
ReadingsAreHonest == RatesFitTheLine /\ ReuseIsBounded

=============================================================================
