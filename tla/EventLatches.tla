---------------------------- MODULE EventLatches ----------------------------
(***************************************************************************)
(* The motion (or ring) latch of one Protect camera or light. Its sensor   *)
(* is on from an event frame with a start until one with an end. The       *)
(* stream may lose the end, so _apply_start_end arms a latch and           *)
(* _expire_stale_latches writes the end itself once the latch is too old.  *)
(*                                                                         *)
(* Nothing but an input sweeps: the poll's start, a reconnect or a device  *)
(* frame. Device frames re-arm the poll timer, REST rebuilds records that  *)
(* hold no start, devices vanish and come back; the model looks for a      *)
(* sensor that all of this together leaves on.                             *)
(***************************************************************************)
EXTENDS Integers

CONSTANTS
  StaleEventTimeout,   \* 5 minutes in the code
  PollInterval,        \* SCAN_INTERVAL_PROTECT, in the same units
  PollTime             \* how long a poll may take (its requests time out)

ASSUME LatchAssumption ==
  {StaleEventTimeout, PollInterval, PollTime} \subseteq Nat \ {0}

VARIABLES
  record,    \* the cached record's start and end fields
  latch,     \* age of the latch, NoLatch if there is none
  gap,       \* time since the poll timer was armed
  poll,      \* age of the poll in flight, NoPoll if there is none
  onFor      \* history: how long the sensor has been on without a break

latchVars == <<record, latch, gap, poll, onFor>>

NoLatch == -1
NoPoll == -1
Absent == [cached |-> FALSE, start |-> "missing", ended |-> FALSE]
Rebuilt == [cached |-> TRUE, start |-> "missing", ended |-> FALSE]

OnIn(r) == r.cached /\ r.start = "set" /\ ~r.ended
On == OnIn(record)

(* onFor starts over whenever the sensor is not on.                        *)
Keeping(time) == onFor' = IF OnIn(record') THEN time ELSE 0

LatchTypeOK ==
  /\ record \in [cached : BOOLEAN, start : {"missing", "none", "set"}, ended : BOOLEAN]
  /\ latch \in 0 .. StaleEventTimeout \cup {NoLatch}
  /\ gap \in 0 .. PollInterval
  /\ poll \in 0 .. PollTime \cup {NoPoll}
  /\ onFor \in Nat

LatchInit ==
  /\ record = Rebuilt
  /\ latch = NoLatch
  /\ gap = 0
  /\ poll = NoPoll
  /\ onFor = 0

-----------------------------------------------------------------------------
(* _apply_start_end: a frame writes the start and the end it has (None for *)
(* one it lacks). A second start keeps the latch's time, an end clears it. *)
EventFrame ==
  /\ record.cached
  /\ \E start \in {"none", "set"}, ended \in BOOLEAN :
       /\ record' = [cached |-> TRUE, start |-> start, ended |-> ended]
       /\ latch' = IF ended THEN NoLatch ELSE IF latch = NoLatch THEN 0 ELSE latch
  /\ Keeping(onFor)
  /\ UNCHANGED <<gap, poll>>

(* _expire_stale_latches.                                                  *)
Stale == latch = StaleEventTimeout

Expired == IF Stale /\ record.cached THEN [record EXCEPT !.ended = TRUE] ELSE record
LatchLeft == IF Stale THEN NoLatch ELSE latch

(* A device frame sweeps before it is merged into the record, or makes one;*)
(* the poll timer is armed again. A frame of another device does the same  *)
(* but for the record.                                                     *)
DeviceFrame_NoSweep ==
  /\ gap' = 0
  /\ record' \in {record, [record EXCEPT !.cached = TRUE]}
  /\ Keeping(onFor)
  /\ UNCHANGED <<latch, poll>>

DeviceFrame ==
  /\ gap' = 0
  /\ record' \in {Expired, [Expired EXCEPT !.cached = TRUE]}
  /\ latch' = LatchLeft
  /\ Keeping(onFor)
  /\ UNCHANGED poll

(* A frame with an unknown model key sweeps and publishes nothing else; so *)
(* does a reconnect of either stream.                                      *)
SweepOnly ==
  /\ record' = Expired
  /\ latch' = LatchLeft
  /\ Keeping(onFor)
  /\ UNCHANGED <<gap, poll>>

PollStarts ==
  /\ gap = PollInterval
  /\ poll = NoPoll
  /\ poll' = 0
  /\ record' = Expired
  /\ latch' = LatchLeft
  /\ Keeping(onFor)
  /\ UNCHANGED gap

-----------------------------------------------------------------------------
(* The poll's answer for the family. A record of a whole or partial answer *)
(* replaces the cached one and has no start; a device a whole answer lacks *)
(* is gone; a partial or failed answer may leave the record as it was.     *)
(* _drop_rebuilt_latches: the latch of a record without a start.           *)
DropsRebuiltLatch(after) == after.cached /\ after.start = "missing"

PollAnswers ==
  /\ poll # NoPoll
  /\ poll' = NoPoll
  /\ gap' = 0
  /\ \E after \in {Rebuilt, Absent, record} :
       /\ record' = after
       /\ latch' = IF DropsRebuiltLatch(after) THEN NoLatch ELSE latch
  /\ Keeping(onFor)

(* An error that is not absorbed, or a failed poll elsewhere, changes      *)
(* neither record nor latch.                                               *)
PollFails ==
  /\ poll # NoPoll
  /\ poll' = NoPoll
  /\ gap' = 0
  /\ UNCHANGED <<record, latch, onFor>>

(* Time. A due poll starts, and one at its timeout ends, before it passes. *)
LatchTick ==
  /\ IF poll = NoPoll THEN gap < PollInterval ELSE poll < PollTime
  /\ IF poll = NoPoll THEN gap' = gap + 1 /\ UNCHANGED poll
                      ELSE poll' = poll + 1 /\ UNCHANGED gap
  /\ latch' = IF latch \in 0 .. StaleEventTimeout - 1 THEN latch + 1 ELSE latch
  /\ onFor' = IF On THEN onFor + 1 ELSE 0
  /\ UNCHANGED record

-----------------------------------------------------------------------------
LatchNext ==
  \/ EventFrame
  \/ DeviceFrame
  \/ SweepOnly
  \/ PollStarts
  \/ PollAnswers
  \/ PollFails
  \/ LatchTick

LatchSpec == LatchInit /\ [][LatchNext]_latchVars

-----------------------------------------------------------------------------
(* A sensor that is on is latched, or nothing would ever turn it off when  *)
(* its end is lost: rebuilt records and vanished devices lose no latch     *)
(* that is still needed.                                                   *)
OnIsLatched == On => latch # NoLatch

(* "A stuck sensor heals within minutes": under any mix of frames, lost    *)
(* ends, polls and failures a sensor is never on for longer than the       *)
(* timeout, one poll interval and one poll.                                *)
StuckSensorHeals == onFor <= StaleEventTimeout + PollInterval + PollTime

=============================================================================
