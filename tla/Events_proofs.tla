--------------------------- MODULE Events_proofs ---------------------------
(***************************************************************************)
(* Theorems about EventLatches, EventStore, TamperOverlay, SensorRefresh   *)
(* and GlobalAlarmManager, for any timeouts, retentions, intervals, sets   *)
(* of events and callers.                                                  *)
(***************************************************************************)
EXTENDS EventLatches, EventStore, TamperOverlay, SensorRefresh, GlobalAlarmManager, TLAPS

-----------------------------------------------------------------------------
(* EventLatches. The latch is at least as old as the sensor has been on,   *)
(* until it is too old; from then on the next sweep is at most the rest of *)
(* the poll, or of the interval and one poll, away.                        *)
Slack == IF poll = NoPoll THEN gap + PollTime ELSE poll

LatchInv ==
  /\ LatchTypeOK
  /\ OnIsLatched
  /\ ~record.cached => record.start = "missing"
  /\ ~On => onFor = 0
  /\ On /\ ~Stale => onFor <= latch
  /\ onFor <= StaleEventTimeout + Slack

LEMMA LatchInitInv == LatchInit => LatchInv
  BY LatchAssumption
  DEF LatchInit, LatchInv, LatchTypeOK, OnIsLatched, On, OnIn, Stale, Slack, Rebuilt,
      NoLatch, NoPoll

(* What a sweep leaves on is younger than the timeout.                     *)
LEMMA SweepInv ==
  ASSUME LatchInv, record' \in {Expired, [Expired EXCEPT !.cached = TRUE]},
         latch' = LatchLeft, Keeping(onFor),
         gap' \in 0 .. PollInterval, poll' \in 0 .. PollTime \cup {NoPoll}
  PROVE  LatchInv'
<1>1. record \in [cached : BOOLEAN, start : {"missing", "none", "set"}, ended : BOOLEAN]
      /\ latch \in 0 .. StaleEventTimeout \cup {NoLatch} /\ onFor \in Nat
  BY DEF LatchInv, LatchTypeOK
<1>2. /\ record' \in [cached : BOOLEAN, start : {"missing", "none", "set"}, ended : BOOLEAN]
      /\ OnIn(record') => record.start = "set" /\ ~record.ended
      /\ ~record'.cached => record'.start = "missing"
  BY <1>1 DEF Expired, OnIn, LatchInv
<1>3. LatchTypeOK'
  BY <1>1, <1>2 DEF LatchTypeOK, LatchLeft, Keeping
<1>4. CASE ~OnIn(record')
  <2>1. onFor' = 0 /\ ~On'
    BY <1>4 DEF Keeping, On, OnIn
  <2>2. Slack' \in Nat
    BY <1>3, LatchAssumption DEF LatchTypeOK, Slack, NoPoll
  <2> QED BY <1>2, <1>3, <2>1, <2>2, LatchAssumption DEF LatchInv, OnIsLatched
<1>5. CASE OnIn(record') /\ ~OnIn(record)
  <2>1. onFor' = 0 /\ onFor = 0
    BY <1>5 DEF Keeping, LatchInv, On
  <2>2. ~record.cached /\ record.start = "set"
    BY <1>5, <1>2 DEF OnIn
  <2> QED BY <2>2 DEF LatchInv
<1>6. CASE OnIn(record') /\ OnIn(record)
  <2>1. ~Stale
    BY <1>6, <1>1 DEF Expired, OnIn
  <2>2. latch' = latch /\ onFor' = onFor /\ latch # NoLatch /\ onFor <= latch /\ On'
    BY <1>6, <2>1 DEF LatchLeft, Keeping, LatchInv, OnIsLatched, On, OnIn
  <2>3. Slack' \in Nat
    BY <1>3, LatchAssumption DEF LatchTypeOK, Slack, NoPoll
  <2> QED BY <1>1, <1>2, <1>3, <2>1, <2>2, <2>3, LatchAssumption
          DEF LatchInv, OnIsLatched, Stale, NoLatch
<1> QED BY <1>4, <1>5, <1>6

LEMMA EventFrameInv ==
  ASSUME LatchInv, EventFrame
  PROVE  LatchInv'
<1>1. /\ record'.cached /\ latch' \in 0 .. StaleEventTimeout \cup {NoLatch}
      /\ record' \in [cached : BOOLEAN, start : {"missing", "none", "set"}, ended : BOOLEAN]
      /\ ~record'.ended => latch' # NoLatch /\ (latch # NoLatch => latch' = latch)
      /\ gap' = gap /\ poll' = poll /\ Keeping(onFor) /\ onFor \in Nat
  BY LatchAssumption DEF EventFrame, LatchInv, LatchTypeOK, NoLatch
<1>2. LatchTypeOK' /\ Slack' = Slack
  BY <1>1 DEF LatchTypeOK, LatchInv, Keeping, Slack
<1>3. CASE ~OnIn(record') \/ ~On
  <2>1. onFor' = 0
    BY <1>1, <1>3 DEF Keeping, LatchInv
  <2>2. Slack \in Nat
    BY LatchAssumption DEF LatchInv, LatchTypeOK, Slack, NoPoll
  <2> QED BY <1>1, <1>2, <2>1, <2>2, LatchAssumption
          DEF LatchInv, OnIsLatched, On, OnIn, NoLatch
<1>4. CASE OnIn(record') /\ On
  <2>1. latch # NoLatch /\ latch' = latch /\ onFor' = onFor
    BY <1>1, <1>4 DEF LatchInv, OnIsLatched, OnIn, Keeping
  <2> QED BY <1>1, <1>2, <1>4, <2>1 DEF LatchInv, OnIsLatched, On, Stale
<1> QED BY <1>3, <1>4

LEMMA PollAnswersInv ==
  ASSUME LatchInv, PollAnswers
  PROVE  LatchInv'
<1>1. PICK after \in {Rebuilt, Absent, record} :
        /\ record' = after
        /\ latch' = IF DropsRebuiltLatch(after) THEN NoLatch ELSE latch
  BY DEF PollAnswers
<1>2. poll' = NoPoll /\ gap' = 0 /\ Keeping(onFor) /\ poll \in 0 .. PollTime /\ onFor \in Nat
  BY DEF PollAnswers, LatchInv, LatchTypeOK
<1>3. LatchTypeOK'
  <2>1. record' \in [cached : BOOLEAN, start : {"missing", "none", "set"}, ended : BOOLEAN]
    <3> DEFINE Records == [cached : BOOLEAN, start : {"missing", "none", "set"},
                           ended : BOOLEAN]
    <3>1. Rebuilt \in Records /\ Absent \in Records
      BY DEF Rebuilt, Absent
    <3>2. record \in Records
      BY DEF LatchInv, LatchTypeOK
    <3> HIDE DEF Records
    <3>3. record' \in Records
      BY <1>1, <3>1, <3>2
    <3> QED BY <3>3 DEF Records
  <2>2. latch' \in 0 .. StaleEventTimeout \cup {NoLatch}
    BY <1>1 DEF LatchInv, LatchTypeOK
  <2>3. onFor' \in Nat /\ gap' \in 0 .. PollInterval
    BY <1>2, LatchAssumption DEF Keeping
  <2> QED BY <1>2, <2>1, <2>2, <2>3 DEF LatchTypeOK
<1>4. Slack' = PollTime /\ Slack = poll
  BY <1>2, LatchAssumption DEF Slack, NoPoll
<1>5. CASE OnIn(record')
  <2>1. record' = record /\ latch' = latch /\ onFor' = onFor /\ On /\ On'
    BY <1>1, <1>2, <1>5 DEF Rebuilt, Absent, OnIn, On, DropsRebuiltLatch, Keeping
  <2> QED BY <1>2, <1>3, <1>4, <2>1, LatchAssumption
          DEF LatchInv, OnIsLatched, Stale
<1>6. CASE ~OnIn(record')
  <2>1. onFor' = 0 /\ ~On'
    BY <1>2, <1>6 DEF Keeping, On, OnIn
  <2>2. ~record'.cached => record'.start = "missing"
    BY <1>1 DEF LatchInv, Rebuilt, Absent
  <2> QED BY <1>3, <1>4, <2>1, <2>2, LatchAssumption DEF LatchInv, OnIsLatched
<1> QED BY <1>5, <1>6

LEMMA LatchTickInv ==
  ASSUME LatchInv, LatchTick
  PROVE  LatchInv'
<1>1. /\ onFor \in Nat /\ gap \in 0 .. PollInterval /\ poll \in 0 .. PollTime \cup {NoPoll}
      /\ latch \in 0 .. StaleEventTimeout \cup {NoLatch}
  BY DEF LatchInv, LatchTypeOK
<1>2. /\ gap' \in 0 .. PollInterval /\ poll' \in 0 .. PollTime \cup {NoPoll}
      /\ Slack' = Slack + 1
  BY <1>1, LatchAssumption DEF LatchTick, Slack, NoPoll
<1>3. /\ latch' \in 0 .. StaleEventTimeout \cup {NoLatch}
      /\ latch # NoLatch => latch' # NoLatch
      /\ latch' \in {latch, latch + 1}
      /\ latch' # StaleEventTimeout => latch # StaleEventTimeout
      /\ latch # NoLatch /\ latch' # StaleEventTimeout => latch' = latch + 1
  BY <1>1, LatchAssumption DEF LatchTick, NoLatch
<1>4. record' = record /\ onFor' = IF On THEN onFor + 1 ELSE 0
  BY DEF LatchTick
<1>5. LatchTypeOK' /\ OnIsLatched'
  BY <1>1, <1>2, <1>3, <1>4 DEF LatchInv, LatchTypeOK, OnIsLatched, On
<1>6. Slack \in Nat
  BY <1>1, LatchAssumption DEF Slack, NoPoll
<1>7. onFor' <= StaleEventTimeout + Slack' /\ (~On' => onFor' = 0)
  BY <1>1, <1>2, <1>4, <1>6, LatchAssumption DEF LatchInv, On
<1>8. On' /\ ~Stale' => onFor' <= latch'
  BY <1>1, <1>3, <1>4 DEF LatchInv, OnIsLatched, On, Stale
<1> QED BY <1>4, <1>5, <1>7, <1>8 DEF LatchInv

LEMMA LatchInvHolds == LatchSpec => []LatchInv
<1>1. LatchInv /\ [LatchNext]_latchVars => LatchInv'
  <2> SUFFICES ASSUME LatchInv, [LatchNext]_latchVars PROVE LatchInv'
    OBVIOUS
  <2>1. LatchTypeOK
    BY DEF LatchInv
  <2>2. CASE DeviceFrame \/ SweepOnly \/ PollStarts
    <3>1. /\ record' \in {Expired, [Expired EXCEPT !.cached = TRUE]}
          /\ latch' = LatchLeft /\ Keeping(onFor)
      BY <2>2 DEF DeviceFrame, SweepOnly, PollStarts
    <3>2. gap' \in 0 .. PollInterval /\ poll' \in 0 .. PollTime \cup {NoPoll}
      BY <2>1, <2>2, LatchAssumption
      DEF DeviceFrame, SweepOnly, PollStarts, LatchTypeOK
    <3> QED BY <3>1, <3>2, SweepInv
  <2>3. CASE PollFails
    <3>1. Slack' = PollTime /\ Slack = poll /\ poll \in 0 .. PollTime
      BY <2>1, <2>3, LatchAssumption DEF PollFails, Slack, LatchTypeOK, NoPoll
    <3>2. gap' = 0 /\ poll' = NoPoll /\ UNCHANGED <<record, latch, onFor>>
      BY <2>3 DEF PollFails
    <3>3. onFor \in Nat /\ onFor <= StaleEventTimeout + Slack
      BY <2>1 DEF LatchTypeOK, LatchInv
    <3>4. onFor' <= StaleEventTimeout + Slack'
      BY <3>1, <3>2, <3>3, LatchAssumption
    <3>5. LatchTypeOK' /\ OnIsLatched'
      BY <3>2, LatchAssumption DEF LatchInv, LatchTypeOK, OnIsLatched, On
    <3> QED BY <3>2, <3>4, <3>5 DEF LatchInv, On, Stale
  <2>4. CASE UNCHANGED latchVars
    BY <2>4 DEF latchVars, LatchInv, LatchTypeOK, OnIsLatched, On, Stale, Slack
  <2> QED BY <2>2, <2>3, <2>4, EventFrameInv, PollAnswersInv, LatchTickInv DEF LatchNext
<1> QED BY <1>1, LatchInitInv, PTL DEF LatchSpec

(* Whatever vanishes, comes back or is rebuilt, a sensor that is on has a  *)
(* latch, for any timeout and intervals.                                   *)
THEOREM OnSensorsAreLatched == LatchSpec => []OnIsLatched
<1>1. LatchInv => OnIsLatched
  BY DEF LatchInv
<1> QED BY <1>1, LatchInvHolds, PTL

(* A sensor is never on for longer than the timeout, one poll interval and *)
(* one poll, for any values of the three.                                  *)
THEOREM StuckSensorsHeal == LatchSpec => []StuckSensorHeals
<1>1. LatchInv => StuckSensorHeals
  <2> SUFFICES ASSUME LatchInv PROVE StuckSensorHeals
    OBVIOUS
  <2>1. Slack \in Nat /\ Slack <= PollInterval + PollTime /\ onFor \in Nat
    BY LatchAssumption DEF LatchInv, LatchTypeOK, Slack, NoPoll
  <2> QED BY <2>1, LatchAssumption DEF LatchInv, StuckSensorHeals
<1> QED BY <1>1, LatchInvHolds, PTL

-----------------------------------------------------------------------------
(* EventStore. A stamp is no older than the event it stands for (but for   *)
(* the console's clock), and no stamp kept by the last sweep was older     *)
(* than the retention then. An event dispatched and no longer stored is    *)
(* history, as long as the console's clock is not ahead.                   *)
StoreInv ==
  /\ StoreTypeOK
  /\ \A e \in Event : startedAt[e] <= now + ahead
  /\ \A e \in Event : startedAt[e] = NotYet =>
       e \notin events /\ seen[e] = NotYet /\ dispatched[e] = 0
  /\ \A e \in Event : seen[e] # NotYet => startedAt[e] <= seen[e] + ahead
  /\ \A e \in Event :
       seen[e] # NotYet => sweptAt # NotYet /\ seen[e] >= sweptAt - EventRetention
  /\ sweptAt # NotYet => lastInput < sweptAt + SweepInterval
  /\ lastInput <= now
  /\ ahead = 0 =>
       \A e \in Event : /\ dispatched[e] <= 1
                        /\ dispatched[e] = 1 /\ e \notin events
                             => startedAt[e] < now - EventRetention

LEMMA StoreTypes ==
  ASSUME StoreInv
  PROVE  /\ ahead \in Nat /\ ahead <= Margin /\ now \in Nat /\ now \in 0 .. MaxTime
         /\ events \in SUBSET Event /\ lastInput \in Nat
         /\ sweptAt \in Nat \cup {NotYet} /\ EventRetention \in Nat
         /\ EventRetention = Timeline + Margin
         /\ \A e \in Event : /\ startedAt[e] \in Nat \cup {NotYet}
                             /\ seen[e] \in Nat \cup {NotYet}
                             /\ dispatched[e] \in Nat
  BY StoreAssumption DEF StoreInv, StoreTypeOK, EventRetention

LEMMA StoreInitInv == StoreInit => StoreInv
<1> SUFFICES ASSUME StoreInit PROVE StoreInv
  OBVIOUS
<1>1. StoreTypeOK
  BY StoreAssumption DEF StoreInit, StoreTypeOK, NotYet
<1> QED BY <1>1, StoreAssumption DEF StoreInit, StoreInv, StoreTypeOK, NotYet

(* What a sweep leaves in the store and stamped.                           *)
LEMMA SweepKeeps ==
  ASSUME StoreInv, Sweep, UNCHANGED <<ahead, now, startedAt>>
  PROVE  /\ seen' \in [Event -> 0 .. MaxTime \cup {NotYet}]
         /\ sweptAt' \in 0 .. MaxTime \cup {NotYet}
         /\ lastInput' = now
         /\ \A e \in Event : seen'[e] # NotYet => startedAt[e] <= seen'[e] + ahead
         /\ \A e \in Event :
              seen'[e] # NotYet => sweptAt' # NotYet /\ seen'[e] >= sweptAt' - EventRetention
         /\ sweptAt' # NotYet => now < sweptAt' + SweepInterval
         /\ \A e \in Event : startedAt[e] = NotYet => seen'[e] = NotYet
         /\ Left \subseteq events
         /\ \A e \in events \ Left : startedAt[e] < now - EventRetention + ahead
<1>0. /\ ahead \in Nat /\ now \in 0 .. MaxTime /\ lastInput \in Nat
      /\ sweptAt \in Nat \cup {NotYet} /\ EventRetention \in Nat
      /\ \A e \in Event : /\ startedAt[e] \in Nat \cup {NotYet}
                          /\ seen[e] \in Nat \cup {NotYet}
  BY StoreTypes
<1>1. CASE Due
  <2>1. /\ seen' = [e \in Event |-> IF e \in Kept THEN Stamp(e) ELSE NotYet]
        /\ sweptAt' = now /\ lastInput' = now /\ Left = Kept
    BY <1>1 DEF Sweep, Left
  <2>2. ASSUME NEW e \in Event
        PROVE  /\ Stamp(e) \in 0 .. MaxTime /\ startedAt[e] <= Stamp(e) + ahead
               /\ e \in Kept => Stamp(e) >= now - EventRetention
               /\ e \in events \ Kept => Stamp(e) < now - EventRetention
    BY <1>0 DEF Stamp, Kept, StoreInv, StoreTypeOK, NotYet
  <2>3. \A e \in Event : seen'[e] = IF e \in Kept THEN Stamp(e) ELSE NotYet
    BY <2>1
  <2>4. seen' \in [Event -> 0 .. MaxTime \cup {NotYet}]
    BY <2>1, <2>2
  <2>5. now # NotYet /\ now < now + SweepInterval
    BY <1>0, StoreAssumption DEF NotYet
  <2>6. \A e \in Event :
          seen'[e] # NotYet => /\ startedAt[e] <= seen'[e] + ahead
                               /\ seen'[e] >= sweptAt' - EventRetention
    BY <2>1, <2>2, <2>3
  <2>7. Left \subseteq events
    BY <2>1 DEF Kept
  <2>8. \A e \in events \ Left : startedAt[e] < now - EventRetention + ahead
    <3> SUFFICES ASSUME NEW e \in events \ Kept
                 PROVE  startedAt[e] < now - EventRetention + ahead
      BY <2>1
    <3>1. e \in Event
      BY DEF StoreInv, StoreTypeOK
    <3>2. /\ Stamp(e) \in 0 .. MaxTime /\ startedAt[e] <= Stamp(e) + ahead
          /\ Stamp(e) < now - EventRetention
      BY <2>2, <3>1
    <3>3. startedAt[e] \in Int /\ Stamp(e) \in Int /\ now \in Int
      BY <1>0, <3>1, <3>2 DEF NotYet
    <3> QED BY <1>0, <3>2, <3>3
  <2>9. ASSUME NEW e \in Event, startedAt[e] = NotYet PROVE seen'[e] = NotYet
    BY <2>3, <2>9 DEF StoreInv, Kept
  <2> QED BY <1>0, <2>1, <2>4, <2>5, <2>6, <2>7, <2>8, <2>9
<1>2. CASE ~Due
  <2>1. /\ UNCHANGED <<seen, sweptAt>> /\ lastInput' = now /\ Left = events
        /\ sweptAt # NotYet /\ ~(now >= sweptAt + SweepInterval)
    BY <1>2 DEF Sweep, Left, Due
  <2>2. now < sweptAt + SweepInterval
    BY <1>0, <2>1, StoreAssumption
  <2> QED BY <2>1, <2>2 DEF StoreInv, StoreTypeOK
<1> QED BY <1>1, <1>2

LEMMA SweepingInputInv ==
  ASSUME StoreInv, SweepingInput
  PROVE  StoreInv'
<1>1. UNCHANGED <<ahead, now, startedAt, dispatched>> /\ Sweep /\ events' = Left
  BY DEF SweepingInput
<1>2. ahead = 0 =>
        \A e \in Event : dispatched[e] = 1 /\ e \notin Left
                           => startedAt[e] < now - EventRetention
  BY <1>1, SweepKeeps, StoreTypes DEF StoreInv
<1>3. StoreTypeOK'
  BY <1>1, SweepKeeps DEF StoreInv, StoreTypeOK
<1> QED BY <1>1, <1>2, <1>3, SweepKeeps, StoreTypes DEF StoreInv, EventRetention

LEMMA EventArrivesInv ==
  ASSUME StoreInv, NEW e \in Event, EventArrives(e)
  PROVE  StoreInv'
<1>1. /\ UNCHANGED <<ahead, now, startedAt>> /\ Sweep /\ startedAt[e] # NotYet
      /\ events' = IF e \notin Left /\ ~StartedBeforeRetention(e) THEN Left \cup {e} ELSE Left
      /\ dispatched' \in {dispatched, [dispatched EXCEPT ![e] = @ + 1]}
      /\ dispatched' # dispatched => e \notin Left /\ ~StartedBeforeRetention(e)
  BY DEF EventArrives
<1>2. /\ dispatched' \in [Event -> Nat]
      /\ \A d \in Event \ {e} : dispatched'[d] = dispatched[d]
      /\ dispatched'[e] \in {dispatched[e], dispatched[e] + 1}
  BY <1>1 DEF StoreInv, StoreTypeOK
<1>3. StoreTypeOK'
  BY <1>1, <1>2, SweepKeeps DEF StoreInv, StoreTypeOK
<1>4. ahead = 0 =>
        \A d \in Event : dispatched[d] = 1 /\ d \notin Left
                           => startedAt[d] < now - EventRetention
  BY <1>1, SweepKeeps, StoreTypes DEF StoreInv
<1>5. ASSUME ahead = 0, NEW d \in Event
      PROVE  /\ dispatched'[d] <= 1
             /\ dispatched'[d] = 1 /\ d \notin events' => startedAt[d] < now - EventRetention
  <2>1. CASE dispatched' = dispatched
    <3>1. dispatched[d] <= 1
      BY <1>5 DEF StoreInv
    <3>2. d \notin events' => d \notin Left
      BY <1>1
    <3> QED BY <2>1, <1>4, <1>5, <3>1, <3>2
  <2>2. CASE dispatched' # dispatched
    <3>1. e \notin Left /\ ~(startedAt[e] < now - EventRetention) /\ e \in events'
      BY <1>1, <2>2 DEF StartedBeforeRetention
    <3>2. dispatched[e] # 1 /\ dispatched[e] <= 1 /\ dispatched[e] \in Nat
      BY <3>1, <1>4, <1>5, StoreTypes DEF StoreInv
    <3>3. d # e => dispatched'[d] = dispatched[d] /\ (d \notin events' => d \notin Left)
      BY <1>1, <1>2
    <3> QED BY <1>2, <1>4, <1>5, <3>1, <3>2, <3>3 DEF StoreInv
  <2> QED BY <2>1, <2>2
<1>6. \A d \in Event : startedAt[d] = NotYet =>
        d \notin events' /\ seen'[d] = NotYet /\ dispatched'[d] = 0
  BY <1>1, <1>2, SweepKeeps DEF StoreInv
<1> QED BY <1>1, <1>3, <1>5, <1>6, SweepKeeps, StoreTypes DEF StoreInv, EventRetention

LEMMA StoreInvHolds == StoreSpec => []StoreInv
<1>1. StoreInv /\ [StoreNext]_storeVars => StoreInv'
  <2> SUFFICES ASSUME StoreInv, [StoreNext]_storeVars PROVE StoreInv'
    OBVIOUS
  <2>1. ASSUME NEW e \in Event, EventHappens(e) PROVE StoreInv'
    <3>1. /\ startedAt[e] = NotYet
          /\ startedAt' = [startedAt EXCEPT ![e] = now + ahead]
          /\ UNCHANGED <<ahead, now, events, seen, sweptAt, dispatched, lastInput>>
      BY <2>1 DEF EventHappens
    <3>2. now + ahead \in 0 .. MaxTime + Margin
      BY StoreTypes, StoreAssumption
    <3>3. startedAt' \in [Event -> 0 .. MaxTime + Margin \cup {NotYet}]
          /\ startedAt'[e] = now + ahead
          /\ \A d \in Event \ {e} : startedAt'[d] = startedAt[d]
      BY <3>1, <3>2 DEF StoreInv, StoreTypeOK
    <3>4. StoreTypeOK'
      BY <3>1, <3>3 DEF StoreInv, StoreTypeOK
    <3>5. e \notin events /\ seen[e] = NotYet /\ dispatched[e] = 0
      BY <3>1 DEF StoreInv
    <3>6. ASSUME ahead = 0, NEW d \in Event
          PROVE  /\ dispatched[d] <= 1
                 /\ dispatched[d] = 1 /\ d \notin events => startedAt'[d] < now - EventRetention
      BY <3>3, <3>5, <3>6 DEF StoreInv
    <3>7. \A d \in Event : /\ startedAt'[d] <= now + ahead
                           /\ seen[d] # NotYet => startedAt'[d] <= seen[d] + ahead
      BY <3>2, <3>3, <3>5 DEF StoreInv
    <3>8. \A d \in Event : startedAt'[d] = NotYet =>
            d \notin events /\ seen[d] = NotYet /\ dispatched[d] = 0
      BY <3>2, <3>3, <3>5 DEF StoreInv, NotYet
    <3> QED BY <3>1, <3>4, <3>6, <3>7, <3>8 DEF StoreInv, EventRetention
  <2>2. CASE StoreTick
    <3>1. now' = now + 1 /\ now' \in 0 .. MaxTime
          /\ UNCHANGED <<ahead, startedAt, events, seen, sweptAt, dispatched, lastInput>>
      BY <2>2, StoreTypes, StoreAssumption DEF StoreTick
    <3>2. StoreTypeOK'
      BY <3>1 DEF StoreInv, StoreTypeOK
    <3>3. ASSUME ahead = 0, NEW d \in Event, dispatched[d] = 1, d \notin events
          PROVE  startedAt[d] < now' - EventRetention
      <4>1. startedAt[d] < now - EventRetention
        BY <3>3 DEF StoreInv
      <4>2. startedAt[d] \in Int /\ now \in Int /\ EventRetention \in Int
        BY StoreTypes DEF NotYet
      <4> QED BY <3>1, <4>1, <4>2
    <3>4. \A d \in Event : startedAt[d] <= now' + ahead
      <4> SUFFICES ASSUME NEW d \in Event PROVE startedAt[d] <= now' + ahead
        OBVIOUS
      <4>1. startedAt[d] <= now + ahead
        BY DEF StoreInv
      <4>2. startedAt[d] \in Int /\ now \in Int /\ ahead \in Int
        BY StoreTypes DEF NotYet
      <4> QED BY <3>1, <4>1, <4>2
    <3>5. lastInput <= now'
      BY <3>1, StoreTypes DEF StoreInv
    <3> QED BY <3>1, <3>2, <3>3, <3>4, <3>5 DEF StoreInv, EventRetention
  <2>3. CASE UNCHANGED storeVars
    BY <2>3 DEF storeVars, StoreInv, StoreTypeOK
  <2> QED BY <2>1, <2>2, <2>3, SweepingInputInv, EventArrivesInv DEF StoreNext
<1> QED BY <1>1, StoreInitInv, PTL DEF StoreSpec

(* The store's bound holds for any retention and sweep interval.           *)
THEOREM StoredEventsAreForgotten == StoreSpec => []EventsAreForgotten
<1>1. StoreInv => EventsAreForgotten
  <2> SUFFICES ASSUME StoreInv, NEW e \in events, seen[e] # NotYet
               PROVE  seen[e] + EventRetention + SweepInterval > lastInput
    BY DEF EventsAreForgotten
  <2>1. e \in Event
    BY DEF StoreInv, StoreTypeOK
  <2>2. sweptAt # NotYet /\ seen[e] >= sweptAt - EventRetention
        /\ lastInput < sweptAt + SweepInterval
    BY <2>1 DEF StoreInv
  <2>3. sweptAt \in Nat /\ seen[e] \in Nat /\ EventRetention \in Nat /\ lastInput \in Nat
        /\ SweepInterval \in Nat
    BY <2>1, <2>2, StoreTypes, StoreAssumption
  <2> QED BY <2>2, <2>3
<1> QED BY <1>1, StoreInvHolds, PTL

(* With console and Home Assistant on the same clock no late or repeated   *)
(* frame dispatches a digital input twice, whatever the retention.         *)
THEOREM InputsAreDispatchedOnce == StoreSpec => []DispatchedOnce
<1>1. StoreInv => DispatchedOnce
  BY DEF StoreInv, DispatchedOnce
<1> QED BY <1>1, StoreInvHolds, PTL

(* No event leaves the store while the timeline still reaches back to it,  *)
(* as long as the console's clock is ahead by no more than the margin.     *)
THEOREM TimelineStaysComplete == StoreSpec => TimelineIsComplete
<1> DEFINE Step == \A e \in events \ events' : startedAt[e] < now - Timeline
<1>1. StoreInv /\ [StoreNext]_storeVars => [Step]_storeVars
  <2> SUFFICES ASSUME StoreInv, StoreNext, NEW e \in events \ events'
               PROVE  startedAt[e] < now - Timeline
    OBVIOUS
  <2>1. Sweep /\ UNCHANGED <<ahead, now, startedAt>> /\ e \notin Left
    BY DEF StoreNext, SweepingInput, EventArrives, EventHappens, StoreTick
  <2>2. startedAt[e] < now - EventRetention + ahead
    BY <2>1, SweepKeeps
  <2>3. e \in Event
    BY DEF StoreInv, StoreTypeOK
  <2> QED BY <2>2, <2>3, StoreTypes, StoreAssumption DEF NotYet
<1> QED BY <1>1, StoreInvHolds, PTL DEF StoreSpec, TimelineIsComplete

-----------------------------------------------------------------------------
(* TamperOverlay. A status on record that came at or after the request is  *)
(* what the hub shows; one that came before is no newer than the answer.   *)
TamperInv ==
  /\ TamperTypeOK
  /\ tampered.event <= tampered.status
  /\ hub <= tampered.status
  /\ tamper.status <= tampered.status
  /\ sent.status <= tampered.status
  /\ ask.at <= clock /\ tamper.received <= clock
  /\ tamper.status # Unknown => hub # Unknown
  /\ tamper.status # Unknown /\ tamper.received >= ask.at => hub = tamper.status
  /\ ~restHasField /\ tamper.status # Unknown => hub = tamper.status
  /\ ask.status <= tampered.status
  /\ ask.phase = "answered" => ((ask.status = Unknown) <=> ~restHasField)
  /\ ask.phase = "answered" /\ restHasField /\ tamper.status # Unknown
       /\ tamper.received < ask.at
     => hub <= ask.status /\ tamper.status <= ask.status

LEMMA TamperTypes ==
  ASSUME TamperTypeOK
  PROVE  /\ clock \in 0 .. MaxTamperTime /\ clock \in Nat
         /\ hub \in Nat \cup {Unknown} /\ hub \in Status \cup {Unknown}
         /\ tampered.status \in Status /\ tampered.event \in Status
         /\ sent.status \in Status /\ sent.event \in Status
         /\ tamper.status \in Status \cup {Unknown} /\ tamper.event \in Status \cup {Unknown}
         /\ tamper.received \in 0 .. MaxTamperTime /\ tamper.received \in Nat
         /\ ask.at \in 0 .. MaxTamperTime /\ ask.at \in Nat
         /\ ask.status \in Status \cup {Unknown}
         /\ \A n \in Status : n \in Nat /\ n # Unknown
  BY TamperAssumption DEF TamperTypeOK, Change, Status, Unknown

LEMMA TamperInitInv == TamperInit => TamperInv
<1> SUFFICES ASSUME TamperInit PROVE TamperInv
  OBVIOUS
<1> USE TamperAssumption
<1>1. 0 \in Status /\ 0 \in 0 .. MaxTamperTime /\ 0 # Unknown /\ Unknown <= 0
  BY DEF Status, Unknown
<1>2. /\ tampered = [status |-> 0, event |-> 0] /\ sent = tampered
      /\ tamper = [event |-> Unknown, status |-> Unknown, received |-> 0]
      /\ ask = [phase |-> "idle", at |-> 0, status |-> Unknown]
      /\ clock = 0 /\ hub \in {0, Unknown} /\ restHasField \in BOOLEAN
  BY DEF TamperInit, NoRecord
<1>3. TamperTypeOK
  BY <1>1, <1>2 DEF TamperTypeOK, Change
<1> QED BY <1>1, <1>2, <1>3 DEF TamperInv

(* A frame: its status was the console's, and arrives no earlier than the  *)
(* request went out.                                                       *)
LEMMA TamperFrameInv ==
  ASSUME TamperInv, TamperFrame
  PROVE  TamperInv'
<1>0. TamperTypeOK
  BY DEF TamperInv
<1>1. PICK change \in Change : \E status \in {change.status, Unknown} :
        /\ change = sent \/ (change = tampered /\ sent # tampered)
        /\ sent' = change
        /\ tamper' = NewRecord(change.event, status)
  BY DEF TamperFrame
<1>2. PICK status \in {change.status, Unknown} : tamper' = NewRecord(change.event, status)
  BY <1>1
<1>3. /\ change.status \in Status /\ change.event \in Status
      /\ change.status <= tampered.status
      /\ status \in Status \cup {Unknown} /\ status <= tampered.status
  BY <1>0, <1>1, <1>2, TamperTypes DEF Change, TamperInv, Unknown
<1>4. /\ UNCHANGED <<restHasField, tampered, clock, ask>>
      /\ hub' = IF tamper'.status = Unknown THEN hub ELSE tamper'.status
  BY DEF TamperFrame
<1>5. CASE tamper' = tamper
  <2>1. hub' = IF tamper.status = Unknown THEN hub ELSE tamper.status
    BY <1>4, <1>5
  <2>2. TamperTypeOK'
    BY <1>0, <1>1, <1>3, <1>4, <1>5, <2>1, TamperTypes DEF TamperTypeOK
  <2> QED BY <1>1, <1>3, <1>4, <1>5, <2>1, <2>2, TamperTypes, <1>0 DEF TamperInv
<1>6. CASE tamper' # tamper
  <2>1. tamper' = [event |-> change.event, status |-> status, received |-> clock]
    BY <1>2, <1>6 DEF NewRecord
  <2>2. tamper'.status = status /\ tamper'.received = clock /\ tamper'.event = change.event
    BY <2>1
  <2>3. hub' \in Status \cup {Unknown}
    BY <1>0, <1>3, <1>4, <2>2, TamperTypes
  <2>4. tamper' \in [event : Status \cup {Unknown}, status : Status \cup {Unknown},
                     received : 0 .. MaxTamperTime]
    BY <1>0, <1>3, <2>1, TamperTypes
  <2>5. TamperTypeOK'
    BY <1>0, <1>1, <1>4, <2>3, <2>4 DEF TamperTypeOK
  <2>6. hub' <= tampered.status
    BY <1>3, <1>4, <2>2 DEF TamperInv
  <2> QED BY <1>0, <1>1, <1>3, <1>4, <2>2, <2>5, <2>6, TamperTypes DEF TamperInv
<1> QED BY <1>5, <1>6

(* What an applied answer leaves on the hub.                               *)
LEMMA ApplyAskInv ==
  ASSUME TamperInv, ApplyAsk
  PROVE  /\ TamperInv'
         /\ tamper.status # Unknown => hub' # Unknown /\ hub' >= hub
<1> DEFINE reported == IF ask.phase = "answered" THEN ask.status ELSE hub
<1>0. TamperTypeOK
  BY DEF TamperInv
<1>t. /\ clock \in Nat /\ hub \in Nat \cup {Unknown} /\ tamper.received \in Nat
      /\ ask.at \in Nat /\ tampered.status \in Nat
      /\ ask.status \in Nat \cup {Unknown} /\ tamper.status \in Nat \cup {Unknown}
  BY <1>0, TamperTypes
<1>1. /\ hub' = Overlaid(reported) /\ ask' = [ask EXCEPT !.phase = "idle"]
      /\ UNCHANGED <<restHasField, tampered, sent, clock, tamper>>
  BY DEF ApplyAsk
<1>2. ask'.phase = "idle" /\ ask'.at = ask.at /\ ask'.status = ask.status
      /\ ask' \in [phase : {"idle", "sent", "answered", "failed"},
                   at : 0 .. MaxTamperTime, status : Status \cup {Unknown}]
  BY <1>0, <1>1 DEF TamperTypeOK
<1>3. CASE tamper.status # Unknown /\ (reported = Unknown \/ tamper.received >= ask.at)
  <2>1. hub' = tamper.status
    BY <1>1, <1>3 DEF Overlaid
  <2>2. hub = tamper.status
    <3>1. CASE tamper.received >= ask.at
      BY <1>3, <3>1 DEF TamperInv
    <3>2. CASE reported = Unknown
      BY <1>3, <3>2 DEF TamperInv
    <3> QED BY <1>3, <3>1, <3>2
  <2> QED BY <1>0, <1>1, <1>2, <1>3, <1>t, <2>1, <2>2 DEF TamperInv, TamperTypeOK, Unknown
<1>4. CASE ~(tamper.status # Unknown /\ (reported = Unknown \/ tamper.received >= ask.at))
  <2>1. hub' = reported
    BY <1>1, <1>4 DEF Overlaid
  <2>2. reported \in Status \cup {Unknown}
    BY <1>0, TamperTypes
  <2>3. reported <= tampered.status
    BY DEF TamperInv
  <2>4. TamperTypeOK'
    BY <1>0, <1>1, <1>2, <2>1, <2>2 DEF TamperTypeOK
  <2>5. CASE tamper.status = Unknown
    BY <1>1, <1>2, <1>t, <2>1, <2>3, <2>4, <2>5 DEF TamperInv
  <2>6. CASE tamper.status # Unknown
    <3>1. reported # Unknown /\ tamper.received < ask.at
      BY <1>4, <1>t, <2>6
    <3>2. reported >= hub
      BY <1>t, <2>6, <3>1 DEF TamperInv, Unknown
    <3>3. restHasField \/ reported = tamper.status
      BY <2>6, <3>1 DEF TamperInv
    <3> QED BY <1>1, <1>2, <1>t, <2>1, <2>3, <2>4, <2>6, <3>1, <3>2, <3>3 DEF TamperInv
  <2> QED BY <2>5, <2>6
<1> QED BY <1>3, <1>4

LEMMA TamperInvHolds == TamperSpec => []TamperInv
<1>1. TamperInv /\ [TamperNext]_tamperVars => TamperInv'
  <2> SUFFICES ASSUME TamperInv, [TamperNext]_tamperVars PROVE TamperInv'
    OBVIOUS
  <2>0. TamperTypeOK
    BY DEF TamperInv
  <2>1. CASE HubChanges
    <3>1. PICK id \in {tampered.event, tampered.event + 1} :
            tampered' = [status |-> tampered.status + 1, event |-> id]
      BY <2>1 DEF HubChanges
    <3>2. /\ tampered.status \in Nat /\ tampered.status < MaxTampers
          /\ tampered.event \in Nat /\ tampered.event <= tampered.status
      BY <2>0, <2>1, TamperTypes DEF HubChanges, TamperInv
    <3>3. tampered.status + 1 \in Status /\ id \in Status /\ id <= tampered.status + 1
      BY <3>2, TamperAssumption DEF Status
    <3>4. /\ tampered' \in Change /\ tampered'.status = tampered.status + 1
          /\ tampered'.event = id
      BY <3>1, <3>3 DEF Change
    <3>5. UNCHANGED <<restHasField, sent, clock, hub, tamper, ask>>
      BY <2>1 DEF HubChanges
    <3>6. TamperTypeOK'
      BY <2>0, <3>4, <3>5 DEF TamperTypeOK
    <3>7. /\ hub <= tampered.status + 1 /\ tamper.status <= tampered.status + 1
          /\ sent.status <= tampered.status + 1 /\ ask.status <= tampered.status + 1
      BY <2>0, <3>2, TamperTypes DEF TamperInv, Unknown
    <3> QED BY <3>3, <3>4, <3>5, <3>6, <3>7 DEF TamperInv
  <2>2. CASE TamperTick
    <3>1. /\ clock' = clock + 1 /\ clock' \in 0 .. MaxTamperTime
          /\ UNCHANGED <<restHasField, tampered, sent, hub, tamper, ask>>
      BY <2>0, <2>2, TamperTypes, TamperAssumption DEF TamperTick
    <3>2. TamperTypeOK'
      BY <2>0, <3>1 DEF TamperTypeOK
    <3>3. ask.at <= clock + 1 /\ tamper.received <= clock + 1
      BY <2>0, TamperTypes DEF TamperInv
    <3> QED BY <3>1, <3>2, <3>3 DEF TamperInv
  <2>3. CASE BeginAsk
    <3>1. /\ ask'.phase = "sent" /\ ask'.at = clock /\ ask'.status = ask.status
          /\ ask' \in [phase : {"idle", "sent", "answered", "failed"},
                       at : 0 .. MaxTamperTime, status : Status \cup {Unknown}]
          /\ UNCHANGED <<restHasField, tampered, sent, clock, hub, tamper>>
      BY <2>0, <2>3 DEF BeginAsk, TamperTypeOK
    <3>2. TamperTypeOK'
      BY <2>0, <3>1 DEF TamperTypeOK
    <3>3. tamper.received >= clock => tamper.received >= ask.at
      BY <2>0, TamperTypes DEF TamperInv
    <3>4. clock <= clock
      BY <2>0, TamperTypes
    <3> QED BY <3>1, <3>2, <3>3, <3>4 DEF TamperInv
  <2>4. CASE HubAnswers
    <3>1. /\ ask'.phase = "answered" /\ ask'.at = ask.at
          /\ ask'.status = IF restHasField THEN tampered.status ELSE Unknown
          /\ UNCHANGED <<restHasField, tampered, sent, clock, hub, tamper>>
      BY <2>0, <2>4 DEF HubAnswers, TamperTypeOK
    <3>2. ask' \in [phase : {"idle", "sent", "answered", "failed"},
                    at : 0 .. MaxTamperTime, status : Status \cup {Unknown}]
      BY <2>0, <2>4, TamperTypes DEF HubAnswers, TamperTypeOK
    <3>3. TamperTypeOK'
      BY <2>0, <3>1, <3>2 DEF TamperTypeOK
    <3>4. ask'.status <= tampered.status
      BY <2>0, <3>1, TamperTypes DEF Unknown
    <3>5. (ask'.status = Unknown) <=> ~restHasField
      BY <2>0, <3>1, TamperTypes
    <3> QED BY <3>1, <3>3, <3>4, <3>5 DEF TamperInv
  <2>5. CASE AskFails
    <3>1. /\ ask'.phase = "failed" /\ ask'.at = ask.at /\ ask'.status = ask.status
          /\ ask' \in [phase : {"idle", "sent", "answered", "failed"},
                       at : 0 .. MaxTamperTime, status : Status \cup {Unknown}]
          /\ UNCHANGED <<restHasField, tampered, sent, clock, hub, tamper>>
      BY <2>0, <2>5 DEF AskFails, TamperTypeOK
    <3>2. TamperTypeOK'
      BY <2>0, <3>1 DEF TamperTypeOK
    <3> QED BY <3>1, <3>2 DEF TamperInv
  <2>6. CASE UNCHANGED tamperVars
    BY <2>6 DEF tamperVars, TamperInv, TamperTypeOK
  <2> QED BY <2>1, <2>2, <2>3, <2>4, <2>5, <2>6, TamperFrameInv, ApplyAskInv DEF TamperNext
<1> QED BY <1>1, TamperInitInv, PTL DEF TamperSpec

(* No answer undoes what a frame showed after the request went out, for    *)
(* any number of changes and any clock.                                    *)
THEOREM NoAnswerClearsTamper == TamperSpec => NoFalseAllClear
<1> DEFINE Step == ask.phase # "idle" /\ ask'.phase = "idle" /\ tamper.status # Unknown =>
                     hub' # Unknown /\ hub' >= hub
<1>1. TamperInv /\ [TamperNext]_tamperVars => [Step]_tamperVars
  <2> SUFFICES ASSUME TamperInv, TamperNext, ask.phase # "idle", ask'.phase = "idle",
                      tamper.status # Unknown
               PROVE  hub' # Unknown /\ hub' >= hub
    OBVIOUS
  <2>1. ApplyAsk
    <3>1. ask' # ask
      OBVIOUS
    <3>2. ~(HubChanges \/ TamperTick \/ TamperFrame)
      BY <3>1 DEF HubChanges, TamperTick, TamperFrame
    <3>3. ~(BeginAsk \/ HubAnswers \/ AskFails)
      BY DEF BeginAsk, HubAnswers, AskFails, TamperInv, TamperTypeOK
    <3> QED BY <3>2, <3>3 DEF TamperNext
  <2> QED BY <2>1, ApplyAskInv
<1> QED BY <1>1, TamperInvHolds, PTL DEF TamperSpec, NoFalseAllClear

(* The store keeps every event that is needed and no event for ever.       *)
THEOREM StoreIsExact == StoreSpec => StoredAsLongAsNeeded
  BY StoredEventsAreForgotten, InputsAreDispatchedOnce, TimelineStaysComplete, PTL
  DEF StoredAsLongAsNeeded

-----------------------------------------------------------------------------
(* SensorRefresh. An owner awaits its own fetch; the cooldown and a        *)
(* reconnect refresh exclude each other; a cancelled fetch still runs and  *)
(* is no longer the one that callers join.                                 *)
OwnersOwn == \A c \in Caller : call[c].role = "owner" => call[c].on = c
CooldownIsAfter == debouncer.cooling => ~Busy(Reconnect)
CancelledRun == \A c \in cancelling : Running(c)
SlotIsLive == slot \notin cancelling

RefreshInv ==
  /\ RefreshTypeOK
  /\ OwnersOwn
  /\ CooldownIsAfter
  /\ CancelledRun
  /\ SlotIsLive
  /\ NothingOwedIsForgotten

LEMMA RefreshInitInv == RefreshInit => RefreshInv
<1>1. SUFFICES ASSUME RefreshInit PROVE RefreshInv
  OBVIOUS
<1>2. Idle \in Call
  BY RefreshAssumption DEF Idle, Call
<1>3. call \in [Caller -> Call]
  BY <1>1, <1>2 DEF RefreshInit
<1>4. RefreshTypeOK
  BY <1>1, <1>3 DEF RefreshInit, RefreshTypeOK
<1>5. OwnersOwn /\ CooldownIsAfter /\ CancelledRun
  BY <1>1, RefreshAssumption DEF RefreshInit, OwnersOwn, CooldownIsAfter, CancelledRun, Busy, Idle
<1>6. SlotIsLive /\ NothingOwedIsForgotten
  BY <1>1 DEF RefreshInit, SlotIsLive, NothingOwedIsForgotten
<1>7. QED
  BY <1>4, <1>5, <1>6 DEF RefreshInv

(* Starting a fetch. Whoever does is idle or has been woken, so its name   *)
(* stands for no fetch that is still being cancelled.                      *)
LEMMA StartFetchInv ==
  ASSUME RefreshInv, NEW c \in Caller, NEW n \in 0 .. MaxLoops, StartFetch(c, n),
         ~Running(c), cancelling' = cancelling, life' = life,
         debouncer' \in [cooling : BOOLEAN, again : BOOLEAN], reconnecting' \in BOOLEAN,
         debouncer'.cooling => c # Reconnect /\ debouncer.cooling
  PROVE  RefreshInv'
<1> DEFINE new == [role |-> "owner", on |-> c, outcome |-> "pending", loops |-> n]
<1>1. new \in Call
  BY DEF Call
<1>2. call \in [Caller -> Call] /\ call' = [call EXCEPT ![c] = new]
  BY DEF RefreshInv, RefreshTypeOK, StartFetch
<1>3. call' \in [Caller -> Call]
  BY <1>1, <1>2
<1>4. call'[c] = new /\ \A d \in Caller \ {c} : call'[d] = call[d]
  BY <1>2
<1>5. RefreshTypeOK'
  BY <1>3 DEF RefreshInv, RefreshTypeOK, StartFetch
<1>6. OwnersOwn'
  BY <1>4 DEF RefreshInv, OwnersOwn
<1>7. CooldownIsAfter'
  BY <1>4, RefreshAssumption DEF RefreshInv, CooldownIsAfter, Busy
<1>8. c \notin cancelling
  BY DEF RefreshInv, CancelledRun
<1>9. CancelledRun'
  BY <1>4, <1>8 DEF RefreshInv, RefreshTypeOK, CancelledRun, Running
<1>10. SlotIsLive' /\ NothingOwedIsForgotten'
  BY <1>8 DEF SlotIsLive, NothingOwedIsForgotten, StartFetch
<1>11. QED
  BY <1>5, <1>6, <1>7, <1>9, <1>10 DEF RefreshInv

(* A call of async_refresh_sensors by a caller that is not inside.         *)
LEMMA EnterInv ==
  ASSUME RefreshInv, NEW c \in Caller, ~Busy(c), Enter(c),
         cancelling' = cancelling, life' = life,
         debouncer' \in [cooling : BOOLEAN, again : BOOLEAN], reconnecting' \in BOOLEAN,
         debouncer'.cooling => c # Reconnect /\ debouncer.cooling
  PROVE  RefreshInv'
<1>1. CASE ~Running(slot)
  <2>1. StartFetch(c, 1)
    BY <1>1 DEF Enter
  <2>2. ~Running(c) /\ 1 \in 0 .. MaxLoops
    BY RefreshAssumption DEF Busy, Running
  <2>3. QED
    BY <2>1, <2>2, StartFetchInv
<1>2. CASE Running(slot)
  <2> DEFINE new == [role |-> "waiter", on |-> slot, outcome |-> "pending", loops |-> 0]
  <2>1. new \in Call /\ slot \in Caller
    BY <1>2, RefreshAssumption DEF Call, RefreshInv, RefreshTypeOK, Running
  <2>2. call \in [Caller -> Call] /\ call' = [call EXCEPT ![c] = new]
    BY <1>2 DEF RefreshInv, RefreshTypeOK, Enter
  <2>3. call' \in [Caller -> Call]
    BY <2>1, <2>2
  <2>4. call'[c] = new /\ \A d \in Caller \ {c} : call'[d] = call[d]
    BY <2>2
  <2>5. RefreshTypeOK'
    BY <1>2, <2>3 DEF RefreshInv, RefreshTypeOK, Enter
  <2>6. OwnersOwn'
    BY <2>4 DEF RefreshInv, OwnersOwn
  <2>7. CooldownIsAfter'
    BY <2>4, RefreshAssumption DEF RefreshInv, CooldownIsAfter, Busy
  <2>8. c \notin cancelling /\ c # slot
    BY <1>2 DEF RefreshInv, CancelledRun, Running, Busy
  <2>9. CancelledRun'
    BY <2>4, <2>8 DEF RefreshInv, RefreshTypeOK, CancelledRun, Running
  <2>10. SlotIsLive'
    BY <1>2 DEF RefreshInv, SlotIsLive, Enter
  <2>11. call'[slot].role = "owner" /\ queued'
    BY <1>2, <2>1, <2>4, <2>8 DEF Running, Enter
  <2>12. NothingOwedIsForgotten'
    BY <2>1, <2>11 DEF NothingOwedIsForgotten
  <2>13. QED
    BY <2>5, <2>6, <2>7, <2>9, <2>10, <2>12 DEF RefreshInv
<1>3. QED
  BY <1>1, <1>2

LEMMA ReconnectsInv ==
  ASSUME RefreshInv, Reconnects PROVE RefreshInv'
<1>1. debouncer \in [cooling : BOOLEAN, again : BOOLEAN] /\ Reconnect \in Caller
  BY RefreshAssumption DEF RefreshInv, RefreshTypeOK
<1>2. CASE debouncer.cooling
  <2>1. debouncer' = [debouncer EXCEPT !.again = TRUE] /\ reconnecting' = FALSE /\ owed' = TRUE
        /\ UNCHANGED <<call, slot, queued, deferred, cancelling, life>>
    BY <1>2 DEF Reconnects
  <2>2. debouncer' \in [cooling : BOOLEAN, again : BOOLEAN] /\ debouncer'.cooling /\ debouncer'.again
    BY <1>1, <1>2, <2>1
  <2>3. RefreshTypeOK'
    BY <2>1, <2>2 DEF RefreshInv, RefreshTypeOK
  <2>4. OwnersOwn' /\ CancelledRun' /\ SlotIsLive'
    BY <2>1 DEF RefreshInv, OwnersOwn, CancelledRun, SlotIsLive, Running
  <2>5. CooldownIsAfter' /\ NothingOwedIsForgotten'
    BY <1>2, <2>1, <2>2 DEF RefreshInv, CooldownIsAfter, NothingOwedIsForgotten, Busy
  <2>6. QED
    BY <2>3, <2>4, <2>5 DEF RefreshInv
<1>3. CASE ~debouncer.cooling /\ Busy(Reconnect)
  <2>1. reconnecting' = FALSE
        /\ UNCHANGED <<call, slot, queued, debouncer, owed, deferred, cancelling, life>>
    BY <1>3 DEF Reconnects
  <2>2. RefreshTypeOK'
    BY <2>1 DEF RefreshInv, RefreshTypeOK
  <2>3. OwnersOwn' /\ CancelledRun' /\ SlotIsLive' /\ CooldownIsAfter' /\ NothingOwedIsForgotten'
    BY <2>1 DEF RefreshInv, OwnersOwn, CancelledRun, SlotIsLive, Running, CooldownIsAfter,
                NothingOwedIsForgotten, Busy
  <2>4. QED
    BY <2>2, <2>3 DEF RefreshInv
<1>4. CASE ~debouncer.cooling /\ ~Busy(Reconnect)
  <2>1. Enter(Reconnect) /\ reconnecting' = TRUE
        /\ UNCHANGED <<debouncer, cancelling, life>>
    BY <1>4 DEF Reconnects
  <2>2. QED
    BY <1>1, <1>4, <2>1, EnterInv
<1>5. QED
  BY <1>2, <1>3, <1>4

LEMMA CooldownEndsInv ==
  ASSUME RefreshInv, CooldownEnds PROVE RefreshInv'
<1>1. /\ debouncer' = [cooling |-> FALSE, again |-> FALSE]
      /\ UNCHANGED <<cancelling, reconnecting, life>>
      /\ ~Busy(Reconnect) /\ Reconnect \in Caller /\ reconnecting \in BOOLEAN
  BY RefreshAssumption DEF CooldownEnds, RefreshInv, CooldownIsAfter, RefreshTypeOK
<1>2. CASE debouncer.again
  <2>1. Enter(Reconnect)
    BY <1>1, <1>2 DEF CooldownEnds
  <2>2. QED
    BY <1>1, <2>1, EnterInv
<1>3. CASE ~debouncer.again
  <2>1. UNCHANGED <<call, slot, queued, owed, deferred>>
    BY <1>3 DEF CooldownEnds
  <2>2. RefreshTypeOK'
    BY <1>1, <2>1 DEF RefreshInv, RefreshTypeOK
  <2>3. OwnersOwn' /\ CancelledRun' /\ SlotIsLive' /\ CooldownIsAfter' /\ NothingOwedIsForgotten'
    BY <1>1, <1>3, <2>1 DEF RefreshInv, OwnersOwn, CancelledRun, SlotIsLive, Running,
                            CooldownIsAfter, NothingOwedIsForgotten, Busy
  <2>4. QED
    BY <2>2, <2>3 DEF RefreshInv
<1>4. QED
  BY <1>2, <1>3

LEMMA FetchEndsInv ==
  ASSUME RefreshInv, NEW o \in Caller, FetchEnds(o) PROVE RefreshInv'
<1>1. PICK r \in {"done", "auth", "cancelled"} :
        call' = [c \in Caller |-> IF Awaiting(c) /\ call[c].on = o
                                  THEN [call[c] EXCEPT !.outcome = r] ELSE call[c]]
  BY DEF FetchEnds
<1>2. call \in [Caller -> Call] /\ cancelling' = cancelling \ {o}
      /\ UNCHANGED <<slot, queued, debouncer, reconnecting, life, owed, deferred>>
  BY DEF RefreshInv, RefreshTypeOK, FetchEnds
<1>3. \A c \in Caller : call'[c] \in Call
  <2>1. SUFFICES ASSUME NEW c \in Caller PROVE call'[c] \in Call
    OBVIOUS
  <2>2. [call[c] EXCEPT !.outcome = r] \in Call
    BY <1>2 DEF Call
  <2>3. QED
    BY <1>1, <1>2, <2>2
<1>4. call' \in [Caller -> Call]
  BY <1>1, <1>3
<1>5. \A c \in Caller : /\ call'[c].role = call[c].role /\ call'[c].on = call[c].on
                        /\ call[c].on # o => call'[c].outcome = call[c].outcome
  BY <1>1, <1>2 DEF Call
<1>6. RefreshTypeOK'
  BY <1>2, <1>4 DEF RefreshInv, RefreshTypeOK
<1>7. OwnersOwn'
  BY <1>5 DEF RefreshInv, OwnersOwn
<1>8. CooldownIsAfter' /\ NothingOwedIsForgotten'
  BY <1>2, <1>5, RefreshAssumption
  DEF RefreshInv, CooldownIsAfter, NothingOwedIsForgotten, Busy
<1>9. CancelledRun'
  <2>1. SUFFICES ASSUME NEW c \in cancelling' PROVE Running(c)'
    BY DEF CancelledRun
  <2>2. c \in Caller /\ c # o /\ Running(c) /\ call[c].on = c
    BY <1>2, <2>1 DEF RefreshInv, RefreshTypeOK, CancelledRun, OwnersOwn, Running
  <2>3. QED
    BY <1>5, <2>2 DEF Running
<1>10. SlotIsLive'
  BY <1>2 DEF RefreshInv, SlotIsLive
<1>11. QED
  BY <1>6, <1>7, <1>8, <1>9, <1>10 DEF RefreshInv

(* A caller that leaves was woken, so no cancelled fetch goes by its name. *)
LEMMA LeaveInv ==
  ASSUME RefreshInv, NEW c \in Caller, Busy(c), ~Awaiting(c), Leave(c),
         UNCHANGED <<cancelling, queued, life, owed>>,
         slot' \in {slot, NoFetch}, deferred' \in BOOLEAN,
         deferred => deferred', call[c].role = "owner" /\ queued => deferred'
  PROVE  RefreshInv'
<1>1. Idle \in Call
  BY RefreshAssumption DEF Idle, Call
<1>2. call \in [Caller -> Call] /\ call' = [call EXCEPT ![c] = Idle]
  BY DEF RefreshInv, RefreshTypeOK, Leave
<1>3. call' \in [Caller -> Call]
  BY <1>1, <1>2
<1>4. call'[c] = Idle /\ \A d \in Caller \ {c} : call'[d] = call[d]
  BY <1>2
<1>5. debouncer \in [cooling : BOOLEAN, again : BOOLEAN] /\ slot \in Caller \cup {NoFetch}
      /\ reconnecting \in BOOLEAN
  BY DEF RefreshInv, RefreshTypeOK
<1>6. /\ debouncer' \in [cooling : BOOLEAN, again : BOOLEAN]
      /\ debouncer'.again = debouncer.again
      /\ debouncer.cooling => debouncer'.cooling
      /\ debouncer'.cooling => debouncer.cooling \/ c = Reconnect
  BY <1>5 DEF Leave
<1>7. RefreshTypeOK'
  BY <1>3, <1>5, <1>6 DEF RefreshInv, RefreshTypeOK, Leave
<1>8. OwnersOwn'
  BY <1>4 DEF RefreshInv, OwnersOwn, Idle
<1>9. CooldownIsAfter'
  BY <1>4, <1>6, RefreshAssumption DEF RefreshInv, CooldownIsAfter, Busy, Idle
<1>10. c \notin cancelling
  BY DEF RefreshInv, CancelledRun, Running, Awaiting
<1>11. CancelledRun'
  BY <1>4, <1>10 DEF RefreshInv, RefreshTypeOK, CancelledRun, Running
<1>12. SlotIsLive'
  BY RefreshAssumption DEF RefreshInv, RefreshTypeOK, SlotIsLive
<1>13. NothingOwedIsForgotten'
  BY <1>4, <1>6 DEF RefreshInv, NothingOwedIsForgotten
<1>14. QED
  BY <1>7, <1>8, <1>9, <1>11, <1>12, <1>13 DEF RefreshInv

LEMMA ResumesInv ==
  ASSUME RefreshInv, NEW c \in Caller, Resumes(c) PROVE RefreshInv'
<1>1. CASE WaiterResumes(c)
  <2>1. /\ Busy(c) /\ ~Awaiting(c) /\ Leave(c) /\ call[c].role # "owner"
        /\ UNCHANGED <<slot, cancelling, queued, life, owed, deferred>>
        /\ deferred \in BOOLEAN
    BY <1>1 DEF WaiterResumes, Busy, RefreshInv, RefreshTypeOK
  <2>2. QED
    BY <2>1, LeaveInv
<1>2. CASE OwnerResumes(c) /\ LoopsAgain(c)
  <2> DEFINE n == IF call[c].loops < MaxLoops THEN call[c].loops + 1 ELSE MaxLoops
  <2>1. call[c] \in Call
    BY DEF RefreshInv, RefreshTypeOK
  <2>2. n \in 0 .. MaxLoops
    BY <2>1, RefreshAssumption DEF Call
  <2>3. StartFetch(c, n) /\ UNCHANGED <<debouncer, reconnecting, cancelling, life>>
    BY <1>2 DEF OwnerResumes
  <2>4. ~Running(c) /\ Busy(c)
    BY <1>2 DEF OwnerResumes, Awaiting, Running, Busy
  <2>5. debouncer \in [cooling : BOOLEAN, again : BOOLEAN] /\ reconnecting \in BOOLEAN
        /\ (debouncer.cooling => c # Reconnect)
    BY <2>4 DEF RefreshInv, RefreshTypeOK, CooldownIsAfter
  <2> HIDE DEF n
  <2>6. QED
    BY <2>2, <2>3, <2>4, <2>5, StartFetchInv
<1>3. CASE OwnerResumes(c) /\ ~LoopsAgain(c)
  <2>1. /\ Busy(c) /\ ~Awaiting(c) /\ Leave(c)
        /\ UNCHANGED <<cancelling, queued, life, owed>>
        /\ slot' \in {slot, NoFetch}
    BY <1>3 DEF OwnerResumes, Busy
  <2>2. call[c] \in Call /\ deferred \in BOOLEAN /\ queued \in BOOLEAN
    BY DEF RefreshInv, RefreshTypeOK
  <2>3. call[c].loops \in 0 .. MaxLoops
    BY <2>2 DEF Call
  <2>4. queued => call[c].outcome # "done" \/ call[c].loops = MaxLoops
    BY <1>3, <2>3, RefreshAssumption DEF LoopsAgain
  <2>5. deferred' \in BOOLEAN /\ (deferred => deferred') /\ (queued => deferred')
    BY <1>3, <2>2, <2>4 DEF OwnerResumes
  <2>6. QED
    BY <2>1, <2>5, LeaveInv
<1>4. QED
  BY <1>1, <1>2, <1>3 DEF Resumes, OwnerResumes

LEMMA CancelAllInv ==
  ASSUME RefreshInv, CancelAll, life' \in {"stopped", "down"} PROVE RefreshInv'
<1>1. call \in [Caller -> Call] /\ cancelling \in SUBSET Caller
  BY DEF RefreshInv, RefreshTypeOK
<1>2. \A c \in Caller : call'[c] = IF c \in Drivers /\ Busy(c) /\ ~Awaiting(c)
                                   THEN [call[c] EXCEPT !.outcome = "cancelled"] ELSE call[c]
  BY DEF CancelAll
<1>3. \A c \in Caller : call'[c] \in Call
  <2>1. SUFFICES ASSUME NEW c \in Caller PROVE call'[c] \in Call
    OBVIOUS
  <2>2. [call[c] EXCEPT !.outcome = "cancelled"] \in Call
    BY <1>1 DEF Call
  <2>3. QED
    BY <1>1, <1>2, <2>2
<1>4. call' \in [Caller -> Call]
  BY <1>3 DEF CancelAll
<1>5. \A c \in Caller : /\ call'[c].role = call[c].role /\ call'[c].on = call[c].on
                        /\ Running(c) => call'[c].outcome = call[c].outcome
  BY <1>1, <1>2 DEF Call, Running, Awaiting, Busy
<1>6. Cancelled \in SUBSET Caller /\ \A c \in Cancelled : Running(c)
  BY DEF Cancelled
<1>7. RefreshTypeOK'
  BY <1>1, <1>4, <1>6 DEF RefreshInv, RefreshTypeOK, CancelAll, SlotAfterCancel
<1>8. OwnersOwn'
  BY <1>5 DEF RefreshInv, OwnersOwn
<1>9. CooldownIsAfter' /\ NothingOwedIsForgotten'
  BY DEF CooldownIsAfter, NothingOwedIsForgotten, CancelAll
<1>10. CancelledRun'
  BY <1>1, <1>5, <1>6 DEF RefreshInv, CancelledRun, Running, CancelAll
<1>11. SlotIsLive'
  BY <1>1, <1>6, RefreshAssumption DEF SlotIsLive, CancelAll, SlotAfterCancel
<1>12. QED
  BY <1>7, <1>8, <1>9, <1>10, <1>11 DEF RefreshInv

LEMMA RefreshInvHolds == RefreshSpec => []RefreshInv
<1>1. RefreshInv /\ [RefreshNext]_refreshVars => RefreshInv'
  <2>1. SUFFICES ASSUME RefreshInv, [RefreshNext]_refreshVars PROVE RefreshInv'
    OBVIOUS
  <2>2. ASSUME NEW c \in Caller, PollCalls(c) PROVE RefreshInv'
    <3>1. ~Busy(c) /\ Enter(c) /\ UNCHANGED <<cancelling, debouncer, reconnecting, life>>
          /\ c # Reconnect
      BY <2>2 DEF PollCalls
    <3>2. debouncer \in [cooling : BOOLEAN, again : BOOLEAN] /\ reconnecting \in BOOLEAN
      BY <2>1 DEF RefreshInv, RefreshTypeOK
    <3>3. QED
      BY <2>1, <3>1, <3>2, EnterInv
  <2>3. CASE TimerTicks
    <3>1. ~Busy(Timer) /\ Enter(Timer) /\ UNCHANGED <<cancelling, debouncer, reconnecting, life>>
          /\ Timer # Reconnect /\ Timer \in Caller
      BY <2>3, RefreshAssumption DEF TimerTicks
    <3>2. debouncer \in [cooling : BOOLEAN, again : BOOLEAN] /\ reconnecting \in BOOLEAN
      BY <2>1 DEF RefreshInv, RefreshTypeOK
    <3>3. QED
      BY <2>1, <3>1, <3>2, EnterInv
  <2>4. ASSUME NEW c \in Caller, FetchEnds(c) PROVE RefreshInv'
    BY <2>1, <2>4, FetchEndsInv
  <2>5. ASSUME NEW c \in Caller, Resumes(c) PROVE RefreshInv'
    BY <2>1, <2>5, ResumesInv
  <2>6. CASE Reconnects
    BY <2>1, <2>6, ReconnectsInv
  <2>7. CASE CooldownEnds
    BY <2>1, <2>7, CooldownEndsInv
  <2>8. CASE StopWebsocket \/ Shutdown
    BY <2>1, <2>8, CancelAllInv DEF StopWebsocket, Shutdown
  <2>9. CASE UNCHANGED refreshVars
    <3>1. UNCHANGED <<call, slot, cancelling, queued, debouncer, reconnecting, life, owed, deferred>>
      BY <2>9 DEF refreshVars
    <3>2. RefreshTypeOK'
      BY <2>1, <3>1 DEF RefreshInv, RefreshTypeOK
    <3>3. OwnersOwn' /\ CancelledRun' /\ SlotIsLive' /\ CooldownIsAfter' /\ NothingOwedIsForgotten'
      BY <2>1, <3>1 DEF RefreshInv, OwnersOwn, CancelledRun, SlotIsLive, Running,
                        CooldownIsAfter, NothingOwedIsForgotten, Busy
    <3>4. QED
      BY <3>2, <3>3 DEF RefreshInv
  <2>10. QED
    BY <2>1, <2>2, <2>3, <2>4, <2>5, <2>6, <2>7, <2>8, <2>9 DEF RefreshNext
<1>2. QED
  BY <1>1, RefreshInitInv, PTL DEF RefreshSpec

-----------------------------------------------------------------------------
(* async_refresh_sensors: with any number of callers and any cap, what was *)
(* asked for and not fetched yet has an owner that will loop or a cooldown *)
(* that will end with a refresh.                                           *)
THEOREM OwedRefreshesAreFetched == RefreshSpec => []NothingOwedIsForgotten
<1>1. RefreshInv => NothingOwedIsForgotten
  BY DEF RefreshInv
<1>2. QED
  BY <1>1, RefreshInvHolds, PTL

(* _cancel_sensor_background_task: no caller ever joins a fetch that is    *)
(* being cancelled, because the slot is emptied with the cancellation.     *)
THEOREM NoCallerIsCancelledByAnother == RefreshSpec => NoneJoinsACancelledFetch
<1> DEFINE Joins == \A c \in Caller : call[c].role # "waiter" /\ call'[c].role = "waiter" =>
                      call'[c].on \notin cancelling
<1>1. RefreshInv /\ [RefreshNext]_refreshVars => Joins
  <2>1. SUFFICES ASSUME RefreshInv, [RefreshNext]_refreshVars, NEW c \in Caller,
                        call[c].role # "waiter", call'[c].role = "waiter"
                 PROVE  call'[c].on \notin cancelling
    OBVIOUS
  <2>2. call \in [Caller -> Call] /\ slot \notin cancelling
    BY <2>1 DEF RefreshInv, RefreshTypeOK, SlotIsLive
  <2>3. ASSUME NEW d \in Caller, NEW n, StartFetch(d, n) PROVE FALSE
    BY <2>1, <2>2, <2>3 DEF StartFetch
  <2>4. ASSUME NEW d \in Caller, Enter(d) PROVE call'[c].on \notin cancelling
    <3>1. CASE Running(slot)
      BY <2>1, <2>2, <2>4, <3>1 DEF Enter
    <3>2. CASE ~Running(slot)
      BY <2>3, <2>4, <3>2 DEF Enter
    <3>3. QED
      BY <3>1, <3>2
  <2>5. ASSUME NEW d \in Caller, PollCalls(d) PROVE call'[c].on \notin cancelling
    BY <2>4, <2>5 DEF PollCalls
  <2>6. CASE TimerTicks
    BY <2>4, <2>6, RefreshAssumption DEF TimerTicks
  <2>7. CASE Reconnects
    BY <2>1, <2>4, <2>7, RefreshAssumption DEF Reconnects
  <2>8. CASE CooldownEnds
    BY <2>1, <2>4, <2>8, RefreshAssumption DEF CooldownEnds
  <2>9. ASSUME NEW d \in Caller, FetchEnds(d) PROVE FALSE
    <3>1. call'[c].role = call[c].role
      BY <2>2, <2>9 DEF FetchEnds, Call
    <3>2. QED
      BY <2>1, <3>1
  <2>10. ASSUME NEW d \in Caller, Leave(d) PROVE FALSE
    BY <2>1, <2>2, <2>10 DEF Leave, Idle
  <2>11. ASSUME NEW d \in Caller, Resumes(d) PROVE FALSE
    <3>1. CASE OwnerResumes(d) /\ LoopsAgain(d)
      BY <2>3, <3>1 DEF OwnerResumes
    <3>2. CASE WaiterResumes(d) \/ (OwnerResumes(d) /\ ~LoopsAgain(d))
      BY <2>10, <3>2 DEF WaiterResumes, OwnerResumes
    <3>3. QED
      BY <2>11, <3>1, <3>2 DEF Resumes
  <2>12. CASE StopWebsocket \/ Shutdown
    <3>1. call'[c].role = call[c].role
      BY <2>2, <2>12 DEF StopWebsocket, Shutdown, CancelAll, Call
    <3>2. QED
      BY <2>1, <3>1
  <2>13. CASE UNCHANGED refreshVars
    BY <2>1, <2>13 DEF refreshVars
  <2>14. QED
    BY <2>1, <2>5, <2>6, <2>7, <2>8, <2>9, <2>11, <2>12, <2>13 DEF RefreshNext
<1>2. QED
  BY <1>1, RefreshInvHolds, PTL DEF RefreshSpec, NoneJoinsACancelledFetch

-----------------------------------------------------------------------------
(* The global alarm manager.  Time spent wrong is measured out by whatever *)
(* still stands between the coordinator and a true answer: an answer taken *)
(* before the console changed is older than the error; a wait was set by   *)
(* such an answer; and once the wait is over the timer's turn, then its    *)
(* own request, is what the error waits for.                               *)
(***************************************************************************)
Outdated(r) == r.phase \in {"on", "off"} /\ r.phase # Answer(manager)

OutdatedAnswersAreOlder ==
  /\ \A a \in Asker : Outdated(probe[a]) => wrongFor <= probe[a].age
  /\ Outdated(command) => wrongFor <= command.age

WaitsWereSetEarly == wait > 0 => wrongFor + wait <= Reprobe + Timeout

TimerIsDue ==
  IF probe[Punctual].phase = "idle" THEN wrongFor <= Reprobe + Timeout + turn
  ELSE wrongFor <= Reprobe + Timeout + AskInterval + probe[Punctual].age

AlarmInv ==
  /\ AlarmTypeOK
  /\ ~Wrong => wrongFor = 0
  /\ OutdatedAnswersAreOlder
  /\ WaitsWereSetEarly
  /\ TimerIsDue

LEMMA AlarmTypes ==
  ASSUME AlarmInv
  PROVE  /\ Reprobe \in Nat \ {0} /\ Backoff \in Nat \ {0}
         /\ AskInterval \in Nat \ {0} /\ Timeout \in Nat \ {0}
         /\ Backoff <= Reprobe /\ Punctual \in Asker
         /\ wait \in Nat /\ turn \in Nat /\ wrongFor \in Nat
         /\ wait <= Reprobe /\ turn <= AskInterval
         /\ \A a \in Asker : probe[a].age \in Nat /\ probe[a].age <= Timeout
         /\ command.age \in Nat /\ command.age <= Timeout
BY AlarmAssumption DEF AlarmInv, AlarmTypeOK, Request

(* A request that ends leaves a well-typed table.                          *)
LEMMA EndsARequest ==
  ASSUME AlarmInv, NEW a \in Asker, probe' = [probe EXCEPT ![a] = NoRequest]
  PROVE  /\ probe' \in [Asker -> Request]
         /\ probe'[a] = NoRequest
         /\ \A b \in Asker : b # a => probe'[b] = probe[b]
<1>1. NoRequest \in Request
  BY AlarmAssumption DEF NoRequest, Request
<1> QED BY <1>1 DEF AlarmInv, AlarmTypeOK

LEMMA SwitchesInv == AlarmInv /\ Switches => AlarmInv'
<1> SUFFICES ASSUME AlarmInv, Switches PROVE AlarmInv' OBVIOUS
<1> USE AlarmTypes
<1>1. wrongFor' = 0
  BY DEF Switches, Counting
<1>2. AlarmTypeOK'
  BY <1>1 DEF Switches, AlarmInv, AlarmTypeOK
<1>3. OutdatedAnswersAreOlder'
  BY <1>1 DEF Switches, OutdatedAnswersAreOlder
<1>4. WaitsWereSetEarly'
  BY <1>1 DEF Switches, WaitsWereSetEarly
<1>5. TimerIsDue'
  BY <1>1 DEF Switches, TimerIsDue
<1> QED BY <1>1, <1>2, <1>3, <1>4, <1>5 DEF AlarmInv

LEMMA TurnInv == \A a \in Asker : AlarmInv /\ Turn(a) => AlarmInv'
<1> SUFFICES ASSUME NEW a \in Asker, AlarmInv, Turn(a) PROVE AlarmInv' OBVIOUS
<1> USE AlarmTypes
<1>0. UNCHANGED <<manager, known, wait, command, wrongFor>>
  BY DEF Turn
<1>1. CASE wait > 0
  <2>1. UNCHANGED probe /\ turn' = (IF a = Punctual THEN 0 ELSE turn)
    BY <1>1 DEF Turn
  <2>2. AlarmTypeOK'
    BY <1>0, <2>1 DEF AlarmInv, AlarmTypeOK
  <2>3. OutdatedAnswersAreOlder'
    BY <1>0, <2>1 DEF AlarmInv, OutdatedAnswersAreOlder, Outdated
  <2>4. TimerIsDue'
    BY <1>0, <1>1, <2>1 DEF AlarmInv, TimerIsDue, WaitsWereSetEarly
  <2> QED BY <1>0, <2>2, <2>3, <2>4 DEF AlarmInv, WaitsWereSetEarly, Wrong
<1>2. CASE ~(wait > 0)
  <2> DEFINE asked == [phase |-> "sent", age |-> 0]
  <2>1. /\ probe' = [probe EXCEPT ![a] = asked]
        /\ turn' = (IF a = Punctual THEN 0 ELSE turn)
    BY <1>2 DEF Turn
  <2>2. asked \in Request
    BY DEF Request
  <2>3. probe' \in [Asker -> Request]
    BY <2>1, <2>2 DEF AlarmInv, AlarmTypeOK
  <2>4. AlarmTypeOK'
    BY <1>0, <2>1, <2>3 DEF AlarmInv, AlarmTypeOK
  <2>5. /\ probe'[a].phase = "sent" /\ probe'[a].age = 0
        /\ \A b \in Asker : b # a => probe'[b] = probe[b]
    BY <2>1 DEF AlarmInv, AlarmTypeOK
  <2>6. OutdatedAnswersAreOlder'
    BY <1>0, <2>5 DEF AlarmInv, OutdatedAnswersAreOlder, Outdated
  <2>7. TimerIsDue'
    BY <1>0, <2>1, <2>5 DEF AlarmInv, TimerIsDue, Turn
  <2> QED BY <1>0, <2>4, <2>6, <2>7 DEF AlarmInv, WaitsWereSetEarly, Wrong
<1> QED BY <1>1, <1>2

LEMMA AnswersInv == \A a \in Asker : AlarmInv /\ Answers(a) => AlarmInv'
<1> SUFFICES ASSUME NEW a \in Asker, AlarmInv, Answers(a) PROVE AlarmInv' OBVIOUS
<1> USE AlarmTypes
<1>0. UNCHANGED <<manager, known, wait, command, turn, wrongFor>>
  BY DEF Answers
<1>1. Answer(manager) \in {"on", "off"}
  BY DEF Answer
<1>2. [probe[a] EXCEPT !.phase = Answer(manager)] \in Request
  BY <1>1 DEF AlarmInv, AlarmTypeOK, Request
<1>3. probe' \in [Asker -> Request]
  BY <1>2 DEF Answers, AlarmInv, AlarmTypeOK
<1>4. /\ probe'[a].phase = Answer(manager) /\ probe'[a].age = probe[a].age
      /\ \A b \in Asker : b # a => probe'[b] = probe[b]
  BY DEF Answers, AlarmInv, AlarmTypeOK, Request
<1>5. OutdatedAnswersAreOlder'
  BY <1>0, <1>4 DEF AlarmInv, OutdatedAnswersAreOlder, Outdated
<1>6. TimerIsDue'
  BY <1>0, <1>1, <1>4 DEF AlarmInv, TimerIsDue, Answers
<1> QED
  BY <1>0, <1>3, <1>5, <1>6 DEF AlarmInv, AlarmTypeOK, WaitsWereSetEarly, Wrong

(* An answer that turns what is known wrong is older than the error.       *)
LEMMA ReturnsInv == \A a \in Asker : AlarmInv /\ Returns(a) => AlarmInv'
<1> SUFFICES ASSUME NEW a \in Asker, AlarmInv, Returns(a) PROVE AlarmInv' OBVIOUS
<1> USE AlarmTypes
<1>0. /\ UNCHANGED <<manager, command>> /\ wait' = Reprobe
      /\ turn' = (IF a = Punctual THEN 0 ELSE turn)
      /\ known' = probe[a].phase /\ probe[a].phase \in {"on", "off"}
      /\ probe' = [probe EXCEPT ![a] = NoRequest]
      /\ wrongFor' = IF Wrong' THEN wrongFor ELSE 0
  BY DEF Returns, Learnt, Counting
<1>1. wrongFor' \in Nat /\ wrongFor' <= wrongFor /\ wrongFor' <= Timeout
  <2>1. CASE Wrong'
    BY <1>0, <2>1 DEF Wrong, Outdated, AlarmInv, OutdatedAnswersAreOlder
  <2> QED BY <1>0, <2>1
<1>2. AlarmTypeOK'
  <2>1. probe' \in [Asker -> Request]
    BY <1>0, EndsARequest
  <2>2. wait' \in 0 .. Reprobe /\ turn' \in 0 .. AskInterval
    BY <1>0 DEF AlarmInv, AlarmTypeOK
  <2> QED BY <1>0, <1>1, <2>1, <2>2 DEF AlarmInv, AlarmTypeOK
<1>3. OutdatedAnswersAreOlder'
  BY <1>0, <1>1, EndsARequest
     DEF AlarmInv, OutdatedAnswersAreOlder, Outdated, NoRequest
<1>4. WaitsWereSetEarly'
  BY <1>0, <1>1 DEF WaitsWereSetEarly
<1>5. TimerIsDue'
  BY <1>0, <1>1, EndsARequest DEF AlarmInv, TimerIsDue, NoRequest
<1> QED BY <1>0, <1>2, <1>3, <1>4, <1>5 DEF AlarmInv

LEMMA FailsInv == \A a \in Asker : AlarmInv /\ Fails(a) => AlarmInv'
<1> SUFFICES ASSUME NEW a \in Asker, AlarmInv, Fails(a) PROVE AlarmInv' OBVIOUS
<1> USE AlarmTypes
<1>0. /\ UNCHANGED <<manager, known, command>> /\ wait' = Backoff
      /\ turn' = (IF a = Punctual THEN 0 ELSE turn)
      /\ probe' = [probe EXCEPT ![a] = NoRequest]
      /\ wrongFor' = 0
  BY DEF Fails
<1>2. AlarmTypeOK'
  <2>1. probe' \in [Asker -> Request]
    BY <1>0, EndsARequest
  <2>2. wait' \in 0 .. Reprobe /\ turn' \in 0 .. AskInterval
    BY <1>0 DEF AlarmInv, AlarmTypeOK
  <2> QED BY <1>0, <2>1, <2>2 DEF AlarmInv, AlarmTypeOK
<1>3. OutdatedAnswersAreOlder'
  BY <1>0, EndsARequest
     DEF AlarmInv, OutdatedAnswersAreOlder, Outdated, NoRequest
<1>4. WaitsWereSetEarly'
  BY <1>0 DEF WaitsWereSetEarly
<1>5. TimerIsDue'
  BY <1>0, EndsARequest DEF AlarmInv, TimerIsDue, NoRequest
<1> QED BY <1>0, <1>2, <1>3, <1>4, <1>5 DEF AlarmInv

LEMMA RefusedInv == AlarmInv /\ Refused => AlarmInv'
<1> SUFFICES ASSUME AlarmInv, Refused PROVE AlarmInv' OBVIOUS
<1> USE AlarmTypes
<1>1. [phase |-> "on", age |-> 0] \in Request
  BY DEF Request
<1>2. AlarmTypeOK'
  BY <1>1 DEF Refused, AlarmInv, AlarmTypeOK
<1>3. OutdatedAnswersAreOlder'
  BY DEF Refused, AlarmInv, OutdatedAnswersAreOlder, Outdated, Answer
<1> QED
  BY <1>2, <1>3 DEF Refused, AlarmInv, WaitsWereSetEarly, TimerIsDue, Wrong

LEMMA MarkEnabledInv == AlarmInv /\ MarkEnabled => AlarmInv'
<1> SUFFICES ASSUME AlarmInv, MarkEnabled PROVE AlarmInv' OBVIOUS
<1> USE AlarmTypes
<1>0. /\ UNCHANGED <<manager, probe, turn>> /\ command.phase = "on"
      /\ command' = NoRequest /\ known' = "on"
      /\ wrongFor' = IF Wrong' THEN wrongFor ELSE 0
      /\ known = "on" => wait' = wait
      /\ known # "on" => wait' = Reprobe
  BY DEF MarkEnabled, Counting
<1>1. wrongFor' \in Nat /\ wrongFor' <= wrongFor /\ wrongFor' <= Timeout
  <2>1. CASE Wrong'
    BY <1>0, <2>1 DEF Wrong, Outdated, AlarmInv, OutdatedAnswersAreOlder
  <2> QED BY <1>0, <2>1
<1>2. NoRequest \in Request
  BY AlarmAssumption DEF NoRequest, Request
<1>3. AlarmTypeOK'
  BY <1>0, <1>1, <1>2 DEF AlarmInv, AlarmTypeOK
<1>4. OutdatedAnswersAreOlder'
  BY <1>0, <1>1 DEF AlarmInv, OutdatedAnswersAreOlder, Outdated, NoRequest
<1>5. WaitsWereSetEarly'
  BY <1>0, <1>1 DEF AlarmInv, WaitsWereSetEarly
<1>6. TimerIsDue'
  BY <1>0, <1>1 DEF AlarmInv, TimerIsDue
<1> QED BY <1>0, <1>3, <1>4, <1>5, <1>6 DEF AlarmInv

(* A request that has not run out may grow older.                          *)
LEMMA OlderFits ==
  ASSUME NEW r \in Request, ~Overdue(r), Timeout \in Nat
  PROVE  /\ Older(r) \in Request /\ Older(r).phase = r.phase
         /\ r.phase # "idle" => Older(r).age = r.age + 1
BY DEF Older, Overdue, Request

LEMMA AlarmTickInv == AlarmInv /\ AlarmTick => AlarmInv'
<1> SUFFICES ASSUME AlarmInv, AlarmTick PROVE AlarmInv' OBVIOUS
<1> USE AlarmTypes
<1>0. /\ UNCHANGED <<manager, known>>
      /\ \A a \in Asker : ~Overdue(probe[a])
      /\ ~Overdue(command)
      /\ probe[Punctual].phase = "idle" => turn < AskInterval
      /\ turn' = IF probe[Punctual].phase = "idle" THEN turn + 1 ELSE turn
      /\ wait' = IF wait > 0 THEN wait - 1 ELSE 0
      /\ probe' = [a \in Asker |-> Older(probe[a])]
      /\ command' = Older(command)
      /\ wrongFor' = IF Wrong THEN wrongFor + 1 ELSE 0
  BY DEF AlarmTick
<1>1. \A a \in Asker : /\ probe'[a] \in Request
                       /\ probe'[a].phase = probe[a].phase
                       /\ probe[a].phase # "idle" => probe'[a].age = probe[a].age + 1
  <2> TAKE a \in Asker
  <2>1. probe[a] \in Request /\ probe'[a] = Older(probe[a])
    BY <1>0 DEF AlarmInv, AlarmTypeOK
  <2> QED BY <1>0, <2>1, OlderFits
<1>2. /\ command' \in Request /\ command'.phase = command.phase
      /\ command.phase # "idle" => command'.age = command.age + 1
  BY <1>0, OlderFits DEF AlarmInv, AlarmTypeOK
<1>3. wrongFor' \in Nat /\ wrongFor' <= wrongFor + 1
  BY <1>0
<1>4. AlarmTypeOK'
  <2>1. probe' \in [Asker -> Request]
    BY <1>0, <1>1
  <2>2. wait' \in 0 .. Reprobe /\ turn' \in 0 .. AskInterval
    BY <1>0
  <2> QED BY <1>0, <1>2, <1>3, <2>1, <2>2 DEF AlarmInv, AlarmTypeOK
<1>5. OutdatedAnswersAreOlder'
  BY <1>0, <1>1, <1>2, <1>3
     DEF AlarmInv, AlarmTypeOK, OutdatedAnswersAreOlder, Outdated
<1>6. WaitsWereSetEarly'
  BY <1>0, <1>3 DEF AlarmInv, WaitsWereSetEarly
<1>7. TimerIsDue'
  BY <1>0, <1>1, <1>3 DEF AlarmInv, TimerIsDue
<1>8. (~Wrong => wrongFor = 0)'
  BY <1>0 DEF Wrong
<1> QED BY <1>4, <1>5, <1>6, <1>7, <1>8 DEF AlarmInv

LEMMA AlarmInvHolds == AlarmSpec => []AlarmInv
<1>1. AlarmInit => AlarmInv
  <2> SUFFICES ASSUME AlarmInit PROVE AlarmInv OBVIOUS
  <2>1. NoRequest \in Request
    BY AlarmAssumption DEF NoRequest, Request
  <2>2. AlarmTypeOK
    BY <2>1, AlarmAssumption DEF AlarmInit, AlarmTypeOK
  <2> QED
    BY <2>2, AlarmAssumption
       DEF AlarmInit, AlarmInv, OutdatedAnswersAreOlder, Outdated, NoRequest,
           WaitsWereSetEarly, TimerIsDue
<1>2. AlarmInv /\ [AlarmNext]_alarmVars => AlarmInv'
  <2> SUFFICES ASSUME AlarmInv, [AlarmNext]_alarmVars PROVE AlarmInv' OBVIOUS
  <2>1. CASE UNCHANGED alarmVars
    BY <2>1 DEF alarmVars, AlarmInv, AlarmTypeOK, Wrong, OutdatedAnswersAreOlder,
                Outdated, WaitsWereSetEarly, TimerIsDue
  <2>2. CASE AlarmNext
    BY <2>2, SwitchesInv, TurnInv, AnswersInv, ReturnsInv, FailsInv, RefusedInv,
       MarkEnabledInv, AlarmTickInv DEF AlarmNext
  <2> QED BY <2>1, <2>2
<1> QED BY <1>1, <1>2, PTL DEF AlarmSpec

(* However many askers there are, and whatever the intervals and the       *)
(* timeout, in whatever order answers and refusals arrive: what the panel  *)
(* shows is wrong for at most one re-probe, one turn and two requests,     *)
(* what failed probes cost apart.                                          *)
THEOREM PanelNeverLiesForLong == AlarmSpec => []PanelIsTrueAgain
<1>1. AlarmInv => PanelIsTrueAgain
  BY AlarmTypes DEF AlarmInv, TimerIsDue, PanelIsTrueAgain
<1> QED BY <1>1, AlarmInvHolds, PTL

=============================================================================
