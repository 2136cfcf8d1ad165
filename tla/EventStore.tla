----------------------------- MODULE EventStore -----------------------------
(***************************************************************************)
(* The store of Protect events and the digital-input dispatch that rests   *)
(* on it. An event is kept for a retention counted from the first sweep    *)
(* that saw it; sweeps are rate limited and only happen with an input. A   *)
(* late frame of an event already dropped must not bring it back: it would *)
(* stay another retention, and a digital input would fire a second time.   *)
(*                                                                         *)
(* Times are Home Assistant's; the console's clock is ahead by `ahead`.    *)
(***************************************************************************)
EXTENDS Integers, FiniteSets

CONSTANTS
  Event,
  Timeline,        \* TIMELINE_MAX_HOURS
  Margin,          \* the hour EVENT_RETENTION adds to it
  SweepInterval,   \* EVENT_SWEEP_INTERVAL
  MaxTime          \* bound: clock readings

ASSUME StoreAssumption ==
  /\ {Timeline, Margin, SweepInterval, MaxTime} \subseteq Nat
  /\ SweepInterval > 0

VARIABLES
  ahead,       \* fixed at Init: how far the console's clock is ahead
  now,         \* wall clock
  startedAt,   \* the start each event carries, on the console's clock
  events,      \* data["events"]: the ids stored
  seen,        \* event_seen: the stamp of each id, NotYet before its sweep
  sweptAt,     \* events_swept_at
  dispatched,  \* history: digital inputs dispatched for each event
  lastInput    \* history: when the last input was handled

storeVars == <<ahead, now, startedAt, events, seen, sweptAt, dispatched, lastInput>>

NotYet == -1
EventRetention == Timeline + Margin

StoreTypeOK ==
  /\ ahead \in 0 .. Margin
  /\ now \in 0 .. MaxTime
  /\ startedAt \in [Event -> 0 .. MaxTime + Margin \cup {NotYet}]
  /\ events \in SUBSET Event
  /\ seen \in [Event -> 0 .. MaxTime \cup {NotYet}]
  /\ sweptAt \in 0 .. MaxTime \cup {NotYet}
  /\ dispatched \in [Event -> Nat]
  /\ lastInput \in 0 .. MaxTime

StoreInit ==
  /\ ahead \in 0 .. Margin
  /\ now = 0
  /\ startedAt = [e \in Event |-> NotYet]
  /\ events = {}
  /\ seen = [e \in Event |-> NotYet]
  /\ sweptAt = NotYet
  /\ dispatched = [e \in Event |-> 0]
  /\ lastInput = 0

-----------------------------------------------------------------------------
(* _sweep_event_store: what is left of the store, its stamps and the time  *)
(* of the last sweep after a sweep that is due, or one that is not.        *)
Due_OneLate == sweptAt = NotYet \/ now > sweptAt + SweepInterval

Due == sweptAt = NotYet \/ now >= sweptAt + SweepInterval

Stamp(e) == IF seen[e] = NotYet THEN now ELSE seen[e]

Kept_NoMargin == {e \in events : Stamp(e) >= now - Timeline}

Kept == {e \in events : Stamp(e) >= now - EventRetention}

Left == IF Due THEN Kept ELSE events

Sweep ==
  /\ IF Due
     THEN /\ seen' = [e \in Event |-> IF e \in Kept THEN Stamp(e) ELSE NotYet]
          /\ sweptAt' = now
     ELSE UNCHANGED <<seen, sweptAt>>
  /\ lastInput' = now

(* A device frame, or the poll's start.                                    *)
SweepingInput ==
  /\ Sweep
  /\ events' = Left
  /\ UNCHANGED <<ahead, now, startedAt, dispatched>>

-----------------------------------------------------------------------------
StartedBeforeRetention_Never(e) == FALSE

StartedBeforeRetention(e) == startedAt[e] < now - EventRetention

(* _apply_event_frame: sweep, store what is new and not history, dispatch  *)
(* the digital input of a first frame that was stored (and is well formed, *)
(* _apply_digital_input_event). Any frame may come late or again.          *)
EventArrives(e) ==
  /\ startedAt[e] # NotYet
  /\ Sweep
  /\ \E wellFormed \in BOOLEAN :
       LET news == e \notin Left
           stored == ~StartedBeforeRetention(e)
       IN  /\ events' = IF news /\ stored THEN Left \cup {e} ELSE Left
           /\ dispatched' = IF news /\ stored /\ wellFormed
                            THEN [dispatched EXCEPT ![e] = @ + 1] ELSE dispatched
  /\ UNCHANGED <<ahead, now, startedAt>>

EventHappens(e) ==
  /\ startedAt[e] = NotYet
  /\ startedAt' = [startedAt EXCEPT ![e] = now + ahead]
  /\ UNCHANGED <<ahead, now, events, seen, sweptAt, dispatched, lastInput>>

StoreTick ==
  /\ now < MaxTime
  /\ now' = now + 1
  /\ UNCHANGED <<ahead, startedAt, events, seen, sweptAt, dispatched, lastInput>>

StoreNext ==
  \/ SweepingInput
  \/ \E e \in Event : EventArrives(e) \/ EventHappens(e)
  \/ StoreTick

StoreSpec == StoreInit /\ [][StoreNext]_storeVars

-----------------------------------------------------------------------------
(* "This keeps every event the timeline can show": what leaves the store   *)
(* has a start the timeline no longer reaches back to, also when the       *)
(* console's clock is ahead by up to the margin.                           *)
TimelineIsComplete ==
  [][\A e \in events \ events' : startedAt[e] < now - Timeline]_storeVars

(* "An event is kept at most this much longer than EVENT_RETENTION": after *)
(* any input no stored event's stamp is older than the two together.       *)
EventsAreForgotten ==
  \A e \in events :
    seen[e] # NotYet => seen[e] + EventRetention + SweepInterval > lastInput

(* However late or often an event's frames come, and although its record   *)
(* is dropped in between, its digital input is dispatched once, unless the *)
(* console's clock makes an old event look recent.                         *)
DispatchedOnce == ahead = 0 => \A e \in Event : dispatched[e] <= 1

(* The store holds what is still needed and nothing for ever.              *)
StoredAsLongAsNeeded == TimelineIsComplete /\ [](EventsAreForgotten /\ DispatchedOnce)

=============================================================================
