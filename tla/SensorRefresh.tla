--------------------------- MODULE SensorRefresh ---------------------------
(***************************************************************************)
(* Who reads /sensors, and when: async_refresh_sensors is called by the    *)
(* poll, by the reconcile timer and, through a debouncer, on every         *)
(* reconnect of the devices stream. A caller that finds a fetch in flight  *)
(* awaits it and asks its owner for one more; the owner loops, but not     *)
(* for ever. Unloading cancels all of it while the poll may still call.    *)
(*                                                                         *)
(* A fetch is named by the caller that owns it. Between the end of a fetch *)
(* and the moment its awaiters run again the event loop may run anything.  *)
(***************************************************************************)
EXTENDS Integers

CONSTANTS
  Caller,                  \* the coroutines that call async_refresh_sensors
  Timer, Reconnect,        \* two of them; the others are polls
  MaxLoops                 \* MAX_SENSOR_REFRESH_LOOP_ITERATIONS

NoFetch == "none"

ASSUME RefreshAssumption ==
  /\ {Timer, Reconnect} \subseteq Caller /\ Timer # Reconnect
  /\ NoFetch \notin Caller
  /\ MaxLoops \in Nat \ {0}

VARIABLES
  call,        \* per caller: where it is in async_refresh_sensors
  slot,        \* _sensor_refresh_task
  cancelling,  \* owners whose fetch was cancelled and has not ended yet
  queued,      \* _sensor_refresh_pending
  debouncer,   \* [cooling, again]: its timer, and a call at the timer's end
  reconnecting, \* is the running reconnect refresh _sensor_reconnect_task?
  life,        \* "up", "stopped" (the stream), "down" (the coordinator)
  owed,        \* history: asked for, and no fetch has begun since
  deferred     \* history: owed was left to the next tick

refreshVars == <<call, slot, cancelling, queued, debouncer, reconnecting, life, owed, deferred>>

Idle == [role |-> "idle", on |-> NoFetch, outcome |-> "pending", loops |-> 0]

Busy(c) == call[c].role # "idle"
Awaiting(c) == Busy(c) /\ call[c].outcome = "pending"
Running(o) == o # NoFetch /\ call[o].role = "owner" /\ call[o].outcome = "pending"

Call == [role : {"idle", "owner", "waiter"},
         on : Caller \cup {NoFetch},
         outcome : {"pending", "done", "auth", "cancelled"},
         loops : 0 .. MaxLoops]

RefreshTypeOK ==
  /\ call \in [Caller -> Call]
  /\ slot \in Caller \cup {NoFetch}
  /\ cancelling \in SUBSET Caller
  /\ queued \in BOOLEAN
  /\ debouncer \in [cooling : BOOLEAN, again : BOOLEAN]
  /\ reconnecting \in BOOLEAN
  /\ life \in {"up", "stopped", "down"}
  /\ owed \in BOOLEAN
  /\ deferred \in BOOLEAN

RefreshInit ==
  /\ call = [c \in Caller |-> Idle]
  /\ slot = NoFetch
  /\ cancelling = {}
  /\ queued = FALSE
  /\ debouncer = [cooling |-> FALSE, again |-> FALSE]
  /\ reconnecting = FALSE
  /\ life = "up"
  /\ owed = FALSE
  /\ deferred = FALSE

-----------------------------------------------------------------------------
(* The owner's loop up to its await.                                       *)
StartFetch(c, loops) ==
  /\ call' = [call EXCEPT ![c] = [role |-> "owner", on |-> c, outcome |-> "pending",
                                  loops |-> loops]]
  /\ slot' = c
  /\ queued' = FALSE
  /\ owed' = FALSE
  /\ deferred' = FALSE

(* The call of async_refresh_sensors: wait for the fetch in flight and ask *)
(* for another, or own one.                                                *)
Enter(c) ==
  IF Running(slot)
  THEN /\ call' = [call EXCEPT ![c] = [role |-> "waiter", on |-> slot,
                                       outcome |-> "pending", loops |-> 0]]
       /\ queued' = TRUE
       /\ owed' = TRUE
       /\ UNCHANGED <<slot, deferred>>
  ELSE StartFetch(c, 1)

(* The poll, which only the coordinator's own shutdown ends.               *)
PollCalls(c) ==
  /\ c \notin {Timer, Reconnect}
  /\ life # "down" /\ ~Busy(c)
  /\ Enter(c)
  /\ UNCHANGED <<cancelling, debouncer, reconnecting, life>>

(* A tick is skipped while the one before is still running.                *)
TimerTicks ==
  /\ life = "up" /\ ~Busy(Timer)
  /\ Enter(Timer)
  /\ UNCHANGED <<cancelling, debouncer, reconnecting, life>>

-----------------------------------------------------------------------------
(* The debouncer: the first reconnect refreshes at once; those of the      *)
(* cooldown make one refresh at its end; one during a refresh is dropped.  *)
(* Each leaves its own task in _sensor_reconnect_task.                     *)
Reconnects ==
  /\ life = "up"
  /\ IF debouncer.cooling
     THEN /\ debouncer' = [debouncer EXCEPT !.again = TRUE]
          /\ owed' = TRUE
          /\ reconnecting' = FALSE
          /\ UNCHANGED <<call, slot, queued, deferred>>
     ELSE IF Busy(Reconnect)
     THEN /\ reconnecting' = FALSE
          /\ UNCHANGED <<call, slot, queued, debouncer, owed, deferred>>
     ELSE /\ Enter(Reconnect)
          /\ reconnecting' = TRUE
          /\ UNCHANGED debouncer
  /\ UNCHANGED <<cancelling, life>>

CooldownEnds ==
  /\ debouncer.cooling
  /\ debouncer' = [cooling |-> FALSE, again |-> FALSE]
  /\ IF debouncer.again /\ ~Busy(Reconnect)
     THEN Enter(Reconnect)
     ELSE UNCHANGED <<call, slot, queued, owed, deferred>>
  /\ UNCHANGED <<cancelling, reconnecting, life>>

-----------------------------------------------------------------------------
(* The fetch ends (_fetch_sensors: answered, failed, or rejected with 401) *)
(* and its awaiters are scheduled.                                         *)
FetchEnds(o) ==
  /\ Running(o)
  /\ \E outcome \in IF o \in cancelling THEN {"cancelled"} ELSE {"done", "auth"} :
       call' = [c \in Caller |->
                  IF Awaiting(c) /\ call[c].on = o
                  THEN [call[c] EXCEPT !.outcome = outcome] ELSE call[c]]
  /\ cancelling' = cancelling \ {o}
  /\ UNCHANGED <<slot, queued, debouncer, reconnecting, life, owed, deferred>>

(* The debouncer's cooldown starts when its refresh is over.               *)
Leave(c) ==
  /\ call' = [call EXCEPT ![c] = Idle]
  /\ debouncer' = IF c = Reconnect /\ life # "down"
                  THEN [debouncer EXCEPT !.cooling = TRUE] ELSE debouncer
  /\ reconnecting' = IF c = Reconnect THEN FALSE ELSE reconnecting

WaiterResumes(c) ==
  /\ call[c].role = "waiter" /\ ~Awaiting(c)
  /\ Leave(c)
  /\ UNCHANGED <<slot, cancelling, queued, life, owed, deferred>>

LoopsAgain_CapTooSoon(c) ==
  call[c].outcome = "done" /\ queued /\ call[c].loops + 1 < MaxLoops

LoopsAgain_NoCap(c) == call[c].outcome = "done" /\ queued

(* The rest of the owner's loop. A rejected key or a cancellation leaves   *)
(* it with whatever is pending; so does the cap, up to the next tick.      *)
LoopsAgain(c) == call[c].outcome = "done" /\ queued /\ call[c].loops < MaxLoops

OwnerResumes(c) ==
  /\ call[c].role = "owner" /\ ~Awaiting(c)
  /\ IF LoopsAgain(c)
     THEN /\ StartFetch(c, IF call[c].loops < MaxLoops THEN call[c].loops + 1 ELSE MaxLoops)
          /\ UNCHANGED <<debouncer, reconnecting>>
     ELSE /\ Leave(c)
          /\ slot' = IF slot = c THEN NoFetch ELSE slot
          /\ deferred' = \/ deferred
                         \/ queued /\ call[c].outcome # "done"
                         \/ queued /\ call[c].loops = MaxLoops
          /\ UNCHANGED <<queued, owed>>
  /\ UNCHANGED <<cancelling, life>>

-----------------------------------------------------------------------------
(* _cancel_sensor_background_task for the fetch, the timer's task and the  *)
(* reconnecting task. Cancelling a task cancels the fetch it awaits; one   *)
(* that was woken already is cancelled where it stands.                    *)
Drivers == {Timer} \cup (IF reconnecting THEN {Reconnect} ELSE {})

Cancelled ==
  {o \in Caller : Running(o) /\ (o = slot \/ \E c \in Drivers : Awaiting(c) /\ call[c].on = o)}

SlotAfterCancel_Kept == slot

SlotAfterCancel == NoFetch

CancelAll ==
  /\ cancelling' = cancelling \cup Cancelled
  /\ slot' = SlotAfterCancel
  /\ call' = [c \in Caller |->
                IF c \in Drivers /\ Busy(c) /\ ~Awaiting(c)
                THEN [call[c] EXCEPT !.outcome = "cancelled"] ELSE call[c]]
  /\ debouncer' = [cooling |-> FALSE, again |-> FALSE]
  /\ reconnecting' = FALSE
  /\ UNCHANGED <<queued, owed, deferred>>

(* async_stop_websocket, when the entry unloads; the coordinator lives on  *)
(* until its stream tasks have ended.                                      *)
StopWebsocket == life = "up" /\ life' = "stopped" /\ CancelAll

(* async_shutdown.                                                         *)
Shutdown == life = "stopped" /\ life' = "down" /\ CancelAll

-----------------------------------------------------------------------------
Resumes(c) == OwnerResumes(c) \/ WaiterResumes(c)

RefreshNext ==
  \/ \E c \in Caller : PollCalls(c) \/ FetchEnds(c) \/ Resumes(c)
  \/ TimerTicks
  \/ Reconnects
  \/ CooldownEnds
  \/ StopWebsocket
  \/ Shutdown

RefreshSpec == RefreshInit /\ [][RefreshNext]_refreshVars

-----------------------------------------------------------------------------
(* What was asked for while a fetch was in flight, or by a reconnect in    *)
(* the cooldown, is fetched after it was asked: as long as it is owed an   *)
(* owner will loop or the cooldown will end with a refresh, unless the cap *)
(* (or a rejected key) left it to the next tick.                           *)
NothingOwedIsForgotten ==
  owed /\ ~deferred /\ life = "up" =>
    \/ \E c \in Caller : call[c].role = "owner" /\ queued
    \/ debouncer.cooling /\ debouncer.again

(* No caller joins a fetch that is being cancelled: it would be cancelled  *)
(* with it, and the poll that calls while the stream stops would fail.     *)
NoneJoinsACancelledFetch ==
  [][\A c \in Caller : call[c].role # "waiter" /\ call'[c].role = "waiter" =>
       call'[c].on \notin cancelling]_refreshVars

(* Every call of async_refresh_sensors returns, however steadily others    *)
(* keep asking for another fetch.                                          *)
EveryCallReturns == \A c \in Caller : Busy(c) ~> ~Busy(c)

(* The two together: nobody is handed another's cancellation, nobody waits *)
(* for ever.                                                               *)
CallersAreServed == NoneJoinsACancelledFetch /\ EveryCallReturns

=============================================================================
