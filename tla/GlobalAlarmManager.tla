------------------------- MODULE GlobalAlarmManager -------------------------
(***************************************************************************)
(* Whether the UniFi global alarm manager owns the alarm. Protect's own    *)
(* arm state does not follow it, so the alarm panel is only shown while    *)
(* the manager is known to be off. Protect tells by refusing to list arm   *)
(* profiles, asked by the poll and by the reconcile timer, and by refusing *)
(* an arm command. It is not asked again for Reprobe after an answer, for  *)
(* Backoff after a failure.                                                *)
(*                                                                         *)
(* The NVR reports an arm mode throughout (without one nothing is asked).  *)
(***************************************************************************)
EXTENDS Integers

CONSTANTS
  Asker,         \* "poll" and "timer"; the poll may be held off for ever
  Punctual,      \* the asker that is not: the reconcile timer
  Reprobe,       \* GLOBAL_ALARM_MANAGER_REPROBE
  Backoff,       \* GLOBAL_ALARM_MANAGER_PROBE_BACKOFF
  AskInterval,   \* the longest time between two turns of the timer
  Timeout        \* of a request

ASSUME AlarmAssumption ==
  /\ Punctual \in Asker
  /\ {Reprobe, Backoff, AskInterval, Timeout} \subseteq Nat \ {0}
  /\ Backoff <= Reprobe

VARIABLES
  manager,    \* console: is the global alarm manager on?
  known,      \* data["global_alarm_manager"]: "unknown", "on", "off"
  wait,       \* time to _global_alarm_manager_probe_after
  probe,      \* per asker: its request
  command,    \* an arm command's request
  turn,       \* time since the timer's last turn
  wrongFor    \* history: time known and manager have contradicted each
              \* other, not counting what failed probes cost

alarmVars == <<manager, known, wait, probe, command, turn, wrongFor>>

Answer(on) == IF on THEN "on" ELSE "off"
Request == [phase : {"idle", "sent", "on", "off"}, age : 0 .. Timeout]
NoRequest == [phase |-> "idle", age |-> 0]

AlarmTypeOK ==
  /\ manager \in BOOLEAN
  /\ known \in {"unknown", "on", "off"}
  /\ wait \in 0 .. Reprobe
  /\ probe \in [Asker -> Request]
  /\ command \in Request
  /\ turn \in 0 .. AskInterval
  /\ wrongFor \in Nat

AlarmInit ==
  /\ manager \in BOOLEAN
  /\ known = "unknown"
  /\ wait = 0
  /\ probe = [a \in Asker |-> NoRequest]
  /\ command = NoRequest
  /\ turn = 0
  /\ wrongFor = 0

Wrong == known # "unknown" /\ known # Answer(manager)

Counting(time) == wrongFor' = IF Wrong' THEN time ELSE 0

-----------------------------------------------------------------------------
Switches ==
  /\ manager' = ~manager
  /\ UNCHANGED <<known, wait, probe, command, turn>>
  /\ Counting(0)

(* A turn of an asker: _probe_global_alarm_manager up to its await. The    *)
(* timer's turn comes again even if this one asks nothing.                 *)
Turn(a) ==
  /\ probe[a].phase = "idle"
  /\ IF wait > 0 THEN UNCHANGED probe
     ELSE probe' = [probe EXCEPT ![a] = [phase |-> "sent", age |-> 0]]
  /\ turn' = IF a = Punctual THEN 0 ELSE turn
  /\ UNCHANGED <<manager, known, wait, command, wrongFor>>

Answers(a) ==
  /\ probe[a].phase = "sent"
  /\ probe' = [probe EXCEPT ![a].phase = Answer(manager)]
  /\ UNCHANGED <<manager, known, wait, command, turn, wrongFor>>

(* The answer reaches the coordinator: _set_global_alarm_manager.          *)
Learnt_FirstOnly(answer) == IF known = "unknown" THEN answer ELSE known

Learnt(answer) == answer

Returns(a) ==
  /\ probe[a].phase \in {"on", "off"}
  /\ known' = Learnt(probe[a].phase)
  /\ wait' = Reprobe
  /\ probe' = [probe EXCEPT ![a] = NoRequest]
  /\ turn' = IF a = Punctual THEN 0 ELSE turn
  /\ UNCHANGED <<manager, command>>
  /\ Counting(wrongFor)

(* _global_alarm_manager_probe_failed: the last known answer stands.       *)
Fails(a) ==
  /\ probe[a].phase # "idle"
  /\ wait' = Backoff
  /\ probe' = [probe EXCEPT ![a] = NoRequest]
  /\ turn' = IF a = Punctual THEN 0 ELSE turn
  /\ wrongFor' = 0
  /\ UNCHANGED <<manager, known, command>>

-----------------------------------------------------------------------------
(* _async_send_arm_command: a refusal is an answer too. The console only   *)
(* refuses while the manager is on; other outcomes change nothing here.    *)
Refused ==
  /\ command.phase = "idle" /\ manager
  /\ command' = [phase |-> "on", age |-> 0]
  /\ UNCHANGED <<manager, known, wait, probe, turn, wrongFor>>

(* mark_global_alarm_manager_enabled.                                      *)
MarkEnabled ==
  /\ command.phase = "on"
  /\ command' = NoRequest
  /\ UNCHANGED <<manager, probe, turn>>
  /\ IF known = "on" THEN UNCHANGED <<known, wait>>
                      ELSE known' = "on" /\ wait' = Reprobe
  /\ Counting(wrongFor)

-----------------------------------------------------------------------------
Older(r) == IF r.phase = "idle" THEN r ELSE [r EXCEPT !.age = @ + 1]

Overdue(r) == r.phase # "idle" /\ r.age = Timeout

(* Time. Requests end within their timeout and the timer's turn comes      *)
(* before it passes.                                                       *)
AlarmTick ==
  /\ \A a \in Asker : ~Overdue(probe[a])
  /\ ~Overdue(command)
  /\ probe[Punctual].phase = "idle" => turn < AskInterval
  /\ turn' = IF probe[Punctual].phase = "idle" THEN turn + 1 ELSE turn
  /\ wait' = IF wait > 0 THEN wait - 1 ELSE 0
  /\ probe' = [a \in Asker |-> Older(probe[a])]
  /\ command' = Older(command)
  /\ wrongFor' = IF Wrong THEN wrongFor + 1 ELSE 0
  /\ UNCHANGED <<manager, known>>

AlarmNext ==
  \/ Switches
  \/ \E a \in Asker : Turn(a) \/ Answers(a) \/ Returns(a) \/ Fails(a)
  \/ Refused
  \/ MarkEnabled
  \/ AlarmTick

AlarmSpec == AlarmInit /\ [][AlarmNext]_alarmVars

-----------------------------------------------------------------------------
(* While the manager is enabled the panel "would show a false disarmed";   *)
(* with two askers and refused commands whose answers cross each other,    *)
(* what is known still contradicts the console for no longer than one      *)
(* re-probe, one turn of the timer and two requests, failed probes apart.  *)
PanelIsTrueAgain == wrongFor <= Reprobe + AskInterval + 2 * Timeout

=============================================================================
