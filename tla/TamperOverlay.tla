---------------------------- MODULE TamperOverlay ----------------------------
(***************************************************************************)
(* The tamper status of one alarm hub. A tamper event shows at once, and   *)
(* is kept as a TamperRecord that every answer of the alarm hub endpoint   *)
(* is overlaid with: an answer requested before the event would read as a  *)
(* false all-clear, and some consoles send no deviceTamperStatus at all.   *)
(*                                                                         *)
(* The console's status is the number of its changes. Several changes may  *)
(* be one event; frames may be late, lost, repeated, or name no status.    *)
(***************************************************************************)
EXTENDS Integers

CONSTANTS MaxTampers,    \* bound: changes at the console
          MaxTamperTime  \* bound: monotonic clock readings

ASSUME TamperAssumption == {MaxTampers, MaxTamperTime} \subseteq Nat

VARIABLES
  restHasField,  \* fixed at Init: does REST carry deviceTamperStatus?
  tampered,      \* console: [status, event] after its changes so far
  sent,          \* console: the newest such pair a frame has carried
  clock,         \* the monotonic clock
  hub,           \* cached alarmHub.deviceTamperStatus, Unknown if missing
  tamper,        \* ReconcilerState.tamper of the hub
  ask            \* the poll's request for the alarm hubs

tamperVars == <<restHasField, tampered, sent, clock, hub, tamper, ask>>

Unknown == -1
Status == 0 .. MaxTampers
Change == [status : Status, event : Status]
NoRecord == [event |-> Unknown, status |-> Unknown, received |-> 0]

TamperTypeOK ==
  /\ restHasField \in BOOLEAN
  /\ tampered \in Change /\ sent \in Change
  /\ clock \in 0 .. MaxTamperTime
  /\ hub \in Status \cup {Unknown}
  /\ tamper \in [event : Status \cup {Unknown}, status : Status \cup {Unknown},
                 received : 0 .. MaxTamperTime]
  /\ ask \in [phase : {"idle", "sent", "answered", "failed"},
              at : 0 .. MaxTamperTime, status : Status \cup {Unknown}]

TamperInit ==
  /\ restHasField \in BOOLEAN
  /\ tampered = [status |-> 0, event |-> 0]
  /\ sent = tampered
  /\ clock = 0
  /\ hub = IF restHasField THEN 0 ELSE Unknown
  /\ tamper = NoRecord
  /\ ask = [phase |-> "idle", at |-> 0, status |-> Unknown]

-----------------------------------------------------------------------------
(* The console: a change may be a new event or go on with the last one.    *)
HubChanges ==
  /\ tampered.status < MaxTampers
  /\ \E id \in {tampered.event, tampered.event + 1} :
       tampered' = [status |-> tampered.status + 1, event |-> id]
  /\ UNCHANGED <<restHasField, sent, clock, hub, tamper, ask>>

TamperTick ==
  /\ clock < MaxTamperTime
  /\ clock' = clock + 1
  /\ UNCHANGED <<restHasField, tampered, sent, hub, tamper, ask>>

-----------------------------------------------------------------------------
(* _apply_tamper_event: the record a frame with or without a status makes. *)
(* A frame of the event on record fills its gaps from it; a frame without  *)
(* a status keeps the time the status came.                                *)
NewRecord_KeepsTime(event, status) ==
  IF event = tamper.event
  THEN [tamper EXCEPT !.status = IF status = Unknown THEN @ ELSE status]
  ELSE [event |-> event, status |-> status, received |-> clock]

NewRecord(event, status) ==
  IF event = tamper.event /\ status = Unknown THEN tamper
  ELSE [event |-> event, status |-> status, received |-> clock]

TamperFrame ==
  /\ clock < MaxTamperTime
  /\ \E change \in Change : \E status \in {change.status, Unknown} :
       /\ change = sent \/ (change = tampered /\ sent # tampered)
       /\ sent' = change
       /\ tamper' = NewRecord(change.event, status)
  /\ hub' = IF tamper'.status = Unknown THEN hub ELSE tamper'.status
  /\ UNCHANGED <<restHasField, tampered, clock, ask>>

-----------------------------------------------------------------------------
BeginAsk ==
  /\ ask.phase = "idle"
  /\ ask' = [ask EXCEPT !.phase = "sent", !.at = clock]
  /\ UNCHANGED <<restHasField, tampered, sent, clock, hub, tamper>>

HubAnswers ==
  /\ ask.phase = "sent"
  /\ ask' = [ask EXCEPT !.phase = "answered",
                        !.status = IF restHasField THEN tampered.status ELSE Unknown]
  /\ UNCHANGED <<restHasField, tampered, sent, clock, hub, tamper>>

AskFails ==
  /\ ask.phase = "sent"
  /\ ask' = [ask EXCEPT !.phase = "failed"]
  /\ UNCHANGED <<restHasField, tampered, sent, clock, hub, tamper>>

(* _overlay_tamper_records, over the answer or, when the request failed,   *)
(* over what is cached.                                                    *)
Overlaid_EventWins(reported) ==
  IF tamper.status # Unknown THEN tamper.status ELSE reported

Overlaid(reported) ==
  IF tamper.status # Unknown /\ (reported = Unknown \/ tamper.received >= ask.at)
  THEN tamper.status ELSE reported

ApplyAsk ==
  /\ ask.phase \in {"answered", "failed"}
  /\ ask' = [ask EXCEPT !.phase = "idle"]
  /\ hub' = Overlaid(IF ask.phase = "answered" THEN ask.status ELSE hub)
  /\ UNCHANGED <<restHasField, tampered, sent, clock, tamper>>

-----------------------------------------------------------------------------
TamperNext ==
  \/ HubChanges
  \/ TamperTick
  \/ TamperFrame
  \/ BeginAsk
  \/ HubAnswers
  \/ AskFails
  \/ ApplyAsk

TamperSpec == TamperInit /\ [][TamperNext]_tamperVars

-----------------------------------------------------------------------------
(* While the last event on record has a status, no answer replaces the     *)
(* hub's status by an older one or by none: what a frame showed after the  *)
(* request went out is not undone by a false all-clear. (An event without  *)
(* a status takes the place of the one before, and its protection with it.)*)
NoFalseAllClear ==
  [][ask.phase # "idle" /\ ask'.phase = "idle" /\ tamper.status # Unknown =>
       hub' # Unknown /\ hub' >= hub]_tamperVars

(* Where REST has the field it is authoritative in the end, whatever       *)
(* frames were lost and however old the record is.                         *)
TamperConverges == restHasField => <>[](hub = tampered.status)

(* A tamper is shown as long as the console shows it.                      *)
TamperIsShown == NoFalseAllClear /\ TamperConverges

=============================================================================
