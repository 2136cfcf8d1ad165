--------------------------- MODULE AccessEmergency ---------------------------
(***************************************************************************)
(* Lockdown and Evacuation, a pair the Access console only takes whole. A  *)
(* command reads the pair, computes the new one so that the other mode is  *)
(* not lost (emergency_target), writes it and reads it back, under a lock. *)
(* Every request may fail, before or after the console acted on it, and a  *)
(* write that timed out may still land later.                              *)
(***************************************************************************)
CONSTANTS
  Command,      \* commands that may be running at a time
  NoCommand

ASSUME EmergencyAssumption == NoCommand \notin Command

VARIABLES
  modes,        \* console: [lockdown, evacuation]
  cmd,          \* per command: how far it is
  holder,       \* _emergency_lock
  late,         \* writes given up on that the console may still apply
  touched,      \* has anything but the holder changed modes since its read?
  rejected      \* auth_failed

emergencyVars == <<modes, cmd, holder, late, touched, rejected>>

Pair == [lockdown : BOOLEAN, evacuation : BOOLEAN]
NoPair == [lockdown |-> FALSE, evacuation |-> FALSE]
Done == [phase |-> "done", mode |-> "lockdown", enabled |-> FALSE, target |-> NoPair]

EmergencyTypeOK ==
  /\ modes \in Pair
  /\ cmd \in [Command -> [phase : {"done", "waiting", "asked", "decided", "written", "checked"},
                          mode : {"lockdown", "evacuation"}, enabled : BOOLEAN,
                          target : Pair]]
  /\ holder \in Command \cup {NoCommand}
  /\ late \in SUBSET Pair
  /\ touched \in BOOLEAN
  /\ rejected \in BOOLEAN

EmergencyInit ==
  /\ modes \in Pair
  /\ cmd = [c \in Command |-> Done]
  /\ holder = NoCommand
  /\ late = {}
  /\ touched = FALSE
  /\ rejected = FALSE

-----------------------------------------------------------------------------
(* emergency_target.                                                       *)
EmergencyTarget(mode, enabled, pair) ==
  IF enabled THEN [lockdown |-> mode = "lockdown", evacuation |-> mode = "evacuation"]
             ELSE [pair EXCEPT ![mode] = FALSE]

(* _require_command is asked before the lock, and not again behind it.     *)
Calls(c) ==
  /\ cmd[c].phase = "done" /\ ~rejected
  /\ \E mode \in {"lockdown", "evacuation"}, enabled \in BOOLEAN :
       cmd' = [cmd EXCEPT ![c] = [phase |-> "waiting", mode |-> mode, enabled |-> enabled,
                                  target |-> NoPair]]
  /\ UNCHANGED <<modes, holder, late, touched, rejected>>

LockIsFree_Ignored(c) == TRUE

LockIsFree(c) == holder = NoCommand

Acquires(c) ==
  /\ cmd[c].phase = "waiting" /\ LockIsFree(c)
  /\ holder' = c
  /\ cmd' = [cmd EXCEPT ![c].phase = "asked"]
  /\ UNCHANGED <<modes, late, touched, rejected>>

(* The console answers the read, and the pair to write is computed.        *)
Reads(c) ==
  /\ cmd[c].phase = "asked"
  /\ cmd' = [cmd EXCEPT ![c].phase = "decided",
                        ![c].target = EmergencyTarget(cmd[c].mode, cmd[c].enabled, modes)]
  /\ touched' = FALSE
  /\ UNCHANGED <<modes, holder, late, rejected>>

Writes(c) ==
  /\ cmd[c].phase = "decided"
  /\ modes' = cmd[c].target
  /\ cmd' = [cmd EXCEPT ![c].phase = "written"]
  /\ UNCHANGED <<holder, late, touched, rejected>>

(* The read-back; the refresh that follows cannot fail the command.        *)
ReadsBack(c) ==
  /\ cmd[c].phase = "written"
  /\ cmd' = [cmd EXCEPT ![c].phase = "checked"]
  /\ UNCHANGED <<modes, holder, late, touched, rejected>>

Release(c) ==
  /\ cmd' = [cmd EXCEPT ![c] = Done]
  /\ holder' = NoCommand

Refreshes(c) ==
  /\ cmd[c].phase = "checked"
  /\ Release(c)
  /\ UNCHANGED <<modes, late, touched, rejected>>

(* A request fails, a mode is unknown, or the token is rejected            *)
(* (_command_error); a write that had no answer may still be applied.      *)
CommandFails(c) ==
  /\ cmd[c].phase \in {"asked", "decided", "written"}
  /\ Release(c)
  /\ rejected' \in {rejected, TRUE}
  /\ late' \in IF cmd[c].phase = "decided" THEN {late, late \cup {cmd[c].target}} ELSE {late}
  /\ UNCHANGED <<modes, touched>>

-----------------------------------------------------------------------------
(* Somebody uses the console, or a late write lands.                       *)
ConsoleChanges ==
  /\ modes' \in Pair \ {modes}
  /\ touched' = TRUE
  /\ UNCHANGED <<cmd, holder, late, rejected>>

LateWrite ==
  /\ modes' \in late
  /\ late' = late \ {modes'}
  /\ touched' = TRUE
  /\ UNCHANGED <<cmd, holder, rejected>>

EmergencyNext ==
  \/ \E c \in Command : \/ Calls(c) \/ Acquires(c) \/ Reads(c) \/ Writes(c)
                        \/ ReadsBack(c) \/ Refreshes(c) \/ CommandFails(c)
  \/ ConsoleChanges
  \/ LateWrite

EmergencySpec == EmergencyInit /\ [][EmergencyNext]_emergencyVars

-----------------------------------------------------------------------------
(* "Set Lockdown or Evacuation without losing the other mode": whatever    *)
(* commands run at once, each acts on the console's pair in one step: a    *)
(* mode is only turned off by a command for it or by turning the other on, *)
(* unless the console itself was changed between its read and its write.   *)
OtherModeIsKept ==
  [][\A c \in Command :
       cmd[c].phase = "decided" /\ cmd'[c].phase = "written" /\ ~touched =>
         LET other == IF cmd[c].mode = "lockdown" THEN "evacuation" ELSE "lockdown"
         IN  /\ modes'[cmd[c].mode] = cmd[c].enabled
             /\ modes'[other] = (modes[other] /\ ~cmd[c].enabled)]_emergencyVars

=============================================================================
