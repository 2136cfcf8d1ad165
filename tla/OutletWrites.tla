---------------------------- MODULE OutletWrites ----------------------------
(***************************************************************************)
(* The outlets of one PDU. The controller takes one outlet_overrides array *)
(* as the complete desired state, so every write is built from the cached  *)
(* record, and one built from an older record switches other outlets back. *)
(* For some seconds after a change polls still report the older arrays:    *)
(* written fields are pending and held over the polls until these report   *)
(* them, or a guard time has passed. A write needs a baseline the last raw *)
(* poll showed to be complete.                                             *)
(*                                                                         *)
(* Writes and polls hold the refresh lock; the switch platform runs one    *)
(* command at a time (PARALLEL_UPDATES = 1). One site, one source.         *)
(***************************************************************************)
EXTENDS Integers

CONSTANTS
  Outlet,
  Cycling,      \* the outlets with a cycle switch: they report cycle_enabled
  Guard,        \* OUTLET_WRITE_GUARD_SECONDS
  MaxLag,       \* how old the arrays of an answer may be when it arrives
  MaxOutletChanges  \* bound: commands and changes at the console

ASSUME OutletAssumption ==
  /\ Outlet # {} /\ Cycling \subseteq Outlet
  /\ {Guard, MaxLag, MaxOutletChanges} \subseteq Nat
  /\ MaxLag < Guard

VARIABLES
  config,         \* controller: the state of every outlet
  overridden,     \* controller: has it an outlet_overrides array at all?
  reportedArrays, \* the arrays of the next answer
  age,            \* how long each cell's change has not been reported
  outletCache,    \* the cached record's arrays
  required,       \* OutletPayloadProvenance.required_indexes
  trusted,        \* OutletPayloadProvenance.trusted
  pending,        \* _pending_outlet_writes
  polling,        \* is a poll in progress?
  command,        \* the command in progress
  changes,        \* bound
  fresh           \* history: cells whose last change HA made, or was told of

outletVars == <<config, overridden, reportedArrays, age, outletCache, required, trusted, pending,
                polling, command, changes, fresh>>

Field == {"relay_state", "cycle_enabled"}
OutletState == [Field -> BOOLEAN]
Cell == (Outlet \X {"relay_state"}) \cup (Cycling \X {"cycle_enabled"})
Rows == UNION {[indexes -> OutletState] : indexes \in SUBSET Outlet}
NoRows == [o \in {} |-> [f \in Field |-> FALSE]]
Off == [f \in Field |-> FALSE]
Arrays == [overrides : Rows, table : Rows]

NoWrite == [fields |-> [f \in {} |-> FALSE], saved |-> Off, age |-> 0]
NoCommand == [phase |-> "idle", outlet |-> CHOOSE o \in Outlet : TRUE,
              field |-> "relay_state", value |-> FALSE, state |-> FALSE, sent |-> NoRows]

OutletTypeOK ==
  /\ config \in [Outlet -> OutletState]
  /\ overridden \in BOOLEAN
  /\ reportedArrays \in Arrays
  /\ age \in [Cell -> 0 .. MaxLag]
  /\ outletCache \in Arrays
  /\ required \subseteq Outlet
  /\ trusted \in BOOLEAN
  /\ pending \in [Outlet -> [fields : UNION {[fs -> BOOLEAN] : fs \in SUBSET Field},
                             saved : OutletState, age : 0 .. Guard]]
  /\ polling \in BOOLEAN
  /\ command \in [phase : {"idle", "waiting", "sent"}, outlet : Outlet, field : Field,
                  value : BOOLEAN, state : BOOLEAN, sent : Rows]
  /\ changes \in 0 .. MaxOutletChanges
  /\ fresh \subseteq Cell

OutletInit ==
  /\ config = [o \in Outlet |-> Off]
  /\ overridden \in BOOLEAN
  /\ reportedArrays = [overrides |-> IF overridden THEN config ELSE NoRows, table |-> config]
  /\ age = [c \in Cell |-> 0]
  /\ outletCache = [overrides |-> NoRows, table |-> NoRows]
  /\ required = {}
  /\ trusted = FALSE
  /\ pending = [o \in Outlet |-> NoWrite]
  /\ polling = FALSE
  /\ command = NoCommand
  /\ changes = 0
  /\ fresh = {}

-----------------------------------------------------------------------------
(* What a write is built from: the overrides, or the table if there are    *)
(* none (_seed_outlet_overrides).                                          *)
Baseline(arrays) ==
  IF DOMAIN arrays.overrides # {} THEN arrays.overrides ELSE arrays.table

At(rows, c) == rows[c[1]][c[2]]

Changed == {c \in Cell : At(config', c) # At(config, c)}

(* The controller's state changes.                                         *)
Ages ==
  /\ overridden' = TRUE
  /\ age' = [c \in Cell |-> IF c \in Changed THEN 0 ELSE age[c]]

(* The controller's console, or a button, changes one field.               *)
ConsoleSets(o, f) ==
  /\ <<o, f>> \in Cell
  /\ changes < MaxOutletChanges
  /\ changes' = changes + 1
  /\ config' = [config EXCEPT ![o][f] = ~@]
  /\ Ages
  /\ fresh' = fresh \ {<<o, f>>}
  /\ UNCHANGED <<reportedArrays, outletCache, required, trusted, pending, polling, command>>

(* The arrays catch up, each in its own time.                              *)
OverridesCatchUp(o) ==
  /\ overridden
  /\ reportedArrays' = [reportedArrays EXCEPT !.overrides =
                    IF @ = NoRows THEN config ELSE [@ EXCEPT ![o] = config[o]]]
  /\ reportedArrays' # reportedArrays
  /\ UNCHANGED <<config, overridden, age, outletCache, required, trusted, pending, polling,
                 command, changes, fresh>>

TableCatchesUp(o) ==
  /\ reportedArrays' = [reportedArrays EXCEPT !.table[o] = config[o]]
  /\ reportedArrays' # reportedArrays
  /\ UNCHANGED <<config, overridden, age, outletCache, required, trusted, pending, polling,
                 command, changes, fresh>>

CatchUp == \E o \in Outlet : OverridesCatchUp(o) \/ TableCatchesUp(o)

-----------------------------------------------------------------------------
(* The poll holds the refresh lock from its start to its end.              *)
PollStarts ==
  /\ ~polling /\ command.phase # "sent"
  /\ polling' = TRUE
  /\ UNCHANGED <<config, overridden, reportedArrays, age, outletCache, required, trusted, pending,
                 command, changes, fresh>>

(* Any site's failure fails the update, and nothing is written.            *)
PollFails ==
  /\ polling
  /\ polling' = FALSE
  /\ UNCHANGED <<config, overridden, reportedArrays, age, outletCache, required, trusted, pending,
                 command, changes, fresh>>

But(o, rows) == [p \in DOMAIN rows \ {o} |-> rows[p]]

(* Incomplete answers: overrides that lack an outlet and have another, a   *)
(* table that is no list, an outlet in neither array. What a device's      *)
(* first answer lacks in both cannot be known.                             *)
Incomplete ==
  {[overrides |-> But(o, reportedArrays.overrides), table |-> reportedArrays.table] :
     o \in {p \in Outlet : But(p, reportedArrays.overrides) # NoRows}}
  \cup {[reportedArrays EXCEPT !.table = NoRows]}
  \cup {[overrides |-> But(o, reportedArrays.overrides), table |-> But(o, reportedArrays.table)] :
          o \in required}

(* evaluate_outlet_payload_provenance, on the raw arrays.                  *)
Indexes(raw) == required \cup DOMAIN raw.overrides \cup DOMAIN raw.table

Complete(raw) == raw.table # NoRows /\ DOMAIN Baseline(raw) = Indexes(raw)

(* _hold_outlet_write: the fields of the pending write that some array     *)
(* having the outlet does not report, or that none reports.                *)
Reports(rows, o, f) == o \in DOMAIN rows /\ rows[o][f] = pending[o].fields[f]

Confirms(raw, o, f) ==
  /\ raw.overrides # NoRows => Reports(raw.overrides, o, f)
  /\ o \in DOMAIN raw.table => Reports(raw.table, o, f)
  /\ raw.overrides # NoRows \/ o \in DOMAIN raw.table

Held(raw, o) == {f \in DOMAIN pending[o].fields : ~Confirms(raw, o, f)}

(* reconcile_pending_outlet_writes: what stays pending.                    *)
StillHeld_NoOverlay(raw, o) == {}

StillHeld_NoGuard(raw, o) == Held(raw, o)

StillHeld(raw, o) == IF pending[o].age >= Guard THEN {} ELSE Held(raw, o)

Patched(raw, o, row) ==
  [f \in Field |-> IF f \in StillHeld(raw, o) THEN pending[o].fields[f] ELSE row[f]]

PatchedOverrides(raw) ==
  IF raw.overrides = NoRows THEN NoRows
  ELSE [o \in DOMAIN raw.overrides \cup {p \in Outlet : StillHeld(raw, p) # {}} |->
          Patched(raw, o, IF o \in DOMAIN raw.overrides THEN raw.overrides[o]
                          ELSE pending[o].saved)]

Completes(raw) ==
  /\ polling
  /\ polling' = FALSE
  /\ trusted' = Complete(raw)
  /\ required' = IF Complete(raw) THEN Indexes(raw) ELSE required
  /\ outletCache' = [overrides |-> PatchedOverrides(raw),
               table |-> [o \in DOMAIN raw.table |-> Patched(raw, o, raw.table[o])]]
  /\ pending' = [o \in Outlet |->
                   IF StillHeld(raw, o) = {} THEN NoWrite
                   ELSE [pending[o] EXCEPT !.fields = [f \in StillHeld(raw, o) |-> @[f]]]]
  /\ fresh' = fresh \cup {c \in Cell : /\ c[1] \in DOMAIN Baseline(raw)
                                       /\ At(Baseline(raw), c) = At(config, c)
                                       /\ c[2] \notin StillHeld(raw, c[1])}
  /\ UNCHANGED <<config, overridden, reportedArrays, age, command, changes>>

PollCompletes == Completes(reportedArrays)

PollPartly == \E raw \in Incomplete : Completes(raw)

(* A device the answer does not list loses its record, its writes and its  *)
(* provenance.                                                             *)
DeviceGone ==
  /\ polling
  /\ polling' = FALSE
  /\ trusted' = FALSE
  /\ required' = {}
  /\ outletCache' = [overrides |-> NoRows, table |-> NoRows]
  /\ pending' = [o \in Outlet |-> NoWrite]
  /\ fresh' = {}
  /\ UNCHANGED <<config, overridden, reportedArrays, age, command, changes>>

-----------------------------------------------------------------------------
(* A switch of a listed outlet is used. A cycle switch repeats the relay   *)
(* state it reads now; site name and lock are awaited after that.          *)
Calls(o, f) ==
  /\ command.phase = "idle" /\ changes < MaxOutletChanges
  /\ <<o, f>> \in Cell /\ o \in DOMAIN outletCache.table
  /\ changes' = changes + 1
  /\ \E on \in BOOLEAN :
       command' = [phase |-> "waiting", outlet |-> o, field |-> f, value |-> on,
                   state |-> IF f = "relay_state" THEN on ELSE outletCache.table[o]["relay_state"],
                   sent |-> NoRows]
  /\ UNCHANGED <<config, overridden, reportedArrays, age, outletCache, required, trusted,
                 pending, polling,
                 fresh>>

(* _build_outlet_overrides.                                                *)
Built ==
  LET rows == Baseline(outletCache)
      o == command.outlet
      old == IF o \in DOMAIN rows THEN rows[o] ELSE Off
      new == [old EXCEPT !["relay_state"] = command.state, ![command.field] = command.value]
  IN  [p \in DOMAIN rows \cup {o} |-> IF p = o THEN new ELSE rows[p]]

(* outlet_payload_is_safe.                                                 *)
PayloadIsSafe_Always == TRUE

PayloadIsSafe == trusted /\ DOMAIN Built = required

SendsCommands ==
  /\ command.phase = "waiting" /\ ~polling
  /\ command' = IF PayloadIsSafe THEN [command EXCEPT !.phase = "sent", !.sent = Built]
                                 ELSE NoCommand
  /\ UNCHANGED <<config, overridden, reportedArrays, age, outletCache, required, trusted,
                 pending, polling,
                 changes, fresh>>

-----------------------------------------------------------------------------
(* Success: _publish_outlet and _record_outlet_write.                      *)
Publish ==
  LET o == command.outlet
      row == command.sent[o]
  IN  /\ outletCache' = [overrides |-> command.sent,
                   table |-> IF o \notin DOMAIN outletCache.table THEN outletCache.table
                             ELSE [outletCache.table EXCEPT
                                     ![o]["relay_state"] = command.state,
                                     ![o][command.field] = command.value]]
      /\ pending' = [pending EXCEPT ![o] =
           [fields |-> [f \in DOMAIN @.fields \cup {command.field} |->
                          IF f = command.field THEN command.value ELSE @.fields[f]],
            saved |-> row, age |-> 0]]

(* The PUT: the controller takes the array as its whole desired state, or  *)
(* answers and never applies it, or fails with or without effect.          *)
Applies ==
  /\ config' = [o \in Outlet |-> IF o \in DOMAIN command.sent THEN command.sent[o] ELSE Off]
  /\ Ages

PutSucceeds ==
  /\ command.phase = "sent"
  /\ command' = NoCommand
  /\ Publish
  /\ \/ /\ Applies
        /\ fresh' = (fresh \ Changed) \cup {<<command.outlet, command.field>>}
     \/ /\ UNCHANGED <<config, overridden, age>>
        /\ fresh' = fresh \ {<<command.outlet, command.field>>,
                             <<command.outlet, "relay_state">>}
  /\ UNCHANGED <<reportedArrays, required, trusted, polling, changes>>

PutFails ==
  /\ command.phase = "sent"
  /\ command' = NoCommand
  /\ \/ Applies /\ fresh' = fresh \ Changed
     \/ UNCHANGED <<config, overridden, age, fresh>>
  /\ UNCHANGED <<reportedArrays, outletCache, required, trusted, pending, polling, changes>>

-----------------------------------------------------------------------------
Behind(c) ==
  \/ At(reportedArrays.table, c) # At(config, c)
  \/ reportedArrays.overrides = NoRows /\ overridden
  \/ reportedArrays.overrides # NoRows /\ At(reportedArrays.overrides, c) # At(config, c)

(* Time. Arrays catch up within MaxLag.                                    *)
OutletTick ==
  /\ \A c \in Cell : Behind(c) => age[c] < MaxLag
  /\ age' = [c \in Cell |-> IF Behind(c) THEN age[c] + 1 ELSE 0]
  /\ pending' = [o \in Outlet |->
                   IF pending[o].fields = NoWrite.fields \/ pending[o].age = Guard
                   THEN pending[o] ELSE [pending[o] EXCEPT !.age = @ + 1]]
  /\ UNCHANGED <<config, overridden, reportedArrays, outletCache, required, trusted, polling,
                 command,
                 changes, fresh>>

OutletNext ==
  \/ \E o \in Outlet, f \in Field : ConsoleSets(o, f) \/ Calls(o, f)
  \/ CatchUp
  \/ PollStarts \/ PollFails \/ PollCompletes \/ PollPartly \/ DeviceGone
  \/ SendsCommands \/ PutSucceeds \/ PutFails
  \/ OutletTick

OutletSpec == OutletInit /\ [][OutletNext]_outletVars

-----------------------------------------------------------------------------
Put == command.phase = "sent" /\ command'.phase = "idle"

(* "The next outlet command, built from it, would switch the earlier       *)
(* outlet back" (#376): a write changes nothing but what it is for, among  *)
(* all that Home Assistant wrote with success or was told of, whatever     *)
(* arrays lag and whatever answers were incomplete. (The relay a cycle     *)
(* write repeats is CycleKeepsTheRelay.)                                   *)
WritesKeepEachOther ==
  [][Put => \A c \in fresh :
       \/ At(config', c) = At(config, c)
       \/ c[1] = command.outlet /\ c[2] \in {"relay_state", command.field}]_outletVars

(* "Set ... power cycling while keeping the relay as it is": a cycle write *)
(* does not switch a relay whose state Home Assistant shows.               *)
CycleKeepsTheRelay ==
  [][LET relay == <<command.outlet, "relay_state">>
     IN  /\ Put /\ command.field = "cycle_enabled"
         /\ command.outlet \in DOMAIN outletCache.table
         /\ At(outletCache.table, relay) = At(config, relay)
         => At(config', relay) = At(config, relay)]_outletVars

(* A write the controller never applied does not stick: whatever a listed  *)
(* device shows, both arrays shown come to be the controller's.            *)
ShowsTheController ==
  outletCache.table # NoRows ~> outletCache.table = config /\ Baseline(outletCache) = config

=============================================================================
