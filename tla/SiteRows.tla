------------------------------ MODULE SiteRows ------------------------------
(***************************************************************************)
(* The registry rows of an entry's site entities, which carry the entry's  *)
(* console namespace in their unique ids, and the transition that gives    *)
(* the entry another namespace: every row is checked, then renamed one by  *)
(* one, then the entry is saved; a call that raises, before or after it    *)
(* took effect, makes the transition undo what it did. Rows from before    *)
(* the namespaces are migrated when the platforms are set up.              *)
(***************************************************************************)
EXTENDS Naturals

CONSTANTS
  Row,        \* the entity rows of the entry, one per site and kind
  Namespace,  \* console namespaces
  Unset,      \* no namespace: the entry has none, or a row is a legacy one
  MaxFaults,  \* bound: registry and entry calls that raise
  MaxTransitions

ASSUME RowsAssumption ==
  Unset \notin Namespace /\ MaxFaults \in Nat /\ MaxTransitions \in Nat

VARIABLES
  namespace,   \* the entry's console namespace
  row,         \* the namespace in each row's unique id, Unset for a legacy row
  foreign,     \* unique ids other entries' rows have
  change,      \* the transition in progress
  faults,
  transitions

rowVars == <<namespace, row, foreign, change, faults, transitions>>

Named == Namespace \cup {Unset}
NoChange == [phase |-> "idle", from |-> Unset, to |-> Unset, attempted |-> {}]

RowTypeOK ==
  /\ namespace \in Named
  /\ row \in [Row -> Named]
  /\ foreign \subseteq Row \X Named
  /\ change \in [phase : {"idle", "renaming", "saving", "restoringEntry", "restoringRows"},
                 from : Named, to : Named, attempted : SUBSET Row]
  /\ faults \in 0 .. MaxFaults /\ transitions \in 0 .. MaxTransitions

RowInit ==
  /\ namespace \in Named
  /\ row \in [Row -> {Unset, namespace}]
  /\ foreign \in SUBSET (Row \X Named)
  /\ \A r \in Row : <<r, row[r]>> \notin foreign
  /\ change = NoChange
  /\ faults = 0 /\ transitions = 0

-----------------------------------------------------------------------------
Faulty == faults < MaxFaults /\ faults' = faults + 1

(* async_migrate_site_entity: a legacy row takes the namespace unless the  *)
(* target is occupied. A rename that raises may have taken effect; either  *)
(* way the row that exists is the one the entity is built on.              *)
Migrate(r) ==
  /\ change.phase = "idle" /\ namespace # Unset /\ row[r] = Unset
  /\ <<r, namespace>> \notin foreign
  /\ row' = [row EXCEPT ![r] = namespace]
  /\ \/ UNCHANGED faults
     \/ Faulty
  /\ UNCHANGED <<namespace, foreign, change, transitions>>

(* An entry without a namespace discovers one: no row carries another.     *)
Adopt(ns) ==
  /\ change.phase = "idle" /\ namespace = Unset /\ ns \in Namespace
  /\ namespace' = ns
  /\ UNCHANGED <<row, foreign, change, faults, transitions>>

Renamed == {r \in Row : row[r] = change.from}

(* async_rekey_site_entities, the preflight: an occupied target refuses    *)
(* the whole transition. Nothing is renamed without an old namespace.      *)
Preflight(ns) ==
  \A r \in Row : namespace # Unset /\ row[r] = namespace => <<r, ns>> \notin foreign

Begin(ns) ==
  /\ change.phase = "idle" /\ transitions < MaxTransitions
  /\ ns \in Namespace /\ ns # namespace
  /\ Preflight(ns)
  /\ transitions' = transitions + 1
  /\ change' = [phase |-> IF namespace = Unset THEN "saving" ELSE "renaming",
                from |-> namespace, to |-> ns, attempted |-> {}]
  /\ UNCHANGED <<namespace, row, foreign, faults>>

(* One rename. It is noted as attempted before it is tried: one that       *)
(* raises may have been done. The registry itself refuses an occupied id.  *)
Rename_NotedAfter(r) ==
  /\ change.phase = "renaming" /\ row[r] = change.from /\ r \notin change.attempted
  /\ \/ /\ <<r, change.to>> \notin foreign
        /\ row' = [row EXCEPT ![r] = change.to]
        /\ change' = [change EXCEPT !.attempted = @ \cup {r}]
        /\ UNCHANGED faults
     \/ /\ Faulty
        /\ change' = [change EXCEPT !.phase = "restoringRows"]
        /\ row' \in {row, [row EXCEPT ![r] = change.to]}
  /\ UNCHANGED <<namespace, foreign, transitions>>

Rename(r) ==
  /\ change.phase = "renaming" /\ row[r] = change.from /\ r \notin change.attempted
  /\ \/ /\ <<r, change.to>> \notin foreign
        /\ row' = [row EXCEPT ![r] = change.to]
        /\ change' = [change EXCEPT !.attempted = @ \cup {r}]
        /\ UNCHANGED faults
     \/ /\ Faulty
        /\ change' = [change EXCEPT !.phase = "restoringRows", !.attempted = @ \cup {r}]
        /\ row' \in {row, [row EXCEPT ![r] = change.to]}
  /\ UNCHANGED <<namespace, foreign, transitions>>

AllRenamed ==
  /\ change.phase = "renaming" /\ Renamed \subseteq change.attempted
  /\ change' = [change EXCEPT !.phase = "saving"]
  /\ UNCHANGED <<namespace, row, foreign, faults, transitions>>

(* async_update_reload_and_abort: the entry takes the new namespace; if it *)
(* raises it may have done so.                                             *)
Save ==
  /\ change.phase = "saving"
  /\ \/ /\ namespace' = change.to
        /\ change' = NoChange
        /\ UNCHANGED faults
     \/ /\ Faulty
        /\ \/ namespace' = change.to
           \/ UNCHANGED namespace
        /\ change' = [change EXCEPT !.phase = "restoringEntry"]
  /\ UNCHANGED <<row, foreign, transitions>>

(* The compensation: the entry's settings if they changed, then the rows   *)
(* in any order, each only if its old unique id is still free.             *)
RestoreEntry ==
  /\ change.phase = "restoringEntry"
  /\ \/ namespace' = change.from /\ UNCHANGED faults
     \/ Faulty /\ UNCHANGED namespace
  /\ change' = [change EXCEPT !.phase = "restoringRows"]
  /\ UNCHANGED <<row, foreign, transitions>>

RestoreRow(r) ==
  /\ change.phase = "restoringRows" /\ r \in change.attempted
  /\ \/ /\ row[r] = change.to /\ <<r, change.from>> \notin foreign
        /\ row' = [row EXCEPT ![r] = change.from]
        /\ UNCHANGED faults
     \/ row[r] # change.to /\ UNCHANGED <<row, faults>>
     \/ Faulty /\ UNCHANGED row
  /\ change' = [change EXCEPT !.attempted = @ \ {r}]
  /\ UNCHANGED <<namespace, foreign, transitions>>

RestoreEnds ==
  /\ change.phase = "restoringRows" /\ change.attempted = {}
  /\ change' = NoChange
  /\ UNCHANGED <<namespace, row, foreign, faults, transitions>>

RowNext ==
  \/ \E ns \in Namespace : Adopt(ns) \/ Begin(ns)
  \/ \E r \in Row : Migrate(r) \/ Rename(r) \/ RestoreRow(r)
  \/ AllRenamed \/ Save \/ RestoreEntry \/ RestoreEnds

RowSpec == RowInit /\ [][RowNext]_rowVars

-----------------------------------------------------------------------------
(* When no transition is running, every row of the entry is a legacy row   *)
(* or carries the entry's own namespace: whichever single call raised, and *)
(* whether or not it had taken effect, the rows and the entry were changed *)
(* together or not at all. (Two calls that raise can part them.)           *)
RowsFollowTheEntry ==
  change.phase = "idle" /\ faults <= 1 =>
    \A r \in Row : row[r] \in {Unset, namespace}

=============================================================================
