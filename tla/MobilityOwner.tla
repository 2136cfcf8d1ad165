---------------------------- MODULE MobilityOwner ----------------------------
(***************************************************************************)
(* Which remote entry polls UniFi Mobility for an API key. The data is     *)
(* account-wide, so one entry of each key polls it: an entry takes the key *)
(* during its setup if nobody holds it and it is the oldest enabled entry  *)
(* with that key; it gives it back when it unloads, and if it was disabled *)
(* or deleted the next candidate is reloaded to take it.                   *)
(***************************************************************************)
EXTENDS Naturals

CONSTANTS
  RemoteEntries,  \* number of remote entries; a smaller number is older
  CloudKey,       \* API keys
  NoKey,          \* no key
  MaxUserChanges  \* bound: disables, enables, deletions and new keys

ASSUME MobilityAssumption == RemoteEntries \in Nat /\ MaxUserChanges \in Nat /\ NoKey \notin CloudKey

VARIABLES
  cloudKey,    \* entry.data[CONF_API_KEY]
  present,     \* the entries of the registry
  enabled,     \* those that are not disabled
  phase,       \* the life cycle of each entry
  polls,       \* the key an entry's Mobility client polls with, or NoKey
  owners,      \* _OWNERS: the entry of each key, 0 if none
  reload,      \* entries with a scheduled reload
  leaving,     \* deleted entries whose async_remove_entry has not run yet
  userChanges

mobilityVars == <<cloudKey, present, enabled, phase, polls, owners, reload, leaving, userChanges>>

Remote == 1 .. RemoteEntries

MobilityTypeOK ==
  /\ cloudKey \in [Remote -> CloudKey]
  /\ present \subseteq Remote /\ enabled \subseteq present
  /\ phase \in [Remote -> {"unloaded", "setup", "loaded"}]
  /\ polls \in [Remote -> CloudKey \cup {NoKey}]
  /\ owners \in [CloudKey -> 0 .. RemoteEntries]
  /\ reload \subseteq present
  /\ leaving \subseteq Remote \ present
  /\ userChanges \in 0 .. MaxUserChanges

MobilityInit ==
  /\ cloudKey \in [Remote -> CloudKey]
  /\ present = Remote
  /\ enabled \in SUBSET Remote
  /\ phase = [e \in Remote |-> "unloaded"]
  /\ polls = [e \in Remote |-> NoKey]
  /\ owners = [k \in CloudKey |-> 0]
  /\ reload = {}
  /\ leaving = {}
  /\ userChanges = 0

-----------------------------------------------------------------------------
(* _owner_candidates, and the first of them in the order of age.           *)
Candidates(k) == {e \in enabled : cloudKey[e] = k}
Oldest(e, candidates) == e \in candidates /\ \A c \in candidates : e <= c

IsOwner_Takes(e) == Oldest(e, Candidates(cloudKey[e]))

IsOwner(e) ==
  /\ owners[cloudKey[e]] \in {0, e}
  /\ Oldest(e, Candidates(cloudKey[e]))

(* An entry's row under its present key.                                   *)
Released(e) == [owners EXCEPT ![cloudKey[e]] = IF @ = e THEN 0 ELSE @]

(* async_hand_over_mobility: release, and unless somebody polls the key    *)
(* already, reload the oldest other candidate if it is loaded without it.  *)
Successor(e) ==
  {s \in enabled \ {e} : /\ Oldest(s, Candidates(cloudKey[e]) \ {e})
                         /\ phase[s] = "loaded" /\ polls[s] = NoKey}

HandOver_Nobody(e) == owners' = Released(e) /\ UNCHANGED reload

HandOver(e) ==
  /\ owners' = Released(e)
  /\ reload' = (reload \ {e}) \cup
               (IF Released(e)[cloudKey[e]] = 0 THEN Successor(e) ELSE {})

-----------------------------------------------------------------------------
(* What the user does: disable, enable, delete, give another key. Each but *)
(* the deletion ends in a reload of the entry.                             *)
Disable(e) ==
  /\ userChanges < MaxUserChanges /\ userChanges' = userChanges + 1
  /\ e \in enabled
  /\ enabled' = enabled \ {e}
  /\ reload' = reload \cup {e}
  /\ UNCHANGED <<cloudKey, present, phase, polls, owners, leaving>>

Enable(e) ==
  /\ userChanges < MaxUserChanges /\ userChanges' = userChanges + 1
  /\ e \in present \ enabled /\ e \notin reload
  /\ enabled' = enabled \cup {e}
  /\ UNCHANGED <<cloudKey, present, phase, polls, owners, reload, leaving>>

NewKey(e, k) ==
  /\ userChanges < MaxUserChanges /\ userChanges' = userChanges + 1
  /\ e \in present /\ k # cloudKey[e]
  /\ cloudKey' = [cloudKey EXCEPT ![e] = k]
  /\ reload' = reload \cup {e}
  /\ UNCHANGED <<present, enabled, phase, polls, owners, leaving>>

-----------------------------------------------------------------------------
(* async_setup_mobility, in the middle of an entry's setup ...             *)
SetUpMobility(e) ==
  /\ e \in enabled /\ phase[e] = "unloaded"
  /\ phase' = [phase EXCEPT ![e] = "setup"]
  /\ \/ /\ IsOwner(e)
        /\ owners' = [owners EXCEPT ![cloudKey[e]] = e]
        /\ polls' = [polls EXCEPT ![e] = cloudKey[e]]
     \/ ~IsOwner(e) /\ UNCHANGED <<owners, polls>>
  /\ reload' = reload \ {e}
  /\ UNCHANGED <<cloudKey, present, enabled, leaving, userChanges>>

(* ... which then succeeds, or fails: what it registered on unload is run. *)
SetUpEnds(e) ==
  /\ phase[e] = "setup"
  /\ \/ phase' = [phase EXCEPT ![e] = "loaded"] /\ UNCHANGED <<polls, owners>>
     \/ /\ phase' = [phase EXCEPT ![e] = "unloaded"]
        /\ polls' = [polls EXCEPT ![e] = NoKey]
        /\ owners' = IF polls[e] = NoKey THEN owners ELSE Released(e)
  /\ UNCHANGED <<cloudKey, present, enabled, reload, leaving, userChanges>>

(* The end of an unload: the hand-over of a disabled owner, the release    *)
(* that every owner registered, and the end of its polling, in one step.   *)
Unloads(e) ==
  /\ phase[e] = "loaded"
  /\ phase' = [phase EXCEPT ![e] = "unloaded"]
  /\ polls' = [polls EXCEPT ![e] = NoKey]
  /\ \/ polls[e] # NoKey /\ e \notin enabled /\ HandOver(e)
     \/ /\ polls[e] = NoKey \/ e \in enabled
        /\ owners' = IF polls[e] = NoKey THEN owners ELSE Released(e)
        /\ reload' = reload \ {e}

Unload(e) ==
  /\ e \in reload
  /\ Unloads(e)
  /\ UNCHANGED <<cloudKey, present, enabled, leaving, userChanges>>

(* An entry that is not loaded is unloaded without its own code.           *)
DropRetry(e) ==
  /\ e \in reload /\ phase[e] = "unloaded" /\ e \notin enabled
  /\ reload' = reload \ {e}
  /\ UNCHANGED <<cloudKey, present, enabled, phase, polls, owners, leaving, userChanges>>

(* A deletion unloads the entry and takes it out of the registry, and only *)
(* then calls async_remove_entry, which waits before it hands over.        *)
Delete(e) ==
  /\ userChanges < MaxUserChanges /\ userChanges' = userChanges + 1
  /\ e \in present
  /\ \/ Unloads(e)
     \/ /\ phase[e] = "unloaded"
        /\ reload' = reload \ {e}
        /\ UNCHANGED <<phase, polls, owners>>
  /\ present' = present \ {e}
  /\ enabled' = enabled \ {e}
  /\ leaving' = leaving \cup {e}
  /\ UNCHANGED cloudKey

HandOverAfterRemoval(e) ==
  /\ e \in leaving
  /\ leaving' = leaving \ {e}
  /\ HandOver(e)
  /\ UNCHANGED <<cloudKey, present, enabled, phase, polls, userChanges>>

MobilityNext ==
  \E e \in Remote :
    \/ Disable(e) \/ Enable(e) \/ \E k \in CloudKey : NewKey(e, k)
    \/ SetUpMobility(e) \/ SetUpEnds(e) \/ Unload(e) \/ DropRetry(e)
    \/ Delete(e) \/ HandOverAfterRemoval(e)

(* Home Assistant ends each reload, setup and removal that is under way.   *)
Progress(e) ==
  \/ SetUpMobility(e) \/ SetUpEnds(e) \/ Unload(e) \/ DropRetry(e)
  \/ HandOverAfterRemoval(e)

MobilitySpec ==
  /\ MobilityInit /\ [][MobilityNext]_mobilityVars
  /\ \A e \in Remote : WF_mobilityVars(Progress(e))

-----------------------------------------------------------------------------
(* However entries are set up, reloaded, disabled, deleted and re-keyed,   *)
(* two of them never poll with one key, and a key changes hands only after *)
(* its last poller stopped.                                                *)
PollersOf == [k \in CloudKey |-> {e \in Remote : polls[e] = k}]
Owners == INSTANCE SolePoller WITH
  Entry <- {{e} : e \in Remote}, Key <- CloudKey, Nobody <- {}, poller <- PollersOf

ImplementsSolePoller == Owners!Spec

OnePoller == \A k \in CloudKey, e, f \in Remote : polls[e] = k /\ polls[f] = k => e = f

(* When the entry polling a key is disabled or deleted, and the user then  *)
(* leaves the entries alone, the key is polled again: the hand-over        *)
(* reloads the oldest remaining candidate if it is loaded. (A row left     *)
(* behind by a change of key, below, can stand in the way.)                *)
Polled(k) == \E e \in Remote : polls[e] = k
Waiting(k) == \E e \in Candidates(k) : Oldest(e, Candidates(k)) /\ phase[e] = "loaded"
LeftBehind(k) == owners[k] # 0 /\ cloudKey[owners[k]] # k
GivesUp(e, k) ==
  /\ cloudKey[e] = k
  /\ e \in leaving \/ (phase[e] = "loaded" /\ polls[e] = k /\ e \notin enabled)
HandedOver ==
  \A k \in CloudKey, e \in Remote :
    GivesUp(e, k) /\ userChanges = MaxUserChanges
      ~> ~GivesUp(e, k) /\ (Polled(k) \/ ~Waiting(k) \/ LeftBehind(k))

=============================================================================
