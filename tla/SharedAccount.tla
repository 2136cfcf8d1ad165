---------------------------- MODULE SharedAccount ----------------------------
(***************************************************************************)
(* The registry of Site Manager accounts. Remote entries with the same API *)
(* key share one client and one polling coordinator: the first acquires a  *)
(* new account, the last to release it removes it from the registry, waits *)
(* for its first refresh to be cancelled, and closes it. While it waits    *)
(* another entry may acquire the same key, and gets a new account.         *)
(***************************************************************************)
EXTENDS Naturals

CONSTANTS
  Entry,         \* remote config entries
  Key,           \* API keys (fingerprints)
  None,          \* no key
  MaxAccounts,   \* bound: accounts created
  MaxRekeys      \* bound: changes of an entry's key

ASSUME SharedAssumption == MaxAccounts \in Nat /\ MaxRekeys \in Nat /\ None \notin Key

VARIABLES
  apiKey,      \* entry.data[CONF_API_KEY]
  entryState,  \* the entry's life cycle
  fingerprint, \* the fingerprint the entry acquired, or None
  lent,        \* the account whose coordinator the entry uses, 0 if none
  registry,    \* _ACCOUNT_REGISTRY: the account of each key, 0 if none
  account,     \* the accounts created
  rekeys

accountVars == <<apiKey, entryState, fingerprint, lent, registry, account, rekeys>>

Account == 1 .. MaxAccounts
NoAccount == [users |-> {}, refresh |-> "none", open |-> FALSE]
Made(a) == account[a].refresh # "none"

AccountTypeOK ==
  /\ apiKey \in [Entry -> Key]
  /\ entryState \in [Entry -> {"unloaded", "setup", "loaded", "releasing", "failed"}]
  /\ fingerprint \in [Entry -> Key \cup {None}]
  /\ lent \in [Entry -> 0 .. MaxAccounts]
  /\ registry \in [Key -> 0 .. MaxAccounts]
  /\ account \in [Account -> [users : SUBSET Entry, open : BOOLEAN,
                              refresh : {"none", "running", "cancelled", "done"}]]
  /\ rekeys \in 0 .. MaxRekeys

AccountInit ==
  /\ apiKey \in [Entry -> Key]
  /\ entryState = [e \in Entry |-> "unloaded"]
  /\ fingerprint = [e \in Entry |-> None]
  /\ lent = [e \in Entry |-> 0]
  /\ registry = [k \in Key |-> 0]
  /\ account = [a \in Account |-> NoAccount]
  /\ rekeys = 0

-----------------------------------------------------------------------------
(* Reauthentication gives an entry another key, whatever it is doing; the  *)
(* reload that follows is an unload and a setup.                           *)
Rekey(e, k) ==
  /\ rekeys < MaxRekeys /\ k # apiKey[e]
  /\ rekeys' = rekeys + 1
  /\ apiKey' = [apiKey EXCEPT ![e] = k]
  /\ UNCHANGED <<entryState, fingerprint, lent, registry, account>>

(* async_acquire_site_manager: the key's account, or a new one with its    *)
(* first refresh in the background.                                        *)
Joins(e, a) ==
  /\ registry[apiKey[e]] = a /\ a # 0
  /\ account' = [account EXCEPT ![a].users = @ \cup {e}]
  /\ UNCHANGED registry

Creates(e, a) ==
  /\ registry[apiKey[e]] = 0
  /\ a \in Account /\ ~Made(a) /\ \A b \in 1 .. a - 1 : Made(b)
  /\ account' = [account EXCEPT ![a] = [users |-> {e}, refresh |-> "running", open |-> TRUE]]
  /\ registry' = [registry EXCEPT ![apiKey[e]] = a]

Acquire(e) ==
  /\ entryState[e] = "unloaded"
  /\ \E a \in Account :
       /\ Joins(e, a) \/ Creates(e, a)
       /\ lent' = [lent EXCEPT ![e] = a]
  /\ fingerprint' = [fingerprint EXCEPT ![e] = apiKey[e]]
  /\ entryState' = [entryState EXCEPT ![e] = "setup"]
  /\ UNCHANGED <<apiKey, rekeys>>

SetupDone(e) ==
  /\ entryState[e] = "setup"
  /\ entryState' = [entryState EXCEPT ![e] = "loaded"]
  /\ UNCHANGED <<apiKey, fingerprint, lent, registry, account, rekeys>>

(* Platforms that do not unload leave the entry, and its account, as is.   *)
UnloadFails(e) ==
  /\ entryState[e] = "loaded"
  /\ entryState' = [entryState EXCEPT ![e] = "failed"]
  /\ UNCHANGED <<apiKey, fingerprint, lent, registry, account, rekeys>>

-----------------------------------------------------------------------------
(* async_release_site_manager up to its first await, called by an unload   *)
(* and by a setup that failed: the last user takes the account out of the  *)
(* registry at once, before anything is waited for.                        *)
LeavesOthers(e, a) ==
  /\ account[a].users # {e}
  /\ account' = [account EXCEPT ![a].users = @ \ {e}]
  /\ entryState' = [entryState EXCEPT ![e] = "unloaded"]
  /\ lent' = [lent EXCEPT ![e] = 0]
  /\ UNCHANGED registry

LastLeaves_KeepsTheRow(e, a) ==
  /\ account[a].users = {e}
  /\ account' = [account EXCEPT ![a].users = {},
                                ![a].refresh = IF @ = "running" THEN "cancelled" ELSE @]
  /\ entryState' = [entryState EXCEPT ![e] = "releasing"]
  /\ UNCHANGED <<lent, registry>>

LastLeaves(e, a) ==
  /\ account[a].users = {e}
  /\ registry' = [registry EXCEPT ![fingerprint[e]] = 0]
  /\ account' = [account EXCEPT ![a].users = {},
                                ![a].refresh = IF @ = "running" THEN "cancelled" ELSE @]
  /\ entryState' = [entryState EXCEPT ![e] = "releasing"]
  /\ UNCHANGED lent

Release_NewKey(e) ==
  /\ entryState[e] \in {"setup", "loaded"}
  /\ \E a \in Account :
       /\ a = registry[apiKey[e]]
       /\ LeavesOthers(e, a) \/ LastLeaves(e, a)
  /\ fingerprint' = [fingerprint EXCEPT ![e] = None]
  /\ UNCHANGED <<apiKey, rekeys>>

Release(e) ==
  /\ entryState[e] \in {"setup", "loaded"}
  /\ \E a \in Account :
       /\ a = registry[fingerprint[e]]
       /\ LeavesOthers(e, a) \/ LastLeaves(e, a)
  /\ fingerprint' = [fingerprint EXCEPT ![e] = None]
  /\ UNCHANGED <<apiKey, rekeys>>

(* The first refresh ends, by itself or by the cancellation.               *)
RefreshEnds(a) ==
  /\ account[a].refresh \in {"running", "cancelled"}
  /\ account' = [account EXCEPT ![a].refresh = "done"]
  /\ UNCHANGED <<apiKey, entryState, fingerprint, lent, registry, rekeys>>

(* ... and the release goes on: the coordinator and the client close.      *)
Close(e) ==
  /\ entryState[e] = "releasing" /\ account[lent[e]].refresh = "done"
  /\ account' = [account EXCEPT ![lent[e]].open = FALSE]
  /\ entryState' = [entryState EXCEPT ![e] = "unloaded"]
  /\ lent' = [lent EXCEPT ![e] = 0]
  /\ UNCHANGED <<apiKey, fingerprint, registry, rekeys>>

AccountNext ==
  \/ \E e \in Entry : \/ \E k \in Key : Rekey(e, k)
                      \/ Acquire(e) \/ SetupDone(e) \/ UnloadFails(e)
                      \/ Release(e) \/ Close(e)
  \/ \E a \in Account : RefreshEnds(a)

AccountSpec == AccountInit /\ [][AccountNext]_accountVars

-----------------------------------------------------------------------------
Uses(e) == entryState[e] \in {"setup", "loaded", "failed"}

(* An entry that is set up reads from an account that is open and in the   *)
(* registry under the key it acquired, whoever else unloads meanwhile, is  *)
(* given another key or acquires the same one while an account closes; and *)
(* an open account nobody is using is one its last user is closing.        *)
UsersAreServed ==
  /\ \A e \in Entry : Uses(e) => /\ account[lent[e]].open
                                 /\ registry[fingerprint[e]] = lent[e]
  /\ \A a \in Account : account[a].open =>
       \E e \in Entry : lent[e] = a /\ entryState[e] # "unloaded"

(* The registry implements the lease: a key is served from the first       *)
(* acquire to the last release, and closing an account is not seen.        *)
Leases == INSTANCE AccountLease WITH
  lease <- fingerprint,
  serving <- {k \in Key : registry[k] # 0 /\ account[registry[k]].open}

ImplementsLease == Leases!Spec

(* Both: the account an entry leases is the one it reads from.             *)
AccountsAreLeased == ImplementsLease /\ [](AccountTypeOK /\ UsersAreServed)
=============================================================================
