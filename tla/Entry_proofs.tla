---------------------------- MODULE Entry_proofs ----------------------------
(***************************************************************************)
(* Theorems about what config entries share and own: the polling of a      *)
(* Mobility key, the Site Manager accounts, the consoles' identities, the  *)
(* registry rows of sites, ports, rules and clients, and the setup, for    *)
(* any number of entries, keys, consoles, rows and retries, each on its    *)
(* own and, for the parts of MCEntry, together.                            *)
(***************************************************************************)
EXTENDS MCEntry, SweptRows, ClientRows, FiniteSetTheorems, TLAPS

-----------------------------------------------------------------------------
(* MobilityOwner. An entry that polls holds the row of its key, whatever   *)
(* became of its key in the configuration meanwhile; only entries of the   *)
(* registry that are set up poll, so a deleted entry that hands over later *)
(* takes no row from under a poller.                                       *)
PollersHoldTheirRow == \A e \in Remote, k \in CloudKey : polls[e] = k => owners[k] = e
PollersAreSetUp ==
  \A e \in Remote : /\ polls[e] # NoKey => phase[e] # "unloaded"
                    /\ phase[e] # "unloaded" => e \in present

MobilityInv == MobilityTypeOK /\ PollersHoldTheirRow /\ PollersAreSetUp

LEMMA ReleaseKeepsOthers ==
  ASSUME MobilityTypeOK, NEW e \in Remote
  PROVE  /\ Released(e) \in [CloudKey -> 0 .. RemoteEntries]
         /\ \A k \in CloudKey : Released(e)[k] = owners[k] \/ owners[k] = e
BY MobilityAssumption DEF MobilityTypeOK, Released, Remote

LEMMA MobilityInitInv ==
  MobilityInit => MobilityInv
BY MobilityAssumption DEF MobilityInit, MobilityInv, MobilityTypeOK, PollersHoldTheirRow,
   PollersAreSetUp, Remote

(* The rows of the others stay when an entry stops polling.                *)
LEMMA StopsPolling ==
  ASSUME MobilityInv, NEW e \in Remote,
         polls' = [polls EXCEPT ![e] = NoKey],
         owners' = owners \/ owners' = Released(e)
  PROVE  /\ polls' \in [Remote -> CloudKey \cup {NoKey}]
         /\ owners' \in [CloudKey -> 0 .. RemoteEntries]
         /\ PollersHoldTheirRow'
<1>1. polls' \in [Remote -> CloudKey \cup {NoKey}]
  BY DEF MobilityInv, MobilityTypeOK
<1>2. owners' \in [CloudKey -> 0 .. RemoteEntries]
  BY ReleaseKeepsOthers DEF MobilityInv, MobilityTypeOK
<1>3. ASSUME NEW f \in Remote, NEW k \in CloudKey, polls'[f] = k PROVE owners'[k] = f
  <2>1. f # e /\ polls[f] = k
    BY <1>3, MobilityAssumption DEF MobilityInv, MobilityTypeOK
  <2>2. owners[k] = f
    BY <2>1 DEF MobilityInv, PollersHoldTheirRow
  <2>3. QED
    BY <2>1, <2>2, ReleaseKeepsOthers DEF MobilityInv
<1>4. QED
  BY <1>1, <1>2, <1>3 DEF PollersHoldTheirRow


(* A hand-over only schedules entries that are enabled.                    *)
LEMMA HandOverReloads ==
  ASSUME MobilityTypeOK, NEW e \in Remote, HandOver(e)
  PROVE  owners' = Released(e) /\ reload' \subseteq (reload \ {e}) \cup (enabled \ {e})
BY DEF HandOver, Successor

LEMMA UnloadsInv ==
  ASSUME MobilityInv, NEW e \in Remote, Unloads(e)
  PROVE  /\ polls' = [polls EXCEPT ![e] = NoKey]
         /\ phase' = [phase EXCEPT ![e] = "unloaded"]
         /\ owners' = owners \/ owners' = Released(e)
         /\ reload' \subseteq (reload \ {e}) \cup (enabled \ {e})
<1>1. CASE polls[e] # NoKey /\ e \notin enabled /\ HandOver(e)
  BY <1>1, HandOverReloads DEF Unloads, MobilityInv
<1>2. CASE reload' = reload \ {e} /\ owners' = IF polls[e] = NoKey THEN owners ELSE Released(e)
  BY <1>2 DEF Unloads
<1>3. QED
  BY <1>1, <1>2 DEF Unloads

LEMMA MobilityStep ==
  MobilityInv /\ [MobilityNext]_mobilityVars => MobilityInv'
<1> SUFFICES ASSUME MobilityInv, [MobilityNext]_mobilityVars PROVE MobilityInv'
  OBVIOUS
<1> USE MobilityAssumption
<1>1. CASE UNCHANGED mobilityVars
  BY <1>1 DEF mobilityVars, MobilityInv, MobilityTypeOK, PollersHoldTheirRow, PollersAreSetUp
<1>2. ASSUME NEW e \in Remote, Disable(e) PROVE MobilityInv'
  BY <1>2 DEF Disable, MobilityInv, MobilityTypeOK, PollersHoldTheirRow, PollersAreSetUp
<1>3. ASSUME NEW e \in Remote, Enable(e) PROVE MobilityInv'
  BY <1>3 DEF Enable, MobilityInv, MobilityTypeOK, PollersHoldTheirRow, PollersAreSetUp
<1>4. ASSUME NEW e \in Remote, NEW k \in CloudKey, NewKey(e, k) PROVE MobilityInv'
  BY <1>4 DEF NewKey, MobilityInv, MobilityTypeOK, PollersHoldTheirRow, PollersAreSetUp
<1>5. ASSUME NEW e \in Remote, SetUpMobility(e) PROVE MobilityInv'
  <2>1. /\ polls[e] = NoKey /\ e \in present /\ cloudKey[e] \in CloudKey
        /\ phase' = [phase EXCEPT ![e] = "setup"]
    BY <1>5 DEF SetUpMobility, MobilityInv, MobilityTypeOK, PollersAreSetUp
  <2>2. CASE owners' = owners /\ polls' = polls
    BY <1>5, <2>1, <2>2
       DEF SetUpMobility, MobilityInv, MobilityTypeOK, PollersHoldTheirRow, PollersAreSetUp
  <2>3. CASE /\ owners[cloudKey[e]] \in {0, e}
             /\ owners' = [owners EXCEPT ![cloudKey[e]] = e]
             /\ polls' = [polls EXCEPT ![e] = cloudKey[e]]
    <3>1. MobilityTypeOK'
      BY <1>5, <2>1, <2>3 DEF SetUpMobility, MobilityInv, MobilityTypeOK, Remote
    <3>2. PollersAreSetUp'
      BY <1>5, <2>1, <2>3 DEF SetUpMobility, MobilityInv, MobilityTypeOK, PollersAreSetUp
    <3>3. ASSUME NEW f \in Remote, NEW k \in CloudKey, polls'[f] = k PROVE owners'[k] = f
      <4>1. CASE f = e
        BY <2>1, <2>3, <3>3, <4>1 DEF MobilityInv, MobilityTypeOK
      <4>2. CASE f # e
        <5>1. owners[k] = f
          BY <2>3, <3>3, <4>2 DEF MobilityInv, MobilityTypeOK, PollersHoldTheirRow
        <5>2. k # cloudKey[e]
          BY <5>1, <4>2, <2>3 DEF Remote
        <5>3. QED
          BY <5>1, <5>2, <2>1, <2>3 DEF MobilityInv, MobilityTypeOK
      <4>3. QED
        BY <4>1, <4>2
    <3>4. QED
      BY <3>1, <3>2, <3>3 DEF MobilityInv, PollersHoldTheirRow
  <2>4. QED
    BY <1>5, <2>2, <2>3 DEF SetUpMobility, IsOwner
<1>6. ASSUME NEW e \in Remote, SetUpEnds(e) PROVE MobilityInv'
  <2>1. CASE /\ phase' = [phase EXCEPT ![e] = "loaded"] /\ UNCHANGED <<polls, owners>>
    BY <1>6, <2>1
       DEF SetUpEnds, MobilityInv, MobilityTypeOK, PollersHoldTheirRow, PollersAreSetUp
  <2>2. CASE /\ phase' = [phase EXCEPT ![e] = "unloaded"]
             /\ polls' = [polls EXCEPT ![e] = NoKey]
             /\ owners' = IF polls[e] = NoKey THEN owners ELSE Released(e)
    <3>1. /\ polls' \in [Remote -> CloudKey \cup {NoKey}]
          /\ owners' \in [CloudKey -> 0 .. RemoteEntries]
          /\ PollersHoldTheirRow'
      BY <2>2, StopsPolling
    <3>2. MobilityTypeOK'
      BY <1>6, <2>2, <3>1 DEF SetUpEnds, MobilityInv, MobilityTypeOK
    <3>3. PollersAreSetUp'
      BY <1>6, <2>2 DEF SetUpEnds, MobilityInv, MobilityTypeOK, PollersAreSetUp
    <3>4. QED
      BY <3>1, <3>2, <3>3 DEF MobilityInv
  <2>3. QED
    BY <1>6, <2>1, <2>2 DEF SetUpEnds
<1>7. ASSUME NEW e \in Remote, Unload(e) PROVE MobilityInv'
  <2>1. /\ polls' = [polls EXCEPT ![e] = NoKey]
        /\ phase' = [phase EXCEPT ![e] = "unloaded"]
        /\ reload' \subseteq (reload \ {e}) \cup (enabled \ {e})
        /\ owners' = owners \/ owners' = Released(e)
    BY <1>7, UnloadsInv DEF Unload
  <2>2. /\ polls' \in [Remote -> CloudKey \cup {NoKey}]
        /\ owners' \in [CloudKey -> 0 .. RemoteEntries]
        /\ PollersHoldTheirRow'
    BY <2>1, StopsPolling
  <2>3. MobilityTypeOK'
    BY <1>7, <2>1, <2>2 DEF Unload, MobilityInv, MobilityTypeOK
  <2>4. PollersAreSetUp'
    BY <1>7, <2>1 DEF Unload, MobilityInv, MobilityTypeOK, PollersAreSetUp
  <2>5. QED
    BY <2>2, <2>3, <2>4 DEF MobilityInv
<1>8. ASSUME NEW e \in Remote, DropRetry(e) PROVE MobilityInv'
  BY <1>8 DEF DropRetry, MobilityInv, MobilityTypeOK, PollersHoldTheirRow, PollersAreSetUp
<1>9. ASSUME NEW e \in Remote, Delete(e) PROVE MobilityInv'
  <2>1. /\ polls' = [polls EXCEPT ![e] = NoKey]
        /\ phase' = [phase EXCEPT ![e] = "unloaded"]
        /\ reload' \subseteq (reload \ {e}) \cup (enabled \ {e})
        /\ owners' = owners \/ owners' = Released(e)
    <3>1. CASE Unloads(e)
      BY <3>1, UnloadsInv
    <3>2. CASE /\ phase[e] = "unloaded" /\ reload' = reload \ {e}
               /\ UNCHANGED <<phase, polls, owners>>
      BY <3>2 DEF MobilityInv, MobilityTypeOK, PollersAreSetUp
    <3>3. QED
      BY <1>9, <3>1, <3>2 DEF Delete
  <2>2. /\ polls' \in [Remote -> CloudKey \cup {NoKey}]
        /\ owners' \in [CloudKey -> 0 .. RemoteEntries]
        /\ PollersHoldTheirRow'
    BY <2>1, StopsPolling
  <2>3. MobilityTypeOK'
    BY <1>9, <2>1, <2>2 DEF Delete, MobilityInv, MobilityTypeOK
  <2>4. PollersAreSetUp'
    BY <1>9, <2>1 DEF Delete, MobilityInv, MobilityTypeOK, PollersAreSetUp
  <2>5. QED
    BY <2>2, <2>3, <2>4 DEF MobilityInv
<1>10. ASSUME NEW e \in Remote, HandOverAfterRemoval(e) PROVE MobilityInv'
  <2>1. /\ owners' = Released(e) /\ reload' \subseteq (reload \ {e}) \cup (enabled \ {e})
        /\ polls[e] = NoKey
    BY <1>10, HandOverReloads
       DEF HandOverAfterRemoval, MobilityInv, MobilityTypeOK, PollersAreSetUp
  <2>2. polls' = [polls EXCEPT ![e] = NoKey]
    BY <1>10, <2>1 DEF HandOverAfterRemoval, MobilityInv, MobilityTypeOK
  <2>3. owners' \in [CloudKey -> 0 .. RemoteEntries] /\ PollersHoldTheirRow'
    BY <2>1, <2>2, StopsPolling
  <2>4. QED
    BY <1>10, <2>1, <2>3
       DEF HandOverAfterRemoval, MobilityInv, MobilityTypeOK, PollersAreSetUp
<1>11. QED
  BY <1>1, <1>2, <1>3, <1>4, <1>5, <1>6, <1>7, <1>8, <1>9, <1>10 DEF MobilityNext

(* Who polls holds the row of its key (_OWNERS, mobility.py).              *)
THEOREM MobilityInvHolds == MobilitySpec => []MobilityInv
BY MobilityInitInv, MobilityStep, PTL DEF MobilitySpec

(* Two entries never poll Mobility with one key.                           *)
THEOREM OneEntryPolls == MobilitySpec => []OnePoller
<1>1. MobilityInv => OnePoller
  BY DEF MobilityInv, PollersHoldTheirRow, OnePoller
<1>2. QED
  BY <1>1, MobilityInvHolds, PTL


(* A step changes what at most one entry polls with: a key nobody held, or *)
(* none.                                                                   *)
LEMMA OneEntryChanges ==
  ASSUME MobilityInv, [MobilityNext]_mobilityVars
  PROVE  \/ polls' = polls
         \/ \E e \in Remote : polls' = [polls EXCEPT ![e] = NoKey]
         \/ \E e \in Remote, k \in CloudKey :
              polls[e] = NoKey /\ owners[k] \in {0, e} /\ polls' = [polls EXCEPT ![e] = k]
<1>1. CASE UNCHANGED mobilityVars
  BY <1>1 DEF mobilityVars
<1>2. ASSUME NEW e \in Remote, SetUpMobility(e)
      PROVE  \/ polls' = polls
             \/ \E k \in CloudKey :
                  polls[e] = NoKey /\ owners[k] \in {0, e} /\ polls' = [polls EXCEPT ![e] = k]
  <2>1. polls[e] = NoKey /\ cloudKey[e] \in CloudKey
    BY <1>2 DEF SetUpMobility, MobilityInv, MobilityTypeOK, PollersAreSetUp
  <2>2. QED
    BY <1>2, <2>1 DEF SetUpMobility, IsOwner
<1>3. ASSUME NEW e \in Remote,
             SetUpEnds(e) \/ Unload(e) \/ Delete(e) \/ DropRetry(e) \/ HandOverAfterRemoval(e)
               \/ Disable(e) \/ Enable(e) \/ \E k \in CloudKey : NewKey(e, k)
      PROVE  polls' = polls \/ polls' = [polls EXCEPT ![e] = NoKey]
  BY <1>3
     DEF SetUpEnds, Unload, Delete, Unloads, DropRetry, HandOverAfterRemoval, Disable, Enable, NewKey
<1>4. QED
  BY <1>1, <1>2, <1>3 DEF MobilityNext

LEMMA MobilityRefines ==
  ASSUME MobilityInv, [MobilityNext]_mobilityVars
  PROVE  [Owners!Next]_PollersOf
<1> USE MobilityAssumption
<1>0. polls \in [Remote -> CloudKey \cup {NoKey}]
  BY DEF MobilityInv, MobilityTypeOK
<1>1. CASE polls' = polls
  BY <1>1 DEF PollersOf
<1>2. ASSUME NEW e \in Remote, polls' = [polls EXCEPT ![e] = NoKey]
      PROVE  [Owners!Next]_PollersOf
  <2>1. CASE polls[e] = NoKey
    BY <1>0, <1>2, <2>1 DEF PollersOf
  <2>2. CASE polls[e] # NoKey
    <3> DEFINE k == polls[e]
    <3>1. k \in CloudKey
      BY <1>0, <2>2
    <3>2. PollersOf[k] = {e}
      BY <3>1 DEF PollersOf, MobilityInv, PollersHoldTheirRow
    <3>3. PollersOf' = [PollersOf EXCEPT ![k] = {}]
      <4>1. ASSUME NEW j \in CloudKey
            PROVE  {f \in Remote : polls'[f] = j} = IF j = k THEN {} ELSE {f \in Remote : polls[f] = j}
        <5>1. \A f \in Remote : polls'[f] = IF f = e THEN NoKey ELSE polls[f]
          BY <1>0, <1>2
        <5>2. \A f \in Remote : polls[f] = k => f = e
          BY <3>1, <3>2 DEF PollersOf
        <5>3. QED
          BY <5>1, <5>2
      <4>2. QED
        BY <4>1, <3>1 DEF PollersOf
    <3>4. Owners!Leave(k)
      BY <3>2, <3>3 DEF Owners!Leave
    <3>5. QED
      BY <3>1, <3>4 DEF Owners!Next
  <2>3. QED
    BY <2>1, <2>2
<1>3. ASSUME NEW e \in Remote, NEW k \in CloudKey, polls[e] = NoKey, owners[k] \in {0, e},
             polls' = [polls EXCEPT ![e] = k]
      PROVE  [Owners!Next]_PollersOf
  <2>1. \A f \in Remote : polls[f] # k
    BY <1>3 DEF MobilityInv, PollersHoldTheirRow, Remote
  <2>2. PollersOf[k] = {}
    BY <2>1 DEF PollersOf
  <2>3. PollersOf' = [PollersOf EXCEPT ![k] = {e}]
    <3>1. ASSUME NEW j \in CloudKey
          PROVE  {f \in Remote : polls'[f] = j} = IF j = k THEN {e} ELSE {f \in Remote : polls[f] = j}
      <4>1. \A f \in Remote : polls'[f] = IF f = e THEN k ELSE polls[f]
        BY <1>0, <1>3
      <4>2. QED
        BY <4>1, <2>1, <1>3
    <3>2. QED
      BY <3>1 DEF PollersOf
  <2>4. Owners!Take({e}, k)
    BY <2>2, <2>3 DEF Owners!Take
  <2>5. QED
    BY <2>4 DEF Owners!Next
<1>4. QED
  BY <1>1, <1>2, <1>3, OneEntryChanges

(* Mobility ownership implements its promise: one poller a key, and a key  *)
(* changes hands only through nobody.                                      *)
THEOREM MobilityImplements == MobilitySpec => ImplementsSolePoller
<1>1. MobilityInit => Owners!Init
  BY MobilityAssumption DEF MobilityInit, Owners!Init, PollersOf
<1>2. MobilityInv /\ [MobilityNext]_mobilityVars => [Owners!Next]_PollersOf
  BY MobilityRefines
<1>3. QED
  BY <1>1, <1>2, MobilityInvHolds, PTL DEF MobilitySpec, ImplementsSolePoller, Owners!Spec

-----------------------------------------------------------------------------
(* SharedAccount. The entries that use an account hold a fingerprint, whose*)
(* row leads to the account and which has them as users; an account in the *)
(* registry is open and has users; one being released is not in it.        *)
UsersHoldAccounts ==
  \A e \in Entry :
    /\ fingerprint[e] # None <=> Uses(e)
    /\ Uses(e) => /\ lent[e] \in Account
                  /\ registry[fingerprint[e]] = lent[e]
                  /\ e \in account[lent[e]].users
    /\ entryState[e] = "releasing" => /\ lent[e] \in Account /\ Made(lent[e])
                                      /\ \A k \in Key : registry[k] # lent[e]

RowsHaveUsers ==
  \A k \in Key : registry[k] # 0 =>
    /\ account[registry[k]].open /\ Made(registry[k])
    /\ account[registry[k]].users # {}
    /\ \A l \in Key : registry[l] = registry[k] => l = k

AccountsHaveUsers ==
  \A a \in Account :
    /\ \A e \in account[a].users : Uses(e) /\ lent[e] = a
    /\ account[a].open => Made(a) /\ \E e \in Entry : lent[e] = a /\ entryState[e] # "unloaded"

LeaseInv == AccountTypeOK /\ UsersHoldAccounts /\ RowsHaveUsers /\ AccountsHaveUsers

LEMMA AcquireKeepsLease ==
  ASSUME LeaseInv, NEW e \in Entry, Acquire(e)
  PROVE  LeaseInv' /\ Leases!Take(e, apiKey[e])
<1>. USE SharedAssumption
<1>. DEFINE k == apiKey[e]
<1>1. PICK a \in Account : (Joins(e, a) \/ Creates(e, a)) /\ lent' = [lent EXCEPT ![e] = a]
  BY DEF Acquire
<1>2. /\ entryState[e] = "unloaded" /\ k \in Key /\ k # None
      /\ fingerprint' = [fingerprint EXCEPT ![e] = k]
      /\ entryState' = [entryState EXCEPT ![e] = "setup"]
      /\ UNCHANGED <<apiKey, rekeys>>
  BY DEF Acquire, LeaseInv, AccountTypeOK
<1>3. /\ a # 0 /\ a \in 0 .. MaxAccounts /\ ~Uses(e) /\ fingerprint[e] = None
  BY <1>2 DEF Account, Uses, LeaseInv, UsersHoldAccounts
<1>4. /\ fingerprint'[e] = k /\ entryState'[e] = "setup" /\ lent'[e] = a
      /\ \A f \in Entry : f # e => /\ fingerprint'[f] = fingerprint[f]
                                   /\ entryState'[f] = entryState[f] /\ lent'[f] = lent[f]
  BY <1>1, <1>2, <1>3 DEF LeaseInv, AccountTypeOK
<1>5. /\ registry' \in [Key -> 0 .. MaxAccounts]
      /\ registry'[k] = a /\ \A l \in Key : l # k => registry'[l] = registry[l]
      /\ \A l \in Key : l # k => registry[l] # a
      /\ e \in account'[a].users /\ account'[a].users \subseteq account[a].users \cup {e}
      /\ account[a].users \subseteq account'[a].users
      /\ account'[a].open /\ account'[a].refresh # "none"
      /\ \A b \in Account : b # a => account'[b] = account[b]
      /\ registry[k] \in {0, a} /\ (registry[k] = 0 => ~Made(a))
      /\ account' \in [Account -> [users : SUBSET Entry, open : BOOLEAN,
                                   refresh : {"none", "running", "cancelled", "done"}]]
  <2>1. CASE Joins(e, a)
    <3>. DEFINE joined == [account[a] EXCEPT !.users = @ \cup {e}]
    <3>1. registry[k] = a /\ registry' = registry /\ account' = [account EXCEPT ![a] = joined]
      BY <2>1 DEF Joins
    <3>2. /\ account[a].open /\ account[a].refresh # "none" /\ a \in Account
          /\ \A l \in Key : l # k => registry[l] # a
      BY <1>2, <1>3, <3>1 DEF LeaseInv, RowsHaveUsers, Made, Account
    <3>3. /\ joined \in [users : SUBSET Entry, open : BOOLEAN,
                         refresh : {"none", "running", "cancelled", "done"}]
          /\ joined.users = account[a].users \cup {e} /\ joined.open = account[a].open
          /\ joined.refresh = account[a].refresh
      BY <3>2 DEF LeaseInv, AccountTypeOK
    <3>4. account'[a] = joined /\ \A b \in Account : b # a => account'[b] = account[b]
      BY <3>1, <3>2 DEF LeaseInv, AccountTypeOK
    <3>5. account' \in [Account -> [users : SUBSET Entry, open : BOOLEAN,
                                   refresh : {"none", "running", "cancelled", "done"}]]
      BY <3>1, <3>3 DEF LeaseInv, AccountTypeOK
    <3>. QED
      BY <1>2, <1>3, <3>1, <3>2, <3>3, <3>4, <3>5 DEF LeaseInv, AccountTypeOK
  <2>2. CASE Creates(e, a)
    <3>1. /\ registry[k] = 0 /\ registry' = [registry EXCEPT ![k] = a] /\ ~Made(a)
          /\ account' = [account EXCEPT ![a] = [users |-> {e}, refresh |-> "running", open |-> TRUE]]
          /\ \A l \in Key : l # k => registry[l] # a
      BY <1>2, <1>3, <2>2 DEF Creates, LeaseInv, RowsHaveUsers, AccountTypeOK
    <3>2. account[a].users = {}
      BY <1>3, <3>1 DEF LeaseInv, AccountsHaveUsers, UsersHoldAccounts, RowsHaveUsers, AccountTypeOK,
                        Uses
    <3>. QED
      BY <1>2, <1>3, <3>1, <3>2 DEF LeaseInv, AccountTypeOK
  <2>. QED
    BY <1>1, <2>1, <2>2
<1>6. AccountTypeOK'
  BY <1>1, <1>2, <1>3, <1>5 DEF LeaseInv, AccountTypeOK
<1>7. \A f \in Entry : f # e /\ entryState[f] = "releasing" => lent[f] # a
  BY <1>5, <1>2 DEF LeaseInv, UsersHoldAccounts
<1>8. UsersHoldAccounts'
  <2>1. ASSUME NEW f \in Entry, f # e
        PROVE /\ fingerprint'[f] # None <=> Uses(f)'
              /\ Uses(f)' => /\ lent'[f] \in Account
                             /\ registry'[fingerprint'[f]] = lent'[f]
                             /\ f \in account'[lent'[f]].users
              /\ entryState'[f] = "releasing" => /\ lent'[f] \in Account /\ Made(lent[f])'
                                                 /\ \A l \in Key : registry'[l] # lent'[f]
    <3>1. (Uses(f)' <=> Uses(f)) /\ fingerprint[f] \in Key \cup {None}
      BY <1>4, <2>1 DEF Uses, LeaseInv, AccountTypeOK
    <3>2. Uses(f) => /\ lent[f] \in Account /\ registry[fingerprint[f]] = lent[f]
                     /\ f \in account[lent[f]].users /\ fingerprint[f] \in Key
      BY <2>1, <3>1 DEF LeaseInv, UsersHoldAccounts
    <3>3. Uses(f) => registry'[fingerprint[f]] = lent[f] /\ f \in account'[lent[f]].users
      BY <1>5, <3>2 DEF Account
    <3>4. entryState[f] = "releasing" =>
             /\ lent[f] \in Account /\ Made(lent[f]) /\ lent[f] # a
             /\ \A l \in Key : registry[l] # lent[f]
      BY <1>7, <2>1 DEF LeaseInv, UsersHoldAccounts
    <3>5. entryState[f] = "releasing" => account'[lent[f]].refresh # "none"
      BY <1>5, <3>4 DEF Made
    <3>6. entryState[f] = "releasing" => \A l \in Key : registry'[l] # lent[f]
      BY <1>5, <3>4
    <3>7. fingerprint[f] # None <=> Uses(f)
      BY <2>1 DEF LeaseInv, UsersHoldAccounts
    <3>. QED
      BY <1>4, <2>1, <3>1, <3>2, <3>3, <3>4, <3>5, <3>6, <3>7 DEF Made
  <2>2. /\ fingerprint'[e] # None <=> Uses(e)'
        /\ Uses(e)' => /\ lent'[e] \in Account
                       /\ registry'[fingerprint'[e]] = lent'[e]
                       /\ e \in account'[lent'[e]].users
        /\ entryState'[e] # "releasing"
    BY <1>2, <1>4, <1>5 DEF Uses
  <2>. QED
    BY <2>1, <2>2 DEF UsersHoldAccounts
<1>9. RowsHaveUsers'
  <2>1. ASSUME NEW l \in Key, registry'[l] # 0
        PROVE /\ account'[registry'[l]].open /\ account'[registry'[l]].refresh # "none"
              /\ account'[registry'[l]].users # {}
              /\ \A m \in Key : registry'[m] = registry'[l] => m = l
    <3>1. CASE l = k
      BY <1>5, <2>1, <3>1
    <3>2. CASE l # k
      BY <1>5, <2>1, <3>2 DEF LeaseInv, RowsHaveUsers, Made, AccountTypeOK, Account
    <3>. QED
      BY <3>1, <3>2
  <2>. QED
    BY <2>1 DEF RowsHaveUsers, Made
<1>10. AccountsHaveUsers'
  <2>1. ASSUME NEW b \in Account
        PROVE /\ \A f \in account'[b].users : Uses(f)' /\ lent'[f] = b
              /\ account'[b].open => account'[b].refresh # "none"
                                     /\ \E f \in Entry : lent'[f] = b /\ entryState'[f] # "unloaded"
    <3>1. \A f \in account[b].users : f \in Entry /\ Uses(f) /\ lent[f] = b /\ f # e
      BY <1>3, <2>1 DEF LeaseInv, AccountsHaveUsers, AccountTypeOK
    <3>2. \A f \in account[b].users : Uses(f)' /\ lent'[f] = b
      BY <1>4, <3>1 DEF Uses
    <3>3. CASE b = a
      BY <1>4, <1>5, <3>2, <3>3 DEF Uses
    <3>4. CASE b # a
      <4>1. account[b].open => Made(b) /\ \E f \in Entry : lent[f] = b /\ entryState[f] # "unloaded"
        BY <2>1 DEF LeaseInv, AccountsHaveUsers
      <4>2. account[b].open => \E f \in Entry : lent'[f] = b /\ entryState'[f] # "unloaded"
        BY <1>2, <1>4, <4>1
      <4>. QED
        BY <1>5, <2>1, <3>2, <3>4, <4>1, <4>2 DEF Made
    <3>. QED
      BY <3>3, <3>4
  <2>. QED
    BY <2>1 DEF AccountsHaveUsers, Made
<1>11. {l \in Key : registry'[l] # 0 /\ account'[registry'[l]].open}
         = {l \in Key : registry[l] # 0 /\ account[registry[l]].open} \cup {k}
  BY <1>2, <1>3, <1>5, <1>9 DEF RowsHaveUsers, LeaseInv
<1>. QED
  BY <1>2, <1>3, <1>6, <1>8, <1>9, <1>10, <1>11 DEF LeaseInv, Leases!Take

LEMMA ReleaseKeepsLease ==
  ASSUME LeaseInv, NEW e \in Entry, Release(e)
  PROVE  LeaseInv' /\ Leases!Give(e)
<1>. USE SharedAssumption
<1>. DEFINE k == fingerprint[e]
            AccountState == [users : SUBSET Entry, open : BOOLEAN,
                             refresh : {"none", "running", "cancelled", "done"}]
<1>1. PICK a \in Account : a = registry[k] /\ (LeavesOthers(e, a) \/ LastLeaves(e, a))
  BY DEF Release
<1>2. /\ Uses(e) /\ k \in Key /\ k # None
      /\ fingerprint' = [fingerprint EXCEPT ![e] = None]
      /\ UNCHANGED <<apiKey, rekeys>>
  BY DEF Release, Uses, LeaseInv, UsersHoldAccounts, AccountTypeOK
<1>3. /\ a # 0 /\ lent[e] = a /\ e \in account[a].users /\ account[a].open
      /\ account[a].refresh # "none" /\ account[a] \in AccountState
      /\ \A l \in Key : registry[l] = a => l = k
  <2>1. a \in Account /\ a # 0 /\ lent[e] = a /\ e \in account[a].users
    BY <1>1, <1>2 DEF Account, LeaseInv, UsersHoldAccounts
  <2>2. account[a] \in AccountState
    BY <2>1 DEF LeaseInv, AccountTypeOK
  <2>3. registry[k] # 0 => /\ account[registry[k]].open /\ account[registry[k]].refresh # "none"
                           /\ \A l \in Key : registry[l] = registry[k] => l = k
    BY <1>2 DEF LeaseInv, RowsHaveUsers, Made
  <2>. QED
    BY <1>1, <2>1, <2>2, <2>3
<1>4. \A f \in Entry : Uses(f) =>
        /\ fingerprint[f] \in Key /\ lent[f] \in Account
        /\ registry[fingerprint[f]] = lent[f] /\ f \in account[lent[f]].users
        /\ lent[f] = a => fingerprint[f] = k
  BY <1>3 DEF LeaseInv, UsersHoldAccounts, AccountTypeOK
<1>5. fingerprint'[e] = None /\ \A f \in Entry : f # e => fingerprint'[f] = fingerprint[f]
  BY <1>2 DEF LeaseInv, AccountTypeOK
<1>6. {l \in Key : registry[l] # 0 /\ account[registry[l]].open} = {l \in Key : registry[l] # 0}
  BY DEF LeaseInv, RowsHaveUsers
<1>7. CASE LeavesOthers(e, a)
  <2>. DEFINE left == [account[a] EXCEPT !.users = @ \ {e}]
  <2>1. /\ account[a].users # {e} /\ account' = [account EXCEPT ![a] = left]
        /\ entryState' = [entryState EXCEPT ![e] = "unloaded"]
        /\ lent' = [lent EXCEPT ![e] = 0] /\ registry' = registry
    BY <1>7 DEF LeavesOthers
  <2>2. /\ left \in AccountState /\ left.users = account[a].users \ {e} /\ left.open
        /\ left.refresh = account[a].refresh
    BY <1>3
  <2>3. /\ account'[a] = left /\ \A b \in Account : b # a => account'[b] = account[b]
        /\ account' \in [Account -> AccountState]
    BY <2>1, <2>2 DEF LeaseInv, AccountTypeOK
  <2>4. /\ entryState'[e] = "unloaded" /\ lent'[e] = 0
        /\ \A f \in Entry : f # e => entryState'[f] = entryState[f] /\ lent'[f] = lent[f]
    BY <2>1 DEF LeaseInv, AccountTypeOK
  <2>5. PICK other \in account[a].users : other # e
    BY <1>3, <2>1
  <2>6. other \in Entry /\ Uses(other) /\ lent[other] = a /\ fingerprint[other] = k
    BY <1>3, <1>4 DEF LeaseInv, AccountsHaveUsers
  <2>7. AccountTypeOK'
    BY <1>2, <2>1, <2>3 DEF LeaseInv, AccountTypeOK
  <2>8. UsersHoldAccounts'
    <3>1. ASSUME NEW f \in Entry, f # e
          PROVE /\ fingerprint'[f] # None <=> Uses(f)'
                /\ Uses(f)' => /\ lent'[f] \in Account /\ registry'[fingerprint'[f]] = lent'[f]
                               /\ f \in account'[lent'[f]].users
                /\ entryState'[f] = "releasing" => /\ lent'[f] \in Account
                                                   /\ account'[lent'[f]].refresh # "none"
                                                   /\ \A l \in Key : registry'[l] # lent'[f]
      <4>1. (Uses(f)' <=> Uses(f)) /\ lent'[f] = lent[f] /\ fingerprint'[f] = fingerprint[f]
        BY <1>5, <2>4, <3>1 DEF Uses
      <4>2. \A b \in Account : account'[b].refresh = account[b].refresh
                               /\ (f \in account[b].users => f \in account'[b].users)
        BY <2>2, <2>3, <3>1
      <4>. QED
        BY <2>1, <2>4, <3>1, <4>1, <4>2 DEF LeaseInv, UsersHoldAccounts, Made
    <3>2. fingerprint'[e] = None /\ ~Uses(e)' /\ entryState'[e] # "releasing"
      BY <1>5, <2>4 DEF Uses
    <3>. QED
      BY <3>1, <3>2 DEF UsersHoldAccounts, Made
  <2>9. RowsHaveUsers'
    <3>1. \A b \in Account : /\ account'[b].refresh = account[b].refresh
                             /\ account'[b].open = account[b].open
                             /\ account[b].users # {} => account'[b].users # {}
      BY <1>3, <2>2, <2>3, <2>5
    <3>. QED
      BY <2>1, <3>1 DEF LeaseInv, RowsHaveUsers, Made, AccountTypeOK, Account
  <2>10. AccountsHaveUsers'
    <3>1. ASSUME NEW b \in Account
          PROVE /\ \A f \in account'[b].users : Uses(f)' /\ lent'[f] = b
                /\ account'[b].open => /\ account'[b].refresh # "none"
                                       /\ \E f \in Entry : lent'[f] = b /\ entryState'[f] # "unloaded"
      <4>1. account'[b].users \subseteq account[b].users \ {e}
        BY <1>3, <2>2, <2>3 DEF LeaseInv, AccountsHaveUsers
      <4>2. \A f \in account[b].users : f \in Entry /\ Uses(f) /\ lent[f] = b
        BY DEF LeaseInv, AccountsHaveUsers, AccountTypeOK
      <4>3. \A f \in account'[b].users : Uses(f)' /\ lent'[f] = b
        BY <2>4, <4>1, <4>2 DEF Uses
      <4>4. account'[b].open = account[b].open /\ account'[b].refresh = account[b].refresh
        BY <1>3, <2>2, <2>3
      <4>5. account[b].open => /\ account[b].refresh # "none"
                               /\ \E f \in Entry : lent[f] = b /\ entryState[f] # "unloaded"
        BY DEF LeaseInv, AccountsHaveUsers, Made
      <4>6. b = a => lent'[other] = b /\ entryState'[other] # "unloaded"
        BY <2>4, <2>5, <2>6 DEF Uses
      <4>7. b # a => \A f \in Entry : lent[f] = b => f # e
        BY <1>3
      <4>. QED
        BY <2>4, <2>6, <4>3, <4>4, <4>5, <4>6, <4>7
    <3>. QED
      BY <3>1 DEF AccountsHaveUsers, Made
  <2>11. {l \in Key : registry'[l] # 0 /\ account'[registry'[l]].open}
           = {l \in Key : registry[l] # 0 /\ account[registry[l]].open}
    BY <1>6, <2>1, <2>9 DEF RowsHaveUsers
  <2>12. \E f \in Entry \ {e} : fingerprint[f] = fingerprint[e]
    BY <2>5, <2>6
  <2>. QED
    BY <1>2, <2>7, <2>8, <2>9, <2>10, <2>11, <2>12 DEF LeaseInv, Leases!Give
<1>8. CASE LastLeaves(e, a)
  <2>. DEFINE left == [account[a] EXCEPT !.users = {},
                                         !.refresh = IF @ = "running" THEN "cancelled" ELSE @]
  <2>1. /\ account[a].users = {e} /\ account' = [account EXCEPT ![a] = left]
        /\ entryState' = [entryState EXCEPT ![e] = "releasing"]
        /\ lent' = lent /\ registry' = [registry EXCEPT ![k] = 0]
    BY <1>8 DEF LastLeaves
  <2>2. /\ left \in AccountState /\ left.users = {} /\ left.open /\ left.refresh # "none"
    BY <1>3
  <2>3. /\ account'[a] = left /\ \A b \in Account : b # a => account'[b] = account[b]
        /\ account' \in [Account -> AccountState]
    BY <2>1, <2>2 DEF LeaseInv, AccountTypeOK
  <2>4. /\ entryState'[e] = "releasing"
        /\ \A f \in Entry : f # e => entryState'[f] = entryState[f]
    BY <2>1 DEF LeaseInv, AccountTypeOK
  <2>5. /\ registry' \in [Key -> 0 .. MaxAccounts] /\ registry'[k] = 0
        /\ \A l \in Key : l # k => registry'[l] = registry[l] /\ registry[l] # a
    BY <1>2, <1>3, <2>1 DEF LeaseInv, AccountTypeOK
  <2>6. \A f \in Entry : Uses(f) /\ f # e => lent[f] # a /\ fingerprint[f] # k
    BY <1>1, <1>4, <2>1
  <2>7. AccountTypeOK'
    BY <1>2, <2>1, <2>3, <2>5 DEF LeaseInv, AccountTypeOK
  <2>8. UsersHoldAccounts'
    <3>1. ASSUME NEW f \in Entry, f # e
          PROVE /\ fingerprint'[f] # None <=> Uses(f)'
                /\ Uses(f)' => /\ lent'[f] \in Account /\ registry'[fingerprint'[f]] = lent'[f]
                               /\ f \in account'[lent'[f]].users
                /\ entryState'[f] = "releasing" => /\ lent'[f] \in Account
                                                   /\ account'[lent'[f]].refresh # "none"
                                                   /\ \A l \in Key : registry'[l] # lent'[f]
      <4>1. (Uses(f)' <=> Uses(f)) /\ lent'[f] = lent[f] /\ fingerprint'[f] = fingerprint[f]
        BY <1>5, <2>1, <2>4, <3>1 DEF Uses
      <4>2. fingerprint[f] # None <=> Uses(f)
        BY DEF LeaseInv, UsersHoldAccounts
      <4>3. Uses(f) => /\ lent[f] \in Account /\ registry'[fingerprint[f]] = lent[f]
                       /\ f \in account'[lent[f]].users
        BY <1>4, <2>3, <2>5, <2>6, <3>1
      <4>4. entryState[f] = "releasing" => /\ lent[f] \in Account
                                           /\ account[lent[f]].refresh # "none"
                                           /\ \A l \in Key : registry[l] # lent[f]
        BY DEF LeaseInv, UsersHoldAccounts, Made
      <4>5. entryState[f] = "releasing" => /\ account'[lent[f]].refresh # "none"
                                           /\ \A l \in Key : registry'[l] # lent[f]
        <5>1. entryState[f] = "releasing" => account'[lent[f]].refresh # "none"
          BY <2>2, <2>3, <4>4
        <5>2. entryState[f] = "releasing" => lent[f] # 0
          BY <4>4 DEF Account
        <5>. QED
          BY <2>5, <4>4, <5>1, <5>2
      <4>. QED
        BY <2>4, <3>1, <4>1, <4>2, <4>3, <4>4, <4>5
    <3>2. fingerprint'[e] = None /\ ~Uses(e)'
      BY <1>5, <2>4 DEF Uses
    <3>3. /\ lent'[e] \in Account /\ account'[lent'[e]].refresh # "none"
          /\ \A l \in Key : registry'[l] # lent'[e]
      BY <1>3, <2>1, <2>2, <2>3, <2>5
    <3>. QED
      BY <3>1, <3>2, <3>3 DEF UsersHoldAccounts, Made
  <2>9. RowsHaveUsers'
    BY <2>3, <2>5 DEF LeaseInv, RowsHaveUsers, Made, AccountTypeOK, Account
  <2>10. AccountsHaveUsers'
    <3>1. ASSUME NEW b \in Account
          PROVE /\ \A f \in account'[b].users : Uses(f)' /\ lent'[f] = b
                /\ account'[b].open => /\ account'[b].refresh # "none"
                                       /\ \E f \in Entry : lent'[f] = b /\ entryState'[f] # "unloaded"
      <4>1. CASE b = a
        BY <1>3, <2>1, <2>2, <2>3, <2>4, <4>1
      <4>2. CASE b # a
        <5>1. \A f \in account[b].users : f \in Entry /\ Uses(f) /\ lent[f] = b /\ f # e
          BY <1>3, <4>2 DEF LeaseInv, AccountsHaveUsers, AccountTypeOK
        <5>2. account[b].open => /\ account[b].refresh # "none"
                                 /\ \E f \in Entry : lent[f] = b /\ entryState[f] # "unloaded"
          BY DEF LeaseInv, AccountsHaveUsers, Made
        <5>3. \A f \in account[b].users : Uses(f)'
          BY <2>4, <5>1 DEF Uses
        <5>. QED
          BY <2>1, <2>3, <2>4, <4>2, <5>1, <5>2, <5>3
      <4>. QED
        BY <4>1, <4>2
    <3>. QED
      BY <3>1 DEF AccountsHaveUsers, Made
  <2>11. {l \in Key : registry'[l] # 0 /\ account'[registry'[l]].open}
           = {l \in Key : registry[l] # 0 /\ account[registry[l]].open} \ {k}
    <3>1. {l \in Key : registry'[l] # 0 /\ account'[registry'[l]].open} = {l \in Key : registry'[l] # 0}
      BY <2>9 DEF RowsHaveUsers
    <3>. QED
      BY <1>6, <2>5, <3>1
  <2>12. ~ \E f \in Entry \ {e} : fingerprint[f] = fingerprint[e]
    BY <1>2, <2>6 DEF LeaseInv, UsersHoldAccounts
  <2>. QED
    BY <1>2, <2>7, <2>8, <2>9, <2>10, <2>11, <2>12 DEF LeaseInv, Leases!Give
<1>. QED
  BY <1>1, <1>7, <1>8

(* The steps that the lease does not see.                                  *)
LEMMA OtherStepsKeepLease ==
  ASSUME LeaseInv, AccountNext \/ UNCHANGED accountVars,
         \A e \in Entry : ~Acquire(e) /\ ~Release(e)
  PROVE  /\ LeaseInv' /\ fingerprint' = fingerprint
         /\ {l \in Key : registry'[l] # 0 /\ account'[registry'[l]].open}
              = {l \in Key : registry[l] # 0 /\ account[registry[l]].open}
<1>. USE SharedAssumption
<1>. DEFINE Served == {l \in Key : registry[l] # 0 /\ account[registry[l]].open}
            AccountState == [users : SUBSET Entry, open : BOOLEAN,
                             refresh : {"none", "running", "cancelled", "done"}]
<1>1. ASSUME NEW e \in Entry, NEW k \in Key, Rekey(e, k)
      PROVE LeaseInv' /\ fingerprint' = fingerprint /\ Served' = Served
  <2>1. /\ rekeys' \in 0 .. MaxRekeys /\ apiKey' \in [Entry -> Key]
        /\ UNCHANGED <<entryState, fingerprint, lent, registry, account>>
    BY <1>1 DEF Rekey, LeaseInv, AccountTypeOK
  <2>. QED
    BY <2>1
    DEF LeaseInv, AccountTypeOK, UsersHoldAccounts, RowsHaveUsers, AccountsHaveUsers, Uses, Made
<1>2. ASSUME NEW e \in Entry, NEW state \in {"loaded", "failed"}, Uses(e),
             entryState' = [entryState EXCEPT ![e] = state],
             UNCHANGED <<apiKey, fingerprint, lent, registry, account, rekeys>>
      PROVE LeaseInv' /\ fingerprint' = fingerprint /\ Served' = Served
  <2>1. /\ entryState'[e] = state
        /\ \A f \in Entry : f # e => entryState'[f] = entryState[f]
    BY <1>2 DEF LeaseInv, AccountTypeOK
  <2>2. \A f \in Entry : (Uses(f)' <=> Uses(f))
                         /\ (entryState'[f] = "releasing" => entryState[f] = "releasing")
                         /\ (entryState[f] # "unloaded" => entryState'[f] # "unloaded")
    BY <1>2, <2>1 DEF Uses
  <2>3. AccountTypeOK'
    BY <1>2 DEF LeaseInv, AccountTypeOK
  <2>4. UsersHoldAccounts' /\ RowsHaveUsers'
    BY <1>2, <2>2 DEF LeaseInv, UsersHoldAccounts, RowsHaveUsers, Made
  <2>5. AccountsHaveUsers'
    BY <1>2, <2>2 DEF LeaseInv, AccountTypeOK, AccountsHaveUsers, Made
  <2>. QED
    BY <1>2, <2>3, <2>4, <2>5 DEF LeaseInv
<1>3. ASSUME NEW a \in Account, RefreshEnds(a)
      PROVE LeaseInv' /\ fingerprint' = fingerprint /\ Served' = Served
  <2>. DEFINE ended == [account[a] EXCEPT !.refresh = "done"]
  <2>1. /\ account[a].refresh \in {"running", "cancelled"} /\ account' = [account EXCEPT ![a] = ended]
        /\ UNCHANGED <<apiKey, entryState, fingerprint, lent, registry, rekeys>>
    BY <1>3 DEF RefreshEnds
  <2>2. ended \in AccountState /\ account \in [Account -> AccountState]
    BY DEF LeaseInv, AccountTypeOK
  <2>3. account' \in [Account -> AccountState]
    BY <2>1, <2>2
  <2>4. \A b \in Account : /\ account'[b].users = account[b].users /\ account'[b].open = account[b].open
                           /\ account[b].refresh # "none" => account'[b].refresh # "none"
    BY <2>1, <2>2
  <2>5. AccountTypeOK'
    BY <2>1, <2>3 DEF LeaseInv, AccountTypeOK
  <2>6. UsersHoldAccounts'
    BY <2>1, <2>4 DEF LeaseInv, UsersHoldAccounts, Made, Uses
  <2>7. \A l \in Key : registry[l] # 0 => registry[l] \in Account
    BY DEF LeaseInv, AccountTypeOK, Account
  <2>8. RowsHaveUsers'
    BY <2>1, <2>4, <2>7 DEF LeaseInv, RowsHaveUsers, Made
  <2>9. AccountsHaveUsers'
    BY <2>1, <2>4 DEF LeaseInv, AccountsHaveUsers, Made, Uses
  <2>10. Served' = Served
    BY <2>1, <2>4, <2>7
  <2>. QED
    BY <2>1, <2>5, <2>6, <2>8, <2>9, <2>10 DEF LeaseInv
<1>4. ASSUME NEW e \in Entry, Close(e)
      PROVE LeaseInv' /\ fingerprint' = fingerprint /\ Served' = Served
  <2>. DEFINE a == lent[e]
              closed == [account[a] EXCEPT !.open = FALSE]
  <2>1. /\ entryState[e] = "releasing" /\ account' = [account EXCEPT ![a] = closed]
        /\ entryState' = [entryState EXCEPT ![e] = "unloaded"] /\ lent' = [lent EXCEPT ![e] = 0]
        /\ UNCHANGED <<apiKey, fingerprint, registry, rekeys>>
    BY <1>4 DEF Close
  <2>2. a \in Account /\ account[a].refresh # "none" /\ \A l \in Key : registry[l] # a
    BY <2>1 DEF LeaseInv, UsersHoldAccounts, Made
  <2>3. closed \in AccountState /\ account \in [Account -> AccountState]
    BY <2>2 DEF LeaseInv, AccountTypeOK
  <2>4. account' \in [Account -> AccountState]
    BY <2>1, <2>3
  <2>5. /\ \A b \in Account : account'[b].users = account[b].users
                              /\ account'[b].refresh = account[b].refresh
        /\ \A b \in Account : b # a => account'[b].open = account[b].open
        /\ ~account'[a].open
    BY <2>1, <2>2, <2>3
  <2>6. /\ entryState'[e] = "unloaded" /\ lent'[e] = 0 /\ ~Uses(e) /\ fingerprint[e] = None
        /\ \A f \in Entry : f # e => entryState'[f] = entryState[f] /\ lent'[f] = lent[f]
    BY <2>1 DEF LeaseInv, AccountTypeOK, UsersHoldAccounts, Uses
  <2>7. AccountTypeOK'
    BY <2>1, <2>4 DEF LeaseInv, AccountTypeOK
  <2>8. UsersHoldAccounts'
    BY <2>1, <2>2, <2>5, <2>6 DEF LeaseInv, UsersHoldAccounts, Made, Uses
  <2>9. \A l \in Key : registry[l] # 0 => registry[l] \in Account /\ registry[l] # a
    BY <2>2 DEF LeaseInv, AccountTypeOK, Account
  <2>10. RowsHaveUsers'
    BY <2>1, <2>5, <2>9 DEF LeaseInv, RowsHaveUsers, Made
  <2>11. AccountsHaveUsers'
    <3>1. ASSUME NEW b \in Account
          PROVE /\ \A f \in account'[b].users : Uses(f)' /\ lent'[f] = b
                /\ account'[b].open => /\ account'[b].refresh # "none"
                                       /\ \E f \in Entry : lent'[f] = b /\ entryState'[f] # "unloaded"
      <4>1. \A f \in account[b].users : f \in Entry /\ Uses(f) /\ lent[f] = b /\ f # e
        BY <2>6 DEF LeaseInv, AccountsHaveUsers, AccountTypeOK
      <4>2. \A f \in account'[b].users : Uses(f)' /\ lent'[f] = b
        BY <2>5, <2>6, <4>1 DEF Uses
      <4>3. account[b].open => /\ account[b].refresh # "none"
                               /\ \E f \in Entry : lent[f] = b /\ entryState[f] # "unloaded"
        BY DEF LeaseInv, AccountsHaveUsers, Made
      <4>. QED
        BY <2>5, <2>6, <4>2, <4>3
    <3>. QED
      BY <3>1 DEF AccountsHaveUsers, Made
  <2>12. Served' = Served
    BY <2>1, <2>5, <2>9
  <2>. QED
    BY <2>1, <2>7, <2>8, <2>10, <2>11, <2>12 DEF LeaseInv
<1>5. CASE UNCHANGED accountVars
  BY <1>5
  DEF accountVars, LeaseInv, AccountTypeOK, UsersHoldAccounts, RowsHaveUsers, AccountsHaveUsers,
      Uses, Made
<1>6. ASSUME NEW e \in Entry, SetupDone(e) \/ UnloadFails(e)
      PROVE LeaseInv' /\ fingerprint' = fingerprint /\ Served' = Served
  BY <1>2, <1>6 DEF SetupDone, UnloadFails, Uses
<1>. QED
  BY <1>1, <1>3, <1>4, <1>5, <1>6 DEF AccountNext

(* The entries with one key share one open account: nothing that is set up *)
(* loses its account, and the registry serves a key exactly while an entry *)
(* leases it, whoever unloads, is re-keyed or acquires while one closes.   *)
THEOREM EntriesLeaseAccounts == AccountSpec => AccountsAreLeased
<1>. DEFINE Served == {l \in Key : registry[l] # 0 /\ account[registry[l]].open}
<1>1. AccountInit => LeaseInv /\ Leases!Init
  <2>1. ASSUME AccountInit PROVE AccountTypeOK /\ Leases!Init
    BY <2>1, SharedAssumption DEF AccountInit, AccountTypeOK, NoAccount, Leases!Init
  <2>2. ASSUME AccountInit PROVE UsersHoldAccounts /\ RowsHaveUsers /\ AccountsHaveUsers
    BY <2>2 DEF AccountInit, UsersHoldAccounts, RowsHaveUsers, AccountsHaveUsers, Uses, NoAccount
  <2>. QED
    BY <2>1, <2>2 DEF LeaseInv
<1>2. LeaseInv /\ [AccountNext]_accountVars => LeaseInv' /\ [Leases!Next]_(Leases!leaseVars)
  <2>1. SUFFICES ASSUME LeaseInv, AccountNext \/ UNCHANGED accountVars
                 PROVE LeaseInv' /\ (Leases!Next \/ UNCHANGED <<fingerprint, Served>>)
    BY DEF Leases!leaseVars
  <2>2. ASSUME NEW e \in Entry, Acquire(e) PROVE LeaseInv' /\ Leases!Next
    <3>1. apiKey[e] \in Key
      BY <2>1 DEF LeaseInv, AccountTypeOK
    <3>2. LeaseInv' /\ Leases!Take(e, apiKey[e])
      BY <2>1, <2>2, AcquireKeepsLease
    <3>. QED
      BY <3>1, <3>2 DEF Leases!Next, Leases!Take
  <2>3. ASSUME NEW e \in Entry, Release(e) PROVE LeaseInv' /\ Leases!Next
    BY <2>1, <2>3, ReleaseKeepsLease DEF Leases!Next
  <2>4. CASE \A e \in Entry : ~Acquire(e) /\ ~Release(e)
    BY <2>1, <2>4, OtherStepsKeepLease
  <2>. QED
    BY <2>2, <2>3, <2>4
<1>3. LeaseInv => UsersAreServed
  <2>1. ASSUME LeaseInv, NEW e \in Entry, Uses(e)
        PROVE account[lent[e]].open /\ registry[fingerprint[e]] = lent[e]
    <3>1. /\ fingerprint[e] \in Key /\ registry[fingerprint[e]] = lent[e] /\ lent[e] # 0
      BY <2>1 DEF LeaseInv, UsersHoldAccounts, AccountTypeOK, Account
    <3>. QED
      BY <2>1, <3>1 DEF LeaseInv, RowsHaveUsers
  <2>. QED
    BY <2>1 DEF LeaseInv, UsersAreServed, AccountsHaveUsers
<1>4. LeaseInv => AccountTypeOK
  BY DEF LeaseInv
<1>. QED
  BY <1>1, <1>2, <1>3, <1>4, PTL
  DEF AccountSpec, AccountsAreLeased, ImplementsLease, Leases!Spec

-----------------------------------------------------------------------------
(* EntryIdentity. An entry that exists has an identity; a reconfigure that *)
(* waits will save an identity of the console the entry stands for.        *)
EntriesHaveIdentities ==
  /\ \A e \in entries : host[e] \in Host /\ uniqueId[e] \in Identity
  /\ \A e \in LocalEntry : moving[e] # NoMove =>
       /\ e \in entries /\ moving[e].id \in Identity /\ moving[e].host \in Host
       /\ consoleId[e] # NoId
       /\ consoleId[e] \in Console => moving[e].id = consoleId[e]

IdentityInv == IdentityTypeOK /\ EntriesHaveIdentities /\ OneEntryPerConsole

(* One entry's identity is saved.                                          *)
LEMMA SavesIdentity ==
  ASSUME IdentityInv, NEW e \in entries, NEW id \in Identity, NEW h \in Host,
         SaveIdentity(e, id, h), UNCHANGED entries, waited \subseteq waited',
         e \in waited' \/ id = uniqueId[e] \/ ~OwnedByAnother(id, e)
  PROVE  /\ consoleId' \in [LocalEntry -> Identity \cup {NoId}]
         /\ uniqueId' \in [LocalEntry -> Identity \cup {NoId}]
         /\ host' \in [LocalEntry -> Host \cup {NoId}]
         /\ consoleId'[e] = id
         /\ \A f \in LocalEntry : f # e => consoleId'[f] = consoleId[f]
         /\ \A f \in entries : host'[f] \in Host /\ uniqueId'[f] \in Identity
         /\ OneEntryPerConsole'
<1>1. e \in LocalEntry
  BY DEF IdentityInv, IdentityTypeOK
<1>2. /\ consoleId' \in [LocalEntry -> Identity \cup {NoId}]
      /\ uniqueId' \in [LocalEntry -> Identity \cup {NoId}]
      /\ host' \in [LocalEntry -> Host \cup {NoId}]
  BY <1>1 DEF IdentityInv, IdentityTypeOK, SaveIdentity
<1>3. /\ consoleId'[e] = id /\ uniqueId'[e] = id /\ host'[e] = h
      /\ \A f \in LocalEntry : f # e => /\ consoleId'[f] = consoleId[f]
                                        /\ uniqueId'[f] = uniqueId[f] /\ host'[f] = host[f]
  BY <1>1 DEF IdentityInv, IdentityTypeOK, SaveIdentity
<1>4. \A f \in entries : host'[f] \in Host /\ uniqueId'[f] \in Identity
  BY <1>3 DEF IdentityInv, IdentityTypeOK, EntriesHaveIdentities
<1>5. OneEntryPerConsole'
  <2>1. ASSUME NEW f \in entries, NEW g \in entries, uniqueId'[f] = uniqueId'[g], f # g
        PROVE {f, g} \cap waited' # {}
    <3>1. f \in LocalEntry /\ g \in LocalEntry
      BY DEF IdentityInv, IdentityTypeOK
    <3>2. CASE f # e /\ g # e
      BY <1>3, <2>1, <3>1, <3>2 DEF IdentityInv, OneEntryPerConsole
    <3>3. CASE e \in waited'
      <4>1. CASE e \in {f, g}
        BY <3>3, <4>1
      <4>. QED
        BY <3>2, <4>1
    <3>4. CASE id = uniqueId[e]
      BY <1>3, <2>1, <3>1, <3>4 DEF IdentityInv, OneEntryPerConsole
    <3>5. CASE ~OwnedByAnother(id, e) /\ (f = e \/ g = e)
      BY <1>3, <2>1, <3>1, <3>5 DEF OwnedByAnother
    <3>. QED
      BY <3>2, <3>3, <3>4, <3>5
  <2>. QED
    BY <2>1 DEF OneEntryPerConsole
<1>. QED
  BY <1>2, <1>3, <1>4, <1>5

LEMMA IdentityStep ==
  ASSUME IdentityInv, IdentityNext \/ UNCHANGED identityVars
  PROVE  /\ IdentityInv'
         /\ \A e \in entries \cap entries' : consoleId[e] \in Console => consoleId'[e] = consoleId[e]
<1>. USE IdentityAssumption
<1>. DEFINE Kept == \A e \in entries \cap entries' :
                      consoleId[e] \in Console => consoleId'[e] = consoleId[e]
<1>0. entries \subseteq LocalEntry /\ NoMove.id = NoId
      /\ NoMove \in [id : Identity \cup {NoId}, host : Host \cup {NoId}]
  BY DEF IdentityInv, IdentityTypeOK, NoMove
<1>1. ASSUME NEW h \in Host, NEW c \in Console, Readdress(h, c) PROVE IdentityInv' /\ Kept
  <2>1. /\ edits' \in 0 .. MaxEdits /\ at' \in [Host -> Console]
        /\ UNCHANGED <<entries, host, consoleId, uniqueId, moving, waited>>
    BY <1>1 DEF Readdress, Edit, IdentityInv, IdentityTypeOK
  <2>. QED
    BY <2>1 DEF IdentityInv, IdentityTypeOK, EntriesHaveIdentities, OneEntryPerConsole
<1>2. ASSUME NEW e \in LocalEntry, NEW h \in Host, AddLocal(e, h) PROVE IdentityInv' /\ Kept
  <2>1. PICK mac \in {at[h], NoId} :
          LET id == IF mac # NoId THEN mac ELSE h IN
          /\ ~OwnedByAnother(id, e)
          /\ entries' = entries \cup {e}
          /\ host' = [host EXCEPT ![e] = h]
          /\ consoleId' = [consoleId EXCEPT ![e] = mac]
          /\ uniqueId' = [uniqueId EXCEPT ![e] = id]
    BY <1>2 DEF AddLocal, MacFound
  <2>. DEFINE id == IF mac # NoId THEN mac ELSE h
  <2>2. /\ edits' \in 0 .. MaxEdits /\ e \notin entries /\ UNCHANGED <<at, moving, waited>>
    BY <1>2 DEF AddLocal, Edit, IdentityInv, IdentityTypeOK
  <2>3. id \in Identity /\ mac \in Identity \cup {NoId}
    BY DEF IdentityInv, IdentityTypeOK, Identity
  <2>4. IdentityTypeOK'
    BY <2>1, <2>2, <2>3 DEF IdentityInv, IdentityTypeOK
  <2>5. /\ uniqueId'[e] = id /\ host'[e] = h
        /\ \A f \in entries : /\ consoleId'[f] = consoleId[f]
                              /\ uniqueId'[f] = uniqueId[f] /\ host'[f] = host[f]
    BY <1>0, <2>1, <2>2 DEF IdentityInv, IdentityTypeOK
  <2>6. EntriesHaveIdentities'
    BY <2>1, <2>2, <2>3, <2>5 DEF IdentityInv, EntriesHaveIdentities
  <2>7. OneEntryPerConsole'
    BY <2>1, <2>2, <2>5 DEF IdentityInv, OneEntryPerConsole, OwnedByAnother
  <2>. QED
    BY <2>2, <2>4, <2>5, <2>6, <2>7 DEF IdentityInv
<1>3. ASSUME NEW e \in LocalEntry, Discover(e) PROVE IdentityInv' /\ Kept
  <2>1. e \in entries /\ host[e] \in Host /\ UNCHANGED <<at, entries, host, moving, edits, waited>>
    BY <1>3 DEF Discover, IdentityInv, EntriesHaveIdentities
  <2>2. PICK id \in Identity :
          /\ consoleId[e] # NoId => id = consoleId[e]
          /\ consoleId' = [consoleId EXCEPT ![e] = id]
          /\ uniqueId' = [uniqueId EXCEPT ![e] = IF OwnedByAnother(id, e) THEN @ ELSE id]
    <3>1. PICK mac \in {at[host[e]], NoId} :
            LET id == IF consoleId[e] # NoId THEN consoleId[e]
                      ELSE IF mac # NoId THEN mac ELSE host[e] IN
            /\ consoleId' = [consoleId EXCEPT ![e] = id]
            /\ uniqueId' = [uniqueId EXCEPT ![e] = IF OwnedByAnother(id, e) THEN @ ELSE id]
      BY <1>3 DEF Discover, MacFound
    <3>2. consoleId[e] \in Identity \cup {NoId} /\ mac \in Console \cup {NoId}
      BY <2>1, <3>1 DEF IdentityInv, IdentityTypeOK
    <3>. DEFINE id == IF consoleId[e] # NoId THEN consoleId[e]
                      ELSE IF mac # NoId THEN mac ELSE host[e]
    <3>3. /\ consoleId' = [consoleId EXCEPT ![e] = id]
          /\ uniqueId' = [uniqueId EXCEPT ![e] = IF OwnedByAnother(id, e) THEN @ ELSE id]
      BY <3>1
    <3>4. id \in Identity /\ (consoleId[e] # NoId => id = consoleId[e])
      BY <2>1, <3>2 DEF Identity
    <3>. QED
      BY <3>3, <3>4
  <2>3. IdentityTypeOK'
    BY <2>1, <2>2 DEF IdentityInv, IdentityTypeOK
  <2>4. /\ consoleId'[e] = id /\ uniqueId'[e] = IF OwnedByAnother(id, e) THEN uniqueId[e] ELSE id
        /\ \A f \in LocalEntry : f # e => /\ consoleId'[f] = consoleId[f]
                                          /\ uniqueId'[f] = uniqueId[f]
    BY <2>2 DEF IdentityInv, IdentityTypeOK
  <2>5. EntriesHaveIdentities'
    BY <1>0, <2>1, <2>2, <2>4 DEF IdentityInv, EntriesHaveIdentities, Identity
  <2>6. OneEntryPerConsole'
    BY <1>0, <2>1, <2>4 DEF IdentityInv, OneEntryPerConsole, OwnedByAnother
  <2>7. Kept
    BY <1>0, <2>1, <2>2, <2>4
  <2>. QED
    BY <2>3, <2>5, <2>6, <2>7 DEF IdentityInv
<1>4. ASSUME NEW e \in LocalEntry, NEW h \in Host, Reconfigure(e, h) PROVE IdentityInv' /\ Kept
  <2>. DEFINE Waits(id) == /\ consoleId[e] # NoId
                           /\ moving' = [moving EXCEPT ![e] = [id |-> id, host |-> h]]
                           /\ UNCHANGED <<consoleId, uniqueId, host, waited>>
  <2>1. PICK mac \in MacFound(h) :
          /\ Accepted(e, NewIdentity(e, mac))
          /\ \/ SaveIdentity(e, NewIdentity(e, mac), h) /\ UNCHANGED moving
             \/ /\ consoleId[e] # NoId
                /\ moving' = [moving EXCEPT ![e] = [id |-> NewIdentity(e, mac), host |-> h]]
                /\ UNCHANGED <<consoleId, uniqueId, host>>
    BY <1>4 DEF Reconfigure
  <2>. DEFINE id == NewIdentity(e, mac)
  <2>2. /\ e \in entries /\ moving[e] = NoMove /\ UNCHANGED <<at, entries, waited>>
        /\ edits' \in 0 .. MaxEdits
    BY <1>4 DEF Reconfigure, Edit, IdentityInv, IdentityTypeOK
  <2>3. mac \in Console \cup {NoId} /\ uniqueId[e] \in Identity
        /\ consoleId[e] \in Identity \cup {NoId}
    BY <2>2 DEF MacFound, IdentityInv, IdentityTypeOK, EntriesHaveIdentities
  <2>4. id \in Identity /\ (consoleId[e] \in Console => id = consoleId[e])
        /\ (id = uniqueId[e] \/ ~OwnedByAnother(id, e))
    BY <2>1, <2>3 DEF Accepted, NewIdentity, Identity
  <2>5. CASE SaveIdentity(e, id, h) /\ UNCHANGED moving
    <3>1. /\ consoleId' \in [LocalEntry -> Identity \cup {NoId}]
          /\ uniqueId' \in [LocalEntry -> Identity \cup {NoId}]
          /\ host' \in [LocalEntry -> Host \cup {NoId}]
          /\ consoleId'[e] = id
          /\ \A f \in LocalEntry : f # e => consoleId'[f] = consoleId[f]
          /\ \A f \in entries : host'[f] \in Host /\ uniqueId'[f] \in Identity
          /\ OneEntryPerConsole'
      BY <2>2, <2>4, <2>5, SavesIdentity
    <3>2. IdentityTypeOK' /\ Kept
      BY <1>0, <2>2, <2>4, <2>5, <3>1 DEF IdentityInv, IdentityTypeOK
    <3>3. EntriesHaveIdentities'
      BY <1>0, <2>2, <2>5, <3>1 DEF IdentityInv, EntriesHaveIdentities
    <3>. QED
      BY <3>1, <3>2, <3>3 DEF IdentityInv
  <2>6. CASE /\ consoleId[e] # NoId /\ moving' = [moving EXCEPT ![e] = [id |-> id, host |-> h]]
             /\ UNCHANGED <<consoleId, uniqueId, host>>
    <3>. DEFINE move == [id |-> id, host |-> h]
    <3>1. move \in [id : Identity \cup {NoId}, host : Host \cup {NoId}] /\ move.id = id
          /\ move.host = h
      BY <2>4
    <3>2. IdentityTypeOK' /\ Kept
      BY <2>2, <2>6, <3>1 DEF IdentityInv, IdentityTypeOK
    <3>3. moving'[e] = move /\ \A f \in LocalEntry : f # e => moving'[f] = moving[f]
      BY <2>6 DEF IdentityInv, IdentityTypeOK
    <3>4. EntriesHaveIdentities' /\ OneEntryPerConsole'
      BY <2>2, <2>4, <2>6, <3>1, <3>3 DEF IdentityInv, EntriesHaveIdentities, OneEntryPerConsole
    <3>. QED
      BY <3>2, <3>4 DEF IdentityInv
  <2>. QED
    BY <2>1, <2>5, <2>6
<1>5. ASSUME NEW e \in LocalEntry, MoveEnds(e) PROVE IdentityInv' /\ Kept
  <2>1. /\ e \in entries /\ moving[e].id \in Identity /\ moving[e].host \in Host
        /\ consoleId[e] \in Console => moving[e].id = consoleId[e]
        /\ moving' = [moving EXCEPT ![e] = NoMove] /\ UNCHANGED <<at, entries, edits>>
    BY <1>5 DEF MoveEnds, IdentityInv, EntriesHaveIdentities
  <2>2. /\ moving'[e] = NoMove /\ \A f \in LocalEntry : f # e => moving'[f] = moving[f]
        /\ moving' \in [LocalEntry -> [id : Identity \cup {NoId}, host : Host \cup {NoId}]]
    BY <1>0, <2>1 DEF IdentityInv, IdentityTypeOK
  <2>3. CASE SaveIdentity(e, moving[e].id, moving[e].host) /\ waited' = waited \cup {e}
    <3>1. /\ consoleId' \in [LocalEntry -> Identity \cup {NoId}]
          /\ uniqueId' \in [LocalEntry -> Identity \cup {NoId}]
          /\ host' \in [LocalEntry -> Host \cup {NoId}]
          /\ consoleId'[e] = moving[e].id
          /\ \A f \in LocalEntry : f # e => consoleId'[f] = consoleId[f]
          /\ \A f \in entries : host'[f] \in Host /\ uniqueId'[f] \in Identity
          /\ OneEntryPerConsole'
      BY <2>1, <2>3, SavesIdentity
    <3>2. IdentityTypeOK' /\ Kept
      BY <1>0, <2>1, <2>2, <2>3, <3>1 DEF IdentityInv, IdentityTypeOK
    <3>3. EntriesHaveIdentities'
      BY <2>1, <2>2, <3>1 DEF IdentityInv, EntriesHaveIdentities
    <3>. QED
      BY <3>1, <3>2, <3>3 DEF IdentityInv
  <2>4. CASE UNCHANGED <<consoleId, uniqueId, host, waited>>
    BY <2>1, <2>2, <2>4
    DEF IdentityInv, IdentityTypeOK, EntriesHaveIdentities, OneEntryPerConsole
  <2>. QED
    BY <1>5, <2>3, <2>4 DEF MoveEnds
<1>6. ASSUME NEW e \in LocalEntry, Remove(e) PROVE IdentityInv' /\ Kept
  <2>1. /\ moving[e] = NoMove /\ entries' = entries \ {e} /\ waited' = waited \ {e}
        /\ UNCHANGED <<at, moving, edits>>
    BY <1>6 DEF Remove
  <2>2. IdentityTypeOK'
    BY <1>6, <2>1 DEF Remove, IdentityInv, IdentityTypeOK
  <2>3. \A f \in LocalEntry : f # e => /\ consoleId'[f] = consoleId[f]
                                       /\ uniqueId'[f] = uniqueId[f] /\ host'[f] = host[f]
    BY <1>6 DEF Remove, IdentityInv, IdentityTypeOK
  <2>4. EntriesHaveIdentities' /\ OneEntryPerConsole' /\ Kept
    BY <1>0, <2>1, <2>3 DEF IdentityInv, EntriesHaveIdentities, OneEntryPerConsole
  <2>. QED
    BY <2>2, <2>4 DEF IdentityInv
<1>7. CASE UNCHANGED identityVars
  BY <1>7
  DEF identityVars, IdentityInv, IdentityTypeOK, EntriesHaveIdentities, OneEntryPerConsole
<1>. QED
  BY <1>1, <1>2, <1>3, <1>4, <1>5, <1>6, <1>7 DEF IdentityNext

(* An entry identified with a console's MAC stays with that console, and   *)
(* two entries get one identity only through a reconfigure that waited,    *)
(* for any number of entries, consoles and addresses.                      *)
THEOREM EntriesKeepTheirIdentity == IdentitySpec => IdentityIsKept
<1>1. IdentityInit => IdentityInv
  <2>1. ASSUME IdentityInit PROVE IdentityTypeOK
    BY <2>1, IdentityAssumption DEF IdentityInit, IdentityTypeOK, NoMove
  <2>2. ASSUME IdentityInit PROVE EntriesHaveIdentities /\ OneEntryPerConsole
    BY <2>2 DEF IdentityInit, EntriesHaveIdentities, OneEntryPerConsole
  <2>. QED
    BY <2>1, <2>2 DEF IdentityInv
<1>2. IdentityInv /\ [IdentityNext]_identityVars =>
        /\ IdentityInv'
        /\ [\A e \in entries \cap entries' :
              consoleId[e] \in Console => consoleId'[e] = consoleId[e]]_identityVars
  BY IdentityStep
<1>3. IdentityInv => IdentityTypeOK /\ OneEntryPerConsole
  BY DEF IdentityInv
<1>. QED
  BY <1>1, <1>2, <1>3, PTL DEF IdentitySpec, IdentityIsKept, HardwareIsKept

-----------------------------------------------------------------------------
(* SiteRows. With one call that raised at most: an attempted row, and only *)
(* one, may carry the new namespace; a restoration follows that one call,  *)
(* and the entry is itself restored before the rows are.                   *)
ChangeIsTracked ==
  LET from == change.from  to == change.to  attempted == change.attempted IN
  CASE change.phase = "idle" -> \A r \in Row : row[r] \in {Unset, namespace}
    [] change.phase = "renaming" ->
         /\ from = namespace /\ to # from
         /\ \A r \in Row : row[r] \in {Unset, from, to} /\ (r \in attempted <=> row[r] = to)
    [] change.phase = "saving" ->
         /\ from = namespace /\ to # from
         /\ \A r \in Row : row[r] \in {Unset, to} /\ (row[r] = to => r \in attempted)
    [] change.phase = "restoringEntry" ->
         /\ faults >= 1 /\ to # from
         /\ \A r \in Row : row[r] \in {Unset, to} /\ (row[r] = to => r \in attempted)
    [] change.phase = "restoringRows" ->
         /\ faults >= 1 /\ from = namespace /\ to # from
         /\ \A r \in Row : row[r] \in {Unset, from, to} /\ (row[r] = to => r \in attempted)

RowInv ==
  /\ RowTypeOK
  /\ change.phase # "idle" => change.to # Unset
  /\ change.phase = "restoringRows" \/ change.phase = "restoringEntry" => faults >= 1
  /\ faults <= 1 => ChangeIsTracked

LEMMA RowStep ==
  ASSUME RowInv, RowNext \/ UNCHANGED rowVars PROVE RowInv'
<1>. USE RowsAssumption
<1>. DEFINE Change == [phase : {"idle", "renaming", "saving", "restoringEntry", "restoringRows"},
                       from : Named, to : Named, attempted : SUBSET Row]
<1>0. /\ namespace \in Named /\ row \in [Row -> Named] /\ change \in Change
      /\ faults \in Nat /\ NoChange \in Change /\ NoChange.phase = "idle"
      /\ Unset \in Named /\ Unset \notin Namespace /\ Namespace \subseteq Named
  BY DEF RowInv, RowTypeOK, NoChange, Named
<1>a. Faulty => faults' = faults + 1 /\ faults' \in 0 .. MaxFaults
  BY DEF Faulty, RowInv, RowTypeOK
<1>1. ASSUME NEW r \in Row, Migrate(r) PROVE RowInv'
  <2>1. /\ change.phase = "idle" /\ namespace # Unset /\ row' = [row EXCEPT ![r] = namespace]
        /\ UNCHANGED <<namespace, foreign, change, transitions>>
        /\ faults' \in {faults, faults + 1} /\ faults' \in 0 .. MaxFaults
    BY <1>1, <1>a DEF Migrate, RowInv, RowTypeOK
  <2>2. RowTypeOK'
    BY <1>0, <2>1 DEF RowInv, RowTypeOK
  <2>3. faults' <= 1 => faults <= 1
    BY <1>0, <2>1
  <2>4. faults' <= 1 => \A q \in Row : row'[q] \in {Unset, namespace}
    BY <1>0, <2>1, <2>3 DEF RowInv, ChangeIsTracked
  <2>. QED
    BY <2>1, <2>2, <2>4 DEF RowInv, ChangeIsTracked
<1>2. ASSUME NEW ns \in Namespace, Adopt(ns) PROVE RowInv'
  BY <1>0, <1>2 DEF Adopt, RowInv, RowTypeOK, ChangeIsTracked
<1>3. ASSUME NEW ns \in Namespace, Begin(ns) PROVE RowInv'
  <2>. DEFINE begun == [phase |-> IF namespace = Unset THEN "saving" ELSE "renaming",
                        from |-> namespace, to |-> ns, attempted |-> {}]
  <2>1. /\ change.phase = "idle" /\ ns # namespace /\ change' = begun
        /\ UNCHANGED <<namespace, row, foreign, faults>> /\ transitions' \in 0 .. MaxTransitions
    BY <1>3 DEF Begin, RowInv, RowTypeOK
  <2>2. begun \in Change
    BY <1>0
  <2>3. faults <= 1 => \A r \in Row : row[r] \in {Unset, namespace}
    BY <2>1 DEF RowInv, ChangeIsTracked
  <2>4. faults <= 1 => ChangeIsTracked'
    BY <1>0, <2>1, <2>3 DEF ChangeIsTracked
  <2>. QED
    BY <1>0, <2>1, <2>2, <2>4 DEF RowInv, RowTypeOK
<1>4. ASSUME NEW r \in Row, Rename(r) PROVE RowInv'
  <2>1. /\ change.phase = "renaming" /\ row[r] = change.from /\ r \notin change.attempted
        /\ UNCHANGED <<namespace, foreign, transitions>>
    BY <1>4 DEF Rename
  <2>2. CASE /\ row' = [row EXCEPT ![r] = change.to]
             /\ change' = [change EXCEPT !.attempted = @ \cup {r}]
             /\ UNCHANGED faults
    <3>1. change' \in Change /\ row' \in [Row -> Named]
      BY <1>0, <2>2
    <3>2. /\ change'.phase = "renaming" /\ change'.from = change.from /\ change'.to = change.to
          /\ change'.attempted = change.attempted \cup {r}
      BY <1>0, <2>1, <2>2
    <3>3. faults <= 1 => ChangeIsTracked'
      BY <1>0, <2>1, <2>2, <3>2 DEF RowInv, ChangeIsTracked
    <3>. QED
      BY <2>1, <2>2, <3>1, <3>2, <3>3 DEF RowInv, RowTypeOK
  <2>3. CASE /\ Faulty
             /\ change' = [change EXCEPT !.phase = "restoringRows", !.attempted = @ \cup {r}]
             /\ row' \in {row, [row EXCEPT ![r] = change.to]}
    <3>1. change' \in Change /\ row' \in [Row -> Named]
      BY <1>0, <2>3
    <3>2. /\ change'.phase = "restoringRows" /\ change'.from = change.from /\ change'.to = change.to
          /\ change'.attempted = change.attempted \cup {r}
          /\ \A q \in Row : row'[q] = row[q] \/ (q = r /\ row'[q] = change.to)
      BY <1>0, <2>1, <2>3
    <3>3. faults' <= 1 => ChangeIsTracked'
      BY <1>0, <1>a, <2>1, <2>3, <3>2 DEF RowInv, ChangeIsTracked
    <3>. QED
      BY <1>0, <1>a, <2>1, <2>3, <3>1, <3>2, <3>3 DEF RowInv, RowTypeOK
  <2>. QED
    BY <1>4, <2>2, <2>3 DEF Rename
<1>5. CASE AllRenamed
  <2>1. /\ change.phase = "renaming" /\ Renamed \subseteq change.attempted
        /\ change' = [change EXCEPT !.phase = "saving"]
        /\ UNCHANGED <<namespace, row, foreign, faults, transitions>>
    BY <1>5 DEF AllRenamed
  <2>2. /\ change' \in Change /\ change'.phase = "saving" /\ change'.from = change.from
        /\ change'.to = change.to /\ change'.attempted = change.attempted
    BY <1>0, <2>1
  <2>3. faults <= 1 => ChangeIsTracked'
    BY <1>0, <2>1, <2>2 DEF RowInv, ChangeIsTracked, Renamed
  <2>. QED
    BY <2>1, <2>2, <2>3 DEF RowInv, RowTypeOK
<1>6. CASE Save
  <2>1. change.phase = "saving" /\ UNCHANGED <<row, foreign, transitions>>
    BY <1>6 DEF Save
  <2>2. CASE namespace' = change.to /\ change' = NoChange /\ UNCHANGED faults
    <3>1. faults <= 1 => ChangeIsTracked'
      BY <1>0, <2>1, <2>2 DEF RowInv, ChangeIsTracked
    <3>. QED
      BY <1>0, <2>1, <2>2, <3>1 DEF RowInv, RowTypeOK
  <2>3. CASE /\ Faulty /\ namespace' \in {change.to, namespace}
             /\ change' = [change EXCEPT !.phase = "restoringEntry"]
    <3>1. /\ change' \in Change /\ change'.phase = "restoringEntry" /\ change'.from = change.from
          /\ change'.to = change.to /\ change'.attempted = change.attempted
      BY <1>0, <2>3
    <3>2. faults' <= 1 => ChangeIsTracked'
      BY <1>0, <1>a, <2>1, <2>3, <3>1 DEF RowInv, ChangeIsTracked
    <3>. QED
      BY <1>0, <1>a, <2>1, <2>3, <3>1, <3>2 DEF RowInv, RowTypeOK
  <2>. QED
    BY <1>6, <2>2, <2>3 DEF Save
<1>7. CASE RestoreEntry
  <2>1. /\ change.phase = "restoringEntry" /\ change' = [change EXCEPT !.phase = "restoringRows"]
        /\ UNCHANGED <<row, foreign, transitions>>
    BY <1>7 DEF RestoreEntry
  <2>2. /\ change' \in Change /\ change'.phase = "restoringRows" /\ change'.from = change.from
        /\ change'.to = change.to /\ change'.attempted = change.attempted
    BY <1>0, <2>1
  <2>3. CASE namespace' = change.from /\ UNCHANGED faults
    <3>1. faults <= 1 => ChangeIsTracked'
      BY <1>0, <2>1, <2>2, <2>3 DEF RowInv, ChangeIsTracked
    <3>. QED
      BY <1>0, <2>1, <2>2, <2>3, <3>1 DEF RowInv, RowTypeOK
  <2>4. CASE Faulty /\ UNCHANGED namespace
    BY <1>0, <1>a, <2>1, <2>2, <2>4 DEF RowInv, RowTypeOK
  <2>. QED
    BY <1>7, <2>3, <2>4 DEF RestoreEntry
<1>8. ASSUME NEW r \in Row, RestoreRow(r) PROVE RowInv'
  <2>1. /\ change.phase = "restoringRows" /\ change' = [change EXCEPT !.attempted = @ \ {r}]
        /\ UNCHANGED <<namespace, foreign, transitions>>
    BY <1>8 DEF RestoreRow
  <2>2. /\ change' \in Change /\ change'.phase = "restoringRows" /\ change'.from = change.from
        /\ change'.to = change.to /\ change'.attempted = change.attempted \ {r}
    BY <1>0, <2>1
  <2>3. CASE row[r] = change.to /\ row' = [row EXCEPT ![r] = change.from] /\ UNCHANGED faults
    <3>1. row' \in [Row -> Named] /\ row'[r] = change.from
          /\ \A q \in Row : q # r => row'[q] = row[q]
      BY <1>0, <2>3
    <3>2. faults <= 1 => ChangeIsTracked'
      BY <2>1, <2>2, <2>3, <3>1 DEF RowInv, ChangeIsTracked
    <3>. QED
      BY <2>1, <2>2, <2>3, <3>1, <3>2 DEF RowInv, RowTypeOK
  <2>4. CASE row[r] # change.to /\ UNCHANGED <<row, faults>>
    <3>1. faults <= 1 => ChangeIsTracked'
      BY <2>1, <2>2, <2>4 DEF RowInv, ChangeIsTracked
    <3>. QED
      BY <2>1, <2>2, <2>4, <3>1 DEF RowInv, RowTypeOK
  <2>5. CASE Faulty /\ UNCHANGED row
    BY <1>0, <1>a, <2>1, <2>2, <2>5 DEF RowInv, RowTypeOK
  <2>. QED
    BY <1>8, <2>3, <2>4, <2>5 DEF RestoreRow
<1>9. CASE RestoreEnds
  <2>1. /\ change.phase = "restoringRows" /\ change.attempted = {} /\ change' = NoChange
        /\ UNCHANGED <<namespace, row, foreign, faults, transitions>>
    BY <1>9 DEF RestoreEnds
  <2>2. faults <= 1 => ChangeIsTracked'
    BY <1>0, <2>1 DEF RowInv, ChangeIsTracked
  <2>. QED
    BY <1>0, <2>1, <2>2 DEF RowInv, RowTypeOK
<1>10. CASE UNCHANGED rowVars
  BY <1>10 DEF rowVars, RowInv, RowTypeOK, ChangeIsTracked
<1>. QED
  BY <1>1, <1>2, <1>3, <1>4, <1>5, <1>6, <1>7, <1>8, <1>9, <1>10 DEF RowNext

(* Whichever single call of a transition raised, and whether or not it had *)
(* taken effect, the rows and the entry were changed together or not at    *)
(* all, for any number of rows and namespaces.                             *)
THEOREM RowsAndEntryAgree == RowSpec => []RowsFollowTheEntry
<1>1. RowInit => RowInv
  <2>1. NoChange.phase = "idle" /\ NoChange \in
          [phase : {"idle", "renaming", "saving", "restoringEntry", "restoringRows"},
           from : Named, to : Named, attempted : SUBSET Row]
    BY DEF NoChange, Named
  <2>2. ASSUME RowInit PROVE RowTypeOK
    <3>1. namespace \in Named /\ row \in [Row -> {Unset, namespace}] /\ Unset \in Named
      BY <2>2 DEF RowInit, Named
    <3>2. row \in [Row -> Named]
      BY <3>1
    <3>. QED
      BY <2>1, <2>2, <3>1, <3>2, RowsAssumption DEF RowInit, RowTypeOK
  <2>3. ASSUME RowInit PROVE ChangeIsTracked
    BY <2>1, <2>3 DEF RowInit, ChangeIsTracked
  <2>. QED
    BY <2>1, <2>2, <2>3 DEF RowInit, RowInv
<1>2. RowInv /\ [RowNext]_rowVars => RowInv'
  BY RowStep
<1>3. RowInv => RowsFollowTheEntry
  BY DEF RowInv, ChangeIsTracked, RowsFollowTheEntry
<1>. QED
  BY <1>1, <1>2, <1>3, PTL DEF RowSpec

-----------------------------------------------------------------------------
(* EntrySetup. Whatever runs will be ended: by a callback, or as the       *)
(* account or the platforms; the platforms are the last but the listener   *)
(* to start. The budget for inconclusive answers counts no more than the   *)
(* attempts that were inconclusive, and is clear once an attempt goes on.  *)
RunningIsEnded ==
  /\ live \ {"account", "platforms"} \subseteq registered
  /\ "platforms" \in live => step \in {"listener", "loaded", "failed"}

BudgetIsEarned ==
  /\ inconclusive <= emptyTries
  /\ step \notin {"idle", "network", "protect", "innerspace", "decide", "retry"} => inconclusive = 0

SetupInv ==
  /\ SetupTypeOK /\ VerdictsNeedEvidence /\ NothingLeftBehind
  /\ RunningIsEnded /\ BudgetIsEarned

LEMMA SetupInitially == SetupInit => SetupInv
<1> SUFFICES ASSUME SetupInit PROVE SetupInv
  OBVIOUS
<1>1. SetupTypeOK
  <2>1. probe \in [App -> ProbeStatus]
    BY DEF SetupInit, NoProbes, ProbeStatus
  <2> QED BY <2>1, SetupAssumption DEF SetupInit, SetupTypeOK
<1> QED BY <1>1, SetupAssumption DEF SetupInit, SetupInv, VerdictsNeedEvidence, NothingLeftBehind,
                                    RunningIsEnded, BudgetIsEarned

LEMMA DecideKeepsSetup == SetupInv /\ Decide => SetupInv'
<1> SUFFICES ASSUME SetupInv, Decide PROVE SetupInv'
  OBVIOUS
<1>1. /\ SetupTypeOK /\ VerdictsNeedEvidence /\ NothingLeftBehind /\ RunningIsEnded /\ BudgetIsEarned
      /\ step = "decide" /\ live = {} /\ registered = {}
      /\ UNCHANGED <<remote, probe, live, registered, refreshFailures>>
      /\ Retries \in Nat \ {0} /\ partial \in Nat /\ inconclusive \in Nat /\ emptyTries \in Nat
      /\ partial <= Retries /\ inconclusive <= Retries /\ emptyTries <= Retries + 1
      /\ inconclusive <= emptyTries
  BY SetupAssumption DEF SetupInv, SetupTypeOK, NothingLeftBehind, BudgetIsEarned, Decide
<1>2. /\ partial' \in 0 .. Retries /\ inconclusive' \in 0 .. Retries /\ emptyTries' \in 0 .. Retries + 1
      /\ inconclusive' <= emptyTries'
      /\ step' \in {"retry", "refresh", "reauth"}
      /\ step' # "retry" => inconclusive' = 0
  BY <1>1 DEF Decide, RetryOutage, RetryPartial, Proceed, ClearBudgets, AskForKey, RetryInconclusive,
              Counted, GiveUp
<1>3. SetupTypeOK'
  BY <1>1, <1>2 DEF SetupTypeOK
<1>4. VerdictsNeedEvidence'
  <2>1. CASE step' # "reauth"
    BY <2>1 DEF VerdictsNeedEvidence
  <2>2. CASE AskForKey
    BY <1>1, <2>2 DEF AskForKey, VerdictsNeedEvidence, Some
  <2>3. CASE GiveUp
    BY <1>1, <2>3 DEF GiveUp, VerdictsNeedEvidence, Some
  <2> QED BY <2>1, <2>2, <2>3 DEF Decide, RetryOutage, RetryPartial, Proceed, RetryInconclusive
<1>5. NothingLeftBehind' /\ RunningIsEnded' /\ BudgetIsEarned'
  BY <1>1, <1>2 DEF NothingLeftBehind, RunningIsEnded, BudgetIsEarned
<1> QED BY <1>3, <1>4, <1>5 DEF SetupInv

LEMMA SetupStep == SetupInv /\ [SetupNext]_setupVars => SetupInv'
<1> SUFFICES ASSUME SetupInv, [SetupNext]_setupVars PROVE SetupInv'
  OBVIOUS
<1>1. /\ SetupTypeOK /\ VerdictsNeedEvidence /\ NothingLeftBehind /\ RunningIsEnded /\ BudgetIsEarned
      /\ inconclusive \in Nat /\ emptyTries \in Nat /\ Retries \in Nat \ {0}
  BY SetupAssumption DEF SetupInv, SetupTypeOK
<1>2. CASE Start
  <2>1. NoProbes \in [App -> ProbeStatus]
    BY DEF NoProbes, ProbeStatus
  <2>2. SetupTypeOK'
    BY <1>1, <1>2, <2>1 DEF Start, SetupTypeOK
  <2> QED BY <1>1, <1>2, <2>2 DEF Start, SetupInv, VerdictsNeedEvidence, NothingLeftBehind,
                                  RunningIsEnded, BudgetIsEarned
<1>3. CASE Probe
  <2>1. step \in App /\ step' \in {"protect", "innerspace", "decide"}
    BY <1>3 DEF Probe, App, NextStep
  <2>2. probe' \in [App -> ProbeStatus]
    <3>1. \A answer \in Answer : Classified(answer) \in ProbeStatus
      BY DEF Answer, Classified, ProbeStatus
    <3> QED BY <1>1, <1>3, <3>1 DEF Probe, SetupTypeOK
  <2>3. SetupTypeOK'
    BY <1>1, <1>3, <2>1, <2>2 DEF Probe, SetupTypeOK
  <2> QED BY <1>1, <1>3, <2>1, <2>3 DEF Probe, SetupInv, VerdictsNeedEvidence, NothingLeftBehind,
                                        RunningIsEnded, BudgetIsEarned, App
<1>4. CASE Decide
  BY <1>4, DecideKeepsSetup
<1>5. CASE Refresh
  <2>1. step = "refresh" /\ step' = "protectSocket"
    BY <1>5 DEF Refresh, NextStep
  <2>2. SetupTypeOK'
    BY <1>1, <1>5, <2>1 DEF Refresh, SetupTypeOK
  <2> QED BY <1>1, <1>5, <2>1, <2>2 DEF Refresh, SetupInv, VerdictsNeedEvidence, NothingLeftBehind,
                                        RunningIsEnded, BudgetIsEarned
<1>6. CASE StartResource
  <2>1. /\ step \in Resource
        /\ step' \in {"access", "account", "mobility", "webhook", "platforms", "listener", "loaded"}
        /\ step = "platforms" => step' = "listener"
        /\ step = "listener" => step' = "loaded"
    BY <1>6 DEF StartResource, NextStep, Resource
  <2>2. PICK wanted \in Wanted(step) :
          /\ live' = IF wanted THEN live \cup {step} ELSE live
          /\ registered' = IF wanted /\ step \in OnUnload THEN registered \cup {step} ELSE registered
    BY <1>6 DEF StartResource
  <2>3. SetupTypeOK'
    BY <1>1, <1>6, <2>1, <2>2 DEF StartResource, SetupTypeOK
  <2>4. RunningIsEnded'
    <3>1. live' \ {"account", "platforms"} \subseteq registered'
      BY <1>1, <2>1, <2>2 DEF RunningIsEnded, OnUnload
    <3>2. "platforms" \in live' => "platforms" \in live \/ step = "platforms"
      BY <2>2
    <3>3. step \in {"listener", "loaded", "failed"} => step = "listener"
      BY <2>1 DEF Resource
    <3>4. "platforms" \in live' => step' \in {"listener", "loaded", "failed"}
      BY <1>1, <2>1, <3>2, <3>3 DEF RunningIsEnded
    <3> QED BY <3>1, <3>4 DEF RunningIsEnded
  <2> QED BY <1>1, <1>6, <2>1, <2>3, <2>4 DEF StartResource, SetupInv, VerdictsNeedEvidence,
                                        NothingLeftBehind, BudgetIsEarned, Resource
<1>7. CASE UnloadRest
  <2>1. live' = {}
    BY <1>1, <1>7 DEF UnloadRest, RunningIsEnded
  <2>2. SetupTypeOK'
    BY <1>1, <1>7, <2>1 DEF UnloadRest, SetupTypeOK
  <2> QED BY <1>1, <1>7, <2>1, <2>2 DEF UnloadRest, SetupInv, VerdictsNeedEvidence, NothingLeftBehind,
                                        RunningIsEnded, BudgetIsEarned
<1>8. CASE NewKeyGiven
  <2>1. SetupTypeOK'
    BY <1>1, <1>8 DEF NewKeyGiven, SetupTypeOK
  <2> QED BY <1>1, <1>8, <2>1 DEF NewKeyGiven, SetupInv, VerdictsNeedEvidence, NothingLeftBehind,
                                  RunningIsEnded, BudgetIsEarned
<1>9. CASE Fails
  <2>1. live' = {} /\ registered' = {} /\ step' \in {"retry", "rejected"}
    BY <1>1, <1>9 DEF Fails, RunningIsEnded
  <2>2. refreshFailures' \in 0 .. MaxRefreshFailures
    BY <1>1, <1>9, SetupAssumption DEF Fails, SetupTypeOK
  <2>3. SetupTypeOK'
    BY <1>1, <1>9, <2>1, <2>2 DEF Fails, SetupTypeOK
  <2> QED BY <1>1, <1>9, <2>1, <2>3 DEF Fails, SetupInv, VerdictsNeedEvidence, NothingLeftBehind,
                                        RunningIsEnded, BudgetIsEarned
<1>10. CASE UnloadPlatforms
  <2>1. /\ partial' = 0 /\ inconclusive' = 0 /\ emptyTries' = 0
        /\ step' \in {"unloading", "failed"} /\ live' \subseteq live
        /\ step' = "unloading" => "platforms" \notin live'
        /\ UNCHANGED <<remote, probe, registered, refreshFailures>>
    BY <1>10 DEF UnloadPlatforms, ClearBudgets
  <2>2. SetupTypeOK'
    BY <1>1, <2>1 DEF SetupTypeOK
  <2> QED BY <1>1, <2>1, <2>2 DEF SetupInv, VerdictsNeedEvidence, NothingLeftBehind, RunningIsEnded,
                                  BudgetIsEarned
<1>11. CASE UNCHANGED setupVars
  BY <1>1, <1>11 DEF setupVars, SetupInv, SetupTypeOK, VerdictsNeedEvidence, Some, NothingLeftBehind,
                     RunningIsEnded, BudgetIsEarned
<1> QED BY <1>2, <1>3, <1>4, <1>5, <1>6, <1>7, <1>8, <1>9, <1>10, <1>11 DEF SetupNext, SetupProgress

(* The user is asked for a new key only on evidence about the key, and an  *)
(* entry that is not set up has nothing running, however far its setup got *)
(* before it failed: the safety part of SetupIsSound, for any budgets.     *)
THEOREM SetupsAreSafe == SetupSpec => [](SetupTypeOK /\ VerdictsNeedEvidence /\ NothingLeftBehind)
<1>1. SetupInv => SetupTypeOK /\ VerdictsNeedEvidence /\ NothingLeftBehind
  BY DEF SetupInv
<1> QED BY <1>1, SetupInitially, SetupStep, PTL DEF SetupSpec

-----------------------------------------------------------------------------
(* SweptRows. What is shown and has an entity is a rule or a port, known   *)
(* by an ID of its own.                                                    *)
SweptTypeOK ==
  /\ ruleAt \in [NetRule -> SwitchState]
  /\ portAt \in [PortDevice -> [PortIndex -> PortState]]
  /\ isLoaded \in BOOLEAN
  /\ rows \subseteq NetRule \cup PortRow /\ entities \subseteq NetRule \cup PortRow
  /\ shown \subseteq NetRule \cup PortRow

SweptInv == SweptTypeOK /\ EveryObjectHasAnEntity

(* A rule whose row is swept is one that its own site, which answered with *)
(* something, does not list as a switch.                                   *)
LEMMA StaleRulesAreGone ==
  ASSUME SweptTypeOK, NEW listed \in {{}, NetSite}, NEW answered \in SUBSET listed,
         NEW r \in StaleRules(listed, answered)
  PROVE  ruleAt[r] \in {"absent", "hidden"}
<1>1. /\ r \in NetRule /\ Cardinality(Claims(r, listed)) = 1
      /\ Claims(r, listed) \subseteq Qualified(listed, answered)
      /\ ~(r \in Listing(answered) /\ ruleAt[r] # "hidden")
  BY DEF StaleRules
<1>2. listed = NetSite
  <2>1. Claims(r, {}) = {} /\ Cardinality({}) = 0
    BY FS_EmptySet DEF Claims
  <2> QED BY <1>1, <2>1
<1>3. r.site \in Qualified(listed, answered)
  BY <1>1, <1>2 DEF Claims, NetRule
<1>4. r.site \in answered
  BY <1>3 DEF Qualified, Listing
<1> QED BY <1>1, <1>4 DEF Listing

(* A port whose row is swept by a setup that read the v1 list is gone.     *)
LEMMA StalePortsAreGone ==
  ASSUME SweptTypeOK, NEW legacy \in BOOLEAN, NEW created, NEW p \in StalePorts("v1", legacy, created)
  PROVE  portAt[p.device][p.port] = "none" \/ p.id = "legacy"
<1>1. /\ p \in PortRow /\ p.device \in PortDevice /\ p.port \in PortIndex /\ p.id \in {"v1", "legacy"}
  BY DEF StalePorts, SweptTypeOK, PortRow
<1>2. CASE ~Known(p, "v1", {})
  <2>1. p.id = "v1" => portAt[p.device] = Gone
    BY <1>1, <1>2 DEF Known, ListedDevices, IdOf
  <2> QED BY <1>1, <2>1 DEF Gone
<1>3. CASE PortsRead(p.device, legacy) # {} /\ p.port \notin PortsRead(p.device, legacy)
  BY <1>1, <1>3 DEF PortsRead
<1> QED BY <1>2, <1>3 DEF StalePorts

LEMMA SweptLeaves ==
  ASSUME SweptInv, [SweptNext]_sweptVars, NEW gone \in rows \ rows'
  PROVE  /\ gone \in NetRule => ruleAt[gone] \in {"absent", "hidden"}
         /\ gone \notin NetRule => \/ portAt[gone.device][gone.port] = "none" \/ gone.id = "legacy"
                                  \/ setUpFrom' # "v1"
<1>1. SweptTypeOK
  BY DEF SweptInv
<1>2. ASSUME NEW listed \in {{}, NetSite}, NEW answered \in SUBSET listed,
             LoadSwitches(listed, answered)
      PROVE  gone \in NetRule /\ ruleAt[gone] \in {"absent", "hidden"}
  <2>1. gone \in StaleRules(listed, answered)
    BY <1>2 DEF LoadSwitches
  <2> QED BY <1>1, <2>1, StaleRulesAreGone DEF StaleRules
<1>3. ASSUME NEW source \in {"v1", "legacy", "none"}, NEW legacy \in BOOLEAN, LoadSensors(source, legacy)
      PROVE  /\ gone \notin NetRule
             /\ \/ portAt[gone.device][gone.port] = "none" \/ gone.id = "legacy" \/ setUpFrom' # "v1"
  <2>1. gone \in StalePorts(source, legacy, entities') /\ setUpFrom' = source
    BY <1>3 DEF LoadSensors
  <2>2. gone \notin NetRule
    BY <2>1 DEF StalePorts
  <2>3. source = "v1" => portAt[gone.device][gone.port] = "none" \/ gone.id = "legacy"
    BY <1>1, <2>1, StalePortsAreGone
  <2> QED BY <2>1, <2>2, <2>3
<1> QED BY <1>2, <1>3 DEF SweptNext, sweptVars, ConsoleChangesRule, ConsoleChangesDevice, RulesPublished,
                          PortsPublished, EntryUnloads

LEMMA SweptStep == SweptInv /\ [SweptNext]_sweptVars => SweptInv'
<1> SUFFICES ASSUME SweptInv, [SweptNext]_sweptVars PROVE SweptInv'
  OBVIOUS
<1>1. SweptTypeOK /\ EveryObjectHasAnEntity
  BY DEF SweptInv
<1>2. ASSUME NEW r \in NetRule, NEW state \in SwitchState, ConsoleChangesRule(r, state) PROVE SweptInv'
  BY <1>1, <1>2 DEF ConsoleChangesRule, SweptInv, SweptTypeOK, EveryObjectHasAnEntity
<1>3. ASSUME NEW d \in PortDevice, NEW ports \in [PortIndex -> PortState], ConsoleChangesDevice(d, ports)
      PROVE  SweptInv'
  BY <1>1, <1>3 DEF ConsoleChangesDevice, SweptInv, SweptTypeOK, EveryObjectHasAnEntity
<1>4. ASSUME NEW listed \in {{}, NetSite}, NEW answered \in SUBSET listed, LoadSwitches(listed, answered)
      PROVE  SweptInv'
  <2>1. shown' \subseteq NetRule
    BY <1>4 DEF LoadSwitches, RulesShown
  <2>2. shown' = entities' /\ entities' \subseteq rows' /\ rows' \subseteq rows \cup entities'
        /\ isLoaded' = TRUE /\ UNCHANGED <<ruleAt, portAt>>
    BY <1>4 DEF LoadSwitches
  <2> QED BY <1>1, <2>1, <2>2 DEF SweptInv, SweptTypeOK, EveryObjectHasAnEntity
<1>5. ASSUME NEW listed \in {{}, NetSite}, NEW answered \in SUBSET listed, RulesPublished(listed, answered)
      PROVE  SweptInv'
  <2>1. shown' \subseteq NetRule \cup PortRow
    BY <1>1, <1>5 DEF RulesPublished, RulesShown, RulesKept, SweptTypeOK
  <2> QED BY <1>1, <1>5, <2>1 DEF RulesPublished, SweptInv, SweptTypeOK, EveryObjectHasAnEntity
<1>6. ASSUME NEW source \in {"v1", "legacy", "none"}, NEW legacy \in BOOLEAN, LoadSensors(source, legacy)
      PROVE  SweptInv'
  <2>1. shown' \subseteq PortRow /\ entities' \subseteq PortRow /\ shown' \subseteq entities'
    BY <1>6 DEF LoadSensors, PortRows
  <2>2. entities' \subseteq rows' /\ rows' \subseteq rows \cup entities'
        /\ isLoaded' = TRUE /\ UNCHANGED <<ruleAt, portAt>>
    BY <1>6 DEF LoadSensors
  <2> QED BY <1>1, <2>1, <2>2 DEF SweptInv, SweptTypeOK, EveryObjectHasAnEntity
<1>7. ASSUME NEW source \in {"v1", "legacy", "none"}, NEW legacy \in BOOLEAN, PortsPublished(source, legacy)
      PROVE  SweptInv'
  <2>1. shown' \subseteq NetRule \cup PortRow
    BY <1>7 DEF PortsPublished, PortRows
  <2> QED BY <1>1, <1>7, <2>1 DEF PortsPublished, SweptInv, SweptTypeOK, EveryObjectHasAnEntity
<1>8. CASE EntryUnloads
  BY <1>1, <1>8 DEF EntryUnloads, SweptInv, SweptTypeOK, EveryObjectHasAnEntity
<1>9. CASE UNCHANGED sweptVars
  BY <1>1, <1>9 DEF sweptVars, SweptInv, SweptTypeOK, EveryObjectHasAnEntity
<1> QED BY <1>2, <1>3, <1>4, <1>5, <1>6, <1>7, <1>8, <1>9 DEF SweptNext

(* Setting up an entry again deletes the row of a rule or of a port only   *)
(* when the console no longer has it (or, for a port, when the device list *)
(* was not the v1 one), and every object that is shown has an entity with  *)
(* a row: for any sites, rules, devices and ports.                         *)
THEOREM LivingRowsStay == SweptSpec => LivingRowsAreKept
<1>1. SweptInit => SweptInv
  <2> SUFFICES ASSUME SweptInit PROVE SweptInv
    OBVIOUS
  <2>1. ruleAt \in [NetRule -> SwitchState]
    BY DEF SweptInit, SwitchState
  <2>2. Gone \in [PortIndex -> PortState]
    BY DEF Gone, PortState
  <2>3. portAt \in [PortDevice -> [PortIndex -> PortState]]
    BY <2>2 DEF SweptInit
  <2> QED BY <2>1, <2>3 DEF SweptInit, SweptInv, SweptTypeOK, EveryObjectHasAnEntity
<1>2. SweptInv /\ [SweptNext]_sweptVars =>
        [\A r \in (rows \ rows') \cap NetRule : ruleAt[r] \in {"absent", "hidden"}]_sweptVars
  BY SweptLeaves
<1>3. SweptInv /\ [SweptNext]_sweptVars =>
        [\A lost \in (rows \ rows') \ NetRule :
           \/ portAt[lost.device][lost.port] = "none" \/ lost.id = "legacy"
           \/ setUpFrom' # "v1"]_sweptVars
  BY SweptLeaves
<1>4. SweptInv => EveryObjectHasAnEntity
  BY DEF SweptInv
<1> QED BY <1>1, <1>2, <1>3, <1>4, SweptStep, PTL
        DEF SweptSpec, LivingRowsAreKept, RuleRowsAreKept, PortRowsAreKept

-----------------------------------------------------------------------------
(* ClientRows. Who is known has been added, once, and nobody else has; a   *)
(* Wake button that setup found enabled has been added.                    *)
ClientTypeOK ==
  /\ running \in BOOLEAN
  /\ trackerRows \subseteq TrackerId
  /\ trackers \in [TrackerId -> 0 .. 2]
  /\ wakes \in [Mac -> 0 .. 2]
  /\ wakeRows \in [Mac -> {"none", "disabled", "enabled"}]

KnownAreAdded ==
  running =>
    /\ \A id \in TrackerId : trackers[id] = (IF id \in trackerRows THEN 1 ELSE 0)
    /\ \A id \in trackerRows : id.mac \in knownMacs
    /\ \A m \in Mac : wakes[m] = (IF m \in knownWakes THEN 1 ELSE 0)
    /\ \A m \in Mac : wakeRows[m] = "enabled" /\ m \notin enabledSince => wakes[m] = 1

ClientInv == ClientTypeOK /\ KnownAreAdded /\ (~running => seeding = {})

LEMMA TrackersAdded ==
  ASSUME NEW counts \in [TrackerId -> 0 .. 2], NEW ids
  PROVE  /\ AddedTrackers(counts, ids) \in [TrackerId -> 0 .. 2]
         /\ \A id \in TrackerId : AddedTrackers(counts, ids)[id] =
              IF id \in ids THEN OnceMore(counts[id]) ELSE counts[id]
BY DEF AddedTrackers, OnceMore

LEMMA WakesAdded ==
  ASSUME NEW counts \in [Mac -> 0 .. 2], NEW macs
  PROVE  /\ AddedWakes(counts, macs) \in [Mac -> 0 .. 2]
         /\ \A m \in Mac : AddedWakes(counts, macs)[m] =
              IF m \in macs THEN OnceMore(counts[m]) ELSE counts[m]
BY DEF AddedWakes, OnceMore

LEMMA NewWakes ==
  ASSUME ClientTypeOK, NEW macs
  PROVE  /\ Registered(macs) \in [Mac -> {"none", "disabled", "enabled"}]
         /\ \A m \in Mac : Registered(macs)[m] = "enabled" <=> wakeRows[m] = "enabled"
BY DEF ClientTypeOK, Registered

LEMMA PrefixedIds ==
  ASSUME NEW m \in Mac
  PROVE  Prefixed(m) \in TrackerId /\ Prefixed(m).mac = m /\ Prefixed(m).form = "prefixed"
BY DEF Prefixed, TrackerId

(* A button is added for who is not known yet.                             *)
LEMMA ButtonsAreAddedOnce ==
  ASSUME ClientInv, running, NEW macs, macs \cap knownWakes = {},
         wakes' = AddedWakes(wakes, macs), knownWakes' = knownWakes \cup macs,
         wakeRows' = Registered(macs), UNCHANGED enabledSince
  PROVE  /\ wakes' \in [Mac -> 0 .. 2] /\ wakeRows' \in [Mac -> {"none", "disabled", "enabled"}]
         /\ \A m \in Mac : wakes'[m] = (IF m \in knownWakes' THEN 1 ELSE 0)
         /\ \A m \in Mac : wakeRows'[m] = "enabled" /\ m \notin enabledSince' => wakes'[m] = 1
<1>1. ClientTypeOK /\ KnownAreAdded
  BY DEF ClientInv
<1>2. /\ wakes' \in [Mac -> 0 .. 2]
      /\ \A m \in Mac : wakes'[m] = IF m \in macs THEN OnceMore(wakes[m]) ELSE wakes[m]
  BY <1>1, WakesAdded DEF ClientTypeOK
<1>3. /\ wakeRows' \in [Mac -> {"none", "disabled", "enabled"}]
      /\ \A m \in Mac : wakeRows'[m] = "enabled" <=> wakeRows[m] = "enabled"
  BY <1>1, NewWakes
<1>4. ASSUME NEW m \in Mac PROVE wakes'[m] = (IF m \in knownWakes' THEN 1 ELSE 0)
  <2>1. wakes[m] = (IF m \in knownWakes THEN 1 ELSE 0)
    BY <1>1 DEF KnownAreAdded
  <2> QED BY <1>2, <2>1 DEF OnceMore
<1>5. ASSUME NEW m \in Mac, wakeRows'[m] = "enabled", m \notin enabledSince' PROVE wakes'[m] = 1
  <2>1. wakes[m] = 1 /\ m \in knownWakes
    BY <1>1, <1>3, <1>5 DEF KnownAreAdded
  <2> QED BY <1>4, <2>1
<1> QED BY <1>2, <1>3, <1>4, <1>5

LEMMA SetUpAddsOnce == ASSUME ClientInv, NEW published \in BOOLEAN, SetUp(published) PROVE ClientInv'
<1> DEFINE kept == Surviving(published, tracks)
           keptMacs == {id.mac : id \in kept}
           new == NewTrackers(published, tracks, keptMacs)
<1>1. ClientTypeOK
  BY DEF ClientInv
<1>2. /\ running' = TRUE /\ enabledSince' = {}
      /\ trackerRows' = kept \cup new
      /\ trackers' = AddedTrackers([id \in TrackerId |-> 0], kept \cup new)
      /\ knownMacs' = keptMacs \cup {id.mac : id \in new}
  BY DEF SetUp
<1>3. kept \subseteq TrackerId /\ new \subseteq TrackerId
  <2>1. Migrated \subseteq TrackerId
    BY <1>1, PrefixedIds DEF Migrated, ClientTypeOK, TrackerId
  <2> QED BY <2>1, PrefixedIds DEF Surviving, NewTrackers, Connected
<1>4. [id \in TrackerId |-> 0] \in [TrackerId -> 0 .. 2]
  OBVIOUS
<1> HIDE DEF kept, new
<1>5. /\ trackers' \in [TrackerId -> 0 .. 2]
      /\ \A id \in TrackerId : trackers'[id] = IF id \in trackerRows' THEN 1 ELSE 0
  BY <1>2, <1>4, TrackersAdded DEF OnceMore
<1>6. \A id \in trackerRows' : id.mac \in knownMacs'
  BY <1>2
<1>7. /\ wakes' \in [Mac -> 0 .. 2] /\ wakeRows' \in [Mac -> {"none", "disabled", "enabled"}]
      /\ \A m \in Mac : wakes'[m] = (IF m \in knownWakes' THEN 1 ELSE 0)
      /\ \A m \in Mac : wakeRows'[m] = "enabled" => wakes'[m] = 1
  <2> DEFINE restored == RestoredWakes(published)
             added == WakeableNow(published) \ restored
  <2>1. CASE control
    <3>1. /\ wakes' = AddedWakes([m \in Mac |-> 0], restored \cup added)
          /\ knownWakes' = restored \cup added /\ wakeRows' = Registered(added)
      BY <2>1 DEF SetUp
    <3>2. \A m \in Mac : wakeRows[m] = "enabled" => m \in restored
      BY DEF RestoredWakes
    <3> HIDE DEF restored, added
    <3>3. [m \in Mac |-> 0] \in [Mac -> 0 .. 2]
      OBVIOUS
    <3>4. /\ wakes' \in [Mac -> 0 .. 2]
          /\ \A m \in Mac : wakes'[m] = (IF m \in knownWakes' THEN 1 ELSE 0)
      BY <3>1, <3>3, WakesAdded DEF OnceMore
    <3>5. /\ wakeRows' \in [Mac -> {"none", "disabled", "enabled"}]
          /\ \A m \in Mac : wakeRows'[m] = "enabled" <=> wakeRows[m] = "enabled"
      BY <1>1, <3>1, NewWakes
    <3> QED BY <3>1, <3>2, <3>4, <3>5
  <2>2. CASE ~control
    BY <2>2 DEF SetUp
  <2> QED BY <2>1, <2>2
<1> QED BY <1>2, <1>3, <1>5, <1>6, <1>7 DEF ClientInv, ClientTypeOK, KnownAreAdded

LEMMA PublishedAddsOnce == ASSUME ClientInv, ClientsPublished PROVE ClientInv'
<1> DEFINE new == NewTrackers(TRUE, trackedTypes, knownMacs)
           added == IF control THEN WakeableNow(TRUE) \ knownWakes ELSE {}
<1>1. ClientTypeOK /\ KnownAreAdded /\ running
  BY DEF ClientInv, ClientsPublished
<1>2. /\ running' = running /\ UNCHANGED enabledSince
      /\ trackerRows' = trackerRows \cup new
      /\ trackers' = AddedTrackers(trackers, new)
      /\ knownMacs' = knownMacs \cup {id.mac : id \in new}
      /\ wakes' = AddedWakes(wakes, added)
      /\ knownWakes' = knownWakes \cup added
      /\ wakeRows' = Registered(added)
  BY DEF ClientsPublished
<1>3. new \subseteq TrackerId /\ \A id \in new : id \notin trackerRows
  <2>1. \A id \in new : id \in TrackerId /\ id.mac \notin knownMacs
    BY PrefixedIds DEF NewTrackers, Connected
  <2> QED BY <1>1, <2>1 DEF KnownAreAdded
<1>4. added \cap knownWakes = {}
  OBVIOUS
<1> HIDE DEF new, added
<1>5. /\ trackers' \in [TrackerId -> 0 .. 2]
      /\ \A id \in TrackerId : trackers'[id] = IF id \in new THEN OnceMore(trackers[id]) ELSE trackers[id]
  BY <1>1, <1>2, TrackersAdded DEF ClientTypeOK
<1>6. ASSUME NEW id \in TrackerId PROVE trackers'[id] = IF id \in trackerRows' THEN 1 ELSE 0
  <2>1. trackers[id] = IF id \in trackerRows THEN 1 ELSE 0
    BY <1>1 DEF KnownAreAdded
  <2> QED BY <1>2, <1>3, <1>5, <2>1 DEF OnceMore
<1>7. \A id \in trackerRows' : id.mac \in knownMacs'
  BY <1>1, <1>2 DEF KnownAreAdded
<1>8. /\ wakes' \in [Mac -> 0 .. 2] /\ wakeRows' \in [Mac -> {"none", "disabled", "enabled"}]
      /\ \A m \in Mac : wakes'[m] = (IF m \in knownWakes' THEN 1 ELSE 0)
      /\ \A m \in Mac : wakeRows'[m] = "enabled" /\ m \notin enabledSince' => wakes'[m] = 1
  BY <1>1, <1>2, <1>4, ButtonsAreAddedOnce
<1> QED BY <1>1, <1>2, <1>3, <1>5, <1>6, <1>7, <1>8 DEF ClientInv, ClientTypeOK, KnownAreAdded

LEMMA ClientRowsStep == ClientInv /\ [ClientRowsNext]_clientVars => ClientInv'
<1> SUFFICES ASSUME ClientInv, [ClientRowsNext]_clientVars PROVE ClientInv'
  OBVIOUS
<1>1. ClientTypeOK /\ KnownAreAdded /\ (~running => seeding = {})
  BY DEF ClientInv
<1>2. CASE UNCHANGED <<running, trackerRows, wakeRows, trackers, wakes, knownMacs, knownWakes, seeding,
                       enabledSince>>
  BY <1>1, <1>2 DEF ClientInv, ClientTypeOK, KnownAreAdded
<1>3. ASSUME NEW m \in Mac, UserSwitchesWake(m) PROVE ClientInv'
  BY <1>1, <1>3 DEF UserSwitchesWake, ClientInv, ClientTypeOK, KnownAreAdded
<1>4. ASSUME NEW published \in BOOLEAN, SetUp(published) PROVE ClientInv'
  BY <1>4, SetUpAddsOnce
<1>5. CASE ClientsPublished
  BY <1>5, PublishedAddsOnce
<1>6. ASSUME NEW seed \in seeding, NEW recent \in SUBSET Mac, HistoryAnswers(seed, recent) PROVE ClientInv'
  <2> DEFINE added == recent \ SeedKnown(seed)
  <2>1. /\ running /\ running' = running /\ added \cap knownWakes = {}
        /\ wakes' = AddedWakes(wakes, added) /\ knownWakes' = knownWakes \cup added
        /\ wakeRows' = Registered(added) /\ UNCHANGED <<trackerRows, trackers, knownMacs, enabledSince>>
    BY <1>1, <1>6 DEF HistoryAnswers, SeedKnown
  <2> HIDE DEF added
  <2>2. /\ wakes' \in [Mac -> 0 .. 2] /\ wakeRows' \in [Mac -> {"none", "disabled", "enabled"}]
        /\ \A m \in Mac : wakes'[m] = (IF m \in knownWakes' THEN 1 ELSE 0)
        /\ \A m \in Mac : wakeRows'[m] = "enabled" /\ m \notin enabledSince' => wakes'[m] = 1
    BY <2>1, ButtonsAreAddedOnce
  <2> QED BY <1>1, <2>1, <2>2 DEF ClientInv, ClientTypeOK, KnownAreAdded
<1>7. CASE HistoryFails
  BY <1>1, <1>7 DEF HistoryFails, ClientInv, ClientTypeOK, KnownAreAdded
<1>8. CASE ClientsUnload
  BY <1>1, <1>8 DEF ClientsUnload, ClientInv, ClientTypeOK, KnownAreAdded
<1> QED BY <1>2, <1>3, <1>4, <1>5, <1>6, <1>7, <1>8 DEF ClientRowsNext, clientVars, ClientMoves, OptionsChange

(* A tracker's row goes only with its client's way to be connected.        *)
LEMMA TrackersStay ==
  ASSUME ClientInv, [ClientRowsNext]_clientVars, NEW gone \in trackerRows \ trackerRows'
  PROVE  tracks = {} \/ Unwanted(gone.mac, tracks) \/ Prefixed(gone.mac) \in trackerRows'
<1>1. PICK published \in BOOLEAN : SetUp(published)
  BY DEF ClientRowsNext, clientVars, ClientMoves, OptionsChange, UserSwitchesWake, ClientsPublished,
         HistoryAnswers, HistoryFails, ClientsUnload
<1>2. Surviving(published, tracks) \subseteq trackerRows'
  BY <1>1 DEF SetUp
<1>3. gone \in TrackerId
  BY DEF ClientInv, ClientTypeOK
<1>4. SUFFICES ASSUME tracks # {} PROVE Unwanted(gone.mac, tracks) \/ Prefixed(gone.mac) \in trackerRows'
  OBVIOUS
<1>5. \A id \in Migrated : id \in trackerRows' \/ Unwanted(id.mac, tracks)
  BY <1>2, <1>4 DEF Surviving
<1>6. CASE gone.form = "prefixed" \/ Prefixed(gone.mac) \in trackerRows
  BY <1>5, <1>6 DEF Migrated
<1>7. CASE gone.form = "bare"
  <2>1. Prefixed(gone.mac) \in Migrated
    BY <1>7 DEF Migrated
  <2>2. Prefixed(gone.mac).mac = gone.mac
    BY DEF Prefixed
  <2> QED BY <1>5, <2>1, <2>2
<1> QED BY <1>3, <1>6, <1>7 DEF TrackerId

(* The entities of a network's clients are added once each, whoever finds  *)
(* a client first, and a tracker's row goes only when nothing is tracked   *)
(* or its client is connected another way: for any clients and setups.     *)
THEOREM ClientEntitiesStay == ClientRowsSpec => ClientEntitiesAreKept
<1>1. ClientRowsInit => ClientInv
  <2> SUFFICES ASSUME ClientRowsInit PROVE ClientInv
    OBVIOUS
  <2>1. ClientTypeOK
    <3>1. trackers \in [TrackerId -> 0 .. 2]
      BY DEF ClientRowsInit
    <3>2. wakes \in [Mac -> 0 .. 2]
      BY DEF ClientRowsInit
    <3>3. wakeRows \in [Mac -> {"none", "disabled", "enabled"}]
      BY DEF ClientRowsInit
    <3> QED BY <3>1, <3>2, <3>3 DEF ClientRowsInit, ClientTypeOK
  <2> QED BY <2>1 DEF ClientRowsInit, ClientInv, KnownAreAdded
<1>2. ClientInv => OneEntityEach
  BY DEF ClientInv, KnownAreAdded, OneEntityEach
<1>3. ClientInv /\ [ClientRowsNext]_clientVars =>
        [\A lost \in trackerRows \ trackerRows' :
           \/ tracks = {} \/ Unwanted(lost.mac, tracks)
           \/ Prefixed(lost.mac) \in trackerRows']_clientVars
  BY TrackersStay
<1> QED BY <1>1, <1>2, <1>3, ClientRowsStep, PTL
        DEF ClientRowsSpec, ClientEntitiesAreKept, AbsentClientsAreTracked

-----------------------------------------------------------------------------
(* MCEntry. What moves one part leaves the others alone, so a behaviour of *)
(* the composition is one of each part.                                    *)
LEMMA EntryPartsStart ==
  EntryInit => AccountInit /\ MobilityInit /\ SetupInit /\ IdentityInit /\ RowInit
BY DEF EntryInit

LEMMA EntryPartsStep ==
  [EntryNext]_entryVars =>
    /\ [AccountNext]_accountVars /\ [MobilityNext]_mobilityVars /\ [SetupNext]_setupVars
    /\ [IdentityNext]_identityVars /\ [RowNext]_rowVars
<1> SUFFICES ASSUME [EntryNext]_entryVars
             PROVE  /\ [AccountNext]_accountVars /\ [MobilityNext]_mobilityVars
                    /\ [SetupNext]_setupVars /\ [IdentityNext]_identityVars
                    /\ [RowNext]_rowVars
  OBVIOUS
<1> USE DEF EntryNext, OfAccount, OfMobility, OfSetup, OfIdentity, OfRows, entryVars
<1>1. AccountNext \/ UNCHANGED accountVars
  OBVIOUS
<1>2. MobilityNext \/ UNCHANGED mobilityVars
  OBVIOUS
<1>3. SetupNext \/ UNCHANGED setupVars
  OBVIOUS
<1>4. IdentityNext \/ UNCHANGED identityVars
  OBVIOUS
<1>5. RowNext \/ UNCHANGED rowVars
  OBVIOUS
<1>6. QED
  BY <1>1, <1>2, <1>3, <1>4, <1>5

(* Config entries in one installation, for any entries, keys, consoles and *)
(* rows, without any fairness: accounts are leased, a key is polled by one *)
(* entry and changes hands through nobody, an entry keeps its identity and *)
(* its rows follow, and a setup ends cleanly and on evidence.              *)
THEOREM EntriesAreSound ==
  EntryInit /\ [][EntryNext]_entryVars =>
    /\ []RowsFollowTheEntry /\ AccountsAreLeased /\ ImplementsSolePoller /\ IdentityIsKept
    /\ [](SetupTypeOK /\ VerdictsNeedEvidence /\ NothingLeftBehind)
<1> DEFINE Entries == EntryInit /\ [][EntryNext]_entryVars
<1>1. Entries => AccountSpec /\ IdentitySpec /\ RowSpec
  BY EntryPartsStart, EntryPartsStep, PTL DEF AccountSpec, IdentitySpec, RowSpec
<1>2. Entries => ImplementsSolePoller
  <2>1. MobilityInit => Owners!Init
    BY MobilityAssumption DEF MobilityInit, Owners!Init, PollersOf
  <2>2. MobilityInv /\ [MobilityNext]_mobilityVars => [Owners!Next]_PollersOf
    BY MobilityRefines
  <2>3. QED
    BY <2>1, <2>2, EntryPartsStart, EntryPartsStep, MobilityInitInv, MobilityStep, PTL
       DEF ImplementsSolePoller, Owners!Spec
<1>3. Entries => [](SetupTypeOK /\ VerdictsNeedEvidence /\ NothingLeftBehind)
  <2>1. SetupInv => SetupTypeOK /\ VerdictsNeedEvidence /\ NothingLeftBehind
    BY DEF SetupInv
  <2>2. QED
    BY <2>1, EntryPartsStart, EntryPartsStep, SetupInitially, SetupStep, PTL
<1>4. Entries => []RowsFollowTheEntry /\ AccountsAreLeased /\ IdentityIsKept
  BY <1>1, RowsAndEntryAgree, EntriesLeaseAccounts, EntriesKeepTheirIdentity
<1>5. QED
  BY <1>2, <1>3, <1>4
=============================================================================
