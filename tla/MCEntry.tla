------------------------------ MODULE MCEntry ------------------------------
(***************************************************************************)
(* Config entries, from the flow that makes them to their unload: the      *)
(* setup of one, its identity, the registry rows of its site entities, and *)
(* what remote entries share, an account and the polling of Mobility. The  *)
(* five share no state, so each behaviour moves one of them.               *)
(***************************************************************************)
EXTENDS SharedAccount, MobilityOwner, EntrySetup, EntryIdentity, SiteRows

VARIABLE part

entryVars == <<part, accountVars, mobilityVars, setupVars, identityVars, rowVars>>

EntryInit ==
  /\ part \in {"account", "mobility", "setup", "identity", "rows"}
  /\ AccountInit /\ MobilityInit /\ SetupInit /\ IdentityInit /\ RowInit
  /\ part # "account" => \A e \in Entry : apiKey[e] = CHOOSE k \in Key : TRUE
  /\ part # "mobility" => enabled = {} /\ \A e \in Remote : cloudKey[e] = CHOOSE k \in CloudKey : TRUE
  /\ part # "setup" => ~remote
  /\ part # "identity" => \A h \in Host : at[h] = CHOOSE c \in Console : TRUE
  /\ part # "rows" => namespace = Unset /\ foreign = {}

OfAccount(action) ==
  part = "account" /\ action /\ UNCHANGED <<part, mobilityVars, setupVars, identityVars, rowVars>>
OfMobility(action) ==
  part = "mobility" /\ action /\ UNCHANGED <<part, accountVars, setupVars, identityVars, rowVars>>
OfSetup(action) ==
  part = "setup" /\ action /\ UNCHANGED <<part, accountVars, mobilityVars, identityVars, rowVars>>
OfIdentity(action) ==
  part = "identity" /\ action /\ UNCHANGED <<part, accountVars, mobilityVars, setupVars, rowVars>>
OfRows(action) ==
  part = "rows" /\ action /\ UNCHANGED <<part, accountVars, mobilityVars, setupVars, identityVars>>

EntryNext ==
  \/ OfAccount(AccountNext) \/ OfMobility(MobilityNext) \/ OfSetup(SetupNext)
  \/ OfIdentity(IdentityNext) \/ OfRows(RowNext)

(* The fairness of the parts.                                              *)
EntrySpec ==
  /\ EntryInit /\ [][EntryNext]_entryVars
  /\ \A e \in Remote : WF_entryVars(OfMobility(Progress(e)))
  /\ WF_entryVars(OfSetup(SetupProgress))
=============================================================================
