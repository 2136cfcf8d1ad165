---------------------------- MODULE EntryIdentity ----------------------------
(***************************************************************************)
(* Which console a local entry stands for. The config flow takes the       *)
(* console's MAC for the unique id if it can read it, else the address it  *)
(* was given; setup discovers the MAC later; a reconfigure may move the    *)
(* entry to another address and promote the address to the MAC. A          *)
(* reconfigure that clears the Access token, or leaves a console, first    *)
(* waits for that console's Access webhook to be removed.                  *)
(***************************************************************************)
EXTENDS Naturals

CONSTANTS
  LocalEntry,
  Console,    \* consoles; a console's MAC is the console itself
  Host,       \* addresses; an address is also an identity
  NoId,       \* no identity
  MaxEdits    \* bound: entries added or reconfigured, and addresses moved

ASSUME IdentityAssumption ==
  /\ Console \cap Host = {} /\ NoId \notin Console \cup Host
  /\ MaxEdits \in Nat

VARIABLES
  at,          \* the console that answers at each address
  entries,     \* the entries that exist
  host,        \* entry.data[CONF_HOST]
  consoleId,   \* entry.data[CONF_CONSOLE_ID]
  uniqueId,    \* entry.unique_id
  moving,      \* reconfigures waiting for the old console: the identity to save
  edits,
  waited       \* history: entries saved by a reconfigure that waited

identityVars == <<at, entries, host, consoleId, uniqueId, moving, edits, waited>>

Identity == Console \cup Host
NoMove == [id |-> NoId, host |-> NoId]

IdentityTypeOK ==
  /\ at \in [Host -> Console]
  /\ entries \subseteq LocalEntry /\ waited \subseteq LocalEntry
  /\ host \in [LocalEntry -> Host \cup {NoId}]
  /\ consoleId \in [LocalEntry -> Identity \cup {NoId}]
  /\ uniqueId \in [LocalEntry -> Identity \cup {NoId}]
  /\ moving \in [LocalEntry -> [id : Identity \cup {NoId}, host : Host \cup {NoId}]]
  /\ edits \in 0 .. MaxEdits

IdentityInit ==
  /\ at \in [Host -> Console]
  /\ entries = {} /\ waited = {}
  /\ host = [e \in LocalEntry |-> NoId]
  /\ consoleId = [e \in LocalEntry |-> NoId]
  /\ uniqueId = [e \in LocalEntry |-> NoId]
  /\ moving = [e \in LocalEntry |-> NoMove]
  /\ edits = 0

-----------------------------------------------------------------------------
Edit == edits < MaxEdits /\ edits' = edits + 1

(* async_entry_for_domain_unique_id finds another entry.                   *)
OwnedByAnother(id, e) == \E f \in entries \ {e} : uniqueId[f] = id

(* The network gives an address to another console.                        *)
Readdress(h, c) ==
  /\ Edit
  /\ at' = [at EXCEPT ![h] = c]
  /\ UNCHANGED <<entries, host, consoleId, uniqueId, moving, waited>>

(* What a validation of an address reads: the MAC of a console found among *)
(* its devices or its NVR, or nothing if they cannot be read.              *)
MacFound(h) == {at[h], NoId}

(* async_step_local: the MAC, or else the address, unless it is configured *)
(* already. Only a MAC is stored as the console id.                        *)
AddLocal(e, h) ==
  /\ Edit /\ e \notin entries
  /\ \E mac \in MacFound(h) :
       LET id == IF mac # NoId THEN mac ELSE h IN
       /\ ~OwnedByAnother(id, e)
       /\ entries' = entries \cup {e}
       /\ host' = [host EXCEPT ![e] = h]
       /\ consoleId' = [consoleId EXCEPT ![e] = mac]
       /\ uniqueId' = [uniqueId EXCEPT ![e] = id]
  /\ UNCHANGED <<at, moving, waited>>

(* The identity part of async_setup_entry, which runs without a wait: an   *)
(* entry without a console id takes the MAC setup found, or its address;   *)
(* and the unique id follows the console id if no other entry has it.      *)
Discover(e) ==
  /\ e \in entries
  /\ \E mac \in MacFound(host[e]) :
       LET id == IF consoleId[e] # NoId THEN consoleId[e]
                 ELSE IF mac # NoId THEN mac ELSE host[e] IN
       /\ consoleId' = [consoleId EXCEPT ![e] = id]
       /\ uniqueId' = [uniqueId EXCEPT ![e] = IF OwnedByAnother(id, e) THEN @ ELSE id]
  /\ UNCHANGED <<at, entries, host, moving, edits, waited>>

(* _async_update_site_entry_and_abort, when the registry follows.          *)
SaveIdentity(e, id, h) ==
  /\ consoleId' = [consoleId EXCEPT ![e] = id]
  /\ uniqueId' = [uniqueId EXCEPT ![e] = id]
  /\ host' = [host EXCEPT ![e] = h]

(* _async_reconfigure_local: the identity to save is the MAC read at the   *)
(* new address, else the stored one; another MAC than the stored one, or   *)
(* an identity another entry owns, ends the flow.                          *)
Accepted_AnyMac(e, id) == id # uniqueId[e] => ~OwnedByAnother(id, e)

Accepted_Unowned(e, id) ==
  LET current == IF consoleId[e] # NoId THEN consoleId[e] ELSE uniqueId[e] IN
  current \in Console /\ id \in Console => id = current

NewIdentity(e, mac) ==
  IF mac # NoId THEN mac
  ELSE IF consoleId[e] # NoId THEN consoleId[e] ELSE uniqueId[e]

Accepted(e, id) ==
  LET current == IF consoleId[e] # NoId THEN consoleId[e] ELSE uniqueId[e] IN
  /\ current \in Console /\ id \in Console => id = current
  /\ id # uniqueId[e] => ~OwnedByAnother(id, e)

Reconfigure(e, h) ==
  /\ Edit /\ e \in entries /\ moving[e] = NoMove
  /\ \E mac \in MacFound(h) :
       LET id == NewIdentity(e, mac) IN
       /\ Accepted(e, id)
       /\ \/ SaveIdentity(e, id, h) /\ UNCHANGED moving
          \/ /\ consoleId[e] # NoId   \* it was set up, with a webhook that goes now
             /\ moving' = [moving EXCEPT ![e] = [id |-> id, host |-> h]]
             /\ UNCHANGED <<consoleId, uniqueId, host>>
  /\ UNCHANGED <<at, entries, waited>>

(* The old console confirmed the webhook gone, or did not.                 *)
MoveEnds(e) ==
  /\ moving[e] # NoMove
  /\ moving' = [moving EXCEPT ![e] = NoMove]
  /\ \/ SaveIdentity(e, moving[e].id, moving[e].host) /\ waited' = waited \cup {e}
     \/ UNCHANGED <<consoleId, uniqueId, host, waited>>
  /\ UNCHANGED <<at, entries, edits>>

Remove(e) ==
  /\ e \in entries /\ moving[e] = NoMove
  /\ entries' = entries \ {e}
  /\ host' = [host EXCEPT ![e] = NoId]
  /\ consoleId' = [consoleId EXCEPT ![e] = NoId]
  /\ uniqueId' = [uniqueId EXCEPT ![e] = NoId]
  /\ waited' = waited \ {e}
  /\ UNCHANGED <<at, moving, edits>>

IdentityNext ==
  \/ \E h \in Host, c \in Console : Readdress(h, c)
  \/ \E e \in LocalEntry :
       \/ \E h \in Host : AddLocal(e, h) \/ Reconfigure(e, h)
       \/ Discover(e) \/ MoveEnds(e) \/ Remove(e)

IdentitySpec == IdentityInit /\ [][IdentityNext]_identityVars

-----------------------------------------------------------------------------
(* An entry that was identified with a console's MAC stays with that       *)
(* console: no setup, reconfigure or change of address makes it another    *)
(* console's, though the address may come to be another console's.         *)
HardwareIsKept ==
  [][\A e \in entries \cap entries' :
       consoleId[e] \in Console => consoleId'[e] = consoleId[e]]_identityVars

(* Two entries never have one unique id, unless one of them was saved by a *)
(* reconfigure that waited between its check and its save.                 *)
OneEntryPerConsole ==
  \A e, f \in entries : uniqueId[e] = uniqueId[f] => e = f \/ {e, f} \cap waited # {}

(* An entry stands for one console, and no other entry stands for it.      *)
IdentityIsKept == HardwareIsKept /\ [](IdentityTypeOK /\ OneEntryPerConsole)
=============================================================================
