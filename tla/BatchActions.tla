---------------------------- MODULE BatchActions ----------------------------
(***************************************************************************)
(* The two service actions that work through several consoles in one call: *)
(* remove_clients reads the client history of every site of every console  *)
(* and forgets the clients nobody knows, refresh_data polls every console  *)
(* or those with a site. A request that fails is noted and the rest still  *)
(* done. Users name clients, and clients come back, meanwhile.             *)
(***************************************************************************)
EXTENDS Naturals, FiniteSets

CONSTANTS
  Guest,         \* clients in the histories
  Spot,          \* the sites of the consoles, as one list
  SpotOf,        \* the site whose history has each client
  MaxChanges     \* bound: changes the users and the clients make

ASSUME BatchAssumption == SpotOf \in [Guest -> Spot] /\ MaxChanges \in Nat

VARIABLES
  history,    \* each client's record: whether it has a name, and its span
  usable,     \* the sites of consoles that have Network
  batch,      \* the call in progress
  forgotten,  \* clients the consoles no longer know
  changes,
  knownAtStart \* the clients that had a name when the call came, and kept it

batchVars == <<history, usable, batch, forgotten, changes, knownAtStart>>

(* The time between first_seen and last_seen: at most CLIENT_REMOVAL_MAX_- *)
(* SEEN_SECONDS, more, one of them missing or zero, or not a number.       *)
Span == {"short", "long", "missing", "unreadable"}
NoBatch == [action |-> "none", asked |-> {}, left |-> {}, now |-> {}, eligible |-> {},
            failures |-> {}, tried |-> {}, raised |-> FALSE]

BatchTypeOK ==
  /\ history \in [Guest -> [named : BOOLEAN, span : Span]]
  /\ usable \subseteq Spot /\ forgotten \subseteq Guest /\ knownAtStart \subseteq Guest
  /\ batch.left \subseteq Spot /\ batch.failures \subseteq Spot
  /\ changes \in 0 .. MaxChanges

BatchInit ==
  /\ history \in [Guest -> [named : BOOLEAN, span : Span]]
  /\ usable \in SUBSET Spot
  /\ batch = NoBatch /\ forgotten = {} /\ changes = 0 /\ knownAtStart = {}

(* _filter_clients_for_removal.                                            *)
Eligible_ByAge(record) == record.span \in {"short", "missing"}
Eligible(record) == ~record.named /\ record.span \in {"short", "missing"}

Idle == batch.action = "none" \/ (batch.left = {} /\ batch.now = {})

-----------------------------------------------------------------------------
(* The consoles and their sites are listed once, when the call comes.      *)
RemoveClients ==
  /\ Idle /\ usable # {}
  /\ batch' = [NoBatch EXCEPT !.action = "remove", !.asked = usable, !.left = usable]
  /\ knownAtStart' = {x \in Guest : history[x].named}
  /\ UNCHANGED <<history, usable, forgotten, changes>>

RefreshData(spots) ==
  /\ Idle /\ spots # {}
  /\ batch' = [NoBatch EXCEPT !.action = "refresh", !.asked = spots, !.left = spots]
  /\ knownAtStart' = {}
  /\ UNCHANGED <<history, usable, forgotten, changes>>

Begin(p) ==
  /\ batch.action # "none" /\ batch.now = {} /\ p \in batch.left
  /\ batch' = [batch EXCEPT !.left = @ \ {p}, !.now = {p}, !.tried = @ \cup {p}, !.eligible = {}]
  /\ UNCHANGED <<history, usable, forgotten, changes, knownAtStart>>

(* The call is over, and raises, when the last site is done and one failed.*)
SiteDone(failures) == [batch EXCEPT !.now = {}, !.eligible = {}, !.failures = failures,
                                   !.raised = batch.left = {} /\ failures # {}]

Fail_EndsTheCall(p) ==
  /\ p \in batch.now
  /\ batch' = [SiteDone(batch.failures \cup {p}) EXCEPT !.left = {}, !.raised = TRUE]
  /\ UNCHANGED <<history, usable, forgotten, changes, knownAtStart>>

(* The refresh of a console, or a request about a site, fails: the next    *)
(* one is still begun.                                                     *)
Fail(p) ==
  /\ p \in batch.now
  /\ batch' = SiteDone(batch.failures \cup {p})
  /\ UNCHANGED <<history, usable, forgotten, changes, knownAtStart>>

Refreshed(p) ==
  /\ batch.action = "refresh" /\ p \in batch.now
  /\ batch' = SiteDone(batch.failures)
  /\ UNCHANGED <<history, usable, forgotten, changes, knownAtStart>>

(* The history of a site: without clients to forget the site is done.      *)
HistoryRead(p) ==
  /\ batch.action = "remove" /\ p \in batch.now /\ batch.eligible = {}
  /\ LET eligible == {x \in Guest \ forgotten : SpotOf[x] = p /\ Eligible(history[x])} IN
     batch' = IF eligible = {} THEN SiteDone(batch.failures)
              ELSE [batch EXCEPT !.eligible = eligible]
  /\ UNCHANGED <<history, usable, forgotten, changes, knownAtStart>>

(* forget_batch: one request for all that were picked.                     *)
Forget(p) ==
  /\ batch.action = "remove" /\ p \in batch.now /\ batch.eligible # {}
  /\ forgotten' = forgotten \cup batch.eligible
  /\ batch' = SiteDone(batch.failures)
  /\ UNCHANGED <<history, usable, changes, knownAtStart>>

(* Users name clients and take the names back, clients come back.          *)
Rename(x) ==
  /\ changes < MaxChanges /\ changes' = changes + 1
  /\ history' = [history EXCEPT ![x].named = ~@]
  /\ knownAtStart' = knownAtStart \ {x}
  /\ UNCHANGED <<usable, batch, forgotten>>

ComesBack(x, span) ==
  /\ changes < MaxChanges /\ changes' = changes + 1
  /\ history' = [history EXCEPT ![x].span = span]
  /\ UNCHANGED <<usable, batch, forgotten, knownAtStart>>

BatchNext ==
  \/ RemoveClients
  \/ \E spots \in SUBSET Spot : RefreshData(spots)
  \/ \E p \in Spot : Begin(p) \/ Fail(p) \/ Refreshed(p) \/ HistoryRead(p) \/ Forget(p)
  \/ \E x \in Guest : Rename(x) \/ ComesBack(x, "long")

BatchSpec == BatchInit /\ [][BatchNext]_batchVars

-----------------------------------------------------------------------------
(* A call that is over has tried every console it was for, whichever of    *)
(* the others failed, and raises exactly when one did.                     *)
OneFailureStopsNothing ==
  batch.action # "none" /\ batch.left = {} /\ batch.now = {} =>
    batch.tried = batch.asked /\ (batch.raised <=> batch.failures # {})

(* A client that has had a name since the call came is not forgotten by    *)
(* it, nor is one of a site that could not be read.                        *)
KnownClientsStay ==
  [][\A x \in forgotten' \ forgotten :
       x \notin knownAtStart /\ SpotOf[x] \in batch.tried \ batch.failures]_batchVars

(* A call for several consoles does all it can and no more than it may.    *)
BatchesAreComplete == [](BatchTypeOK /\ OneFailureStopsNothing) /\ KnownClientsStay
=============================================================================
