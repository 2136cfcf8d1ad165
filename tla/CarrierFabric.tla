---------------------------- MODULE CarrierFabric ---------------------------
(***************************************************************************)
(* Suspending and resuming the subscribers of Carrier Fabric accounts. A   *)
(* call names a device of the registry, an entity of it or a subscriber    *)
(* id; the account is the one whose entry owns the device. The request is  *)
(* repeated once when the provider reports a write conflict, and the       *)
(* account is polled before the call returns. A poll lists the subscribers *)
(* and counts them; the timer's polls run beside the calls.                *)
(***************************************************************************)
EXTENDS Naturals, FiniteSets

CONSTANTS
  CarrierEntry,     \* Carrier Fabric accounts
  Subscriber,       \* subscriber ids; two accounts may list one
  NoEntry,
  MaxCarrierWork    \* bound: polls and calls begun

ASSUME CarrierAssumption ==
  /\ NoEntry \notin CarrierEntry /\ MaxCarrierWork \in Nat
  /\ IsFiniteSet(CarrierEntry) /\ IsFiniteSet(Subscriber)

VARIABLES
  listedBy,       \* the subscribers of each account
  suspended,      \* what the provider has: <<account, subscriber>>
  enabledActions, \* accounts whose options allow the actions
  up,             \* accounts whose entry is loaded
  shown,          \* what each coordinator publishes
  answering,      \* accounts whose last poll succeeded: last_update_success
  polls,          \* polls in progress: the account and what was read
  carrierCall,    \* the call in progress
  work

carrierVars == <<listedBy, suspended, enabledActions, up, shown, answering, polls,
                 carrierCall, work>>

NoCarrierCall == [phase |-> "none", device |-> NoEntry, entry |-> NoEntry, sub |-> NoEntry, want |-> FALSE,
                  requests |-> 0, answer |-> "none"]

(* The published data: the subscribers and the counts made of the list.    *)
Summary(listed, susp) ==
  [subscribers |-> listed, suspended |-> susp,
   total |-> Cardinality(listed), suspendedCount |-> Cardinality(susp)]

CarrierTypeOK ==
  /\ suspended \subseteq CarrierEntry \X Subscriber
  /\ enabledActions \subseteq CarrierEntry /\ up \subseteq CarrierEntry
  /\ answering \subseteq CarrierEntry
  /\ \A p \in polls : p.entry \in CarrierEntry
  /\ carrierCall.phase \in {"none", "asking", "again", "refresh", "reading", "done"}
  /\ work \in 0 .. MaxCarrierWork

CarrierInit ==
  /\ listedBy \in [CarrierEntry -> SUBSET Subscriber]
  /\ suspended = {}
  /\ enabledActions \in SUBSET CarrierEntry /\ up \in SUBSET CarrierEntry
  /\ shown = [e \in CarrierEntry |-> Summary({}, {})]
  /\ answering = CarrierEntry
  /\ polls = {} /\ carrierCall = NoCarrierCall /\ work = 0

SuspendedOf(e) == {s \in listedBy[e] : <<e, s>> \in suspended}
Working == work < MaxCarrierWork /\ work' = work + 1

-----------------------------------------------------------------------------
(* A poll: the list is read, later it is published. A poll that fails      *)
(* keeps what was published, and the account's entities are unavailable    *)
(* until one succeeds.                                                     *)
ReadList(e) ==
  /\ Working /\ e \in up
  /\ polls' = polls \cup {[entry |-> e, by |-> "timer",
                           read |-> Summary(listedBy[e], SuspendedOf(e))]}
  /\ UNCHANGED <<listedBy, suspended, enabledActions, up, shown, answering, carrierCall>>

PublishList(p) ==
  /\ p \in polls /\ p.by = "timer" /\ polls' = polls \ {p}
  /\ shown' = [shown EXCEPT ![p.entry] = p.read]
  /\ answering' = answering \cup {p.entry}
  /\ UNCHANGED <<listedBy, suspended, enabledActions, up, carrierCall, work>>

PollFails(p) ==
  /\ p \in polls /\ p.by = "timer" /\ polls' = polls \ {p}
  /\ answering' = answering \ {p.entry}
  /\ UNCHANGED <<listedBy, suspended, enabledActions, up, shown, carrierCall, work>>

OwnersOf_FirstEntry(s, device) ==
  LET listing == {e \in CarrierEntry : s \in listedBy[e]}
  IN IF listing = {} THEN {} ELSE {CHOOSE e \in listing : TRUE}

(* resolve_carrier_subscriber_call. The device of a subscriber belongs to  *)
(* one entry; a bare id names the devices of every entry that lists it,    *)
(* loaded or not.                                                          *)
OwnersOf(s, device) ==
  IF device # NoEntry THEN {device} \cap {e \in CarrierEntry : s \in listedBy[e]}
  ELSE {e \in CarrierEntry : s \in listedBy[e]}

CarrierAnswer(s, device) ==
  LET owners == OwnersOf(s, device) IN
  IF Cardinality(owners) # 1 THEN "notOne"
  ELSE IF ~(owners \subseteq up) THEN "notLoaded"
  ELSE IF ~(owners \subseteq enabledActions) THEN "disabled"
  ELSE "accepted"

CarrierRequest(s, device, want) ==
  /\ carrierCall.phase \in {"none", "done"} /\ Working
  /\ LET answer == CarrierAnswer(s, device)
         call == [NoCarrierCall EXCEPT !.sub = s, !.device = device, !.want = want, !.answer = answer]
     IN carrierCall' = IF answer # "accepted" THEN [call EXCEPT !.phase = "done"]
                       ELSE [call EXCEPT !.phase = "asking",
                                         !.entry = CHOOSE e \in OwnersOf(s, device) : TRUE]
  /\ UNCHANGED <<listedBy, suspended, enabledActions, up, shown, answering, polls>>

(* The request: done, done although the answer was lost, in conflict with  *)
(* another write, or failed. Only the first conflict is tried again.       *)
Asking == carrierCall.phase \in {"asking", "again"}
Apply == suspended' = IF carrierCall.want THEN suspended \cup {<<carrierCall.entry, carrierCall.sub>>}
                      ELSE suspended \ {<<carrierCall.entry, carrierCall.sub>>}

CarrierAnswered_NoRefresh ==
  /\ Asking /\ Apply
  /\ carrierCall' = [carrierCall EXCEPT !.phase = "done", !.requests = @ + 1,
                                        !.answer = "ok"]
  /\ UNCHANGED <<listedBy, enabledActions, up, shown, answering, polls, work>>

CarrierAnswered ==
  /\ Asking /\ Apply
  /\ carrierCall' = [carrierCall EXCEPT !.phase = "refresh", !.requests = @ + 1]
  /\ UNCHANGED <<listedBy, enabledActions, up, shown, answering, polls, work>>

CarrierConflict ==
  /\ Asking /\ UNCHANGED suspended
  /\ carrierCall' = IF carrierCall.phase = "asking"
                    THEN [carrierCall EXCEPT !.phase = "again", !.requests = 1]
                    ELSE [carrierCall EXCEPT !.phase = "done", !.requests = 2, !.answer = "failed"]
  /\ UNCHANGED <<listedBy, enabledActions, up, shown, answering, polls, work>>

CarrierFails ==
  /\ Asking /\ (UNCHANGED suspended \/ Apply)
  /\ carrierCall' = [carrierCall EXCEPT !.phase = "done", !.requests = @ + 1, !.answer = "failed"]
  /\ UNCHANGED <<listedBy, enabledActions, up, shown, answering, polls, work>>

(* The poll at the end of the call. It does not wait for, nor stop, a poll *)
(* of the timer. async_refresh does not raise: when the poll fails the     *)
(* call has still succeeded, the old data stays published, and the account *)
(* counts as not answering.                                                *)
CarrierRefresh ==
  /\ carrierCall.phase = "refresh"
  /\ LET e == carrierCall.entry IN
     polls' = polls \cup {[entry |-> e, by |-> "call", read |-> Summary(listedBy[e], SuspendedOf(e))]}
  /\ carrierCall' = [carrierCall EXCEPT !.phase = "reading"]
  /\ UNCHANGED <<listedBy, suspended, enabledActions, up, shown, answering, work>>

CarrierDone_KeepsAvailable(ok) ==
  /\ carrierCall.phase = "reading"
  /\ \E p \in polls :
       /\ p.by = "call" /\ polls' = polls \ {p}
       /\ shown' = IF ok THEN [shown EXCEPT ![p.entry] = p.read] ELSE shown
  /\ carrierCall' = [carrierCall EXCEPT !.phase = "done", !.answer = "ok"]
  /\ UNCHANGED <<listedBy, suspended, enabledActions, up, answering, work>>

CarrierDone(ok) ==
  /\ carrierCall.phase = "reading"
  /\ \E p \in polls :
       /\ p.by = "call" /\ polls' = polls \ {p}
       /\ shown' = IF ok THEN [shown EXCEPT ![p.entry] = p.read] ELSE shown
       /\ answering' = IF ok THEN answering \cup {p.entry} ELSE answering \ {p.entry}
  /\ carrierCall' = [carrierCall EXCEPT !.phase = "done", !.answer = "ok"]
  /\ UNCHANGED <<listedBy, suspended, enabledActions, up, work>>

(* The account suspends a subscriber itself.                               *)
AccountChange(e, s) ==
  /\ s \in listedBy[e] /\ <<e, s>> \notin suspended /\ Working
  /\ suspended' = suspended \cup {<<e, s>>}
  /\ UNCHANGED <<listedBy, enabledActions, up, shown, answering, polls, carrierCall>>

CarrierNext ==
  \/ \E e \in CarrierEntry : ReadList(e)
  \/ \E p \in polls : PublishList(p) \/ PollFails(p)
  \/ \E s \in Subscriber, device \in CarrierEntry \cup {NoEntry}, want \in BOOLEAN :
       CarrierRequest(s, device, want)
  \/ CarrierAnswered \/ CarrierConflict \/ CarrierFails \/ CarrierRefresh
  \/ \E ok \in BOOLEAN : CarrierDone(ok)
  \/ \E e \in CarrierEntry, s \in Subscriber : AccountChange(e, s)

CarrierSpec == CarrierInit /\ [][CarrierNext]_carrierVars

-----------------------------------------------------------------------------
(* A request is only made to a loaded account that allows it, the one the  *)
(* caller named by a device, or the only one that lists the subscriber: an *)
(* id that two accounts list is never guessed, and a call repeats its      *)
(* request once at most.                                                   *)
NoAccountIsGuessed ==
  carrierCall.phase \in {"asking", "again", "refresh", "reading"} =>
    /\ carrierCall.entry \in up \cap enabledActions
    /\ carrierCall.sub \in listedBy[carrierCall.entry]
    /\ \/ carrierCall.device = carrierCall.entry
       \/ \A e \in CarrierEntry \ {carrierCall.entry} : carrierCall.sub \notin listedBy[e]
    /\ carrierCall.requests <= 2

(* Whenever a call returns without an error, be its final poll answered or *)
(* not, a suspension that was asked for is in place, and the account       *)
(* either shows the subscriber as the call left it, or as a later change   *)
(* did, with counts that fit, or is not answering: its entities are        *)
(* unavailable. It never offers the state before the call as current.      *)
CallShowsItsResult ==
  [][carrierCall'.answer = "ok" /\ carrierCall.phase # "done" /\ carrierCall'.phase = "done" =>
       LET now == shown'[carrierCall'.entry]
           inPlace == <<carrierCall'.entry, carrierCall'.sub>> \in suspended' IN
       /\ carrierCall'.want => inPlace
       /\ carrierCall'.entry \in answering' =>
            /\ carrierCall'.want => carrierCall'.sub \in now.suspended
            /\ carrierCall'.sub \in now.suspended => inPlace
            /\ now.suspendedCount <= now.total]_carrierVars

(* A Carrier call is made to the right account, does what was asked and    *)
(* shows it or makes the account unavailable.                              *)
CarrierCallsAreSound == [](CarrierTypeOK /\ NoAccountIsGuessed) /\ CallShowsItsResult
=============================================================================
