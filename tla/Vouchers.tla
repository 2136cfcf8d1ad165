------------------------------ MODULE Vouchers ------------------------------
(***************************************************************************)
(* The hotspot vouchers of one site in the config coordinator. The poll    *)
(* fetches the inventory somewhere in the middle of its cycle and commits  *)
(* it at the end; generating and deleting a voucher each end in a fetch of *)
(* their own, committed at once. Each fetch takes a number before it asks, *)
(* and a commit whose number is below the last committed one is dropped.   *)
(* A fetch that fails yields a copy of the inventory published just then.  *)
(* Beside the inventory the voucher last generated here is kept, and       *)
(* refreshed from each inventory that is committed.                        *)
(***************************************************************************)
EXTENDS Integers

CONSTANTS
  Voucher,
  None,         \* no voucher
  Poll,         \* config polls: overlapping ones are possible (async_refresh)
  VoucherCommand,      \* callers that generate or delete a voucher
  MaxFetches,   \* bound: fetches of the inventory
  MaxChanges    \* bound: changes of the console's inventory

ASSUME VoucherAssumption ==
  /\ MaxFetches \in Nat /\ MaxChanges \in Nat
  /\ Poll \cap VoucherCommand = {}
  /\ None \notin Voucher

VARIABLES
  atSite,         \* the console's inventory
  version,        \* history: number of changes to it
  listed,         \* is the site in data["sites"]?
  inventory,      \* data["vouchers"][site_id]
  latest,         \* data["latest_vouchers"][site_id]
  failedVouchers, \* is ("vouchers", site_id) in _failed_sections?
  requestSeq,     \* _voucher_site_request_seq
  committedSeq,   \* _voucher_site_committed_seq
  fetch,          \* the polls and commands in progress
  confirmed       \* history: the newest change whose own fetch was committed
                  \* (since the site was listed)

voucherVars == <<atSite, version, listed, inventory, latest, failedVouchers, requestSeq,
                 committedSeq, fetch, confirmed>>

Task == Poll \cup VoucherCommand
Status == {"absent", "active", "expired"}
Vouchers == [Voucher -> Status]
Empty == [v \in Voucher |-> "absent"]

(* An inventory with its history: the console's version it shows, and how  *)
(* it was obtained.                                                        *)
Origin == {"none", "answer", "unsupported", "copy"}
Inventory == [vouchers : Vouchers, asOf : 0 .. MaxChanges, origin : Origin]
NoInventory == [vouchers |-> Empty, asOf |-> 0, origin |-> "none"]

NoLatest == [id |-> None, status |-> "absent"]
NoFetch == [phase |-> "idle", seq |-> 0, result |-> NoInventory, voucher |-> None, wrote |-> 0]

VoucherTypeOK ==
  /\ atSite \in Vouchers
  /\ version \in 0 .. MaxChanges
  /\ listed \in BOOLEAN
  /\ inventory \in Inventory
  /\ latest \in [id : Voucher \cup {None}, status : Status]
  /\ failedVouchers \in BOOLEAN
  /\ requestSeq \in 0 .. MaxFetches
  /\ committedSeq \in 0 .. MaxFetches
  /\ fetch \in [Task -> [phase : {"idle", "created", "deleted", "fetching", "held"},
                         seq : 0 .. MaxFetches, result : Inventory,
                         voucher : Voucher \cup {None}, wrote : 0 .. MaxChanges]]
  /\ confirmed \in 0 .. MaxChanges

VoucherInit ==
  /\ atSite = Empty
  /\ version = 0
  /\ listed = FALSE
  /\ inventory = NoInventory
  /\ latest = NoLatest
  /\ failedVouchers = FALSE
  /\ requestSeq = 0
  /\ committedSeq = 0
  /\ fetch = [t \in Task |-> NoFetch]
  /\ confirmed = 0

-----------------------------------------------------------------------------
(* The console's own changes: a voucher expires, or is deleted there.      *)
InventoryChanges(v) ==
  /\ version < MaxChanges
  /\ version' = version + 1
  /\ \/ atSite[v] = "active" /\ atSite' = [atSite EXCEPT ![v] = "expired"]
     \/ atSite[v] # "absent" /\ atSite' = [atSite EXCEPT ![v] = "absent"]
  /\ UNCHANGED <<listed, inventory, latest, failedVouchers, requestSeq, committedSeq,
                 fetch, confirmed>>

(* What the kept voucher becomes when an inventory is published: its       *)
(* record there, except that an expired voucher stays expired. A voucher   *)
(* the inventory lacks keeps its record.                                   *)
Refreshed_Trusting(record, vouchers) ==
  IF record.id = None \/ vouchers[record.id] = "absent" THEN record
  ELSE [record EXCEPT !.status = vouchers[record.id]]

Refreshed(record, vouchers) ==
  IF record.id = None \/ vouchers[record.id] = "absent" \/ record.status = "expired"
  THEN record
  ELSE [record EXCEPT !.status = vouchers[record.id]]

-----------------------------------------------------------------------------
(* A task asks for the inventory: the number is taken before the request.  *)
Asks(t, voucher, wrote) ==
  /\ requestSeq < MaxFetches
  /\ requestSeq' = requestSeq + 1
  /\ fetch' = [fetch EXCEPT ![t] = [phase |-> "fetching", seq |-> requestSeq + 1,
                                    result |-> NoInventory, voucher |-> voucher,
                                    wrote |-> wrote]]

(* The poll found the site in the console's list.                          *)
PollAsks(p) ==
  /\ fetch[p].phase = "idle"
  /\ Asks(p, None, 0)
  /\ UNCHANGED <<atSite, version, listed, inventory, latest, failedVouchers, committedSeq,
                 confirmed>>

(* The poll did not: the site is deselected, or gone. If none is left, the *)
(* sections are cleared but the failed sections are kept.                  *)
PollDropsSite(othersLeft) ==
  /\ listed
  /\ listed' = FALSE
  /\ inventory' = NoInventory
  /\ failedVouchers' = (failedVouchers /\ ~othersLeft)
  /\ confirmed' = 0
  /\ UNCHANGED <<atSite, version, latest, requestSeq, committedSeq, fetch>>

(* The create and delete commands reach the console ...                    *)
Generates(c, v) ==
  /\ fetch[c].phase = "idle" /\ version < MaxChanges
  /\ atSite[v] = "absent" /\ inventory.vouchers[v] = "absent" /\ latest.id # v
  /\ \A t \in Task : fetch[t].voucher # v /\ fetch[t].result.vouchers[v] = "absent"
  /\ atSite' = [atSite EXCEPT ![v] = "active"]
  /\ version' = version + 1
  /\ fetch' = [fetch EXCEPT ![c] = [NoFetch EXCEPT !.phase = "created", !.voucher = v,
                                                   !.wrote = version + 1]]
  /\ UNCHANGED <<listed, inventory, latest, failedVouchers, requestSeq, committedSeq,
                 confirmed>>

Deletes(c, v) ==
  /\ fetch[c].phase = "idle" /\ version < MaxChanges
  /\ atSite[v] # "absent" /\ inventory.vouchers[v] # "absent"
  /\ atSite' = [atSite EXCEPT ![v] = "absent"]
  /\ version' = version + 1
  /\ fetch' = [fetch EXCEPT ![c] = [NoFetch EXCEPT !.phase = "deleted", !.voucher = v,
                                                   !.wrote = version + 1]]
  /\ UNCHANGED <<listed, inventory, latest, failedVouchers, requestSeq, committedSeq,
                 confirmed>>

(* ... and are answered: the kept voucher follows, then the fetch of the   *)
(* command's own starts, unless the site has left the data.                *)
Publishes(c) ==
  latest' = CASE fetch[c].phase = "created" ->
                   Refreshed([id |-> fetch[c].voucher, status |-> "active"],
                             inventory.vouchers)
              [] fetch[c].phase = "deleted" /\ latest.id = fetch[c].voucher -> NoLatest
              [] OTHER -> latest

CommandAnswered(c) ==
  /\ fetch[c].phase \in {"created", "deleted"}
  /\ Publishes(c)
  /\ \/ listed /\ Asks(c, fetch[c].voucher, fetch[c].wrote)
     \/ /\ ~listed
        /\ fetch' = [fetch EXCEPT ![c] = NoFetch]
        /\ UNCHANGED requestSeq
  /\ UNCHANGED <<atSite, version, listed, inventory, failedVouchers, committedSeq,
                 confirmed>>

(* Or the answer is lost: the command raises and nothing is published.     *)
VoucherCommandFails(c) ==
  /\ fetch[c].phase \in {"created", "deleted"}
  /\ fetch' = [fetch EXCEPT ![c] = NoFetch]
  /\ UNCHANGED <<atSite, version, listed, inventory, latest, failedVouchers, requestSeq,
                 committedSeq, confirmed>>

-----------------------------------------------------------------------------
(* What a fetch yields: the answer, nothing from a console without the     *)
(* endpoint, or after a failure a copy of what is published at that moment.*)
Yields ==
  {[vouchers |-> atSite, asOf |-> version, origin |-> "answer"],
   [NoInventory EXCEPT !.origin = "unsupported"],
   [inventory EXCEPT !.origin = "copy"]}

(* Only a fetch at least as new as the last committed one is published.    *)
Wins_Always(t) == fetch[t].phase \in {"fetching", "held"}

Wins(t) == fetch[t].seq >= committedSeq

Commit(t, result) ==
  /\ committedSeq' = fetch[t].seq
  /\ inventory' = result
  /\ failedVouchers' = (result.origin = "copy")
  /\ latest' = Refreshed(latest, result.vouchers)
  /\ confirmed' = IF result.origin = "answer" /\ fetch[t].wrote > confirmed
                  THEN fetch[t].wrote ELSE confirmed

(* A command's fetch ends: committed in the same step.                     *)
CommandFetched(c) ==
  /\ fetch[c].phase = "fetching"
  /\ fetch' = [fetch EXCEPT ![c] = NoFetch]
  /\ \/ Wins(c) /\ \E result \in Yields : Commit(c, result)
     \/ /\ ~Wins(c)
        /\ UNCHANGED <<committedSeq, inventory, failedVouchers, latest, confirmed>>
  /\ UNCHANGED <<atSite, version, listed, requestSeq>>

(* The poll's fetch ends: it is held until the other sections are fetched. *)
PollFetched(p) ==
  /\ fetch[p].phase = "fetching"
  /\ \E result \in Yields :
       fetch' = [fetch EXCEPT ![p].phase = "held", ![p].result = result]
  /\ UNCHANGED <<atSite, version, listed, inventory, latest, failedVouchers, requestSeq,
                 committedSeq, confirmed>>

(* The poll's commit. When a newer fetch was committed meanwhile, its      *)
(* inventory and its mark in the failed sections are kept.                 *)
PollCommits(p) ==
  /\ fetch[p].phase = "held"
  /\ listed' = TRUE
  /\ fetch' = [fetch EXCEPT ![p] = NoFetch]
  /\ \/ Wins(p) /\ Commit(p, fetch[p].result)
     \/ /\ ~Wins(p)
        /\ latest' = Refreshed(latest, inventory.vouchers)
        /\ UNCHANGED <<committedSeq, inventory, failedVouchers, confirmed>>
  /\ UNCHANGED <<atSite, version, requestSeq>>

(* A rejected key, or an error of another section, ends it without commit. *)
Aborts(t) ==
  /\ fetch[t].phase \in {"fetching", "held"}
  /\ fetch' = [fetch EXCEPT ![t] = NoFetch]
  /\ UNCHANGED <<atSite, version, listed, inventory, latest, failedVouchers, requestSeq,
                 committedSeq, confirmed>>

VoucherNext ==
  \/ \E v \in Voucher : InventoryChanges(v)
  \/ \E p \in Poll : PollAsks(p) \/ PollFetched(p) \/ PollCommits(p)
  \/ \E othersLeft \in BOOLEAN : PollDropsSite(othersLeft)
  \/ \E c \in VoucherCommand, v \in Voucher : Generates(c, v) \/ Deletes(c, v)
  \/ \E c \in VoucherCommand : CommandAnswered(c) \/ VoucherCommandFails(c) \/ CommandFetched(c)
  \/ \E t \in Task : Aborts(t)

VoucherSpec == VoucherInit /\ [][VoucherNext]_voucherVars

-----------------------------------------------------------------------------
(* Once a change made here has been read back and published, no answer     *)
(* that was asked for before the change replaces it: an inventory that is  *)
(* an answer of the console is never older than a confirmed change, however*)
(* long a poll holds what it fetched. (Copies are another matter, below.)  *)
AnswersKeepChanges ==
  inventory.origin = "answer" => inventory.asOf >= confirmed

(* The kept voucher never becomes redeemable again once it was seen        *)
(* expired, whatever order inventories arrive in: its QR code stays off.   *)
LatestNeverRevives ==
  [][latest.status = "expired" /\ latest'.id = latest.id => latest'.status = "expired"]_voucherVars

(* An answer of the console never takes the inventory back before a        *)
(* confirmed change, and the latest voucher does not revive.               *)
VouchersNeverGoBack == [](VoucherTypeOK /\ AnswersKeepChanges) /\ LatestNeverRevives

=============================================================================
