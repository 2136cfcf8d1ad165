---------------------------- MODULE RuleToggles ----------------------------
(***************************************************************************)
(* Toggling the rules of one family on one site. A write that the console  *)
(* took is shown at once and then read back by a refresh of its own; if    *)
(* that refresh could not read the family, one retry is scheduled. The     *)
(* poll, that refresh and the retry all run async_refresh(), which nothing *)
(* serialises: each reads the section and commits it later.                *)
(*                                                                         *)
(* After a failed fetch most families keep their last known rules and are  *)
(* marked failed; routes and VPN clients become empty and are not.         *)
(***************************************************************************)
EXTENDS Integers

CONSTANTS
  ToggledRule,
  MaxWrites     \* bound: toggles, and changes at the console

ASSUME ToggleAssumption == MaxWrites \in Nat /\ ToggledRule # {}

VARIABLES
  keepsLast,     \* does the family keep its rules after a failed fetch? (rigid)
  atConsole,     \* the console's rules
  rules,         \* data[section][site_id]
  sectionFailed, \* is (section, site_id) in _failed_sections?
  cycleFailed,   \* ~last_update_success
  refresh,       \* the refreshes in progress
  write,         \* the toggle in progress
  retryPending,  \* is there a _rule_refresh_retries entry?
  writes,        \* bound
  unread         \* history: a written rule's family could not be read back

toggleVars == <<keepsLast, atConsole, rules, sectionFailed, cycleFailed, refresh, write,
                retryPending, writes, unread>>

RuleState == {"absent", "disabled", "enabled"}
Section == [ToggledRule -> RuleState]
EmptySection == [r \in ToggledRule |-> "absent"]
SectionRefreshes == {"poll", "write", "retry"}
NoRefresh == [phase |-> "idle", read |-> EmptySection, outcome |-> "ok"]
NoToggle == [phase |-> "idle", rule |-> CHOOSE r \in ToggledRule : TRUE, state |-> "absent"]

ToggleTypeOK ==
  /\ keepsLast \in BOOLEAN
  /\ atConsole \in Section
  /\ rules \in Section
  /\ sectionFailed \in BOOLEAN /\ cycleFailed \in BOOLEAN
  /\ refresh \in [SectionRefreshes -> [phase : {"idle", "reading", "held"}, read : Section,
                                outcome : {"ok", "failed", "unsupported"}]]
  /\ write \in [phase : {"idle", "sent", "refreshing", "raising"}, rule : ToggledRule,
                state : RuleState]
  /\ retryPending \in BOOLEAN
  /\ writes \in 0 .. MaxWrites
  /\ unread \in BOOLEAN

ToggleInit ==
  /\ keepsLast \in BOOLEAN
  /\ atConsole \in Section
  /\ rules = EmptySection
  /\ sectionFailed = FALSE /\ cycleFailed = FALSE
  /\ refresh = [t \in SectionRefreshes |-> NoRefresh]
  /\ write = NoToggle
  /\ retryPending = FALSE
  /\ writes = 0
  /\ unread = FALSE

-----------------------------------------------------------------------------
(* Someone adds, edits or deletes a rule at the console.                   *)
ConsoleEdits(r, state) ==
  /\ writes < MaxWrites
  /\ state # atConsole[r]
  /\ writes' = writes + 1
  /\ atConsole' = [atConsole EXCEPT ![r] = state]
  /\ UNCHANGED <<keepsLast, rules, sectionFailed, cycleFailed, refresh, write,
                 retryPending, unread>>

(* A refresh. Only the poll starts by itself.                              *)
Started(t) == [refresh EXCEPT ![t] = [NoRefresh EXCEPT !.phase = "reading"]]

SectionPollStarts ==
  /\ refresh["poll"].phase = "idle"
  /\ refresh' = Started("poll")
  /\ UNCHANGED <<keepsLast, atConsole, rules, sectionFailed, cycleFailed, write,
                 retryPending, writes, unread>>

(* The section's fetch. After a failure, the rules published at that       *)
(* moment are held, or none.                                               *)
Fetched ==
  {[phase |-> "held", read |-> atConsole, outcome |-> "ok"],
   [phase |-> "held", read |-> EmptySection, outcome |-> "unsupported"],
   [phase |-> "held", read |-> IF keepsLast THEN rules ELSE EmptySection,
    outcome |-> "failed"]}

SectionFetched(t) ==
  /\ refresh[t].phase = "reading"
  /\ \E fetched \in Fetched : refresh' = [refresh EXCEPT ![t] = fetched]
  /\ UNCHANGED <<keepsLast, atConsole, rules, sectionFailed, cycleFailed, write,
                 retryPending, writes, unread>>

(* After the refresh of a write: is the family marked failed, or is the    *)
(* written rule not in it?                                                 *)
Unreadable_Marked(rule) == sectionFailed' \/ cycleFailed'

Unreadable(rule) == sectionFailed' \/ cycleFailed' \/ rules'[rule] = "absent"

(* What the caller of the refresh does next: a write that was taken        *)
(* schedules a retry if need be; the retry never does.                     *)
Then(t, failed) ==
  /\ write' = IF t = "write" THEN NoToggle ELSE write
  /\ retryPending' =
       \/ retryPending
       \/ t = "write" /\ write.phase = "refreshing" /\ Unreadable(write.rule)
  /\ unread' = CASE t = "write" /\ write.phase = "refreshing" -> failed \/ unread
                 [] t = "retry" -> unread /\ retryPending
                 [] OTHER -> unread

SectionCommits(t) ==
  LET done == refresh[t] IN
  /\ done.phase = "held"
  /\ rules' = done.read
  /\ sectionFailed' = (done.outcome = "failed" /\ keepsLast)
  /\ cycleFailed' = FALSE
  /\ Then(t, done.outcome = "failed")
  /\ refresh' = [refresh EXCEPT ![t] = NoRefresh]
  /\ UNCHANGED <<keepsLast, atConsole, writes>>

(* Another error fails the whole refresh: nothing is committed.            *)
CycleFails(t) ==
  /\ refresh[t].phase # "idle"
  /\ cycleFailed' = TRUE
  /\ UNCHANGED <<rules, sectionFailed>>
  /\ Then(t, TRUE)
  /\ refresh' = [refresh EXCEPT ![t] = NoRefresh]
  /\ UNCHANGED <<keepsLast, atConsole, writes>>

-----------------------------------------------------------------------------
(* A switch toggles a rule that it shows.                                  *)
Toggles(r, state) ==
  /\ write.phase = "idle" /\ writes < MaxWrites
  /\ rules[r] # "absent" /\ state # "absent"
  /\ write' = [phase |-> "sent", rule |-> r, state |-> state]
  /\ writes' = writes + 1
  /\ UNCHANGED <<keepsLast, atConsole, rules, sectionFailed, cycleFailed, refresh,
                 retryPending, unread>>

(* The console takes it: the record is replaced and a refresh awaited.     *)
ToggleTaken ==
  /\ write.phase = "sent" /\ atConsole[write.rule] # "absent"
  /\ atConsole' = [atConsole EXCEPT ![write.rule] = write.state]
  /\ rules' = IF rules[write.rule] = "absent" THEN rules
              ELSE [rules EXCEPT ![write.rule] = write.state]
  /\ write' = [write EXCEPT !.phase = "refreshing"]
  /\ refresh' = Started("write")
  /\ UNCHANGED <<keepsLast, sectionFailed, cycleFailed, retryPending, writes, unread>>

(* The rule is gone, or the console manages it: one refresh, then an error.*)
ToggleRefused ==
  /\ write.phase = "sent"
  /\ write' = [write EXCEPT !.phase = "raising"]
  /\ refresh' = Started("write")
  /\ UNCHANGED <<keepsLast, atConsole, rules, sectionFailed, cycleFailed, retryPending,
                 writes, unread>>

(* Any other failure raises at once; the console may have taken the write. *)
ToggleLost(taken) ==
  /\ write.phase = "sent"
  /\ taken => atConsole[write.rule] # "absent"
  /\ atConsole' = IF taken THEN [atConsole EXCEPT ![write.rule] = write.state]
                  ELSE atConsole
  /\ write' = NoToggle
  /\ UNCHANGED <<keepsLast, rules, sectionFailed, cycleFailed, refresh, retryPending,
                 writes, unread>>

(* RULE_REFRESH_RETRY_DELAY after the write's refresh. A newer retry       *)
(* replaces one that is pending; one that runs is over before the next.    *)
RetryFires ==
  /\ retryPending /\ refresh["retry"].phase = "idle"
  /\ retryPending' = FALSE
  /\ refresh' = Started("retry")
  /\ UNCHANGED <<keepsLast, atConsole, rules, sectionFailed, cycleFailed, write, writes,
                 unread>>

ToggleNext ==
  \/ \E r \in ToggledRule, state \in RuleState : ConsoleEdits(r, state) \/ Toggles(r, state)
  \/ SectionPollStarts \/ RetryFires
  \/ \E t \in SectionRefreshes : SectionFetched(t) \/ SectionCommits(t) \/ CycleFails(t)
  \/ ToggleTaken \/ ToggleRefused \/ \E taken \in BOOLEAN : ToggleLost(taken)

ToggleSpec == ToggleInit /\ [][ToggleNext]_toggleVars

-----------------------------------------------------------------------------
(* A toggle the console took, but whose family the refresh after it could  *)
(* not read, is read again by the retry: for families that keep their      *)
(* rules and are marked failed, and for those that become empty and are    *)
(* not, whatever the poll and earlier retries commit meanwhile.            *)
UnreadWriteIsRetried ==
  unread => retryPending \/ refresh["retry"].phase # "idle"

=============================================================================
