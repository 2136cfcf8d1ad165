----------------------------- MODULE RuleAudit -----------------------------
(***************************************************************************)
(* The audit of one family of network rules on one site. Each refresh of   *)
(* the config coordinator hands the rules it is about to commit, and how   *)
(* their fetch ended, to the tracker, which numbers what changed since its *)
(* baseline and keeps the newest changes; an event entity fires one event  *)
(* for each number it has not fired yet. Refreshes may overlap: nothing    *)
(* serialises the poll and the refresh after a write.                      *)
(***************************************************************************)
EXTENDS Integers, Sequences, FiniteSets

CONSTANTS
  Rule,
  Content,          \* what a rule says, order and bookkeeping aside
  NoRule,           \* what is recorded of a rule that is not there
  Refresh,          \* refreshes that may run at the same time
  BufferSize,       \* RULE_CHANGE_BUFFER_SIZE
  MaxEdits,         \* bound: changes of the rules at the console
  MaxEmptyAnswers,  \* bound: answers with an empty body though rules exist
  MaxReports        \* bound: changes numbered by the tracker

ASSUME RuleAuditAssumption ==
  /\ IsFiniteSet(Rule)
  /\ {MaxEdits, MaxEmptyAnswers, MaxReports} \subseteq Nat
  /\ BufferSize \in Nat \ {0}
  /\ NoRule \notin Content

VARIABLES
  consoleRules,  \* the console's rules
  snapshot,      \* the refreshes in progress
  baseline,      \* RuleAuditTracker._baselines[key]: <<>> or <<rules>>
  pendingEmpty,  \* is the key in _pending_empty?
  changeSeq,     \* RuleAuditTracker._sequence
  buffer,        \* RuleAuditTracker._changes[site_id]
  lastSeq,       \* the event entity's _last_sequence, -1: no entity yet
  edits,         \* bound
  emptyAnswers,  \* bound
  told,          \* history: the rules as a listener of the events knows them
  overflowed     \* history: has the buffer dropped an unreported change?

auditVars == <<consoleRules, snapshot, baseline, pendingEmpty, changeSeq, buffer, lastSeq,
               edits, emptyAnswers, told, overflowed>>

Rules == [Rule -> Content \cup {NoRule}]
NoRules == [r \in Rule |-> NoRule]
NotReading == [phase |-> "idle", read |-> NoRules, outcome |-> "ok"]
Change == [sequence : 1 .. MaxReports, rule : Rule, now : Content \cup {NoRule}]

AuditTypeOK ==
  /\ consoleRules \in Rules
  /\ snapshot \in [Refresh -> [phase : {"idle", "reading", "held"}, read : Rules,
                              outcome : {"ok", "failed", "unsupported"}]]
  /\ baseline \in {<<>>} \cup {<<b>> : b \in Rules}
  /\ pendingEmpty \in BOOLEAN
  /\ changeSeq \in 0 .. MaxReports
  /\ buffer \in Seq(Change) /\ Len(buffer) <= BufferSize
  /\ lastSeq \in -1 .. MaxReports
  /\ edits \in 0 .. MaxEdits /\ emptyAnswers \in 0 .. MaxEmptyAnswers
  /\ told \in Rules
  /\ overflowed \in BOOLEAN

AuditInit ==
  /\ consoleRules \in Rules
  /\ snapshot = [t \in Refresh |-> NotReading]
  /\ baseline = <<>>
  /\ pendingEmpty = FALSE
  /\ changeSeq = 0
  /\ buffer = <<>>
  /\ lastSeq = -1
  /\ edits = 0 /\ emptyAnswers = 0
  /\ told = NoRules
  /\ overflowed = FALSE

-----------------------------------------------------------------------------
(* A rule is added, modified or deleted, at the console or from here.      *)
Edit(r, content) ==
  /\ edits < MaxEdits
  /\ content # consoleRules[r]
  /\ edits' = edits + 1
  /\ consoleRules' = [consoleRules EXCEPT ![r] = content]
  /\ UNCHANGED <<snapshot, baseline, pendingEmpty, changeSeq, buffer, lastSeq, emptyAnswers,
                 told, overflowed>>

RefreshStarts(t) ==
  /\ snapshot[t].phase = "idle"
  /\ snapshot' = [snapshot EXCEPT ![t].phase = "reading"]
  /\ UNCHANGED <<consoleRules, baseline, pendingEmpty, changeSeq, buffer, lastSeq, edits,
                 emptyAnswers, told, overflowed>>

(* The family's fetch: the rules, an empty body that parses as no rules,   *)
(* an endpoint this console lacks, or a failure.                           *)
ReadsRules(t, read, outcome) ==
  snapshot' = [snapshot EXCEPT ![t] = [phase |-> "held", read |-> read, outcome |-> outcome]]

RefreshReads(t) ==
  /\ snapshot[t].phase = "reading"
  /\ \/ ReadsRules(t, consoleRules, "ok") /\ UNCHANGED emptyAnswers
     \/ /\ emptyAnswers < MaxEmptyAnswers
        /\ emptyAnswers' = emptyAnswers + 1
        /\ ReadsRules(t, NoRules, "ok")
     \/ /\ \E outcome \in {"failed", "unsupported"} : ReadsRules(t, NoRules, outcome)
        /\ UNCHANGED emptyAnswers
  /\ UNCHANGED <<consoleRules, baseline, pendingEmpty, changeSeq, buffer, lastSeq, edits,
                 told, overflowed>>

RefreshAborts(t) ==
  /\ snapshot[t].phase # "idle"
  /\ snapshot' = [snapshot EXCEPT ![t] = NotReading]
  /\ UNCHANGED <<consoleRules, baseline, pendingEmpty, changeSeq, buffer, lastSeq, edits,
                 emptyAnswers, told, overflowed>>

-----------------------------------------------------------------------------
(* The changes between two snapshots, each rule's once: in which order     *)
(* depends on the kinds of the changes, then on the rules' ids.            *)
Differs(previous, current) == {r \in Rule : previous[r] # current[r]}

Orders(S) ==
  {order \in [1 .. Cardinality(S) -> S] : \A r \in S : \E i \in DOMAIN order : order[i] = r}

Numbered(order, current) ==
  [i \in DOMAIN order |-> [sequence |-> changeSeq + i, rule |-> order[i],
                           now |-> current[order[i]]]]

Newest(records) ==
  IF Len(records) <= BufferSize THEN records
  ELSE SubSeq(records, Len(records) - BufferSize + 1, Len(records))

(* "Every rule is gone" is believed only if the next answer says so too.   *)
Doubtful(current) ==
  /\ baseline # <<>> /\ baseline[1] # NoRules
  /\ current = NoRules /\ ~pendingEmpty

(* What differs from the baseline is numbered and buffered; the first      *)
(* answer has none to differ from.                                         *)
Records(current) ==
  \E order \in Orders(IF baseline = <<>> THEN {} ELSE Differs(baseline[1], current)) :
    LET records == buffer \o Numbered(order, current)
    IN  /\ changeSeq + Len(order) <= MaxReports
        /\ changeSeq' = changeSeq + Len(order)
        /\ buffer' = Newest(records)
        /\ overflowed' = (overflowed \/ \E i \in 1 .. Len(records) - BufferSize :
                                          records[i].sequence > lastSeq)

Believes_Once(current) ==
  /\ pendingEmpty' = FALSE
  /\ baseline' = IF baseline = <<>> THEN <<current>> ELSE baseline
  /\ Records(current)

(* An answer that is believed becomes the baseline.                        *)
Believes(current) ==
  /\ pendingEmpty' = FALSE
  /\ baseline' = <<current>>
  /\ Records(current)

(* RuleAuditTracker.process, on the rules a refresh is about to commit.    *)
Process(t) ==
  /\ snapshot[t].phase = "held"
  /\ snapshot' = [snapshot EXCEPT ![t] = NotReading]
  /\ LET current == snapshot[t].read IN
       \/ /\ snapshot[t].outcome # "ok"
          /\ UNCHANGED <<baseline, pendingEmpty, changeSeq, buffer, told, overflowed>>
       \/ /\ snapshot[t].outcome = "ok" /\ Doubtful(current)
          /\ pendingEmpty' = TRUE
          /\ UNCHANGED <<baseline, changeSeq, buffer, told, overflowed>>
       \/ /\ snapshot[t].outcome = "ok" /\ ~Doubtful(current)
          /\ Believes(current)
          /\ told' = IF baseline = <<>> THEN current ELSE told
  /\ UNCHANGED <<consoleRules, lastSeq, edits, emptyAnswers>>

(* A refresh finds the site deselected, or gone.                           *)
SiteLeaves(t) ==
  /\ snapshot[t].phase = "reading" /\ baseline # <<>>
  /\ snapshot' = [snapshot EXCEPT ![t] = NotReading]
  /\ baseline' = <<>> /\ pendingEmpty' = FALSE /\ buffer' = <<>> /\ overflowed' = FALSE
  /\ UNCHANGED <<consoleRules, changeSeq, lastSeq, edits, emptyAnswers, told>>

-----------------------------------------------------------------------------
(* The entity is added once the site is known. What the buffer holds then  *)
(* is history, not news.                                                   *)
LastOf(records) == IF records = <<>> THEN 0 ELSE records[Len(records)].sequence

EntityAdded ==
  /\ lastSeq = -1 /\ baseline # <<>>
  /\ lastSeq' = LastOf(buffer)
  /\ told' = baseline[1]
  /\ overflowed' = FALSE
  /\ UNCHANGED <<consoleRules, snapshot, baseline, pendingEmpty, changeSeq, buffer, edits,
                 emptyAnswers>>

(* Which of the buffered changes have not been fired.                      *)
News_Recounted(records) == {i \in DOMAIN records : records[i].sequence > lastSeq + 1}

News(records) == {i \in DOMAIN records : records[i].sequence > lastSeq}

(* What a listener knows after some of the changes, in their order.        *)
About(records, fired, r) == {i \in fired : records[i].rule = r}

After(known, records, fired) ==
  [r \in Rule |->
     LET about == About(records, fired, r)
     IN  IF about = {} THEN known[r]
         ELSE records[CHOOSE i \in about : \A j \in about : j <= i].now]

EntityFires ==
  /\ lastSeq >= 0 /\ buffer # <<>> /\ LastOf(buffer) > lastSeq
  /\ told' = After(told, buffer, News(buffer))
  /\ lastSeq' = LastOf(buffer)
  /\ UNCHANGED <<consoleRules, snapshot, baseline, pendingEmpty, changeSeq, buffer, edits,
                 emptyAnswers, overflowed>>

AuditNext ==
  \/ \E r \in Rule, content \in Content \cup {NoRule} : Edit(r, content)
  \/ \E t \in Refresh : RefreshStarts(t) \/ RefreshReads(t) \/ RefreshAborts(t)
                        \/ Process(t) \/ SiteLeaves(t)
  \/ EntityAdded \/ EntityFires

AuditSpec == AuditInit /\ [][AuditNext]_auditVars

-----------------------------------------------------------------------------
(* The events fired, and those still to be fired, lead a listener from the *)
(* rules of the first answer to those of the last one believed: no change  *)
(* is left out or told wrongly, whatever fetches fail, answer nothing,     *)
(* overlap or wait for the entity (unless the buffer overflows).           *)
EventsReplayTheRules ==
  lastSeq >= 0 /\ baseline # <<>> /\ ~overflowed =>
    After(told, buffer, {i \in DOMAIN buffer : buffer[i].sequence > lastSeq}) = baseline[1]

=============================================================================
