--------------------------- MODULE Network_proofs ---------------------------
(***************************************************************************)
(* The clean-up of stale Network devices, the writes of outlets and what a *)
(* poll of the devices publishes, for any devices, outlets and limits; and *)
(* of the config coordinator the vouchers, the look-ups of classic names,  *)
(* the toggles of rules and the audit of rules, for any bounds.            *)
(***************************************************************************)
EXTENDS StaleDevices, Vouchers, LegacyNames, RuleToggles, OutletWrites, DevicePoll, RuleAudit,
        WellFoundedInduction, FiniteSetTheorems, TLAPS

(* A device's counter is backed by polls that are evidence, and only a     *)
(* tracked id has one.                                                     *)
CountsAreEvidence == \A id \in Id : absence[id] <= misses[id[1]]

StaleInv == StaleTypeOK /\ CountsAreEvidence

(* What a poll may be.                                                     *)
Polls ==
  [src : {"v1", "legacy"}, listed : SUBSET Device, classic : SUBSET Device]

LEMMA IdsAreIds ==
  ASSUME NEW p \in Polls PROVE IdsOf(p.src, p.listed) \subseteq Id
BY DEF IdsOf, Id, Polls

LEMMA MissingIsTracked ==
  ASSUME NEW p \in Polls, StaleTypeOK
  PROVE  /\ Missing(p) \subseteq tracked /\ Missing(p) \subseteq Id
         /\ \A id \in Missing(p) : id[1] \notin p.listed
         /\ Spared(p) \subseteq Missing(p)
         /\ Removed(p) \subseteq Counted(p) /\ Counted(p) \subseteq Missing(p)
         /\ \A id \in Counted(p) : id[1] \notin p.classic
BY DEF Missing, Spared, Removed, Counted, StaleTypeOK

(* The evidence a poll adds: a listed device of a settled source starts    *)
(* over, others lose none, and a counted id gains some.                    *)
LEMMA Evidence ==
  ASSUME NEW p \in Polls, StaleTypeOK, Witnessed(p), NEW id \in Id
  PROVE  /\ misses' \in [Device -> 0 .. MaxMissing]
         /\ ~(id[1] \in p.listed /\ p.src = source) => misses'[id[1]] >= misses[id[1]]
         /\ Trustworthy(p) /\ ~Unverified(p) /\ id \in Counted(p) =>
              misses'[id[1]] >= misses[id[1]] + 1 \/ misses'[id[1]] = MaxMissing
<1>1. id[1] \in Device /\ misses[id[1]] \in 0 .. MaxMissing
  BY DEF Id, StaleTypeOK
<1>2. misses' \in [Device -> 0 .. MaxMissing]
  BY StaleAssumption DEF Witnessed, StaleTypeOK
<1>3. ASSUME ~(id[1] \in p.listed /\ p.src = source)
      PROVE  misses'[id[1]] >= misses[id[1]]
  BY <1>1, <1>3, StaleAssumption DEF Witnessed
<1>4. ASSUME Trustworthy(p), ~Unverified(p), id \in Counted(p)
      PROVE  misses'[id[1]] >= misses[id[1]] + 1 \/ misses'[id[1]] = MaxMissing
  <2>1. id \in Missing(p) /\ id \in tracked /\ id[1] \notin p.listed /\ id[1] \notin p.classic
    BY <1>4, MissingIsTracked
  <2>2. p.listed # {}
    BY <1>4, <2>1 DEF Trustworthy
  <2>3. named /\ p.src = "v1" => p.classic # {}
    BY <1>4, <2>1 DEF Unverified
  <2>4. Against(p, id[1])
    BY <2>1, <2>2, <2>3 DEF Against
  <2>5. QED
    BY <1>1, <2>1, <2>4, StaleAssumption DEF Witnessed
<1>5. QED
  BY <1>2, <1>3, <1>4

LEMMA IneligibleInv ==
  ASSUME NEW p \in Polls, StaleInv, Ineligible(p), Witnessed(p)
  PROVE  /\ absence' \in [Id -> 0 .. MaxMissing - 1] /\ CountsAreEvidence'
         /\ tracked' \subseteq Id /\ aliases' \subseteq Device /\ entries' \subseteq Id
<1>1. StaleTypeOK
  BY DEF StaleInv
<1>2. absence' \in [Id -> 0 .. MaxMissing - 1]
  BY <1>1, StaleAssumption DEF Ineligible, StaleTypeOK
<1>3. ASSUME NEW id \in Id PROVE absence'[id] <= misses'[id[1]]
  <2>1. absence[id] \in 0 .. MaxMissing - 1 /\ absence[id] <= misses[id[1]]
    BY StaleAssumption DEF StaleInv, StaleTypeOK, CountsAreEvidence
  <2>2. id[1] \in Device /\ misses[id[1]] \in Nat /\ misses'[id[1]] \in Nat
    BY <1>1, Evidence, StaleAssumption DEF Id, StaleTypeOK
  <2>3. absence'[id] \in {0, absence[id]}
    BY DEF Ineligible
  <2>4. CASE id[1] \in p.listed /\ p.src = source
    <3>1. Trustworthy(p) /\ id \notin Missing(p)
      BY <1>1, <2>4, MissingIsTracked DEF Trustworthy
    <3>2. absence'[id] = 0
      BY <3>1 DEF Ineligible
    <3>3. QED
      BY <2>2, <3>2
  <2>5. CASE ~(id[1] \in p.listed /\ p.src = source)
    BY <1>1, <2>1, <2>2, <2>3, <2>5, Evidence
  <2>6. QED
    BY <2>4, <2>5
<1>4. tracked' \subseteq Id /\ entries' \subseteq Id
  BY <1>1, IdsAreIds DEF Ineligible, StaleTypeOK
<1>5. aliases' \subseteq Device
  BY <1>1 DEF Ineligible, Aliases, StaleTypeOK, Polls
<1>6. QED
  BY <1>2, <1>3, <1>4, <1>5 DEF CountsAreEvidence

LEMMA EligibleInv ==
  ASSUME NEW p \in Polls, StaleInv, Trustworthy(p), ~Unverified(p), Eligible(p),
         Witnessed(p)
  PROVE  /\ absence' \in [Id -> 0 .. MaxMissing - 1] /\ CountsAreEvidence'
         /\ tracked' \subseteq Id /\ aliases' \subseteq Device /\ entries' \subseteq Id
         /\ \A id \in entries \ entries' : misses'[id[1]] >= MaxMissing
<1>1. StaleTypeOK
  BY DEF StaleInv
<1>2. ASSUME NEW id \in Id
      PROVE  /\ absence'[id] \in 0 .. MaxMissing - 1 /\ absence'[id] <= misses'[id[1]]
             /\ id \in Removed(p) => misses'[id[1]] >= MaxMissing
  <2>1. absence[id] \in 0 .. MaxMissing - 1 /\ absence[id] <= misses[id[1]]
    BY StaleAssumption DEF StaleInv, StaleTypeOK, CountsAreEvidence
  <2>2. /\ id[1] \in Device /\ misses[id[1]] \in 0 .. MaxMissing
        /\ misses'[id[1]] \in 0 .. MaxMissing
    BY <1>1, Evidence, StaleAssumption DEF Id, StaleTypeOK
  <2>3. CASE id \in Spared(p)
    <3>1. id[1] \notin p.listed /\ id \notin Removed(p)
      BY <1>1, <2>3, MissingIsTracked DEF Counted
    <3>2. absence'[id] = absence[id]
      BY <2>3 DEF Eligible
    <3>3. misses'[id[1]] >= misses[id[1]]
      BY <1>1, <3>1, Evidence
    <3>4. QED
      BY <2>1, <2>2, <3>1, <3>2, <3>3, StaleAssumption
  <2>4. CASE id \in Counted(p)
    <3>1. misses'[id[1]] >= misses[id[1]] + 1 \/ misses'[id[1]] = MaxMissing
      BY <1>1, <2>4, Evidence
    <3>2. id \notin Spared(p)
      BY <2>4 DEF Counted
    <3>3. CASE id \in Removed(p)
      <4>1. absence[id] + 1 >= MaxMissing
        BY <3>3 DEF Removed
      <4>2. absence'[id] = 0
        BY <3>2, <3>3 DEF Eligible
      <4>3. QED
        BY <2>1, <2>2, <3>1, <4>1, <4>2, StaleAssumption
    <3>4. CASE id \notin Removed(p)
      <4>1. absence[id] + 1 < MaxMissing
        BY <2>1, <2>4, <3>4, StaleAssumption DEF Removed
      <4>2. absence'[id] = absence[id] + 1
        BY <2>4, <3>2, <3>4 DEF Eligible
      <4>3. QED
        BY <2>1, <2>2, <3>1, <3>4, <4>1, <4>2, StaleAssumption
    <3>5. QED
      BY <3>3, <3>4
  <2>5. CASE id \notin Spared(p) /\ id \notin Counted(p)
    <3>1. absence'[id] = 0 /\ id \notin Removed(p)
      BY <1>1, <2>5, MissingIsTracked DEF Eligible
    <3>2. QED
      BY <2>2, <3>1, StaleAssumption
  <2>6. QED
    BY <2>3, <2>4, <2>5
<1>3. absence' \in [Id -> 0 .. MaxMissing - 1]
  BY <1>2 DEF Eligible
<1>4. tracked' \subseteq Id /\ entries' \subseteq Id
  BY <1>1, IdsAreIds, MissingIsTracked DEF Eligible, StaleTypeOK
<1>5. aliases' \subseteq Device
  BY <1>1 DEF Eligible, Aliases, StaleTypeOK, Polls
<1>6. entries \ entries' \subseteq Removed(p)
  BY DEF Eligible
<1>7. entries \subseteq Id
  BY <1>1 DEF StaleTypeOK
<1>8. QED
  BY <1>2, <1>3, <1>4, <1>5, <1>6, <1>7 DEF CountsAreEvidence

(* One poll: the invariant and what is removed.                            *)
LEMMA CleanupStep ==
  ASSUME NEW p \in Polls, StaleInv, Cleanup(p)
  PROVE  StaleInv' /\ \A id \in entries \ entries' : misses'[id[1]] >= MaxMissing
<1>1. StaleTypeOK /\ Witnessed(p)
  BY DEF StaleInv, Cleanup
<1>2. misses' \in [Device -> 0 .. MaxMissing]
  BY <1>1, StaleAssumption DEF Witnessed, StaleTypeOK
<1>3. source' \in {"v1", "legacy"} /\ UNCHANGED <<named, adopted>>
  BY DEF Cleanup, Polls
<1>4. CASE Trustworthy(p) /\ ~Unverified(p)
  <2>1. Eligible(p)
    BY <1>4 DEF Cleanup
  <2>2. QED
    BY <1>1, <1>2, <1>3, <1>4, <2>1, EligibleInv DEF StaleInv, StaleTypeOK
<1>5. CASE ~(Trustworthy(p) /\ ~Unverified(p))
  <2>1. Ineligible(p)
    BY <1>5 DEF Cleanup
  <2>2. entries \subseteq entries'
    BY <2>1 DEF Ineligible
  <2>3. QED
    BY <1>1, <1>2, <1>3, <2>1, <2>2, IneligibleInv DEF StaleInv, StaleTypeOK
<1>6. QED
  BY <1>4, <1>5

LEMMA PollsArePolls ==
  ASSUME StaleTypeOK, V1Poll \/ LegacyPoll
  PROVE  \E p \in Polls : Cleanup(p)
<1>1. CASE V1Poll
  <2>1. PICK devices \in SUBSET adopted, classic \in IF named THEN SUBSET adopted ELSE {{}} :
          Cleanup([src |-> "v1", listed |-> devices, classic |-> classic])
    BY <1>1 DEF V1Poll
  <2>2. [src |-> "v1", listed |-> devices, classic |-> classic] \in Polls
    BY <2>1 DEF Polls, StaleTypeOK
  <2>3. QED
    BY <2>1, <2>2
<1>2. CASE LegacyPoll
  <2>1. PICK devices \in SUBSET adopted \ {{}} :
          Cleanup([src |-> "legacy", listed |-> devices, classic |-> {}])
    BY <1>2 DEF LegacyPoll
  <2>2. [src |-> "legacy", listed |-> devices, classic |-> {}] \in Polls
    BY <2>1 DEF Polls, StaleTypeOK
  <2>3. QED
    BY <2>1, <2>2
<1>3. QED
  BY <1>1, <1>2

LEMMA StaleStep ==
  ASSUME StaleInv, [StaleNext]_staleVars
  PROVE  StaleInv' /\ \A id \in entries \ entries' : misses'[id[1]] >= MaxMissing
<1>1. CASE V1Poll \/ LegacyPoll
  BY <1>1, PollsArePolls, CleanupStep DEF StaleInv
<1>2. ASSUME NEW d \in Device, Adopts(d)
      PROVE  StaleInv' /\ entries' = entries
  BY <1>2 DEF Adopts, StaleInv, StaleTypeOK, CountsAreEvidence
<1>3. CASE UNCHANGED staleVars
  BY <1>3 DEF staleVars, StaleInv, StaleTypeOK, CountsAreEvidence
<1>4. QED
  BY <1>1, <1>2, <1>3 DEF StaleNext

LEMMA StaleInvHolds == StaleSpec => []StaleInv
<1>1. StaleInit => StaleInv
  BY StaleAssumption DEF StaleInit, StaleInv, StaleTypeOK, CountsAreEvidence, Id
<1>2. StaleInv /\ [StaleNext]_staleVars => StaleInv'
  BY StaleStep
<1>3. QED
  BY <1>1, <1>2, PTL DEF StaleSpec

(* No fallback, failed check, empty list or change of ids removes a device *)
(* entry: whatever _cleanup_stale_devices removes was lacking in all lists *)
(* of MaxMissing polls, for any number of devices and any limit.           *)
THEOREM RemovalHasEvidence == StaleSpec => RemovalNeedsEvidence
<1>1. StaleInv /\ [StaleNext]_staleVars =>
        [\A id \in entries \ entries' : misses'[id[1]] >= MaxMissing]_staleVars
  BY StaleStep
<1>2. QED
  BY <1>1, StaleInvHolds, PTL DEF StaleSpec, RemovalNeedsEvidence

-----------------------------------------------------------------------------
(* LegacyNames. The stamp counts the ticks since the last lookup asked, up *)
(* to the cooldown.                                                        *)
StampIsExact ==
  /\ askedAt <= ticks
  /\ askedAt >= 0 => lookedUp = IF ticks - askedAt < Cooldown THEN ticks - askedAt ELSE Cooldown

LegacyInv == LegacyTypeOK /\ StampIsExact /\ LookupsAreSpaced

LEMMA LegacyInvHolds == LegacySpec => []LegacyInv
<1>0. Cooldown \in Nat /\ MaxLookups \in Nat /\ MaxTicks \in Nat
  BY LegacyAssumption
<1>. DEFINE NamePolls == [phase : {"idle", "looking", "fetching"}, name : BOOLEAN, failed : BOOLEAN]
<1>a. NoNamePoll \in NamePolls
  BY DEF NoNamePoll
<1>1. LegacyInit => LegacyInv
  <2>1. ASSUME LegacyInit PROVE LegacyTypeOK
    <3>1. lookedUp \in 0 .. Cooldown /\ lookups \in 0 .. MaxLookups /\ ticks \in 0 .. MaxTicks
          /\ askedAt \in {-1} \cup 0 .. MaxTicks
      BY <1>0, <2>1 DEF LegacyInit
    <3>2. /\ siteListed \in BOOLEAN /\ hasName \in BOOLEAN /\ mappingFailed \in BOOLEAN
          /\ askedSoon \in BOOLEAN
      BY <2>1 DEF LegacyInit
    <3>3. namePoll \in NamePolls /\ writer \in [Writer -> {"idle", "queued", "looking", "named", "raised"}]
      BY <1>a, <2>1 DEF LegacyInit
    <3>. QED
      BY <3>1, <3>2, <3>3 DEF LegacyTypeOK
  <2>2. ASSUME LegacyInit PROVE StampIsExact /\ LookupsAreSpaced
    BY <1>0, <2>2 DEF LegacyInit, StampIsExact, LookupsAreSpaced
  <2>. QED
    BY <2>1, <2>2 DEF LegacyInv
<1>2. LegacyInv /\ [LegacyNext]_legacyVars => LegacyInv'
  <2>1. SUFFICES ASSUME LegacyInv, [LegacyNext]_legacyVars PROVE LegacyInv'
    OBVIOUS
  <2>. USE <1>0 DEF LegacyInv, LegacyTypeOK, StampIsExact, LookupsAreSpaced
  <2>2. CASE NamePollStarts
    <3>1. namePoll' \in NamePolls
      BY <2>2 DEF NamePollStarts, NoNamePoll
    <3>. QED
      BY <2>1, <2>2, <3>1 DEF NamePollStarts
  <2>3. CASE PollLooksUp
    <3>1. namePoll' \in NamePolls
      <4>1. PICK known \in BOOLEAN, failed \in BOOLEAN :
              namePoll' = [phase |-> "fetching", name |-> known, failed |-> failed]
        BY <2>1, <2>3 DEF PollLooksUp
      <4>. QED
        BY <4>1
    <3>. QED
      BY <2>1, <2>3, <3>1 DEF PollLooksUp
  <2>4. CASE NamePollCommits
    BY <2>1, <2>4 DEF NamePollCommits, NoNamePoll
  <2>5. CASE PollClears
    BY <2>1, <2>5 DEF PollClears, NoNamePoll
  <2>6. CASE NamePollFails
    BY <2>1, <2>6 DEF NamePollFails, NoNamePoll
  <2>7. ASSUME NEW w \in Writer, WriteAsks(w) PROVE LegacyInv'
    BY <2>1, <2>7 DEF WriteAsks
  <2>8. ASSUME NEW w \in Writer, TakesLock(w) PROVE LegacyInv'
    BY <2>1, <2>8 DEF TakesLock, Asked
  <2>9. ASSUME NEW w \in Writer, FindsItAsked(w) PROVE LegacyInv'
    BY <2>1, <2>9 DEF FindsItAsked, Resolved
  <2>10. ASSUME NEW w \in Writer, LookupFails(w) PROVE LegacyInv'
    BY <2>1, <2>10 DEF LookupFails, Resolved
  <2>11. ASSUME NEW w \in Writer, NEW known \in BOOLEAN, LookupAnswered(w, known)
         PROVE LegacyInv'
    BY <2>1, <2>11 DEF LookupAnswered, Resolved
  <2>12. CASE LegacyTick
    BY <2>1, <2>12 DEF LegacyTick
  <2>13. CASE UNCHANGED legacyVars
    BY <2>1, <2>13 DEF legacyVars
  <2>. QED
    BY <2>1, <2>2, <2>3, <2>4, <2>5, <2>6, <2>7, <2>8, <2>9, <2>10, <2>11, <2>12, <2>13
    DEF LegacyNext
<1>. QED
  BY <1>1, <1>2, PTL DEF LegacySpec

(* However often polls and writes fail to look a classic name up, two      *)
(* look-ups that asked are at least the cooldown apart, for any number of  *)
(* writers and any cooldown.                                               *)
THEOREM LookupsKeepTheirDistance == LegacySpec => []LookupsAreSpaced
BY LegacyInvHolds, PTL DEF LegacyInv

-----------------------------------------------------------------------------
(* RuleToggles. What a refresh holds after a failed fetch is the published *)
(* rules or nothing; a write's refresh runs as long as its caller awaits   *)
(* it.                                                                     *)
FailedIsEmpty ==
  ~keepsLast => \A t \in SectionRefreshes :
    refresh[t].phase = "held" /\ refresh[t].outcome = "failed" => refresh[t].read = EmptySection

ToggleInv == ToggleTypeOK /\ FailedIsEmpty /\ UnreadWriteIsRetried

LEMMA ToggleInvHolds == ToggleSpec => []ToggleInv
<1>. DEFINE Running == [phase : {"idle", "reading", "held"}, read : Section,
                        outcome : {"ok", "failed", "unsupported"}]
<1>0. /\ EmptySection \in Section /\ NoRefresh \in Running
      /\ [NoRefresh EXCEPT !.phase = "reading"] \in Running
      /\ NoRefresh.phase = "idle" /\ [NoRefresh EXCEPT !.phase = "reading"].phase = "reading"
      /\ NoToggle.rule \in ToggledRule /\ NoToggle.phase = "idle" /\ NoToggle.state = "absent"
      /\ NoToggle = [phase |-> "idle", rule |-> NoToggle.rule, state |-> "absent"]
  <2>1. PICK some \in ToggledRule : TRUE
    BY ToggleAssumption
  <2>2. (CHOOSE r \in ToggledRule : TRUE) \in ToggledRule
    BY <2>1
  <2>. QED
    BY <2>2 DEF EmptySection, Section, RuleState, NoRefresh, NoToggle
<1>1. ToggleInit => ToggleInv
  <2>1. ASSUME ToggleInit PROVE ToggleTypeOK
    <3>1. refresh \in [SectionRefreshes -> Running]
      BY <1>0, <2>1 DEF ToggleInit
    <3>2. write \in [phase : {"idle", "sent", "refreshing", "raising"}, rule : ToggledRule,
                     state : RuleState]
      BY <1>0, <2>1 DEF ToggleInit, RuleState
    <3>. QED
      <4>1. writes \in 0 .. MaxWrites
        BY <2>1, ToggleAssumption DEF ToggleInit
      <4>2. /\ keepsLast \in BOOLEAN /\ sectionFailed \in BOOLEAN /\ cycleFailed \in BOOLEAN
            /\ retryPending \in BOOLEAN /\ unread \in BOOLEAN
        BY <2>1 DEF ToggleInit
      <4>3. atConsole \in Section /\ rules \in Section
        BY <1>0, <2>1 DEF ToggleInit
      <4>. QED
        BY <3>1, <3>2, <4>1, <4>2, <4>3 DEF ToggleTypeOK
  <2>2. ASSUME ToggleInit PROVE FailedIsEmpty /\ UnreadWriteIsRetried
    BY <1>0, <2>2 DEF ToggleInit, FailedIsEmpty, UnreadWriteIsRetried
  <2>. QED
    BY <2>1, <2>2 DEF ToggleInv
<1>2. ToggleInv /\ [ToggleNext]_toggleVars => ToggleInv'
  <2>1. SUFFICES ASSUME ToggleInv, [ToggleNext]_toggleVars PROVE ToggleInv'
    OBVIOUS
  <2>. USE ToggleAssumption, <1>0
       DEF ToggleInv, ToggleTypeOK, FailedIsEmpty, UnreadWriteIsRetried
  <2>2. ASSUME NEW r \in ToggledRule, NEW state \in RuleState, ConsoleEdits(r, state)
        PROVE ToggleInv'
    BY <2>1, <2>2 DEF ConsoleEdits, Section
  <2>3. ASSUME NEW r \in ToggledRule, NEW state \in RuleState, Toggles(r, state)
        PROVE ToggleInv'
    BY <2>1, <2>3 DEF Toggles
  <2>4. CASE SectionPollStarts
    BY <2>1, <2>4 DEF SectionPollStarts, Started, SectionRefreshes
  <2>5. CASE RetryFires
    BY <2>1, <2>5 DEF RetryFires, Started, SectionRefreshes
  <2>6. ASSUME NEW t \in SectionRefreshes, SectionFetched(t) PROVE ToggleInv'
    <3>1. PICK fetched \in Fetched : refresh' = [refresh EXCEPT ![t] = fetched]
      BY <2>6 DEF SectionFetched
    <3>2. fetched \in Running /\ fetched.phase = "held"
          /\ (~keepsLast /\ fetched.outcome = "failed" => fetched.read = EmptySection)
      BY <2>1, <3>1 DEF Fetched
    <3>. QED
      BY <2>1, <2>6, <3>1, <3>2 DEF SectionFetched, SectionRefreshes
  <2>7. ASSUME NEW t \in SectionRefreshes, SectionCommits(t) PROVE ToggleInv'
    <3>1. /\ refresh' = [refresh EXCEPT ![t] = NoRefresh]
          /\ rules' = refresh[t].read /\ refresh[t].phase = "held"
          /\ sectionFailed' = (refresh[t].outcome = "failed" /\ keepsLast)
          /\ cycleFailed' = FALSE
          /\ Then(t, refresh[t].outcome = "failed")
          /\ UNCHANGED <<keepsLast, atConsole, writes>>
      BY <2>7 DEF SectionCommits
    <3>2. write.phase = "refreshing" /\ refresh[t].outcome = "failed" => Unreadable(write.rule)
      BY <2>1, <3>1 DEF Unreadable, EmptySection
    <3>3. retryPending' \in BOOLEAN /\ unread' \in BOOLEAN /\ UnreadWriteIsRetried'
      <4>1. CASE t = "write"
        <5>1. refresh'["retry"] = refresh["retry"]
          BY <2>1, <3>1, <4>1 DEF SectionRefreshes
        <5>2. retryPending => retryPending'
          BY <3>1 DEF Then
        <5>3. unread' => unread \/ retryPending'
          BY <3>1, <3>2, <4>1 DEF Then
        <5>. QED
          BY <2>1, <3>1, <4>1, <5>1, <5>2, <5>3 DEF Then, Unreadable
      <4>2. CASE t = "retry"
        BY <2>1, <3>1, <4>2 DEF Then
      <4>3. CASE t = "poll"
        <5>1. refresh'["retry"] = refresh["retry"]
          BY <2>1, <3>1, <4>3 DEF SectionRefreshes
        <5>. QED
          BY <2>1, <3>1, <4>3, <5>1 DEF Then
      <4>. QED
        BY <4>1, <4>2, <4>3 DEF SectionRefreshes
    <3>4. write' \in {write, NoToggle}
      BY <3>1 DEF Then
    <3>5. refresh' \in [SectionRefreshes -> Running] /\ rules' \in Section
      BY <2>1, <3>1
    <3>6. sectionFailed' \in BOOLEAN /\ cycleFailed' \in BOOLEAN
      BY <3>1
    <3>7. keepsLast' \in BOOLEAN /\ atConsole' \in Section /\ writes' \in 0 .. MaxWrites
      BY <2>1, <3>1
    <3>8. write' \in [phase : {"idle", "sent", "refreshing", "raising"}, rule : ToggledRule,
                     state : RuleState]
      BY <2>1, <3>4 DEF RuleState
    <3>9. FailedIsEmpty'
      BY <2>1, <3>1
    <3>. QED
      BY <3>3, <3>5, <3>6, <3>7, <3>8, <3>9
  <2>8. ASSUME NEW t \in SectionRefreshes, CycleFails(t) PROVE ToggleInv'
    <3>1. /\ refresh' = [refresh EXCEPT ![t] = NoRefresh]
          /\ cycleFailed' = TRUE
          /\ Then(t, TRUE)
          /\ UNCHANGED <<keepsLast, atConsole, writes, rules, sectionFailed>>
      BY <2>8 DEF CycleFails
    <3>2. Unreadable(write.rule)
      BY <3>1 DEF Unreadable
    <3>3. retryPending' \in BOOLEAN /\ unread' \in BOOLEAN /\ UnreadWriteIsRetried'
      <4>1. CASE t = "write"
        <5>1. refresh'["retry"] = refresh["retry"]
          BY <2>1, <3>1, <4>1 DEF SectionRefreshes
        <5>2. retryPending => retryPending'
          BY <3>1 DEF Then
        <5>. QED
          BY <2>1, <3>1, <3>2, <4>1, <5>1, <5>2 DEF Then
      <4>2. CASE t = "retry"
        BY <2>1, <3>1, <4>2 DEF Then
      <4>3. CASE t = "poll"
        <5>1. refresh'["retry"] = refresh["retry"]
          BY <2>1, <3>1, <4>3 DEF SectionRefreshes
        <5>. QED
          BY <2>1, <3>1, <4>3, <5>1 DEF Then
      <4>. QED
        BY <4>1, <4>2, <4>3 DEF SectionRefreshes
    <3>4. write' \in {write, NoToggle}
      BY <3>1 DEF Then
    <3>5. refresh' \in [SectionRefreshes -> Running] /\ rules' \in Section
      BY <2>1, <3>1
    <3>6. sectionFailed' \in BOOLEAN /\ cycleFailed' \in BOOLEAN
      BY <2>1, <3>1
    <3>7. keepsLast' \in BOOLEAN /\ atConsole' \in Section /\ writes' \in 0 .. MaxWrites
      BY <2>1, <3>1
    <3>8. write' \in [phase : {"idle", "sent", "refreshing", "raising"}, rule : ToggledRule,
                     state : RuleState]
      BY <2>1, <3>4 DEF RuleState
    <3>9. FailedIsEmpty'
      BY <2>1, <3>1
    <3>. QED
      BY <3>3, <3>5, <3>6, <3>7, <3>8, <3>9
  <2>9. CASE ToggleTaken
    BY <2>1, <2>9 DEF ToggleTaken, Started, Section, SectionRefreshes
  <2>10. CASE ToggleRefused
    BY <2>1, <2>10 DEF ToggleRefused, Started, SectionRefreshes
  <2>11. ASSUME NEW taken \in BOOLEAN, ToggleLost(taken) PROVE ToggleInv'
    <3>1. atConsole' \in Section
      BY <2>1, <2>11 DEF ToggleLost, Section
    <3>2. write' \in [phase : {"idle", "sent", "refreshing", "raising"}, rule : ToggledRule,
                     state : RuleState]
      BY <2>11 DEF ToggleLost, RuleState
    <3>3. UNCHANGED <<keepsLast, rules, sectionFailed, cycleFailed, refresh, retryPending,
                      writes, unread>>
      BY <2>11 DEF ToggleLost
    <3>. QED
      BY <2>1, <3>1, <3>2, <3>3
  <2>12. CASE UNCHANGED toggleVars
    BY <2>1, <2>12 DEF toggleVars
  <2>. QED
    BY <2>1, <2>2, <2>3, <2>4, <2>5, <2>6, <2>7, <2>8, <2>9, <2>10, <2>11, <2>12
    DEF ToggleNext
<1>. QED
  BY <1>1, <1>2, PTL DEF ToggleSpec

(* A toggle whose rule could not be read back has its retry pending or     *)
(* running, whatever poll, refresh and retry overlap.                      *)
THEOREM UnreadWritesAreRetried == ToggleSpec => []UnreadWriteIsRetried
BY ToggleInvHolds, PTL DEF ToggleInv

-----------------------------------------------------------------------------
(* Vouchers. A fetch on its way, or an inventory held, has a number of its *)
(* own; what a later fetch was answered shows what an earlier one's task   *)
(* wrote; and a held answer that would still win shows every confirmed     *)
(* change. A generated voucher is not the kept one before its command is   *)
(* answered.                                                               *)
Asking == {t \in Task : fetch[t].phase \in {"fetching", "held"}}
HeldAnswers == {t \in Task : fetch[t].phase = "held" /\ fetch[t].result.origin = "answer"}

NumbersAreGiven ==
  /\ committedSeq <= requestSeq
  /\ \A t \in Asking : fetch[t].seq <= requestSeq
  /\ \A t, u \in Asking : t # u => fetch[t].seq # fetch[u].seq

WritesAreSeen ==
  /\ confirmed <= version
  /\ \A t \in Task : fetch[t].wrote <= version
  /\ \A p \in Poll : fetch[p].wrote = 0
  /\ \A c \in VoucherCommand : fetch[c].phase # "held"
  /\ \A t \in HeldAnswers :
       /\ fetch[t].seq >= committedSeq => fetch[t].result.asOf >= confirmed
       /\ \A u \in Asking : fetch[t].seq > fetch[u].seq => fetch[t].result.asOf >= fetch[u].wrote

CreatedIsNew ==
  \A t \in Task :
    /\ fetch[t].phase \in {"created", "deleted"} => fetch[t].voucher \in Voucher
    /\ fetch[t].phase = "created" => latest.id # fetch[t].voucher
    /\ \A u \in Task : fetch[t].phase = "created" /\ fetch[u].phase = "created" /\ u # t
                       => fetch[u].voucher # fetch[t].voucher

VoucherInv ==
  VoucherTypeOK /\ NumbersAreGiven /\ WritesAreSeen /\ CreatedIsNew /\ AnswersKeepChanges

LEMMA VoucherInvHolds == VoucherSpec => []VoucherInv
<1>. DEFINE Fetch == [phase : {"idle", "created", "deleted", "fetching", "held"},
                      seq : 0 .. MaxFetches, result : Inventory,
                      voucher : Voucher \cup {None}, wrote : 0 .. MaxChanges]
            Latest == [id : Voucher \cup {None}, status : Status]
<1>0. /\ MaxFetches \in Nat /\ MaxChanges \in Nat
      /\ Poll \cap VoucherCommand = {} /\ None \notin Voucher
      /\ Task = Poll \cup VoucherCommand
      /\ Empty \in Vouchers /\ NoInventory \in Inventory /\ NoInventory.origin = "none"
      /\ NoLatest \in Latest /\ NoLatest.id = None
  BY VoucherAssumption DEF Task, Empty, Vouchers, Status, NoInventory, Inventory, Origin, NoLatest
<1>a. /\ NoFetch \in Fetch /\ NoFetch.phase = "idle" /\ NoFetch.seq = 0
      /\ NoFetch.voucher = None /\ NoFetch.wrote = 0
  BY <1>0 DEF NoFetch
<1>b. ASSUME NEW record \in Latest, NEW vouchers \in Vouchers
      PROVE Refreshed(record, vouchers) \in Latest /\ Refreshed(record, vouchers).id = record.id
  BY <1>b DEF Refreshed, Vouchers
<1>1. VoucherInit => VoucherInv
  <2>1. ASSUME VoucherInit PROVE VoucherTypeOK
    BY <1>0, <1>a, <2>1 DEF VoucherInit, VoucherTypeOK
  <2>2. ASSUME VoucherInit
        PROVE NumbersAreGiven /\ WritesAreSeen /\ CreatedIsNew /\ AnswersKeepChanges
    BY <1>0, <1>a, <2>2
    DEF VoucherInit, NumbersAreGiven, WritesAreSeen, CreatedIsNew, AnswersKeepChanges, Asking,
        HeldAnswers
  <2>. QED
    BY <2>1, <2>2 DEF VoucherInv
<1>2. VoucherInv /\ [VoucherNext]_voucherVars => VoucherInv'
  <2>1. SUFFICES ASSUME VoucherInv, [VoucherNext]_voucherVars PROVE VoucherInv'
    OBVIOUS
  <2>. USE <1>0, <1>a DEF VoucherInv
  <2>a. fetch \in [Task -> Fetch] /\ latest \in Latest /\ inventory \in Inventory
    BY <2>1 DEF VoucherTypeOK
  <2>b. ASSUME NEW t \in Task, NEW done, done \in Fetch, done.phase = "idle",
               done.wrote = 0, done.voucher = None, fetch' = [fetch EXCEPT ![t] = done],
               UNCHANGED <<version, requestSeq>>,
               committedSeq' = committedSeq, confirmed' = confirmed
        PROVE NumbersAreGiven' /\ WritesAreSeen'
    <3>1. \A u \in Task : u # t => fetch'[u] = fetch[u]
      BY <2>a, <2>b
    <3>2. fetch'[t] = done
      BY <2>a, <2>b
    <3>3. Asking' \subseteq Asking /\ HeldAnswers' \subseteq HeldAnswers /\ t \notin Asking'
          /\ t \notin HeldAnswers'
      BY <2>b, <3>1, <3>2 DEF Asking, HeldAnswers
    <3>4. NumbersAreGiven'
      BY <2>1, <2>b, <3>1, <3>3 DEF NumbersAreGiven, Asking
    <3>. QED
      <4>1. \A p \in Poll : fetch'[p].wrote = 0
        BY <2>1, <2>b, <3>1, <3>2 DEF WritesAreSeen
      <4>2. \A c \in VoucherCommand : fetch'[c].phase # "held"
        BY <2>1, <2>b, <3>1, <3>2 DEF WritesAreSeen
      <4>3. confirmed' <= version' /\ \A u \in Task : fetch'[u].wrote <= version'
        BY <2>1, <2>b, <3>1, <3>2 DEF WritesAreSeen, VoucherTypeOK
      <4>4. \A u \in HeldAnswers' :
              /\ fetch'[u].seq >= committedSeq' => fetch'[u].result.asOf >= confirmed'
              /\ \A w \in Asking' : fetch'[u].seq > fetch'[w].seq
                                     => fetch'[u].result.asOf >= fetch'[w].wrote
        BY <2>1, <2>b, <3>1, <3>3 DEF WritesAreSeen, Asking, HeldAnswers
      <4>. QED
        BY <3>4, <4>1, <4>2, <4>3, <4>4 DEF WritesAreSeen
  <2>c. ASSUME \A t \in Task : fetch'[t].phase \in {"created", "deleted"} => fetch'[t] = fetch[t],
               latest'.id \in {latest.id, None}
        PROVE CreatedIsNew'
    BY <2>1, <2>c DEF CreatedIsNew
  <2>d. ASSUME NEW t \in Task, NEW done, done \in Fetch, done.phase \notin {"created", "deleted"},
               fetch' = [fetch EXCEPT ![t] = done], latest'.id \in {latest.id, None}
        PROVE fetch' \in [Task -> Fetch] /\ CreatedIsNew'
    <3>1. \A u \in Task : u # t => fetch'[u] = fetch[u]
      BY <2>a, <2>d
    <3>2. fetch'[t] = done
      BY <2>a, <2>d
    <3>. QED
      BY <2>a, <2>c, <2>d, <3>1, <3>2
  <2>e. ASSUME NEW t \in Task, t \in Asking, Wins(t), fetch' = [fetch EXCEPT ![t] = NoFetch],
               NEW result \in Inventory, Commit(t, result), UNCHANGED <<version, requestSeq>>,
               result.origin = "answer" => result.asOf >= confirmed /\ result.asOf >= fetch[t].wrote
        PROVE NumbersAreGiven' /\ WritesAreSeen' /\ AnswersKeepChanges'
    <3>1. \A u \in Task : u # t => fetch'[u] = fetch[u]
      BY <2>a, <2>e
    <3>2. fetch'[t] = NoFetch
      BY <2>a, <2>e
    <3>3. Asking' \subseteq Asking /\ HeldAnswers' \subseteq HeldAnswers /\ t \notin Asking'
          /\ t \notin HeldAnswers'
      BY <2>e, <3>1, <3>2 DEF Asking, HeldAnswers
    <3>4. committedSeq' = fetch[t].seq /\ committedSeq' >= committedSeq /\ committedSeq' <= requestSeq'
      BY <2>1, <2>e DEF Commit, Wins, NumbersAreGiven
    <3>5. NumbersAreGiven'
      BY <2>1, <2>e, <3>1, <3>3, <3>4 DEF NumbersAreGiven, Asking
    <3>6. confirmed' \in {confirmed, fetch[t].wrote} /\ confirmed' <= version'
          /\ inventory' = result /\ (result.origin = "answer" => result.asOf >= confirmed')
      BY <2>1, <2>e DEF Commit, WritesAreSeen
    <3>7. \A p \in Poll : fetch'[p].wrote = 0
      BY <2>1, <3>1, <3>2 DEF WritesAreSeen
    <3>8. \A c \in VoucherCommand : fetch'[c].phase # "held"
      BY <2>1, <3>1, <3>2 DEF WritesAreSeen
    <3>9. \A u \in Task : fetch'[u].wrote <= version'
      BY <2>1, <2>e, <3>1, <3>2 DEF WritesAreSeen, VoucherTypeOK
    <3>10. ASSUME NEW u \in HeldAnswers'
           PROVE /\ fetch'[u].seq >= committedSeq' => fetch'[u].result.asOf >= confirmed'
                 /\ \A w \in Asking' : fetch'[u].seq > fetch'[w].seq
                                        => fetch'[u].result.asOf >= fetch'[w].wrote
      <4>1. u \in HeldAnswers /\ u \in Task /\ u \in Asking /\ u # t /\ fetch'[u] = fetch[u]
        BY <3>1, <3>3, <3>10 DEF HeldAnswers, Asking
      <4>2. fetch[u] \in Fetch /\ fetch[t] \in Fetch /\ committedSeq \in Nat
        BY <2>1, <2>a, <4>1 DEF VoucherTypeOK
      <4>3. fetch[u].seq # fetch[t].seq
        BY <2>1, <2>e, <4>1 DEF NumbersAreGiven
      <4>4. fetch[u].seq > fetch[t].seq => fetch[u].result.asOf >= fetch[t].wrote
        BY <2>1, <2>e, <4>1 DEF WritesAreSeen
      <4>5. fetch[u].seq >= committedSeq => fetch[u].result.asOf >= confirmed
        BY <2>1, <4>1 DEF WritesAreSeen
      <4>6. fetch[u].seq >= committedSeq' => fetch[u].result.asOf >= confirmed'
        BY <3>4, <3>6, <4>2, <4>3, <4>4, <4>5
      <4>7. \A w \in Asking' : fetch[u].seq > fetch[w].seq => fetch[u].result.asOf >= fetch[w].wrote
        BY <2>1, <3>3, <4>1 DEF WritesAreSeen
      <4>8. \A w \in Asking' : fetch'[w] = fetch[w]
        BY <3>1, <3>3 DEF Asking
      <4>. QED
        BY <4>1, <4>6, <4>7, <4>8
    <3>. QED
      BY <3>5, <3>6, <3>7, <3>8, <3>9, <3>10 DEF WritesAreSeen, AnswersKeepChanges
  <2>2. ASSUME NEW v \in Voucher, InventoryChanges(v) PROVE VoucherInv'
    <3>1. atSite' \in Vouchers /\ version' \in 0 .. MaxChanges /\ version' = version + 1
      BY <2>1, <2>2 DEF InventoryChanges, VoucherTypeOK, Vouchers, Status
    <3>2. UNCHANGED <<listed, inventory, latest, failedVouchers, requestSeq, committedSeq,
                      fetch, confirmed>>
      BY <2>2 DEF InventoryChanges
    <3>3. VoucherTypeOK' /\ NumbersAreGiven' /\ CreatedIsNew' /\ AnswersKeepChanges'
      BY <2>1, <3>1, <3>2
      DEF VoucherTypeOK, NumbersAreGiven, CreatedIsNew, AnswersKeepChanges, Asking
    <3>4. WritesAreSeen'
      BY <2>1, <2>a, <3>1, <3>2 DEF VoucherTypeOK, WritesAreSeen, Asking, HeldAnswers
    <3>. QED
      BY <3>3, <3>4
  <2>3. ASSUME NEW t \in Task, NEW voucher \in Voucher \cup {None}, NEW wrote \in 0 .. MaxChanges,
               Asks(t, voucher, wrote), wrote <= version, t \in Poll => wrote = 0,
               fetch[t].phase \notin {"fetching", "held"},
               UNCHANGED <<version, committedSeq, confirmed>>
        PROVE /\ fetch' \in [Task -> Fetch] /\ requestSeq' \in 0 .. MaxFetches
              /\ NumbersAreGiven' /\ WritesAreSeen'
              /\ \A u \in Task : fetch'[u].phase \in {"created", "deleted"} => fetch'[u] = fetch[u]
    <3>. DEFINE waiting == [phase |-> "fetching", seq |-> requestSeq + 1, result |-> NoInventory,
                          voucher |-> voucher, wrote |-> wrote]
    <3>1. /\ requestSeq' = requestSeq + 1 /\ requestSeq' \in 0 .. MaxFetches
          /\ requestSeq \in Nat /\ committedSeq \in Nat
          /\ fetch' = [fetch EXCEPT ![t] = waiting]
      BY <2>1, <2>3 DEF Asks, VoucherTypeOK
    <3>2. waiting \in Fetch
      BY <3>1
    <3>3. \A u \in Task : u # t => fetch'[u] = fetch[u]
      BY <2>a, <3>1
    <3>4. fetch'[t] = waiting
      BY <2>a, <3>1
    <3>5. Asking' = Asking \cup {t} /\ t \notin Asking
      BY <2>3, <3>3, <3>4 DEF Asking
    <3>6. HeldAnswers' = HeldAnswers /\ HeldAnswers \subseteq Asking
      BY <2>3, <3>3, <3>4 DEF HeldAnswers, Asking
    <3>7. NumbersAreGiven'
      <4>1. committedSeq' <= requestSeq' /\ \A u \in Asking' : fetch'[u].seq <= requestSeq'
        BY <2>1, <2>3, <2>a, <3>1, <3>3, <3>4, <3>5 DEF NumbersAreGiven, Asking
      <4>2. ASSUME NEW u \in Asking', NEW w \in Asking', u # w PROVE fetch'[u].seq # fetch'[w].seq
        <5>1. CASE u # t /\ w # t
          BY <2>1, <3>3, <3>5, <4>2, <5>1 DEF NumbersAreGiven, Asking
        <5>2. CASE u = t
          <6>1. w \in Asking /\ fetch'[w] = fetch[w] /\ fetch[w] \in Fetch /\ fetch[w].seq <= requestSeq
            BY <2>1, <2>a, <3>3, <3>5, <4>2, <5>2 DEF NumbersAreGiven, Asking
          <6>. QED
            BY <3>1, <3>4, <5>2, <6>1
        <5>3. CASE w = t
          <6>1. u \in Asking /\ fetch'[u] = fetch[u] /\ fetch[u] \in Fetch /\ fetch[u].seq <= requestSeq
            BY <2>1, <2>a, <3>3, <3>5, <4>2, <5>3 DEF NumbersAreGiven, Asking
          <6>. QED
            BY <3>1, <3>4, <5>3, <6>1
        <5>. QED
          BY <5>1, <5>2, <5>3
      <4>. QED
        BY <4>1, <4>2 DEF NumbersAreGiven
    <3>8. WritesAreSeen'
      <4>1. confirmed' <= version' /\ \A u \in Task : fetch'[u].wrote <= version'
        BY <2>1, <2>3, <3>3, <3>4 DEF WritesAreSeen, VoucherTypeOK
      <4>2. \A p \in Poll : fetch'[p].wrote = 0
        BY <2>1, <2>3, <3>3, <3>4 DEF WritesAreSeen
      <4>3. \A c \in VoucherCommand : fetch'[c].phase # "held"
        BY <2>1, <3>3, <3>4 DEF WritesAreSeen
      <4>4. ASSUME NEW u \in HeldAnswers'
            PROVE /\ fetch'[u].seq >= committedSeq' => fetch'[u].result.asOf >= confirmed'
                  /\ \A w \in Asking' : fetch'[u].seq > fetch'[w].seq
                                         => fetch'[u].result.asOf >= fetch'[w].wrote
        <5>1. u \in HeldAnswers /\ u \in Task /\ u \in Asking /\ u # t /\ fetch'[u] = fetch[u]
          BY <3>3, <3>5, <3>6 DEF Asking
        <5>2. fetch[u] \in Fetch /\ fetch[u].seq <= requestSeq
          BY <2>1, <2>a, <5>1 DEF NumbersAreGiven
        <5>3. ~(fetch[u].seq > fetch'[t].seq)
          BY <3>1, <3>4, <5>2
        <5>4. \A w \in Asking : fetch'[w] = fetch[w]
          BY <3>3, <3>5 DEF Asking
        <5>. QED
          BY <2>1, <2>3, <3>5, <5>1, <5>3, <5>4 DEF WritesAreSeen
      <4>. QED
        BY <4>1, <4>2, <4>3, <4>4 DEF WritesAreSeen
    <3>. QED
      BY <2>a, <3>1, <3>2, <3>3, <3>4, <3>7, <3>8
  <2>4. ASSUME NEW p \in Poll, PollAsks(p) PROVE VoucherInv'
    <3>1. fetch[p].phase = "idle" /\ Asks(p, None, 0)
          /\ UNCHANGED <<atSite, version, listed, inventory, latest, failedVouchers, committedSeq,
                         confirmed>>
      BY <2>4 DEF PollAsks
    <3>2. 0 \in 0 .. MaxChanges /\ 0 <= version
      BY <2>1 DEF VoucherTypeOK
    <3>3. /\ fetch' \in [Task -> Fetch] /\ requestSeq' \in 0 .. MaxFetches
          /\ NumbersAreGiven' /\ WritesAreSeen'
          /\ \A u \in Task : fetch'[u].phase \in {"created", "deleted"} => fetch'[u] = fetch[u]
      BY <2>3, <3>1, <3>2
    <3>. QED
      BY <2>1, <2>c, <3>1, <3>3 DEF VoucherTypeOK, AnswersKeepChanges
  <2>5. ASSUME NEW othersLeft \in BOOLEAN, PollDropsSite(othersLeft) PROVE VoucherInv'
    <3>1. /\ listed' = FALSE /\ inventory' = NoInventory /\ confirmed' = 0
          /\ failedVouchers' = (failedVouchers /\ ~othersLeft)
          /\ UNCHANGED <<atSite, version, latest, requestSeq, committedSeq, fetch>>
      BY <2>5 DEF PollDropsSite
    <3>2. VoucherTypeOK'
      BY <2>1, <3>1 DEF VoucherTypeOK
    <3>3. NumbersAreGiven' /\ CreatedIsNew' /\ AnswersKeepChanges'
      BY <2>1, <3>1 DEF NumbersAreGiven, CreatedIsNew, AnswersKeepChanges, Asking
    <3>4. \A t \in HeldAnswers : fetch[t].result.asOf >= 0
      BY <2>a DEF HeldAnswers, Inventory
    <3>5. WritesAreSeen'
      BY <2>1, <3>1, <3>4 DEF VoucherTypeOK, WritesAreSeen, Asking, HeldAnswers
    <3>. QED
      BY <3>2, <3>3, <3>5
  <2>6. ASSUME NEW c \in VoucherCommand, NEW begun, begun \in Fetch,
               begun.phase \in {"created", "deleted"}, begun.wrote = version + 1,
               fetch[c].phase = "idle", fetch' = [fetch EXCEPT ![c] = begun],
               version' = version + 1, UNCHANGED <<requestSeq, committedSeq, confirmed>>
        PROVE fetch' \in [Task -> Fetch] /\ NumbersAreGiven' /\ WritesAreSeen'
    <3>1. c \in Task /\ version \in Nat /\ confirmed \in Nat /\ c \notin Poll
      BY <2>1 DEF VoucherTypeOK
    <3>2. \A u \in Task : u # c => fetch'[u] = fetch[u]
      BY <2>a, <2>6
    <3>3. fetch'[c] = begun
      BY <2>a, <2>6, <3>1
    <3>4. Asking' = Asking /\ HeldAnswers' = HeldAnswers /\ c \notin Asking /\ c \notin HeldAnswers
      BY <2>6, <3>2, <3>3 DEF Asking, HeldAnswers
    <3>5. NumbersAreGiven'
      BY <2>1, <2>6, <3>2, <3>4 DEF NumbersAreGiven, Asking
    <3>6. confirmed' <= version' /\ \A u \in Task : fetch'[u].wrote <= version'
      BY <2>1, <2>a, <2>6, <3>1, <3>2, <3>3 DEF WritesAreSeen
    <3>7. (\A p \in Poll : fetch'[p].wrote = 0) /\ \A d \in VoucherCommand : fetch'[d].phase # "held"
      BY <2>1, <2>6, <3>1, <3>2, <3>3 DEF WritesAreSeen
    <3>8. \A u \in HeldAnswers :
            /\ fetch'[u].seq >= committedSeq' => fetch'[u].result.asOf >= confirmed'
            /\ \A w \in Asking : fetch'[u].seq > fetch'[w].seq
                                  => fetch'[u].result.asOf >= fetch'[w].wrote
      BY <2>1, <2>6, <3>2, <3>4 DEF WritesAreSeen, Asking, HeldAnswers
    <3>. QED
      BY <2>a, <2>6, <3>4, <3>5, <3>6, <3>7, <3>8 DEF WritesAreSeen
  <2>7. ASSUME NEW c \in VoucherCommand, NEW v \in Voucher, Generates(c, v) PROVE VoucherInv'
    <3>. DEFINE begun == [NoFetch EXCEPT !.phase = "created", !.voucher = v, !.wrote = version + 1]
    <3>1. /\ fetch[c].phase = "idle" /\ version < MaxChanges /\ latest.id # v
          /\ \A t \in Task : fetch[t].voucher # v
          /\ atSite' = [atSite EXCEPT ![v] = "active"] /\ version' = version + 1
          /\ fetch' = [fetch EXCEPT ![c] = begun]
          /\ UNCHANGED <<listed, inventory, latest, failedVouchers, requestSeq, committedSeq,
                         confirmed>>
      BY <2>7 DEF Generates
    <3>2. version' \in 0 .. MaxChanges /\ atSite' \in Vouchers
      BY <2>1, <3>1 DEF VoucherTypeOK, Vouchers, Status
    <3>3. begun \in Fetch /\ begun.phase = "created" /\ begun.wrote = version + 1
          /\ begun.voucher = v
      BY <3>1, <3>2 DEF NoFetch
    <3>4. fetch' \in [Task -> Fetch] /\ NumbersAreGiven' /\ WritesAreSeen'
      BY <2>6, <3>1, <3>3
    <3>5. CreatedIsNew'
      <4>1. \A u \in Task : u # c => fetch'[u] = fetch[u]
        BY <2>a, <3>1
      <4>2. fetch'[c] = begun /\ latest' = latest
        BY <2>a, <3>1
      <4>. QED
        BY <2>1, <3>1, <3>3, <4>1, <4>2 DEF CreatedIsNew
    <3>. QED
      BY <2>1, <3>1, <3>2, <3>4, <3>5 DEF VoucherTypeOK, AnswersKeepChanges
  <2>8. ASSUME NEW c \in VoucherCommand, NEW v \in Voucher, Deletes(c, v) PROVE VoucherInv'
    <3>. DEFINE begun == [NoFetch EXCEPT !.phase = "deleted", !.voucher = v, !.wrote = version + 1]
    <3>1. /\ fetch[c].phase = "idle" /\ version < MaxChanges
          /\ inventory.vouchers[v] # "absent"
          /\ atSite' = [atSite EXCEPT ![v] = "absent"] /\ version' = version + 1
          /\ fetch' = [fetch EXCEPT ![c] = begun]
          /\ UNCHANGED <<listed, inventory, latest, failedVouchers, requestSeq, committedSeq,
                         confirmed>>
      BY <2>8 DEF Deletes
    <3>2. version' \in 0 .. MaxChanges /\ atSite' \in Vouchers
      BY <2>1, <3>1 DEF VoucherTypeOK, Vouchers, Status
    <3>3. begun \in Fetch /\ begun.phase = "deleted" /\ begun.wrote = version + 1
          /\ begun.voucher = v
      BY <3>1, <3>2 DEF NoFetch
    <3>4. fetch' \in [Task -> Fetch] /\ NumbersAreGiven' /\ WritesAreSeen'
      BY <2>6, <3>1, <3>3
    <3>5. CreatedIsNew'
      <4>1. \A u \in Task : u # c => fetch'[u] = fetch[u]
        BY <2>a, <3>1
      <4>2. fetch'[c] = begun /\ latest' = latest
        BY <2>a, <3>1
      <4>. QED
        BY <2>1, <3>1, <3>3, <4>1, <4>2 DEF CreatedIsNew
    <3>. QED
      BY <2>1, <3>1, <3>2, <3>4, <3>5 DEF VoucherTypeOK, AnswersKeepChanges
  <2>9. ASSUME NEW c \in VoucherCommand, CommandAnswered(c) PROVE VoucherInv'
    <3>1. /\ fetch[c].phase \in {"created", "deleted"} /\ Publishes(c)
          /\ UNCHANGED <<atSite, version, listed, inventory, failedVouchers, committedSeq,
                         confirmed>>
      BY <2>9 DEF CommandAnswered
    <3>2. fetch[c] \in Fetch /\ fetch[c].voucher \in Voucher /\ fetch[c].wrote <= version /\ c \notin Poll
      BY <2>1, <2>a, <3>1 DEF CreatedIsNew, WritesAreSeen
    <3>3. latest' \in Latest /\ latest'.id \in {latest.id, None, fetch[c].voucher}
          /\ (latest'.id = fetch[c].voucher => fetch[c].phase = "created" \/ latest.id = fetch[c].voucher)
      <4>1. CASE fetch[c].phase = "created"
        <5>. DEFINE record == [id |-> fetch[c].voucher, status |-> "active"]
        <5>1. record \in Latest /\ record.id = fetch[c].voucher
          BY <3>2 DEF Status
        <5>2. inventory.vouchers \in Vouchers
          BY <2>a DEF Inventory
        <5>3. latest' = Refreshed(record, inventory.vouchers)
          BY <3>1, <4>1 DEF Publishes
        <5>. QED
          BY <1>b, <4>1, <5>1, <5>2, <5>3
      <4>2. CASE fetch[c].phase = "deleted"
        BY <2>a, <3>1, <4>2 DEF Publishes
      <4>. QED
        BY <3>1, <4>1, <4>2
    <3>4. /\ fetch' \in [Task -> Fetch] /\ requestSeq' \in 0 .. MaxFetches
          /\ NumbersAreGiven' /\ WritesAreSeen'
          /\ \A u \in Task : fetch'[u].phase \in {"created", "deleted"} => fetch'[u] = fetch[u] /\ u # c
      <4>1. CASE listed /\ Asks(c, fetch[c].voucher, fetch[c].wrote)
        <5>1. /\ fetch' \in [Task -> Fetch] /\ requestSeq' \in 0 .. MaxFetches
              /\ NumbersAreGiven' /\ WritesAreSeen'
              /\ \A u \in Task : fetch'[u].phase \in {"created", "deleted"} => fetch'[u] = fetch[u]
          BY <2>3, <3>1, <3>2, <4>1
        <5>2. fetch'[c].phase = "fetching"
          BY <2>a, <4>1 DEF Asks
        <5>. QED
          BY <5>1, <5>2
      <4>2. CASE fetch' = [fetch EXCEPT ![c] = NoFetch] /\ UNCHANGED requestSeq
        <5>1. NumbersAreGiven' /\ WritesAreSeen'
          BY <2>b, <3>1, <4>2
        <5>2. \A u \in Task : u # c => fetch'[u] = fetch[u]
          BY <2>a, <4>2
        <5>3. fetch'[c] = NoFetch
          BY <2>a, <4>2
        <5>. QED
          BY <2>1, <2>a, <4>2, <5>1, <5>2, <5>3 DEF VoucherTypeOK
      <4>. QED
        BY <2>9, <4>1, <4>2 DEF CommandAnswered
    <3>5. CreatedIsNew'
      BY <2>1, <3>1, <3>3, <3>4 DEF CreatedIsNew
    <3>. QED
      BY <2>1, <3>1, <3>3, <3>4, <3>5 DEF VoucherTypeOK, AnswersKeepChanges
  <2>10. ASSUME NEW t \in Task, fetch' = [fetch EXCEPT ![t] = NoFetch],
                UNCHANGED <<atSite, version, listed, inventory, latest, failedVouchers, requestSeq,
                            committedSeq, confirmed>>
         PROVE VoucherInv'
    <3>1. NumbersAreGiven' /\ WritesAreSeen'
      BY <2>b, <2>10
    <3>2. fetch' \in [Task -> Fetch] /\ CreatedIsNew'
      BY <2>d, <2>10
    <3>. QED
      BY <2>1, <2>10, <3>1, <3>2 DEF VoucherTypeOK, AnswersKeepChanges
  <2>11. \A result \in Yields :
           result \in Inventory /\ (result.origin = "answer" => result.asOf = version)
    BY <2>1, <2>a DEF Yields, Inventory, Origin, VoucherTypeOK
  <2>12. ASSUME NEW t \in Task, NEW result \in Inventory, Commit(t, result)
         PROVE /\ latest' \in Latest /\ latest'.id = latest.id
               /\ inventory' \in Inventory /\ failedVouchers' \in BOOLEAN
               /\ committedSeq' \in 0 .. MaxFetches /\ confirmed' \in 0 .. MaxChanges
    <3>1. result.vouchers \in Vouchers
      BY DEF Inventory
    <3>2. latest' \in Latest /\ latest'.id = latest.id
      BY <1>b, <2>a, <2>12, <3>1 DEF Commit
    <3>3. failedVouchers' \in BOOLEAN
      BY <2>12 DEF Commit
    <3>. QED
      BY <2>1, <2>a, <2>12, <3>2, <3>3 DEF Commit, VoucherTypeOK
  <2>13. ASSUME NEW c \in VoucherCommand, CommandFetched(c) PROVE VoucherInv'
    <3>1. /\ fetch[c].phase = "fetching" /\ c \in Task /\ fetch' = [fetch EXCEPT ![c] = NoFetch]
          /\ UNCHANGED <<atSite, version, listed, requestSeq>>
      BY <2>13 DEF CommandFetched
    <3>2. CASE Wins(c) /\ \E result \in Yields : Commit(c, result)
      <4>1. PICK result \in Yields : Commit(c, result)
        BY <3>2
      <4>2. result \in Inventory
            /\ (result.origin = "answer" => result.asOf >= confirmed /\ result.asOf >= fetch[c].wrote)
        BY <2>1, <2>a, <2>11, <3>1 DEF WritesAreSeen, VoucherTypeOK
      <4>3. NumbersAreGiven' /\ WritesAreSeen' /\ AnswersKeepChanges'
        BY <2>e, <3>1, <3>2, <4>1, <4>2 DEF Asking
      <4>4. /\ latest' \in Latest /\ latest'.id = latest.id
            /\ inventory' \in Inventory /\ failedVouchers' \in BOOLEAN
            /\ committedSeq' \in 0 .. MaxFetches /\ confirmed' \in 0 .. MaxChanges
        BY <2>12, <3>1, <4>1, <4>2
      <4>5. fetch' \in [Task -> Fetch] /\ CreatedIsNew'
        BY <2>d, <3>1, <4>4
      <4>. QED
        BY <2>1, <3>1, <4>3, <4>4, <4>5 DEF VoucherTypeOK
    <3>3. CASE UNCHANGED <<committedSeq, inventory, failedVouchers, latest, confirmed>>
      BY <2>10, <3>1, <3>3
    <3>. QED
      BY <2>13, <3>2, <3>3 DEF CommandFetched
  <2>14. ASSUME NEW p \in Poll, PollFetched(p) PROVE VoucherInv'
    <3>1. PICK result \in Yields :
            fetch' = [fetch EXCEPT ![p] = [@ EXCEPT !.phase = "held", !.result = result]]
      BY <2>a, <2>14 DEF PollFetched
    <3>. DEFINE held == [fetch[p] EXCEPT !.phase = "held", !.result = result]
    <3>2. /\ p \in Task /\ p \notin VoucherCommand /\ fetch[p].phase = "fetching"
          /\ UNCHANGED <<atSite, version, listed, inventory, latest, failedVouchers, requestSeq,
                         committedSeq, confirmed>>
      BY <2>14 DEF PollFetched
    <3>3. /\ held \in Fetch /\ held.phase = "held" /\ held.seq = fetch[p].seq
          /\ held.wrote = fetch[p].wrote /\ held.result = result
          /\ fetch' = [fetch EXCEPT ![p] = held]
      BY <2>a, <2>11, <3>1, <3>2
    <3>4. fetch' \in [Task -> Fetch] /\ CreatedIsNew'
      BY <2>d, <3>2, <3>3
    <3>5. \A u \in Task : u # p => fetch'[u] = fetch[u]
      BY <2>a, <3>3
    <3>6. fetch'[p] = held
      BY <2>a, <3>2, <3>3
    <3>7. Asking' = Asking /\ p \in Asking /\ HeldAnswers' \subseteq HeldAnswers \cup {p}
          /\ (p \in HeldAnswers' => result.origin = "answer")
      BY <3>2, <3>3, <3>5, <3>6 DEF Asking, HeldAnswers
    <3>8. \A u \in Task : fetch'[u].seq = fetch[u].seq /\ fetch'[u].wrote = fetch[u].wrote
      BY <3>3, <3>5, <3>6
    <3>9. NumbersAreGiven'
      BY <2>1, <3>2, <3>7, <3>8 DEF NumbersAreGiven, Asking
    <3>10. WritesAreSeen'
      <4>1. confirmed' <= version' /\ (\A u \in Task : fetch'[u].wrote <= version')
            /\ (\A q \in Poll : fetch'[q].wrote = 0)
        BY <2>1, <3>2, <3>8 DEF WritesAreSeen
      <4>2. \A c \in VoucherCommand : fetch'[c].phase # "held"
        BY <2>1, <3>2, <3>5 DEF WritesAreSeen
      <4>3. ASSUME NEW u \in HeldAnswers'
            PROVE /\ fetch'[u].seq >= committedSeq' => fetch'[u].result.asOf >= confirmed'
                  /\ \A w \in Asking' : fetch'[u].seq > fetch'[w].seq
                                         => fetch'[u].result.asOf >= fetch'[w].wrote
        <5>1. CASE u = p
          <6>1. fetch'[u].result.asOf = version
            <7>1. fetch'[p].result = result
              BY <3>3, <3>6
            <7>2. result.origin = "answer"
              BY <3>7, <5>1
            <7>. QED
              BY <2>11, <5>1, <7>1, <7>2
          <6>. QED
            BY <2>1, <3>2, <3>7, <3>8, <6>1 DEF WritesAreSeen, Asking, VoucherTypeOK
        <5>2. CASE u # p
          <6>1. u \in HeldAnswers /\ u \in Task /\ fetch'[u] = fetch[u]
            BY <3>5, <3>7, <5>2 DEF HeldAnswers
          <6>. QED
            BY <2>1, <3>2, <3>7, <3>8, <6>1 DEF WritesAreSeen, Asking
        <5>. QED
          BY <5>1, <5>2
      <4>. QED
        BY <4>1, <4>2, <4>3 DEF WritesAreSeen
    <3>. QED
      BY <2>1, <3>2, <3>4, <3>9, <3>10 DEF VoucherTypeOK, AnswersKeepChanges
  <2>15. ASSUME NEW p \in Poll, PollCommits(p) PROVE VoucherInv'
    <3>1. /\ p \in Task /\ fetch[p].phase = "held" /\ listed' = TRUE
          /\ fetch' = [fetch EXCEPT ![p] = NoFetch]
          /\ UNCHANGED <<atSite, version, requestSeq>>
      BY <2>15 DEF PollCommits
    <3>2. CASE Wins(p) /\ Commit(p, fetch[p].result)
      <4>. DEFINE result == fetch[p].result
      <4>1. result \in Inventory /\ fetch[p].wrote = 0
            /\ (result.origin = "answer" => result.asOf >= confirmed /\ result.asOf >= fetch[p].wrote)
        <5>1. result \in Inventory /\ fetch[p].wrote = 0 /\ result.asOf \in 0 .. MaxChanges
          BY <2>1, <2>a, <3>1 DEF WritesAreSeen, Inventory
        <5>2. result.origin = "answer" => p \in HeldAnswers
          BY <3>1 DEF HeldAnswers
        <5>. QED
          BY <2>1, <3>2, <5>1, <5>2 DEF WritesAreSeen, Wins
      <4>2. NumbersAreGiven' /\ WritesAreSeen' /\ AnswersKeepChanges'
        BY <2>e, <3>1, <3>2, <4>1 DEF Asking
      <4>3. /\ latest' \in Latest /\ latest'.id = latest.id
            /\ inventory' \in Inventory /\ failedVouchers' \in BOOLEAN
            /\ committedSeq' \in 0 .. MaxFetches /\ confirmed' \in 0 .. MaxChanges
        BY <2>12, <3>1, <3>2, <4>1
      <4>4. fetch' \in [Task -> Fetch] /\ CreatedIsNew'
        BY <2>d, <3>1, <4>3
      <4>. QED
        BY <2>1, <3>1, <4>2, <4>3, <4>4 DEF VoucherTypeOK
    <3>3. CASE /\ latest' = Refreshed(latest, inventory.vouchers)
               /\ UNCHANGED <<committedSeq, inventory, failedVouchers, confirmed>>
      <4>1. NumbersAreGiven' /\ WritesAreSeen'
        BY <2>b, <3>1, <3>3
      <4>2. latest' \in Latest /\ latest'.id = latest.id
        BY <1>b, <2>a, <3>3 DEF Inventory
      <4>3. fetch' \in [Task -> Fetch] /\ CreatedIsNew'
        BY <2>d, <3>1, <4>2
      <4>. QED
        BY <2>1, <3>1, <3>3, <4>1, <4>2, <4>3 DEF VoucherTypeOK, AnswersKeepChanges
    <3>. QED
      BY <2>15, <3>2, <3>3 DEF PollCommits
  <2>16. ASSUME NEW c \in VoucherCommand, VoucherCommandFails(c) PROVE VoucherInv'
    BY <2>10, <2>16 DEF VoucherCommandFails
  <2>17. ASSUME NEW t \in Task, Aborts(t) PROVE VoucherInv'
    BY <2>10, <2>17 DEF Aborts
  <2>18. CASE UNCHANGED voucherVars
    BY <2>1, <2>18
    DEF voucherVars, VoucherTypeOK, NumbersAreGiven, WritesAreSeen, CreatedIsNew,
        AnswersKeepChanges, Asking, HeldAnswers
  <2>. QED
    BY <2>1, <2>2, <2>4, <2>5, <2>7, <2>8, <2>9, <2>13, <2>14, <2>15, <2>16, <2>17, <2>18
    DEF VoucherNext
<1>. QED
  BY <1>1, <1>2, PTL DEF VoucherSpec

(* An inventory answered before a confirmed change never replaces it, and  *)
(* the kept voucher never becomes redeemable again.                        *)
THEOREM VouchersStayAhead == VoucherSpec => VouchersNeverGoBack
<1>1. VoucherInv /\ [VoucherNext]_voucherVars
      => [latest.status = "expired" /\ latest'.id = latest.id => latest'.status = "expired"]_voucherVars
  <2>1. SUFFICES ASSUME VoucherInv, VoucherNext, latest.status = "expired", latest'.id = latest.id
                 PROVE latest'.status = "expired"
    OBVIOUS
  <2>2. \A vouchers : Refreshed(latest, vouchers) = latest
    BY <2>1 DEF Refreshed
  <2>4. ASSUME NEW c \in VoucherCommand, CommandAnswered(c) PROVE latest'.status = "expired"
    <3>1. c \in Task /\ fetch[c].voucher \in Voucher /\ (fetch[c].phase = "created" => latest.id # fetch[c].voucher)
      BY <2>1, <2>4 DEF VoucherInv, CreatedIsNew, CommandAnswered, Task
    <3>2. CASE fetch[c].phase = "created"
      <4>1. latest'.id = fetch[c].voucher
        BY <2>4, <3>2 DEF CommandAnswered, Publishes, Refreshed
      <4>. QED
        BY <2>1, <3>1, <3>2, <4>1
    <3>3. CASE fetch[c].phase = "deleted"
      BY <2>1, <2>4, <3>1, <3>3, VoucherAssumption DEF CommandAnswered, Publishes, NoLatest
    <3>. QED
      BY <2>4, <3>2, <3>3 DEF CommandAnswered
  <2>5. ASSUME NEW t \in Task, NEW result, Commit(t, result) PROVE latest'.status = "expired"
    BY <2>1, <2>2, <2>5 DEF Commit
  <2>6. ASSUME NEW c \in VoucherCommand, CommandFetched(c) PROVE latest'.status = "expired"
    BY <2>1, <2>5, <2>6 DEF CommandFetched, Task
  <2>7. ASSUME NEW p \in Poll, PollCommits(p) PROVE latest'.status = "expired"
    BY <2>1, <2>2, <2>5, <2>7 DEF PollCommits, Task
  <2>. QED
    BY <2>1, <2>4, <2>6, <2>7
    DEF VoucherNext, InventoryChanges, PollAsks, PollFetched, PollDropsSite, Generates, Deletes,
        VoucherCommandFails, Aborts
<1>2. VoucherInv => VoucherTypeOK /\ AnswersKeepChanges
  BY DEF VoucherInv
<1>. QED
  BY <1>1, <1>2, VoucherInvHolds, PTL DEF VoucherSpec, VouchersNeverGoBack, LatestNeverRevives

-----------------------------------------------------------------------------
(* Outlet writes. Of every cell Home Assistant set or was told of, the     *)
(* controller's state is either the one it reports as baseline, or the one *)
(* held pending; and as long as an array lags, the change is no younger    *)
(* than the pending write, so that the guard time outlives the lag. Then a *)
(* trusted record, and an array built from it, has these cells right.      *)
Whole(rows) == rows \in [Outlet -> OutletState]

Lags(c) ==
  \/ At(reportedArrays.table, c) # At(config, c)
  \/ /\ reportedArrays.overrides # NoRows
     /\ At(reportedArrays.overrides, c) # At(config, c)

IsPending(c) == c[2] \in DOMAIN pending[c[1]].fields

HeldRight(c) ==
  /\ pending[c[1]].fields[c[2]] = At(config, c)
  /\ Lags(c) => pending[c[1]].age <= age[c]

ReportedRight(c) == At(Baseline(reportedArrays), c) = At(config, c)

ReportedAreWhole ==
  /\ Whole(reportedArrays.table)
  /\ reportedArrays.overrides = NoRows \/ Whole(reportedArrays.overrides)

FreshAreKnown ==
  \A c \in fresh : IF IsPending(c) THEN HeldRight(c) ELSE ReportedRight(c)

TrustedIsRight ==
  trusted => /\ Whole(Baseline(outletCache))
             /\ \A c \in fresh : At(Baseline(outletCache), c) = At(config, c)

CommandIsOfACell ==
  command.phase # "idle" => <<command.outlet, command.field>> \in Cell

SentIsRight ==
  command.phase = "sent" =>
    /\ ~polling
    /\ Whole(command.sent)
    /\ command.sent[command.outlet][command.field] = command.value
    /\ \A c \in fresh :
         \/ At(command.sent, c) = At(config, c)
         \/ c[1] = command.outlet /\ c[2] \in {"relay_state", command.field}

OutletInv ==
  /\ OutletTypeOK
  /\ ReportedAreWhole
  /\ FreshAreKnown
  /\ TrustedIsRight
  /\ CommandIsOfACell
  /\ SentIsRight

LEMMA CellIs ==
  ASSUME NEW c \in Cell
  PROVE  c[1] \in Outlet /\ c[2] \in Field /\ c = <<c[1], c[2]>>
BY OutletAssumption DEF Cell, Field

LEMMA RowsAre ==
  ASSUME NEW rows \in Rows
  PROVE  DOMAIN rows \subseteq Outlet /\ rows \in [DOMAIN rows -> OutletState]
BY DEF Rows

LEMMA IntoRows ==
  ASSUME NEW indexes \in SUBSET Outlet, NEW rows \in [indexes -> OutletState]
  PROVE  rows \in Rows
BY DEF Rows

LEMMA WholeIsRows == \A rows : Whole(rows) => rows \in Rows /\ DOMAIN rows = Outlet
BY IntoRows DEF Whole

LEMMA NoRowsIs ==
  /\ NoRows \in Rows /\ DOMAIN NoRows = {}
  /\ \A rows \in Rows : DOMAIN rows = {} => rows = NoRows
<1>1. DOMAIN NoRows = {} /\ NoRows \in [{} -> OutletState]
  BY DEF NoRows
<1>2. ASSUME NEW rows \in Rows, DOMAIN rows = {} PROVE rows = NoRows
  BY <1>2, RowsAre DEF NoRows
<1> QED BY <1>1, <1>2, IntoRows

LEMMA WholeIsSome == ~Whole(NoRows)
BY NoRowsIs, OutletAssumption DEF Whole

LEMMA NoWriteIs ==
  /\ NoWrite \in [fields : UNION {[fs -> BOOLEAN] : fs \in SUBSET Field},
                  saved : OutletState, age : 0 .. Guard]
  /\ DOMAIN NoWrite.fields = {} /\ NoWrite.age = 0
<1>1. [f \in {} |-> FALSE] \in [{} -> BOOLEAN]
  OBVIOUS
<1>2. [f \in {} |-> FALSE] \in UNION {[fs -> BOOLEAN] : fs \in SUBSET Field}
  BY <1>1
<1>3. Off \in OutletState
  BY DEF Off, OutletState
<1>4. 0 \in 0 .. Guard
  BY OutletAssumption
<1>5. NoWrite = [fields |-> [f \in {} |-> FALSE], saved |-> Off, age |-> 0]
  BY DEF NoWrite
<1> QED BY <1>2, <1>3, <1>4, <1>5

LEMMA NoCommandIs ==
  /\ NoCommand \in [phase : {"idle", "waiting", "sent"}, outlet : Outlet, field : Field,
                    value : BOOLEAN, state : BOOLEAN, sent : Rows]
  /\ NoCommand.phase = "idle"
BY NoRowsIs, OutletAssumption DEF NoCommand, Field

(* What is reported, and an array built from the cache, as baselines.      *)
LEMMA BaselineOfReported ==
  ASSUME ReportedAreWhole
  PROVE  /\ Whole(Baseline(reportedArrays))
         /\ reportedArrays.overrides = NoRows
              => Baseline(reportedArrays) = reportedArrays.table
         /\ reportedArrays.overrides # NoRows
              => Baseline(reportedArrays) = reportedArrays.overrides
BY NoRowsIs, OutletAssumption DEF ReportedAreWhole, Baseline, Whole

(* What does not lag is reported right.                                    *)
LEMMA NotLagging ==
  ASSUME ReportedAreWhole, NEW c \in Cell, ~Lags(c)
  PROVE  ReportedRight(c)
BY BaselineOfReported DEF Lags, ReportedRight

-----------------------------------------------------------------------------
LEMMA ConsoleSetsInv ==
  \A o \in Outlet, f \in Field : OutletInv /\ ConsoleSets(o, f) => OutletInv'
<1> SUFFICES ASSUME NEW o \in Outlet, NEW f \in Field, OutletInv, ConsoleSets(o, f)
             PROVE  OutletInv'
  OBVIOUS
<1>0. /\ UNCHANGED <<reportedArrays, outletCache, required, trusted, pending, polling, command>>
      /\ <<o, f>> \in Cell /\ changes < MaxOutletChanges /\ changes' = changes + 1
      /\ fresh' = fresh \ {<<o, f>>} /\ overridden' = TRUE
      /\ age' = [c \in Cell |-> IF c \in Changed THEN 0 ELSE age[c]]
      /\ config' = [config EXCEPT ![o][f] = ~@]
  BY DEF ConsoleSets, Ages
<1>1. config' \in [Outlet -> OutletState]
  BY <1>0 DEF OutletInv, OutletTypeOK, OutletState
<1>2. age' \in [Cell -> 0 .. MaxLag]
  BY <1>0, OutletAssumption DEF OutletInv, OutletTypeOK
<1>3. OutletTypeOK'
  BY <1>0, <1>1, <1>2, OutletAssumption DEF OutletInv, OutletTypeOK
<1>4. \A c \in fresh' : /\ c \in fresh /\ c \in Cell
                        /\ At(config', c) = At(config, c) /\ age'[c] = age[c]
  <2> TAKE c \in fresh'
  <2>1. c \in fresh /\ c \in Cell /\ c # <<o, f>>
    BY <1>0 DEF OutletInv, OutletTypeOK
  <2>2. c[1] # o \/ c[2] # f
    BY <2>1, CellIs
  <2>3. At(config', c) = At(config, c)
    BY <1>0, <2>1, <2>2, CellIs DEF At, OutletInv, OutletTypeOK, OutletState
  <2> QED BY <1>0, <2>1, <2>3 DEF Changed
<1>5. FreshAreKnown'
  BY <1>0, <1>4 DEF OutletInv, FreshAreKnown, IsPending, HeldRight, ReportedRight, Lags
<1>6. TrustedIsRight'
  BY <1>0, <1>4 DEF OutletInv, TrustedIsRight
<1>7. SentIsRight'
  BY <1>0, <1>4 DEF OutletInv, SentIsRight
<1> QED
  BY <1>0, <1>3, <1>5, <1>6, <1>7 DEF OutletInv, ReportedAreWhole, CommandIsOfACell

(* An array that catches up comes closer to the controller.                *)
LEMMA CatchUpInv == OutletInv /\ CatchUp => OutletInv'
<1> SUFFICES ASSUME NEW o \in Outlet, OutletInv, OverridesCatchUp(o) \/ TableCatchesUp(o)
             PROVE  OutletInv'
  BY DEF CatchUp
<1>0. UNCHANGED <<config, overridden, age, outletCache, required, trusted, pending, polling,
                  command, changes, fresh>>
  BY DEF OverridesCatchUp, TableCatchesUp
<1> DEFINE Follows(new, old) == \A p \in Outlet : new[p] \in {old[p], config[p]}
<1>1. /\ reportedArrays' \in Arrays /\ ReportedAreWhole'
      /\ Follows(reportedArrays'.table, reportedArrays.table)
      /\ reportedArrays'.overrides # NoRows =>
           \/ reportedArrays.overrides = NoRows /\ reportedArrays'.overrides = config
           \/ /\ reportedArrays.overrides # NoRows
              /\ Follows(reportedArrays'.overrides, reportedArrays.overrides)
      /\ reportedArrays'.overrides = NoRows => reportedArrays.overrides = NoRows
  <2>1. config[o] \in OutletState /\ Whole(config)
    BY DEF OutletInv, OutletTypeOK, Whole
  <2>2. CASE TableCatchesUp(o)
    <3>1. reportedArrays' = [reportedArrays EXCEPT !.table[o] = config[o]]
      BY <2>2 DEF TableCatchesUp
    <3>2. /\ reportedArrays'.overrides = reportedArrays.overrides
          /\ reportedArrays'.table = [reportedArrays.table EXCEPT ![o] = config[o]]
          /\ reportedArrays' = [overrides |-> reportedArrays'.overrides,
                                table |-> reportedArrays'.table]
      BY <3>1 DEF OutletInv, OutletTypeOK, Arrays
    <3>3. Whole(reportedArrays'.table)
      BY <2>1, <3>2 DEF OutletInv, ReportedAreWhole, Whole
    <3>4. reportedArrays' \in Arrays
      BY <3>2, <3>3, WholeIsRows DEF OutletInv, OutletTypeOK, Arrays
    <3> QED
      BY <2>1, <3>2, <3>3, <3>4 DEF OutletInv, ReportedAreWhole, Whole
  <2>3. CASE OverridesCatchUp(o)
    <3>1. reportedArrays' = [reportedArrays EXCEPT !.overrides =
                    IF @ = NoRows THEN config ELSE [@ EXCEPT ![o] = config[o]]]
      BY <2>3 DEF OverridesCatchUp
    <3>2. /\ reportedArrays'.table = reportedArrays.table
          /\ reportedArrays'.overrides =
               IF reportedArrays.overrides = NoRows THEN config
               ELSE [reportedArrays.overrides EXCEPT ![o] = config[o]]
          /\ reportedArrays' = [overrides |-> reportedArrays'.overrides,
                                table |-> reportedArrays'.table]
      BY <3>1 DEF OutletInv, OutletTypeOK, Arrays
    <3>3. Whole(reportedArrays'.overrides)
      BY <2>1, <3>2 DEF OutletInv, ReportedAreWhole, Whole
    <3>4. reportedArrays' \in Arrays
      BY <3>2, <3>3, WholeIsRows DEF OutletInv, OutletTypeOK, Arrays
    <3> QED
      BY <2>1, <3>2, <3>3, <3>4, WholeIsSome DEF OutletInv, ReportedAreWhole, Whole
  <2> QED BY <2>2, <2>3
<1>2. OutletTypeOK'
  BY <1>0, <1>1 DEF OutletInv, OutletTypeOK
<1>3. ASSUME NEW c \in Cell
      PROVE  /\ Lags(c)' => Lags(c)
             /\ ReportedRight(c) => ReportedRight(c)'
  <2>1. At(reportedArrays.table, c) = At(config, c)
          => At(reportedArrays'.table, c) = At(config, c)
    BY <1>1, CellIs DEF At
  <2>2. /\ reportedArrays.overrides # NoRows
        /\ At(reportedArrays.overrides, c) = At(config, c)
        => At(reportedArrays'.overrides, c) = At(config, c)
    BY <1>1, CellIs DEF At
  <2>3. reportedArrays.overrides = NoRows /\ reportedArrays'.overrides # NoRows
          => At(reportedArrays'.overrides, c) = At(config, c)
    BY <1>1
  <2>4. Lags(c)' => Lags(c)
    BY <1>0, <1>1, <2>1, <2>2, <2>3 DEF Lags
  <2>5. ReportedRight(c) => ReportedRight(c)'
    <3>1. /\ reportedArrays'.overrides = NoRows
               => Baseline(reportedArrays)' = reportedArrays'.table
          /\ reportedArrays'.overrides # NoRows
               => Baseline(reportedArrays)' = reportedArrays'.overrides
      BY <1>1, NoRowsIs, OutletAssumption DEF ReportedAreWhole, Baseline, Whole
    <3> QED
      BY <1>0, <1>1, <2>1, <2>2, <2>3, <3>1, BaselineOfReported
         DEF ReportedRight, OutletInv
  <2> QED BY <2>4, <2>5
<1>4. FreshAreKnown'
  <2> SUFFICES ASSUME NEW c \in fresh
               PROVE  (IF IsPending(c) THEN HeldRight(c) ELSE ReportedRight(c))'
    BY <1>0 DEF FreshAreKnown
  <2>1. c \in Cell
    BY DEF OutletInv, OutletTypeOK
  <2>2. IF IsPending(c) THEN HeldRight(c) ELSE ReportedRight(c)
    BY DEF OutletInv, FreshAreKnown
  <2> QED BY <1>0, <1>3, <2>1, <2>2 DEF IsPending, HeldRight
<1> QED
  BY <1>0, <1>1, <1>2, <1>4
     DEF OutletInv, TrustedIsRight, CommandIsOfACell, SentIsRight

LEMMA PollStartsInv == OutletInv /\ (PollStarts \/ PollFails) => OutletInv'
<1> SUFFICES ASSUME OutletInv, PollStarts \/ PollFails PROVE OutletInv'
  OBVIOUS
<1>1. /\ UNCHANGED <<config, overridden, reportedArrays, age, outletCache, required, trusted,
                     pending, command, changes, fresh>>
      /\ polling' \in BOOLEAN
      /\ command.phase = "sent" => polling' = FALSE
  BY DEF PollStarts, PollFails
<1>2. OutletTypeOK'
  BY <1>1 DEF OutletInv, OutletTypeOK
<1>3. FreshAreKnown'
  BY <1>1 DEF OutletInv, FreshAreKnown, IsPending, HeldRight, ReportedRight, Lags
<1>4. SentIsRight'
  BY <1>1 DEF OutletInv, SentIsRight
<1> QED
  BY <1>1, <1>2, <1>3, <1>4
     DEF OutletInv, ReportedAreWhole, TrustedIsRight, CommandIsOfACell

LEMMA DeviceGoneInv == OutletInv /\ DeviceGone => OutletInv'
<1> SUFFICES ASSUME OutletInv, DeviceGone PROVE OutletInv'
  OBVIOUS
<1>1. pending' \in [Outlet -> [fields : UNION {[fs -> BOOLEAN] : fs \in SUBSET Field},
                               saved : OutletState, age : 0 .. Guard]]
  BY NoWriteIs DEF DeviceGone
<1>2. outletCache' \in Arrays
  BY NoRowsIs DEF DeviceGone, Arrays
<1>3. OutletTypeOK'
  BY <1>1, <1>2 DEF DeviceGone, OutletInv, OutletTypeOK
<1> QED
  BY <1>3 DEF DeviceGone, OutletInv, ReportedAreWhole, FreshAreKnown, TrustedIsRight,
              CommandIsOfACell, SentIsRight

LEMMA CallsInv == \A o \in Outlet, f \in Field : OutletInv /\ Calls(o, f) => OutletInv'
<1> SUFFICES ASSUME NEW o \in Outlet, NEW f \in Field, OutletInv, Calls(o, f)
             PROVE  OutletInv'
  OBVIOUS
<1>1. PICK on \in BOOLEAN :
        command' = [phase |-> "waiting", outlet |-> o, field |-> f, value |-> on,
                    state |-> IF f = "relay_state" THEN on
                              ELSE outletCache.table[o]["relay_state"],
                    sent |-> NoRows]
  BY DEF Calls
<1>2. /\ UNCHANGED <<config, overridden, reportedArrays, age, outletCache, required, trusted,
                     pending, polling, fresh>>
      /\ <<o, f>> \in Cell /\ changes < MaxOutletChanges /\ changes' = changes + 1
      /\ o \in DOMAIN outletCache.table
  BY DEF Calls
<1>3. outletCache.table[o]["relay_state"] \in BOOLEAN
  <2>1. outletCache.table \in Rows
    BY DEF OutletInv, OutletTypeOK, Arrays
  <2> QED BY <1>2, <2>1, RowsAre DEF OutletState, Field
<1>4. command' \in [phase : {"idle", "waiting", "sent"}, outlet : Outlet, field : Field,
                    value : BOOLEAN, state : BOOLEAN, sent : Rows]
  BY <1>1, <1>3, NoRowsIs
<1>5. OutletTypeOK'
  BY <1>2, <1>4, OutletAssumption DEF OutletInv, OutletTypeOK
<1>6. FreshAreKnown'
  BY <1>2 DEF OutletInv, FreshAreKnown, IsPending, HeldRight, ReportedRight, Lags
<1> QED
  BY <1>1, <1>2, <1>5, <1>6
     DEF OutletInv, ReportedAreWhole, TrustedIsRight, CommandIsOfACell, SentIsRight

(* An array built from a trusted record is whole, and right about all that *)
(* is fresh but the command's own cells.                                   *)
LEMMA BuiltIsRight ==
  ASSUME OutletInv, trusted
  PROVE  /\ Whole(Built)
         /\ Built[command.outlet][command.field] = command.value
         /\ \A c \in fresh :
              \/ At(Built, c) = At(config, c)
              \/ c[1] = command.outlet /\ c[2] \in {"relay_state", command.field}
<1> DEFINE rows == Baseline(outletCache)
           o == command.outlet
           new == [rows[o] EXCEPT !["relay_state"] = command.state,
                                  ![command.field] = command.value]
<1>1. /\ Whole(rows) /\ o \in Outlet /\ command.field \in Field
      /\ command.state \in BOOLEAN /\ command.value \in BOOLEAN
      /\ \A c \in fresh : At(rows, c) = At(config, c)
  BY DEF OutletInv, TrustedIsRight, OutletTypeOK
<1>2. DOMAIN rows = Outlet /\ rows[o] \in OutletState
  BY <1>1 DEF Whole
<1> HIDE DEF rows
<1>3. Built = [p \in Outlet |-> IF p = o THEN new ELSE rows[p]]
  BY <1>1, <1>2 DEF Built, rows
<1>4. /\ new \in OutletState /\ new[command.field] = command.value
      /\ \A f \in Field : f \notin {"relay_state", command.field} => new[f] = rows[o][f]
  BY <1>1, <1>2 DEF OutletState, Field
<1> HIDE DEF new, o
<1>5. Whole(Built) /\ Built[o][command.field] = command.value
  BY <1>1, <1>3, <1>4 DEF Whole
<1>6. ASSUME NEW c \in fresh,
             ~(c[1] = o /\ c[2] \in {"relay_state", command.field})
      PROVE  At(Built, c) = At(config, c)
  <2>1. c[1] \in Outlet /\ c[2] \in Field
    BY CellIs DEF OutletInv, OutletTypeOK
  <2> QED BY <1>1, <1>3, <1>4, <1>6, <2>1 DEF At
<1> QED BY <1>5, <1>6 DEF o

LEMMA SendsCommandsInv == OutletInv /\ SendsCommands => OutletInv'
<1> SUFFICES ASSUME OutletInv, SendsCommands PROVE OutletInv'
  OBVIOUS
<1>1. /\ UNCHANGED <<config, overridden, reportedArrays, age, outletCache, required, trusted,
                     pending, polling, changes, fresh>>
      /\ command.phase = "waiting" /\ ~polling
  BY DEF SendsCommands
<1>2. FreshAreKnown'
  BY <1>1 DEF OutletInv, FreshAreKnown, IsPending, HeldRight, ReportedRight, Lags
<1>3. CASE PayloadIsSafe
  <2>1. command' = [command EXCEPT !.phase = "sent", !.sent = Built] /\ trusted
    BY <1>3 DEF SendsCommands, PayloadIsSafe
  <2>2. /\ Whole(Built)
        /\ Built[command.outlet][command.field] = command.value
        /\ \A c \in fresh :
             \/ At(Built, c) = At(config, c)
             \/ c[1] = command.outlet /\ c[2] \in {"relay_state", command.field}
    BY <2>1, BuiltIsRight
  <2>3. Built \in Rows
    BY <2>2, WholeIsRows
  <2>4. /\ command' \in [phase : {"idle", "waiting", "sent"}, outlet : Outlet, field : Field,
                         value : BOOLEAN, state : BOOLEAN, sent : Rows]
        /\ command'.outlet = command.outlet /\ command'.field = command.field
        /\ command'.value = command.value /\ command'.sent = Built
        /\ command'.phase = "sent"
    BY <2>1, <2>3 DEF OutletInv, OutletTypeOK
  <2>5. OutletTypeOK'
    BY <1>1, <2>4 DEF OutletInv, OutletTypeOK
  <2>6. SentIsRight'
    BY <1>1, <2>2, <2>4 DEF SentIsRight
  <2> QED
    BY <1>1, <1>2, <2>4, <2>5, <2>6
       DEF OutletInv, ReportedAreWhole, TrustedIsRight, CommandIsOfACell
<1>4. CASE ~PayloadIsSafe
  <2>1. command' = NoCommand
    BY <1>4 DEF SendsCommands
  <2>2. OutletTypeOK'
    BY <1>1, <2>1, NoCommandIs DEF OutletInv, OutletTypeOK
  <2> QED
    BY <1>1, <1>2, <2>1, <2>2, NoCommandIs
       DEF OutletInv, ReportedAreWhole, TrustedIsRight, CommandIsOfACell, SentIsRight
<1> QED BY <1>3, <1>4

-----------------------------------------------------------------------------
(* The PUT of a built array.                                               *)
LEMMA AppliesSent ==
  ASSUME OutletInv, command.phase = "sent", Applies
  PROVE  /\ config' = command.sent /\ config' \in [Outlet -> OutletState]
         /\ overridden' = TRUE /\ age' \in [Cell -> 0 .. MaxLag]
         /\ \A c \in Cell : c \notin Changed
              => At(config', c) = At(config, c) /\ age'[c] = age[c]
<1>1. Whole(command.sent)
  BY DEF OutletInv, SentIsRight
<1>2. config' = command.sent
  BY <1>1 DEF Applies, Whole
<1>3. age' = [c \in Cell |-> IF c \in Changed THEN 0 ELSE age[c]]
  BY DEF Applies, Ages
<1>4. age' \in [Cell -> 0 .. MaxLag]
  BY <1>3, OutletAssumption DEF OutletInv, OutletTypeOK
<1>5. \A c \in Cell : c \notin Changed
        => At(config', c) = At(config, c) /\ age'[c] = age[c]
  BY <1>3 DEF Changed
<1> QED BY <1>1, <1>2, <1>4, <1>5 DEF Applies, Ages, Whole

(* What a cell keeps that the PUT does not change.                         *)
LEMMA KnownStays ==
  ASSUME OutletInv, NEW c \in fresh,
         At(config', c) = At(config, c), age'[c] = age[c],
         UNCHANGED reportedArrays,
         IsPending(c)' = IsPending(c),
         IsPending(c)' => /\ pending'[c[1]].fields[c[2]] = pending[c[1]].fields[c[2]]
                          /\ pending'[c[1]].age <= pending[c[1]].age
                          /\ pending'[c[1]].age \in Nat
  PROVE  (IF IsPending(c) THEN HeldRight(c) ELSE ReportedRight(c))'
<1>1. c \in Cell
  BY DEF OutletInv, OutletTypeOK
<1>2. pending[c[1]].age \in Nat /\ age[c] \in Nat
  BY <1>1, CellIs, OutletAssumption DEF OutletInv, OutletTypeOK
<1>3. IF IsPending(c) THEN HeldRight(c) ELSE ReportedRight(c)
  BY DEF OutletInv, FreshAreKnown
<1>4. Lags(c)' => Lags(c)
  BY DEF Lags
<1>5. ReportedRight(c) => ReportedRight(c)'
  BY DEF ReportedRight
<1>6. IsPending(c)' /\ HeldRight(c) => HeldRight(c)'
  BY <1>2, <1>4 DEF HeldRight
<1> QED BY <1>3, <1>5, <1>6

LEMMA PutFailsInv == OutletInv /\ PutFails => OutletInv'
<1> SUFFICES ASSUME OutletInv, PutFails PROVE OutletInv'
  OBVIOUS
<1>1. /\ command.phase = "sent" /\ command' = NoCommand
      /\ UNCHANGED <<reportedArrays, outletCache, required, trusted, pending, polling, changes>>
  BY DEF PutFails
<1>2. /\ config' \in [Outlet -> OutletState] /\ overridden' \in BOOLEAN
      /\ age' \in [Cell -> 0 .. MaxLag]
      /\ fresh' \subseteq fresh
      /\ \A c \in fresh' : At(config', c) = At(config, c) /\ age'[c] = age[c]
  <2>1. CASE UNCHANGED <<config, overridden, age, fresh>>
    BY <2>1 DEF OutletInv, OutletTypeOK
  <2>2. CASE Applies /\ fresh' = fresh \ Changed
    BY <1>1, <2>2, AppliesSent DEF OutletInv, OutletTypeOK
  <2> QED BY <2>1, <2>2 DEF PutFails
<1>3. OutletTypeOK'
  BY <1>1, <1>2, NoCommandIs DEF OutletInv, OutletTypeOK
<1>4. FreshAreKnown'
  <2> SUFFICES ASSUME NEW c \in fresh'
               PROVE  (IF IsPending(c) THEN HeldRight(c) ELSE ReportedRight(c))'
    BY DEF FreshAreKnown
  <2>1. pending[c[1]].age \in Nat
    BY <1>2, CellIs, OutletAssumption DEF OutletInv, OutletTypeOK
  <2> QED BY <1>1, <1>2, <2>1, KnownStays DEF IsPending
<1>5. TrustedIsRight'
  BY <1>1, <1>2 DEF OutletInv, TrustedIsRight
<1> QED
  BY <1>1, <1>3, <1>4, <1>5, NoCommandIs
     DEF OutletInv, ReportedAreWhole, CommandIsOfACell, SentIsRight

(* A written field is pending from then on, with the others of its outlet. *)
LEMMA PublishTypes ==
  ASSUME OutletInv, command.phase = "sent", Publish
  PROVE  /\ outletCache' \in Arrays /\ outletCache'.overrides = command.sent
         /\ pending' \in [Outlet -> [fields : UNION {[fs -> BOOLEAN] : fs \in SUBSET Field},
                                     saved : OutletState, age : 0 .. Guard]]
         /\ pending'[command.outlet].age = 0
         /\ pending'[command.outlet].fields[command.field] = command.value
         /\ DOMAIN pending'[command.outlet].fields
              = DOMAIN pending[command.outlet].fields \cup {command.field}
         /\ \A f \in DOMAIN pending[command.outlet].fields \ {command.field} :
              pending'[command.outlet].fields[f] = pending[command.outlet].fields[f]
         /\ \A o \in Outlet \ {command.outlet} : pending'[o] = pending[o]
<1> DEFINE o == command.outlet
           old == pending[o].fields
           fields == [f \in DOMAIN old \cup {command.field} |->
                        IF f = command.field THEN command.value ELSE old[f]]
           posted == [fields |-> fields, saved |-> command.sent[o], age |-> 0]
           table == IF o \notin DOMAIN outletCache.table THEN outletCache.table
                    ELSE [outletCache.table EXCEPT
                            ![o]["relay_state"] = command.state,
                            ![o][command.field] = command.value]
<1>1. /\ o \in Outlet /\ command.field \in Field /\ command.value \in BOOLEAN
      /\ command.state \in BOOLEAN /\ Whole(command.sent) /\ command.sent \in Rows
      /\ outletCache.table \in Rows
  BY DEF OutletInv, OutletTypeOK, SentIsRight, Arrays
<1>2. outletCache' = [overrides |-> command.sent, table |-> table]
  BY DEF Publish
<1>3. pending' = [pending EXCEPT ![o] = posted]
  BY DEF Publish
<1>4. table \in Rows
  <2>1. CASE o \in DOMAIN outletCache.table
    <3>1. table \in [DOMAIN outletCache.table -> OutletState]
      BY <1>1, <2>1, RowsAre DEF OutletState, Field
    <3> QED BY <1>1, <3>1, RowsAre, IntoRows
  <2> QED BY <1>1, <2>1
<1>5. old \in UNION {[fs -> BOOLEAN] : fs \in SUBSET Field}
  BY <1>1 DEF OutletInv, OutletTypeOK
<1>6. DOMAIN old \in SUBSET Field /\ old \in [DOMAIN old -> BOOLEAN]
  BY <1>5
<1>7. fields \in [DOMAIN old \cup {command.field} -> BOOLEAN]
  BY <1>1, <1>6
<1>8. fields \in UNION {[fs -> BOOLEAN] : fs \in SUBSET Field}
  BY <1>1, <1>6, <1>7
<1>9. /\ DOMAIN fields = DOMAIN old \cup {command.field}
      /\ fields[command.field] = command.value
      /\ \A f \in DOMAIN old \ {command.field} : fields[f] = old[f]
  OBVIOUS
<1> HIDE DEF fields, table
<1>10. command.sent[o] \in OutletState /\ 0 \in 0 .. Guard
  BY <1>1, OutletAssumption DEF Whole
<1>11. posted \in [fields : UNION {[fs -> BOOLEAN] : fs \in SUBSET Field},
                  saved : OutletState, age : 0 .. Guard]
  BY <1>8, <1>10
<1>12. /\ pending' \in [Outlet -> [fields : UNION {[fs -> BOOLEAN] : fs \in SUBSET Field},
                                   saved : OutletState, age : 0 .. Guard]]
       /\ pending'[o] = posted
       /\ \A p \in Outlet \ {o} : pending'[p] = pending[p]
  BY <1>1, <1>3, <1>11 DEF OutletInv, OutletTypeOK
<1>13. outletCache' \in Arrays /\ outletCache'.overrides = command.sent
  BY <1>1, <1>2, <1>4 DEF Arrays
<1> QED BY <1>9, <1>12, <1>13

LEMMA PutSucceedsInv == OutletInv /\ PutSucceeds => OutletInv'
<1> SUFFICES ASSUME OutletInv, PutSucceeds PROVE OutletInv'
  OBVIOUS
<1> DEFINE cell == <<command.outlet, command.field>>
           relay == <<command.outlet, "relay_state">>
<1>1. /\ command.phase = "sent" /\ command' = NoCommand /\ Publish
      /\ UNCHANGED <<reportedArrays, required, trusted, polling, changes>>
  BY DEF PutSucceeds
<1>2. /\ cell \in Cell /\ Whole(command.sent) /\ At(command.sent, cell) = command.value
      /\ cell[1] = command.outlet /\ cell[2] = command.field
      /\ command.outlet \in Outlet /\ command.field \in Field
  BY <1>1 DEF OutletInv, OutletTypeOK, CommandIsOfACell, SentIsRight, At
<1>3. /\ config' \in [Outlet -> OutletState] /\ overridden' \in BOOLEAN
      /\ age' \in [Cell -> 0 .. MaxLag]
      /\ fresh' \subseteq fresh \cup {cell}
      /\ \A c \in fresh' : At(config', c) = At(command.sent, c)
      /\ \A c \in fresh' \ {cell} : At(config', c) = At(config, c) /\ age'[c] = age[c]
  <2>1. CASE /\ UNCHANGED <<config, overridden, age>>
             /\ fresh' = fresh \ {cell, relay}
    <3>1. ASSUME NEW c \in fresh' PROVE At(config', c) = At(command.sent, c)
      <4>1. c \in fresh /\ c \in Cell /\ c # cell /\ c # relay
        BY <2>1 DEF OutletInv, OutletTypeOK
      <4>2. ~(c[1] = command.outlet /\ c[2] \in {"relay_state", command.field})
        BY <4>1, CellIs
      <4> QED BY <1>1, <2>1, <4>1, <4>2 DEF OutletInv, SentIsRight
    <3> QED BY <2>1, <3>1 DEF OutletInv, OutletTypeOK
  <2>2. CASE Applies /\ fresh' = (fresh \ Changed) \cup {cell}
    <3>1. fresh \subseteq Cell
      BY DEF OutletInv, OutletTypeOK
    <3>2. \A c \in fresh' \ {cell} : At(config', c) = At(config, c) /\ age'[c] = age[c]
      BY <1>1, <2>2, <3>1, AppliesSent
    <3> QED BY <1>1, <2>2, <3>2, AppliesSent
  <2> QED BY <2>1, <2>2 DEF PutSucceeds
<1>4. OutletTypeOK'
  <2>1. fresh' \subseteq Cell
    BY <1>2, <1>3 DEF OutletInv, OutletTypeOK
  <2> QED BY <1>1, <1>3, <2>1, NoCommandIs, PublishTypes DEF OutletInv, OutletTypeOK
<1>5. ASSUME NEW c \in fresh'
      PROVE  (IF IsPending(c) THEN HeldRight(c) ELSE ReportedRight(c))'
  <2>0. c \in Cell
    BY <1>2, <1>3 DEF OutletInv, OutletTypeOK
  <2>1. CASE c = cell
    <3>1. IsPending(c)'
      BY <1>1, <1>2, <2>1, PublishTypes DEF IsPending
    <3>2. pending'[c[1]].fields[c[2]] = At(config', c)
      BY <1>1, <1>2, <1>3, <2>1, PublishTypes
    <3>3. age'[c] \in Nat
      BY <1>3, <2>0, OutletAssumption
    <3> QED BY <1>1, <1>2, <2>1, <3>1, <3>2, <3>3, PublishTypes DEF HeldRight
  <2>2. CASE c # cell
    <3>1. c \in fresh /\ At(config', c) = At(config, c) /\ age'[c] = age[c]
      BY <1>3, <2>2
    <3>2. c[1] \in Outlet /\ (c[1] # command.outlet \/ c[2] # command.field)
      BY <2>0, <2>2, CellIs
    <3>3. pending[c[1]].age \in Nat
      BY <3>2, OutletAssumption DEF OutletInv, OutletTypeOK
    <3>4. /\ IsPending(c)' = IsPending(c)
          /\ IsPending(c)' => /\ pending'[c[1]].fields[c[2]] = pending[c[1]].fields[c[2]]
                              /\ pending'[c[1]].age <= pending[c[1]].age
                              /\ pending'[c[1]].age \in Nat
      <4>1. CASE c[1] # command.outlet
        BY <1>1, <3>2, <3>3, <4>1, PublishTypes DEF IsPending
      <4>2. CASE c[1] = command.outlet
        BY <1>1, <3>2, <3>3, <4>2, PublishTypes DEF IsPending
      <4> QED BY <4>1, <4>2
    <3> QED BY <1>1, <3>1, <3>4, KnownStays
  <2> QED BY <2>1, <2>2
<1>6. FreshAreKnown'
  BY <1>5 DEF FreshAreKnown
<1>7. TrustedIsRight'
  <2>1. Baseline(outletCache') = command.sent
    BY <1>1, <1>2, PublishTypes, OutletAssumption DEF Baseline, Whole
  <2> QED BY <1>2, <1>3, <2>1 DEF TrustedIsRight
<1> QED
  BY <1>1, <1>4, <1>6, <1>7, NoCommandIs
     DEF OutletInv, ReportedAreWhole, CommandIsOfACell, SentIsRight

(* Time: a pending write and a lag grow older together.                    *)
LEMMA OutletTickInv == OutletInv /\ OutletTick => OutletInv'
<1> SUFFICES ASSUME OutletInv, OutletTick PROVE OutletInv'
  OBVIOUS
<1>1. /\ UNCHANGED <<config, overridden, reportedArrays, outletCache, required, trusted,
                     polling, command, changes, fresh>>
      /\ \A c \in Cell : Behind(c) => age[c] < MaxLag
      /\ age' = [c \in Cell |-> IF Behind(c) THEN age[c] + 1 ELSE 0]
      /\ pending' = [o \in Outlet |->
                   IF pending[o].fields = NoWrite.fields \/ pending[o].age = Guard
                   THEN pending[o] ELSE [pending[o] EXCEPT !.age = @ + 1]]
  BY DEF OutletTick
<1>2. age' \in [Cell -> 0 .. MaxLag]
  BY <1>1, OutletAssumption DEF OutletInv, OutletTypeOK
<1>3. ASSUME NEW o \in Outlet
      PROVE  /\ pending'[o] \in [fields : UNION {[fs -> BOOLEAN] : fs \in SUBSET Field},
                                 saved : OutletState, age : 0 .. Guard]
             /\ pending'[o].fields = pending[o].fields
             /\ pending'[o].age <= pending[o].age + 1
  <2>1. /\ pending[o] \in [fields : UNION {[fs -> BOOLEAN] : fs \in SUBSET Field},
                           saved : OutletState, age : 0 .. Guard]
        /\ pending[o].age \in 0 .. Guard /\ Guard \in Nat
    BY OutletAssumption DEF OutletInv, OutletTypeOK
  <2>2. CASE pending[o].fields = NoWrite.fields \/ pending[o].age = Guard
    <3>1. pending'[o] = pending[o]
      BY <1>1, <2>2
    <3> QED BY <2>1, <3>1
  <2>3. CASE ~(pending[o].fields = NoWrite.fields \/ pending[o].age = Guard)
    <3>1. pending'[o] = [pending[o] EXCEPT !.age = @ + 1]
      BY <1>1, <2>3
    <3>2. pending[o].age + 1 \in 0 .. Guard
      BY <2>1, <2>3
    <3>3. pending'[o].age = pending[o].age + 1 /\ pending'[o].fields = pending[o].fields
      BY <2>1, <3>1
    <3>4. pending'[o] \in [fields : UNION {[fs -> BOOLEAN] : fs \in SUBSET Field},
                           saved : OutletState, age : 0 .. Guard]
      BY <2>1, <3>1, <3>2
    <3> QED BY <2>1, <3>2, <3>3, <3>4
  <2> QED BY <2>2, <2>3
<1>4. pending' \in [Outlet -> [fields : UNION {[fs -> BOOLEAN] : fs \in SUBSET Field},
                               saved : OutletState, age : 0 .. Guard]]
  <2>1. pending' = [o \in Outlet |-> pending'[o]]
    BY <1>1
  <2> QED BY <1>3, <2>1
<1>5. OutletTypeOK'
  BY <1>1, <1>2, <1>4 DEF OutletInv, OutletTypeOK
<1>6. ASSUME NEW c \in fresh
      PROVE  (IF IsPending(c) THEN HeldRight(c) ELSE ReportedRight(c))'
  <2>1. c \in Cell
    BY DEF OutletInv, OutletTypeOK
  <2>2. IF IsPending(c) THEN HeldRight(c) ELSE ReportedRight(c)
    BY DEF OutletInv, FreshAreKnown
  <2>3. /\ IsPending(c)' = IsPending(c)
        /\ pending'[c[1]].fields = pending[c[1]].fields
        /\ pending'[c[1]].age <= pending[c[1]].age + 1
        /\ pending'[c[1]].age \in Nat /\ pending[c[1]].age \in Nat
        /\ age[c] \in Nat
    BY <1>3, <2>1, CellIs, OutletAssumption DEF IsPending, OutletInv, OutletTypeOK
  <2>4. Lags(c)' = Lags(c)
    BY <1>1 DEF Lags
  <2>5. Lags(c) => age'[c] = age[c] + 1
    BY <1>1, <2>1 DEF Lags, Behind
  <2>6. ReportedRight(c) => ReportedRight(c)'
    BY <1>1 DEF ReportedRight
  <2>7. HeldRight(c) => HeldRight(c)'
    BY <1>1, <2>3, <2>4, <2>5 DEF HeldRight
  <2> QED BY <2>2, <2>3, <2>6, <2>7
<1>7. FreshAreKnown'
  BY <1>1, <1>6 DEF FreshAreKnown
<1> QED
  BY <1>1, <1>5, <1>7
     DEF OutletInv, ReportedAreWhole, TrustedIsRight, CommandIsOfACell, SentIsRight

-----------------------------------------------------------------------------
(* An answer that lacks something has what it does not lack from the       *)
(* reported arrays, and only a complete one is trusted.                    *)
Polled == {reportedArrays} \cup Incomplete

LEMMA ButIs ==
  ASSUME NEW o \in Outlet, NEW rows \in Rows
  PROVE  /\ But(o, rows) \in Rows /\ DOMAIN But(o, rows) = DOMAIN rows \ {o}
         /\ \A p \in DOMAIN rows \ {o} : But(o, rows)[p] = rows[p]
<1>1. But(o, rows) \in [DOMAIN rows \ {o} -> OutletState]
  BY RowsAre DEF But
<1>2. DOMAIN rows \ {o} \in SUBSET Outlet
  BY RowsAre
<1> QED BY <1>1, <1>2, IntoRows DEF But

LEMMA RawAnswers ==
  ASSUME OutletInv, NEW raw \in Polled
  PROVE  /\ raw \in Arrays
         /\ \A o \in DOMAIN raw.overrides :
              /\ raw.overrides[o] = reportedArrays.overrides[o]
              /\ reportedArrays.overrides # NoRows
         /\ \A o \in DOMAIN raw.table : raw.table[o] = reportedArrays.table[o]
         /\ raw.overrides = NoRows /\ reportedArrays.overrides # NoRows
              => DOMAIN raw.table = {}
         /\ Complete(raw) => raw = reportedArrays
<1>1. /\ reportedArrays \in Arrays /\ ReportedAreWhole /\ required \subseteq Outlet
      /\ reportedArrays.table \in Rows /\ reportedArrays.overrides \in Rows
      /\ DOMAIN reportedArrays.table = Outlet
      /\ reportedArrays.overrides # NoRows => DOMAIN reportedArrays.overrides = Outlet
  BY DEF OutletInv, OutletTypeOK, Arrays, ReportedAreWhole, Whole
<1>2. CASE raw = reportedArrays
  BY <1>1, <1>2, NoRowsIs, OutletAssumption
<1>3. ASSUME NEW o \in Outlet, But(o, reportedArrays.overrides) # NoRows,
             raw = [overrides |-> But(o, reportedArrays.overrides),
                    table |-> reportedArrays.table]
      PROVE  /\ raw \in Arrays /\ ~Complete(raw) /\ raw.overrides # NoRows
             /\ \A p \in DOMAIN raw.overrides :
                  /\ raw.overrides[p] = reportedArrays.overrides[p]
                  /\ reportedArrays.overrides # NoRows
             /\ raw.table = reportedArrays.table
  <2>1. raw \in Arrays
    BY <1>1, <1>3, ButIs DEF Arrays
  <2>2. /\ DOMAIN raw.overrides = DOMAIN reportedArrays.overrides \ {o}
        /\ \A p \in DOMAIN raw.overrides : raw.overrides[p] = reportedArrays.overrides[p]
        /\ DOMAIN raw.overrides # {}
    <3>1. raw.overrides = But(o, reportedArrays.overrides)
      BY <1>3
    <3> DEFINE lacking == But(o, reportedArrays.overrides)
    <3>2. /\ lacking \in Rows /\ DOMAIN lacking = DOMAIN reportedArrays.overrides \ {o}
          /\ \A p \in DOMAIN reportedArrays.overrides \ {o} :
               lacking[p] = reportedArrays.overrides[p]
      BY <1>1, ButIs
    <3>3. DOMAIN lacking # {}
      BY <1>3, <3>2, NoRowsIs
    <3> HIDE DEF lacking
    <3>4. raw.overrides = lacking
      BY <3>1 DEF lacking
    <3> QED BY <3>2, <3>3, <3>4
  <2>3. reportedArrays.overrides # NoRows
    BY <2>2, NoRowsIs
  <2>4. Baseline(raw) = raw.overrides
    BY <2>2 DEF Baseline
  <2>5. o \in Indexes(raw) /\ o \notin DOMAIN Baseline(raw)
    BY <1>1, <1>3, <2>2, <2>4 DEF Indexes
  <2> QED BY <1>3, <2>1, <2>2, <2>3, <2>5 DEF Complete
<1>4. CASE raw = [reportedArrays EXCEPT !.table = NoRows]
  <2>1. /\ raw.overrides = reportedArrays.overrides /\ raw.table = NoRows
        /\ raw = [overrides |-> raw.overrides, table |-> raw.table]
    BY <1>1, <1>4 DEF Arrays
  <2>2. raw \in Arrays
    BY <1>1, <2>1, NoRowsIs DEF Arrays
  <2> QED BY <2>1, <2>2, NoRowsIs DEF Complete
<1>5. ASSUME NEW o \in required,
             raw = [overrides |-> But(o, reportedArrays.overrides),
                    table |-> But(o, reportedArrays.table)]
      PROVE  /\ raw \in Arrays /\ ~Complete(raw)
             /\ \A p \in DOMAIN raw.overrides :
                  /\ raw.overrides[p] = reportedArrays.overrides[p]
                  /\ reportedArrays.overrides # NoRows
             /\ \A p \in DOMAIN raw.table : raw.table[p] = reportedArrays.table[p]
             /\ raw.overrides = NoRows /\ reportedArrays.overrides # NoRows
                  => DOMAIN raw.table = {}
  <2>1. o \in Outlet
    BY <1>1
  <2>2. /\ raw \in Arrays
        /\ DOMAIN raw.overrides = DOMAIN reportedArrays.overrides \ {o}
        /\ \A p \in DOMAIN raw.overrides : raw.overrides[p] = reportedArrays.overrides[p]
        /\ DOMAIN raw.table = Outlet \ {o}
        /\ \A p \in DOMAIN raw.table : raw.table[p] = reportedArrays.table[p]
    <3>1. /\ raw.overrides = But(o, reportedArrays.overrides)
          /\ raw.table = But(o, reportedArrays.table)
      BY <1>5
    <3>2. raw.overrides \in Rows /\ raw.table \in Rows
      BY <1>1, <2>1, <3>1, ButIs
    <3>3. raw \in Arrays
      BY <1>5, <3>1, <3>2 DEF Arrays
    <3> DEFINE overrides == But(o, reportedArrays.overrides)
               table == But(o, reportedArrays.table)
    <3>4. /\ DOMAIN overrides = DOMAIN reportedArrays.overrides \ {o}
          /\ \A p \in DOMAIN reportedArrays.overrides \ {o} :
               overrides[p] = reportedArrays.overrides[p]
      BY <1>1, <2>1, ButIs
    <3>5. /\ DOMAIN table = Outlet \ {o}
          /\ \A p \in Outlet \ {o} : table[p] = reportedArrays.table[p]
      BY <1>1, <2>1, ButIs
    <3> HIDE DEF overrides, table
    <3>6. raw.overrides = overrides /\ raw.table = table
      BY <3>1 DEF overrides, table
    <3> QED BY <3>3, <3>4, <3>5, <3>6
  <2>3. o \in Indexes(raw) /\ o \notin DOMAIN Baseline(raw)
    BY <1>5, <2>2 DEF Indexes, Baseline
  <2> QED BY <1>1, <2>2, <2>3, NoRowsIs DEF Complete
<1> QED BY <1>2, <1>3, <1>4, <1>5, <1>1, NoRowsIs DEF Polled, Incomplete

LEMMA BaselineOfRaw ==
  ASSUME OutletInv, NEW raw \in Polled, NEW o \in DOMAIN Baseline(raw)
  PROVE  Baseline(raw)[o] = Baseline(reportedArrays)[o]
<1>1. raw.overrides # NoRows => DOMAIN raw.overrides # {}
  BY RawAnswers, NoRowsIs DEF Arrays
<1>2. CASE DOMAIN raw.overrides # {}
  <2>1. Baseline(raw) = raw.overrides
    BY <1>2 DEF Baseline
  <2> QED BY <2>1, RawAnswers, BaselineOfReported DEF OutletInv
<1>3. CASE DOMAIN raw.overrides = {}
  <2>1. Baseline(raw) = raw.table /\ raw.overrides = NoRows
    BY <1>1, <1>3 DEF Baseline
  <2> QED BY <2>1, RawAnswers, BaselineOfReported DEF OutletInv
<1> QED BY <1>2, <1>3

(* A field the poll lets go is reported: confirmed by the arrays, or held  *)
(* for longer than they lag.                                               *)
LEMMA ReleasedIsReported ==
  ASSUME OutletInv, NEW raw \in Polled, NEW c \in fresh, IsPending(c),
         c[2] \notin StillHeld(raw, c[1])
  PROVE  ReportedRight(c)
<1>1. c \in Cell /\ c[1] \in Outlet /\ HeldRight(c) /\ ReportedAreWhole
  BY CellIs DEF OutletInv, OutletTypeOK, FreshAreKnown
<1>2. CASE pending[c[1]].age >= Guard
  <2>1. age[c] \in 0 .. MaxLag /\ pending[c[1]].age \in 0 .. Guard
    BY <1>1 DEF OutletInv, OutletTypeOK
  <2>2. ~Lags(c)
    BY <1>1, <1>2, <2>1, OutletAssumption DEF HeldRight
  <2> QED BY <1>1, <2>2, NotLagging
<1>3. CASE ~(pending[c[1]].age >= Guard)
  <2>1. Confirms(raw, c[1], c[2])
    BY <1>3 DEF StillHeld, Held, IsPending
  <2>2. CASE raw.overrides # NoRows
    <3>1. /\ c[1] \in DOMAIN raw.overrides
          /\ raw.overrides[c[1]][c[2]] = pending[c[1]].fields[c[2]]
      BY <2>1, <2>2 DEF Confirms, Reports
    <3>2. At(reportedArrays.overrides, c) = At(config, c)
          /\ reportedArrays.overrides # NoRows
      BY <1>1, <3>1, RawAnswers DEF At, HeldRight
    <3> QED BY <1>1, <3>2, BaselineOfReported DEF ReportedRight
  <2>3. CASE raw.overrides = NoRows
    <3>1. /\ c[1] \in DOMAIN raw.table
          /\ raw.table[c[1]][c[2]] = pending[c[1]].fields[c[2]]
      BY <2>1, <2>3 DEF Confirms, Reports
    <3>2. At(reportedArrays.table, c) = At(config, c)
          /\ reportedArrays.overrides = NoRows
      BY <1>1, <2>3, <3>1, RawAnswers DEF At, HeldRight
    <3> QED BY <1>1, <3>2, BaselineOfReported DEF ReportedRight
  <2> QED BY <2>2, <2>3
<1> QED BY <1>2, <1>3

(* What stays pending of an outlet after a poll.                           *)
LEMMA StaysPending ==
  ASSUME OutletInv, NEW raw \in Polled, Completes(raw)
  PROVE  /\ pending' \in [Outlet -> [fields : UNION {[fs -> BOOLEAN] : fs \in SUBSET Field},
                                     saved : OutletState, age : 0 .. Guard]]
         /\ \A o \in Outlet :
              /\ StillHeld(raw, o) \subseteq DOMAIN pending[o].fields
              /\ DOMAIN pending'[o].fields = StillHeld(raw, o)
              /\ \A f \in StillHeld(raw, o) :
                   /\ pending'[o].fields[f] = pending[o].fields[f]
                   /\ pending'[o].age = pending[o].age
<1>1. pending' = [o \in Outlet |->
                   IF StillHeld(raw, o) = {} THEN NoWrite
                   ELSE [pending[o] EXCEPT !.fields = [f \in StillHeld(raw, o) |-> @[f]]]]
  BY DEF Completes
<1>2. ASSUME NEW o \in Outlet
      PROVE  /\ pending'[o] \in [fields : UNION {[fs -> BOOLEAN] : fs \in SUBSET Field},
                                 saved : OutletState, age : 0 .. Guard]
             /\ StillHeld(raw, o) \subseteq DOMAIN pending[o].fields
             /\ DOMAIN pending'[o].fields = StillHeld(raw, o)
             /\ \A f \in StillHeld(raw, o) :
                  /\ pending'[o].fields[f] = pending[o].fields[f]
                  /\ pending'[o].age = pending[o].age
  <2> DEFINE held == StillHeld(raw, o)
             kept == [f \in held |-> pending[o].fields[f]]
  <2>1. pending[o] \in [fields : UNION {[fs -> BOOLEAN] : fs \in SUBSET Field},
                        saved : OutletState, age : 0 .. Guard]
    BY DEF OutletInv, OutletTypeOK
  <2>2. /\ DOMAIN pending[o].fields \in SUBSET Field
        /\ pending[o].fields \in [DOMAIN pending[o].fields -> BOOLEAN]
    BY <2>1
  <2>3. held \subseteq DOMAIN pending[o].fields
    BY DEF StillHeld, Held
  <2>4. pending'[o] = IF held = {} THEN NoWrite ELSE [pending[o] EXCEPT !.fields = kept]
    BY <1>1
  <2>5. CASE held = {}
    BY <2>3, <2>4, <2>5, NoWriteIs
  <2>6. CASE held # {}
    <3>1. kept \in [held -> BOOLEAN] /\ held \in SUBSET Field
      BY <2>2, <2>3
    <3>2. kept \in UNION {[fs -> BOOLEAN] : fs \in SUBSET Field}
      BY <3>1
    <3>3. DOMAIN kept = held /\ \A f \in held : kept[f] = pending[o].fields[f]
      OBVIOUS
    <3> HIDE DEF kept, held
    <3>4. /\ pending'[o].fields = kept /\ pending'[o].age = pending[o].age
          /\ pending'[o] \in [fields : UNION {[fs -> BOOLEAN] : fs \in SUBSET Field},
                              saved : OutletState, age : 0 .. Guard]
      BY <2>1, <2>4, <2>6, <3>2
    <3> QED BY <2>3, <3>3, <3>4 DEF held
  <2> QED BY <2>5, <2>6
<1>3. pending' = [o \in Outlet |-> pending'[o]]
  BY <1>1
<1> QED BY <1>2, <1>3

(* The arrays a poll publishes: raw, with the held fields in place.        *)
LEMMA PatchedTypes ==
  ASSUME OutletInv, NEW raw \in Polled, NEW o \in Outlet, NEW row \in OutletState
  PROVE  Patched(raw, o, row) \in OutletState
<1>1. /\ pending[o].fields \in [DOMAIN pending[o].fields -> BOOLEAN]
      /\ StillHeld(raw, o) \subseteq DOMAIN pending[o].fields
  <2>1. pending[o].fields \in UNION {[fs -> BOOLEAN] : fs \in SUBSET Field}
    BY DEF OutletInv, OutletTypeOK
  <2> QED BY <2>1 DEF StillHeld, Held
<1> QED BY <1>1 DEF Patched, OutletState

LEMMA PublishedTypes ==
  ASSUME OutletInv, NEW raw \in Polled, Completes(raw)
  PROVE  /\ outletCache' \in Arrays /\ required' \subseteq Outlet
         /\ trusted' \in BOOLEAN /\ fresh' \subseteq Cell
<1>1. raw.overrides \in Rows /\ raw.table \in Rows
  BY RawAnswers DEF Arrays
<1>2. PatchedOverrides(raw) \in Rows
  <2>1. CASE raw.overrides = NoRows
    BY <2>1, NoRowsIs DEF PatchedOverrides
  <2>2. CASE raw.overrides # NoRows
    <3> DEFINE indexes == DOMAIN raw.overrides \cup {p \in Outlet : StillHeld(raw, p) # {}}
               row(o) == IF o \in DOMAIN raw.overrides THEN raw.overrides[o]
                         ELSE pending[o].saved
    <3>1. indexes \in SUBSET Outlet
      BY <1>1, RowsAre
    <3>2. \A o \in indexes : row(o) \in OutletState
      BY <1>1, <3>1, RowsAre DEF OutletInv, OutletTypeOK
    <3>3. \A o \in indexes : Patched(raw, o, row(o)) \in OutletState
      BY <3>1, <3>2, PatchedTypes
    <3>4. PatchedOverrides(raw) = [o \in indexes |-> Patched(raw, o, row(o))]
      BY <2>2 DEF PatchedOverrides
    <3> HIDE DEF indexes, row
    <3>5. PatchedOverrides(raw) \in [indexes -> OutletState]
      BY <3>3, <3>4
    <3> QED BY <3>1, <3>5, IntoRows
  <2> QED BY <2>1, <2>2
<1>3. [o \in DOMAIN raw.table |-> Patched(raw, o, raw.table[o])] \in Rows
  <2>1. DOMAIN raw.table \in SUBSET Outlet
    BY <1>1, RowsAre
  <2>2. \A o \in DOMAIN raw.table : Patched(raw, o, raw.table[o]) \in OutletState
    BY <1>1, <2>1, RowsAre, PatchedTypes
  <2>3. [o \in DOMAIN raw.table |-> Patched(raw, o, raw.table[o])]
          \in [DOMAIN raw.table -> OutletState]
    BY <2>2
  <2> QED BY <2>1, <2>3, IntoRows
<1>4. outletCache' \in Arrays
  BY <1>2, <1>3 DEF Completes, Arrays
<1>5. required' \subseteq Outlet
  <2>1. required \subseteq Outlet /\ Indexes(raw) \subseteq Outlet
    BY <1>1, RowsAre DEF Indexes, OutletInv, OutletTypeOK
  <2> QED BY <2>1 DEF Completes
<1>6. trusted' \in BOOLEAN
  BY DEF Completes, Complete
<1>7. fresh' \subseteq Cell
  BY DEF Completes, OutletInv, OutletTypeOK
<1> QED BY <1>4, <1>5, <1>6, <1>7

LEMMA CompletesKnows ==
  ASSUME OutletInv, NEW raw \in Polled, Completes(raw)
  PROVE  FreshAreKnown'
<1>0. /\ UNCHANGED <<config, reportedArrays, age>>
      /\ fresh' = fresh \cup {c \in Cell : /\ c[1] \in DOMAIN Baseline(raw)
                                           /\ At(Baseline(raw), c) = At(config, c)
                                           /\ c[2] \notin StillHeld(raw, c[1])}
  BY DEF Completes
<1> SUFFICES ASSUME NEW c \in fresh'
             PROVE  (IF IsPending(c) THEN HeldRight(c) ELSE ReportedRight(c))'
  BY DEF FreshAreKnown
<1>1. c \in Cell /\ c[1] \in Outlet
  BY PublishedTypes, CellIs
<1>2. IsPending(c)' <=> c[2] \in StillHeld(raw, c[1])
  BY <1>1, StaysPending DEF IsPending
<1>3. ReportedRight(c) => ReportedRight(c)'
  BY <1>0 DEF ReportedRight
<1>4. CASE c[2] \in StillHeld(raw, c[1])
  <2>1. c \in fresh /\ IsPending(c)
    BY <1>0, <1>1, <1>4, StaysPending DEF IsPending
  <2>2. HeldRight(c)
    BY <2>1 DEF OutletInv, FreshAreKnown
  <2>3. /\ pending'[c[1]].fields[c[2]] = pending[c[1]].fields[c[2]]
        /\ pending'[c[1]].age = pending[c[1]].age
    BY <1>1, <1>4, StaysPending
  <2>4. HeldRight(c)'
    BY <1>0, <2>2, <2>3 DEF HeldRight, Lags
  <2> QED BY <1>2, <1>4, <2>4
<1>5. CASE c[2] \notin StillHeld(raw, c[1])
  <2>1. ReportedRight(c)
    <3>1. CASE c \in fresh /\ IsPending(c)
      BY <1>5, <3>1, ReleasedIsReported
    <3>2. CASE c \in fresh /\ ~IsPending(c)
      BY <3>2 DEF OutletInv, FreshAreKnown
    <3>3. CASE c \notin fresh
      BY <1>0, <3>3, BaselineOfRaw DEF ReportedRight, At
    <3> QED BY <3>1, <3>2, <3>3
  <2> QED BY <1>2, <1>3, <1>5, <2>1
<1> QED BY <1>4, <1>5

(* A record is trusted after a complete answer only, and then its baseline *)
(* is the reported one with the held fields in place.                      *)
LEMMA CompletesTrusts ==
  ASSUME OutletInv, NEW raw \in Polled, Completes(raw), Complete(raw)
  PROVE  /\ Whole(Baseline(outletCache'))
         /\ \A c \in fresh' : At(Baseline(outletCache'), c) = At(config', c)
<1> DEFINE rows == Baseline(reportedArrays)
           patched == [o \in Outlet |-> Patched(reportedArrays, o, rows[o])]
<1>1. raw = reportedArrays /\ Whole(rows)
  BY RawAnswers, BaselineOfReported DEF OutletInv
<1>2. outletCache' = [overrides |-> PatchedOverrides(reportedArrays),
                      table |-> [o \in DOMAIN reportedArrays.table |->
                                   Patched(reportedArrays, o, reportedArrays.table[o])]]
  BY <1>1 DEF Completes
<1>3. Baseline(outletCache') = patched
  <2>1. CASE reportedArrays.overrides = NoRows
    <3>1. PatchedOverrides(reportedArrays) = NoRows
      BY <2>1 DEF PatchedOverrides
    <3>2. rows = reportedArrays.table /\ DOMAIN reportedArrays.table = Outlet
      BY <1>1, <2>1, BaselineOfReported DEF OutletInv, Whole
    <3>3. outletCache'.overrides = NoRows /\ outletCache'.table = patched
      BY <1>2, <3>1, <3>2
    <3> QED BY <3>3, NoRowsIs DEF Baseline
  <2>2. CASE reportedArrays.overrides # NoRows
    <3>1. rows = reportedArrays.overrides /\ DOMAIN reportedArrays.overrides = Outlet
      BY <1>1, <2>2, BaselineOfReported DEF OutletInv, Whole
    <3>2. PatchedOverrides(reportedArrays) = patched
      BY <2>2, <3>1 DEF PatchedOverrides
    <3>3. outletCache'.overrides = patched
      BY <1>2, <3>2
    <3> QED BY <3>3, OutletAssumption DEF Baseline
  <2> QED BY <2>1, <2>2
<1>4. \A o \in Outlet : rows[o] \in OutletState
  BY <1>1 DEF Whole
<1>5. Whole(patched)
  <2>1. \A o \in Outlet : Patched(reportedArrays, o, rows[o]) \in OutletState
    BY <1>1, <1>4, PatchedTypes
  <2> QED BY <2>1 DEF Whole
<1>6. ASSUME NEW c \in fresh' PROVE At(patched, c) = At(config', c)
  <2>1. c \in Cell /\ c[1] \in Outlet /\ c[2] \in Field
    BY PublishedTypes, CellIs
  <2>2. UNCHANGED <<config, reportedArrays, age>>
    BY DEF Completes
  <2>3. At(patched, c) = IF c[2] \in StillHeld(raw, c[1])
                         THEN pending[c[1]].fields[c[2]] ELSE At(rows, c)
    BY <1>1, <2>1 DEF Patched, At
  <2>4. (IF IsPending(c) THEN HeldRight(c) ELSE ReportedRight(c))'
    BY CompletesKnows DEF FreshAreKnown
  <2>5. IsPending(c)' <=> c[2] \in StillHeld(raw, c[1])
    BY <2>1, StaysPending DEF IsPending
  <2>6. CASE c[2] \in StillHeld(raw, c[1])
    BY <2>1, <2>3, <2>4, <2>5, <2>6, StaysPending DEF HeldRight
  <2>7. CASE c[2] \notin StillHeld(raw, c[1])
    BY <2>2, <2>3, <2>4, <2>5, <2>7 DEF ReportedRight
  <2> QED BY <2>6, <2>7
<1> QED BY <1>3, <1>5, <1>6

LEMMA CompletesInv == \A raw \in Polled : OutletInv /\ Completes(raw) => OutletInv'
<1> SUFFICES ASSUME NEW raw \in Polled, OutletInv, Completes(raw) PROVE OutletInv'
  OBVIOUS
<1>1. /\ UNCHANGED <<config, overridden, reportedArrays, age, command, changes>>
      /\ polling /\ polling' = FALSE /\ trusted' = Complete(raw)
  BY DEF Completes
<1>2. OutletTypeOK'
  BY <1>1, PublishedTypes, StaysPending DEF OutletInv, OutletTypeOK
<1>3. TrustedIsRight'
  BY <1>1, CompletesTrusts DEF TrustedIsRight
<1> QED
  BY <1>1, <1>2, <1>3, CompletesKnows
     DEF OutletInv, ReportedAreWhole, CommandIsOfACell, SentIsRight

LEMMA OutletInvHolds == OutletSpec => []OutletInv
<1>1. OutletInit => OutletInv
  <2> SUFFICES ASSUME OutletInit PROVE OutletInv
    OBVIOUS
  <2>1. Off \in OutletState
    BY DEF Off, OutletState
  <2>2. Whole(config) /\ config \in Rows
    BY <2>1, WholeIsRows DEF OutletInit, Whole
  <2>3. /\ reportedArrays.table = config
        /\ reportedArrays.overrides \in {NoRows, config}
        /\ reportedArrays \in Arrays
    BY <2>2, NoRowsIs DEF OutletInit, Arrays
  <2>4. ReportedAreWhole
    BY <2>2, <2>3 DEF ReportedAreWhole
  <2>5. pending \in [Outlet -> [fields : UNION {[fs -> BOOLEAN] : fs \in SUBSET Field},
                                saved : OutletState, age : 0 .. Guard]]
    BY NoWriteIs DEF OutletInit
  <2>6. age \in [Cell -> 0 .. MaxLag] /\ changes \in 0 .. MaxOutletChanges
    BY OutletAssumption DEF OutletInit
  <2>7. outletCache \in Arrays
    BY NoRowsIs DEF OutletInit, Arrays
  <2>8. OutletTypeOK
    BY <2>2, <2>3, <2>5, <2>6, <2>7, NoCommandIs DEF OutletInit, OutletTypeOK, Whole
  <2> QED
    BY <2>4, <2>8, NoCommandIs
       DEF OutletInit, OutletInv, FreshAreKnown, TrustedIsRight, CommandIsOfACell,
           SentIsRight
<1>2. OutletInv /\ [OutletNext]_outletVars => OutletInv'
  <2> SUFFICES ASSUME OutletInv, [OutletNext]_outletVars PROVE OutletInv'
    OBVIOUS
  <2>1. CASE UNCHANGED outletVars
    BY <2>1 DEF outletVars, OutletInv, OutletTypeOK, ReportedAreWhole, FreshAreKnown,
                IsPending, HeldRight, ReportedRight, Lags, TrustedIsRight,
                CommandIsOfACell, SentIsRight
  <2>2. CASE PollCompletes \/ PollPartly
    BY <2>2, CompletesInv DEF PollCompletes, PollPartly, Polled
  <2>3. CASE OutletNext /\ ~(PollCompletes \/ PollPartly)
    BY <2>3, ConsoleSetsInv, CallsInv, CatchUpInv, PollStartsInv, DeviceGoneInv,
       SendsCommandsInv, PutSucceedsInv, PutFailsInv, OutletTickInv DEF OutletNext
  <2> QED BY <2>1, <2>2, <2>3
<1> QED BY <1>1, <1>2, PTL DEF OutletSpec

(* Whatever the outlets, the guard time and any lag below it, however many *)
(* commands and changes there are: a write built from the cached record    *)
(* switches back no outlet that Home Assistant set or was told of (#376).  *)
THEOREM NoOutletIsSwitchedBack == OutletSpec => WritesKeepEachOther
<1> DEFINE Kept == Put => \A c \in fresh :
              \/ At(config', c) = At(config, c)
              \/ c[1] = command.outlet /\ c[2] \in {"relay_state", command.field}
<1>1. ASSUME OutletInv, [OutletNext]_outletVars, Put PROVE Kept
  <2>1. PutSucceeds \/ PutFails
    BY <1>1 DEF Put, OutletNext, outletVars, ConsoleSets, Calls, CatchUp, OverridesCatchUp,
                TableCatchesUp, PollStarts, PollFails, PollCompletes, PollPartly, Completes,
                DeviceGone, SendsCommands, OutletTick
  <2>2. config' = config \/ Applies
    BY <2>1 DEF PutSucceeds, PutFails
  <2>3. CASE Applies
    BY <1>1, <2>3, AppliesSent DEF Put, OutletInv, SentIsRight
  <2> QED BY <2>2, <2>3
<1>2. OutletInv /\ [OutletNext]_outletVars => [Kept]_outletVars
  BY <1>1
<1> QED BY <1>2, OutletInvHolds, PTL DEF OutletSpec, WritesKeepEachOther

-----------------------------------------------------------------------------
(* The poll's readings. A rate is the bytes between two samples over the   *)
(* time between them, and what a device can have moved since its sample is *)
(* bounded by the line, the clock and one poll's time. What is bridged is  *)
(* counted twice, in the code's counter and in the history, and they part  *)
(* only where a good reading was thrown away, or is being read.            *)
PollTypeOK ==
  /\ clockNow \in Nat
  /\ counter \in [NetDevice -> Nat]
  /\ published \in [stats : [NetDevice -> Statistics \cup {Nothing}],
                    wans : [NetDevice -> BOOLEAN],
                    radio : [NetDevice -> {Nothing, "available", "unavailable"}],
                    vpn : BOOLEAN]
  /\ update \in [phase : {"idle", "asking", "reading"}, since : Nat,
                 listed : SUBSET NetDevice, legacy : BOOLEAN,
                 stats : [NetDevice -> Statistics \cup {Nothing, Pending}],
                 radio : [NetDevice -> {Nothing, "available", "failed"}]]
  /\ current \in BOOLEAN
  /\ failures \in [stats : [NetDevice -> Nat], wans : Nat, vpn : Nat]
  /\ reused \subseteq NetDevice
  /\ sample \in [NetDevice -> [at : Nat, bytes : Nat] \cup {Nothing}]
  /\ asked \in [NetDevice -> Nat]
  /\ history \in [tries : [Reading -> [NetDevice -> Nat]],
                  lost : [Reading -> [NetDevice -> BOOLEAN]], vpnTries : Nat]

RateFits(stats) ==
  stats # Nothing /\ stats.rate # Nothing =>
    stats.rate.bytes <= Speed * (stats.rate.elapsed + ReadTime)

(* What a device may have moved at most since its last sample was read.    *)
Room(d) == Speed * (clockNow + ReadTime - sample[d].at)

Measured(d) ==
  /\ update.phase = "reading" /\ d \notin reused
  /\ update.stats[d] \notin {Nothing, Pending} /\ update.stats[d].bytes # Nothing

ClockFits ==
  /\ update.phase # "idle"
       => update.since <= clockNow /\ clockNow <= update.since + ReadTime
  /\ \A d \in NetDevice : sample[d] # Nothing => sample[d].at <= clockNow

BytesFit ==
  \A d \in NetDevice :
    /\ sample[d] # Nothing => counter[d] <= sample[d].bytes + Room(d)
    /\ Measured(d) =>
         /\ counter[d] <= update.stats[d].bytes + Speed * (clockNow - update.since)
         /\ sample[d] # Nothing => update.stats[d].bytes <= sample[d].bytes + Room(d)

RatesFit ==
  \A d \in NetDevice : /\ RateFits(published.stats[d])
                       /\ update.stats[d] # Pending => RateFits(update.stats[d])

ReadsInTurn ==
  update.phase # "reading" => \A d \in NetDevice : update.stats[d] = Pending

BridgedInTime ==
  \A d \in NetDevice :
    update.stats[d] \notin {Nothing, Pending} => Bridges(failures.stats[d])

Retried(d) ==
  /\ update.phase = "reading" /\ d \in update.listed
  /\ update.stats[d] # Pending /\ failures.stats[d] = 0

TriesAreCounted ==
  /\ \A d \in NetDevice :
       /\ history.lost["stats"][d] \/ Retried(d)
          \/ history.tries["stats"][d] <= failures.stats[d]
       /\ history.lost["wans"][d] \/ (update.phase = "reading" /\ update.legacy)
          \/ history.tries["wans"][d] <= failures.wans
  /\ history.vpnTries <= failures.vpn

PollInv ==
  /\ PollTypeOK
  /\ ClockFits /\ BytesFit /\ RatesFit
  /\ ReadsInTurn /\ BridgedInTime /\ TriesAreCounted /\ ReuseIsBounded

LEMMA Carries ==
  /\ Speed \in Nat /\ ReadTime \in Nat /\ MaxReuse \in Nat
  /\ \A t \in Nat : Speed * t \in Nat /\ Speed * (t + 1) = Speed * t + Speed
  /\ \A s, t \in Nat : s <= t => Speed * s <= Speed * t
<1>1. Speed \in Nat /\ ReadTime \in Nat /\ MaxReuse \in Nat
  BY PollAssumption
<1>2. ASSUME NEW t \in Nat PROVE Speed * t \in Nat /\ Speed * (t + 1) = Speed * t + Speed
  BY <1>1
<1>3. ASSUME NEW s \in Nat, NEW t \in Nat, s <= t PROVE Speed * s <= Speed * t
  <2>1. t - s \in Nat /\ t = s + (t - s)
    BY <1>3
  <2>2. Speed * (s + (t - s)) = Speed * s + Speed * (t - s)
    BY <1>1, <2>1
  <2>3. Speed * (t - s) \in Nat /\ Speed * s \in Nat
    BY <1>1, <2>1
  <2> QED BY <2>1, <2>2, <2>3
<1> QED BY <1>1, <1>2, <1>3

LEMMA PollTypes ==
  ASSUME PollInv, NEW d \in NetDevice
  PROVE  /\ clockNow \in Nat /\ counter[d] \in Nat /\ update.since \in Nat
         /\ update.phase # "idle" => clockNow - update.since \in Nat
         /\ sample[d] # Nothing =>
              /\ sample[d].at \in Nat /\ sample[d].bytes \in Nat
              /\ clockNow + ReadTime - sample[d].at \in Nat
         /\ Measured(d) => update.stats[d].bytes \in Nat
         /\ failures.stats[d] \in Nat
<1>1. /\ clockNow \in Nat /\ counter[d] \in Nat /\ update.since \in Nat
      /\ failures.stats[d] \in Nat /\ ReadTime \in Nat
      /\ sample[d] \in [at : Nat, bytes : Nat] \cup {Nothing}
      /\ update.stats[d] \in Statistics \cup {Nothing, Pending}
  BY PollAssumption DEF PollInv, PollTypeOK
<1>2. update.phase # "idle" => clockNow - update.since \in Nat
  BY <1>1 DEF PollInv, ClockFits
<1>3. sample[d] # Nothing => /\ sample[d].at \in Nat /\ sample[d].bytes \in Nat
                             /\ clockNow + ReadTime - sample[d].at \in Nat
  <2> HAVE sample[d] # Nothing
  <2>1. sample[d].at \in Nat /\ sample[d].bytes \in Nat
    BY <1>1
  <2>2. sample[d].at <= clockNow
    BY DEF PollInv, ClockFits
  <2> QED BY <1>1, <2>1, <2>2
<1>4. Measured(d) => update.stats[d].bytes \in Nat
  BY <1>1 DEF Measured, Statistics
<1> QED BY <1>1, <1>2, <1>3, <1>4

-----------------------------------------------------------------------------
LEMMA TimePassesInv == PollInv /\ TimePasses => PollInv'
<1> SUFFICES ASSUME PollInv, TimePasses PROVE PollInv'
  OBVIOUS
<1>1. /\ clockNow' = clockNow + 1
      /\ update.phase # "idle" => clockNow < update.since + ReadTime
      /\ UNCHANGED <<published, update, current, failures, reused, sample, asked, history>>
  BY DEF TimePasses
<1>2. PICK moved \in [NetDevice -> {0, Speed}] :
        counter' = [d \in NetDevice |-> counter[d] + moved[d]]
  BY DEF TimePasses
<1>3. \A d \in NetDevice : /\ counter'[d] \in Nat /\ counter'[d] <= counter[d] + Speed
                           /\ counter[d] \in Nat
  BY <1>2, Carries DEF PollInv, PollTypeOK
<1>4. PollTypeOK'
  <2>1. counter' \in [NetDevice -> Nat]
    BY <1>2, <1>3
  <2>2. clockNow' \in Nat
    BY <1>1 DEF PollInv, PollTypeOK
  <2> QED BY <1>1, <2>1, <2>2 DEF PollInv, PollTypeOK
<1>5. ClockFits'
  <2>1. clockNow \in Nat /\ update.since \in Nat /\ ReadTime \in Nat
    BY PollAssumption DEF PollInv, PollTypeOK
  <2>2. \A d \in NetDevice : sample[d] # Nothing => sample[d].at \in Nat
    BY PollTypes
  <2> QED BY <1>1, <2>1, <2>2 DEF PollInv, ClockFits
<1>6. BytesFit'
  <2> SUFFICES ASSUME NEW d \in NetDevice
               PROVE  (/\ sample[d] # Nothing => counter[d] <= sample[d].bytes + Room(d)
                       /\ Measured(d) =>
                            /\ counter[d] <= update.stats[d].bytes
                                               + Speed * (clockNow - update.since)
                            /\ sample[d] # Nothing =>
                                 update.stats[d].bytes <= sample[d].bytes + Room(d))'
    BY DEF BytesFit
  <2>1. /\ sample[d] # Nothing => counter[d] <= sample[d].bytes + Room(d)
        /\ Measured(d) =>
             /\ counter[d] <= update.stats[d].bytes + Speed * (clockNow - update.since)
             /\ sample[d] # Nothing => update.stats[d].bytes <= sample[d].bytes + Room(d)
    BY DEF PollInv, BytesFit
  <2>2. sample[d] # Nothing =>
          /\ Room(d) \in Nat /\ Room(d)' = Room(d) + Speed
    <3> HAVE sample[d] # Nothing
    <3> DEFINE t == clockNow + ReadTime - sample[d].at
    <3>1. t \in Nat /\ clockNow' + ReadTime - sample'[d].at = t + 1
      BY <1>1, PollTypes, PollAssumption
    <3> QED BY <3>1, Carries DEF Room
  <2>3. Measured(d)' <=> Measured(d)
    BY <1>1 DEF Measured
  <2>4. Measured(d) =>
          /\ Speed * (clockNow - update.since) \in Nat
          /\ Speed * (clockNow' - update'.since) = Speed * (clockNow - update.since) + Speed
    <3> HAVE Measured(d)
    <3> DEFINE t == clockNow - update.since
    <3>1. t \in Nat /\ clockNow' - update'.since = t + 1
      BY <1>1, PollTypes DEF Measured
    <3> QED BY <3>1, Carries
  <2>5. sample[d] # Nothing => sample[d].bytes \in Nat
    BY PollTypes
  <2>6. Measured(d) => update.stats[d].bytes \in Nat
    BY PollTypes
  <2>7. Speed \in Nat
    BY Carries
  <2>8. sample[d] # Nothing => counter'[d] <= sample[d].bytes + Room(d)'
    BY <1>3, <2>1, <2>2, <2>5, <2>7
  <2>9. Measured(d) =>
          /\ counter'[d] <= update.stats[d].bytes + Speed * (clockNow' - update'.since)
          /\ sample[d] # Nothing => update.stats[d].bytes <= sample[d].bytes + Room(d)'
    BY <1>3, <2>1, <2>2, <2>4, <2>5, <2>6, <2>7
  <2> QED BY <1>1, <2>3, <2>8, <2>9
<1>7. RatesFit'
  BY <1>1 DEF PollInv, RatesFit, RateFits
<1>8. ReadsInTurn' /\ BridgedInTime' /\ TriesAreCounted' /\ ReuseIsBounded'
  BY <1>1 DEF PollInv, ReadsInTurn, BridgedInTime, TriesAreCounted, Retried, ReuseIsBounded
<1> QED BY <1>4, <1>5, <1>6, <1>7, <1>8 DEF PollInv

LEMMA DeviceRestartsInv == \A d \in NetDevice : PollInv /\ DeviceRestarts(d) => PollInv'
<1> SUFFICES ASSUME NEW e \in NetDevice, PollInv, DeviceRestarts(e) PROVE PollInv'
  OBVIOUS
<1>1. /\ counter' = [counter EXCEPT ![e] = 0]
      /\ UNCHANGED <<clockNow, published, update, current, failures, reused, sample, asked,
                     history>>
  BY DEF DeviceRestarts
<1>2. \A d \in NetDevice : counter'[d] \in Nat /\ counter[d] \in Nat /\ counter'[d] <= counter[d]
  BY <1>1 DEF PollInv, PollTypeOK
<1>3. PollTypeOK'
  BY <1>1 DEF PollInv, PollTypeOK
<1>4. ClockFits'
  BY <1>1 DEF PollInv, ClockFits
<1>5. BytesFit'
  <2> SUFFICES ASSUME NEW d \in NetDevice
               PROVE  (/\ sample[d] # Nothing => counter[d] <= sample[d].bytes + Room(d)
                       /\ Measured(d) =>
                            /\ counter[d] <= update.stats[d].bytes
                                               + Speed * (clockNow - update.since)
                            /\ sample[d] # Nothing =>
                                 update.stats[d].bytes <= sample[d].bytes + Room(d))'
    BY DEF BytesFit
  <2>1. /\ sample[d] # Nothing => counter[d] <= sample[d].bytes + Room(d)
        /\ Measured(d) =>
             /\ counter[d] <= update.stats[d].bytes + Speed * (clockNow - update.since)
             /\ sample[d] # Nothing => update.stats[d].bytes <= sample[d].bytes + Room(d)
    BY DEF PollInv, BytesFit
  <2>2. /\ sample[d] # Nothing => Room(d) \in Nat
        /\ Measured(d) => Speed * (clockNow - update.since) \in Nat
    BY PollTypes, Carries DEF Room, Measured
  <2>3. (Measured(d)' <=> Measured(d)) /\ Room(d)' = Room(d)
    BY <1>1 DEF Measured, Room
  <2>4. sample[d] # Nothing => sample[d].bytes \in Nat
    BY PollTypes
  <2>5. Measured(d) => update.stats[d].bytes \in Nat
    BY PollTypes
  <2> QED BY <1>1, <1>2, <2>1, <2>2, <2>3, <2>4, <2>5
<1>6. RatesFit'
  BY <1>1 DEF PollInv, RatesFit, RateFits
<1>7. ReadsInTurn' /\ BridgedInTime' /\ TriesAreCounted' /\ ReuseIsBounded'
  BY <1>1 DEF PollInv, ReadsInTurn, BridgedInTime, TriesAreCounted, Retried, ReuseIsBounded
<1> QED BY <1>3, <1>4, <1>5, <1>6, <1>7 DEF PollInv

(* A poll that starts, or ends with nothing published, has read nothing.   *)
LEMMA IdlingIs ==
  /\ Idling \in [phase : {"idle", "asking", "reading"}, since : Nat,
                 listed : SUBSET NetDevice, legacy : BOOLEAN,
                 stats : [NetDevice -> Statistics \cup {Nothing, Pending}],
                 radio : [NetDevice -> {Nothing, "available", "failed"}]]
  /\ Idling.phase = "idle" /\ \A d \in NetDevice : Idling.stats[d] = Pending
BY DEF Idling

(* The part of the invariant about bytes and rates holds of what has been  *)
(* published, whenever nothing has been read.                              *)
LEMMA NothingReadFits ==
  ASSUME PollInv, UNCHANGED <<clockNow, counter, sample>>,
         update'.phase # "reading", \A d \in NetDevice : update'.stats[d] = Pending,
         \A d \in NetDevice : published'.stats[d] \in {published.stats[d], Nothing}
  PROVE  BytesFit' /\ RatesFit' /\ ReadsInTurn' /\ BridgedInTime'
<1>1. BytesFit'
  BY DEF PollInv, BytesFit, Measured, Room
<1>2. RatesFit'
  BY DEF PollInv, RatesFit, RateFits
<1>3. ReadsInTurn' /\ BridgedInTime'
  BY DEF ReadsInTurn, BridgedInTime
<1> QED BY <1>1, <1>2, <1>3

LEMMA UpdateStartsInv == PollInv /\ UpdateStarts => PollInv'
<1> SUFFICES ASSUME PollInv, UpdateStarts PROVE PollInv'
  OBVIOUS
<1>1. /\ update.phase = "idle" /\ reused' = {}
      /\ update' = [Idling EXCEPT !.phase = "asking", !.since = clockNow]
      /\ UNCHANGED <<clockNow, counter, published, current, failures, sample, asked, history>>
  BY DEF UpdateStarts
<1>2. /\ update' \in [phase : {"idle", "asking", "reading"}, since : Nat,
                      listed : SUBSET NetDevice, legacy : BOOLEAN,
                      stats : [NetDevice -> Statistics \cup {Nothing, Pending}],
                      radio : [NetDevice -> {Nothing, "available", "failed"}]]
      /\ update'.phase = "asking" /\ update'.since = clockNow
      /\ \A d \in NetDevice : update'.stats[d] = Pending
  BY <1>1, IdlingIs DEF PollInv, PollTypeOK
<1>3. PollTypeOK'
  BY <1>1, <1>2 DEF PollInv, PollTypeOK
<1>4. ClockFits'
  BY <1>1, <1>2, PollAssumption DEF PollInv, PollTypeOK, ClockFits
<1>5. BytesFit' /\ RatesFit' /\ ReadsInTurn' /\ BridgedInTime'
  BY <1>1, <1>2, NothingReadFits
<1>6. TriesAreCounted' /\ ReuseIsBounded'
  BY <1>1, <1>2 DEF PollInv, TriesAreCounted, Retried, ReuseIsBounded
<1> QED BY <1>3, <1>4, <1>5, <1>6 DEF PollInv

LEMMA LaterCounts ==
  /\ \A n \in Nat : Later(n) \in Nat
  /\ \A m, n \in Nat : m <= n => Later(m) <= Later(n)
BY Carries DEF Later

LEMMA NoSitesInv == PollInv /\ NoSites => PollInv'
<1> SUFFICES ASSUME PollInv, NoSites PROVE PollInv'
  OBVIOUS
<1>1. /\ update.phase = "idle" /\ published' = Blank /\ current' = TRUE
      /\ failures' = [failures EXCEPT !.wans = 0, !.vpn = 0]
      /\ asked' = [d \in NetDevice |-> Never] /\ history' = NoTries
      /\ UNCHANGED <<clockNow, counter, update, reused, sample>>
  BY DEF NoSites
<1>2. /\ published' \in [stats : [NetDevice -> Statistics \cup {Nothing}],
                         wans : [NetDevice -> BOOLEAN],
                         radio : [NetDevice -> {Nothing, "available", "unavailable"}],
                         vpn : BOOLEAN]
      /\ \A d \in NetDevice : published'.stats[d] = Nothing /\ published'.wans[d] = FALSE
      /\ published'.vpn = FALSE
  BY <1>1 DEF Blank
<1>3. /\ history' \in [tries : [Reading -> [NetDevice -> Nat]],
                       lost : [Reading -> [NetDevice -> BOOLEAN]], vpnTries : Nat]
      /\ \A d \in NetDevice : /\ history'.tries["stats"][d] = 0
                              /\ history'.tries["wans"][d] = 0
      /\ history'.vpnTries = 0
  BY <1>1 DEF NoTries, Reading
<1>4. /\ failures' \in [stats : [NetDevice -> Nat], wans : Nat, vpn : Nat]
      /\ failures'.stats = failures.stats /\ failures'.wans = 0 /\ failures'.vpn = 0
  BY <1>1 DEF PollInv, PollTypeOK
<1>5. asked' \in [NetDevice -> Nat]
  BY <1>1, PollAssumption DEF Never
<1>6. PollTypeOK'
  BY <1>1, <1>2, <1>3, <1>4, <1>5 DEF PollInv, PollTypeOK
<1>7. ClockFits'
  BY <1>1 DEF PollInv, ClockFits
<1>8. BytesFit' /\ RatesFit' /\ ReadsInTurn' /\ BridgedInTime'
  BY <1>1, <1>2, NothingReadFits DEF PollInv, ReadsInTurn
<1>9. TriesAreCounted' /\ ReuseIsBounded'
  BY <1>2, <1>3, <1>4, PollTypes, Carries DEF TriesAreCounted, Retried, ReuseIsBounded
<1> QED BY <1>6, <1>7, <1>8, <1>9 DEF PollInv

LEMMA ListsAnswerInv ==
  \A polled \in SUBSET NetDevice, legacy \in BOOLEAN :
    PollInv /\ ListsAnswer(polled, legacy) => PollInv'
<1> SUFFICES ASSUME NEW polled \in SUBSET NetDevice, NEW legacy \in BOOLEAN,
                    PollInv, ListsAnswer(polled, legacy)
             PROVE  PollInv'
  OBVIOUS
<1>1. /\ update.phase = "asking"
      /\ update' = [update EXCEPT !.phase = "reading", !.listed = polled, !.legacy = legacy]
      /\ failures' = [failures EXCEPT !.wans = IF legacy THEN 0 ELSE Later(@)]
      /\ history' = [history EXCEPT !.tries["wans"] =
                       [d \in NetDevice |-> IF legacy THEN @[d] ELSE Later(@[d])]]
      /\ UNCHANGED <<clockNow, counter, published, current, reused, sample, asked>>
  BY DEF ListsAnswer
<1>2. /\ update' \in [phase : {"idle", "asking", "reading"}, since : Nat,
                      listed : SUBSET NetDevice, legacy : BOOLEAN,
                      stats : [NetDevice -> Statistics \cup {Nothing, Pending}],
                      radio : [NetDevice -> {Nothing, "available", "failed"}]]
      /\ update'.phase = "reading" /\ update'.since = update.since
      /\ update'.legacy = legacy /\ update'.stats = update.stats
  BY <1>1 DEF PollInv, PollTypeOK
<1>3. \A d \in NetDevice : update'.stats[d] = Pending
  BY <1>1, <1>2 DEF PollInv, ReadsInTurn
<1>4. /\ failures' \in [stats : [NetDevice -> Nat], wans : Nat, vpn : Nat]
      /\ failures'.stats = failures.stats /\ failures'.vpn = failures.vpn
      /\ failures'.wans = IF legacy THEN 0 ELSE Later(failures.wans)
  BY <1>1, LaterCounts DEF PollInv, PollTypeOK
<1>5. /\ history.tries \in [Reading -> [NetDevice -> Nat]]
      /\ history.tries["wans"] \in [NetDevice -> Nat]
  BY DEF PollInv, PollTypeOK, Reading
<1> DEFINE wans == [d \in NetDevice |-> IF legacy THEN history.tries["wans"][d]
                                        ELSE Later(history.tries["wans"][d])]
<1>6. wans \in [NetDevice -> Nat]
  BY <1>5, LaterCounts
<1>7. history' = [history EXCEPT !.tries = [history.tries EXCEPT !["wans"] = wans]]
  BY <1>1
<1> HIDE DEF wans
<1>8. [history.tries EXCEPT !["wans"] = wans] \in [Reading -> [NetDevice -> Nat]]
  BY <1>5, <1>6
<1>9. /\ history' \in [tries : [Reading -> [NetDevice -> Nat]],
                       lost : [Reading -> [NetDevice -> BOOLEAN]], vpnTries : Nat]
      /\ history'.lost = history.lost /\ history'.vpnTries = history.vpnTries
      /\ history'.tries["stats"] = history.tries["stats"]
      /\ history'.tries["wans"] = wans
  <2>1. /\ history' \in [tries : [Reading -> [NetDevice -> Nat]],
                         lost : [Reading -> [NetDevice -> BOOLEAN]], vpnTries : Nat]
        /\ history'.lost = history.lost /\ history'.vpnTries = history.vpnTries
        /\ history'.tries = [history.tries EXCEPT !["wans"] = wans]
    BY <1>7, <1>8 DEF PollInv, PollTypeOK
  <2> QED BY <1>5, <2>1 DEF Reading
<1>10. PollTypeOK'
  BY <1>1, <1>2, <1>4, <1>9 DEF PollInv, PollTypeOK
<1>11. ClockFits'
  BY <1>1, <1>2 DEF PollInv, ClockFits
<1>12. BytesFit' /\ RatesFit' /\ ReadsInTurn' /\ BridgedInTime'
  <2>1. BytesFit'
    BY <1>1, <1>3 DEF PollInv, BytesFit, Measured, Room
  <2>2. RatesFit' /\ ReadsInTurn' /\ BridgedInTime'
    BY <1>1, <1>2, <1>3 DEF PollInv, RatesFit, RateFits, ReadsInTurn, BridgedInTime
  <2> QED BY <2>1, <2>2
<1>13. TriesAreCounted'
  <2> SUFFICES ASSUME NEW d \in NetDevice
               PROVE  /\ history'.lost["stats"][d] \/ Retried(d)'
                         \/ history'.tries["stats"][d] <= failures'.stats[d]
                      /\ history'.lost["wans"][d]
                         \/ (update'.phase = "reading" /\ update'.legacy)
                         \/ history'.tries["wans"][d] <= failures'.wans
    BY <1>4, <1>9 DEF PollInv, TriesAreCounted
  <2>1. history.lost["stats"][d] \/ history.tries["stats"][d] <= failures.stats[d]
    BY <1>1 DEF PollInv, TriesAreCounted, Retried
  <2>2. history.lost["wans"][d] \/ history.tries["wans"][d] <= failures.wans
    BY <1>1 DEF PollInv, TriesAreCounted
  <2>3. legacy \/ wans[d] = Later(history.tries["wans"][d])
    BY DEF wans
  <2>4. history.tries["wans"][d] \in Nat /\ failures.wans \in Nat
    BY <1>5 DEF PollInv, PollTypeOK
  <2> QED BY <1>2, <1>4, <1>9, <2>1, <2>2, <2>3, <2>4, LaterCounts
<1>14. ReuseIsBounded'
  BY <1>2 DEF ReuseIsBounded
<1> QED BY <1>10, <1>11, <1>12, <1>13, <1>14 DEF PollInv

LEMMA RadiosAnswerInv ==
  \A d \in NetDevice, answered \in BOOLEAN :
    PollInv /\ RadiosAnswer(d, answered) => PollInv'
<1> SUFFICES ASSUME NEW e \in NetDevice, NEW answered \in BOOLEAN,
                    PollInv, RadiosAnswer(e, answered)
             PROVE  PollInv'
  OBVIOUS
<1>1. /\ update.phase = "reading"
      /\ asked' = [asked EXCEPT ![e] = clockNow]
      /\ update' = [update EXCEPT !.radio[e] = IF answered THEN "available" ELSE "failed"]
      /\ UNCHANGED <<clockNow, counter, published, current, failures, reused, sample, history>>
  BY DEF RadiosAnswer
<1>2. asked' \in [NetDevice -> Nat]
  BY <1>1 DEF PollInv, PollTypeOK
<1> DEFINE radio == [update.radio EXCEPT ![e] = IF answered THEN "available" ELSE "failed"]
<1>3. radio \in [NetDevice -> {Nothing, "available", "failed"}]
  BY DEF PollInv, PollTypeOK
<1>4. update' = [update EXCEPT !.radio = radio]
  BY <1>1
<1> HIDE DEF radio
<1>5. /\ update' \in [phase : {"idle", "asking", "reading"}, since : Nat,
                      listed : SUBSET NetDevice, legacy : BOOLEAN,
                      stats : [NetDevice -> Statistics \cup {Nothing, Pending}],
                      radio : [NetDevice -> {Nothing, "available", "failed"}]]
      /\ update'.phase = "reading" /\ update'.since = update.since
      /\ update'.listed = update.listed /\ update'.legacy = update.legacy
      /\ update'.stats = update.stats
  BY <1>1, <1>3, <1>4 DEF PollInv, PollTypeOK
<1>6. PollTypeOK'
  BY <1>1, <1>2, <1>5 DEF PollInv, PollTypeOK
<1>7. ClockFits' /\ BytesFit'
  BY <1>1, <1>5 DEF PollInv, ClockFits, BytesFit, Measured, Room
<1>8. RatesFit' /\ ReadsInTurn' /\ BridgedInTime'
  BY <1>1, <1>5 DEF PollInv, RatesFit, RateFits, ReadsInTurn, BridgedInTime
<1>9. TriesAreCounted' /\ ReuseIsBounded'
  BY <1>1, <1>5 DEF PollInv, TriesAreCounted, Retried, ReuseIsBounded
<1> QED BY <1>6, <1>7, <1>8, <1>9 DEF PollInv

LEMMA UpdateFailsInv == PollInv /\ UpdateFails => PollInv'
<1> SUFFICES ASSUME PollInv, UpdateFails PROVE PollInv'
  OBVIOUS
<1>1. /\ \/ update.phase = "asking"
         \/ update.phase = "reading" /\ AllRead
      /\ update' = Idling /\ current' = FALSE
      /\ UNCHANGED <<clockNow, counter, published, failures, reused, sample, asked>>
  BY DEF UpdateFails
<1>2. /\ history' \in [tries : [Reading -> [NetDevice -> Nat]],
                       lost : [Reading -> [NetDevice -> BOOLEAN]], vpnTries : Nat]
      /\ history'.vpnTries = history.vpnTries /\ history'.tries = history.tries
      /\ \A d \in NetDevice :
           /\ \/ history.lost["stats"][d]
              \/ /\ update.phase = "reading" /\ d \in update.listed
                 /\ failures.stats[d] = 0
              => history'.lost["stats"][d]
           /\ history.lost["wans"][d] \/ (update.phase = "reading" /\ update.legacy)
              => history'.lost["wans"][d]
  <2>1. CASE update.phase = "asking"
    BY <2>1 DEF UpdateFails, PollInv, PollTypeOK
  <2>2. CASE update.phase = "reading"
    <3> DEFINE stats == [d \in NetDevice |-> history.lost["stats"][d]
                           \/ (d \in update.listed /\ failures.stats[d] = 0)]
               wans == [d \in NetDevice |-> history.lost["wans"][d] \/ update.legacy]
    <3>1. history' = [history EXCEPT !.lost = [history.lost EXCEPT !["stats"] = stats,
                                                                   !["wans"] = wans]]
      BY <2>2 DEF UpdateFails
    <3>2. history.lost \in [Reading -> [NetDevice -> BOOLEAN]]
      BY DEF PollInv, PollTypeOK
    <3>3. stats \in [NetDevice -> BOOLEAN] /\ wans \in [NetDevice -> BOOLEAN]
      BY <3>2
    <3>4. \A d \in NetDevice :
            /\ stats[d] = (history.lost["stats"][d]
                             \/ (d \in update.listed /\ failures.stats[d] = 0))
            /\ wans[d] = (history.lost["wans"][d] \/ update.legacy)
      OBVIOUS
    <3> HIDE DEF stats, wans
    <3> DEFINE lost == [history.lost EXCEPT !["stats"] = stats, !["wans"] = wans]
    <3>5. /\ lost \in [Reading -> [NetDevice -> BOOLEAN]]
          /\ lost["stats"] = stats /\ lost["wans"] = wans
      BY <3>2, <3>3 DEF Reading
    <3> HIDE DEF lost
    <3>6. /\ history' \in [tries : [Reading -> [NetDevice -> Nat]],
                           lost : [Reading -> [NetDevice -> BOOLEAN]], vpnTries : Nat]
          /\ history'.vpnTries = history.vpnTries /\ history'.tries = history.tries
          /\ history'.lost = lost
      BY <3>1, <3>5 DEF lost, PollInv, PollTypeOK
    <3> QED BY <3>4, <3>5, <3>6
  <2> QED BY <1>1, <2>1, <2>2
<1>3. PollTypeOK'
  BY <1>1, <1>2, IdlingIs DEF PollInv, PollTypeOK
<1>4. ClockFits' /\ ReuseIsBounded'
  BY <1>1, IdlingIs DEF PollInv, ClockFits, ReuseIsBounded
<1>5. BytesFit' /\ RatesFit' /\ ReadsInTurn' /\ BridgedInTime'
  BY <1>1, IdlingIs, NothingReadFits
<1>6. TriesAreCounted'
  BY <1>1, <1>2 DEF PollInv, TriesAreCounted, Retried
<1> QED BY <1>3, <1>4, <1>5, <1>6 DEF PollInv

Outcome == {"answered", "noMetrics", "unsupported", "failed"}

(* The answer to one device's statistics: new, bridged, or nothing.        *)
LEMMA StatisticsRead ==
  ASSUME NEW e \in NetDevice, NEW outcome \in Outcome, PollInv,
         StatisticsAnswer(e, outcome)
  PROVE  \E read \in Statistics \cup {Nothing} :
    /\ update' = [update EXCEPT !.stats = [update.stats EXCEPT ![e] = read]]
    /\ failures' = [failures EXCEPT !.stats = [failures.stats EXCEPT
                      ![e] = IF outcome = "failed" THEN Later(failures.stats[e]) ELSE 0]]
    /\ \/ read = Nothing /\ reused' = reused
       \/ /\ reused' = reused /\ outcome # "failed"
          /\ read = [bytes |-> counter[e], rate |-> Nothing]
       \/ /\ reused' = reused /\ outcome # "failed"
          /\ read = [bytes |-> Nothing, rate |-> Nothing]
       \/ /\ reused' = reused \cup {e}
          /\ read = published.stats[e] /\ Bridges(Later(failures.stats[e]))
<1> DEFINE n == IF outcome = "failed" THEN Later(failures.stats[e]) ELSE 0
           bridged == outcome = "failed" /\ Bridges(n) /\ published.stats[e] # Nothing
           read == CASE outcome = "answered" -> Stats(counter[e], Nothing)
                     [] outcome = "noMetrics" -> Stats(Nothing, Nothing)
                     [] OTHER -> IF bridged THEN published.stats[e] ELSE Nothing
<1>1. /\ update' = [update EXCEPT !.stats = [update.stats EXCEPT ![e] = read]]
      /\ failures' = [failures EXCEPT !.stats = [failures.stats EXCEPT ![e] = n]]
      /\ reused' = IF bridged THEN reused \cup {e} ELSE reused
  BY DEF StatisticsAnswer
<1>2. /\ counter[e] \in Nat
      /\ published.stats[e] \in Statistics \cup {Nothing}
  BY DEF PollInv, PollTypeOK
<1>3. /\ outcome = "answered" => read = [bytes |-> counter[e], rate |-> Nothing]
      /\ outcome = "noMetrics" => read = [bytes |-> Nothing, rate |-> Nothing]
      /\ outcome \notin {"answered", "noMetrics"} =>
           read = IF bridged THEN published.stats[e] ELSE Nothing
      /\ bridged => Bridges(Later(failures.stats[e])) /\ outcome = "failed"
  BY DEF Stats
<1>4. /\ [bytes |-> counter[e], rate |-> Nothing] \in Statistics
      /\ [bytes |-> Nothing, rate |-> Nothing] \in Statistics
  BY <1>2 DEF Statistics
<1> HIDE DEF bridged, read
<1>5. read \in Statistics \cup {Nothing}
  BY <1>2, <1>3, <1>4
<1>6. \/ read = Nothing /\ reused' = reused
      \/ /\ reused' = reused /\ outcome # "failed"
         /\ read = [bytes |-> counter[e], rate |-> Nothing]
      \/ /\ reused' = reused /\ outcome # "failed"
         /\ read = [bytes |-> Nothing, rate |-> Nothing]
      \/ /\ reused' = reused \cup {e}
         /\ read = published.stats[e] /\ Bridges(Later(failures.stats[e]))
  <2>1. CASE outcome \in {"answered", "noMetrics"}
    BY <1>1, <1>3, <2>1
  <2>2. CASE outcome \notin {"answered", "noMetrics"}
    BY <1>1, <1>3, <2>2
  <2> QED BY <2>1, <2>2
<1> QED BY <1>1, <1>5, <1>6

LEMMA StatisticsAnswerInv ==
  \A d \in NetDevice, outcome \in Outcome :
    PollInv /\ StatisticsAnswer(d, outcome) => PollInv'
<1> SUFFICES ASSUME NEW e \in NetDevice, NEW outcome \in Outcome, PollInv,
                    StatisticsAnswer(e, outcome)
             PROVE  PollInv'
  OBVIOUS
<1>1. /\ update.phase = "reading" /\ e \in update.listed /\ update.stats[e] = Pending
      /\ history' = IF outcome = "failed"
                    THEN [history EXCEPT !.tries["stats"][e] = Later(@)] ELSE history
      /\ UNCHANGED <<clockNow, counter, published, current, sample, asked>>
  BY DEF StatisticsAnswer
<1>2. PICK read \in Statistics \cup {Nothing} :
    /\ update' = [update EXCEPT !.stats = [update.stats EXCEPT ![e] = read]]
    /\ failures' = [failures EXCEPT !.stats = [failures.stats EXCEPT
                      ![e] = IF outcome = "failed" THEN Later(failures.stats[e]) ELSE 0]]
    /\ \/ read = Nothing /\ reused' = reused
       \/ /\ reused' = reused /\ outcome # "failed"
          /\ read = [bytes |-> counter[e], rate |-> Nothing]
       \/ /\ reused' = reused /\ outcome # "failed"
          /\ read = [bytes |-> Nothing, rate |-> Nothing]
       \/ /\ reused' = reused \cup {e}
          /\ read = published.stats[e] /\ Bridges(Later(failures.stats[e]))
  BY StatisticsRead
<1> DEFINE stats == [update.stats EXCEPT ![e] = read]
           n == IF outcome = "failed" THEN Later(failures.stats[e]) ELSE 0
           counts == [failures.stats EXCEPT ![e] = n]
<1>3. /\ stats \in [NetDevice -> Statistics \cup {Nothing, Pending}]
      /\ stats[e] = read /\ read # Pending
      /\ \A d \in NetDevice \ {e} : stats[d] = update.stats[d]
  BY PollAssumption DEF PollInv, PollTypeOK
<1>4. n \in Nat
  BY LaterCounts DEF PollInv, PollTypeOK
<1>5. /\ counts \in [NetDevice -> Nat] /\ counts[e] = n
      /\ \A d \in NetDevice \ {e} : counts[d] = failures.stats[d]
  BY <1>4 DEF PollInv, PollTypeOK
<1>6. /\ update' = [update EXCEPT !.stats = stats]
      /\ failures' = [failures EXCEPT !.stats = counts]
  BY <1>2
<1>7. \/ read = Nothing /\ reused' = reused
      \/ /\ reused' = reused /\ n = 0
         /\ read = [bytes |-> counter[e], rate |-> Nothing]
      \/ /\ reused' = reused /\ n = 0
         /\ read = [bytes |-> Nothing, rate |-> Nothing]
      \/ /\ reused' = reused \cup {e}
         /\ read = published.stats[e] /\ Bridges(Later(failures.stats[e]))
  BY <1>2
<1> HIDE DEF stats, counts
<1>8. /\ update' \in [phase : {"idle", "asking", "reading"}, since : Nat,
                      listed : SUBSET NetDevice, legacy : BOOLEAN,
                      stats : [NetDevice -> Statistics \cup {Nothing, Pending}],
                      radio : [NetDevice -> {Nothing, "available", "failed"}]]
      /\ update'.phase = "reading" /\ update'.since = update.since
      /\ update'.listed = update.listed /\ update'.legacy = update.legacy
      /\ update'.stats = stats
  BY <1>1, <1>3, <1>6 DEF PollInv, PollTypeOK
<1>9. /\ failures' \in [stats : [NetDevice -> Nat], wans : Nat, vpn : Nat]
      /\ failures'.stats = counts
      /\ failures'.wans = failures.wans /\ failures'.vpn = failures.vpn
  BY <1>5, <1>6 DEF PollInv, PollTypeOK
<1>10. reused' \subseteq NetDevice /\ reused \subseteq reused'
  BY <1>7 DEF PollInv, PollTypeOK
<1>11. /\ history' \in [tries : [Reading -> [NetDevice -> Nat]],
                        lost : [Reading -> [NetDevice -> BOOLEAN]], vpnTries : Nat]
       /\ history'.lost = history.lost /\ history'.vpnTries = history.vpnTries
       /\ history'.tries["wans"] = history.tries["wans"]
       /\ \A d \in NetDevice \ {e} :
            history'.tries["stats"][d] = history.tries["stats"][d]
       /\ history'.tries["stats"][e] = IF outcome = "failed"
                                       THEN Later(history.tries["stats"][e])
                                       ELSE history.tries["stats"][e]
  <2>1. CASE outcome # "failed"
    BY <1>1, <2>1 DEF PollInv, PollTypeOK
  <2>2. CASE outcome = "failed"
    <3> DEFINE tried == [history.tries["stats"] EXCEPT
                           ![e] = Later(history.tries["stats"][e])]
               tries == [history.tries EXCEPT !["stats"] = tried]
    <3>1. history' = [history EXCEPT !.tries = tries]
      BY <1>1, <2>2
    <3>2. history.tries \in [Reading -> [NetDevice -> Nat]]
      BY DEF PollInv, PollTypeOK
    <3>3. /\ tried \in [NetDevice -> Nat]
          /\ tried[e] = Later(history.tries["stats"][e])
          /\ \A d \in NetDevice \ {e} : tried[d] = history.tries["stats"][d]
      BY <3>2, LaterCounts DEF Reading
    <3> HIDE DEF tried
    <3>4. /\ tries \in [Reading -> [NetDevice -> Nat]] /\ tries["stats"] = tried
          /\ tries["wans"] = history.tries["wans"]
      BY <3>2, <3>3 DEF Reading
    <3> HIDE DEF tries
    <3>5. /\ history' \in [tries : [Reading -> [NetDevice -> Nat]],
                           lost : [Reading -> [NetDevice -> BOOLEAN]], vpnTries : Nat]
          /\ history'.lost = history.lost /\ history'.vpnTries = history.vpnTries
          /\ history'.tries = tries
      BY <3>1, <3>4 DEF PollInv, PollTypeOK
    <3> QED BY <2>2, <3>3, <3>4, <3>5
  <2> QED BY <2>1, <2>2
<1>12. PollTypeOK'
  BY <1>1, <1>8, <1>9, <1>10, <1>11 DEF PollInv, PollTypeOK
<1>13. ClockFits'
  BY <1>1, <1>8 DEF PollInv, ClockFits
<1>14. BytesFit'
  <2> SUFFICES ASSUME NEW d \in NetDevice
               PROVE  (/\ sample[d] # Nothing => counter[d] <= sample[d].bytes + Room(d)
                       /\ Measured(d) =>
                            /\ counter[d] <= update.stats[d].bytes
                                               + Speed * (clockNow - update.since)
                            /\ sample[d] # Nothing =>
                                 update.stats[d].bytes <= sample[d].bytes + Room(d))'
    BY DEF BytesFit
  <2>1. /\ sample[d] # Nothing => counter[d] <= sample[d].bytes + Room(d)
        /\ Measured(d) =>
             /\ counter[d] <= update.stats[d].bytes + Speed * (clockNow - update.since)
             /\ sample[d] # Nothing => update.stats[d].bytes <= sample[d].bytes + Room(d)
    BY DEF PollInv, BytesFit
  <2>2. Room(d)' = Room(d)
    BY <1>1 DEF Room
  <2>3. CASE d # e
    <3>1. Measured(d)' => Measured(d)
      BY <1>3, <1>8, <1>10, <1>1, <2>3 DEF Measured
    <3> QED BY <1>1, <1>3, <1>8, <2>1, <2>2, <2>3, <3>1
  <2>4. CASE d = e
    <3>1. Measured(d)' => update'.stats[d].bytes = counter[d]
      BY <1>3, <1>7, <1>8, <2>4 DEF Measured
    <3>2. counter[d] \in Nat /\ Speed * (clockNow - update.since) \in Nat
      BY <1>1, PollTypes, Carries
    <3> QED BY <1>1, <1>8, <2>1, <2>2, <3>1, <3>2
  <2> QED BY <2>3, <2>4
<1>15. RatesFit'
  <2>1. RateFits(read)
    <3>1. RateFits(published.stats[e])
      BY DEF PollInv, RatesFit
    <3> QED BY <1>7, <3>1 DEF RateFits
  <2>2. \A d \in NetDevice : update'.stats[d] # Pending => RateFits(update'.stats[d])
    BY <1>3, <1>8, <2>1 DEF PollInv, RatesFit
  <2> QED BY <1>1, <2>2 DEF PollInv, RatesFit, RateFits
<1>16. ReadsInTurn' /\ ReuseIsBounded'
  BY <1>8 DEF ReadsInTurn, ReuseIsBounded
<1>17. BridgedInTime'
  <2> SUFFICES ASSUME NEW d \in NetDevice, update'.stats[d] \notin {Nothing, Pending}
               PROVE  Bridges(failures'.stats[d])
    BY DEF BridgedInTime, Bridges
  <2>1. CASE d # e
    BY <1>3, <1>5, <1>8, <1>9, <2>1 DEF PollInv, BridgedInTime
  <2>2. CASE d = e
    <3>1. Bridges(0)
      BY Carries DEF Bridges
    <3> QED BY <1>3, <1>5, <1>7, <1>8, <1>9, <2>2, <3>1
  <2> QED BY <2>1, <2>2
<1>18. TriesAreCounted'
  <2> SUFFICES ASSUME NEW d \in NetDevice
               PROVE  /\ history'.lost["stats"][d] \/ Retried(d)'
                         \/ history'.tries["stats"][d] <= failures'.stats[d]
                      /\ history'.lost["wans"][d]
                         \/ (update'.phase = "reading" /\ update'.legacy)
                         \/ history'.tries["wans"][d] <= failures'.wans
    BY <1>9, <1>11 DEF PollInv, TriesAreCounted
  <2>1. history'.lost["wans"][d] \/ (update'.phase = "reading" /\ update'.legacy)
        \/ history'.tries["wans"][d] <= failures'.wans
    BY <1>1, <1>8, <1>9, <1>11 DEF PollInv, TriesAreCounted
  <2>2. CASE d # e
    BY <1>3, <1>5, <1>8, <1>9, <1>11, <1>1, <2>1, <2>2
       DEF PollInv, TriesAreCounted, Retried
  <2>3. CASE d = e /\ outcome # "failed"
    BY <1>1, <1>3, <1>5, <1>8, <1>9, <2>1, <2>3 DEF Retried
  <2>4. CASE d = e /\ outcome = "failed"
    <3>1. history.lost["stats"][e] \/ history.tries["stats"][e] <= failures.stats[e]
      BY <1>1 DEF PollInv, TriesAreCounted, Retried
    <3>2. history.tries["stats"][e] \in Nat /\ failures.stats[e] \in Nat
      BY DEF PollInv, PollTypeOK, Reading
    <3> QED BY <1>5, <1>9, <1>11, <2>1, <2>4, <3>1, <3>2, LaterCounts
  <2> QED BY <2>2, <2>3, <2>4
<1> QED BY <1>12, <1>13, <1>14, <1>15, <1>16, <1>17, <1>18 DEF PollInv

-----------------------------------------------------------------------------
(* What a successful poll makes of a device it read.                       *)
LEMMA RatedFits ==
  ASSUME PollInv, update.phase = "reading", AllRead, NEW d \in update.listed
  PROVE  /\ Rated(d) \in Statistics \cup {Nothing} /\ RateFits(Rated(d))
         /\ update.stats[d] = Nothing => Rated(d) = Nothing
<1> DEFINE read == update.stats[d]
           rate == [bytes |-> read.bytes - sample[d].bytes,
                    elapsed |-> clockNow - sample[d].at]
<1>1. /\ d \in NetDevice /\ read \in Statistics \cup {Nothing} /\ read # Pending
      /\ RateFits(read)
  BY DEF AllRead, PollInv, PollTypeOK, RatesFit
<1>2. CASE \/ d \in reused \/ read = Nothing \/ read.bytes = Nothing
           \/ sample[d] = Nothing \/ clockNow <= sample[d].at \/ read.bytes < sample[d].bytes
  <2>1. Rated(d) = read
    BY <1>2 DEF Rated
  <2> QED BY <1>1, <2>1
<1>3. CASE ~(\/ d \in reused \/ read = Nothing \/ read.bytes = Nothing
             \/ sample[d] = Nothing \/ clockNow <= sample[d].at
             \/ read.bytes < sample[d].bytes)
  <2>1. Rated(d) = [read EXCEPT !.rate = rate]
    BY <1>3 DEF Rated
  <2>2. Measured(d) /\ read \in Statistics
    BY <1>1, <1>3 DEF Measured
  <2>3. /\ sample[d].at \in Nat /\ sample[d].bytes \in Nat /\ read.bytes \in Nat
        /\ clockNow \in Nat /\ ReadTime \in Nat
    BY <1>1, <1>3, <2>2, PollTypes, Carries
  <2>4. rate \in [bytes : Nat, elapsed : Nat]
    BY <1>3, <2>3
  <2>5. read.bytes <= sample[d].bytes + Room(d)
    BY <1>1, <1>3, <2>2 DEF PollInv, BytesFit
  <2>6. clockNow + ReadTime - sample[d].at = (clockNow - sample[d].at) + ReadTime
    BY <2>3
  <2>7. Room(d) = Speed * (rate.elapsed + ReadTime) /\ Room(d) \in Nat
    BY <1>1, <1>3, <2>6, PollTypes, Carries DEF Room
  <2>8. rate.bytes <= Speed * (rate.elapsed + ReadTime)
    <3> DEFINE room == Room(d)
    <3> HIDE DEF room
    <3>1. rate.bytes = read.bytes - sample[d].bytes
      OBVIOUS
    <3>2. read.bytes <= sample[d].bytes + room /\ room \in Nat
          /\ room = Speed * (rate.elapsed + ReadTime)
      BY <2>5, <2>7 DEF room
    <3> HIDE DEF rate
    <3> QED BY <2>3, <3>1, <3>2
  <2> HIDE DEF rate
  <2>9. Rated(d) \in Statistics /\ Rated(d).rate = rate
    BY <2>1, <2>2, <2>4 DEF Statistics
  <2> QED BY <1>3, <2>8, <2>9 DEF RateFits
<1> QED BY <1>2, <1>3

LEMMA SamplesFit ==
  ASSUME PollInv, update.phase = "reading", AllRead, NEW d \in NetDevice
  PROVE  /\ SampleOf(d) \in [at : Nat, bytes : Nat] \cup {Nothing}
         /\ SampleOf(d) # Nothing =>
              /\ SampleOf(d).at <= clockNow
              /\ counter[d] <= SampleOf(d).bytes
                                 + Speed * (clockNow + ReadTime - SampleOf(d).at)
<1>1. CASE d \in reused
  <2>1. SampleOf(d) = sample[d]
    BY <1>1 DEF SampleOf
  <2> QED BY <2>1 DEF PollInv, PollTypeOK, ClockFits, BytesFit, Room
<1>2. CASE /\ d \in update.listed \ reused /\ update.stats[d] # Nothing
           /\ update.stats[d].bytes # Nothing
  <2> DEFINE bytes == update.stats[d].bytes
  <2>1. SampleOf(d) = [at |-> clockNow, bytes |-> bytes]
    BY <1>2 DEF SampleOf
  <2>2. Measured(d) /\ bytes \in Nat /\ clockNow \in Nat /\ update.since \in Nat
    BY <1>2, PollTypes DEF Measured, AllRead
  <2>3. counter[d] <= bytes + Speed * (clockNow - update.since)
    BY <2>2 DEF PollInv, BytesFit
  <2>4. /\ clockNow - update.since \in Nat /\ clockNow - update.since <= ReadTime
        /\ ReadTime \in Nat /\ counter[d] \in Nat
    BY <2>2, PollTypes, Carries DEF PollInv, ClockFits
  <2>5. /\ Speed * (clockNow - update.since) <= Speed * ReadTime
        /\ Speed * (clockNow - update.since) \in Nat /\ Speed * ReadTime \in Nat
    BY <2>4, Carries
  <2> HIDE DEF bytes
  <2>6. counter[d] <= bytes + Speed * ReadTime
    BY <2>2, <2>3, <2>4, <2>5
  <2>7. clockNow + ReadTime - clockNow = ReadTime
    BY <2>2, <2>4
  <2> QED BY <2>1, <2>2, <2>6, <2>7
<1>3. CASE /\ d \notin reused
           /\ ~(/\ d \in update.listed \ reused /\ update.stats[d] # Nothing
                /\ update.stats[d].bytes # Nothing)
  BY <1>3 DEF SampleOf
<1> QED BY <1>1, <1>2, <1>3

LEMMA UpdateSucceedsInv == \A vpn \in BOOLEAN : PollInv /\ UpdateSucceeds(vpn) => PollInv'
<1> SUFFICES ASSUME NEW vpn \in BOOLEAN, PollInv, UpdateSucceeds(vpn) PROVE PollInv'
  OBVIOUS
<1> DEFINE polled == update.listed
           n == VpnFailures(vpn)
           kept(k, d) == d \in polled /\ IF k = "stats" THEN failures.stats[d] > 0
                                         ELSE ~update.legacy
           stats == [d \in NetDevice |-> IF d \in polled THEN Rated(d) ELSE Nothing]
           wans == [d \in NetDevice |-> d \in polled /\
                      (update.legacy
                         \/ (~update.legacy /\ Bridges(failures.wans) /\ published.wans[d]))]
           radio == [d \in NetDevice |-> IF d \in polled THEN RadioRecord(d) ELSE Nothing]
           counts == [d \in NetDevice |-> IF d \in polled THEN failures.stats[d] ELSE 0]
           tries == [k \in Reading |-> [d \in NetDevice |->
                       IF kept(k, d) THEN history.tries[k][d] ELSE 0]]
           lost == [k \in Reading |-> [d \in NetDevice |-> kept(k, d) /\ history.lost[k][d]]]
<1>1. /\ update.phase = "reading" /\ AllRead /\ current' = TRUE /\ update' = Idling
      /\ UNCHANGED <<clockNow, counter, reused>>
      /\ sample' = [d \in NetDevice |-> SampleOf(d)]
      /\ asked' = [d \in NetDevice |-> IF d \in polled THEN asked[d] ELSE Never]
  BY DEF UpdateSucceeds
<1>2. published' = [stats |-> stats, wans |-> wans, radio |-> radio,
                    vpn |-> vpn \/ (Bridges(n) /\ published.vpn)]
  BY DEF UpdateSucceeds
<1>3. failures' = [failures EXCEPT !.stats = counts, !.vpn = n]
  BY DEF UpdateSucceeds
<1>4. history' = [tries |-> tries, lost |-> lost,
                  vpnTries |-> IF vpn THEN 0 ELSE Later(history.vpnTries)]
  <2>1. history' =
          [tries |-> [k \in Reading |-> [d \in NetDevice |->
              IF d \in polled /\ (IF k = "stats" THEN failures.stats[d] > 0 ELSE ~update.legacy)
              THEN history.tries[k][d] ELSE 0]],
           lost |-> [k \in Reading |-> [d \in NetDevice |->
              /\ d \in polled
              /\ IF k = "stats" THEN failures.stats[d] > 0 ELSE ~update.legacy
              /\ history.lost[k][d]]],
           vpnTries |-> IF vpn THEN 0 ELSE Later(history.vpnTries)]
    BY DEF UpdateSucceeds
  <2> QED BY <2>1
<1>5. polled \subseteq NetDevice /\ n \in Nat
  BY LaterCounts DEF VpnFailures, PollInv, PollTypeOK
<1>6. /\ stats \in [NetDevice -> Statistics \cup {Nothing}]
      /\ \A d \in NetDevice :
           /\ RateFits(stats[d])
           /\ stats[d] # Nothing => d \in polled /\ update.stats[d] # Nothing
  <2>1. RateFits(Nothing)
    BY DEF RateFits
  <2> QED BY <1>1, <2>1, RatedFits
<1>7. /\ wans \in [NetDevice -> BOOLEAN]
      /\ \A d \in NetDevice : wans[d] => d \in polled /\ (update.legacy \/ Bridges(failures.wans))
  BY DEF PollInv, PollTypeOK
<1>8. radio \in [NetDevice -> {Nothing, "available", "unavailable"}]
  <2>1. \A d \in NetDevice : published.radio[d] \in {Nothing, "available", "unavailable"}
    BY DEF PollInv, PollTypeOK
  <2>2. \A d \in NetDevice : RadioRecord(d) \in {Nothing, "available", "unavailable"}
    BY <2>1 DEF RadioRecord
  <2> QED BY <2>2
<1>9. /\ counts \in [NetDevice -> Nat]
      /\ \A d \in NetDevice : d \in polled => counts[d] = failures.stats[d]
  BY DEF PollInv, PollTypeOK
<1>10. /\ tries \in [Reading -> [NetDevice -> Nat]]
       /\ lost \in [Reading -> [NetDevice -> BOOLEAN]]
  BY DEF PollInv, PollTypeOK
<1>11. \A d \in NetDevice :
         /\ tries["stats"][d] = IF d \in polled /\ failures.stats[d] > 0
                                THEN history.tries["stats"][d] ELSE 0
         /\ tries["wans"][d] = IF d \in polled /\ ~update.legacy
                               THEN history.tries["wans"][d] ELSE 0
         /\ lost["stats"][d] <=> (d \in polled /\ failures.stats[d] > 0
                                  /\ history.lost["stats"][d])
         /\ lost["wans"][d] <=> (d \in polled /\ ~update.legacy /\ history.lost["wans"][d])
  BY DEF Reading
<1> HIDE DEF stats, wans, radio, counts, tries, lost, n, polled
<1>12. /\ published' \in [stats : [NetDevice -> Statistics \cup {Nothing}],
                          wans : [NetDevice -> BOOLEAN],
                          radio : [NetDevice -> {Nothing, "available", "unavailable"}],
                          vpn : BOOLEAN]
       /\ published'.stats = stats /\ published'.wans = wans
       /\ published'.vpn = (vpn \/ (Bridges(n) /\ published.vpn))
  <2>1. (vpn \/ (Bridges(n) /\ published.vpn)) \in BOOLEAN
    OBVIOUS
  <2> QED BY <1>2, <1>6, <1>7, <1>8, <2>1
<1>13. /\ failures' \in [stats : [NetDevice -> Nat], wans : Nat, vpn : Nat]
       /\ failures'.stats = counts /\ failures'.wans = failures.wans /\ failures'.vpn = n
  BY <1>3, <1>5, <1>9 DEF PollInv, PollTypeOK
<1>14. /\ history' \in [tries : [Reading -> [NetDevice -> Nat]],
                        lost : [Reading -> [NetDevice -> BOOLEAN]], vpnTries : Nat]
       /\ history'.tries = tries /\ history'.lost = lost
       /\ history'.vpnTries = IF vpn THEN 0 ELSE Later(history.vpnTries)
  <2>1. (IF vpn THEN 0 ELSE Later(history.vpnTries)) \in Nat
    BY LaterCounts DEF PollInv, PollTypeOK
  <2> QED BY <1>4, <1>10, <2>1
<1>15. /\ sample' \in [NetDevice -> [at : Nat, bytes : Nat] \cup {Nothing}]
       /\ \A d \in NetDevice : sample'[d] = SampleOf(d)
  BY <1>1, SamplesFit
<1>16. asked' \in [NetDevice -> Nat]
  BY <1>1, PollAssumption DEF Never, PollInv, PollTypeOK
<1>17. PollTypeOK'
  BY <1>1, <1>12, <1>13, <1>14, <1>15, <1>16, IdlingIs DEF PollInv, PollTypeOK
<1>18. ClockFits' /\ BytesFit'
  <2>1. \A d \in NetDevice :
          sample'[d] # Nothing =>
            /\ sample'[d].at <= clockNow'
            /\ counter'[d] <= sample'[d].bytes + Room(d)'
    BY <1>1, <1>15, SamplesFit DEF Room
  <2> QED BY <1>1, <2>1, IdlingIs DEF ClockFits, BytesFit, Measured
<1>19. RatesFit' /\ ReadsInTurn' /\ BridgedInTime'
  BY <1>1, <1>6, <1>12, IdlingIs DEF RatesFit, RateFits, ReadsInTurn, BridgedInTime
<1>20. history'.vpnTries <= failures'.vpn
  <2>1. /\ history.vpnTries \in Nat /\ failures.vpn \in Nat
        /\ history.vpnTries <= failures.vpn
    BY DEF PollInv, PollTypeOK, TriesAreCounted
  <2> QED BY <1>13, <1>14, <2>1, LaterCounts DEF n, VpnFailures
<1>21. ASSUME NEW d \in NetDevice
       PROVE  /\ lost["stats"][d] \/ tries["stats"][d] <= counts[d]
              /\ lost["wans"][d] \/ tries["wans"][d] <= failures.wans
  <2>1. /\ history.lost["stats"][d] \/ failures.stats[d] = 0
           \/ history.tries["stats"][d] <= failures.stats[d]
        /\ history.lost["wans"][d] \/ update.legacy
           \/ history.tries["wans"][d] <= failures.wans
    BY DEF PollInv, TriesAreCounted, Retried
  <2>2. counts[d] \in Nat /\ failures.stats[d] \in Nat /\ failures.wans \in Nat
    BY <1>9 DEF PollInv, PollTypeOK
  <2>3. lost["stats"][d] \/ tries["stats"][d] <= counts[d]
    BY <1>9, <1>11, <2>1, <2>2
  <2>4. lost["wans"][d] \/ tries["wans"][d] <= failures.wans
    BY <1>11, <2>1, <2>2
  <2> QED BY <2>3, <2>4
<1>22. TriesAreCounted'
  BY <1>13, <1>14, <1>20, <1>21 DEF TriesAreCounted
<1>23. ReuseIsBounded'
  <2>1. ASSUME NEW d \in NetDevice
        PROVE  /\ stats[d] # Nothing /\ ~lost["stats"][d] => tries["stats"][d] <= MaxReuse
               /\ wans[d] /\ ~lost["wans"][d] => tries["wans"][d] <= MaxReuse
    <3>1. /\ tries["stats"][d] \in Nat /\ tries["wans"][d] \in Nat
          /\ failures.stats[d] \in Nat /\ failures.wans \in Nat /\ MaxReuse \in Nat
      BY <1>10, Carries DEF PollInv, PollTypeOK, Reading
    <3>2. stats[d] # Nothing => counts[d] <= MaxReuse
      BY <1>1, <1>6, <1>9 DEF AllRead, PollInv, BridgedInTime, Bridges, polled
    <3>3. wans[d] /\ tries["wans"][d] # 0 => failures.wans <= MaxReuse
      BY <1>7, <1>11 DEF Bridges
    <3>4. counts[d] \in Nat
      BY <1>9
    <3> QED BY <1>21, <3>1, <3>2, <3>3, <3>4
  <2>2. published'.vpn => history'.vpnTries <= MaxReuse
    <3>1. published'.vpn => vpn \/ n <= MaxReuse
      BY <1>12 DEF Bridges
    <3>2. history'.vpnTries <= n /\ history'.vpnTries \in Nat /\ MaxReuse \in Nat
      BY <1>13, <1>14, <1>20, Carries
    <3> QED BY <1>5, <1>14, <3>1, <3>2
  <2> QED BY <1>12, <1>14, <2>1, <2>2 DEF ReuseIsBounded
<1> QED BY <1>17, <1>18, <1>19, <1>22, <1>23 DEF PollInv

LEMMA PollInvHolds == PollSpec => []PollInv
<1>1. PollInit => PollInv
  <2> SUFFICES ASSUME PollInit PROVE PollInv
    OBVIOUS
  <2>1. /\ published \in [stats : [NetDevice -> Statistics \cup {Nothing}],
                          wans : [NetDevice -> BOOLEAN],
                          radio : [NetDevice -> {Nothing, "available", "unavailable"}],
                          vpn : BOOLEAN]
        /\ \A d \in NetDevice : published.stats[d] = Nothing
    BY DEF PollInit, Blank
  <2>2. /\ history \in [tries : [Reading -> [NetDevice -> Nat]],
                        lost : [Reading -> [NetDevice -> BOOLEAN]], vpnTries : Nat]
        /\ \A d \in NetDevice : /\ history.tries["stats"][d] = 0
                                /\ history.tries["wans"][d] = 0
        /\ history.vpnTries = 0
    BY DEF PollInit, NoTries, Reading
  <2>3. /\ failures \in [stats : [NetDevice -> Nat], wans : Nat, vpn : Nat]
        /\ \A d \in NetDevice : failures.stats[d] = 0
        /\ failures.wans = 0 /\ failures.vpn = 0
    BY DEF PollInit
  <2>4. asked \in [NetDevice -> Nat]
    BY PollAssumption DEF PollInit, Never
  <2>5. /\ update = Idling /\ current = FALSE /\ reused = {} /\ clockNow = 0
        /\ counter = [d \in NetDevice |-> 0] /\ sample = [d \in NetDevice |-> Nothing]
    BY DEF PollInit
  <2>6. PollTypeOK
    BY <2>1, <2>2, <2>3, <2>4, <2>5, IdlingIs DEF PollTypeOK
  <2>7. ClockFits /\ BytesFit
    BY <2>5, IdlingIs DEF ClockFits, BytesFit, Measured
  <2>8. RatesFit /\ ReadsInTurn /\ BridgedInTime
    BY <2>1, <2>5, IdlingIs DEF RatesFit, RateFits, ReadsInTurn, BridgedInTime
  <2>9. TriesAreCounted /\ ReuseIsBounded
    BY <2>2, <2>3, <2>5 DEF TriesAreCounted, ReuseIsBounded
  <2> QED BY <2>6, <2>7, <2>8, <2>9 DEF PollInv
<1>2. PollInv /\ [PollNext]_pollVars => PollInv'
  <2> SUFFICES ASSUME PollInv, [PollNext]_pollVars PROVE PollInv'
    OBVIOUS
  <2>1. CASE UNCHANGED pollVars
    <3>1. UNCHANGED <<clockNow, counter, published, update, current, failures, reused, sample,
                      asked, history>>
      BY <2>1 DEF pollVars
    <3>2. PollTypeOK' /\ ClockFits'
      BY <3>1 DEF PollInv, PollTypeOK, ClockFits
    <3>3. BytesFit' /\ RatesFit'
      BY <3>1 DEF PollInv, BytesFit, Measured, Room, RatesFit, RateFits
    <3>4. ReadsInTurn' /\ BridgedInTime' /\ TriesAreCounted' /\ ReuseIsBounded'
      BY <3>1 DEF PollInv, ReadsInTurn, BridgedInTime, TriesAreCounted, Retried,
                  ReuseIsBounded
    <3> QED BY <3>2, <3>3, <3>4 DEF PollInv
  <2>2. CASE PollNext
    <3>1. CASE TimePasses \/ UpdateStarts \/ NoSites \/ UpdateFails
               \/ \E d \in NetDevice : DeviceRestarts(d)
      BY <3>1, TimePassesInv, UpdateStartsInv, NoSitesInv, UpdateFailsInv,
         DeviceRestartsInv
    <3>2. CASE \E polled \in SUBSET NetDevice, legacy \in MayAnswer("wans") :
                 ListsAnswer(polled, legacy)
      BY <3>2, ListsAnswerInv DEF MayAnswer
    <3>3. CASE \E d \in NetDevice, outcome \in Outcome : StatisticsAnswer(d, outcome)
      BY <3>3, StatisticsAnswerInv
    <3>4. CASE \E d \in NetDevice, answered \in MayAnswer("radios") : RadiosAnswer(d, answered)
      BY <3>4, RadiosAnswerInv DEF MayAnswer
    <3>5. CASE \E vpn \in MayAnswer("vpn") : UpdateSucceeds(vpn)
      BY <3>5, UpdateSucceedsInv DEF MayAnswer
    <3> QED BY <2>2, <3>1, <3>2, <3>3, <3>4, <3>5 DEF PollNext, Outcome
  <2> QED BY <2>1, <2>2
<1> QED BY <1>1, <1>2, PTL DEF PollSpec

(* For any devices, line speed, request time-out and reuse limit, and any  *)
(* mix of failures: no published rate exceeds the line, and no bridged     *)
(* reading outlives its allowance of failed polls.                         *)
THEOREM PublishedReadingsAreHonest == PollSpec => []ReadingsAreHonest
<1>1. PollInv => ReadingsAreHonest
  BY DEF PollInv, RatesFit, RateFits, ReadingsAreHonest, RatesFitTheLine
<1> QED BY <1>1, PollInvHolds, PTL

----
(* A change that has not been fired yet is in the buffer in the order of   *)
(* the numbers, and the newest about a rule says what the baseline says.   *)
Unfired == {i \in DOMAIN buffer : buffer[i].sequence > lastSeq}

BufferIsNumbered ==
  /\ \A i \in DOMAIN buffer : buffer[i].sequence = changeSeq - Len(buffer) + i
  /\ lastSeq <= changeSeq
  /\ baseline = <<>> => buffer = <<>>

NewestIsBelieved(r) ==
  /\ About(buffer, Unfired, r) = {} => told[r] = baseline[1][r]
  /\ \A i \in About(buffer, Unfired, r) :
       (\A j \in About(buffer, Unfired, r) : j <= i) => buffer[i].now = baseline[1][r]

ToldOrBuffered ==
  lastSeq >= 0 /\ baseline # <<>> /\ ~overflowed => \A r \in Rule : NewestIsBelieved(r)

AuditInv == AuditTypeOK /\ BufferIsNumbered /\ ToldOrBuffered

(* A set of indices that is not empty has a last one.                      *)
LEMMA LastIndex ==
  ASSUME NEW n \in Nat, NEW T, T \subseteq 1 .. n, T # {}
  PROVE  \E i \in T : \A j \in T : j <= i
<1> DEFINE R == OpToRel(<, Nat)
           D == {n - i : i \in T}
<1>1. IsWellFoundedOn(R, Nat)
  BY NatLessThanWellFounded
<1>2. D \subseteq Nat /\ D # {}
  <2>1. PICK i \in T : TRUE
    OBVIOUS
  <2>2. n - i \in D
    BY <2>1
  <2>3. ASSUME NEW y \in D PROVE y \in Nat
    <3>1. PICK j \in T : y = n - j
      BY <2>3
    <3>2. j \in 1 .. n
      OBVIOUS
    <3> QED BY <3>1, <3>2
  <2> QED BY <2>2, <2>3
<1>3. \E x \in D : \A y \in D : ~ (<<y, x>> \in R)
  <2> HIDE DEF R, D
  <2> QED BY <1>1, <1>2, WFMin
<1>4. PICK x \in D : \A y \in D : ~ (<<y, x>> \in R)
  BY <1>3
<1>5. ASSUME NEW y \in D PROVE x <= y
  <2>1. x \in Nat /\ y \in Nat
    BY <1>2
  <2>2. ~ (<<y, x>> \in R)
    BY <1>4
  <2>3. y < x => <<y, x>> \in R
    BY <2>1 DEF OpToRel
  <2> HIDE DEF R, D
  <2> QED BY <2>1, <2>2, <2>3
<1>6. PICK i \in T : x = n - i
  OBVIOUS
<1>7. ASSUME NEW j \in T PROVE j <= i
  <2>1. n - j \in D
    OBVIOUS
  <2>2. i \in 1 .. n /\ j \in 1 .. n
    OBVIOUS
  <2> QED BY <1>5, <1>6, <2>1, <2>2
<1> QED BY <1>7

LEMMA NewestIsChosen ==
  ASSUME AuditTypeOK, NEW r \in Rule, NEW fired, fired \subseteq DOMAIN buffer,
         About(buffer, fired, r) # {}
  PROVE  LET last == CHOOSE i \in About(buffer, fired, r) : \A j \in About(buffer, fired, r) : j <= i
         IN  /\ last \in About(buffer, fired, r)
             /\ \A j \in About(buffer, fired, r) : j <= last
<1>1. About(buffer, fired, r) \subseteq 1 .. Len(buffer) /\ Len(buffer) \in Nat
  BY DEF AuditTypeOK, About
<1> QED BY <1>1, LastIndex

(* Firing what is left brings a listener to the baseline.                  *)
LEMMA FiringCatchesUp ==
  ASSUME AuditInv, lastSeq >= 0, baseline # <<>>, ~overflowed
  PROVE  After(told, buffer, Unfired) = baseline[1]
<1> DEFINE N == Unfired
           a == After(told, buffer, N)
<1>1. AuditTypeOK /\ N \subseteq DOMAIN buffer /\ \A r \in Rule : NewestIsBelieved(r)
  BY DEF AuditInv, ToldOrBuffered, Unfired
<1>2. baseline[1] \in Rules
  BY <1>1 DEF AuditTypeOK
<1>3. ASSUME NEW r \in Rule PROVE a[r] = baseline[1][r]
  <2>1. CASE About(buffer, N, r) = {}
    BY <1>1, <2>1 DEF After, NewestIsBelieved
  <2>2. CASE About(buffer, N, r) # {}
    <3> DEFINE last == CHOOSE i \in About(buffer, N, r) : \A j \in About(buffer, N, r) : j <= i
    <3>1. last \in About(buffer, N, r) /\ \A j \in About(buffer, N, r) : j <= last
      BY <1>1, <2>2, NewestIsChosen
    <3>2. a[r] = buffer[last].now
      BY <2>2 DEF After
    <3> QED BY <1>1, <3>1, <3>2 DEF NewestIsBelieved
  <2> QED BY <2>1, <2>2
<1>4. a = [r \in Rule |-> a[r]]
  BY DEF After
<1>5. baseline[1] = [r \in Rule |-> baseline[1][r]]
  BY <1>2 DEF Rules
<1> QED BY <1>3, <1>4, <1>5

(* The orders of some changes: each of them in one.                        *)
LEMMA OrdersAreOfTheChanges ==
  ASSUME NEW S, S \subseteq Rule, NEW order \in Orders(S)
  PROVE  /\ order \in Seq(S) /\ Len(order) \in Nat /\ DOMAIN order = 1 .. Len(order)
         /\ \A i \in 1 .. Len(order) : order[i] \in S
         /\ \A r \in S : \E i \in 1 .. Len(order) : order[i] = r
<1>1. Cardinality(S) \in Nat
  BY FS_Subset, FS_CardinalityType, RuleAuditAssumption
<1> DEFINE n == Cardinality(S)
<1>2. order \in [1 .. n -> S] /\ \A r \in S : \E i \in DOMAIN order : order[i] = r
  BY DEF Orders
<1> HIDE DEF n
<1>3. n \in Nat
  BY <1>1 DEF n
<1>4. order \in Seq(S) /\ Len(order) = n
  BY <1>2, <1>3
<1> QED BY <1>2, <1>3, <1>4

(* What the tracker buffers: the old records, then the new ones, without   *)
(* the oldest.                                                             *)
ShiftedBuffer(order, answered) ==
  LET records == buffer \o Numbered(order, answered)
      dropped == IF Len(records) <= BufferSize THEN 0 ELSE Len(records) - BufferSize
  IN  /\ dropped \in 0 .. Len(records) /\ Len(records) = Len(buffer) + Len(order)
      /\ \A i \in 1 .. Len(records) :
           /\ records[i].sequence = changeSeq - Len(buffer) + i
           /\ i <= Len(buffer) => records[i] = buffer[i]
           /\ i > Len(buffer) =>
                /\ records[i].rule = order[i - Len(buffer)]
                /\ records[i].now = answered[order[i - Len(buffer)]]
      /\ Newest(records) \in Seq(Change)
      /\ Len(Newest(records)) = Len(records) - dropped
      /\ Len(Newest(records)) <= BufferSize
      /\ \A i \in 1 .. Len(Newest(records)) : Newest(records)[i] = records[dropped + i]

LEMMA BufferIsShifted ==
  ASSUME AuditTypeOK, BufferIsNumbered, NEW answered \in Rules,
         NEW S, S \subseteq Rule, NEW order \in Orders(S),
         changeSeq + Len(order) <= MaxReports
  PROVE  ShiftedBuffer(order, answered)
<1> DEFINE new == Numbered(order, answered)
           records == buffer \o new
           dropped == IF Len(records) <= BufferSize THEN 0 ELSE Len(records) - BufferSize
           n == Len(order)
           m == Len(buffer)
<1>1. /\ n \in Nat /\ DOMAIN order = 1 .. n
      /\ \A i \in 1 .. n : order[i] \in Rule
  BY OrdersAreOfTheChanges
<1>2. /\ buffer \in Seq(Change) /\ m \in Nat /\ m <= BufferSize /\ changeSeq \in Nat
      /\ MaxReports \in Nat /\ BufferSize \in Nat \ {0}
      /\ changeSeq + n <= MaxReports
  BY RuleAuditAssumption DEF AuditTypeOK
<1>3. /\ new = [i \in 1 .. n |-> [sequence |-> changeSeq + i, rule |-> order[i],
                                   now |-> answered[order[i]]]]
  BY <1>1 DEF Numbered
<1> HIDE DEF new
<1>4. new \in [1 .. n -> Change]
  <2>1. ASSUME NEW i \in 1 .. n
        PROVE  [sequence |-> changeSeq + i, rule |-> order[i], now |-> answered[order[i]]] \in Change
    <3>1. order[i] \in Rule /\ answered[order[i]] \in Content \cup {NoRule}
      BY <1>1 DEF Rules
    <3>2. changeSeq + i \in 1 .. MaxReports
      BY <1>1, <1>2
    <3> QED BY <3>1, <3>2 DEF Change
  <2> QED BY <1>3, <2>1
<1>5. new \in Seq(Change) /\ Len(new) = n
  <2> HIDE DEF n
  <2> QED BY <1>1, <1>4
<1>6. /\ records \in Seq(Change) /\ Len(records) = m + n
      /\ \A i \in 1 .. m + n : records[i] = IF i <= m THEN buffer[i] ELSE new[i - m]
  BY <1>2, <1>5
<1> HIDE DEF records
<1>7. ASSUME NEW i \in 1 .. m + n
      PROVE  /\ records[i].sequence = changeSeq - m + i
             /\ i <= m => records[i] = buffer[i]
             /\ i > m => /\ records[i].rule = order[i - m]
                         /\ records[i].now = answered[order[i - m]]
  <2>1. CASE i <= m
    BY <1>2, <1>6, <2>1 DEF BufferIsNumbered
  <2>2. CASE i > m
    <3>1. i - m \in 1 .. n /\ records[i] = new[i - m]
      BY <1>1, <1>2, <1>6, <2>2
    <3>2. new[i - m] = [sequence |-> changeSeq + (i - m), rule |-> order[i - m],
                        now |-> answered[order[i - m]]]
      BY <1>3, <3>1
    <3> QED BY <1>1, <1>2, <2>2, <3>1, <3>2
  <2> QED BY <1>1, <1>2, <2>1, <2>2
<1>8. dropped \in 0 .. Len(records)
  BY <1>1, <1>2, <1>6
<1>9. /\ Newest(records) \in Seq(Change)
      /\ Len(Newest(records)) = Len(records) - dropped
      /\ Len(Newest(records)) <= BufferSize
      /\ \A i \in 1 .. Len(Newest(records)) : Newest(records)[i] = records[dropped + i]
  <2> DEFINE q == Len(records)
  <2>1. q \in Nat /\ q = m + n
    BY <1>1, <1>2, <1>6
  <2>2. CASE q <= BufferSize
    BY <1>6, <2>1, <2>2 DEF Newest
  <2>3. CASE ~(q <= BufferSize)
    <3> DEFINE kept == SubSeq(records, q - BufferSize + 1, q)
    <3>1. Newest(records) = kept /\ dropped = q - BufferSize
      BY <2>3 DEF Newest
    <3>2. q - BufferSize + 1 \in 1 .. q
      BY <1>2, <2>1, <2>3
    <3>3. kept \in Seq(Change) /\ Len(kept) = BufferSize
          /\ \A i \in 1 .. BufferSize : kept[i] = records[(q - BufferSize) + i]
      <4> DEFINE from == q - BufferSize + 1
      <4>1. from \in Int /\ q \in Int /\ 1 <= from /\ q <= Len(records)
            /\ q - from + 1 = BufferSize /\ from <= q
        BY <1>2, <2>1, <3>2
      <4>2. records \in Seq(Change)
        BY <1>6
      <4>3. \A i \in from .. q : records[i] \in Change
        BY <4>1, <4>2
      <4>4. kept = [i \in 1 .. BufferSize |-> records[i + from - 1]]
        <5>1. kept = [i \in 1 .. (1 + q - from) |-> records[i + from - 1]]
          BY <4>1, <4>2
        <5> QED BY <5>1, <4>1, <1>2
      <4> HIDE DEF kept
      <4>5. \A i \in 1 .. BufferSize : kept[i] = records[(q - BufferSize) + i]
        <5>1. ASSUME NEW i \in 1 .. BufferSize
              PROVE  i + from - 1 = (q - BufferSize) + i
          BY <1>2, <2>1
        <5> QED BY <4>4, <5>1
      <4>6. kept \in [1 .. BufferSize -> Change]
        <5>1. ASSUME NEW i \in 1 .. BufferSize PROVE i + from - 1 \in from .. q
          BY <1>2, <2>1, <4>1
        <5> QED BY <4>3, <4>4, <5>1
      <4>7. kept \in Seq(Change) /\ Len(kept) = BufferSize
        BY <4>6, <1>2
      <4> QED BY <4>5, <4>7
    <3> HIDE DEF kept
    <3> QED BY <1>2, <2>1, <2>3, <3>1, <3>3
  <2> QED BY <2>2, <2>3
<1>10. Len(records) = m + n
  BY <1>6
<1> HIDE DEF dropped
<1>11. \A i \in 1 .. Len(records) :
         /\ records[i].sequence = changeSeq - Len(buffer) + i
         /\ i <= Len(buffer) => records[i] = buffer[i]
         /\ i > Len(buffer) =>
              /\ records[i].rule = order[i - Len(buffer)]
              /\ records[i].now = answered[order[i - Len(buffer)]]
  BY <1>7, <1>10
<1> QED BY <1>6, <1>8, <1>9, <1>10, <1>11 DEF records, new, dropped, ShiftedBuffer

(* A believed answer: what it changes is at the end of the buffer, and     *)
(* nothing unfired was dropped unless the history says so.                 *)
LEMMA BelievedIsBuffered ==
  ASSUME AuditInv, NEW answered \in Rules, Believes(answered),
         told' = (IF baseline = <<>> THEN answered ELSE told),
         UNCHANGED lastSeq
  PROVE  /\ baseline' \in {<<>>} \cup {<<b>> : b \in Rules} /\ changeSeq' \in 0 .. MaxReports
         /\ buffer' \in Seq(Change) /\ Len(buffer') <= BufferSize
         /\ told' \in Rules /\ overflowed' \in BOOLEAN
         /\ BufferIsNumbered' /\ ToldOrBuffered'
<1> DEFINE S == IF baseline = <<>> THEN {} ELSE Differs(baseline[1], answered)
<1>1. S \subseteq Rule
  BY DEF Differs
<1>2. PICK order \in Orders(S) :
        /\ changeSeq + Len(order) <= MaxReports
        /\ changeSeq' = changeSeq + Len(order)
        /\ buffer' = Newest(buffer \o Numbered(order, answered))
        /\ overflowed' = (overflowed \/ \E i \in 1 .. Len(buffer \o Numbered(order, answered)) - BufferSize :
                             (buffer \o Numbered(order, answered))[i].sequence > lastSeq)
  BY DEF Believes, Records
<1> DEFINE records == buffer \o Numbered(order, answered)
           dropped == IF Len(records) <= BufferSize THEN 0 ELSE Len(records) - BufferSize
           m == Len(buffer)
           n == Len(order)
<1>3. /\ AuditTypeOK /\ BufferIsNumbered /\ ToldOrBuffered
      /\ m \in Nat /\ changeSeq \in Nat /\ MaxReports \in Nat /\ lastSeq \in Int /\ BufferSize \in Nat \ {0}
      /\ lastSeq <= changeSeq
  BY RuleAuditAssumption DEF AuditInv, AuditTypeOK, BufferIsNumbered
<1>4. /\ n \in Nat /\ DOMAIN order = 1 .. n
      /\ \A i \in 1 .. n : order[i] \in S
      /\ \A r \in S : \E i \in 1 .. n : order[i] = r
  BY <1>1, <1>2, OrdersAreOfTheChanges
<1> HIDE DEF S
<1>5. /\ dropped \in 0 .. Len(records) /\ Len(records) = m + n
      /\ \A i \in 1 .. m + n :
           /\ records[i].sequence = changeSeq - m + i
           /\ i <= m => records[i] = buffer[i]
           /\ i > m => /\ records[i].rule = order[i - m]
                       /\ records[i].now = answered[order[i - m]]
      /\ buffer' \in Seq(Change)
      /\ Len(buffer') = (m + n) - dropped
      /\ Len(buffer') <= BufferSize
      /\ \A i \in 1 .. Len(buffer') : buffer'[i] = records[dropped + i]
  <2>1. /\ dropped \in 0 .. Len(records) /\ Len(records) = m + n
        /\ \A i \in 1 .. Len(records) :
             /\ records[i].sequence = changeSeq - m + i
             /\ i <= m => records[i] = buffer[i]
             /\ i > m => /\ records[i].rule = order[i - m]
                         /\ records[i].now = answered[order[i - m]]
        /\ Newest(records) \in Seq(Change)
        /\ Len(Newest(records)) = Len(records) - dropped
        /\ Len(Newest(records)) <= BufferSize
        /\ \A i \in 1 .. Len(Newest(records)) : Newest(records)[i] = records[dropped + i]
    <3>1. order \in Orders(S) /\ changeSeq + Len(order) <= MaxReports /\ answered \in Rules
      BY <1>2
    <3>2. AuditTypeOK /\ BufferIsNumbered
      BY <1>3
    <3>3. ShiftedBuffer(order, answered)
      BY <1>1, <3>1, <3>2, BufferIsShifted
    <3> QED BY <3>3 DEF ShiftedBuffer
  <2>2. buffer' = Newest(records)
    BY <1>2
  <2> HIDE DEF records, dropped, m, n
  <2> QED BY <2>1, <2>2
<1>6. dropped = IF m + n <= BufferSize THEN 0 ELSE (m + n) - BufferSize
  BY <1>5
<1>7. overflowed' = (overflowed \/ \E i \in 1 .. (m + n) - BufferSize : records[i].sequence > lastSeq)
  BY <1>2, <1>5
<1> HIDE DEF records, dropped
<1>8. baseline' = <<answered>> /\ lastSeq' = lastSeq
  BY DEF Believes
<1>9. /\ baseline' \in {<<>>} \cup {<<b>> : b \in Rules} /\ changeSeq' \in 0 .. MaxReports
      /\ told' \in Rules /\ overflowed' \in BOOLEAN
  BY <1>2, <1>3, <1>4, <1>8 DEF AuditTypeOK
<1>10. DOMAIN buffer' = 1 .. Len(buffer') /\ Len(buffer') \in Nat /\ DOMAIN buffer = 1 .. m
  BY <1>3, <1>5 DEF AuditTypeOK
<1>11. ASSUME NEW i \in DOMAIN buffer'
       PROVE  /\ dropped + i \in 1 .. m + n /\ buffer'[i] = records[dropped + i]
              /\ buffer'[i].sequence = changeSeq' - Len(buffer') + i
  <2> DEFINE p == Len(buffer')
  <2>1. dropped \in Nat /\ p \in Nat /\ p = (m + n) - dropped /\ i \in 1 .. p
    <3>1. dropped \in Nat
      BY <1>3, <1>4, <1>6
    <3> QED BY <3>1, <1>5, <1>10, <1>11
  <2>2. dropped + i \in 1 .. m + n /\ buffer'[i] = records[dropped + i]
    <3>1. m \in Nat /\ n \in Nat
      BY <1>3, <1>4
    <3>2. buffer'[i] = records[dropped + i]
      BY <1>5, <2>1
    <3> HIDE DEF p, m, n
    <3>3. dropped + i \in 1 .. m + n
      BY <2>1, <3>1
    <3> QED BY <3>2, <3>3
  <2>3. records[dropped + i].sequence = changeSeq - m + (dropped + i)
    BY <1>5, <2>2
  <2> HIDE DEF p
  <2>4. changeSeq - m + (dropped + i) = (changeSeq + n) - p + i
    BY <1>3, <1>4, <2>1
  <2> QED BY <1>2, <2>2, <2>3, <2>4 DEF p
<1>12. BufferIsNumbered'
  BY <1>2, <1>3, <1>4, <1>8, <1>11 DEF BufferIsNumbered
<1>13. ToldOrBuffered'
  <2> SUFFICES ASSUME lastSeq >= 0, ~overflowed', NEW r \in Rule
               PROVE  NewestIsBelieved(r)'
    BY <1>8 DEF ToldOrBuffered
  <2> DEFINE about == About(buffer, Unfired, r)
             later == About(buffer', Unfired', r)
  <2>1. /\ about = {i \in 1 .. m : buffer[i].sequence > lastSeq /\ buffer[i].rule = r}
        /\ later = {i \in 1 .. Len(buffer') : buffer'[i].sequence > lastSeq /\ buffer'[i].rule = r}
    BY <1>8, <1>10 DEF About, Unfired
  <2> HIDE DEF about, later
  <2>2. ~overflowed /\ \A i \in 1 .. (m + n) - BufferSize : ~(records[i].sequence > lastSeq)
    BY <1>7
  <2>3. ASSUME NEW j \in 1 .. m + n, records[j].sequence > lastSeq, records[j].rule = r
        PROVE  j > dropped /\ j - dropped \in later
    <3>1. j > dropped
      BY <1>3, <1>4, <1>6, <2>2, <2>3
    <3>2. dropped \in Nat
      BY <1>3, <1>4, <1>6
    <3>3. j - dropped \in 1 .. Len(buffer')
      BY <1>3, <1>4, <1>5, <3>1, <3>2
    <3>4. buffer'[j - dropped] = records[j]
      <4>1. dropped + (j - dropped) = j
        BY <1>3, <1>4, <3>2
      <4> QED BY <1>5, <3>3, <4>1
    <3> QED BY <2>1, <2>3, <3>1, <3>3, <3>4
  <2>4. CASE baseline = <<>>
    <3>1. m = 0 /\ n = 0
      <4>1. S = {} /\ buffer = <<>>
        BY <1>3, <2>4 DEF S, BufferIsNumbered
      <4> QED BY <1>3, <1>4, <4>1
    <3>2. later = {}
      BY <1>5, <1>10, <2>1, <3>1, <1>6, <1>3
    <3>3. told'[r] = baseline'[1][r]
      BY <1>8, <2>4
    <3> QED BY <3>2, <3>3 DEF NewestIsBelieved, later
  <2>5. CASE baseline # <<>> /\ r \in S
    <3>1. PICK k \in 1 .. n : order[k] = r
      BY <1>4, <2>5
    <3>2. /\ m + k \in 1 .. m + n /\ m + k > m /\ (m + k) - m = k
          /\ changeSeq - m + (m + k) > lastSeq
      BY <1>3, <1>4
    <3>3. m + k > dropped /\ (m + k) - dropped \in later
      <4>1. records[m + k].sequence > lastSeq /\ records[m + k].rule = r
        <5> DEFINE j == m + k
        <5>1. j \in 1 .. m + n /\ j > m /\ order[j - m] = r /\ changeSeq - m + j > lastSeq
          BY <3>1, <3>2
        <5> HIDE DEF j
        <5>2. records[j].sequence = changeSeq - m + j /\ records[j].rule = order[j - m]
          BY <1>5, <5>1
        <5> QED BY <5>1, <5>2 DEF j
      <4> QED BY <2>3, <3>2, <4>1
    <3>4. ASSUME NEW i \in later, \A j \in later : j <= i
          PROVE  buffer'[i].now = baseline'[1][r]
      <4>1. i \in DOMAIN buffer' /\ buffer'[i].rule = r
        BY <1>10, <2>1
      <4>2. dropped + i \in 1 .. m + n /\ buffer'[i] = records[dropped + i]
        BY <1>11, <4>1
      <4>3. dropped + i > m
        <5>1. (m + k) - dropped <= i
          BY <3>3, <3>4
        <5>2. dropped \in Int /\ i \in Int /\ m + k > m
          BY <1>3, <1>4, <1>6, <1>10, <3>2, <4>1
        <5> QED BY <1>3, <3>2, <5>1, <5>2
      <4>4. records[dropped + i].rule = order[(dropped + i) - m]
            /\ records[dropped + i].now = answered[order[(dropped + i) - m]]
        BY <1>5, <4>2, <4>3
      <4> QED BY <1>8, <4>1, <4>2, <4>4
    <3> QED BY <3>3, <3>4 DEF NewestIsBelieved, later
  <2>6. CASE baseline # <<>> /\ r \notin S
    <3>1. /\ baseline[1][r] = answered[r] /\ baseline'[1] = answered /\ told' = told
          /\ NewestIsBelieved(r)
      BY <1>3, <1>8, <2>2, <2>6 DEF S, Differs, ToldOrBuffered
    <3>2. ASSUME NEW i \in later
          PROVE  dropped + i \in about /\ buffer'[i] = buffer[dropped + i]
      <4>1. i \in DOMAIN buffer' /\ buffer'[i].rule = r /\ buffer'[i].sequence > lastSeq
        BY <1>10, <2>1
      <4>2. dropped + i \in 1 .. m + n /\ buffer'[i] = records[dropped + i]
        BY <1>11, <4>1
      <4>3. dropped + i <= m
        <5>1. ASSUME dropped + i > m PROVE FALSE
          <6>1. order[(dropped + i) - m] = r
            BY <1>5, <4>1, <4>2, <5>1
          <6>2. (dropped + i) - m \in 1 .. n
            BY <1>3, <1>4, <4>2, <5>1
          <6> QED BY <1>4, <2>6, <6>1, <6>2
        <5> QED BY <5>1, <1>3, <1>4, <4>2
      <4>4. buffer'[i] = buffer[dropped + i] /\ dropped + i \in 1 .. m
        BY <1>3, <1>5, <4>2, <4>3
      <4> QED BY <2>1, <4>1, <4>4
    <3>3. ASSUME NEW j \in about PROVE j > dropped /\ j - dropped \in later
      <4>1. j \in 1 .. m /\ j \in 1 .. m + n /\ buffer[j].sequence > lastSeq /\ buffer[j].rule = r
        BY <1>3, <1>4, <2>1
      <4>2. records[j] = buffer[j]
        BY <1>5, <4>1
      <4> QED BY <2>3, <4>1, <4>2
    <3>4. later = {} => told'[r] = baseline'[1][r]
      <4>1. later = {} => about = {}
        BY <3>3
      <4> QED BY <3>1, <4>1 DEF NewestIsBelieved, about
    <3>5. ASSUME NEW i \in later, \A j \in later : j <= i
          PROVE  buffer'[i].now = baseline'[1][r]
      <4>1. dropped + i \in about /\ buffer'[i] = buffer[dropped + i]
        BY <3>2
      <4>2. ASSUME NEW j \in about PROVE j <= dropped + i
        <5>1. j - dropped \in later /\ j - dropped <= i
          BY <3>3, <3>5
        <5>2. j \in Int /\ i \in Int /\ dropped \in Int
          BY <1>3, <1>4, <1>6, <2>1, <1>10
        <5> QED BY <5>1, <5>2
      <4>3. buffer[dropped + i].now = baseline[1][r]
        BY <3>1, <4>1, <4>2 DEF NewestIsBelieved, about
      <4> QED BY <3>1, <4>1, <4>3
    <3> QED BY <3>4, <3>5 DEF NewestIsBelieved, later
  <2> QED BY <2>4, <2>5, <2>6
<1> QED BY <1>5, <1>9, <1>12, <1>13

LEMMA AuditInitially == AuditInit => AuditInv
<1> SUFFICES ASSUME AuditInit PROVE AuditInv
  OBVIOUS
<1>1. NoRules \in Rules
  BY DEF NoRules, Rules
<1>2. AuditTypeOK
  <2>1. snapshot \in [Refresh -> [phase : {"idle", "reading", "held"}, read : Rules,
                                  outcome : {"ok", "failed", "unsupported"}]]
    BY <1>1 DEF AuditInit, NotReading
  <2>2. buffer \in Seq(Change) /\ Len(buffer) <= BufferSize
    BY RuleAuditAssumption DEF AuditInit
  <2>3. MaxEdits \in Nat /\ MaxEmptyAnswers \in Nat /\ MaxReports \in Nat
    BY RuleAuditAssumption
  <2>4. /\ changeSeq \in 0 .. MaxReports /\ lastSeq \in -1 .. MaxReports
        /\ edits \in 0 .. MaxEdits /\ emptyAnswers \in 0 .. MaxEmptyAnswers
    BY <2>3 DEF AuditInit
  <2> QED BY <1>1, <2>1, <2>2, <2>4 DEF AuditTypeOK, AuditInit
<1>3. BufferIsNumbered /\ ToldOrBuffered
  BY DEF AuditInit, BufferIsNumbered, ToldOrBuffered
<1> QED BY <1>2, <1>3 DEF AuditInv

(* The tracker's and the entity's part of the state.                       *)
trackedVars == <<baseline, changeSeq, buffer, lastSeq, told, overflowed>>

LEMMA TrackedUntouched ==
  ASSUME AuditInv, AuditTypeOK', UNCHANGED trackedVars PROVE AuditInv'
BY DEF AuditInv, trackedVars, BufferIsNumbered, ToldOrBuffered, NewestIsBelieved, About, Unfired

LEMMA AuditStep == AuditInv /\ [AuditNext]_auditVars => AuditInv'
<1> SUFFICES ASSUME AuditInv, [AuditNext]_auditVars PROVE AuditInv'
  OBVIOUS
<1> DEFINE HeldAnswer == [phase : {"idle", "reading", "held"}, read : Rules,
                    outcome : {"ok", "failed", "unsupported"}]
<1>1. /\ AuditTypeOK /\ BufferIsNumbered /\ ToldOrBuffered
      /\ NoRules \in Rules /\ NotReading \in HeldAnswer
      /\ snapshot \in [Refresh -> HeldAnswer]
  BY DEF AuditInv, AuditTypeOK, NoRules, NotReading, Rules
<1>2. ASSUME NEW r \in Rule, NEW content \in Content \cup {NoRule}, Edit(r, content) PROVE AuditInv'
  <2>1. consoleRules' \in Rules
    BY <1>1, <1>2 DEF Edit, AuditTypeOK, Rules
  <2>2. AuditTypeOK'
    BY <1>1, <1>2, <2>1, RuleAuditAssumption DEF Edit, AuditTypeOK
  <2> QED BY <1>2, <2>2, TrackedUntouched DEF Edit, trackedVars
<1>3. ASSUME NEW t \in Refresh, RefreshStarts(t) PROVE AuditInv'
  <2>1. snapshot' \in [Refresh -> HeldAnswer]
    <3>1. snapshot[t] \in HeldAnswer
      BY <1>1
    <3>2. [snapshot[t] EXCEPT !.phase = "reading"] \in HeldAnswer
      BY <3>1
    <3> HIDE DEF HeldAnswer
    <3> QED BY <1>1, <1>3, <3>2 DEF RefreshStarts
  <2>2. AuditTypeOK'
    BY <1>1, <1>3, <2>1 DEF RefreshStarts, AuditTypeOK
  <2> QED BY <1>3, <2>2, TrackedUntouched DEF RefreshStarts, trackedVars
<1>4. ASSUME NEW t \in Refresh, RefreshReads(t) PROVE AuditInv'
  <2>1. PICK read \in Rules, outcome \in {"ok", "failed", "unsupported"} : ReadsRules(t, read, outcome)
    BY <1>1, <1>4 DEF RefreshReads, AuditTypeOK
  <2>2. snapshot' \in [Refresh -> HeldAnswer]
    <3>1. [phase |-> "held", read |-> read, outcome |-> outcome] \in HeldAnswer
      OBVIOUS
    <3> HIDE DEF HeldAnswer
    <3> QED BY <1>1, <2>1, <3>1 DEF ReadsRules
  <2>3. emptyAnswers' \in 0 .. MaxEmptyAnswers
    BY <1>1, <1>4, RuleAuditAssumption DEF RefreshReads, AuditTypeOK
  <2>4. AuditTypeOK'
    BY <1>1, <1>4, <2>2, <2>3 DEF RefreshReads, AuditTypeOK
  <2> QED BY <1>4, <2>4, TrackedUntouched DEF RefreshReads, trackedVars
<1>5. ASSUME NEW t \in Refresh, RefreshAborts(t) PROVE AuditInv'
  <2>1. snapshot' \in [Refresh -> HeldAnswer]
    <3> HIDE DEF HeldAnswer
    <3> QED BY <1>1, <1>5 DEF RefreshAborts
  <2>2. AuditTypeOK'
    BY <1>1, <1>5, <2>1 DEF RefreshAborts, AuditTypeOK
  <2> QED BY <1>5, <2>2, TrackedUntouched DEF RefreshAborts, trackedVars
<1>6. ASSUME NEW t \in Refresh, Process(t) PROVE AuditInv'
  <2> DEFINE answered == snapshot[t].read
  <2>1. snapshot' \in [Refresh -> HeldAnswer]
    <3> HIDE DEF HeldAnswer
    <3> QED BY <1>1, <1>6 DEF Process
  <2>2. answered \in Rules
    BY <1>1
  <2>3. CASE UNCHANGED <<baseline, changeSeq, buffer, told, overflowed>> /\ pendingEmpty' \in BOOLEAN
    <3>1. AuditTypeOK'
      BY <1>1, <1>6, <2>1, <2>3 DEF Process, AuditTypeOK
    <3> QED BY <1>6, <2>3, <3>1, TrackedUntouched DEF Process, trackedVars
  <2>4. CASE Believes(answered) /\ told' = IF baseline = <<>> THEN answered ELSE told
    <3>1. UNCHANGED lastSeq
      BY <1>6 DEF Process
    <3>2. /\ baseline' \in {<<>>} \cup {<<b>> : b \in Rules} /\ changeSeq' \in 0 .. MaxReports
          /\ buffer' \in Seq(Change) /\ Len(buffer') <= BufferSize
          /\ told' \in Rules /\ overflowed' \in BOOLEAN
          /\ BufferIsNumbered' /\ ToldOrBuffered'
      <4> HIDE DEF answered
      <4> QED BY <2>2, <2>4, <3>1, BelievedIsBuffered
    <3>3. AuditTypeOK'
      <4>1. pendingEmpty' \in BOOLEAN
        BY <2>4 DEF Believes
      <4> QED BY <1>1, <1>6, <2>1, <3>2, <4>1 DEF Process, AuditTypeOK
    <3> QED BY <3>2, <3>3 DEF AuditInv
  <2>5. pendingEmpty \in BOOLEAN
    BY <1>1 DEF AuditTypeOK
  <2> QED BY <1>6, <2>3, <2>4, <2>5 DEF Process
<1>7. ASSUME NEW t \in Refresh, SiteLeaves(t) PROVE AuditInv'
  <2>1. snapshot' \in [Refresh -> HeldAnswer]
    <3> HIDE DEF HeldAnswer
    <3> QED BY <1>1, <1>7 DEF SiteLeaves
  <2>2. buffer' \in Seq(Change) /\ Len(buffer') <= BufferSize
    BY <1>7, RuleAuditAssumption DEF SiteLeaves
  <2>3. AuditTypeOK'
    BY <1>1, <1>7, <2>1, <2>2 DEF SiteLeaves, AuditTypeOK
  <2>4. BufferIsNumbered' /\ ToldOrBuffered'
    BY <1>1, <1>7 DEF SiteLeaves, BufferIsNumbered, ToldOrBuffered
  <2> QED BY <2>3, <2>4 DEF AuditInv
<1>8. /\ Len(buffer) \in Nat /\ DOMAIN buffer = 1 .. Len(buffer) /\ changeSeq \in 0 .. MaxReports
      /\ MaxReports \in Nat
      /\ \A i \in 1 .. Len(buffer) : buffer[i].sequence = changeSeq - Len(buffer) + i
      /\ buffer # <<>> => LastOf(buffer) = changeSeq
      /\ LastOf(buffer) \in 0 .. changeSeq
      /\ \A i \in DOMAIN buffer : ~(buffer[i].sequence > LastOf(buffer))
  <2>1. /\ Len(buffer) \in Nat /\ DOMAIN buffer = 1 .. Len(buffer) /\ changeSeq \in 0 .. MaxReports
        /\ MaxReports \in Nat
        /\ buffer # <<>> => Len(buffer) >= 1
    BY <1>1, RuleAuditAssumption DEF AuditTypeOK
  <2>2. \A i \in 1 .. Len(buffer) : buffer[i].sequence = changeSeq - Len(buffer) + i
    BY <1>1, <2>1 DEF BufferIsNumbered
  <2>3. buffer # <<>> => LastOf(buffer) = changeSeq
    BY <2>1, <2>2 DEF LastOf
  <2>4. buffer = <<>> => LastOf(buffer) = 0 /\ DOMAIN buffer = {}
    BY DEF LastOf
  <2>5. LastOf(buffer) \in 0 .. changeSeq
    BY <2>1, <2>3, <2>4
  <2>6. ASSUME NEW i \in DOMAIN buffer PROVE ~(buffer[i].sequence > LastOf(buffer))
    BY <2>1, <2>2, <2>3, <2>4
  <2> QED BY <2>1, <2>2, <2>3, <2>5, <2>6
<1>9. ASSUME EntityAdded PROVE AuditInv'
  <2>1. told' \in Rules
    BY <1>1, <1>9 DEF EntityAdded, AuditTypeOK
  <2>2. lastSeq' \in -1 .. MaxReports /\ lastSeq' <= changeSeq
    BY <1>8, <1>9 DEF EntityAdded
  <2>3. AuditTypeOK'
    BY <1>1, <1>9, <2>1, <2>2 DEF EntityAdded, AuditTypeOK
  <2>4. BufferIsNumbered'
    BY <1>1, <1>9, <2>2 DEF EntityAdded, BufferIsNumbered
  <2>5. Unfired' = {}
    BY <1>8, <1>9 DEF EntityAdded, Unfired
  <2>6. ToldOrBuffered'
    BY <1>9, <2>5 DEF EntityAdded, ToldOrBuffered, NewestIsBelieved, About
  <2> QED BY <2>3, <2>4, <2>6 DEF AuditInv
<1>10. ASSUME EntityFires PROVE AuditInv'
  <2>1. /\ lastSeq >= 0 /\ buffer # <<>> /\ lastSeq' = LastOf(buffer)
        /\ told' = After(told, buffer, Unfired)
        /\ UNCHANGED <<consoleRules, snapshot, baseline, pendingEmpty, changeSeq, buffer, edits,
                       emptyAnswers, overflowed>>
    BY <1>10 DEF EntityFires, News, Unfired
  <2>2. told' \in Rules
    <3>1. ASSUME NEW r \in Rule, About(buffer, Unfired, r) # {}
          PROVE  buffer[CHOOSE i \in About(buffer, Unfired, r) :
                          \A j \in About(buffer, Unfired, r) : j <= i].now \in Content \cup {NoRule}
      <4> DEFINE last == CHOOSE i \in About(buffer, Unfired, r) : \A j \in About(buffer, Unfired, r) : j <= i
      <4>1. last \in About(buffer, Unfired, r)
        BY <1>1, <3>1, NewestIsChosen DEF Unfired
      <4>2. last \in 1 .. Len(buffer)
        BY <4>1, <1>8 DEF About, Unfired
      <4> HIDE DEF last
      <4>3. buffer[last] \in Change
        BY <4>2, <1>1 DEF AuditTypeOK
      <4>4. buffer[last].now \in Content \cup {NoRule}
        BY <4>3 DEF Change
      <4> QED BY <4>4 DEF last
    <3>2. told \in Rules
      BY <1>1 DEF AuditTypeOK
    <3> QED BY <2>1, <3>1, <3>2 DEF After, Rules
  <2>3. lastSeq' \in -1 .. MaxReports /\ lastSeq' <= changeSeq
    BY <1>8, <2>1
  <2>4. AuditTypeOK'
    BY <1>1, <2>1, <2>2, <2>3 DEF AuditTypeOK
  <2>5. BufferIsNumbered'
    BY <1>1, <2>1, <2>3 DEF BufferIsNumbered
  <2>6. Unfired' = {}
    BY <1>8, <2>1 DEF Unfired
  <2>7. baseline # <<>> /\ ~overflowed => told' = baseline[1]
    BY <2>1, FiringCatchesUp
  <2>8. ToldOrBuffered'
    BY <2>1, <2>6, <2>7 DEF ToldOrBuffered, NewestIsBelieved, About
  <2> QED BY <2>4, <2>5, <2>8 DEF AuditInv
<1>11. CASE UNCHANGED auditVars
  <2>1. AuditTypeOK'
    BY <1>1, <1>11 DEF auditVars, AuditTypeOK
  <2> QED BY <1>11, <2>1, TrackedUntouched DEF auditVars, trackedVars
<1> QED BY <1>2, <1>3, <1>4, <1>5, <1>6, <1>7, <1>9, <1>10, <1>11 DEF AuditNext

(* The events fired and those the buffer still holds lead a listener from  *)
(* the rules of the first answer to those of the last one the tracker      *)
(* believed, whatever fetches fail, answer nothing or overlap: for any     *)
(* rules, refreshes and size of the buffer.                                *)
THEOREM EventsReplay == AuditSpec => []EventsReplayTheRules
<1>1. AuditInv => EventsReplayTheRules
  BY FiringCatchesUp DEF EventsReplayTheRules, Unfired
<1> QED BY <1>1, AuditInitially, AuditStep, PTL DEF AuditSpec

=============================================================================
