------------------------- MODULE FamilyCache_proofs -------------------------
(***************************************************************************)
(* Proofs about FamilyCache for any devices, limits and faults: the types, *)
(* and the three promises about removal. No device is removed unless an    *)
(* answer lacked it; none before its grace window is over; and while all   *)
(* answers are whole, none before more answers lacked it than the window   *)
(* has polls.                                                              *)
(***************************************************************************)
EXTENDS FamilyCache, TLAPS

(* A count stays a count up to Enough; bumping and clearing it.            *)
LEMMA Counts ==
  ASSUME NEW count \in [Device -> 0 .. Enough], NEW devices
  PROVE  /\ Bump(count, devices) \in [Device -> 0 .. Enough]
         /\ Clear(count, devices) \in [Device -> 0 .. Enough]
         /\ \A d \in Device : d \in devices =>
              \/ Bump(count, devices)[d] = count[d] + 1
              \/ Bump(count, devices)[d] = Enough
         /\ \A d \in Device : d \notin devices => Bump(count, devices)[d] = count[d]
         /\ \A d \in Device : d \notin devices => Clear(count, devices)[d] = count[d]
         /\ Enough = MaxMissingPolls + 1 /\ Enough \in Nat
  BY FamilyAssumption DEF Bump, Clear, Enough

(* A device remembered by the clean-up but no longer cached was lacking in *)
(* an answer: the reason why removal has evidence.                         *)
MissingWasLacked == \A d \in previous \ cache : lackedBy[d] > 0

(* The code's count of missing polls never runs ahead of the polls that    *)
(* completed without the device.                                           *)
CountIsHonest == \A d \in Device : missing[d] <= absent[d]

(* While no answer was silent, every counted poll had an answer lacking    *)
(* the device, and the poll about to complete has one too.                 *)
CountHasEvidence ==
  silent = {} =>
    \A d \in Device :
      /\ missing[d] <= lackedBy[d]
      /\ poll = "read" /\ d \notin cache => missing[d] < lackedBy[d]

Inv == TypeOK /\ MissingWasLacked /\ CountIsHonest /\ CountHasEvidence

-----------------------------------------------------------------------------
(* What any answer or error leaves behind: types, evidence about a device  *)
(* that the cache lost, and evidence about every device not in the cache   *)
(* unless the answer was silent.                                           *)
AnswerOK ==
  /\ cache' \in SUBSET Device
  /\ emptyFetches' \in 0 .. MaxEmptyFetches
  /\ fetchErrors' \in Nat
  /\ lackedBy' \in [Device -> 0 .. Enough]
  /\ silent' \subseteq {"error", "partial"}
  /\ \A d \in Device : lackedBy'[d] >= lackedBy[d]
  /\ \A d \in previous \ cache' : lackedBy'[d] > 0
  /\ silent' = {} => /\ silent = {}
                     /\ \A d \in Device \ cache' :
                          lackedBy'[d] = lackedBy[d] + 1 \/ lackedBy'[d] = Enough

LEMMA WholeAnswer ==
  ASSUME Inv, NEW items \in SUBSET Device, Whole(items)
  PROVE  AnswerOK
<1>0. TypeOK
  BY DEF Inv
<1>1. /\ cache' \in {items, cache, {}}
      /\ items # {} => cache' = items
      /\ emptyFetches' \in 0 .. MaxEmptyFetches
  BY <1>0, FamilyAssumption DEF TypeOK, Whole, Replace, Empty, NothingToKeep, KeepOverEmpty, GiveUp
<1>2. lackedBy \in [Device -> 0 .. Enough]
  BY <1>0 DEF TypeOK
<1>3. lackedBy' = Bump(lackedBy, Device \ items) /\ silent' = silent /\ fetchErrors' = 0
  BY DEF Whole, Says
<1>4. /\ lackedBy' \in [Device -> 0 .. Enough]
      /\ \A d \in Device : d \notin items =>
           lackedBy'[d] = lackedBy[d] + 1 \/ lackedBy'[d] = Enough
      /\ \A d \in Device : d \in items => lackedBy'[d] = lackedBy[d]
      /\ Enough \in Nat /\ Enough > 0
  BY <1>2, <1>3, Counts, FamilyAssumption
<1>5. \A d \in Device : lackedBy'[d] >= lackedBy[d]
  BY <1>2, <1>4
<1>6. \A d \in Device \ cache' : d \notin items
  BY <1>1
<1>7. \A d \in previous \ cache' : d \in Device /\ lackedBy'[d] > 0
  BY <1>0, <1>2, <1>4, <1>6 DEF TypeOK
<1> QED BY <1>0, <1>1, <1>3, <1>4, <1>5, <1>6, <1>7 DEF TypeOK, AnswerOK

LEMMA PartialAnswer ==
  ASSUME Inv, NEW items \in SUBSET Device, Partial(items)
  PROVE  AnswerOK
<1>0. TypeOK
  BY DEF Inv
<1>1. /\ cache' = cache \cup items /\ emptyFetches' = 0 /\ fetchErrors' = 0
      /\ lackedBy' = lackedBy /\ silent' = silent \cup {"partial"}
  BY DEF Partial, Merge, SaysNothing
<1>2. \A d \in previous \ cache' : d \in previous \ cache
  BY <1>1
<1> QED BY <1>0, <1>1, <1>2, FamilyAssumption DEF Inv, TypeOK, MissingWasLacked, AnswerOK

LEMMA NotFoundAnswer ==
  ASSUME NotFound
  PROVE  Whole({})
  BY DEF NotFound, Whole

LEMMA AbsorbedError ==
  ASSUME Inv, Absorbed
  PROVE  AnswerOK
<1>1. cache' = cache /\ lackedBy' = lackedBy /\ silent' = silent \cup {"error"}
  BY DEF Absorbed, SaysNothing
<1>2. emptyFetches' \in 0 .. MaxEmptyFetches /\ fetchErrors' \in Nat
  BY FamilyAssumption DEF Inv, TypeOK, Absorbed
<1> QED BY <1>1, <1>2 DEF Inv, TypeOK, MissingWasLacked, AnswerOK

LEMMA AnyAnswer ==
  ASSUME Inv, GoodAnswer \/ BadAnswer
  PROVE  AnswerOK /\ faults' \in 0 .. MaxFaults
<1>1. faults' \in 0 .. MaxFaults
  BY FamilyAssumption DEF Inv, TypeOK, GoodAnswer, BadAnswer
<1>2. adopted \in SUBSET Device
  BY DEF Inv, TypeOK
<1>3. (\E items \in SUBSET Device : Whole(items) \/ Partial(items)) \/ Absorbed
  <2>1. CASE GoodAnswer
    BY <2>1, <1>2 DEF GoodAnswer
  <2>2. CASE BadAnswer
    <3>1. CASE NotFound
      BY <3>1, NotFoundAnswer
    <3>2. CASE \E items \in (SUBSET adopted) \ {adopted} : Whole(items) \/ Partial(items)
      BY <3>2, <1>2
    <3> QED BY <2>2, <3>1, <3>2 DEF BadAnswer
  <2> QED BY <2>1, <2>2
<1> QED BY <1>1, <1>3, WholeAnswer, PartialAnswer, AbsorbedError

(* The clean-up: one more absent poll for what the cache lacks.            *)
LEMMA CleanUp ==
  ASSUME Inv, PollCompletes
  PROVE  Inv'
<1>0. TypeOK
  BY DEF Inv
<1>1. Gone \subseteq previous \ cache /\ Pending \subseteq previous \ cache
  BY DEF Gone, Pending
<1>2. \A d \in Pending : d \in Device /\ missing[d] + 1 \in 0 .. MaxMissingPolls
  BY <1>0, FamilyAssumption DEF Gone, Pending, TypeOK
<1>3. /\ missing' \in [Device -> 0 .. MaxMissingPolls]
      /\ \A d \in Device : missing'[d] = IF d \in Pending THEN missing[d] + 1 ELSE 0
  BY <1>2, FamilyAssumption DEF PollCompletes, NextMissing
<1>4. /\ previous' \in SUBSET Device /\ registry' \in SUBSET Device
      /\ known' \in SUBSET Device /\ counted' \in SUBSET Device
  BY <1>0, <1>1 DEF PollCompletes, NextPrevious, TypeOK
<1>5. previous' \ cache' \subseteq previous \ cache
  BY <1>1 DEF PollCompletes, NextPrevious
<1> DEFINE bumped == Bump(absent, Device)
<1>6. /\ bumped \in [Device -> 0 .. Enough]
      /\ \A d \in Device : bumped[d] = absent[d] + 1 \/ bumped[d] = Enough
      /\ Enough = MaxMissingPolls + 1
  BY <1>0, Counts DEF TypeOK
<1>7. /\ absent' \in [Device -> 0 .. Enough]
      /\ \A d \in Device : d \notin cache => absent'[d] = bumped[d]
  <2> HIDE DEF bumped
  <2> QED BY <1>6, Counts DEF PollCompletes, bumped
<1>8. /\ lackedBy' \in [Device -> 0 .. Enough]
      /\ \A d \in Device : d \notin cache => lackedBy'[d] = lackedBy[d]
  BY <1>0, Counts DEF PollCompletes, TypeOK
<1>9. TypeOK'
  BY <1>0, <1>3, <1>4, <1>7, <1>8 DEF PollCompletes, TypeOK, bounds
<1>10. MissingWasLacked'
  <2>1. cache' = cache
    BY DEF PollCompletes
  <2> QED BY <1>0, <1>5, <1>8, <2>1 DEF Inv, MissingWasLacked, TypeOK
<1>11. CountIsHonest'
  <2> SUFFICES ASSUME NEW d \in Device PROVE missing'[d] <= absent'[d]
    BY DEF CountIsHonest
  <2>1. CASE d \in Pending
    <3> HIDE DEF bumped
    <3>1. absent'[d] = bumped[d] /\ missing'[d] = missing[d] + 1
      BY <2>1, <1>1, <1>3, <1>7
    <3>2. missing[d] <= absent[d] /\ missing[d] + 1 <= MaxMissingPolls
      BY <2>1, <1>2 DEF Inv, CountIsHonest
    <3> QED BY <3>1, <3>2, <1>0, <1>6, FamilyAssumption DEF TypeOK
  <2>2. CASE d \notin Pending
    BY <2>2, <1>3, <1>7
  <2> QED BY <2>1, <2>2
<1>12. CountHasEvidence'
  <2> SUFFICES ASSUME silent = {}, NEW d \in Device PROVE missing'[d] <= lackedBy'[d]
    BY DEF CountHasEvidence, PollCompletes
  <2>1. CASE d \in Pending
    <3>1. missing'[d] = missing[d] + 1 /\ lackedBy'[d] = lackedBy[d] /\ missing[d] < lackedBy[d]
      BY <2>1, <1>1, <1>3, <1>8 DEF Inv, CountHasEvidence, PollCompletes
    <3> QED BY <3>1, <1>0 DEF TypeOK
  <2>2. CASE d \notin Pending
    BY <2>2, <1>3, <1>8
  <2> QED BY <2>1, <2>2
<1> QED BY <1>9, <1>10, <1>11, <1>12 DEF Inv

(* A read, of the poll or of the timer.                                    *)
LEMMA Read ==
  ASSUME Inv, PollReads \/ TimerReads \/ PollEscalates
  PROVE  Inv'
<1>0. TypeOK
  BY DEF Inv
<1>1. /\ family' = family /\ adopted' = adopted /\ previous' = previous
      /\ missing' = missing /\ changes' = changes /\ reloads' = reloads
      /\ absent' = absent /\ counted' = counted
  BY DEF PollReads, TimerReads, PollEscalates
<1>2. CASE BadError /\ ~PollReads
  <2>1. /\ cache' = cache /\ lackedBy' = lackedBy /\ silent' = silent
        /\ emptyFetches' = emptyFetches /\ fetchErrors' = fetchErrors + 1
        /\ faults' \in 0 .. MaxFaults
    BY <1>0, <1>2, FamilyAssumption DEF BadError, Escalated, TypeOK
  <2>2. poll' \in {"idle", poll}
    BY <1>2 DEF TimerReads, PollEscalates
  <2> HIDE DEF BadError
  <2>3. registry' \in SUBSET Device /\ known' \in SUBSET Device
    BY <1>0, <2>1 DEF PollReads, TimerReads, PollEscalates, Discover, TypeOK
  <2>4. poll' \in {"idle", "reading", "read"}
    BY <1>0 DEF PollReads, TimerReads, PollEscalates, TypeOK
  <2>5. TypeOK'
    BY <1>0, <1>1, <2>1, <2>3, <2>4 DEF TypeOK
  <2> QED BY <1>0, <1>1, <2>1, <2>2, <2>5
          DEF Inv, MissingWasLacked, CountIsHonest, CountHasEvidence
<1>3. CASE GoodAnswer \/ BadAnswer
  <2>1. AnswerOK /\ faults' \in 0 .. MaxFaults
    BY <1>3, AnyAnswer
  <2>3. registry' \in SUBSET Device /\ known' \in SUBSET Device
    BY <1>0, <2>1 DEF PollReads, TimerReads, PollEscalates, Discover, TypeOK, AnswerOK
  <2>4. poll' \in {"idle", "reading", "read"}
    BY <1>0 DEF PollReads, TimerReads, PollEscalates, TypeOK
  <2>5. TypeOK'
    BY <1>0, <1>1, <2>1, <2>3, <2>4 DEF TypeOK, AnswerOK
  <2>6. MissingWasLacked' /\ CountIsHonest'
    BY <1>1, <2>1 DEF Inv, MissingWasLacked, CountIsHonest, AnswerOK
  <2>7. CountHasEvidence'
    <3> SUFFICES ASSUME silent' = {}, NEW d \in Device
                 PROVE  /\ missing[d] <= lackedBy'[d]
                        /\ d \notin cache' => missing[d] < lackedBy'[d]
      BY <1>1 DEF CountHasEvidence
    <3>1. missing[d] <= lackedBy[d] /\ lackedBy[d] <= lackedBy'[d]
      BY <2>1 DEF AnswerOK, Inv, CountHasEvidence
    <3>2. d \notin cache' => lackedBy'[d] = lackedBy[d] + 1 \/ lackedBy'[d] = Enough
      BY <2>1 DEF AnswerOK
    <3>3. /\ missing[d] \in 0 .. MaxMissingPolls /\ lackedBy[d] \in Nat /\ lackedBy'[d] \in Nat
          /\ Enough = MaxMissingPolls + 1 /\ MaxMissingPolls \in Nat
      BY <1>0, <2>5, FamilyAssumption DEF TypeOK, Enough
    <3> QED BY <3>1, <3>2, <3>3
  <2> QED BY <2>5, <2>6, <2>7 DEF Inv
<1>4. GoodAnswer \/ BadAnswer \/ (BadError /\ ~PollReads)
  BY DEF PollReads, TimerReads, PollEscalates
<1> QED BY <1>2, <1>3, <1>4

-----------------------------------------------------------------------------
LEMMA InvHolds == Spec => []Inv
<1>1. Init => Inv
  BY FamilyAssumption DEF Init, Inv, TypeOK, MissingWasLacked, CountIsHonest,
                          CountHasEvidence, Zero, Enough
<1>2. Inv /\ [Next]_vars => Inv'
  <2> SUFFICES ASSUME Inv, [Next]_vars
               PROVE  Inv'
    OBVIOUS
  <2> USE DEF Inv, MissingWasLacked, CountIsHonest, CountHasEvidence
  <2>1. CASE \E d \in Device : ConsoleChange(d)
    BY <2>1, FamilyAssumption DEF ConsoleChange, TypeOK, tracking, history
  <2>2. CASE \E d \in Device : DeviceFrame(d)
    BY <2>2 DEF DeviceFrame, Discover, TypeOK, tracking, history, bounds
  <2>3. CASE StartPoll
    BY <2>3 DEF StartPoll, TypeOK, tracking, history, bounds
  <2>4. CASE PollReads \/ PollEscalates \/ TimerReads
    BY <2>4, Read
  <2>5. CASE PollFailsElsewhere
    BY <2>5, FamilyAssumption
    DEF PollFailsElsewhere, Discover, TypeOK, tracking, history
  <2>6. CASE PollCompletes
    BY <2>6, CleanUp
  <2>7. CASE Reload
    BY <2>7, FamilyAssumption DEF Reload, TypeOK, Zero, history
  <2>8. CASE UNCHANGED vars
    BY <2>8 DEF vars, TypeOK, tracking, history, bounds
  <2> QED BY <2>1, <2>2, <2>3, <2>4, <2>5, <2>6, <2>7, <2>8 DEF Next
<1> QED BY <1>1, <1>2, PTL DEF Spec

(* Every variable keeps its type, however many devices and faults.         *)
THEOREM TypeCorrect == Spec => []TypeOK
<1>1. Inv => TypeOK
  BY DEF Inv
<1> QED BY <1>1, InvHolds, PTL

(* Only a completed poll removes a device, and only one that is gone.      *)
LEMMA OnlyTheCleanUpRemoves ==
  ASSUME Next, NEW d \in Device, Removed(d)
  PROVE  PollCompletes /\ d \in previous \ cache /\ missing[d] >= MaxMissingPolls
<1>1. CASE PollCompletes
  BY <1>1 DEF PollCompletes, Removed, Gone
<1>2. CASE ~PollCompletes
  <2>1. registry \subseteq registry'
    BY <1>2 DEF Next, ConsoleChange, DeviceFrame, StartPoll, PollReads, PollEscalates,
                PollFailsElsewhere, TimerReads, Reload, Discover
  <2> QED BY <2>1 DEF Removed
<1> QED BY <1>1, <1>2

(* Errors, partial and empty answers, frames and reloads alone never get a *)
(* device removed: some answer lacked it since a poll completed with it.   *)
THEOREM RemovalHasAnAnswer == Spec => NoRemovalWithoutAnAnswer
<1> DEFINE Step == \A d \in Device : Removed(d) => lackedBy[d] > 0
<1>1. Inv /\ [Next]_vars => [Step]_vars
  BY OnlyTheCleanUpRemoves DEF Inv, MissingWasLacked
<1> QED BY <1>1, InvHolds, PTL DEF Spec, NoRemovalWithoutAnAnswer

(* No device is removed before as many polls completed without it, in a    *)
(* row, as its grace window has.                                           *)
THEOREM GraceIsKept == Spec => RemovedOnlyAfterGrace
<1> DEFINE Step == \A d \in Device : Removed(d) => absent[d] >= MaxMissingPolls
<1>1. Inv /\ [Next]_vars => [Step]_vars
  <2> SUFFICES ASSUME Inv, Next, NEW d \in Device, Removed(d)
               PROVE  absent[d] >= MaxMissingPolls
    OBVIOUS
  <2>1. missing[d] >= MaxMissingPolls /\ missing[d] <= absent[d]
    BY OnlyTheCleanUpRemoves DEF Inv, CountIsHonest
  <2> QED BY <2>1, FamilyAssumption DEF Inv, TypeOK, Enough
<1> QED BY <1>1, InvHolds, PTL DEF Spec, RemovedOnlyAfterGrace

(* While every answer is whole, a removed device was lacking in more       *)
(* answers than the grace window has polls.                                *)
THEOREM EvictionHasEvidence == Spec => EvictionNeedsEvidence
<1> DEFINE Step == \A d \in Device :
                     Removed(d) /\ silent = {} => lackedBy[d] > MaxMissingPolls
<1>1. Inv /\ [Next]_vars => [Step]_vars
  <2> SUFFICES ASSUME Inv, Next, NEW d \in Device, Removed(d), silent = {}
               PROVE  lackedBy[d] > MaxMissingPolls
    OBVIOUS
  <2>1. poll = "read" /\ d \notin cache /\ missing[d] >= MaxMissingPolls
    BY OnlyTheCleanUpRemoves DEF PollCompletes
  <2>2. missing[d] < lackedBy[d]
    BY <2>1 DEF Inv, CountHasEvidence
  <2> QED BY <2>1, <2>2, FamilyAssumption DEF Inv, TypeOK, Enough
<1> QED BY <1>1, InvHolds, PTL DEF Spec, EvictionNeedsEvidence

(* What a removal needs, for any devices, limits, faults and reloads.      *)
THEOREM RemovalsEarned == Spec => RemovalsAreEarned
  BY RemovalHasAnAnswer, GraceIsKept, EvictionHasEvidence DEF RemovalsAreEarned

=============================================================================
