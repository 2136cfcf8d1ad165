---------------------- MODULE SensorPreservation_proofs ----------------------
(***************************************************************************)
(* What SensorPreservation guarantees for any groups, caps and bounds.     *)
(*                                                                         *)
(* Two inductive invariants carry the results. CapInv ties the history     *)
(* heldBack to the two counters the code keeps. OrderInv says that the     *)
(* cache and the answers never run ahead of the console, so that a cache   *)
(* ahead of an answer can only come from a frame that followed the stamp.  *)
(***************************************************************************)
EXTENDS SensorPreservation, TLAPS

CapInv ==
  /\ TypeOK
  /\ \A g \in Group \ {Door} : heldBack[g] <= wsPolls[g]
  /\ heldBack[Door] <= tsPolls * (MaxWsRecencyPreservePolls + 1) + wsPolls[Door]

OrderInv ==
  /\ TypeOK
  /\ request.at <= now
  /\ \A g \in Group : /\ cache[g] <= reported[g]
                      /\ request.state[g] <= reported[g]
                      /\ streamed[g] <= reported[g]
  /\ StaleAnswerIsRecognised

-----------------------------------------------------------------------------
LEMMA InitTypeOK == Init => TypeOK
  BY SensorAssumption DEF Init, TypeOK, Request, Never, NoTs

(* A frame leaves the counters alone and keeps every type.                 *)
LEMMA FrameTypeOK == TypeOK /\ DeviceFrame => TypeOK'
<1> SUFFICES ASSUME TypeOK, DeviceFrame PROVE TypeOK'
  OBVIOUS
<1> USE SensorAssumption DEF TypeOK, Request, Never, NoTs
<1>1. PICK carried \in (SUBSET Group) \ {{}}, change \in [Group -> 0 .. MaxChanges],
           fields \in {{"state"}, {"state", "ts"}, {"ts"}} :
        /\ streamed' = change
        /\ cache' = [g \in Group |->
                       IF g \in carried /\ (g = Door => "state" \in fields)
                       THEN change[g] ELSE cache[g]]
        /\ doorTs' = IF Door \in carried /\ "ts" \in fields THEN change[Door] ELSE doorTs
        /\ wsSeen' = [g \in Group |-> IF g \in carried THEN now ELSE wsSeen[g]]
        /\ UNCHANGED <<restLags, reported, now, wsPolls, latched, tsPolls, request, heldBack>>
  BY DEF DeviceFrame
<1>2. streamed' \in [Group -> Nat]
  BY <1>1
<1>3. cache' \in [Group -> Nat]
  BY <1>1
<1>4. doorTs' \in Nat \cup {NoTs}
  BY <1>1
<1>5. wsSeen' \in [Group -> Nat \cup {Never}]
  BY <1>1
<1> QED
  BY <1>1, <1>2, <1>3, <1>4, <1>5

(* The counters stay within the caps when an answer is applied.            *)
LEMMA ApplyTypeOK == TypeOK /\ ApplyAnswer => TypeOK'
<1> SUFFICES ASSUME TypeOK, ApplyAnswer PROVE TypeOK'
  OBVIOUS
<1> USE SensorAssumption DEF TypeOK, Request
<1>1. ASSUME NEW g \in Group
      PROVE  NextWsPolls(g) \in 0 .. MaxWsRecencyPreservePolls
  BY DEF NextWsPolls, CapTrips, WsCount, StillLatched, FrameSinceRequest
<1>2. NextTsPolls \in 0 .. MaxDoorStatePreservePolls
  BY DEF NextTsPolls, KeptByTimestamp
<1>3. wsPolls' \in [Group -> 0 .. MaxWsRecencyPreservePolls]
  BY <1>1 DEF ApplyAnswer
<1>4. cache' \in [Group -> Nat]
  BY DEF ApplyAnswer
<1>5. heldBack' \in [Group -> Nat]
  BY DEF ApplyAnswer, Longer
<1>6. latched' \in SUBSET Group
  BY DEF ApplyAnswer
<1>7. request' \in Request /\ doorTs' \in Nat \cup {NoTs}
  BY DEF ApplyAnswer
<1> QED
  BY <1>2, <1>3, <1>4, <1>5, <1>6, <1>7 DEF ApplyAnswer

LEMMA NextTypeOK == TypeOK /\ [Next]_vars => TypeOK'
<1> SUFFICES ASSUME TypeOK, [Next]_vars PROVE TypeOK'
  OBVIOUS
<1> USE SensorAssumption DEF TypeOK, Request, tracking
<1>1. ASSUME NEW g \in Group, ConsoleChange(g) PROVE TypeOK'
  BY <1>1 DEF ConsoleChange
<1>2. CASE Tick
  BY <1>2 DEF Tick
<1>3. CASE DeviceFrame
  BY <1>3, FrameTypeOK
<1>4. CASE BeginRequest
  BY <1>4 DEF BeginRequest
<1>5. CASE ConsoleAnswers
  <2>1. PICK seen \in [Group -> 0 .. MaxChanges] : \E ts \in {seen[Door], NoTs} :
          request' = [request EXCEPT !.phase = "answered", !.state = seen, !.ts = ts]
    BY <1>5 DEF ConsoleAnswers
  <2>2. seen \in [Group -> Nat] /\ seen[Door] \in Nat
    OBVIOUS
  <2>3. request' \in Request
    BY <2>1, <2>2
  <2> QED
    BY <1>5, <2>3 DEF ConsoleAnswers
<1>6. CASE RequestFails
  BY <1>6 DEF RequestFails
<1>7. CASE ApplyAnswer
  BY <1>7, ApplyTypeOK
<1>8. CASE UNCHANGED vars
  BY <1>8 DEF vars
<1> QED
  BY <1>1, <1>2, <1>3, <1>4, <1>5, <1>6, <1>7, <1>8 DEF Next

(* Every reachable state of one sensor's reconciliation is well typed: in  *)
(* particular no preserve counter passes its cap.                          *)
THEOREM TypeCorrect == Spec => []TypeOK
<1>1. TypeOK /\ [Next]_vars => TypeOK'
  BY NextTypeOK
<1> QED
  BY InitTypeOK, <1>1, PTL DEF Spec

-----------------------------------------------------------------------------
(* Only ApplyAnswer touches the counters and the history.                  *)
LEMMA CountersOnlyMoveOnApply ==
  [Next]_vars /\ ~ApplyAnswer => UNCHANGED <<wsPolls, tsPolls, heldBack, latched>>
  BY DEF Next, vars, tracking, ConsoleChange, Tick, DeviceFrame, BeginRequest,
         ConsoleAnswers, RequestFails

LEMMA CapInvApply == CapInv /\ ApplyAnswer => CapInv'
<1> SUFFICES ASSUME CapInv, ApplyAnswer PROVE CapInv'
  OBVIOUS
<1> DEFINE M == MaxWsRecencyPreservePolls
<1>0. TypeOK /\ TypeOK'
  BY ApplyTypeOK DEF CapInv
<1>t. /\ M \in Nat /\ Door \in Group
      /\ tsPolls \in Nat /\ tsPolls' \in Nat
      /\ \A g \in Group : /\ heldBack[g] \in Nat /\ wsPolls[g] \in Nat
                          /\ wsPolls'[g] \in Nat /\ wsPolls[g] <= M
  BY <1>0, SensorAssumption DEF TypeOK
<1>h. \A g \in Group : /\ heldBack'[g] \in Nat
                       /\ heldBack'[g] <= heldBack[g] + 1
                       /\ ~(Kept(g) /\ ~Agrees(g)) => heldBack'[g] = 0
  BY <1>0, <1>t DEF ApplyAnswer, Longer, TypeOK
<1>w. \A g \in Group : wsPolls'[g] = NextWsPolls(g)
  BY DEF ApplyAnswer
<1>k. ASSUME NEW g \in Group, KeptByRecency(g), ~Agrees(g)
      PROVE  wsPolls'[g] = wsPolls[g] + 1
  BY <1>k, <1>w, <1>t DEF KeptByRecency, NextWsPolls, CapTrips, WsCount, StillLatched
<1>1. ASSUME NEW g \in Group \ {Door} PROVE heldBack'[g] <= wsPolls'[g]
  BY <1>t, <1>h, <1>k DEF CapInv, Kept
<1>2. heldBack'[Door] <= tsPolls' * (M + 1) + wsPolls'[Door]
  <2>p. tsPolls' * (M + 1) \in Nat /\ tsPolls * (M + 1) \in Nat
    BY <1>t
  <2>1. CASE ~(Kept(Door) /\ ~Agrees(Door))
    BY <2>1, <2>p, <1>t, <1>h
  <2>2. CASE KeptByRecency(Door) /\ ~Agrees(Door)
    <3>1. tsPolls' = tsPolls
      BY <2>2 DEF ApplyAnswer, NextTsPolls
    <3> QED
      BY <2>2, <3>1, <2>p, <1>t, <1>h, <1>k DEF CapInv, Kept
  <2>3. CASE ~KeptByRecency(Door) /\ KeptByTimestamp /\ ~Agrees(Door)
    <3>1. tsPolls' = tsPolls + 1
      BY <2>3 DEF ApplyAnswer, NextTsPolls
    <3>2. tsPolls' * (M + 1) = tsPolls * (M + 1) + (M + 1)
      BY <3>1, <1>t
    <3>3. heldBack'[Door] <= heldBack[Door] + 1 /\ heldBack'[Door] \in Nat
      BY <1>h, <1>t
    <3>4. heldBack[Door] <= tsPolls * (M + 1) + wsPolls[Door]
      BY DEF CapInv
    <3>5. wsPolls[Door] <= M /\ wsPolls[Door] \in Nat /\ wsPolls'[Door] \in Nat
          /\ heldBack[Door] \in Nat
      BY <1>t
    <3> DEFINE before == tsPolls * (M + 1)
               after == tsPolls' * (M + 1)
    <3>6. /\ before \in Nat /\ after = before + (M + 1)
          /\ heldBack[Door] <= before + wsPolls[Door]
      BY <3>2, <3>4, <2>p
    <3> HIDE DEF before, after
    <3>7. heldBack'[Door] <= after + wsPolls'[Door]
      BY <3>3, <3>5, <3>6, <1>t
    <3> QED
      BY <3>7 DEF after
  <2> QED
    BY <2>1, <2>2, <2>3 DEF Kept
<1> QED
  BY <1>0, <1>1, <1>2 DEF CapInv

THEOREM CapInvariant == Spec => []CapInv
<1>1. Init => CapInv
  BY InitTypeOK, SensorAssumption DEF CapInv, Init
<1>2. CapInv /\ [Next]_vars => CapInv'
  <2>1. CapInv /\ [Next]_vars /\ ~ApplyAnswer => CapInv'
    BY CountersOnlyMoveOnApply, NextTypeOK DEF CapInv
  <2> QED
    BY <2>1, CapInvApply
<1> QED
  BY <1>1, <1>2, PTL DEF Spec

(* A REST state that differs from the cache is overridden at most          *)
(* MaxDoor * (MaxWs + 1) + MaxWs answers in a row for a door, and MaxWs    *)
(* for any other group, whatever the caps are: neither the latch nor the   *)
(* interplay of recency and timestamps can wedge a cached state.           *)
THEOREM HeldBackBounded == Spec => []HeldBackIsBounded
<1>1. CapInv => HeldBackIsBounded
  <2> SUFFICES ASSUME CapInv, NEW g \in Group PROVE heldBack[g] <= HeldBackBound(g)
    BY DEF HeldBackIsBounded
  <2> DEFINE M == MaxWsRecencyPreservePolls
             D == MaxDoorStatePreservePolls
  <2>1. /\ M \in Nat /\ D \in Nat /\ tsPolls \in 0 .. D
        /\ \A h \in Group : wsPolls[h] \in 0 .. M /\ heldBack[h] \in Nat
    BY SensorAssumption DEF CapInv, TypeOK
  <2>2. CASE g # Door
    BY <2>1, <2>2 DEF CapInv, HeldBackBound
  <2>3. CASE g = Door
    <3>1. tsPolls * (M + 1) <= D * (M + 1)
      <4> HIDE DEF M, D
      <4>1. /\ (D - tsPolls) * (M + 1) \in Nat
            /\ D * (M + 1) = tsPolls * (M + 1) + (D - tsPolls) * (M + 1)
        BY <2>1
      <4>2. D * (M + 1) \in Nat /\ tsPolls * (M + 1) \in Nat
        BY <2>1
      <4> QED
        BY <4>1, <4>2
    <3>2. D * (M + 1) \in Nat /\ tsPolls * (M + 1) \in Nat
      BY <2>1
    <3>3. heldBack[Door] <= tsPolls * (M + 1) + wsPolls[Door]
      BY DEF CapInv
    <3>4. HeldBackBound(g) = D * (M + 1) + M
      BY <2>3 DEF HeldBackBound
    <3>5. heldBack[g] = heldBack[Door] /\ wsPolls[Door] \in 0 .. M /\ heldBack[Door] \in Nat
      BY <2>1, <2>3
    <3> HIDE DEF M, D
    <3> QED
      BY <3>1, <3>2, <3>3, <3>4, <3>5, <2>1
  <2> QED
    BY <2>2, <2>3
<1> QED
  BY <1>1, CapInvariant, PTL

-----------------------------------------------------------------------------
LEMMA OrderInvFrame == OrderInv /\ DeviceFrame => OrderInv'
<1> SUFFICES ASSUME OrderInv, DeviceFrame PROVE OrderInv'
  OBVIOUS
<1> USE DEF OrderInv
<1>0. TypeOK /\ TypeOK'
  BY FrameTypeOK
<1>1. PICK carried \in (SUBSET Group) \ {{}}, change \in [Group -> 0 .. MaxChanges],
           fields \in {{"state"}, {"state", "ts"}, {"ts"}} :
        /\ \A g \in Group : IF g \in carried
                            THEN change[g] \in streamed[g] .. reported[g]
                            ELSE change[g] = streamed[g]
        /\ streamed' = change
        /\ cache' = [g \in Group |->
                       IF g \in carried /\ (g = Door => "state" \in fields)
                       THEN change[g] ELSE cache[g]]
        /\ wsSeen' = [g \in Group |-> IF g \in carried THEN now ELSE wsSeen[g]]
        /\ UNCHANGED <<restLags, reported, now, request>>
  BY DEF DeviceFrame
<1>2. \A g \in Group : /\ cache'[g] <= reported'[g]
                       /\ request'.state[g] <= reported'[g]
                       /\ streamed'[g] <= reported'[g]
  BY <1>0, <1>1 DEF TypeOK
<1>3. StaleAnswerIsRecognised'
  <2> SUFFICES ASSUME ~restLags, request.phase = "answered", NEW g \in Group,
                      cache'[g] > request.state[g]
               PROVE  wsSeen'[g] # Never /\ wsSeen'[g] >= request.at
    BY <1>1 DEF StaleAnswerIsRecognised, FrameSinceRequest
  <2>1. CASE g \in carried
    BY <2>1, <1>0, <1>1 DEF TypeOK, Never
  <2>2. CASE g \notin carried
    <3>1. cache'[g] = cache[g] /\ wsSeen'[g] = wsSeen[g]
      BY <2>2, <1>1
    <3> QED
      BY <3>1 DEF StaleAnswerIsRecognised, FrameSinceRequest
  <2> QED
    BY <2>1, <2>2
<1> QED
  BY <1>0, <1>1, <1>2, <1>3

LEMMA OrderInvAnswer == OrderInv /\ ConsoleAnswers => OrderInv'
<1> SUFFICES ASSUME OrderInv, ConsoleAnswers PROVE OrderInv'
  OBVIOUS
<1> USE DEF OrderInv
<1>0. TypeOK /\ TypeOK'
  BY NextTypeOK DEF Next
<1>1. PICK seen \in [Group -> 0 .. MaxChanges] : \E ts \in {seen[Door], NoTs} :
        /\ \A g \in Group : seen[g] \in IF restLags
                                        THEN request.state[g] .. reported[g]
                                        ELSE {reported[g]}
        /\ request' = [request EXCEPT !.phase = "answered", !.state = seen, !.ts = ts]
  BY DEF ConsoleAnswers
<1>2. /\ request'.at = request.at /\ request'.state = seen
      /\ UNCHANGED <<restLags, reported, streamed, now, cache, wsSeen>>
  BY <1>0, <1>1 DEF ConsoleAnswers, tracking, TypeOK, Request
<1>3. \A g \in Group : seen[g] <= reported[g] /\ (~restLags => seen[g] = reported[g])
  BY <1>0, <1>1, SensorAssumption DEF TypeOK, Request
<1>4. StaleAnswerIsRecognised'
  BY <1>0, <1>2, <1>3 DEF StaleAnswerIsRecognised, TypeOK
<1> QED
  BY <1>0, <1>2, <1>3, <1>4

LEMMA OrderInvApply == OrderInv /\ ApplyAnswer => OrderInv'
<1> SUFFICES ASSUME OrderInv, ApplyAnswer PROVE OrderInv'
  OBVIOUS
<1> USE DEF OrderInv
<1>0. TypeOK /\ TypeOK'
  BY ApplyTypeOK
<1>1. /\ request'.phase = "idle" /\ request'.at = request.at
      /\ request'.state = request.state
      /\ UNCHANGED <<restLags, reported, streamed, now>>
  BY <1>0 DEF ApplyAnswer, TypeOK, Request
<1>2. \A g \in Group : cache'[g] \in {cache[g], request.state[g]}
  BY DEF ApplyAnswer
<1>3. \A g \in Group : cache'[g] <= reported'[g]
  BY <1>0, <1>1, <1>2 DEF TypeOK
<1> QED
  BY <1>0, <1>1, <1>3 DEF StaleAnswerIsRecognised

LEMMA NextOrderInv == OrderInv /\ [Next]_vars => OrderInv'
<1> SUFFICES ASSUME OrderInv, [Next]_vars PROVE OrderInv'
  OBVIOUS
<1>0. TypeOK /\ TypeOK'
  BY NextTypeOK DEF OrderInv
<1> USE DEF OrderInv, StaleAnswerIsRecognised, FrameSinceRequest, tracking
<1>1. ASSUME NEW g \in Group, ConsoleChange(g) PROVE OrderInv'
  BY <1>0, <1>1 DEF ConsoleChange, TypeOK, Request
<1>2. CASE Tick
  BY <1>0, <1>2 DEF Tick, TypeOK, Request
<1>3. CASE DeviceFrame
  BY <1>3, OrderInvFrame
<1>4. CASE BeginRequest
  BY <1>0, <1>4 DEF BeginRequest, TypeOK, Request
<1>5. CASE ConsoleAnswers
  BY <1>5, OrderInvAnswer
<1>6. CASE RequestFails
  BY <1>0, <1>6 DEF RequestFails, TypeOK, Request
<1>7. CASE ApplyAnswer
  BY <1>7, OrderInvApply
<1>8. CASE UNCHANGED vars
  BY <1>0, <1>8 DEF vars
<1> QED
  BY <1>1, <1>2, <1>3, <1>4, <1>5, <1>6, <1>7, <1>8 DEF Next

THEOREM OrderInvariant == Spec => []OrderInv
<1>1. Init => OrderInv
  BY InitTypeOK DEF OrderInv, StaleAnswerIsRecognised, Init
<1>2. OrderInv /\ [Next]_vars => OrderInv'
  BY NextOrderInv
<1> QED
  BY <1>1, <1>2, PTL DEF Spec

(* When /sensors is up to date, an answer older than the cache is always   *)
(* recognised by the stamp taken before the request's await.               *)
THEOREM StaleRecognised == Spec => []StaleAnswerIsRecognised
<1>1. OrderInv => StaleAnswerIsRecognised
  BY DEF OrderInv
<1> QED
  BY <1>1, OrderInvariant, PTL

(* Applying an answer takes no group back in time unless the recency cap   *)
(* has latched the group to REST.                                          *)
THEOREM RestUndoesNoFrame == Spec => RestNeverUndoesAFrame
<1> DEFINE Step == ~restLags /\ request.phase = "answered" /\ request'.phase = "idle" =>
                     \A g \in Group : cache'[g] < cache[g] => g \in latched'
<1>1. OrderInv /\ [Next]_vars => Step
  <2> SUFFICES ASSUME OrderInv, [Next]_vars, ~restLags, request.phase = "answered",
                      request'.phase = "idle", NEW g \in Group, cache'[g] < cache[g]
               PROVE  g \in latched'
    OBVIOUS
  <2>0. TypeOK
    BY DEF OrderInv
  <2>1. ApplyAnswer
    BY <2>0 DEF Next, vars, tracking, ConsoleChange, Tick, DeviceFrame, BeginRequest,
                ConsoleAnswers, RequestFails, TypeOK, Request
  <2>2. ~Kept(g) /\ cache'[g] = request.state[g]
    BY <2>0, <2>1 DEF ApplyAnswer, TypeOK
  <2>3. FrameSinceRequest(g)
    BY <2>0, <2>2 DEF OrderInv, StaleAnswerIsRecognised, TypeOK, Request
  <2>4. StillLatched(g) \/ CapTrips(g)
    BY <2>0, <2>2, <2>3, SensorAssumption
       DEF Kept, KeptByRecency, CapTrips, WsCount, TypeOK
  <2> QED
    BY <2>1, <2>4 DEF ApplyAnswer
<1>2. OrderInv /\ [Next]_vars => [Step]_vars
  BY <1>1
<1> QED
  BY <1>2, OrderInvariant, PTL DEF Spec, RestNeverUndoesAFrame

=============================================================================
