-------------------------- MODULE SirenGuard_proofs --------------------------
(***************************************************************************)
(* Proofs about SirenGuard for any requesters, timeouts and bounds: the    *)
(* types, that no answer undoes a frame, that a guard never hides a run    *)
(* that began after its stop, and that a stopped siren stays off as long   *)
(* as the poll alone reads it.                                             *)
(***************************************************************************)
EXTENDS SirenGuard, TLAPS

(* Nothing the system knows of is newer than the console, and what is in   *)
(* flight and still counts is not older than the last status frame.        *)
NothingFromTheFuture ==
  /\ cache.at <= console.run
  /\ framed <= console.run
  /\ runAtMark <= console.run
  /\ guard.limit <= runAtMark

GenerationsAreOlder == \A r \in Requester : requests[r].gen <= generation

InFlightIsNoOlder ==
  /\ stream # NoFrame => generation < MaxFrames
  /\ stream \in StatusFrame =>
       stream.status.at <= console.run
         /\ (stream.status.at # NoStart => stream.status.at >= framed)
  /\ \A r \in Requester :
       /\ requests[r].status.at <= console.run
       /\ requests[r].phase = "answered" /\ requests[r].gen = generation
            /\ requests[r].status.at # NoStart => requests[r].status.at >= framed

Inv ==
  /\ TypeOK
  /\ NothingFromTheFuture
  /\ GenerationsAreOlder
  /\ InFlightIsNoOlder
  /\ AnswersNeverUndoAFrame

LEMMA RunIsKnown ==
  ASSUME TypeOK
  PROVE  console.run \in 0 .. MaxRuns /\ console.active \in BOOLEAN
  BY DEF TypeOK

LEMMA ReadingsAreReadings ==
  ASSUME TypeOK, NEW s \in Readings
  PROVE  s \in Reading /\ s.at \in {NoStart, console.run}
  BY SirenAssumption DEF TypeOK, Readings, Reading, NoStart

(* The status shown is the one offered, but for being active or not.       *)
LEMMA Shown ==
  ASSUME TypeOK, NEW status \in Reading, ShowGuarded(status)
  PROVE  /\ cache' \in Reading
         /\ cache'.at = status.at
         /\ guard' \in {guard, NoGuard}
         /\ status.active /\ (guard = NoGuard \/ status.at > guard.limit) => cache'.active
<1>1. CASE IsStoppedRun(status)
  <2>1. cache' = [status EXCEPT !.active = FALSE] /\ guard' = guard
    BY <1>1 DEF ShowGuarded
  <2>2. guard # NoGuard /\ status.at <= guard.limit
    BY <1>1 DEF IsStoppedRun
  <2>3. status.at \in Nat /\ guard.limit \in Nat
    BY <2>2, SirenAssumption DEF TypeOK, Reading
  <2>4. cache' \in Reading /\ cache'.at = status.at
    BY <2>1 DEF Reading
  <2>5. ~(guard = NoGuard \/ status.at > guard.limit)
    BY <2>2, <2>3
  <2> QED BY <2>1, <2>4, <2>5
<1>2. CASE ~IsStoppedRun(status)
  BY <1>2 DEF ShowGuarded
<1> QED BY <1>1, <1>2

LEMMA IdleRequest ==
  /\ Idle \in [phase : {"idle"}, gen : {0}, age : {0}, status : {Idle.status}]
  /\ Idle.status = [active |-> FALSE, at |-> NoStart]
  BY DEF Idle

-----------------------------------------------------------------------------
LEMMA InitInv == Init => Inv
<1> SUFFICES ASSUME Init PROVE Inv
  OBVIOUS
<1>1. TypeOK
  <2>1. Idle.status \in Reading /\ cache \in Reading
    BY SirenAssumption DEF Init, Idle, Reading, NoStart
  <2>2. requests \in [Requester -> [phase : {"idle", "sent", "answered", "failed"},
                                   gen : 0 .. MaxFrames, age : 0 .. RequestTimeout,
                                   status : Reading]]
    BY <2>1, SirenAssumption DEF Init, Idle
  <2>3. generation \in 0 .. MaxFrames /\ stops \in 0 .. MaxStops /\ framed \in 0 .. MaxRuns
        /\ runAtMark \in 0 .. MaxRuns
    BY SirenAssumption DEF Init
  <2>4. console \in [active : BOOLEAN, run : 0 .. MaxRuns]
    BY SirenAssumption DEF Init
  <2>5. /\ streamUp \in BOOLEAN /\ stream \in {NoFrame, Telemetry} \cup StatusFrame
        /\ guard \in [limit : 0 .. MaxRuns, age : 0 .. StopGuardTTL + 1] \cup {NoGuard}
        /\ stopping \in 0 .. MaxRuns \cup {NoRun} /\ stopped \in 0 .. MaxRuns \cup {NoRun}
    BY DEF Init
  <2> QED BY <2>1, <2>2, <2>3, <2>4, <2>5 DEF TypeOK
<1>2. NothingFromTheFuture
  BY DEF Init, NothingFromTheFuture, NoGuard, NoRun, NoStart
<1>3. NoFrame \notin StatusFrame
  BY DEF NoFrame, StatusFrame
<1>4. GenerationsAreOlder /\ InFlightIsNoOlder /\ AnswersNeverUndoAFrame
  BY <1>3 DEF Init, GenerationsAreOlder, InFlightIsNoOlder, AnswersNeverUndoAFrame,
              Idle, NoStart
<1> QED BY <1>1, <1>2, <1>4 DEF Inv

(* The console: a run begins or ends, a frame leaves.                      *)
LEMMA ConsoleSteps ==
  ASSUME Inv, StreamStarts \/ RunStarts \/ RunEnds \/ SendFrame
  PROVE  Inv'
<1>0. CASE StreamStarts
  BY <1>0 DEF StreamStarts, Inv, TypeOK, NothingFromTheFuture, GenerationsAreOlder,
              InFlightIsNoOlder, AnswersNeverUndoAFrame, history
<1>1. CASE RunStarts
  <2>1. /\ console.run \in 0 .. MaxRuns /\ console.run < MaxRuns
        /\ console' = [active |-> TRUE, run |-> console.run + 1]
    BY <1>1, RunIsKnown DEF RunStarts, Inv
  <2>2. console' \in [active : BOOLEAN, run : 0 .. MaxRuns] /\ console'.run > console.run
        /\ console'.run \in Nat /\ console.run \in Nat
    BY <2>1, SirenAssumption
  <2>3. TypeOK'
    <3>1. UNCHANGED <<streamUp, stream, cache, generation, guard, requests, stopping, stops>>
          /\ UNCHANGED history
      BY <1>1 DEF RunStarts
    <3> QED BY <2>2, <3>1 DEF Inv, TypeOK, history
  <2>4. /\ cache.at \in Nat /\ framed \in Nat /\ runAtMark \in Nat
        /\ \A r \in Requester : requests[r].status.at \in Nat
        /\ stream \in StatusFrame => stream.status.at \in Nat
    BY SirenAssumption DEF Inv, TypeOK, Reading, StatusFrame
  <2>5. NothingFromTheFuture'
    BY <1>1, <2>2, <2>4 DEF RunStarts, Inv, NothingFromTheFuture, history
  <2>6. GenerationsAreOlder' /\ InFlightIsNoOlder' /\ AnswersNeverUndoAFrame'
    BY <1>1, <2>2, <2>4
    DEF RunStarts, Inv, GenerationsAreOlder, InFlightIsNoOlder, AnswersNeverUndoAFrame, history
  <2> QED BY <2>3, <2>5, <2>6 DEF Inv
<1>2. CASE RunEnds
  <2>1. console' \in [active : BOOLEAN, run : 0 .. MaxRuns] /\ console'.run = console.run
    BY <1>2 DEF RunEnds, Inv, TypeOK
  <2> QED BY <1>2, <2>1
          DEF RunEnds, Inv, TypeOK, NothingFromTheFuture, GenerationsAreOlder,
              InFlightIsNoOlder, AnswersNeverUndoAFrame, history
<1>3. CASE SendFrame
  <2>1. stream' = Telemetry \/ \E s \in Readings : stream' = [kind |-> "status", status |-> s]
    BY <1>3 DEF SendFrame
  <2>2. stream' \in StatusFrame => stream'.status.at \in {NoStart, console.run}
    BY <2>1, ReadingsAreReadings DEF Inv, Telemetry, StatusFrame
  <2>3. stream' \in {Telemetry} \cup StatusFrame
    BY <2>1, ReadingsAreReadings DEF Inv, StatusFrame
  <2>4. NoStart <= console.run /\ console.run <= console.run
    BY RunIsKnown DEF Inv, NoStart
  <2> QED BY <1>3, <2>2, <2>3, <2>4
          DEF SendFrame, Inv, TypeOK, NothingFromTheFuture, GenerationsAreOlder,
              InFlightIsNoOlder, AnswersNeverUndoAFrame, history
<1> QED BY <1>0, <1>1, <1>2, <1>3

(* A frame: everything begun before it now has an older generation.        *)
LEMMA FrameStep ==
  ASSUME Inv, FrameArrives
  PROVE  Inv'
<1>1. stream = Telemetry \/ stream \in StatusFrame
  BY DEF FrameArrives, Inv, TypeOK
<1>2. Merged \in Reading /\ Merged.at <= console.run
      /\ (stream \in StatusFrame /\ stream.status.at # NoStart => Merged.at = stream.status.at)
      /\ (stream = Telemetry \/ stream.status.at = NoStart => Merged.at = cache.at)
  BY <1>1 DEF Merged, Inv, TypeOK, StatusFrame, Reading, Telemetry,
              NothingFromTheFuture, InFlightIsNoOlder
<1>3. /\ cache' \in Reading /\ cache'.at = Merged.at /\ guard' \in {guard, NoGuard}
  BY <1>2, Shown DEF FrameArrives, Inv
<1>4. /\ generation' = generation + 1 /\ generation' \in 0 .. MaxFrames
      /\ generation \in Nat
  BY SirenAssumption DEF FrameArrives, Inv, TypeOK, InFlightIsNoOlder
<1>5. /\ framed' \in 0 .. MaxRuns
      /\ framed' <= console.run
      /\ cache'.at # NoStart => cache'.at >= framed'
  <2>1. CASE stream # Telemetry /\ stream.status.at # NoStart
    <3>1. framed' = stream.status.at /\ stream \in StatusFrame
      BY <2>1, <1>1 DEF FrameArrives
    <3>2. cache'.at = framed' /\ framed' \in 0 .. MaxRuns /\ framed' <= console.run
      BY <2>1, <3>1, <1>2, <1>3 DEF Inv, InFlightIsNoOlder, StatusFrame, Reading
    <3> QED BY <3>2
  <2>2. CASE ~(stream # Telemetry /\ stream.status.at # NoStart)
    BY <2>2, <1>2, <1>3 DEF FrameArrives, Inv, TypeOK, NothingFromTheFuture, AnswersNeverUndoAFrame
  <2> QED BY <2>1, <2>2
<1>6. /\ streamUp' = streamUp /\ console' = console /\ requests' = requests /\ stopping' = stopping
      /\ stops' = stops /\ stopped' = stopped /\ runAtMark' = runAtMark
      /\ stream' = NoFrame
  BY DEF FrameArrives
<1>7. TypeOK'
  BY <1>3, <1>4, <1>5, <1>6 DEF Inv, TypeOK
<1>8. NothingFromTheFuture'
  <2>1. guard'.limit <= runAtMark
    BY <1>3 DEF Inv, TypeOK, NothingFromTheFuture, NoGuard, NoRun
  <2> QED BY <2>1, <1>2, <1>3, <1>5, <1>6 DEF Inv, NothingFromTheFuture
<1>9. \A r \in Requester : requests[r].gen \in Nat /\ requests[r].gen < generation'
  BY <1>4 DEF Inv, TypeOK, GenerationsAreOlder
<1>10. GenerationsAreOlder' /\ InFlightIsNoOlder' /\ AnswersNeverUndoAFrame'
  BY <1>4, <1>5, <1>6, <1>9
  DEF Inv, GenerationsAreOlder, InFlightIsNoOlder, AnswersNeverUndoAFrame, NoFrame, StatusFrame
<1> QED BY <1>7, <1>8, <1>10 DEF Inv

(* The requests: stamped, answered or failed, applied.                     *)
LEMMA RequestSteps ==
  ASSUME Inv, NEW r \in Requester,
         SendRequest(r) \/ ConsoleAnswers(r) \/ RequestFails(r)
  PROVE  Inv'
<1>1. /\ UNCHANGED <<streamUp, console, stream, cache, generation, guard, stopping, stops, history>>
      /\ \A q \in Requester \ {r} : requests'[q] = requests[q]
  BY DEF SendRequest, ConsoleAnswers, RequestFails, Inv, TypeOK
<1>2. generation \in 0 .. MaxFrames /\ console.run \in Nat /\ framed \in Nat
  BY RunIsKnown, SirenAssumption DEF Inv, TypeOK
<1>3. /\ requests' \in [Requester -> [phase : {"idle", "sent", "answered", "failed"},
                                      gen : 0 .. MaxFrames, age : 0 .. RequestTimeout,
                                      status : Reading]]
      /\ requests'[r].gen <= generation
      /\ requests'[r].status.at <= console.run
      /\ requests'[r].phase = "answered" /\ requests'[r].status.at # NoStart
           => requests'[r].status.at >= framed
  <2>1. CASE SendRequest(r)
    <3>1. requests' = [requests EXCEPT ![r] = [phase |-> "sent", gen |-> generation,
                                               age |-> 0, status |-> Idle.status]]
      BY <2>1 DEF SendRequest
    <3>2. Idle.status \in Reading /\ Idle.status.at = 0
      BY SirenAssumption DEF Idle, Reading, NoStart
    <3> QED BY <3>1, <3>2, <1>2, SirenAssumption DEF Inv, TypeOK
  <2>2. CASE ConsoleAnswers(r)
    <3>1. PICK s \in Readings :
            requests' = [requests EXCEPT ![r] = [phase |-> "answered", gen |-> requests[r].gen,
                                                 age |-> requests[r].age, status |-> s]]
      BY <2>2 DEF ConsoleAnswers
    <3>2. s \in Reading /\ s.at \in {NoStart, console.run} /\ framed <= console.run
      BY ReadingsAreReadings DEF Inv, NothingFromTheFuture
    <3>3. /\ requests'[r].status = s /\ requests'[r].gen = requests[r].gen
          /\ requests' \in [Requester -> [phase : {"idle", "sent", "answered", "failed"},
                                          gen : 0 .. MaxFrames, age : 0 .. RequestTimeout,
                                          status : Reading]]
      BY <3>1, <3>2 DEF Inv, TypeOK
    <3>4. requests[r].gen <= generation
      BY DEF Inv, GenerationsAreOlder
    <3>5. s.at <= console.run /\ (s.at # NoStart => s.at >= framed)
      BY <3>2, <1>2, SirenAssumption DEF NoStart
    <3> QED BY <3>3, <3>4, <3>5
  <2>3. CASE RequestFails(r)
    BY <2>3, <1>2 DEF RequestFails, Inv, TypeOK, GenerationsAreOlder, InFlightIsNoOlder
  <2> QED BY <2>1, <2>2, <2>3
<1>4. TypeOK' /\ NothingFromTheFuture' /\ AnswersNeverUndoAFrame'
  BY <1>1, <1>3 DEF Inv, TypeOK, NothingFromTheFuture, AnswersNeverUndoAFrame, history
<1>5. GenerationsAreOlder' /\ InFlightIsNoOlder'
  BY <1>1, <1>3 DEF Inv, GenerationsAreOlder, InFlightIsNoOlder, history
<1> QED BY <1>4, <1>5 DEF Inv

(* What a batch offers the cache is a reading no older than the frame.     *)
LEMMA BatchOffers ==
  ASSUME Inv, NEW r \in Requester, ApplyBatch(r),
         NEW status, status = IF Applicable(r) THEN requests[r].status ELSE cache
  PROVE  /\ status \in Reading
         /\ status.at <= console.run
         /\ status.at # NoStart => status.at >= framed
         /\ ShowGuarded(status)
<1>1. CASE Applicable(r)
  BY <1>1 DEF ApplyBatch, Applicable, Inv, TypeOK, InFlightIsNoOlder
<1>2. CASE ~Applicable(r)
  BY <1>2 DEF ApplyBatch, Inv, TypeOK, NothingFromTheFuture, AnswersNeverUndoAFrame
<1> QED BY <1>1, <1>2

LEMMA BatchStep ==
  ASSUME Inv, NEW r \in Requester, ApplyBatch(r)
  PROVE  Inv'
<1> DEFINE status == IF Applicable(r) THEN requests[r].status ELSE cache
<1>1. /\ status \in Reading /\ status.at <= console.run
      /\ status.at # NoStart => status.at >= framed
      /\ ShowGuarded(status)
  BY BatchOffers
<1> HIDE DEF status
<1>2. cache' \in Reading /\ cache'.at = status.at /\ guard' \in {guard, NoGuard}
  BY <1>1, Shown DEF Inv
<1>3. /\ UNCHANGED <<streamUp, console, stream, generation, stopping, stops, history>>
      /\ requests' = [requests EXCEPT ![r] = Idle]
  BY DEF ApplyBatch
<1>4. /\ requests' \in [Requester -> [phase : {"idle", "sent", "answered", "failed"},
                                      gen : 0 .. MaxFrames, age : 0 .. RequestTimeout,
                                      status : Reading]]
      /\ \A q \in Requester : requests'[q] \in {requests[q], Idle}
  BY <1>3, SirenAssumption DEF Inv, TypeOK, Idle, Reading, NoStart
<1>5. TypeOK'
  BY <1>2, <1>3, <1>4 DEF Inv, TypeOK, history
<1>6. guard'.limit <= runAtMark
  BY <1>2, SirenAssumption DEF Inv, TypeOK, NothingFromTheFuture, NoGuard, NoRun
<1>7. NothingFromTheFuture' /\ AnswersNeverUndoAFrame'
  BY <1>1, <1>2, <1>3, <1>6 DEF Inv, NothingFromTheFuture, AnswersNeverUndoAFrame, history
<1>8. GenerationsAreOlder' /\ InFlightIsNoOlder'
  BY <1>3, <1>4, RunIsKnown, SirenAssumption
  DEF Inv, TypeOK, GenerationsAreOlder, InFlightIsNoOlder, Idle, NoStart, history
<1> QED BY <1>5, <1>7, <1>8 DEF Inv

(* A stop: the guard's limit is a run that has begun.                      *)
LEMMA StopSteps ==
  ASSUME Inv, StopAtConsole \/ MarkStopped \/ StopTimesOut
  PROVE  Inv'
<1>1. CASE StopAtConsole
  <2>1. /\ console' \in [active : BOOLEAN, run : 0 .. MaxRuns] /\ console'.run = console.run
        /\ stopping' \in 0 .. MaxRuns /\ stops' \in 0 .. MaxStops
    <3>1. console' = [console EXCEPT !.active = FALSE] /\ stopping' = console.run
          /\ stops < MaxStops /\ stops' = stops + 1
      BY <1>1 DEF StopAtConsole
    <3>2. console \in [active : BOOLEAN, run : 0 .. MaxRuns] /\ stops \in 0 .. MaxStops
      BY DEF Inv, TypeOK
    <3>3. console' \in [active : BOOLEAN, run : 0 .. MaxRuns] /\ console'.run = console.run
      BY <3>1, <3>2
    <3>4. stops' \in 0 .. MaxStops
      BY <3>1, <3>2, SirenAssumption
    <3>5. stopping' \in 0 .. MaxRuns
      BY <3>1, <3>2
    <3> QED BY <3>3, <3>4, <3>5
  <2> QED BY <1>1, <2>1
          DEF StopAtConsole, Inv, TypeOK, NothingFromTheFuture, GenerationsAreOlder,
              InFlightIsNoOlder, AnswersNeverUndoAFrame, history
<1>2. CASE MarkStopped
  <2>1. RunToStop \in 0 .. MaxRuns /\ RunToStop <= console.run /\ RunStopped \in 0 .. MaxRuns
    BY <1>2, RunIsKnown, SirenAssumption
    DEF MarkStopped, RunToStop, RunStopped, Inv, TypeOK, Reading, NothingFromTheFuture, NoRun
  <2>2. /\ cache' \in Reading /\ cache'.at = cache.at
        /\ guard' = [limit |-> RunToStop, age |-> 0]
        /\ runAtMark' = console.run /\ stopped' = RunStopped /\ stopping' = NoRun
        /\ UNCHANGED <<streamUp, console, stream, generation, requests, stops, framed>>
    BY <1>2 DEF MarkStopped, Inv, TypeOK, Reading
  <2>3. guard' \in [limit : 0 .. MaxRuns, age : 0 .. StopGuardTTL + 1]
    BY <2>1, <2>2, SirenAssumption
  <2>4. TypeOK'
    BY <2>1, <2>2, <2>3, RunIsKnown DEF Inv, TypeOK
  <2>5. NothingFromTheFuture'
    BY <2>1, <2>2, RunIsKnown DEF Inv, NothingFromTheFuture
  <2> QED BY <2>2, <2>4, <2>5
          DEF Inv, GenerationsAreOlder, InFlightIsNoOlder, AnswersNeverUndoAFrame
<1>3. CASE StopTimesOut
  BY <1>3 DEF StopTimesOut, Inv, TypeOK, NothingFromTheFuture, GenerationsAreOlder,
              InFlightIsNoOlder, AnswersNeverUndoAFrame, history
<1> QED BY <1>1, <1>2, <1>3

LEMMA TickStep ==
  ASSUME Inv, Tick
  PROVE  Inv'
<1>1. /\ requests' \in [Requester -> [phase : {"idle", "sent", "answered", "failed"},
                                      gen : 0 .. MaxFrames, age : 0 .. RequestTimeout,
                                      status : Reading]]
      /\ \A r \in Requester : /\ requests'[r].phase = requests[r].phase
                              /\ requests'[r].gen = requests[r].gen
                              /\ requests'[r].status = requests[r].status
  BY SirenAssumption DEF Tick, Inv, TypeOK
<1>2. /\ guard'.limit = guard.limit
      /\ guard' \in [limit : 0 .. MaxRuns, age : 0 .. StopGuardTTL + 1] \cup {NoGuard}
  <2>1. CASE guard # NoGuard /\ guard.age <= StopGuardTTL
    BY <2>1, SirenAssumption DEF Tick, Inv, TypeOK
  <2>2. CASE ~(guard # NoGuard /\ guard.age <= StopGuardTTL)
    BY <2>2 DEF Tick, Inv, TypeOK
  <2> QED BY <2>1, <2>2
<1>3. UNCHANGED <<streamUp, console, stream, cache, generation, stopping, stops, history>>
  BY DEF Tick
<1>4. TypeOK' /\ NothingFromTheFuture' /\ AnswersNeverUndoAFrame'
  BY <1>1, <1>2, <1>3 DEF Inv, TypeOK, NothingFromTheFuture, AnswersNeverUndoAFrame, history
<1>5. GenerationsAreOlder' /\ InFlightIsNoOlder'
  BY <1>1, <1>3 DEF Inv, GenerationsAreOlder, InFlightIsNoOlder, history
<1> QED BY <1>4, <1>5 DEF Inv

LEMMA InvStep == Inv /\ [Next]_vars => Inv'
<1>1. ASSUME Inv, UNCHANGED vars PROVE Inv'
  BY <1>1 DEF vars, Inv, TypeOK, NothingFromTheFuture, GenerationsAreOlder,
              InFlightIsNoOlder, AnswersNeverUndoAFrame
<1> QED BY <1>1, ConsoleSteps, FrameStep, RequestSteps, BatchStep, StopSteps, TickStep DEF Next

LEMMA InvHolds == Spec => []Inv
BY InitInv, InvStep, PTL DEF Spec

-----------------------------------------------------------------------------
(* Every variable keeps its type.                                          *)
THEOREM TypeCorrect == Spec => []TypeOK
<1>1. Inv => TypeOK
  BY DEF Inv
<1> QED BY <1>1, InvHolds, PTL

(* However many requesters ask and however their answers are reordered,    *)
(* none puts back a run older than the one a frame has shown.              *)
THEOREM AnswersAreOrdered == Spec => []AnswersNeverUndoAFrame
<1>1. Inv => AnswersNeverUndoAFrame
  BY DEF Inv
<1> QED BY <1>1, InvHolds, PTL

(* A guard never hides a run that began after its stop was marked.         *)
THEOREM GuardBelievesNewRuns == Spec => NewRunIsBelieved
<1> DEFINE Step ==
      \A r \in Requester :
        /\ requests[r].phase = "answered" /\ requests'[r].phase = "idle"
        /\ requests[r].gen = generation
        /\ requests[r].status.active /\ requests[r].status.at > runAtMark
        => cache'.active
<1>1. Inv /\ [Next]_vars => [Step]_vars
  <2> SUFFICES ASSUME Inv, Next, NEW r \in Requester,
                      requests[r].phase = "answered", requests'[r].phase = "idle",
                      requests[r].gen = generation,
                      requests[r].status.active, requests[r].status.at > runAtMark
               PROVE  cache'.active
    OBVIOUS
  <2>1. ApplyBatch(r)
    <3>1. requests'[r] # requests[r] /\ requests \in [Requester -> [
            phase : {"idle", "sent", "answered", "failed"}, gen : 0 .. MaxFrames,
            age : 0 .. RequestTimeout, status : Reading]]
      BY DEF Inv, TypeOK
    <3>2. ~(StreamStarts \/ RunStarts \/ RunEnds \/ SendFrame \/ FrameArrives
            \/ StopAtConsole \/ MarkStopped \/ StopTimesOut)
      BY <3>1 DEF StreamStarts, RunStarts, RunEnds, SendFrame, FrameArrives,
                  StopAtConsole, MarkStopped, StopTimesOut
    <3>3. ~Tick
      BY <3>1 DEF Tick
    <3>4. PICK q \in Requester : SendRequest(q) \/ ConsoleAnswers(q) \/ RequestFails(q)
                                 \/ ApplyBatch(q)
      BY <3>2, <3>3 DEF Next
    <3>5. q = r
      BY <3>1, <3>4 DEF SendRequest, ConsoleAnswers, RequestFails, ApplyBatch
    <3>6. ~SendRequest(r) /\ ~ConsoleAnswers(r) /\ ~RequestFails(r)
      BY <3>1 DEF SendRequest, ConsoleAnswers, RequestFails
    <3> QED BY <3>4, <3>5, <3>6
  <2>2. Applicable(r)
    BY DEF Applicable
  <2>3. requests[r].status \in Reading /\ ShowGuarded(requests[r].status)
    BY <2>1, <2>2 DEF ApplyBatch, Inv, TypeOK
  <2>4. guard = NoGuard \/ requests[r].status.at > guard.limit
    BY <2>3, SirenAssumption DEF Inv, TypeOK, NothingFromTheFuture, Reading
  <2> QED BY <2>3, <2>4, Shown DEF Inv
<1> QED BY <1>1, InvHolds, PTL DEF Spec, NewRunIsBelieved

----
(* The last stop is of the past: a run that is on began after it.          *)
StopsArePast ==
  /\ stopped <= console.run /\ stopping <= console.run
  /\ console.active => console.run > stopped
  /\ console.active /\ stopping # NoRun => console.run > stopping

(* Before the stream, a reading of the stopped run was given before the    *)
(* stop was marked: the guard has waited no longer than its request.       *)
ReadBeforeTheStop(r) ==
  LET req == requests[r] IN
  req.phase = "answered" /\ req.status.active /\ req.status.at # NoStart
    /\ req.status.at <= stopped =>
       guard # NoGuard /\ req.status.at <= guard.limit /\ guard.age <= req.age

OnlyThePollReads ==
  /\ stream = NoFrame
  /\ \A r \in Requester : r # "poll" => requests[r].phase = "idle"
  /\ \A r \in Requester : ReadBeforeTheStop(r)
  /\ StoppedRunStaysOff

OneReaderInv == Inv /\ StopsArePast /\ (~streamUp => OnlyThePollReads)

LEMMA Ranges ==
  ASSUME Inv
  PROVE  /\ console.run \in Nat /\ console.active \in BOOLEAN /\ stopped \in Int /\ stopping \in Int
         /\ cache.at \in Nat /\ cache.at <= console.run
         /\ \A r \in Requester :
              /\ requests[r] \in [phase : {"idle", "sent", "answered", "failed"},
                                  gen : 0 .. MaxFrames, age : 0 .. RequestTimeout, status : Reading]
              /\ requests[r].status.at \in Nat /\ requests[r].status.at <= console.run
              /\ requests[r].age \in Nat /\ requests[r].age <= StopGuardTTL
BY SirenAssumption DEF Inv, TypeOK, NothingFromTheFuture, InFlightIsNoOlder, Reading, NoRun

LEMMA StopsArePastStep == OneReaderInv /\ [Next]_vars => StopsArePast'
<1> SUFFICES ASSUME OneReaderInv, [Next]_vars PROVE StopsArePast'
  OBVIOUS
<1>1. Inv /\ StopsArePast
  BY DEF OneReaderInv
<1>2. console.run \in Nat /\ console.active \in BOOLEAN /\ stopped \in Int /\ stopping \in Int
      /\ console \in [active : BOOLEAN, run : 0 .. MaxRuns]
  BY <1>1, Ranges DEF Inv, TypeOK
<1>3. CASE UNCHANGED <<console, stopping, stopped>>
  BY <1>1, <1>3 DEF StopsArePast
<1>4. CASE RunStarts
  <2>1. console'.run = console.run + 1 /\ UNCHANGED <<stopping, stopped>>
    BY <1>4 DEF RunStarts, history
  <2> QED BY <1>1, <1>2, <2>1 DEF StopsArePast
<1>5. CASE RunEnds
  BY <1>1, <1>2, <1>5 DEF RunEnds, StopsArePast, history
<1>6. CASE StopAtConsole
  BY <1>1, <1>2, <1>6 DEF StopAtConsole, StopsArePast, history
<1>7. CASE MarkStopped
  <2>1. stopped' = RunStopped /\ stopping' = NoRun /\ console' = console /\ stopping # NoRun
    BY <1>7 DEF MarkStopped
  <2>2. RunStopped <= stopping /\ RunStopped \in Int
    BY <1>2 DEF RunStopped
  <2> QED BY <1>1, <1>2, <2>1, <2>2 DEF StopsArePast, NoRun
<1>8. CASE StopTimesOut
  BY <1>1, <1>2, <1>8 DEF StopTimesOut, StopsArePast, NoRun, history
<1> QED BY <1>3, <1>4, <1>5, <1>6, <1>7, <1>8
        DEF Next, vars, history, StreamStarts, SendFrame, FrameArrives, SendRequest, ConsoleAnswers,
            RequestFails, ApplyBatch, Tick

LEMMA OnlyThePollReadsStep ==
  OneReaderInv /\ [Next]_vars /\ ~streamUp' => OnlyThePollReads'
<1> SUFFICES ASSUME OneReaderInv, [Next]_vars, ~streamUp' PROVE OnlyThePollReads'
  OBVIOUS
<1>1. Inv /\ StopsArePast
  BY DEF OneReaderInv
<1>2. ~streamUp /\ ~StreamStarts /\ ~SendFrame
  BY DEF Next, vars, StreamStarts, RunStarts, RunEnds, SendFrame, FrameArrives, SendRequest,
         ConsoleAnswers, RequestFails, ApplyBatch, StopAtConsole, MarkStopped, StopTimesOut, Tick
<1>3. OnlyThePollReads
  BY <1>2 DEF OneReaderInv
<1>4. ~FrameArrives
  BY <1>3 DEF FrameArrives, OnlyThePollReads
<1>5. stream' = NoFrame
  BY <1>2, <1>3, <1>4 DEF Next, vars, OnlyThePollReads, RunStarts, RunEnds, SendRequest,
         ConsoleAnswers, RequestFails, ApplyBatch, StopAtConsole, MarkStopped, StopTimesOut, Tick
<1>6. CASE UNCHANGED <<cache, guard, requests, stopped>>
  BY <1>3, <1>5, <1>6 DEF OnlyThePollReads, ReadBeforeTheStop, StoppedRunStaysOff
<1>7. ASSUME NEW r \in Requester, SendRequest(r) \/ ConsoleAnswers(r) \/ RequestFails(r)
      PROVE  OnlyThePollReads'
  <2>1. /\ UNCHANGED <<cache, guard, stopped>> /\ r = "poll"
        /\ \A q \in Requester : q # r => requests'[q] = requests[q]
    BY <1>2, <1>3, <1>7, <1>1, Ranges DEF SendRequest, ConsoleAnswers, RequestFails, history,
         OnlyThePollReads, Inv, TypeOK
  <2>2. ReadBeforeTheStop(r)'
    <3>1. CASE SendRequest(r)
      BY <1>1, <3>1 DEF SendRequest, ReadBeforeTheStop, Inv, TypeOK
    <3>2. CASE RequestFails(r)
      BY <1>1, <3>2 DEF RequestFails, ReadBeforeTheStop, Inv, TypeOK
    <3>3. CASE ConsoleAnswers(r)
      <4>1. PICK s \in Readings : requests'[r].status = s
        BY <1>1, <3>3 DEF ConsoleAnswers, Inv, TypeOK
      <4>2. s.active = console.active /\ s.at \in {NoStart, console.run}
        BY <1>1, ReadingsAreReadings DEF Readings, Inv
      <4>3. s.active /\ s.at # NoStart => ~(s.at <= stopped)
        BY <1>1, <4>2, Ranges DEF StopsArePast
      <4> QED BY <2>1, <4>1, <4>3 DEF ReadBeforeTheStop
    <3> QED BY <1>7, <3>1, <3>2, <3>3
  <2> QED BY <1>3, <1>5, <2>1, <2>2 DEF OnlyThePollReads, ReadBeforeTheStop, StoppedRunStaysOff
<1>8. ASSUME NEW r \in Requester, ApplyBatch(r) PROVE OnlyThePollReads'
  <2> DEFINE req == requests[r]
             offered == IF Applicable(r) THEN req.status ELSE cache
  <2>1. /\ r = "poll" /\ stopped' = stopped /\ ShowGuarded(offered)
        /\ requests' = [requests EXCEPT ![r] = Idle]
    BY <1>3, <1>8 DEF ApplyBatch, OnlyThePollReads, history
  <2>2. requests'[r].phase = "idle" /\ \A q \in Requester : q # r => requests'[q] = requests[q]
    BY <1>1, <2>1 DEF Inv, TypeOK, Idle
  <2>3. \A q \in Requester : ReadBeforeTheStop(q)' /\ (q # "poll" => requests'[q].phase = "idle")
    BY <1>3, <2>1, <2>2 DEF ReadBeforeTheStop, OnlyThePollReads
  <2>4. StoppedRunStaysOff'
    <3>1. offered \in Reading
      BY <1>1, Ranges DEF Inv, TypeOK
    <3>2. cache'.at = offered.at /\ (cache'.active => offered.active /\ ~IsStoppedRun(offered))
      BY <2>1, <3>1 DEF ShowGuarded, Reading
    <3>3. CASE Applicable(r)
      <4>1. SUFFICES ASSUME cache'.active, cache'.at # NoStart, ~(cache'.at > stopped)
                     PROVE  FALSE
        BY <2>1 DEF StoppedRunStaysOff
      <4>2. offered = req.status /\ req.phase = "answered"
        BY <3>3 DEF Applicable
      <4>3. req.status.at <= stopped
        BY <1>1, <3>2, <4>1, <4>2, Ranges
      <4>4. guard # NoGuard /\ req.status.at <= guard.limit /\ guard.age <= req.age
        <5>1. ReadBeforeTheStop(r)
          BY <1>3 DEF OnlyThePollReads
        <5> QED BY <3>2, <4>1, <4>2, <4>3, <5>1 DEF ReadBeforeTheStop
      <4>5. guard.age <= StopGuardTTL
        <5>1. req.age \in Nat /\ req.age <= StopGuardTTL /\ StopGuardTTL \in Nat
          BY <1>1, Ranges, SirenAssumption
        <5>2. guard.age \in Nat
          BY <1>1, <4>4, SirenAssumption DEF Inv, TypeOK
        <5> QED BY <4>4, <5>1, <5>2
      <4>6. IsStoppedRun(offered)
        BY <3>2, <4>1, <4>2, <4>4, <4>5 DEF IsStoppedRun
      <4> QED BY <3>2, <4>1, <4>6
    <3>4. CASE ~Applicable(r)
      BY <1>3, <2>1, <3>2, <3>4 DEF StoppedRunStaysOff, OnlyThePollReads
    <3> QED BY <3>3, <3>4
  <2> QED BY <1>5, <2>3, <2>4 DEF OnlyThePollReads
<1>9. CASE MarkStopped
  <2>1. /\ guard' = [limit |-> RunToStop, age |-> 0] /\ cache' = [cache EXCEPT !.active = FALSE]
        /\ stopped' = RunStopped /\ UNCHANGED requests
    BY <1>9 DEF MarkStopped
  <2>2. StoppedRunStaysOff'
    BY <1>1, <2>1 DEF StoppedRunStaysOff, Inv, TypeOK, Reading
  <2>3. ASSUME NEW r \in Requester PROVE ReadBeforeTheStop(r)'
    <3>1. requests[r].status.at <= console.run /\ requests[r].status.at \in Nat /\ requests[r].age \in Nat
          /\ console.run \in Nat /\ cache.at \in Nat /\ stopping \in Int
      BY <1>1, Ranges
    <3>2. RunToStop \in Nat /\ RunToStop # NoRun
      BY <3>1 DEF RunToStop, NoRun
    <3>3. guard' # NoGuard /\ guard'.limit = RunToStop /\ guard'.age = 0
      BY <2>1, <3>2 DEF NoGuard
    <3>4. requests[r].status.at <= RunStopped => requests[r].status.at <= RunToStop
      BY <3>1 DEF RunToStop, RunStopped, NoStart
    <3> QED BY <2>1, <3>1, <3>3, <3>4 DEF ReadBeforeTheStop
  <2> QED BY <1>3, <1>5, <2>1, <2>2, <2>3 DEF OnlyThePollReads
<1>10. CASE Tick
  <2>1. /\ UNCHANGED <<cache, stopped>>
        /\ guard' = IF guard # NoGuard /\ guard.age <= StopGuardTTL
                    THEN [guard EXCEPT !.age = @ + 1] ELSE guard
    BY <1>10 DEF Tick, history
  <2>2. ASSUME NEW r \in Requester
        PROVE  /\ requests'[r].phase = requests[r].phase /\ requests'[r].status = requests[r].status
               /\ requests[r].phase # "idle" => requests'[r].age = requests[r].age + 1
    BY <1>1, <1>10, Ranges DEF Tick
  <2>3. ASSUME NEW r \in Requester PROVE ReadBeforeTheStop(r)'
    <3>1. SUFFICES ASSUME requests[r].phase = "answered", requests[r].status.active,
                          requests[r].status.at # NoStart, requests[r].status.at <= stopped
                   PROVE  guard' # NoGuard /\ requests[r].status.at <= guard'.limit
                            /\ guard'.age <= requests[r].age + 1
      BY <2>1, <2>2 DEF ReadBeforeTheStop
    <3>2. guard # NoGuard /\ requests[r].status.at <= guard.limit /\ guard.age <= requests[r].age
      BY <1>3, <3>1 DEF OnlyThePollReads, ReadBeforeTheStop
    <3>3. guard \in [limit : 0 .. MaxRuns, age : 0 .. StopGuardTTL + 1] /\ requests[r].age \in Nat
      BY <1>1, <3>2, Ranges DEF Inv, TypeOK
    <3>4. guard.limit \in Nat /\ guard.age \in Nat
      BY <3>3, SirenAssumption
    <3>5. guard'.limit = guard.limit /\ guard'.age \in {guard.age, guard.age + 1}
      BY <2>1, <3>3
    <3>6. guard' # NoGuard
      BY <3>4, <3>5 DEF NoGuard, NoRun
    <3> QED BY <3>2, <3>3, <3>4, <3>5, <3>6
  <2> QED BY <1>3, <1>5, <2>1, <2>2, <2>3 DEF OnlyThePollReads, StoppedRunStaysOff
<1> QED BY <1>2, <1>4, <1>6, <1>7, <1>8, <1>9, <1>10
        DEF Next, vars, history, RunStarts, RunEnds, StopAtConsole, StopTimesOut

(* Until the stream is up the poll alone reads sirens, and a siren stopped *)
(* in Home Assistant stays off: a reading of the stopped run that was on   *)
(* its way meets the guard, which outlives every request (for any bounds   *)
(* with a request's timeout within the guard's time to live).              *)
THEOREM OneReaderIsSafe == Spec => []StopHoldsWithOneReader
<1>1. Init => OneReaderInv
  <2> SUFFICES ASSUME Init PROVE OneReaderInv
    OBVIOUS
  <2>1. Inv
    BY InitInv
  <2> QED BY <2>1 DEF OneReaderInv, Init, StopsArePast, OnlyThePollReads, ReadBeforeTheStop,
                      StoppedRunStaysOff, Idle, NoRun, NoStart
<1>2. OneReaderInv /\ [Next]_vars => OneReaderInv'
  BY InvStep, StopsArePastStep, OnlyThePollReadsStep DEF OneReaderInv
<1>3. OneReaderInv => StopHoldsWithOneReader
  BY DEF OneReaderInv, StopHoldsWithOneReader, OnlyThePollReads
<1> QED BY <1>1, <1>2, <1>3, PTL DEF Spec

=============================================================================
