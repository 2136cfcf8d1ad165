----------------------------- MODULE SirenGuard -----------------------------
(***************************************************************************)
(* A Protect siren stopped from Home Assistant. Protect sends no frame     *)
(* after a manual stop, so mark_siren_stopped shows the siren off at once  *)
(* and the reconciler remembers the stopped run: a reading already on its  *)
(* way, which still says active, must not switch the siren back on.        *)
(*                                                                         *)
(* Sirens are read by the 30 s poll (_async_update_data) and, once the     *)
(* stream is up, also by the reconcile timer (_reconcile_sirens); nothing  *)
(* orders the two requests. A frame of any siren bumps a generation that   *)
(* voids every request begun before it.                                    *)
(*                                                                         *)
(* A run of the siren is its number, which stands for its activatedAt.     *)
(***************************************************************************)
EXTENDS Integers

CONSTANTS
  Requester,        \* who reads sirens: the poll, and timers that need the stream
  RequestTimeout,   \* the API client's timeout, in clock units
  StopGuardTTL,     \* SIREN_STOP_GUARD_TTL, in the same units
  StartMayBeAbsent, \* may a reading lack activatedAt?
  MaxRuns,          \* bound: runs of the siren
  MaxFrames,        \* bound: siren frames
  MaxStops          \* bound: stop commands

ASSUME SirenAssumption ==
  /\ {RequestTimeout, StopGuardTTL, MaxRuns, MaxFrames, MaxStops} \subseteq Nat
  /\ RequestTimeout <= StopGuardTTL
  /\ StartMayBeAbsent \in BOOLEAN

VARIABLES
  streamUp,    \* has the stream been started (async_start_websocket)?
  console,     \* what the siren is really doing
  stream,      \* the siren frame on its way, if any
  cache,       \* the siren's cached sirenStatus
  generation,  \* ws_generation["sirens"]
  guard,       \* siren_stops: the stop remembered, if any
  requests,    \* the siren requests of each requester
  stopping,    \* a stop command: the run it hit at the console, not yet marked
  stops,       \* stop commands sent so far
  stopped,     \* history: the run the last marked stop was for, as far as the
               \*   cache knew it, else the one the console stopped
  runAtMark,   \* history: newest run begun when the last stop was marked
  framed       \* history: the run the last status frame named

vars == <<streamUp, console, stream, cache, generation, guard, requests, stopping,
          stops, stopped, runAtMark, framed>>

history == <<stopped, runAtMark, framed>>

NoStart == 0            \* the reading has no activatedAt
NoRun == -1
NoFrame == [kind |-> "none"]
Telemetry == [kind |-> "telemetry"]
NoGuard == [limit |-> NoRun, age |-> 0]

Reading == [active : BOOLEAN, at : 0 .. MaxRuns]
StatusFrame == [kind : {"status"}, status : Reading]
Idle == [phase |-> "idle", gen |-> 0, age |-> 0,
         status |-> [active |-> FALSE, at |-> NoStart]]

TypeOK ==
  /\ streamUp \in BOOLEAN
  /\ console \in [active : BOOLEAN, run : 0 .. MaxRuns]
  /\ stream \in {NoFrame, Telemetry} \cup StatusFrame
  /\ cache \in Reading
  /\ generation \in 0 .. MaxFrames
  /\ guard \in [limit : 0 .. MaxRuns, age : 0 .. StopGuardTTL + 1] \cup {NoGuard}
  /\ requests \in [Requester -> [phase : {"idle", "sent", "answered", "failed"},
                                 gen : 0 .. MaxFrames, age : 0 .. RequestTimeout,
                                 status : Reading]]
  /\ stopping \in 0 .. MaxRuns \cup {NoRun}
  /\ stops \in 0 .. MaxStops
  /\ stopped \in 0 .. MaxRuns \cup {NoRun}
  /\ runAtMark \in 0 .. MaxRuns
  /\ framed \in 0 .. MaxRuns

Init ==
  /\ streamUp = FALSE
  /\ console = [active |-> FALSE, run |-> 0]
  /\ stream = NoFrame
  /\ cache = [active |-> FALSE, at |-> NoStart]
  /\ generation = 0
  /\ guard = NoGuard
  /\ requests = [r \in Requester |-> Idle]
  /\ stopping = NoRun
  /\ stops = 0
  /\ stopped = NoRun
  /\ runAtMark = 0
  /\ framed = 0

-----------------------------------------------------------------------------
(* The console. A run may begin and end without a frame; activatedAt keeps *)
(* the last run's start while idle, and a reading may lack it.             *)

Readings == {[active |-> console.active, at |-> start] :
               start \in {console.run} \cup (IF StartMayBeAbsent THEN {NoStart} ELSE {})}

(* The first poll comes before the stream and its timers are started.      *)
StreamStarts ==
  /\ ~streamUp
  /\ streamUp' = TRUE
  /\ UNCHANGED <<console, stream, cache, generation, guard, requests, stopping,
                 stops, history>>

RunStarts ==
  /\ console.run < MaxRuns
  /\ console' = [active |-> TRUE, run |-> console.run + 1]
  /\ UNCHANGED <<streamUp, stream, cache, generation, guard, requests, stopping, stops, history>>

RunEnds ==
  /\ console.active
  /\ console' = [console EXCEPT !.active = FALSE]
  /\ UNCHANGED <<streamUp, stream, cache, generation, guard, requests, stopping, stops, history>>

SendFrame ==
  /\ streamUp
  /\ stream = NoFrame
  /\ generation < MaxFrames
  /\ stream' \in {Telemetry} \cup {[kind |-> "status", status |-> s] : s \in Readings}
  /\ UNCHANGED <<streamUp, console, cache, generation, guard, requests, stopping, stops, history>>

-----------------------------------------------------------------------------
(* _apply_siren_stop_guards on a status the cache is about to show: off    *)
(* while it is the stopped run, and the guard ends with the first other    *)
(* status or with its time to live.                                        *)

IsStoppedRun_NoTTL(status) ==
  guard # NoGuard /\ status.active /\ status.at # NoStart /\ status.at <= guard.limit

IsStoppedRun(status) ==
  /\ guard # NoGuard
  /\ guard.age <= StopGuardTTL
  /\ status.active
  /\ status.at # NoStart
  /\ status.at <= guard.limit

ShowGuarded(status) ==
  IF IsStoppedRun(status)
  THEN cache' = [status EXCEPT !.active = FALSE] /\ UNCHANGED guard
  ELSE cache' = status /\ guard' = NoGuard

(* A frame is merged deeply: a start it leaves out stays as cached.        *)
Merged ==
  IF stream = Telemetry THEN cache
  ELSE IF stream.status.at = NoStart THEN [stream.status EXCEPT !.at = cache.at]
  ELSE stream.status

FrameArrives ==
  /\ stream # NoFrame
  /\ stream' = NoFrame
  /\ generation' = generation + 1
  /\ ShowGuarded(Merged)
  /\ framed' = IF stream # Telemetry /\ stream.status.at # NoStart
               THEN stream.status.at ELSE framed
  /\ UNCHANGED <<streamUp, console, requests, stopping, stops, stopped, runAtMark>>

-----------------------------------------------------------------------------
(* A request: stamped with the generation before its await, answered (the  *)
(* answer does not overtake a frame sent before it) or failed, applied.    *)

SendRequest(r) ==
  /\ r # "poll" => streamUp
  /\ requests[r].phase = "idle"
  /\ requests' = [requests EXCEPT ![r] =
                    [phase |-> "sent", gen |-> generation, age |-> 0,
                     status |-> Idle.status]]
  /\ UNCHANGED <<streamUp, console, stream, cache, generation, guard, stopping, stops, history>>

ConsoleAnswers(r) ==
  /\ requests[r].phase = "sent"
  /\ stream = NoFrame
  /\ \E s \in Readings :
       requests' = [requests EXCEPT ![r] =
                      [phase |-> "answered", gen |-> requests[r].gen,
                       age |-> requests[r].age, status |-> s]]
  /\ UNCHANGED <<streamUp, console, stream, cache, generation, guard, stopping, stops, history>>

RequestFails(r) ==
  /\ requests[r].phase = "sent"
  /\ requests' = [requests EXCEPT ![r].phase = "failed"]
  /\ UNCHANGED <<streamUp, console, stream, cache, generation, guard, stopping, stops, history>>

(* A failed request (NoAnswer) and an overtaken one bring no status, but   *)
(* the guards run over what is cached after every siren batch.             *)
Applicable_NoGeneration(r) == requests[r].phase = "answered"

Applicable(r) == requests[r].phase = "answered" /\ requests[r].gen = generation

ApplyBatch(r) ==
  /\ requests[r].phase \in {"answered", "failed"}
  /\ requests' = [requests EXCEPT ![r] = Idle]
  /\ ShowGuarded(IF Applicable(r) THEN requests[r].status ELSE cache)
  /\ UNCHANGED <<streamUp, console, stream, generation, stopping, stops, history>>

-----------------------------------------------------------------------------
(* async_stop_siren: the command stops the siren at the console; when its  *)
(* await returns, SirenStopped is applied. A command that times out may    *)
(* have stopped the siren all the same, and marks nothing.                 *)

StopAtConsole ==
  /\ stopping = NoRun
  /\ stops < MaxStops
  /\ stops' = stops + 1
  /\ stopping' = console.run
  /\ console' = [console EXCEPT !.active = FALSE]
  /\ UNCHANGED <<streamUp, stream, cache, generation, guard, requests, history>>

(* The stopped run is known by its cached start, else by the wall time of  *)
(* the stop (every run so far began before it: the clocks agree).          *)
RunToStop == IF cache.at # NoStart THEN cache.at ELSE console.run
RunStopped == IF cache.at \in 1 .. stopping THEN cache.at ELSE stopping

MarkStopped_NotRemembered ==
  /\ stopping # NoRun
  /\ guard' = NoGuard
  /\ cache' = [cache EXCEPT !.active = FALSE]
  /\ stopped' = RunStopped
  /\ runAtMark' = console.run
  /\ stopping' = NoRun
  /\ UNCHANGED <<streamUp, console, stream, generation, requests, stops, framed>>

MarkStopped ==
  /\ stopping # NoRun
  /\ guard' = [limit |-> RunToStop, age |-> 0]
  /\ cache' = [cache EXCEPT !.active = FALSE]
  /\ stopped' = RunStopped
  /\ runAtMark' = console.run
  /\ stopping' = NoRun
  /\ UNCHANGED <<streamUp, console, stream, generation, requests, stops, framed>>

StopTimesOut ==
  /\ stopping # NoRun
  /\ stopping' = NoRun
  /\ UNCHANGED <<streamUp, console, stream, cache, generation, guard, requests, stops, history>>

(* Time. A request that has reached the client's timeout ends first.       *)
Tick ==
  /\ \A r \in Requester : requests[r].phase # "idle" => requests[r].age < RequestTimeout
  /\ requests' = [r \in Requester |-> IF requests[r].phase = "idle" THEN requests[r]
                                      ELSE [requests[r] EXCEPT !.age = @ + 1]]
  /\ guard' = IF guard # NoGuard /\ guard.age <= StopGuardTTL
              THEN [guard EXCEPT !.age = @ + 1] ELSE guard
  /\ UNCHANGED <<streamUp, console, stream, cache, generation, stopping, stops, history>>

-----------------------------------------------------------------------------
Next ==
  \/ StreamStarts
  \/ RunStarts
  \/ RunEnds
  \/ SendFrame
  \/ FrameArrives
  \/ \E r \in Requester : SendRequest(r) \/ ConsoleAnswers(r) \/ RequestFails(r)
                          \/ ApplyBatch(r)
  \/ StopAtConsole
  \/ MarkStopped
  \/ StopTimesOut
  \/ Tick

Spec == Init /\ [][Next]_vars

(* Requests keep being made by their timers and end by their timeout; time *)
(* passes; a console that is asked for ever answers for ever.              *)
FairSpec ==
  /\ Spec
  /\ WF_vars(FrameArrives) /\ WF_vars(Tick) /\ WF_vars(MarkStopped \/ StopTimesOut)
  /\ \A r \in Requester : /\ WF_vars(SendRequest(r))
                          /\ SF_vars(ConsoleAnswers(r))
                          /\ WF_vars(ApplyBatch(r))

-----------------------------------------------------------------------------
(* A siren stopped in Home Assistant stays off: no reading that names the  *)
(* stopped run switches it back on, whatever ended the guard (the doc of   *)
(* mark_siren_stopped promises it of every reading already on its way).    *)
StoppedRunStaysOff ==
  cache.active /\ cache.at # NoStart => cache.at > stopped

(* As long as the poll is the only reader, that promise is kept.           *)
StopHoldsWithOneReader == ~streamUp => StoppedRunStaysOff

(* The guard never hides a run that began after the stop was marked, when  *)
(* an answer names it (_apply_siren_stop_guards).                          *)
NewRunIsBelieved ==
  [][\A r \in Requester :
       /\ requests[r].phase = "answered" /\ requests'[r].phase = "idle"
       /\ requests[r].gen = generation
       /\ requests[r].status.active /\ requests[r].status.at > runAtMark
       => cache'.active]_vars

(* No answer of either requester puts back a run older than the one a      *)
(* frame has shown: the generation voids every request begun before it.    *)
AnswersNeverUndoAFrame == cache.at # NoStart => cache.at >= framed

(* When runs, stops and frames cease, the siren ends up shown as it is,    *)
(* even if a guard wrongly took a new run for the stopped one.             *)
ShowsTheConsole == <>[](cache.active = console.active)

=============================================================================
