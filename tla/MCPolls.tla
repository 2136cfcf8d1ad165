------------------------------ MODULE MCPolls ------------------------------
(***************************************************************************)
(* What polls bring against what happens around them: a door sensor's      *)
(* frames (Protect), and of the Network device coordinator the pending     *)
(* writes of outlets and the clean-up of stale devices. The three share no *)
(* state, so each behaviour moves one of them.                             *)
(***************************************************************************)
EXTENDS SensorPreservation, OutletWrites, StaleDevices

VARIABLE part

pollsVars == <<part, vars, outletVars, staleVars>>

PollsInit ==
  /\ part \in {"sensor", "outlets", "stale"}
  /\ Init /\ (part # "sensor" => restLags /\ doorTs = 0)
  /\ OutletInit /\ (part # "outlets" => ~overridden)
  /\ StaleInit /\ (part # "stale" => ~named /\ adopted = {})

Sensor(action) == part = "sensor" /\ action /\ UNCHANGED <<part, outletVars, staleVars>>
Outlets(action) == part = "outlets" /\ action /\ UNCHANGED <<part, vars, staleVars>>
Stale(action) == part = "stale" /\ action /\ UNCHANGED <<part, vars, outletVars>>

PollsNext == Sensor(Next) \/ Outlets(OutletNext) \/ Stale(StaleNext)

(* Polls keep asking; a console asked for ever answers for ever, an answer *)
(* that may be right is right again and again, and so are two v1 answers   *)
(* in a row. PUTs end, arrays catch up.                                    *)
PollsSpec ==
  /\ PollsInit
  /\ [][PollsNext]_pollsVars
  /\ WF_pollsVars(Sensor(BeginRequest)) /\ SF_pollsVars(Sensor(ConsoleAnswers))
  /\ WF_pollsVars(Sensor(ApplyAnswer))
  /\ WF_pollsVars(Outlets(PollStarts)) /\ SF_pollsVars(Outlets(PollCompletes))
  /\ WF_pollsVars(Outlets(PutSucceeds \/ PutFails)) /\ WF_pollsVars(Outlets(OutletTick))
  /\ WF_pollsVars(Outlets(CatchUp))
  /\ WF_pollsVars(Stale(V1Poll)) /\ SF_pollsVars(Stale(RightPoll))

=============================================================================
