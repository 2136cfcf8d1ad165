------------------------------- MODULE MCLive -------------------------------
(***************************************************************************)
(* The tasks that must end: Protect's reading of alarm hubs and its shared *)
(* sensor refresh, and the tasks of the Access coordinator. They share no  *)
(* state, so each behaviour moves one of them, chosen by `part`.           *)
(***************************************************************************)
EXTENDS TamperOverlay, SensorRefresh, AccessSession

VARIABLE part

liveVars == <<part, tamperVars, refreshVars, sessionVars>>

LiveInit ==
  /\ part \in {"tamper", "refresh", "session"}
  /\ TamperInit /\ (part # "tamper" => restHasField)
  /\ RefreshInit
  /\ SessionInit

Tamper(action) == part = "tamper" /\ action /\ UNCHANGED <<part, refreshVars, sessionVars>>
Refresh(action) == part = "refresh" /\ action /\ UNCHANGED <<part, tamperVars, sessionVars>>
Session(action) == part = "session" /\ action /\ UNCHANGED <<part, tamperVars, refreshVars>>

LiveNext == Tamper(TamperNext) \/ Refresh(RefreshNext) \/ Session(SessionNext)

(* The poll keeps asking for the alarm hubs, and a console asked for ever  *)
(* answers for ever. Requests time out, a cancelled task is told so and    *)
(* ends, and the event loop runs what it has scheduled.                    *)
LiveSpec ==
  /\ LiveInit
  /\ [][LiveNext]_liveVars
  /\ WF_liveVars(Tamper(BeginAsk)) /\ SF_liveVars(Tamper(HubAnswers))
  /\ WF_liveVars(Tamper(ApplyAsk)) /\ WF_liveVars(Tamper(TamperTick))
  /\ \A c \in Caller : /\ WF_liveVars(Refresh(FetchEnds(c)))
                       /\ WF_liveVars(Refresh(Resumes(c)))
  /\ WF_liveVars(Session(SocketEnds))
  /\ \A p \in Proc : /\ WF_liveVars(Session(SocketGone(p)))
                     /\ WF_liveVars(Session(StopReturns(p)))
  /\ \A q \in Refresher : WF_liveVars(Session(CancelLands(q)))

=============================================================================
