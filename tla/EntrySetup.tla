------------------------------ MODULE EntrySetup ------------------------------
(***************************************************************************)
(* The setup of one console entry, from the probes to the loaded entry,    *)
(* its retries, and its unload. Each attempt probes the three applications *)
(* in turn, decides whether to go on, to retry later or to ask for a new   *)
(* key, fetches the first data, and then starts what the entry owns. Two   *)
(* retry budgets outlive an attempt.                                       *)
(***************************************************************************)
EXTENDS Naturals

CONSTANTS
  Retries,            \* SETUP_PROBE_RETRIES
  MaxRefreshFailures  \* bound: first refreshes that fail

ASSUME SetupAssumption == Retries \in Nat \ {0} /\ MaxRefreshFailures \in Nat

App == {"network", "protect", "innerspace"}

VARIABLES
  remote,      \* is it a cloud entry?
  step,        \* where the entry's setup is
  probe,       \* the probe results of this attempt
  partial,     \* budgets["partial"]
  inconclusive,\* budgets["inconclusive"]
  live,        \* what the entry has running or registered
  registered,  \* of it, what entry.async_on_unload will end
  refreshFailures,
  emptyTries   \* history: inconclusive retries since the budgets were cleared

setupVars == <<remote, step, probe, partial, inconclusive, live, registered,
               refreshFailures, emptyTries>>

ProbeStatus == {"available", "empty", "unsupported", "authFailed", "unreachable", "error", "none"}
Resource == {"protectSocket", "access", "account", "mobility", "webhook", "platforms", "listener"}
NoProbes == [a \in App |-> "none"]

SetupTypeOK ==
  /\ remote \in BOOLEAN
  /\ step \in {"idle", "network", "protect", "innerspace", "decide", "refresh", "protectSocket",
               "access", "account", "mobility", "webhook", "platforms", "listener",
               "loaded", "retry", "reauth", "rejected", "unloading", "failed"}
  /\ probe \in [App -> ProbeStatus]
  /\ partial \in 0 .. Retries /\ inconclusive \in 0 .. Retries
  /\ live \subseteq Resource /\ registered \subseteq Resource
  /\ refreshFailures \in 0 .. MaxRefreshFailures
  /\ emptyTries \in 0 .. Retries + 1

SetupInit ==
  /\ remote \in BOOLEAN
  /\ step = "idle"
  /\ probe = NoProbes
  /\ partial = 0 /\ inconclusive = 0
  /\ live = {} /\ registered = {}
  /\ refreshFailures = 0
  /\ emptyTries = 0

-----------------------------------------------------------------------------
(* classify_error and the probes: the status each answer leads to. Lists   *)
(* that do not parse count as an application that is not there, a single   *)
(* record (the NVR, the project) that does not parse as an error.          *)
Answer == {"records", "none", "rejected", "down", "refused", "badList", "badRecord"}

Classified(answer) ==
  CASE answer = "records" -> "available"
    [] answer = "none" -> "empty"
    [] answer = "rejected" -> "authFailed"
    [] answer = "down" -> "unreachable"
    [] answer = "badRecord" -> "error"
    [] OTHER -> "unsupported"

(* An attempt starts: at once, or after Home Assistant's retry delay.      *)
Start ==
  /\ step \in {"idle", "retry"}
  /\ step' = "network" /\ probe' = NoProbes
  /\ UNCHANGED <<remote, partial, inconclusive, live, registered,
                 refreshFailures, emptyTries>>

NextStep == [network |-> "protect", protect |-> "innerspace", innerspace |-> "decide",
             refresh |-> "protectSocket", protectSocket |-> "access", access |-> "account",
             account |-> "mobility", mobility |-> "webhook", webhook |-> "platforms",
             platforms |-> "listener", listener |-> "loaded"]

Probe ==
  /\ step \in App
  /\ \E answer \in Answer : probe' = [probe EXCEPT ![step] = Classified(answer)]
  /\ step' = NextStep[step]
  /\ UNCHANGED <<remote, partial, inconclusive, live, registered,
                 refreshFailures, emptyTries>>

-----------------------------------------------------------------------------
Some(status) == \E a \in App : probe[a] = status

ClearBudgets ==
  partial' = 0 /\ inconclusive' = 0 /\ emptyTries' = 0

Counted(n) == IF n <= Retries THEN n + 1 ELSE n

(* Nothing usable, and something is down: retry for as long as that lasts. *)
RetryOutage_Counts ==
  /\ Some("unreachable") /\ ~Some("available")
  /\ step' = "retry"
  /\ inconclusive' = IF inconclusive < Retries THEN inconclusive + 1 ELSE inconclusive
  /\ UNCHANGED <<partial, emptyTries>>

RetryOutage ==
  /\ Some("unreachable") /\ ~Some("available")
  /\ step' = "retry"
  /\ UNCHANGED <<partial, inconclusive, emptyTries>>

(* One usable, another one down: retry, on a budget of its own.            *)
RetryPartial_Free ==
  /\ Some("unreachable") /\ Some("available") /\ partial < Retries
  /\ step' = "retry"
  /\ UNCHANGED <<partial, inconclusive, emptyTries>>

RetryPartial ==
  /\ Some("unreachable") /\ Some("available") /\ partial < Retries
  /\ step' = "retry"
  /\ partial' = partial + 1
  /\ UNCHANGED <<inconclusive, emptyTries>>

(* One usable, and the others answered or are out of budget: go on.        *)
Proceed ==
  /\ Some("available") /\ (Some("unreachable") => partial = Retries)
  /\ step' = "refresh"
  /\ ClearBudgets

(* None usable, a key rejected.                                            *)
AskForKey ==
  /\ ~Some("available") /\ ~Some("unreachable") /\ Some("authFailed")
  /\ step' = "reauth"
  /\ ClearBudgets

(* None usable and nothing more specific: on a budget, then reauth.        *)
RetryInconclusive ==
  /\ ~Some("available") /\ ~Some("unreachable") /\ ~Some("authFailed")
  /\ inconclusive < Retries
  /\ step' = "retry"
  /\ inconclusive' = inconclusive + 1 /\ emptyTries' = Counted(emptyTries)
  /\ UNCHANGED partial

GiveUp ==
  /\ ~Some("available") /\ ~Some("unreachable") /\ ~Some("authFailed")
  /\ inconclusive = Retries
  /\ step' = "reauth"
  /\ partial' = 0 /\ inconclusive' = 0
  /\ UNCHANGED emptyTries

Decide ==
  /\ step = "decide"
  /\ \/ RetryOutage \/ RetryPartial \/ Proceed
     \/ AskForKey \/ RetryInconclusive \/ GiveUp
  /\ UNCHANGED <<remote, probe, live, registered, refreshFailures>>

-----------------------------------------------------------------------------
(* What the entry owns is started in this order. The first refresh, and    *)
(* every later step, may raise: Home Assistant then ends what was          *)
(* registered, the setup itself releases the account, and it is retried,   *)
(* or a new key is asked for if the first refresh was rejected.            *)
Refresh ==
  /\ step = "refresh"
  /\ step' = NextStep[step]
  /\ UNCHANGED <<remote, probe, partial, inconclusive, live, registered,
                 refreshFailures, emptyTries>>

Wanted(r) ==
  CASE r = "protectSocket" -> {probe["protect"] = "available"}
    [] r = "access" -> {FALSE, ~remote}
    [] r = "account" -> {remote}
    [] r = "mobility" -> {FALSE, remote}
    [] r = "webhook" -> {FALSE, "access" \in live}
    [] OTHER -> {TRUE}

(* The account is the only thing no callback is registered for; the        *)
(* platforms are unloaded by async_unload_entry.                           *)
OnUnload == Resource \ {"account", "platforms"}

StartResource ==
  /\ step \in Resource
  /\ \E wanted \in Wanted(step) :
       /\ live' = IF wanted THEN live \cup {step} ELSE live
       /\ registered' = IF wanted /\ step \in OnUnload THEN registered \cup {step}
                        ELSE registered
  /\ step' = NextStep[step]
  /\ UNCHANGED <<remote, probe, partial, inconclusive, refreshFailures,
                 emptyTries>>

Fails_KeepsAccount ==
  /\ step \in {"refresh", "webhook", "platforms"}
  /\ refreshFailures < MaxRefreshFailures
  /\ refreshFailures' = refreshFailures + 1
  /\ live' = live \ registered
  /\ registered' = {}
  /\ step' \in {"retry", "rejected"}
  /\ UNCHANGED <<remote, probe, partial, inconclusive, emptyTries>>

Fails ==
  /\ step \in {"refresh", "webhook", "platforms"}
  /\ refreshFailures < MaxRefreshFailures
  /\ refreshFailures' = refreshFailures + 1
  /\ live' = live \ (registered \cup {"account"})
  /\ registered' = {}
  /\ step' \in {"retry", "rejected"}
  /\ UNCHANGED <<remote, probe, partial, inconclusive, emptyTries>>

-----------------------------------------------------------------------------
(* async_unload_entry: the budgets are cleared; if a platform stays, so    *)
(* does everything else. The clients and the account follow.               *)
UnloadPlatforms ==
  /\ step = "loaded"
  /\ ClearBudgets
  /\ \/ step' = "unloading" /\ live' = live \ {"platforms"}
     \/ step' = "failed" /\ UNCHANGED live
  /\ UNCHANGED <<remote, probe, registered, refreshFailures>>

UnloadRest ==
  /\ step = "unloading"
  /\ live' = live \ (registered \cup {"account"})
  /\ registered' = {}
  /\ step' = "idle"
  /\ UNCHANGED <<remote, probe, partial, inconclusive, refreshFailures,
                 emptyTries>>

(* The user gives the key the reauth flow asks for.                        *)
NewKeyGiven ==
  /\ step \in {"reauth", "rejected"}
  /\ step' = "idle" /\ emptyTries' = 0
  /\ UNCHANGED <<remote, probe, partial, inconclusive, live, registered, refreshFailures>>

SetupProgress ==
  Start \/ Probe \/ Decide \/ Refresh \/ StartResource \/ UnloadRest \/ NewKeyGiven

SetupNext ==
  SetupProgress \/ Fails \/ UnloadPlatforms

SetupSpec == SetupInit /\ [][SetupNext]_setupVars /\ WF_setupVars(SetupProgress)

-----------------------------------------------------------------------------
(* The user is asked for a new key only on evidence about the key: nothing *)
(* was usable and nothing unreachable in this attempt, and either a probe  *)
(* was rejected or the answers had been inconclusive in a whole budget of  *)
(* attempts, none of them spent by an outage or a partial outage.          *)
VerdictsNeedEvidence ==
  step = "reauth" =>
    /\ ~Some("available") /\ ~Some("unreachable")
    /\ Some("authFailed") \/ emptyTries >= Retries

(* However far a setup got before it failed, an entry that is not set up   *)
(* has nothing running: no socket, no Access client or receiver, no seat   *)
(* in an account, no Mobility row, no update listener.                     *)
NothingLeftBehind ==
  step \in {"idle", "network", "protect", "innerspace", "decide", "refresh", "retry", "reauth",
           "rejected"}
    => live = {} /\ registered = {}

(* If an enabled entry's Network probe is good from some time on, the      *)
(* entry is loaded again and again, whatever the other applications do:    *)
(* one that is down at every attempt cannot keep it offline.               *)
WorkingAppLoads ==
  <>[](probe["network"] \in {"none", "available"}) /\ []<>(step # "idle")
    => []<>(step \in {"loaded", "failed"})

(* What a setup decides is justified, what it leaves is clean, and what    *)
(* works is brought up.                                                    *)
SetupIsSound == [](SetupTypeOK /\ VerdictsNeedEvidence /\ NothingLeftBehind) /\ WorkingAppLoads
=============================================================================
