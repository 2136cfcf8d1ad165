-------------------------- MODULE Requests_proofs ---------------------------
(***************************************************************************)
(* Theorems about what is asked of the integration from outside. UniFi     *)
(* Access: emergency commands, for any number of them; stopping, for any   *)
(* number of debounced refreshes; the receiver, for any deliveries and any *)
(* sizes of cache and window; the endpoint it registers, whatever requests *)
(* fail. What the service actions and the dashboard cards rest on: the     *)
(* routing of Protect and Network calls, the calls to several consoles,    *)
(* the facade's snapshot, the calls to Carrier Fabric, and the streams,    *)
(* each for any consoles, sites, devices and clients, and together.        *)
(***************************************************************************)
EXTENDS AccessEmergency, AccessSession, AccessWebhook, AccessEndpoint, MCServices,
        FiniteSetTheorems, TLAPS

-----------------------------------------------------------------------------
(* Who is inside the lock holds it, and what it decided still fits the     *)
(* console's pair, unless that was touched since.                          *)
InLock(c) == cmd[c].phase \in {"asked", "decided", "written", "checked"}
LockIsHeld == \A c \in Command : InLock(c) => holder = c
DecisionFits ==
  \A c \in Command :
    cmd[c].phase = "decided" /\ ~touched =>
      cmd[c].target = EmergencyTarget(cmd[c].mode, cmd[c].enabled, modes)

EmergencyInv == EmergencyTypeOK /\ LockIsHeld /\ DecisionFits

CmdRecord == [phase : {"done", "waiting", "asked", "decided", "written", "checked"},
              mode : {"lockdown", "evacuation"}, enabled : BOOLEAN, target : Pair]

LEMMA TargetIsAPair ==
  ASSUME NEW mode \in {"lockdown", "evacuation"}, NEW enabled \in BOOLEAN, NEW pair \in Pair
  PROVE  EmergencyTarget(mode, enabled, pair) \in Pair
BY DEF EmergencyTarget, Pair

(* What emergency_target computes: the mode asked for, and the other one   *)
(* as it was, or off when the one asked for is turned on.                  *)
LEMMA TargetKeepsTheOther ==
  ASSUME NEW enabled \in BOOLEAN, NEW pair \in Pair
  PROVE  /\ EmergencyTarget("lockdown", enabled, pair)["lockdown"] = enabled
         /\ EmergencyTarget("lockdown", enabled, pair)["evacuation"] = (pair["evacuation"] /\ ~enabled)
         /\ EmergencyTarget("evacuation", enabled, pair)["evacuation"] = enabled
         /\ EmergencyTarget("evacuation", enabled, pair)["lockdown"] = (pair["lockdown"] /\ ~enabled)
<1>1. CASE enabled
  BY <1>1 DEF EmergencyTarget
<1>2. CASE ~enabled
  BY <1>2 DEF EmergencyTarget, Pair
<1>3. QED
  BY <1>1, <1>2

(* One command moves to another phase: the invariant holds again if the    *)
(* command keeps to the lock and to what it decided, and nothing that      *)
(* others decided upon changes.                                            *)
LEMMA CommandMoves ==
  ASSUME EmergencyInv, NEW c \in Command, NEW v \in CmdRecord,
         cmd' = [cmd EXCEPT ![c] = v],
         modes' \in Pair, late' \in SUBSET Pair, touched' \in BOOLEAN, rejected' \in BOOLEAN,
         holder' \in Command \cup {NoCommand},
         v.phase \in {"asked", "decided", "written", "checked"} => holder' = c,
         v.phase = "decided" /\ ~touched' => v.target = EmergencyTarget(v.mode, v.enabled, modes'),
         \/ holder' = holder
         \/ holder = NoCommand
         \/ holder = c,
         \/ modes' = modes /\ touched' = touched
         \/ holder = c
  PROVE  EmergencyInv'
<1>1. cmd \in [Command -> CmdRecord]
  BY DEF EmergencyInv, EmergencyTypeOK, CmdRecord
<1>2. cmd' \in [Command -> CmdRecord]
  BY <1>1
<1>3. cmd'[c] = v /\ \A d \in Command \ {c} : cmd'[d] = cmd[d]
  BY <1>1
<1>4. EmergencyTypeOK'
  BY <1>2 DEF EmergencyTypeOK, CmdRecord
<1>5. \A d \in Command : InLock(d) => holder = d
  BY DEF EmergencyInv, LockIsHeld
<1>6. LockIsHeld'
  <2>1. SUFFICES ASSUME NEW d \in Command, InLock(d)' PROVE holder' = d
    BY DEF LockIsHeld
  <2>2. CASE d = c
    BY <2>1, <2>2, <1>3 DEF InLock
  <2>3. CASE d # c
    <3>1. InLock(d)
      BY <2>1, <2>3, <1>3 DEF InLock
    <3>2. holder = d
      BY <3>1, <1>5
    <3>3. QED
      BY <3>2, <2>3, EmergencyAssumption
  <2>4. QED
    BY <2>2, <2>3
<1>7. DecisionFits'
  <2>1. SUFFICES ASSUME NEW d \in Command, cmd'[d].phase = "decided", ~touched'
                 PROVE  cmd'[d].target = EmergencyTarget(cmd'[d].mode, cmd'[d].enabled, modes')
    BY DEF DecisionFits, EmergencyTarget
  <2>2. CASE d = c
    BY <2>1, <2>2, <1>3
  <2>3. CASE d # c
    <3>1. cmd'[d] = cmd[d] /\ InLock(d)
      BY <2>1, <2>3, <1>3 DEF InLock
    <3>2. modes' = modes /\ touched' = touched
      BY <3>1, <1>5, <2>3
    <3>3. QED
      BY <3>1, <3>2, <2>1 DEF EmergencyInv, DecisionFits
  <2>4. QED
    BY <2>2, <2>3
<1>8. QED
  BY <1>4, <1>6, <1>7 DEF EmergencyInv

LEMMA EmergencyStep ==
  ASSUME EmergencyInv, [EmergencyNext]_emergencyVars
  PROVE  EmergencyInv'
<1>1. /\ cmd \in [Command -> CmdRecord] /\ modes \in Pair /\ late \in SUBSET Pair
      /\ touched \in BOOLEAN /\ rejected \in BOOLEAN /\ holder \in Command \cup {NoCommand}
  BY DEF EmergencyInv, EmergencyTypeOK, CmdRecord
<1>2. NoPair \in Pair /\ Done \in CmdRecord
  BY DEF NoPair, Pair, Done, CmdRecord
<1>3. ASSUME NEW c \in Command PROVE InLock(c) => holder = c
  BY DEF EmergencyInv, LockIsHeld
<1>4. ASSUME NEW c \in Command, Calls(c) PROVE EmergencyInv'
  <2>1. PICK mode \in {"lockdown", "evacuation"}, enabled \in BOOLEAN :
          cmd' = [cmd EXCEPT ![c] = [phase |-> "waiting", mode |-> mode, enabled |-> enabled,
                                     target |-> NoPair]]
    BY <1>4 DEF Calls
  <2>2. [phase |-> "waiting", mode |-> mode, enabled |-> enabled, target |-> NoPair] \in CmdRecord
    BY <1>2 DEF CmdRecord
  <2>3. QED
    BY <1>1, <1>4, <2>1, <2>2, CommandMoves DEF Calls
<1>5. ASSUME NEW c \in Command, NEW phase \in {"asked", "written", "checked"},
             cmd' = [cmd EXCEPT ![c].phase = phase], holder' = c, holder \in {c, NoCommand},
             late' = late, rejected' = rejected, touched' = touched, modes' \in Pair,
             modes' = modes \/ holder = c
      PROVE  EmergencyInv'
  <2>1. PICK v \in CmdRecord : v = [cmd[c] EXCEPT !.phase = phase]
    BY <1>1 DEF CmdRecord
  <2>2. cmd' = [cmd EXCEPT ![c] = v] /\ v.phase = phase
    BY <1>1, <1>5, <2>1 DEF CmdRecord
  <2>3. QED
    BY <1>1, <1>5, <2>2, CommandMoves
<1>6. ASSUME NEW c \in Command, Acquires(c) PROVE EmergencyInv'
  BY <1>1, <1>5, <1>6 DEF Acquires, LockIsFree
<1>7. ASSUME NEW c \in Command, Reads(c) PROVE EmergencyInv'
  <2> DEFINE t == EmergencyTarget(cmd[c].mode, cmd[c].enabled, modes)
  <2>1. /\ cmd[c].mode \in {"lockdown", "evacuation"} /\ cmd[c].enabled \in BOOLEAN
        /\ t \in Pair /\ holder = c
    BY <1>1, <1>3, <1>7, TargetIsAPair DEF Reads, InLock, CmdRecord
  <2>2. cmd' = [cmd EXCEPT ![c] = [cmd[c] EXCEPT !.phase = "decided", !.target = t]]
    BY <1>1, <1>7 DEF Reads
  <2> HIDE DEF t
  <2>3. PICK v \in CmdRecord : v = [cmd[c] EXCEPT !.phase = "decided", !.target = t]
    BY <1>1, <2>1 DEF CmdRecord
  <2>4. /\ v.phase = "decided" /\ v.target = t
        /\ v.mode = cmd[c].mode /\ v.enabled = cmd[c].enabled
    BY <1>1, <2>3 DEF CmdRecord
  <2>5. modes' = modes /\ v.target = EmergencyTarget(v.mode, v.enabled, modes')
    BY <1>7, <2>4 DEF t, Reads
  <2>6. cmd' = [cmd EXCEPT ![c] = v] /\ holder' = c /\ touched' \in BOOLEAN
    BY <1>7, <2>1, <2>2, <2>3 DEF Reads
  <2>7. modes' \in Pair /\ late' \in SUBSET Pair /\ rejected' \in BOOLEAN
    BY <1>1, <1>7 DEF Reads
  <2>8. QED
    BY <2>1, <2>4, <2>5, <2>6, <2>7, CommandMoves
<1>8. ASSUME NEW c \in Command, Writes(c) \/ ReadsBack(c) PROVE EmergencyInv'
  <2>1. holder = c /\ cmd[c].target \in Pair
    BY <1>1, <1>3, <1>8 DEF Writes, ReadsBack, InLock, CmdRecord
  <2>2. QED
    BY <1>1, <1>5, <1>8, <2>1 DEF Writes, ReadsBack
<1>9. ASSUME NEW c \in Command, Refreshes(c) \/ CommandFails(c) PROVE EmergencyInv'
  <2>1. holder = c /\ cmd[c].target \in Pair
    BY <1>1, <1>3, <1>9 DEF Refreshes, CommandFails, InLock, CmdRecord
  <2>2. /\ cmd' = [cmd EXCEPT ![c] = Done] /\ holder' = NoCommand
        /\ late' \in SUBSET Pair /\ rejected' \in BOOLEAN /\ modes' = modes /\ touched' = touched
    BY <1>1, <1>9, <2>1 DEF Refreshes, CommandFails, Release
  <2>3. Done.phase = "done"
    BY DEF Done
  <2>4. QED
    BY <1>1, <1>2, <2>1, <2>2, <2>3, CommandMoves
<1>10. ASSUME ConsoleChanges \/ LateWrite PROVE EmergencyInv'
  <2>1. cmd' = cmd /\ holder' = holder /\ touched' /\ modes' \in Pair /\ late' \in SUBSET Pair
        /\ touched' \in BOOLEAN /\ rejected' = rejected
    BY <1>1, <1>10 DEF ConsoleChanges, LateWrite
  <2>2. QED
    BY <1>1, <2>1 DEF EmergencyInv, EmergencyTypeOK, LockIsHeld, DecisionFits, InLock
<1>11. ASSUME UNCHANGED emergencyVars PROVE EmergencyInv'
  BY <1>11 DEF EmergencyInv, EmergencyTypeOK, LockIsHeld, DecisionFits, InLock, emergencyVars,
                EmergencyTarget
<1>12. QED
  BY <1>4, <1>6, <1>7, <1>8, <1>9, <1>10, <1>11 DEF EmergencyNext

LEMMA EmergencyInvariant == EmergencySpec => []EmergencyInv
<1>1. ASSUME EmergencyInit PROVE EmergencyInv
  <2>1. NoPair \in Pair /\ Done \in CmdRecord /\ Done.phase = "done"
    BY DEF NoPair, Pair, Done, CmdRecord
  <2>2. cmd \in [Command -> CmdRecord] /\ \A c \in Command : cmd[c].phase = "done"
    BY <1>1, <2>1 DEF EmergencyInit
  <2>3. EmergencyTypeOK
    BY <1>1, <2>2 DEF EmergencyInit, EmergencyTypeOK, CmdRecord
  <2>4. LockIsHeld /\ DecisionFits
    BY <2>2 DEF LockIsHeld, DecisionFits, InLock
  <2>5. QED
    BY <2>3, <2>4 DEF EmergencyInv
<1>2. QED
  BY <1>1, EmergencyStep, PTL DEF EmergencySpec

(* A mode is only turned off by a command for it or by turning the other   *)
(* on, with any number of commands at once: _emergency_lock and            *)
(* emergency_target.                                                       *)
THEOREM OtherModeIsNeverLost == EmergencySpec => OtherModeIsKept
<1> DEFINE Kept(c) ==
      LET other == IF cmd[c].mode = "lockdown" THEN "evacuation" ELSE "lockdown"
      IN  /\ modes'[cmd[c].mode] = cmd[c].enabled
          /\ modes'[other] = (modes[other] /\ ~cmd[c].enabled)
<1> DEFINE KeptByAll ==
      \A c \in Command :
        cmd[c].phase = "decided" /\ cmd'[c].phase = "written" /\ ~touched => Kept(c)
<1>1. EmergencyInv /\ [EmergencyNext]_emergencyVars => KeptByAll
  <2> SUFFICES ASSUME EmergencyInv, [EmergencyNext]_emergencyVars, NEW c \in Command,
                      cmd[c].phase = "decided", cmd'[c].phase = "written", ~touched
               PROVE  Kept(c)
    OBVIOUS
  <2>1. cmd \in [Command -> CmdRecord] /\ modes \in Pair
    BY DEF EmergencyInv, EmergencyTypeOK, CmdRecord
  <2>2. ASSUME NEW d \in Command, NEW v, cmd' = [cmd EXCEPT ![d] = v], v.phase # "written"
        PROVE  FALSE
    BY <2>1, <2>2
  <2>3. PICK d \in Command : Writes(d)
    <3>1. ASSUME NEW d \in Command, Calls(d) PROVE FALSE
      <4>1. PICK mode \in {"lockdown", "evacuation"}, enabled \in BOOLEAN :
              cmd' = [cmd EXCEPT ![d] = [phase |-> "waiting", mode |-> mode,
                                         enabled |-> enabled, target |-> NoPair]]
        BY <3>1 DEF Calls
      <4>2. QED
        BY <2>2, <4>1
    <3>2. ASSUME NEW d \in Command, Acquires(d) \/ Reads(d) \/ ReadsBack(d) PROVE FALSE
      BY <2>1, <3>2 DEF Acquires, Reads, ReadsBack, CmdRecord
    <3>3. ASSUME NEW d \in Command, Refreshes(d) \/ CommandFails(d) PROVE FALSE
      BY <2>2, <3>3 DEF Refreshes, CommandFails, Release, Done
    <3>4. CASE ConsoleChanges \/ LateWrite \/ UNCHANGED emergencyVars
      BY <3>4 DEF emergencyVars, ConsoleChanges, LateWrite
    <3>5. QED
      BY <3>1, <3>2, <3>3, <3>4 DEF EmergencyNext
  <2>4. d = c
    BY <2>1, <2>3 DEF Writes
  <2>5. modes' = EmergencyTarget(cmd[c].mode, cmd[c].enabled, modes)
    BY <2>3, <2>4 DEF Writes, EmergencyInv, DecisionFits
  <2>6. cmd[c].mode \in {"lockdown", "evacuation"} /\ cmd[c].enabled \in BOOLEAN
    BY <2>1 DEF CmdRecord
  <2>7. CASE cmd[c].mode = "lockdown"
    BY <2>1, <2>5, <2>6, <2>7, TargetKeepsTheOther
  <2>8. CASE cmd[c].mode = "evacuation"
    BY <2>1, <2>5, <2>6, <2>8, TargetKeepsTheOther
  <2>9. QED
    BY <2>6, <2>7, <2>8
<1>2. QED
  BY <1>1, EmergencyInvariant, PTL DEF EmergencySpec, OtherModeIsKept

-----------------------------------------------------------------------------
(* The receiver. Inductive: what was sent is remembered exactly as long as *)
(* its timestamp is accepted.                                              *)
WebhookInv ==
  /\ WebhookTypeOK
  /\ RememberedAsLongAsFresh
  /\ SentIsRemembered
  /\ DeliveredOnce

LEMMA HandlesInv ==
  ASSUME WebhookInv, NEW r \in reading, Handles(r)
  PROVE  WebhookInv'
<1> DEFINE d == r.delivery
<1>1. /\ d \in Delivery /\ stamp \in [Delivery -> 0 .. MaxSecond] /\ wallclock \in 0 .. MaxSecond
      /\ DOMAIN expiry \subseteq Delivery /\ fired \in [Delivery -> 0 .. 2]
      /\ \A e \in DOMAIN expiry : expiry[e] = stamp[e] + MaxAge
      /\ \A e \in Delivery : stamp[e] \in Int /\ fired[e] \in 0 .. 1
      /\ MaxAge \in Nat /\ wallclock \in Int /\ MaxSecond \in Nat
      /\ reading \subseteq [delivery : Delivery, current : BOOLEAN]
  BY WebhookAssumption DEF WebhookInv, WebhookTypeOK, RememberedAsLongAsFresh, DeliveredOnce
<1>2. UNCHANGED <<wallclock, stamp, receiver, accepting>> /\ reading' = reading \ {r}
  BY DEF Handles
<1> DEFINE Sent == \E found \in BOOLEAN : Fresh(d) /\ Admits(d) /\ Dispatches(r) /\ found
           Kept == Live \cup (IF Admits(d) THEN {d} ELSE {})
<1>3. \/ expiry' = expiry /\ fired' = fired
      \/ /\ Fresh(d)
         /\ expiry' = [e \in Kept |-> IF e \in Live THEN expiry[e] ELSE stamp[e] + MaxAge]
         /\ \/ fired' = fired
            \/ /\ Admits(d)
               /\ fired' = [fired EXCEPT ![d] = IF @ = 2 THEN 2 ELSE @ + 1]
  BY DEF Handles, CheckReplay
<1>4. CASE expiry' = expiry /\ fired' = fired
  BY <1>2, <1>4 DEF WebhookInv, WebhookTypeOK, RememberedAsLongAsFresh, SentIsRemembered,
                    DeliveredOnce
<1>5. CASE /\ Fresh(d)
           /\ expiry' = [e \in Kept |-> IF e \in Live THEN expiry[e] ELSE stamp[e] + MaxAge]
           /\ \/ fired' = fired
              \/ /\ Admits(d)
                 /\ fired' = [fired EXCEPT ![d] = IF @ = 2 THEN 2 ELSE @ + 1]
  <2>1. Live \subseteq DOMAIN expiry /\ Kept \subseteq Delivery /\ DOMAIN expiry' = Kept
    BY <1>1, <1>5 DEF Live
  <2>2. \A e \in Kept : expiry'[e] = stamp'[e] + MaxAge
    BY <1>1, <1>2, <1>5, <2>1
  <2>3. \A e \in DOMAIN expiry : wallclock <= stamp[e] + MaxAge => e \in Live
    BY <1>1 DEF Live
  <2>4. Admits(d) /\ fired[d] > 0 => wallclock > stamp[d] + MaxAge
    BY <1>1, <2>3 DEF Admits, WebhookInv, SentIsRemembered
  <2>5. wallclock <= stamp[d] + MaxAge
    BY <1>1, <1>5 DEF Fresh
  <2>6. Admits(d) => fired[d] = 0
    BY <1>1, <2>4, <2>5
  <2>7. \A e \in Delivery :
          \/ fired'[e] = fired[e]
          \/ e = d /\ Admits(d) /\ fired'[e] = 1
    BY <1>1, <1>5, <2>6
  <2>8. fired' \in [Delivery -> 0 .. 2]
    BY <1>1, <1>5, <2>6
  <2>9. DeliveredOnce'
    BY <1>1, <2>7 DEF DeliveredOnce
  <2>10. SentIsRemembered'
    <3>1. SUFFICES ASSUME NEW e \in Delivery, fired'[e] > 0, wallclock' <= stamp'[e] + MaxAge
                   PROVE  e \in Kept
      BY <2>1 DEF SentIsRemembered
    <3>2. CASE e = d /\ Admits(d)
      BY <3>2
    <3>3. CASE fired'[e] = fired[e]
      BY <1>2, <2>3, <3>1, <3>3 DEF WebhookInv, SentIsRemembered
    <3>4. QED
      BY <2>7, <3>2, <3>3
  <2>11. RememberedAsLongAsFresh'
    BY <2>1, <2>2 DEF RememberedAsLongAsFresh
  <2>12. WebhookTypeOK'
    <3>1. \A e \in DOMAIN expiry' : expiry'[e] \in Nat
      BY <1>1, <1>2, <2>1, <2>2
    <3>2. QED
      BY <1>2, <2>1, <2>8, <3>1 DEF WebhookInv, WebhookTypeOK
  <2>13. QED
    BY <2>9, <2>10, <2>11, <2>12 DEF WebhookInv
<1>6. QED
  BY <1>3, <1>4, <1>5

LEMMA WebhookStep ==
  ASSUME WebhookInv, [WebhookNext]_webhookVars
  PROVE  WebhookInv'
<1>1. ASSUME NEW d \in Delivery, Arrives(d) PROVE WebhookInv'
  <2>1. [delivery |-> d, current |-> TRUE] \in [delivery : Delivery, current : BOOLEAN]
    OBVIOUS
  <2>2. reading' \subseteq [delivery : Delivery, current : BOOLEAN]
    BY <1>1, <2>1 DEF Arrives, WebhookInv, WebhookTypeOK
  <2>3. QED
    BY <1>1, <2>2 DEF Arrives, WebhookInv, WebhookTypeOK, RememberedAsLongAsFresh,
                      SentIsRemembered, DeliveredOnce
<1>2. ASSUME NEW r \in reading, BodyTimesOut(r) PROVE WebhookInv'
  BY <1>2 DEF BodyTimesOut, WebhookInv, WebhookTypeOK, RememberedAsLongAsFresh,
              SentIsRemembered, DeliveredOnce
<1>3. CASE Registers \/ TokenRejected \/ UNCHANGED webhookVars
  BY <1>3 DEF Registers, TokenRejected, webhookVars, WebhookInv, WebhookTypeOK,
              RememberedAsLongAsFresh, SentIsRemembered, DeliveredOnce
<1>4. CASE Unregisters
  <2>1. reading' \subseteq [delivery : Delivery, current : BOOLEAN]
    <3>1. \A r \in [delivery : Delivery, current : BOOLEAN] :
            [r EXCEPT !.current = FALSE] \in [delivery : Delivery, current : BOOLEAN]
      OBVIOUS
    <3>2. QED
      BY <1>4, <3>1 DEF Unregisters, WebhookInv, WebhookTypeOK
  <2>2. QED
    BY <1>4, <2>1 DEF Unregisters, WebhookInv, WebhookTypeOK, RememberedAsLongAsFresh,
                      SentIsRemembered, DeliveredOnce
<1>5. CASE WebhookRestart
  <2>1. \A d \in Delivery : fired'[d] = 0
    BY <1>5 DEF WebhookRestart
  <2>2. fired' \in [Delivery -> 0 .. 2] /\ DOMAIN expiry' = {}
    BY <1>5 DEF WebhookRestart, EmptyCache
  <2>3. WebhookTypeOK'
    BY <1>5, <2>2 DEF WebhookRestart, WebhookInv, WebhookTypeOK
  <2>4. RememberedAsLongAsFresh' /\ SentIsRemembered' /\ DeliveredOnce'
    BY <2>1, <2>2 DEF RememberedAsLongAsFresh, SentIsRemembered, DeliveredOnce
  <2>5. QED
    BY <2>3, <2>4 DEF WebhookInv
<1>6. CASE WebhookTick
  <2>1. wallclock' \in 0 .. MaxSecond /\ wallclock' = wallclock + 1 /\ wallclock \in Int /\ MaxAge \in Nat
        /\ UNCHANGED <<stamp, expiry, reading, receiver, accepting, fired>>
    BY <1>6, WebhookAssumption DEF WebhookTick, WebhookInv, WebhookTypeOK
  <2>2. stamp \in [Delivery -> 0 .. MaxSecond]
    BY DEF WebhookInv, WebhookTypeOK
  <2>3. SentIsRemembered'
    BY <2>1, <2>2, WebhookAssumption DEF WebhookInv, SentIsRemembered
  <2>4. QED
    BY <2>1, <2>3 DEF WebhookInv, WebhookTypeOK, RememberedAsLongAsFresh, DeliveredOnce
<1>7. QED
  BY <1>1, <1>2, <1>3, <1>4, <1>5, <1>6, HandlesInv DEF WebhookNext

(* Between two starts of Home Assistant a signed result is sent at most    *)
(* once, for every window, skew and size of the cache, across reloads:     *)
(* verify_delivery and ReplayCache.check agree on the window's end.        *)
THEOREM ResultsAreSentOnce == WebhookSpec => []DeliveredOnce
<1>1. ASSUME WebhookInit PROVE WebhookInv
  <2>1. fired \in [Delivery -> 0 .. 2] /\ \A d \in Delivery : fired[d] = 0
    BY <1>1 DEF WebhookInit
  <2>2. DOMAIN expiry = {} /\ reading = {}
    BY <1>1 DEF WebhookInit, EmptyCache
  <2>3. WebhookTypeOK
    <3>1. wallclock \in 0 .. MaxSecond
      BY <1>1, WebhookAssumption DEF WebhookInit
    <3>2. receiver \in BOOLEAN /\ accepting \in BOOLEAN /\ stamp \in [Delivery -> 0 .. MaxSecond]
      BY <1>1 DEF WebhookInit
    <3>3. QED
      BY <2>1, <2>2, <3>1, <3>2 DEF WebhookTypeOK
  <2>4. QED
    BY <2>1, <2>2, <2>3 DEF WebhookInv, RememberedAsLongAsFresh, SentIsRemembered, DeliveredOnce
<1>2. QED
  BY <1>1, WebhookStep, PTL DEF WebhookSpec, WebhookInv

-----------------------------------------------------------------------------
(* Stopping. Once Access is expired or unloading, no refresh starts a read *)
(* and no timer is armed again; what runs is what the stop awaits.         *)
Stopping(p) == pc[p] \in {"socket", "settling"}
Quiet == authFailed \/ shutDown
Awaited(p) ==
  /\ \A f \in Fire \ {p} : pc[f] # "idle" => f \in waits[p].fires
  /\ \A q \in Refresher \ {p} : pc[q] = "reading" => q \in waits[p].reads
SettlingIsQuiet ==
  \A p \in Proc : pc[p] = "settling" => Quiet /\ ~armed /\ socket # "on" /\ Awaited(p)
StopsAreQuiet == \A p \in Proc : Stopping(p) => Quiet
UnloadIsShutDown == pc[Unload] # "idle" => shutDown
UnloadPhases == pc[Unload] \in {"idle", "socket", "settling", "closed"}

SessionInv ==
  /\ SessionTypeOK
  /\ StopsAreQuiet
  /\ SettlingIsQuiet
  /\ UnloadIsShutDown
  /\ UnloadPhases
  /\ NoReadAfterClose

Phase == {"idle", "sending", "lock", "reading", "socket", "settling", "closed"}
Wait == [fires : SUBSET Fire, reads : SUBSET Refresher]

LEMMA Actors ==
  /\ Nobody \notin Proc /\ Fire \subseteq Refresher /\ Refresher \subseteq Proc
  /\ Poll \in Refresher /\ Remote \in Refresher /\ Notice \in Proc /\ Unload \in Proc
  /\ Poll \notin Fire /\ Remote \notin Fire
  /\ Notice \notin Refresher /\ Unload \notin Refresher /\ Notice # Unload
BY SessionAssumption DEF Refresher, Proc

(* A task is over: nothing waits for it any more, and it waits for nothing.*)
LEMMA OverInv ==
  ASSUME SessionInv, NEW p \in Proc, NEW next \in {"idle", "closed"}, Over(p, next),
         p = Unload => pc[p] = "settling" /\ waits[p] = NoWaits /\ next = "closed",
         p # Unload => next = "idle",
         UNCHANGED <<socket, armed, authFailed, shutDown>>
  PROVE  SessionInv'
<1>1. /\ pc \in [Proc -> Phase] /\ waits \in [Proc -> Wait]
      /\ updater \in Refresher \cup {Nobody} /\ cancelled \in SUBSET Refresher
      /\ socket \in {"new", "on", "ending", "off"}
      /\ armed \in BOOLEAN /\ authFailed \in BOOLEAN /\ shutDown \in BOOLEAN
  BY DEF SessionInv, SessionTypeOK, Phase, Wait
<1>2. pc' \in [Proc -> Phase] /\ pc'[p] = next /\ \A q \in Proc \ {p} : pc'[q] = pc[q]
  BY <1>1 DEF Over, Phase
<1>3. NoWaits \in Wait
  BY DEF NoWaits, Wait
<1>4. \A q \in Proc \ {p} : /\ waits'[q].fires = waits[q].fires \ {p}
                            /\ waits'[q].reads = waits[q].reads \ {p}
  BY <1>1 DEF Over, Wait
<1>5. waits' \in [Proc -> Wait]
  BY <1>1, <1>3 DEF Over, Wait
<1>6. SessionTypeOK'
  BY <1>1, <1>2, <1>5 DEF Over, SessionTypeOK, Phase, Wait
<1>7. StopsAreQuiet'
  BY <1>2 DEF SessionInv, StopsAreQuiet, Stopping, Quiet
<1>8. SettlingIsQuiet'
  <2>1. SUFFICES ASSUME NEW q \in Proc, pc'[q] = "settling"
                 PROVE  Quiet' /\ ~armed' /\ socket' # "on" /\ Awaited(q)'
    BY DEF SettlingIsQuiet
  <2>2. q # p /\ pc[q] = "settling"
    BY <1>2, <2>1
  <2>3. Quiet /\ ~armed /\ socket # "on" /\ Awaited(q)
    BY <2>2 DEF SessionInv, SettlingIsQuiet
  <2>4. Awaited(q)'
    BY <1>1, <1>2, <1>4, <2>2, <2>3, Actors DEF Awaited
  <2>5. QED
    BY <2>3, <2>4 DEF Quiet
<1>9. UnloadIsShutDown' /\ UnloadPhases'
  BY <1>2, Actors DEF SessionInv, UnloadIsShutDown, UnloadPhases
<1>10. NoReadAfterClose'
  <2>1. CASE p = Unload
    <3>1. Awaited(Unload) /\ waits[Unload].reads = {}
      BY <2>1 DEF SessionInv, SettlingIsQuiet, NoWaits
    <3>2. QED
      BY <1>2, <2>1, <3>1, Actors DEF Awaited, NoReadAfterClose
  <2>2. CASE p # Unload
    BY <1>2, <2>2, Actors DEF SessionInv, NoReadAfterClose
  <2>3. QED
    BY <2>1, <2>2
<1>11. QED
  BY <1>6, <1>7, <1>8, <1>9, <1>10 DEF SessionInv

(* The second half of a stop: everything tracked but the stopping task is  *)
(* awaited.                                                                *)
LEMMA SettleInv ==
  ASSUME SessionInv, NEW p \in Proc, Settle(p), UNCHANGED updater,
         p \in Fire => pc[p] # "idle",
         pc[p] # "closed",
         Quiet', authFailed' \in BOOLEAN, shutDown' \in BOOLEAN, shutDown => shutDown',
         authFailed => authFailed',
         p = Unload => shutDown',
         socket # "on", UNCHANGED socket
  PROVE  SessionInv'
<1>1. /\ pc \in [Proc -> Phase] /\ waits \in [Proc -> Wait]
      /\ updater \in Refresher \cup {Nobody} /\ cancelled \in SUBSET Refresher
      /\ socket \in {"new", "on", "ending", "off"}
  BY DEF SessionInv, SessionTypeOK, Phase, Wait
<1> DEFINE fires == {f \in Fire \ {p} : pc[f] # "idle"}
           reads == {q \in Refresher \ {p} : pc[q] = "reading"}
           w == [fires |-> fires, reads |-> reads]
<1>2. /\ armed' = FALSE /\ cancelled' = cancelled \cup fires \cup reads
      /\ waits' = [waits EXCEPT ![p] = w] /\ pc' = [pc EXCEPT ![p] = "settling"]
  BY DEF Settle
<1>3. w \in Wait
  BY DEF Wait
<1>4. pc' \in [Proc -> Phase] /\ pc'[p] = "settling" /\ \A q \in Proc \ {p} : pc'[q] = pc[q]
  BY <1>1, <1>2 DEF Phase
<1>5. waits' \in [Proc -> Wait] /\ waits'[p] = w /\ \A q \in Proc \ {p} : waits'[q] = waits[q]
  BY <1>1, <1>2, <1>3
<1>6. SessionTypeOK'
  BY <1>1, <1>2, <1>4, <1>5, Actors DEF SessionTypeOK, Phase, Wait
<1>7. StopsAreQuiet'
  BY DEF StopsAreQuiet
<1>8. SettlingIsQuiet'
  <2>1. SUFFICES ASSUME NEW q \in Proc, pc'[q] = "settling"
                 PROVE  Awaited(q)'
    BY <1>2 DEF SettlingIsQuiet
  <2>2. CASE q = p
    BY <1>4, <1>5, <2>2, Actors DEF Awaited
  <2>3. CASE q # p
    <3>1. Awaited(q)
      BY <1>4, <2>1, <2>3 DEF SessionInv, SettlingIsQuiet
    <3>2. QED
      BY <1>4, <1>5, <2>3, <3>1, Actors DEF Awaited
  <2>4. QED
    BY <2>2, <2>3
<1>9. UnloadIsShutDown' /\ UnloadPhases'
  BY <1>4, Actors DEF SessionInv, UnloadIsShutDown, UnloadPhases
<1>10. NoReadAfterClose'
  BY <1>4, Actors DEF SessionInv, NoReadAfterClose
<1>11. QED
  BY <1>6, <1>7, <1>8, <1>9, <1>10 DEF SessionInv

(* One task moves on without stopping anything. It starts a read, or a     *)
(* debounced refresh, only while nothing is being stopped.                 *)
LEMMA TaskMoves ==
  ASSUME SessionInv, NEW p \in Proc, NEW phase \in {"sending", "lock", "reading", "socket"},
         pc' = [pc EXCEPT ![p] = phase], UNCHANGED <<cancelled, waits>>,
         updater' \in Refresher \cup {Nobody},
         socket' \in {"new", "on", "ending", "off"}, socket' = "on" => socket = "on" \/ ~Quiet,
         armed' \in BOOLEAN, armed' => armed,
         authFailed' \in BOOLEAN, authFailed => authFailed',
         shutDown' \in BOOLEAN, shutDown => shutDown',
         phase = "reading" => ~Quiet,
         p \in Fire /\ pc[p] = "idle" => armed,
         phase = "socket" => Quiet',
         p = Unload => phase = "socket" /\ shutDown' /\ pc[p] # "closed"
  PROVE  SessionInv'
<1>1. /\ pc \in [Proc -> Phase] /\ waits \in [Proc -> Wait] /\ cancelled \in SUBSET Refresher
  BY DEF SessionInv, SessionTypeOK, Phase, Wait
<1>2. pc' \in [Proc -> Phase] /\ pc'[p] = phase /\ \A q \in Proc \ {p} : pc'[q] = pc[q]
  BY <1>1 DEF Phase
<1>3. SessionTypeOK'
  BY <1>1, <1>2 DEF SessionTypeOK, Phase, Wait
<1>4. StopsAreQuiet'
  BY <1>2 DEF SessionInv, StopsAreQuiet, Stopping, Quiet
<1>5. SettlingIsQuiet'
  <2>1. SUFFICES ASSUME NEW q \in Proc, pc'[q] = "settling"
                 PROVE  Quiet' /\ ~armed' /\ socket' # "on" /\ Awaited(q)'
    BY DEF SettlingIsQuiet
  <2>2. q # p /\ pc[q] = "settling"
    BY <1>2, <2>1
  <2>3. Quiet /\ ~armed /\ socket # "on" /\ Awaited(q)
    BY <2>2 DEF SessionInv, SettlingIsQuiet
  <2>4. Awaited(q)'
    BY <1>2, <2>2, <2>3, Actors DEF Awaited
  <2>5. QED
    BY <2>3, <2>4 DEF Quiet
<1>6. UnloadIsShutDown' /\ UnloadPhases'
  BY <1>2, Actors DEF SessionInv, UnloadIsShutDown, UnloadPhases
<1>7. NoReadAfterClose'
  BY <1>2, Actors DEF SessionInv, NoReadAfterClose, UnloadIsShutDown, Quiet
<1>8. QED
  BY <1>3, <1>4, <1>5, <1>6, <1>7 DEF SessionInv

(* A stop from its start.                                                  *)
LEMMA StopInv ==
  ASSUME SessionInv, NEW p \in Proc, Stop(p), UNCHANGED updater,
         p \in Fire => pc[p] # "idle",
         pc[p] # "closed",
         Quiet', authFailed' \in BOOLEAN, shutDown' \in BOOLEAN, shutDown => shutDown',
         authFailed => authFailed',
         p = Unload => shutDown'
  PROVE  SessionInv'
<1>1. CASE socket = "on"
  <2>1. /\ pc' = [pc EXCEPT ![p] = "socket"] /\ UNCHANGED <<cancelled, waits, armed>>
        /\ socket' = "ending" /\ updater' \in Refresher \cup {Nobody} /\ armed' \in BOOLEAN
    BY <1>1 DEF Stop, SessionInv, SessionTypeOK
  <2>2. QED
    BY <2>1, TaskMoves
<1>2. CASE socket # "on"
  BY <1>2, SettleInv DEF Stop
<1>3. QED
  BY <1>1, <1>2

(* A rejected token, met by a task that is at work.                        *)
LEMMA ExpireInv ==
  ASSUME SessionInv, NEW p \in Proc, Expire(p), UNCHANGED shutDown,
         pc[p] # "idle", pc[p] # "closed", p # Unload
  PROVE  SessionInv'
<1>1. CASE authFailed
  BY <1>1, OverInv DEF Expire
<1>2. CASE ~authFailed
  <2>1. Stop(p) /\ UNCHANGED updater /\ authFailed' = TRUE
    BY <1>2 DEF Expire
  <2>2. Quiet' /\ authFailed' \in BOOLEAN /\ shutDown' \in BOOLEAN
    BY <2>1 DEF Quiet, SessionInv, SessionTypeOK
  <2>3. QED
    BY <2>1, <2>2, StopInv
<1>3. QED
  BY <1>1, <1>2

LEMMA SessionStep ==
  ASSUME SessionInv, [SessionNext]_sessionVars
  PROVE  SessionInv'
<1>1. /\ updater \in Refresher \cup {Nobody} /\ socket \in {"new", "on", "ending", "off"}
      /\ armed \in BOOLEAN /\ authFailed \in BOOLEAN /\ shutDown \in BOOLEAN
      /\ pc[Unload] \in {"idle", "socket", "settling", "closed"}
  BY DEF SessionInv, SessionTypeOK, UnloadPhases
<1>2. ASSUME Sends \/ PollTurn PROVE SessionInv'
  BY <1>1, <1>2, TaskMoves, Actors DEF Sends, PollTurn
<1>3. CASE SendEnds
  <2>1. pc[Remote] = "sending" /\ UNCHANGED shutDown
    BY <1>3 DEF SendEnds
  <2>2. CASE /\ pc' = [pc EXCEPT ![Remote] = "lock"]
             /\ UNCHANGED <<updater, cancelled, waits, socket, armed, authFailed>>
    BY <1>1, <2>1, <2>2, TaskMoves, Actors
  <2>3. CASE Over(Remote, "idle") /\ UNCHANGED <<socket, armed, authFailed>>
    BY <2>1, <2>3, OverInv, Actors
  <2>4. CASE Expire(Remote)
    BY <2>1, <2>4, ExpireInv, Actors
  <2>5. QED
    BY <1>3, <2>2, <2>3, <2>4 DEF SendEnds
<1>4. ASSUME NEW f \in Fire, Fires(f) PROVE SessionInv'
  BY <1>1, <1>4, TaskMoves, Actors DEF Fires
<1>5. ASSUME NEW p \in Refresher, Locks(p) PROVE SessionInv'
  <2>1. p \in Proc /\ p # Unload /\ pc[p] = "lock"
    BY <1>5, Actors DEF Locks
  <2>2. CASE MayRead
    BY <1>1, <1>5, <2>1, <2>2, TaskMoves DEF Locks, MayRead, Quiet
  <2>3. CASE ~MayRead
    BY <1>5, <2>1, <2>3, OverInv DEF Locks
  <2>4. QED
    BY <2>2, <2>3
<1>6. ASSUME NEW p \in Refresher, ReadEnds(p) PROVE SessionInv'
  <2>1. p \in Proc /\ p # Unload /\ pc[p] = "reading" /\ UNCHANGED shutDown
    BY <1>6, Actors DEF ReadEnds
  <2>2. QED
    BY <1>6, <2>1, OverInv, ExpireInv DEF ReadEnds
<1>7. ASSUME NEW p \in Refresher, CancelLands(p) PROVE SessionInv'
  BY <1>7, OverInv, Actors DEF CancelLands
<1>8. CASE StartSocket \/ SocketEnds
  <2>1. /\ UNCHANGED <<pc, updater, cancelled, waits, armed, authFailed, shutDown>>
        /\ socket' \in {"new", "on", "ending", "off"} /\ (socket' = "on" => ~Quiet)
    BY <1>8 DEF StartSocket, SocketEnds, Quiet
  <2>2. QED
    BY <2>1 DEF SessionInv, SessionTypeOK, StopsAreQuiet, Stopping, SettlingIsQuiet, Quiet,
                Awaited, UnloadIsShutDown, UnloadPhases, NoReadAfterClose
<1>9. CASE StatusFrame
  BY <1>9 DEF StatusFrame, SessionInv, SessionTypeOK, StopsAreQuiet, Stopping, SettlingIsQuiet,
              Quiet, Awaited, UnloadIsShutDown, UnloadPhases, NoReadAfterClose
<1>10. CASE SocketRefused
  <2>1. CASE pc' = pc
    BY <1>10, <2>1 DEF SocketRefused, SessionInv, SessionTypeOK, StopsAreQuiet, Stopping,
           SettlingIsQuiet, Quiet, Awaited, UnloadIsShutDown, UnloadPhases, NoReadAfterClose
  <2>2. CASE pc' = [pc EXCEPT ![Notice] = "sending"]
    BY <1>1, <1>10, <2>2, TaskMoves, Actors DEF SocketRefused
  <2>3. QED
    BY <1>10, <2>1, <2>2 DEF SocketRefused
<1>11. CASE NoticeExpires
  BY <1>11, ExpireInv, Actors DEF NoticeExpires
<1>12. ASSUME NEW p \in Proc, SocketGone(p) PROVE SessionInv'
  <2>1. Quiet
    BY <1>12 DEF SocketGone, SessionInv, StopsAreQuiet, Stopping
  <2>2. p = Unload => shutDown
    BY <1>12 DEF SocketGone, SessionInv, UnloadIsShutDown
  <2>3. QED
    BY <1>1, <1>12, <2>1, <2>2, SettleInv DEF SocketGone, Quiet
<1>13. ASSUME NEW p \in Proc, StopReturns(p) PROVE SessionInv'
  BY <1>13, OverInv DEF StopReturns
<1>14. CASE Unloads
  <2>1. Stop(Unload) /\ UNCHANGED updater /\ shutDown' = TRUE /\ authFailed' = authFailed
    BY <1>14 DEF Unloads
  <2>2. Quiet' /\ pc[Unload] = "idle"
    BY <1>14, <2>1 DEF Quiet, Unloads
  <2>3. QED
    BY <1>1, <2>1, <2>2, StopInv, Actors
<1>15. CASE UNCHANGED sessionVars
  BY <1>15 DEF sessionVars, SessionInv, SessionTypeOK, StopsAreQuiet, Stopping, SettlingIsQuiet,
               Quiet, Awaited, UnloadIsShutDown, UnloadPhases, NoReadAfterClose
<1>16. QED
  BY <1>2, <1>3, <1>4, <1>5, <1>6, <1>7, <1>8, <1>9, <1>10, <1>11, <1>12, <1>13, <1>14, <1>15
  DEF SessionNext

LEMMA SessionInvariant == SessionSpec => []SessionInv
<1>1. ASSUME SessionInit PROVE SessionInv
  <2>1. /\ pc \in [Proc -> Phase] /\ waits \in [Proc -> Wait]
        /\ \A p \in Proc : pc[p] = "idle"
    BY <1>1 DEF SessionInit, Phase, Wait, NoWaits
  <2>2. SessionTypeOK
    BY <1>1, <2>1 DEF SessionInit, SessionTypeOK, Phase, Wait
  <2>3. QED
    BY <2>1, <2>2, Actors DEF SessionInv, StopsAreQuiet, Stopping, SettlingIsQuiet,
          UnloadIsShutDown, UnloadPhases, NoReadAfterClose
<1>2. QED
  BY <1>1, SessionStep, PTL DEF SessionSpec

(* No read of a refresh uses the client after unloading has closed it, for *)
(* any number of debounced refreshes: _async_teardown_access.              *)
THEOREM ClosedMeansUnread == SessionSpec => []NoReadAfterClose
<1>1. SessionInv => NoReadAfterClose
  BY DEF SessionInv
<1>2. QED
  BY <1>1, SessionInvariant, PTL

(* When a stop returns, no other tracked refresh or read is running, also  *)
(* when a rejected token and unloading stop at the same time:              *)
(* async_stop_websocket.                                                   *)
THEOREM StopsSettle == SessionSpec => StopSettles
<1> DEFINE Settled ==
      \A p \in Proc :
        pc[p] = "settling" /\ waits[p] = NoWaits /\ pc'[p] # "settling" /\ p \notin cancelled =>
          \A q \in Refresher \ {p} : pc[q] # "reading" /\ (q \in Fire => pc[q] = "idle")
<1>1. SessionInv => Settled
  <2>1. SUFFICES ASSUME SessionInv, NEW p \in Proc, pc[p] = "settling", waits[p] = NoWaits,
                        NEW q \in Refresher \ {p}
                 PROVE  pc[q] # "reading" /\ (q \in Fire => pc[q] = "idle")
    OBVIOUS
  <2>2. Awaited(p) /\ waits[p].fires = {} /\ waits[p].reads = {}
    BY <2>1 DEF SessionInv, SettlingIsQuiet, NoWaits
  <2>3. QED
    BY <2>1, <2>2 DEF Awaited
<1>2. QED
  BY <1>1, SessionInvariant, PTL DEF StopSettles

-----------------------------------------------------------------------------
(* AccessEndpoint. As long as nothing strayed, an endpoint the console has *)
(* is the stored one or carries the current URL, and the same holds of the *)
(* one a move is deleting, so that forgetting an id loses no endpoint of   *)
(* another URL; a setup under way works with the current URL, an update    *)
(* means the console's only endpoint, a create finds the console empty.    *)
NoneIsLost ==
  \A e \in console : e.id = stored \/ e.url = url
LeavingIsKnown ==
  leaving # NoId => \A e \in console : e.id = leaving \/ e.url = url
SetupFits ==
  /\ setup.phase # "idle" => setup.url = url
  /\ setup.phase = "update" => \A e \in console : e.id = setup.target
  /\ setup.phase = "create" => console = {}
  /\ setup.phase = "unusable" => \A e \in console : e.url = url
  /\ setup.phase = "disable" => stored \in {setup.target, NoId}

EndpointInv ==
  /\ EndpointTypeOK
  /\ OneEndpoint
  /\ ~strayed => NoneIsLost /\ LeavingIsKnown /\ SetupFits

LEMMA EndpointTypes ==
  ASSUME EndpointTypeOK, EndpointNext \/ UNCHANGED endpointVars
  PROVE  EndpointTypeOK'
<1>. USE DEF EndpointTypeOK, Ends, NoSetup
<1>. DEFINE Setups == [phase : {"idle", "list", "update", "create", "unusable", "disable"},
                       url : Url, target : Id \cup {NoId}]
<1>1. CASE SetupStarts
  <2>1. setup' \in Setups
    BY <1>1 DEF SetupStarts
  <2>. QED BY <1>1, <2>1 DEF SetupStarts
<1>2. CASE Listed
  <2>1. Matches \subseteq Id
    BY DEF Matches, Ids
  <2>. QED BY <1>2, <2>1 DEF Listed
<1>. DEFINE Written(i) == {IF e.id = i THEN [e EXCEPT !.url = setup.url] ELSE e : e \in console}
<1>a. \A i : Written(i) \subseteq [id : Id, url : Url]
  OBVIOUS
<1>. HIDE DEF Written
<1>b. \A i : Without(i) \subseteq console
  BY DEF Without
<1>c. ASSUME NEW i \in Id, Answered(i)
      PROVE  setup' \in Setups /\ stored' \in Id \cup {NoId} /\ registered' \in BOOLEAN
  <2>1. CASE Ends /\ stored' = i /\ registered' = TRUE
    BY <1>c, <2>1
  <2>2. CASE /\ setup' = [setup EXCEPT !.phase = "unusable", !.target = i]
             /\ UNCHANGED <<stored, registered>>
    BY <1>c, <2>2
  <2>. QED BY <1>c, <2>1, <2>2 DEF Answered
<1>3. CASE Updated
  <2>1. CASE setup.target \in Ids
    <3>1. setup.target \in Id /\ console' = Written(setup.target) /\ Answered(setup.target)
      BY <1>3, <2>1 DEF Updated, Written, Ids
    <3>. QED BY <1>3, <3>1, <1>a, <1>c DEF Updated
  <2>2. CASE setup.target \notin Ids
    BY <1>3, <2>2 DEF Updated
  <2>. QED BY <2>1, <2>2
<1>4. CASE Created
  <2>1. PICK i \in unused : /\ console' = console \cup {[id |-> i, url |-> setup.url]}
                            /\ unused' = unused \ {i} /\ Answered(i)
    BY <1>4 DEF Created
  <2>. QED BY <1>4, <1>c, <2>1 DEF Created
<1>5. CASE PublishFails
  <2>1. console' \in SUBSET [id : Id, url : Url]
    BY <1>5, <1>a DEF PublishFails, Written
  <2>. QED BY <1>5, <2>1 DEF PublishFails
<1>6. CASE UnusableDeleted BY <1>6, <1>b DEF UnusableDeleted
<1>7. CASE Disabled BY <1>7, <1>b DEF Disabled
<1>8. CASE LeaveStarts BY <1>8 DEF LeaveStarts
<1>9. CASE LeaveEnds BY <1>9, <1>b DEF LeaveEnds
<1>10. CASE ConsoleForgets BY <1>10 DEF ConsoleForgets
<1>11. CASE UrlChanges BY <1>11 DEF UrlChanges
<1>12. CASE UNCHANGED endpointVars BY <1>12 DEF endpointVars
<1>. QED
  BY <1>1, <1>2, <1>3, <1>4, <1>5, <1>6, <1>7, <1>8, <1>9, <1>10, <1>11, <1>12 DEF EndpointNext

(* The publication of one endpoint: every step that may add one or change  *)
(* its URL.                                                                *)
LEMMA PublishKeepsOne ==
  ASSUME EndpointInv, Listed \/ Updated \/ Created \/ PublishFails, ~strayed'
  PROVE  (\A e, f \in console' : e = f) /\ NoneIsLost' /\ LeavingIsKnown' /\ SetupFits'
<1>. DEFINE Written(i) == {IF e.id = i THEN [e EXCEPT !.url = setup.url] ELSE e : e \in console}
<1>. USE DEF EndpointTypeOK, Ends, NoSetup, NoneIsLost, LeavingIsKnown, SetupFits
<1>0. /\ EndpointTypeOK /\ NoneIsLost /\ LeavingIsKnown /\ SetupFits
      /\ ~strayed /\ \A e, f \in console : e = f
  BY DEF EndpointInv, OneEndpoint, Listed, Updated, Created, PublishFails
<1>1. CASE Listed
  <2>1. CASE Matches # {}
    <3>1. PICK i \in Matches : setup' = [setup EXCEPT !.phase = "update", !.target = i]
      BY <1>1, <2>1 DEF Listed
    <3>2. i \in Ids
      BY <3>1 DEF Matches, Ids
    <3>3. \A e \in console : e.id = i
      BY <1>0, <3>2 DEF Ids
    <3>. QED BY <1>0, <1>1, <3>1, <3>3 DEF Listed
  <2>2. CASE Matches = {}
    <3>1. console = {}
      <4>1. ASSUME NEW e \in console PROVE FALSE
        <5>1. stored \notin Ids
          BY <2>2 DEF Matches
        <5>2. e.url # setup.url
          BY <2>2, <4>1, <5>1 DEF Matches
        <5>. QED BY <1>0, <1>1, <4>1, <5>1, <5>2 DEF Ids, Listed
      <4>. QED BY <4>1
    <3>. QED BY <1>0, <1>1, <2>2, <3>1 DEF Listed
  <2>. QED BY <2>1, <2>2
<1>2. ASSUME setup.phase = "update", console' = Written(setup.target)
      PROVE  \A e \in console' : e.id = setup.target /\ e.url = url /\ \A f \in console' : e = f
  BY <1>0, <1>2
(* The answer of a request that left one endpoint, with the current URL.   *)
<1>2a. ASSUME NEW i, Answered(i), setup.phase \in {"update", "create"}, UNCHANGED <<url, leaving>>,
             \A e \in console' : e.id = i /\ e.url = url /\ \A f \in console' : e = f
      PROVE  (\A e, f \in console' : e = f) /\ NoneIsLost' /\ LeavingIsKnown' /\ SetupFits'
  <2>1. CASE Ends /\ stored' = i
    BY <1>0, <1>2a, <2>1
  <2>2. CASE setup' = [setup EXCEPT !.phase = "unusable", !.target = i] /\ UNCHANGED stored
    BY <1>0, <1>2a, <2>2
  <2>. QED BY <1>2a, <2>1, <2>2 DEF Answered
<1>3. CASE Updated
  <2>1. CASE setup.target \in Ids
    <3>1. console' = Written(setup.target) /\ Answered(setup.target)
      BY <1>3, <2>1 DEF Updated
    <3>2. \A e \in console' : e.id = setup.target /\ e.url = url /\ \A f \in console' : e = f
      BY <1>2, <1>3, <3>1 DEF Updated
    <3>. HIDE DEF Written
    <3>. QED BY <1>0, <1>3, <1>2a, <3>1, <3>2 DEF Updated
  <2>2. CASE setup.target \notin Ids
    <3>1. console = {}
      BY <1>0, <1>3, <2>2 DEF Updated, Ids
    <3>. QED BY <1>0, <1>3, <2>2, <3>1 DEF Updated
  <2>. QED BY <2>1, <2>2
<1>4. ASSUME setup.phase = "create", NEW i, console' = console \cup {[id |-> i, url |-> setup.url]}
      PROVE  console' = {[id |-> i, url |-> url]}
  BY <1>0, <1>4
<1>5. CASE Created
  <2>1. PICK i \in unused : console' = console \cup {[id |-> i, url |-> setup.url]} /\ Answered(i)
    BY <1>5 DEF Created
  <2>2. console' = {[id |-> i, url |-> url]}
    BY <1>4, <1>5, <2>1 DEF Created
  <2>. QED BY <1>0, <1>5, <1>2a, <2>1, <2>2 DEF Created
<1>6. CASE PublishFails
  <2>1. CASE UNCHANGED console
    BY <1>0, <1>6, <2>1 DEF PublishFails
  <2>2. CASE setup.phase = "update" /\ console' = Written(setup.target)
    <3>1. \A e \in console' : e.id = setup.target /\ e.url = url /\ \A f \in console' : e = f
      BY <1>2, <2>2
    <3>. HIDE DEF Written
    <3>. QED BY <1>0, <1>6, <3>1 DEF PublishFails
  <2>3. CASE setup.phase = "create" /\ \E i \in unused : console' = console \cup {[id |-> i, url |-> setup.url]}
    <3>1. PICK i : console' = {[id |-> i, url |-> url]}
      BY <1>4, <2>3
    <3>. QED BY <1>0, <1>6, <3>1 DEF PublishFails
  <2>. QED BY <1>6, <2>1, <2>2, <2>3 DEF PublishFails
<1>. QED BY <1>1, <1>3, <1>5, <1>6

(* The steps that only take endpoints away, or change what is known.       *)
LEMMA ForgettingKeepsOne ==
  ASSUME EndpointInv, ~strayed',
         SetupStarts \/ UnusableDeleted \/ Disabled \/ LeaveStarts \/ LeaveEnds
         \/ ConsoleForgets \/ UrlChanges \/ UNCHANGED endpointVars
  PROVE  (\A e, f \in console' : e = f) /\ NoneIsLost' /\ LeavingIsKnown' /\ SetupFits'
<1>. USE DEF EndpointTypeOK, Ends, NoSetup, NoneIsLost, LeavingIsKnown, SetupFits
<1>0. /\ EndpointTypeOK /\ NoneIsLost /\ LeavingIsKnown /\ SetupFits
      /\ ~strayed /\ \A e, f \in console : e = f
  BY DEF EndpointInv, OneEndpoint, SetupStarts, UnusableDeleted, Disabled, LeaveStarts, LeaveEnds,
         ConsoleForgets, UrlChanges, endpointVars
<1>b. \A i : Without(i) \subseteq console /\ \A e \in Without(i) : e.id # i
  BY DEF Without
<1>1. CASE SetupStarts BY <1>0, <1>1 DEF SetupStarts
<1>2. CASE UnusableDeleted BY <1>0, <1>2, <1>b DEF UnusableDeleted
<1>3. CASE Disabled BY <1>0, <1>3, <1>b, EndpointAssumption DEF Disabled
<1>4. CASE LeaveStarts BY <1>0, <1>4 DEF LeaveStarts
<1>5. CASE LeaveEnds BY <1>0, <1>5, <1>b DEF LeaveEnds
<1>6. CASE ConsoleForgets BY <1>0, <1>6 DEF ConsoleForgets
<1>7. CASE UrlChanges BY <1>0, <1>7 DEF UrlChanges
<1>8. CASE UNCHANGED endpointVars BY <1>0, <1>8 DEF endpointVars
<1>. QED BY <1>1, <1>2, <1>3, <1>4, <1>5, <1>6, <1>7, <1>8

(* The console holds at most one endpoint of the entry, for any number of  *)
(* ids and URLs, lost answers, deletions and moves, unless one strayed.    *)
THEOREM OneEndpointAtMost == EndpointSpec => []OneEndpoint
<1>1. EndpointInit => EndpointInv
  <2>1. ASSUME EndpointInit PROVE EndpointTypeOK
    BY <2>1 DEF EndpointInit, EndpointTypeOK, NoSetup
  <2>2. ASSUME EndpointInit PROVE OneEndpoint /\ NoneIsLost /\ LeavingIsKnown /\ SetupFits
    BY <2>2 DEF EndpointInit, OneEndpoint, NoneIsLost, LeavingIsKnown, SetupFits, NoSetup
  <2>. QED BY <2>1, <2>2 DEF EndpointInv
<1>2. EndpointInv /\ [EndpointNext]_endpointVars => EndpointInv'
  <2>1. SUFFICES ASSUME EndpointInv, EndpointNext \/ UNCHANGED endpointVars PROVE EndpointInv'
    OBVIOUS
  <2>2. EndpointTypeOK'
    BY <2>1, EndpointTypes DEF EndpointInv
  <2>3. ~strayed' => (\A e, f \in console' : e = f) /\ NoneIsLost' /\ LeavingIsKnown' /\ SetupFits'
    BY <2>1, PublishKeepsOne, ForgettingKeepsOne DEF EndpointNext
  <2>. QED BY <2>2, <2>3 DEF EndpointInv, OneEndpoint
<1>3. EndpointInv => OneEndpoint
  BY DEF EndpointInv
<1>. QED BY <1>1, <1>2, <1>3, PTL DEF EndpointSpec

-----------------------------------------------------------------------------
TargetRecord == [by : {"id", "row"}, of : ProtectConsole \cup {Nowhere}, res : Resource]

LEMMA TargetsAreRecords ==
  ASSUME TargetsTypeOK, NEW t \in Targets
  PROVE  t \in TargetRecord /\ (t.by = "id" => t.of = Nowhere)
BY DEF Targets, Native, RowOf, TargetsTypeOK, TargetRecord

(* What answers say; the cache of a collection is always there.            *)
LEMMA Answers ==
  ASSUME NEW t, NEW why, NEW c
  PROVE  /\ Refuse(t, why).by = t.by /\ Refuse(t, why).of = t.of /\ Refuse(t, why).res = t.res
         /\ Refuse(t, why).answer = why /\ Refuse(t, why).to = Nowhere
         /\ RouteTo(t, c).by = t.by /\ RouteTo(t, c).of = t.of /\ RouteTo(t, c).res = t.res
         /\ RouteTo(t, c).answer = "routed" /\ RouteTo(t, c).to = c
BY DEF Refuse, RouteTo

LEMMA CachesCanTell ==
  ASSUME NEW c, NEW r \in Resource
  PROVE  (MayOwn(c, r) <=> r \in known[c]) /\ (Owns(c, r) <=> r \in known[c])
BY DEF MayOwn, Owns, CannotTell, Published, Collection, CollectionOf

(* What _select_protect_entry promises: an answer for what was asked; a    *)
(* console that lists it, the caller's own row deciding between several;   *)
(* and a refusal only when it is unclear.                                  *)
Sound(t, answer) ==
  /\ answer.by = t.by /\ answer.of = t.of /\ answer.res = t.res
  /\ answer.answer \in {"routed", "unresolved", "notFound", "otherConsole", "ambiguous"}
  /\ answer.answer # "routed" => answer.to = Nowhere
  /\ answer.answer = "routed" =>
       /\ answer.to \in loaded /\ t.res \in known[answer.to]
       /\ (\E c \in loaded \ {answer.to} : t.res \in known[c]) => t.by = "row" /\ t.of = answer.to
  /\ answer.answer = "notFound" => \A c \in loaded : t.res \notin known[c]
  /\ answer.answer = "ambiguous" => \A c \in loaded : {d \in loaded : t.res \in known[d]} # {c}

LEMMA SelectIsSound ==
  ASSUME TargetsTypeOK, NEW t \in Targets, NEW kind
  PROVE  Sound(t, Select(t, kind))
<1> DEFINE matching == Candidates(t.res)
<1>1. t \in TargetRecord /\ t.res \in Resource /\ (t.by = "id" => t.of = Nowhere) /\ t.by \in {"id", "row"}
  BY TargetsAreRecords DEF TargetRecord
<1>2. loaded \subseteq ProtectConsole /\ Nowhere \notin ProtectConsole
  BY ProtectTargetsAssumption DEF TargetsTypeOK
<1>3. matching = {c \in loaded : t.res \in known[c]}
  BY <1>1, CachesCanTell DEF Candidates
<1>4. {c \in matching : Owns(c, t.res)} = matching
  BY <1>1, <1>3, CachesCanTell
<1>5. IsFiniteSet(matching)
  BY <1>2, <1>3, ProtectTargetsAssumption, FS_Subset
<1>6. Chosen(t) = IF t.of \in matching THEN {t.of} ELSE matching
  <2>1. CASE Cardinality(matching) = 1
    <3>1. PICK c : matching = {c}
      BY <1>5, <2>1, FS_Singleton
    <3>2. Chosen(t) = matching
      BY <2>1 DEF Chosen
    <3> HIDE DEF matching
    <3>3. QED
      BY <3>1, <3>2
  <2>2. CASE Cardinality(matching) # 1
    BY <1>4, <2>2 DEF Chosen
  <2>3. QED
    BY <2>1, <2>2
<1>7. Chosen(t) \subseteq matching /\ IsFiniteSet(Chosen(t))
  BY <1>5, <1>6, FS_Subset
<1> HIDE DEF matching
<1>8. CASE loaded = {} \/ Unresolved(t, kind)
  <2>1. Select(t, kind) = Refuse(t, "unresolved")
    BY <1>8 DEF Select
  <2>2. QED
    BY <2>1, Answers DEF Sound
<1>9. CASE ~(loaded = {} \/ Unresolved(t, kind)) /\ matching = {}
  <2>1. Select(t, kind) = Refuse(t, "notFound")
    BY <1>9 DEF Select, matching
  <2>2. \A c \in loaded : t.res \notin known[c]
    BY <1>3, <1>9
  <2>3. QED
    BY <2>1, <2>2, Answers DEF Sound
<1>10. CASE /\ ~(loaded = {} \/ Unresolved(t, kind)) /\ matching # {}
            /\ t.by = "row" /\ t.of \notin matching
  <2>1. Select(t, kind) = Refuse(t, "otherConsole")
    BY <1>10 DEF Select, matching
  <2>2. QED
    BY <2>1, Answers DEF Sound
<1>11. CASE /\ ~(loaded = {} \/ Unresolved(t, kind)) /\ matching # {}
            /\ ~(t.by = "row" /\ t.of \notin matching)
  <2>1. CASE Cardinality(Chosen(t)) = 1
    <3>1. PICK c : Chosen(t) = {c}
      BY <1>7, <2>1, FS_Singleton
    <3>2. (CHOOSE x \in Chosen(t) : TRUE) = c
      BY <3>1
    <3>3. Select(t, kind) = RouteTo(t, c)
      BY <1>11, <2>1, <3>2 DEF Select, matching
    <3>4. c \in matching
      BY <1>7, <3>1
    <3>5. (\E d \in loaded \ {c} : t.res \in known[d]) => t.by = "row" /\ t.of = c
      <4>1. SUFFICES ASSUME matching # {c} PROVE t.by = "row" /\ t.of = c
        BY <1>3, <3>4
      <4>2. t.of \in matching /\ t.of = c
        BY <1>6, <3>1, <4>1
      <4>3. QED
        BY <1>1, <1>2, <1>3, <4>2
    <3>6. QED
      BY <1>3, <3>3, <3>4, <3>5, Answers DEF Sound
  <2>2. CASE Cardinality(Chosen(t)) # 1
    <3>1. Select(t, kind) = Refuse(t, "ambiguous")
      BY <1>11, <2>2 DEF Select, matching
    <3>2. ASSUME NEW c, matching = {c} PROVE FALSE
      <4>1. Chosen(t) = {c}
        BY <1>6, <3>2
      <4>2. QED
        BY <2>2, <4>1, FS_Singleton
    <3>3. QED
      BY <1>3, <3>1, <3>2, Answers DEF Sound
  <2>3. QED
    BY <2>1, <2>2
<1>12. QED
  BY <1>8, <1>9, <1>10, <1>11

(* A sound answer is routed as it should be, and stays so when what the    *)
(* call names besides makes it refused.                                    *)
LEMMA SoundIsRouted ==
  ASSUME TargetsTypeOK, NEW t \in Targets, NEW answer, Sound(t, answer),
         UNCHANGED <<home, loaded, known, wasRead>>,
         routed'.by = t.by, routed'.of = t.of, routed'.res = t.res,
         \/ routed'.answer = answer.answer /\ routed'.to = answer.to
         \/ routed'.answer \in {"unresolved", "secondaryElsewhere", "badDoorbell", "noDoorbell"}
            /\ routed'.to = Nowhere
         \/ answer.answer = "routed" /\ routed'.answer = "paired" /\ routed'.to = answer.to
  PROVE  CallsReachTheirConsole' /\ RoutedOnEvidence'
<1>1. t \in TargetRecord
  BY TargetsAreRecords
<1>2. Nowhere \notin loaded
  BY ProtectTargetsAssumption DEF TargetsTypeOK
<1>3. RoutedOnEvidence'
  BY <1>1 DEF RoutedOnEvidence, Sound, TargetRecord
<1>4. ASSUME NEW r \in Resource, routed'.res = r, UpToDate(r)
      PROVE  /\ routed'.to # Nowhere => routed'.to = home[r]
             /\ (routed'.by = "id" /\ routed'.answer \in {"notFound", "ambiguous"}) =>
                  home[r] \notin loaded
  <2>1. \A c \in loaded : r \in known[c] <=> home[r] = c
    BY <1>4 DEF UpToDate
  <2>2. routed'.to # Nowhere => routed'.to = home[r]
    BY <1>2, <1>4, <2>1 DEF Sound
  <2>3. routed'.answer \in {"notFound", "ambiguous"} => home[r] \notin loaded
    <3>1. SUFFICES ASSUME routed'.answer \in {"notFound", "ambiguous"}, home[r] \in loaded
                   PROVE  FALSE
      OBVIOUS
    <3>2. {d \in loaded : r \in known[d]} = {home[r]}
      BY <2>1, <3>1
    <3>3. QED
      BY <1>4, <3>1, <3>2 DEF Sound
  <2>4. QED
    BY <2>2, <2>3
<1>5. CallsReachTheirConsole'
  BY <1>4 DEF CallsReachTheirConsole, UpToDate
<1>6. QED
  BY <1>3, <1>5

LEMMA NoCallIsRouted ==
  ASSUME routed' = NoCall
  PROVE  ProtectCallsAreRouted'
BY ProtectTargetsAssumption DEF NoCall, ProtectCallsAreRouted, CallsReachTheirConsole, RoutedOnEvidence,
   PairsOwnDoorbells

LEMMA DoorbellsAreTheirs ==
  ASSUME TargetsTypeOK, NEW c, NEW picked \in SUBSET rows, NEW direct,
         ~ \E p \in picked : BadDoorbell(c, p, direct)
  PROVE  Doorbells(picked) \subseteq (known[c] \cap Camera) \ RingOnly
<1>1. ASSUME NEW p \in picked, p[2] \notin Chime \cup RingOnly
      PROVE  p[2] \in (known[c] \cap Camera) \ RingOnly
  <2>1. p[2] \in Camera
    BY <1>1 DEF TargetsTypeOK, Resource
  <2>2. Owns(c, p[2])
    BY <2>1 DEF BadDoorbell
  <2>3. QED
    BY <1>1, <2>1, <2>2 DEF Owns
<1>2. QED
  BY <1>1 DEF Doorbells

LEMMA CallStep ==
  ASSUME TargetsTypeOK, NEW t \in Targets,
         UNCHANGED <<home, loaded, known, wasRead, rows, moves>>,
         \/ \E k \in Collection : Call(t, k)
         \/ \E s \in Targets : CallWithCamera(t, s)
         \/ \E picked \in SUBSET rows, direct \in SUBSET rows : PairDoorbells(t, picked, direct)
  PROVE  ProtectCallsAreRouted'
<1>1. ASSUME NEW k \in Collection, Call(t, k) PROVE ProtectCallsAreRouted'
  <2>1. routed' = Select(t, k) /\ Sound(t, Select(t, k))
    BY <1>1, SelectIsSound DEF Call
  <2>2. CallsReachTheirConsole' /\ RoutedOnEvidence'
    BY <2>1, SoundIsRouted DEF Sound
  <2>3. routed'.answer # "paired"
    BY <2>1 DEF Sound
  <2>4. QED
    BY <2>2, <2>3 DEF ProtectCallsAreRouted, PairsOwnDoorbells
<1> DEFINE answer == Select(t, Chime)
<1>2. Sound(t, answer)
  BY SelectIsSound
<1> HIDE DEF answer
<1>3. ASSUME NEW s \in Targets, CallWithCamera(t, s) PROVE ProtectCallsAreRouted'
  <2>1. routed' \in {answer, Refuse(t, "unresolved"), Refuse(t, "secondaryElsewhere")}
    BY <1>3 DEF CallWithCamera, answer
  <2>2. CallsReachTheirConsole' /\ RoutedOnEvidence'
    <3>1. CASE routed' = answer
      BY <1>2, <3>1, SoundIsRouted DEF Sound
    <3>2. CASE routed' \in {Refuse(t, "unresolved"), Refuse(t, "secondaryElsewhere")}
      <4>1. /\ routed'.by = t.by /\ routed'.of = t.of /\ routed'.res = t.res
            /\ routed'.answer \in {"unresolved", "secondaryElsewhere"} /\ routed'.to = Nowhere
        BY <3>2, Answers
      <4>2. QED
        BY <1>2, <4>1, SoundIsRouted
    <3>3. QED
      BY <2>1, <3>1, <3>2
  <2>3. routed'.answer # "paired"
    BY <1>2, <2>1, Answers DEF Sound
  <2>4. QED
    BY <2>2, <2>3 DEF ProtectCallsAreRouted, PairsOwnDoorbells
<1>4. ASSUME NEW picked \in SUBSET rows, NEW direct \in SUBSET rows, PairDoorbells(t, picked, direct)
      PROVE  ProtectCallsAreRouted'
  <2>1. CASE answer.answer # "routed"
    <3>1. routed' = answer
      BY <1>4, <2>1 DEF PairDoorbells, answer
    <3>2. QED
      BY <1>2, <3>1, SoundIsRouted DEF Sound, ProtectCallsAreRouted, PairsOwnDoorbells
  <2>2. CASE /\ answer.answer = "routed"
             /\ \/ \E p \in picked : BadDoorbell(answer.to, p, direct)
                \/ picked # {} /\ Doorbells(picked) = {}
    <3>1. routed' \in {Refuse(t, "badDoorbell"), Refuse(t, "noDoorbell")}
      BY <1>4, <2>2 DEF PairDoorbells, answer
    <3>2. /\ routed'.by = t.by /\ routed'.of = t.of /\ routed'.res = t.res
          /\ routed'.answer \in {"badDoorbell", "noDoorbell"} /\ routed'.to = Nowhere
      BY <3>1, Answers
    <3>3. QED
      BY <1>2, <3>2, SoundIsRouted DEF ProtectCallsAreRouted, PairsOwnDoorbells
  <2>3. CASE /\ answer.answer = "routed"
             /\ ~ \E p \in picked : BadDoorbell(answer.to, p, direct)
             /\ ~(picked # {} /\ Doorbells(picked) = {})
    <3>1. routed' = [answer EXCEPT !.answer = "paired", !.cameras = Doorbells(picked),
                                   !.asked = picked # {}]
      BY <1>4, <2>3 DEF PairDoorbells, answer
    <3>2. PICK c : answer = RouteTo(t, c)
      <4>1. answer = Refuse(t, "unresolved") \/ answer = Refuse(t, "notFound")
            \/ answer = Refuse(t, "otherConsole") \/ answer = Refuse(t, "ambiguous")
            \/ answer = RouteTo(t, CHOOSE x \in Chosen(t) : TRUE)
        BY DEF answer, Select
      <4>2. QED
        BY <2>3, <4>1, Answers
    <3>3. /\ routed'.by = t.by /\ routed'.of = t.of /\ routed'.res = t.res /\ routed'.to = c
          /\ routed'.answer = "paired" /\ routed'.cameras = Doorbells(picked)
          /\ routed'.asked = (picked # {}) /\ answer.to = c
      BY <3>1, <3>2 DEF RouteTo
    <3>4. CallsReachTheirConsole' /\ RoutedOnEvidence'
      BY <1>2, <2>3, <3>3, SoundIsRouted
    <3>5. Doorbells(picked) \subseteq (known[c] \cap Camera) \ RingOnly
      BY <2>3, <3>3, DoorbellsAreTheirs
    <3>6. PairsOwnDoorbells'
      BY <2>3, <3>3, <3>5 DEF PairsOwnDoorbells
    <3>7. QED
      BY <3>4, <3>6 DEF ProtectCallsAreRouted
  <2>4. QED
    BY <2>1, <2>2, <2>3
<1>5. QED
  BY <1>1, <1>3, <1>4

TargetsInv == TargetsTypeOK /\ ProtectCallsAreRouted

LEMMA TargetsStep ==
  ASSUME TargetsInv, [TargetsNext]_targetVars
  PROVE  TargetsInv'
<1>1. TargetsTypeOK /\ ProtectCallsAreRouted
  BY DEF TargetsInv
<1>2. ASSUME UNCHANGED <<home, loaded, known, wasRead, rows, moves>> PROVE TargetsTypeOK'
  BY <1>1, <1>2 DEF TargetsTypeOK
<1>3. CASE Returned
  BY <1>2, <1>3, NoCallIsRouted DEF Returned, TargetsInv
<1>4. ASSUME NEW name \in ProtectConsole \cup Title \cup {Nowhere}, ConsoleCall(name)
      PROVE  TargetsInv'
  <2>1. /\ routed'.by = "console" /\ routed'.res = Nowhere
        /\ routed'.answer \in {"routed", "ambiguous"}
    BY <1>4 DEF ConsoleCall, NoCall
  <2>2. ProtectCallsAreRouted'
    BY <2>1, ProtectTargetsAssumption DEF ProtectCallsAreRouted, CallsReachTheirConsole,
       RoutedOnEvidence, PairsOwnDoorbells
  <2>3. QED
    BY <1>2, <1>4, <2>2 DEF ConsoleCall, TargetsInv
<1>5. ASSUME NEW c \in ProtectConsole, LoadConsole(c) \/ UnloadConsole(c) PROVE TargetsInv'
  <2>1. routed' = NoCall
    BY <1>5 DEF LoadConsole, UnloadConsole
  <2>2. TargetsTypeOK'
    BY <1>1, <1>5 DEF LoadConsole, UnloadConsole, TargetsTypeOK
  <2>3. QED
    BY <2>1, <2>2, NoCallIsRouted DEF TargetsInv
<1>6. ASSUME NEW c \in ProtectConsole, NEW k \in Collection, ReadCollection(c, k) PROVE TargetsInv'
  <2>1. routed' = NoCall
    BY <1>6 DEF ReadCollection
  <2> DEFINE held == {r \in k : home[r] = c}
  <2>2. k \subseteq Resource
    BY DEF Collection, Resource
  <2>3. held \subseteq Resource
    BY <2>2
  <2>4. /\ known' = [known EXCEPT ![c] = (@ \ k) \cup held]
        /\ rows' = rows \cup ({c} \X held)
        /\ wasRead' = [wasRead EXCEPT ![c] = @ \cup {k}]
        /\ UNCHANGED <<home, loaded, moves>>
    BY <1>6 DEF ReadCollection
  <2> HIDE DEF held
  <2>5. known' \in [ProtectConsole -> SUBSET Resource] /\ rows' \subseteq ProtectConsole \X Resource
    BY <1>1, <2>3, <2>4 DEF TargetsTypeOK
  <2>6. wasRead' \in [ProtectConsole -> SUBSET Collection]
    BY <1>1, <2>4 DEF TargetsTypeOK
  <2>7. TargetsTypeOK'
    BY <1>1, <2>4, <2>5, <2>6 DEF TargetsTypeOK
  <2>8. QED
    BY <2>1, <2>7, NoCallIsRouted DEF TargetsInv
<1>7. ASSUME NEW c \in ProtectConsole, NEW r \in Resource, DropRow(c, r) PROVE TargetsInv'
  <2>1. routed' = NoCall /\ TargetsTypeOK'
    BY <1>1, <1>7 DEF DropRow, TargetsTypeOK
  <2>2. QED
    BY <2>1, NoCallIsRouted DEF TargetsInv
<1>8. ASSUME NEW r \in Resource, NEW c \in ProtectConsole \cup {Nowhere}, Move(r, c) PROVE TargetsInv'
  <2>1. routed' = NoCall
    BY <1>8 DEF Move
  <2>2. TargetsTypeOK'
    BY <1>1, <1>8, ProtectTargetsAssumption DEF Move, TargetsTypeOK
  <2>3. QED
    BY <2>1, <2>2, NoCallIsRouted DEF TargetsInv
<1>9. ASSUME NEW t \in Targets, NEW k \in Collection, Call(t, k) PROVE TargetsInv'
  <2>1. UNCHANGED <<home, loaded, known, wasRead, rows, moves>>
    BY <1>9 DEF Call
  <2>2. QED
    BY <1>1, <1>2, <1>9, <2>1, CallStep DEF TargetsInv
<1>10. ASSUME NEW t \in Targets, NEW s \in Targets, CallWithCamera(t, s) PROVE TargetsInv'
  <2>1. UNCHANGED <<home, loaded, known, wasRead, rows, moves>>
    BY <1>10 DEF CallWithCamera
  <2>2. QED
    BY <1>1, <1>2, <1>10, <2>1, CallStep DEF TargetsInv
<1>11. ASSUME NEW t \in Targets, NEW picked \in SUBSET rows, NEW direct \in {{}, rows},
              PairDoorbells(t, picked, picked \cap direct)
       PROVE  TargetsInv'
  <2>1. UNCHANGED <<home, loaded, known, wasRead, rows, moves>>
    BY <1>11 DEF PairDoorbells
  <2>2. picked \cap direct \in SUBSET rows
    OBVIOUS
  <2>3. QED
    BY <1>1, <1>2, <1>11, <2>1, <2>2, CallStep DEF TargetsInv
<1>12. CASE UNCHANGED targetVars
  BY <1>1, <1>12 DEF targetVars, TargetsInv, TargetsTypeOK, ProtectCallsAreRouted,
     CallsReachTheirConsole, RoutedOnEvidence, PairsOwnDoorbells, UpToDate
<1>13. QED
  BY <1>3, <1>4, <1>5, <1>6, <1>7, <1>8, <1>9, <1>10, <1>11, <1>12 DEF TargetsNext

(* resolve_protect_call, for any consoles and resources: with caches that  *)
(* agree with the consoles a call reaches the console that has what it     *)
(* names; before that it goes where the resource is listed, the caller's   *)
(* row deciding between several; and a chime is only paired with doorbells *)
(* of its own console, never by mistake with none.                         *)
THEOREM ProtectCallsReachTheirConsole == TargetsSpec => [](TargetsTypeOK /\ ProtectCallsAreRouted)
<1>1. TargetsInit => TargetsInv
  BY ProtectTargetsAssumption DEF TargetsInit, TargetsInv, TargetsTypeOK, NoCall, ProtectCallsAreRouted,
     CallsReachTheirConsole, RoutedOnEvidence, PairsOwnDoorbells
<1>2. TargetsInv /\ [TargetsNext]_targetVars => TargetsInv'
  BY TargetsStep
<1>3. QED
  BY <1>1, <1>2, PTL DEF TargetsSpec, TargetsInv

-----------------------------------------------------------------------------
(* A thing is in a site its console has, and only such sites are read.     *)
SitesAreKnown ==
  /\ \A x \in Thing : at[x][2] \in sites[at[x][1]]
  /\ \A c \in NetConsole, s \in Site : listed[c][s] # Unread => s \in sites[c]

NetTargetsTypes ==
  /\ NetTargetsTypeOK
  /\ listed \in [NetConsole -> [Site -> {Unread} \cup SUBSET Thing]]

NetTargetRecord ==
  [by : {"id", "row"}, of : NetConsole \cup {NoSite}, siteOf : Site \cup {NoSite}, res : Thing]

LEMMA NetTargetsAreRecords ==
  ASSUME NetTargetsTypes, NEW t \in NetTargets
  PROVE  /\ t \in NetTargetRecord
         /\ t.by = "id" => t.of = NoSite /\ t.siteOf = NoSite
         /\ t.by = "row" => t.of \in NetConsole /\ t.siteOf \in Site
<1>1. CASE \E x \in Thing : t = ById(x)
  BY <1>1 DEF ById, Nothing, NetTargetRecord
<1>2. CASE \E p \in rowsOf : t = ByRow(p)
  BY <1>2 DEF ByRow, NetTargetRecord, NetTargetsTypes, NetTargetsTypeOK
<1>3. QED
  BY <1>1, <1>2 DEF NetTargets

LEMMA NetAnswers ==
  ASSUME NEW t, NEW s, NEW c, NEW site, NEW why
  PROVE  /\ SendTo(t, s, c, site).by = t.by /\ SendTo(t, s, c, site).of = t.of
         /\ SendTo(t, s, c, site).res = t.res /\ SendTo(t, s, c, site).named = s
         /\ SendTo(t, s, c, site).answer = "sent" /\ SendTo(t, s, c, site).to = c
         /\ SendTo(t, s, c, site).site = site
         /\ Deny(t, s, why).by = t.by /\ Deny(t, s, why).of = t.of
         /\ Deny(t, s, why).res = t.res /\ Deny(t, s, why).named = s
         /\ Deny(t, s, why).answer = why /\ Deny(t, s, why).to = NoSite
BY DEF SendTo, Deny

(* Once the caches agree with the consoles, what may have a thing is where *)
(* it is.                                                                  *)
LEMMA CurrentCaches ==
  ASSUME NetTargetsTypes, SitesAreKnown, NEW x \in Thing, Current(x)
  PROVE  /\ at[x][1] \in NetConsole /\ at[x][2] \in Site /\ at[x][2] \in sites[at[x][1]]
         /\ \A c \in NetConsole, s \in Site : Lists(c, s, x) <=> at[x] = <<c, s>>
         /\ \A c \in NetConsole : ListsSomewhere(c, x) <=> c = at[x][1]
         /\ \A c \in NetConsole, s \in Site :
              s \in sites[c] => (MayHave(c, s, x) <=> at[x] = <<c, s>>)
<1>1. at[x] \in NetConsole \X Site
  BY DEF NetTargetsTypes, NetTargetsTypeOK, Place
<1>2. at[x] = <<at[x][1], at[x][2]>> /\ at[x][1] \in NetConsole /\ at[x][2] \in Site
  BY <1>1
<1>3. at[x][2] \in sites[at[x][1]]
  BY DEF SitesAreKnown
<1>4. \A c \in NetConsole, s \in Site : Lists(c, s, x) <=> at[x] = <<c, s>>
  <2>1. TAKE c \in NetConsole, s \in Site
  <2>2. CASE s \in sites[c]
    BY <2>2 DEF Current, Lists
  <2>3. CASE s \notin sites[c]
    <3>1. listed[c][s] = Unread
      BY <2>3 DEF SitesAreKnown
    <3>2. at[x] # <<c, s>>
      BY <1>2, <1>3, <2>3
    <3>3. QED
      BY <3>1, <3>2 DEF Lists
  <2>4. QED
    BY <2>2, <2>3
<1>5. \A c \in NetConsole : ListsSomewhere(c, x) <=> c = at[x][1]
  BY <1>2, <1>4 DEF ListsSomewhere
<1>6. \A c \in NetConsole, s \in Site : s \in sites[c] => (MayHave(c, s, x) <=> at[x] = <<c, s>>)
  <2>1. \A s \in Site : s # NoSite
    BY NetTargetsAssumption
  <2>2. QED
    BY <2>1 DEF MayHave, Current
<1>7. QED
  BY <1>2, <1>3, <1>4, <1>5, <1>6

(* A choice made of the consoles that may have the device.                 *)
LEMMA DeviceChoice ==
  ASSUME NetTargetsTypes, NEW t \in NetTargets, NEW s \in Site \cup {NoSite}
  PROVE  LET having == {c \in Matching(s) : MayHave(c, s, t.res)}
         IN /\ DeviceConsoles(t, s) \subseteq having /\ IsFiniteSet(DeviceConsoles(t, s))
            /\ having \subseteq NetConsole
            /\ \A c : having = {c} => DeviceConsoles(t, s) = {c}
            /\ \A c : DeviceConsoles(t, s) = {c} =>
                 \/ t.by = "row" /\ t.of = c
                 \/ having = {c}
                 \/ ListsSomewhere(c, t.res)
<1> DEFINE having == {c \in Matching(s) : MayHave(c, s, t.res)}
           owning == {c \in having : ListsSomewhere(c, t.res)}
<1>1. DeviceConsoles(t, s) = IF t.of \in having THEN {t.of}
                             ELSE IF Cardinality(having) <= 1 THEN having ELSE owning
  BY DEF DeviceConsoles
<1>2. having \subseteq NetConsole /\ owning \subseteq having
  BY DEF Matching
<1>3. \A c \in owning : ListsSomewhere(c, t.res)
  OBVIOUS
<1> HIDE DEF having, owning
<1>4. DeviceConsoles(t, s) \subseteq having
  BY <1>1, <1>2
<1>5. IsFiniteSet(having) /\ IsFiniteSet(DeviceConsoles(t, s))
  BY <1>2, <1>4, NetTargetsAssumption, FS_Subset
<1>6. ASSUME NEW c, having = {c} PROVE DeviceConsoles(t, s) = {c}
  <2>1. Cardinality(having) <= 1
    BY <1>6, FS_Singleton
  <2>2. QED
    BY <1>1, <1>6, <2>1
<1>7. t.of \in having => t.by = "row"
  BY <1>2, NetTargetsAreRecords, NetTargetsAssumption DEF NetTargetRecord
<1>8. ASSUME NEW c, DeviceConsoles(t, s) = {c}
      PROVE  (t.by = "row" /\ t.of = c) \/ having = {c} \/ ListsSomewhere(c, t.res)
  BY <1>1, <1>3, <1>7, <1>8
<1>9. QED
  BY <1>2, <1>4, <1>5, <1>6, <1>8 DEF having

LEMMA DeviceAnswerIsRight ==
  ASSUME NetTargetsTypes, SitesAreKnown, NEW t \in NetTargets, t.res \in Device,
         NEW named \in Site \cup {NoSite}, NEW answer \in DeviceAnswer(t, named)
  PROVE  /\ answer.by = t.by /\ answer.of = t.of /\ answer.res = t.res /\ answer.named = named
         /\ answer.answer = "sent" =>
              /\ answer.to \in NetConsole /\ answer.site \in Site
              /\ answer.site \in sites[answer.to]
              /\ MayHave(answer.to, answer.site, t.res)
              /\ ~ListsSomewhere(answer.to, t.res) =>
                   \/ t.by = "row" /\ t.of = answer.to
                   \/ \A c \in NetConsole : ~Lists(c, answer.site, t.res)
         /\ Current(t.res) /\ t.by = "id" /\ named \in {NoSite, at[t.res][2]} => answer.answer = "sent"
<1> DEFINE s == IF named = NoSite THEN t.siteOf ELSE named
           chosen == DeviceConsoles(t, s)
           having == {c \in Matching(s) : MayHave(c, s, t.res)}
           x == t.res
<1>1. /\ t \in NetTargetRecord /\ x \in Thing /\ s \in Site \cup {NoSite}
      /\ t.by = "id" => t.of = NoSite /\ t.siteOf = NoSite
      /\ NoSite \notin Site
  BY NetTargetsAreRecords, NetTargetsAssumption DEF NetTargetRecord
<1>2. /\ chosen \subseteq having /\ IsFiniteSet(chosen) /\ having \subseteq NetConsole
      /\ \A c : having = {c} => chosen = {c}
      /\ \A c : chosen = {c} => (t.by = "row" /\ t.of = c) \/ having = {c} \/ ListsSomewhere(c, x)
  <2> HIDE DEF s
  <2>1. QED
    BY <1>1, DeviceChoice
<1>3. \A c \in having : MayHave(c, s, x) /\ (s # NoSite => s \in sites[c])
  BY DEF Matching
<1>4. \A c \in NetConsole, q \in Site : Lists(c, q, x) => q \in sites[c] /\ MayHave(c, q, x)
  BY <1>1 DEF Lists, MayHave, SitesAreKnown
<1>5. CASE Matching(s) = {} \/ (t.by = "row" /\ t.of \notin Matching(s))
  <2>1. answer = Deny(t, named, "otherConsole")
    BY <1>5 DEF DeviceAnswer
  <2>2. ASSUME Current(x), t.by = "id", named \in {NoSite, at[x][2]} PROVE FALSE
    <3>1. s = NoSite \/ s = at[x][2]
      BY <1>1, <2>2
    <3>2. at[x][1] \in Matching(s)
      BY <1>1, <2>2, <3>1, CurrentCaches DEF Matching
    <3>3. QED
      BY <1>5, <2>2, <3>2
  <2>3. QED
    BY <2>1, <2>2, NetAnswers
<1>6. CASE ~(Matching(s) = {} \/ (t.by = "row" /\ t.of \notin Matching(s)))
  <2>0. ASSUME Current(x), t.by = "id", named \in {NoSite, at[x][2]}
        PROVE  chosen = {at[x][1]} /\ SitesToSend(at[x][1], named, x) # {}
    <3>1. s = named
      BY <1>1, <2>0
    <3>2. at[x][1] \in NetConsole /\ at[x][2] \in Site /\ at[x][2] \in sites[at[x][1]]
      BY <1>1, <2>0, CurrentCaches
    <3>3. having = {at[x][1]}
      <4>1. CASE named = NoSite
        <5>1. \A c \in NetConsole : c \in having <=> c = at[x][1]
          BY <1>1, <2>0, <3>1, <4>1, CurrentCaches DEF Matching, MayHave
        <5> HIDE DEF having
        <5>2. QED
          BY <1>2, <3>2, <5>1
      <4>2. CASE named # NoSite
        <5>1. named = at[x][2]
          BY <2>0, <4>2
        <5>2. \A c \in NetConsole : c \in having <=> named \in sites[c] /\ MayHave(c, named, x)
          BY <3>1, <4>2 DEF Matching
        <5>3. \A c \in NetConsole : named \in sites[c] => (MayHave(c, named, x) <=> at[x] = <<c, named>>)
          BY <1>1, <2>0, <3>2, <5>1, CurrentCaches
        <5>4. \A c \in NetConsole : at[x] = <<c, named>> <=> c = at[x][1]
          BY <1>1, <3>2, <5>1 DEF NetTargetsTypes, NetTargetsTypeOK, Place
        <5> HIDE DEF having
        <5>5. QED
          BY <1>2, <3>2, <5>1, <5>2, <5>3, <5>4
      <4>3. QED
        BY <4>1, <4>2
    <3>4. SitesToSend(at[x][1], named, x) # {}
      <4>1. CASE named = NoSite
        <5>1. Lists(at[x][1], at[x][2], x)
          BY <1>1, <2>0, <3>2, CurrentCaches DEF NetTargetsTypes, NetTargetsTypeOK, Place
        <5>2. QED
          BY <3>2, <4>1, <5>1 DEF SitesToSend
      <4>2. CASE named # NoSite
        BY <4>2 DEF SitesToSend
      <4>3. QED
        BY <4>1, <4>2
    <3> HIDE DEF chosen, having
    <3>5. QED
      BY <1>2, <3>3, <3>4
  <2>1. CASE Cardinality(chosen) # 1
    <3>1. answer = Deny(t, named, "notOne")
      BY <1>6, <2>1 DEF DeviceAnswer
    <3>2. ~(Current(x) /\ t.by = "id" /\ named \in {NoSite, at[x][2]})
      <4> HIDE DEF chosen
      <4>1. QED
        BY <2>0, <2>1, FS_Singleton
    <3>3. QED
      BY <3>1, <3>2, NetAnswers
  <2>2. CASE Cardinality(chosen) = 1
    <3>1. PICK c : chosen = {c}
      BY <1>2, <2>2, FS_Singleton
    <3>2. OnlyOne(chosen) = c
      BY <3>1 DEF OnlyOne
    <3>3. c \in having /\ c \in NetConsole
      BY <1>2, <3>1
    <3>4. CASE SitesToSend(c, named, x) = {}
      <4>1. answer = Deny(t, named, "siteRequired")
        BY <1>6, <2>2, <3>2, <3>4 DEF DeviceAnswer
      <4>2. ~(Current(x) /\ t.by = "id" /\ named \in {NoSite, at[x][2]})
        <5>1. SUFFICES ASSUME Current(x), t.by = "id", named \in {NoSite, at[x][2]} PROVE FALSE
          OBVIOUS
        <5>2. chosen = {at[x][1]} /\ SitesToSend(at[x][1], named, x) # {}
          BY <2>0, <5>1
        <5> HIDE DEF chosen
        <5>3. c = at[x][1]
          BY <3>1, <5>2
        <5>4. QED
          BY <3>4, <5>2, <5>3
      <4>3. QED
        BY <4>1, <4>2, NetAnswers
    <3>5. CASE SitesToSend(c, named, x) # {}
      <4>1. PICK site \in SitesToSend(c, named, x) : answer = SendTo(t, named, c, site)
        <5>1. DeviceAnswer(t, named) = {SendTo(t, named, c, site) : site \in SitesToSend(c, named, x)}
          BY <1>6, <2>2, <3>2, <3>5 DEF DeviceAnswer
        <5>2. QED
          BY <5>1
      <4>2. /\ answer.by = t.by /\ answer.of = t.of /\ answer.res = x /\ answer.named = named
            /\ answer.answer = "sent" /\ answer.to = c /\ answer.site = site
        BY <4>1, NetAnswers
      <4>3. named # NoSite => site = named /\ s = named /\ site \in Site
        BY <4>1, <1>1 DEF SitesToSend
      <4>4. named = NoSite => site \in Site /\ Lists(c, site, x)
        BY <4>1 DEF SitesToSend
      <4>5. site \in Site /\ site \in sites[c] /\ MayHave(c, site, x)
        BY <1>1, <1>3, <1>4, <3>3, <4>3, <4>4
      <4>6. ASSUME ~ListsSomewhere(c, x), ~(t.by = "row" /\ t.of = c),
                   NEW d \in NetConsole, Lists(d, site, x)
            PROVE  FALSE
        <5>1. named # NoSite
          BY <4>4, <4>5, <4>6 DEF ListsSomewhere
        <5>2. having = {c}
          BY <1>2, <3>1, <4>6
        <5>3. d \in Matching(s) /\ MayHave(d, s, x)
          BY <1>4, <4>3, <4>5, <4>6, <5>1 DEF Matching
        <5>4. d = c
          BY <5>2, <5>3
        <5>5. QED
          BY <4>5, <4>6, <5>4 DEF ListsSomewhere
      <4> HIDE DEF chosen, having, s
      <4>7. QED
        BY <3>3, <4>2, <4>5, <4>6
    <3>6. QED
      BY <3>4, <3>5
  <2>3. QED
    BY <2>1, <2>2
<1>7. QED
  BY <1>5, <1>6

(* A client call by id that names the client's site goes to its console.   *)
LEMMA ClientAnswerIsRight ==
  ASSUME NetTargetsTypes, SitesAreKnown, NEW t \in NetTargets, NEW s \in Site
  PROVE  LET answer == ClientAnswer(t, s)
         IN /\ answer.by = t.by /\ answer.of = t.of /\ answer.res = t.res /\ answer.named = s
            /\ Current(t.res) /\ t.by = "id" /\ s = at[t.res][2] =>
                 /\ answer.to = at[t.res][1] /\ answer.answer = "sent"
                 /\ Lists(answer.to, s, t.res)
<1> DEFINE answer == ClientAnswer(t, s)
           x == t.res
<1>1. x \in Thing /\ t.by \in {"id", "row"}
  BY NetTargetsAreRecords DEF NetTargetRecord
<1>2. answer.by = t.by /\ answer.of = t.of /\ answer.res = x /\ answer.named = s
  BY NetAnswers DEF ClientAnswer
<1>3. ASSUME Current(x), t.by = "id", s = at[x][2]
      PROVE  answer.to = at[x][1] /\ answer.answer = "sent" /\ Lists(answer.to, s, x)
  <2> DEFINE here == at[x][1]
             having == {c \in Matching(s) : MayHave(c, s, x)}
  <2>1. /\ here \in NetConsole /\ s \in sites[here]
        /\ \A c \in NetConsole : s \in sites[c] => (MayHave(c, s, x) <=> at[x] = <<c, s>>)
        /\ \A c \in NetConsole : Lists(c, s, x) <=> at[x] = <<c, s>>
    BY <1>1, <1>3, CurrentCaches
  <2>2. \A c \in NetConsole : at[x] = <<c, s>> <=> c = here
    BY <1>1, <1>3 DEF NetTargetsTypes, NetTargetsTypeOK, Place
  <2>3. Matching(s) = {c \in NetConsole : s \in sites[c]}
    BY NetTargetsAssumption DEF Matching
  <2>4. here \in Matching(s) /\ IsFiniteSet(Matching(s))
    BY <2>1, <2>3, NetTargetsAssumption, FS_Subset
  <2>5. having = {here}
    BY <2>1, <2>2, <2>3
  <2>6. ClientConsoles(t, s) = {here}
    <3>1. CASE Cardinality(Matching(s)) = 1
      <4>1. PICK c : Matching(s) = {c}
        BY <2>4, <3>1, FS_Singleton
      <4>2. ClientConsoles(t, s) = Matching(s)
        BY <3>1 DEF ClientConsoles
      <4>3. QED
        BY <2>4, <4>1, <4>2
    <3>2. CASE Cardinality(Matching(s)) # 1
      <4>1. Cardinality(having) = 1
        <5> HIDE DEF having
        <5>1. QED
          BY <2>5, FS_Singleton
      <4>2. ClientConsoles(t, s) = having
        BY <1>3, <3>2, <4>1 DEF ClientConsoles
      <4>3. QED
        BY <2>5, <4>2
    <3>3. QED
      BY <3>1, <3>2
  <2>7. Cardinality(ClientConsoles(t, s)) = 1 /\ OnlyOne(ClientConsoles(t, s)) = here
    <3>1. OnlyOne({here}) = here
      BY DEF OnlyOne
    <3>2. QED
      BY <2>6, <3>1, FS_Singleton
  <2>8. answer = SendTo(t, s, here, s)
    BY <1>3, <2>4, <2>7 DEF ClientAnswer
  <2>9. QED
    BY <2>1, <2>2, <2>8, NetAnswers
<1>4. QED
  BY <1>2, <1>3

NetTargetsInv == NetTargetsTypes /\ SitesAreKnown /\ NetCallsAreRouted

LEMMA NotSentIsRouted ==
  ASSUME sent'.res = NoSite
  PROVE  NetCallsAreRouted'
<1>1. NoSite \notin Thing /\ NoSite \notin Device
  BY NetTargetsAssumption DEF Thing
<1>2. QED
  BY <1>1 DEF NetCallsAreRouted, NetCallsReachTheirTarget, DeviceCallsFollowTheCaches

LEMMA NetTargetsStep ==
  ASSUME NetTargetsInv, [NetTargetsNext]_netTargetVars
  PROVE  NetTargetsInv'
<1>1. NetTargetsTypes /\ SitesAreKnown /\ NetTargetsTypeOK
  BY DEF NetTargetsInv, NetTargetsTypes
<1>2. ASSUME UNCHANGED <<sites, at, listed, rowsOf, netMoves>>
      PROVE  NetTargetsTypes' /\ SitesAreKnown'
  BY <1>1, <1>2 DEF NetTargetsTypes, NetTargetsTypeOK, SitesAreKnown
<1>3. Device \subseteq Thing /\ Client \subseteq Thing /\ Device \cap Client = {}
  BY NetTargetsAssumption DEF Thing
<1>4. NotSent.res = NoSite
  BY DEF NotSent
<1>5. CASE CallOver
  BY <1>2, <1>4, <1>5, NotSentIsRouted DEF CallOver, NetTargetsInv
<1>6. ASSUME NEW c \in NetConsole \cup {NoSite}, NEW s \in Site \cup {NoSite}, ExportCall(c, s)
      PROVE  NetTargetsInv'
  <2>1. sent'.res = NoSite
    BY <1>6, NetAnswers DEF ExportCall, Nothing
  <2>2. QED
    BY <1>2, <1>6, <2>1, NotSentIsRouted DEF ExportCall, NetTargetsInv
<1>7. ASSUME NEW s \in Site, SiteCall(s) PROVE NetTargetsInv'
  <2>1. sent'.res = NoSite
    BY <1>7, NetAnswers DEF SiteCall, Nothing
  <2>2. QED
    BY <1>2, <1>7, <2>1, NotSentIsRouted DEF SiteCall, NetTargetsInv
<1>8. ASSUME NEW c \in NetConsole, NEW s \in Site, ReadSite(c, s) PROVE NetTargetsInv'
  <2> DEFINE held == {x \in Thing : at[x] = <<c, s>>}
  <2>1. /\ sent' = NotSent /\ s \in sites[c] /\ UNCHANGED <<sites, at, netMoves>>
        /\ listed' = [listed EXCEPT ![c][s] = held]
        /\ rowsOf' = rowsOf \cup {<<c, s, x>> : x \in held}
    BY <1>8 DEF ReadSite
  <2>2. held \subseteq Thing
    OBVIOUS
  <2> HIDE DEF held
  <2>3. listed' \in [NetConsole -> [Site -> {Unread} \cup SUBSET Thing]]
    BY <1>1, <2>1, <2>2 DEF NetTargetsTypes
  <2>4. rowsOf' \subseteq NetConsole \X Site \X Thing
    BY <1>1, <2>1, <2>2 DEF NetTargetsTypeOK
  <2>5. NetTargetsTypes'
    BY <1>1, <2>1, <2>3, <2>4 DEF NetTargetsTypes, NetTargetsTypeOK
  <2>6. SitesAreKnown'
    BY <1>1, <2>1 DEF NetTargetsTypes, SitesAreKnown
  <2>7. QED
    BY <1>4, <2>1, <2>5, <2>6, NotSentIsRouted DEF NetTargetsInv
<1>9. ASSUME NEW x \in Thing, NEW p \in Place, GoElsewhere(x, p) PROVE NetTargetsInv'
  <2>1. sent' = NotSent /\ UNCHANGED <<sites, listed, rowsOf>> /\ p[2] \in sites[p[1]]
        /\ at' = [at EXCEPT ![x] = p] /\ netMoves' \in 0 .. MaxNetMoves
    BY <1>1, <1>9, NetTargetsAssumption DEF GoElsewhere, NetTargetsTypeOK
  <2>2. NetTargetsTypes' /\ SitesAreKnown'
    BY <1>1, <2>1 DEF NetTargetsTypes, NetTargetsTypeOK, SitesAreKnown
  <2>3. QED
    BY <1>4, <2>1, <2>2, NotSentIsRouted DEF NetTargetsInv
<1>10. ASSUME NEW t \in NetTargets, NEW s \in Site \cup {NoSite}, DeviceCall(t, s) PROVE NetTargetsInv'
  <2>1. /\ t.res \in Device /\ sent' \in DeviceAnswer(t, s)
        /\ UNCHANGED <<sites, at, listed, rowsOf, netMoves>>
    BY <1>10 DEF DeviceCall
  <2> DEFINE x == t.res
  <2>2. /\ sent'.by = t.by /\ sent'.of = t.of /\ sent'.res = x /\ sent'.named = s
        /\ sent'.answer = "sent" =>
             /\ sent'.to \in NetConsole /\ sent'.site \in Site
             /\ sent'.site \in sites[sent'.to]
             /\ MayHave(sent'.to, sent'.site, x)
             /\ ~ListsSomewhere(sent'.to, x) =>
                  \/ t.by = "row" /\ t.of = sent'.to
                  \/ \A c \in NetConsole : ~Lists(c, sent'.site, x)
        /\ Current(x) /\ t.by = "id" /\ s \in {NoSite, at[x][2]} => sent'.answer = "sent"
    BY <1>1, <2>1, DeviceAnswerIsRight
  <2>3. DeviceCallsFollowTheCaches'
    BY <2>1, <2>2 DEF DeviceCallsFollowTheCaches, MayHave, ListsSomewhere, Lists
  <2>4. ASSUME Current(x), sent'.answer = "sent" PROVE sent'.to = at[x][1] /\ sent'.site = at[x][2]
    <3>1. at[x] = <<sent'.to, sent'.site>>
      BY <1>1, <1>3, <2>1, <2>2, <2>4, CurrentCaches
    <3>2. QED
      BY <3>1
  <2>5. NetCallsReachTheirTarget'
    BY <1>3, <2>1, <2>2, <2>4 DEF NetCallsReachTheirTarget, Current
  <2>6. QED
    BY <1>2, <2>1, <2>3, <2>5 DEF NetTargetsInv, NetCallsAreRouted
<1>11. ASSUME NEW t \in NetTargets, NEW s \in Site, NEW reconnect \in BOOLEAN,
              ClientCall(t, s, reconnect)
       PROVE  NetTargetsInv'
  <2> DEFINE answer == ClientAnswer(t, s)
             x == t.res
  <2>1. /\ x \in Client /\ UNCHANGED <<sites, at, listed, rowsOf, netMoves>>
        /\ sent' = IF reconnect /\ answer.answer = "sent" /\ ~Lists(answer.to, s, x)
                   THEN Deny(t, s, "notConnected") ELSE answer
    BY <1>11 DEF ClientCall
  <2>2. /\ answer.by = t.by /\ answer.of = t.of /\ answer.res = x /\ answer.named = s
        /\ Current(x) /\ t.by = "id" /\ s = at[x][2] =>
             answer.to = at[x][1] /\ answer.answer = "sent" /\ Lists(answer.to, s, x)
    BY <1>1, ClientAnswerIsRight
  <2> HIDE DEF answer
  <2>3. /\ sent'.by = t.by /\ sent'.res = x /\ sent'.named = s
        /\ Current(x) /\ t.by = "id" /\ s = at[x][2] => sent'.to = at[x][1]
    BY <2>1, <2>2, NetAnswers
  <2>4. x \notin Device
    BY <1>3, <2>1
  <2>5. NetCallsAreRouted'
    BY <2>1, <2>3, <2>4 DEF NetCallsAreRouted, NetCallsReachTheirTarget, DeviceCallsFollowTheCaches,
       Current
  <2>6. QED
    BY <1>2, <2>1, <2>5 DEF NetTargetsInv
<1>12. CASE UNCHANGED netTargetVars
  <2>1. UNCHANGED <<sites, at, listed, rowsOf, netMoves, sent>>
    BY <1>12 DEF netTargetVars
  <2>2. NetCallsAreRouted'
    BY <2>1 DEF NetTargetsInv, NetCallsAreRouted, NetCallsReachTheirTarget, DeviceCallsFollowTheCaches,
       Current, MayHave, ListsSomewhere, Lists
  <2>3. QED
    BY <1>2, <2>1, <2>2 DEF NetTargetsInv
<1>13. QED
  BY <1>5, <1>6, <1>7, <1>8, <1>9, <1>10, <1>11, <1>12 DEF NetTargetsNext

(* resolve_network_device_call and the client branch, for any consoles     *)
(* that share ids of sites: with caches that agree with the consoles a     *)
(* call reaches the console and site of what it names and is not refused;  *)
(* before that a device call only goes where the device may be.            *)
THEOREM NetworkCallsReachTheirConsole ==
  NetTargetsSpec => [](NetTargetsTypeOK /\ NetCallsAreRouted)
<1>1. NetTargetsInit => NetTargetsInv
  <2> SUFFICES ASSUME NetTargetsInit PROVE NetTargetsInv
    OBVIOUS
  <2>1. NetTargetsTypes
    BY NetTargetsAssumption DEF NetTargetsInit, NetTargetsTypes, NetTargetsTypeOK, Place
  <2>2. SitesAreKnown
    BY DEF NetTargetsInit, SitesAreKnown
  <2>3. NetCallsAreRouted
    BY NetTargetsAssumption DEF NetTargetsInit, NotSent, Thing, NetCallsAreRouted, NetCallsReachTheirTarget,
       DeviceCallsFollowTheCaches
  <2>4. QED
    BY <2>1, <2>2, <2>3 DEF NetTargetsInv
<1>2. NetTargetsInv /\ [NetTargetsNext]_netTargetVars => NetTargetsInv'
  BY NetTargetsStep
<1>3. NetTargetsInv => NetTargetsTypeOK /\ NetCallsAreRouted
  BY DEF NetTargetsInv, NetTargetsTypes
<1>4. QED
  BY <1>1, <1>2, <1>3, PTL DEF NetTargetsSpec

-----------------------------------------------------------------------------
(* A call for several consoles is somewhere between the first and the last *)
(* of its sites: those tried and those left are the ones it was for, the   *)
(* failures are among those it is done with, and what it picked to forget  *)
(* is of the site at hand and has not had a name all the while.            *)
BatchRecord == [action : {"none", "remove", "refresh"}, asked : SUBSET Spot, left : SUBSET Spot,
                now : SUBSET Spot, eligible : SUBSET Guest, failures : SUBSET Spot,
                tried : SUBSET Spot, raised : BOOLEAN]

BatchAddsUp ==
  /\ batch.asked = batch.tried \cup batch.left
  /\ batch.tried \cap batch.left = {}
  /\ batch.now \subseteq batch.tried
  /\ batch.failures \subseteq batch.tried \ batch.now
  /\ batch.action # "none" /\ batch.left = {} /\ batch.now = {} =>
       (batch.raised <=> batch.failures # {})

PickedAreUnknown ==
  /\ \A x \in knownAtStart : history[x].named
  /\ \A x \in batch.eligible : x \notin knownAtStart /\ SpotOf[x] \in batch.now

BatchInv == BatchTypeOK /\ batch \in BatchRecord /\ BatchAddsUp /\ PickedAreUnknown

(* The end of one site, done or failed, leaves the sum as it was.          *)
LEMMA SiteIsDone ==
  ASSUME BatchInv, NEW failures \in SUBSET batch.tried,
         batch' = SiteDone(failures), forgotten' \in SUBSET Guest,
         UNCHANGED <<history, knownAtStart, usable, changes>>
  PROVE  BatchInv'
<1>1. batch' \in BatchRecord
  BY DEF BatchInv, BatchRecord, SiteDone
<1>2. /\ batch'.action = batch.action /\ batch'.asked = batch.asked /\ batch'.left = batch.left
      /\ batch'.tried = batch.tried /\ batch'.now = {} /\ batch'.eligible = {}
      /\ batch'.failures = failures /\ batch'.raised = (batch.left = {} /\ failures # {})
  BY DEF BatchInv, BatchRecord, SiteDone
<1>3. BatchAddsUp'
  BY <1>2 DEF BatchInv, BatchAddsUp
<1>4. PickedAreUnknown'
  BY <1>2 DEF BatchInv, PickedAreUnknown
<1>5. BatchTypeOK'
  BY <1>1, <1>2 DEF BatchInv, BatchTypeOK, BatchRecord
<1>6. QED
  BY <1>1, <1>3, <1>4, <1>5 DEF BatchInv

LEMMA BatchStep ==
  ASSUME BatchInv, [BatchNext]_batchVars
  PROVE  BatchInv'
<1> USE DEF BatchInv
<1>1. CASE RemoveClients
  BY <1>1 DEF RemoveClients, BatchTypeOK, BatchRecord, BatchAddsUp, PickedAreUnknown, NoBatch
<1>2. ASSUME NEW spots \in SUBSET Spot, RefreshData(spots) PROVE BatchInv'
  BY <1>2 DEF RefreshData, BatchTypeOK, BatchRecord, BatchAddsUp, PickedAreUnknown, NoBatch
<1>3. ASSUME NEW p \in Spot, Begin(p) PROVE BatchInv'
  <2>1. batch' \in BatchRecord
    BY <1>3 DEF Begin, BatchRecord
  <2>2. /\ batch'.action = batch.action /\ batch'.asked = batch.asked
        /\ batch'.left = batch.left \ {p} /\ batch'.tried = batch.tried \cup {p}
        /\ batch'.now = {p} /\ batch'.eligible = {} /\ batch'.failures = batch.failures
    BY <1>3 DEF Begin, BatchRecord
  <2>3. BatchTypeOK'
    BY <1>3, <2>1, <2>2 DEF Begin, BatchTypeOK, BatchRecord
  <2>4. BatchAddsUp'
    BY <1>3, <2>1, <2>2 DEF Begin, BatchAddsUp
  <2>5. QED
    BY <1>3, <2>1, <2>2, <2>3, <2>4 DEF Begin, PickedAreUnknown
<1>4. ASSUME NEW p \in Spot, Fail(p) PROVE BatchInv'
  <2>1. batch.failures \cup {p} \in SUBSET batch.tried
    BY <1>4 DEF Fail, BatchAddsUp
  <2>2. QED
    BY <1>4, <2>1, SiteIsDone DEF Fail, BatchTypeOK
<1>5. ASSUME NEW p \in Spot, Refreshed(p) PROVE BatchInv'
  BY <1>5, SiteIsDone DEF Refreshed, BatchTypeOK, BatchAddsUp
<1>6. ASSUME NEW p \in Spot, HistoryRead(p) PROVE BatchInv'
  <2> DEFINE picked == {x \in Guest \ forgotten : SpotOf[x] = p /\ Eligible(history[x])}
  <2>1. CASE picked = {}
    BY <1>6, <2>1, SiteIsDone DEF HistoryRead, BatchTypeOK, BatchAddsUp
  <2>2. CASE picked # {}
    <3>1. batch' = [batch EXCEPT !.eligible = picked]
      BY <1>6, <2>2 DEF HistoryRead
    <3>2. \A x \in picked : x \notin knownAtStart /\ SpotOf[x] \in batch.now
      BY <1>6 DEF HistoryRead, Eligible, PickedAreUnknown
    <3>3. picked \in SUBSET Guest
      OBVIOUS
    <3> HIDE DEF picked
    <3>4. /\ batch'.action = batch.action /\ batch'.asked = batch.asked /\ batch'.left = batch.left
          /\ batch'.tried = batch.tried /\ batch'.now = batch.now /\ batch'.eligible = picked
          /\ batch'.failures = batch.failures /\ batch'.raised = batch.raised
      BY <3>1 DEF BatchRecord
    <3>5. batch' \in BatchRecord
      BY <3>1, <3>3 DEF BatchRecord
    <3>6. UNCHANGED <<history, usable, forgotten, changes, knownAtStart>>
      BY <1>6 DEF HistoryRead
    <3>7. BatchTypeOK' /\ BatchAddsUp'
      BY <3>4, <3>5, <3>6 DEF BatchTypeOK, BatchAddsUp
    <3>8. PickedAreUnknown'
      BY <3>2, <3>4, <3>6 DEF PickedAreUnknown
    <3>9. QED
      BY <3>5, <3>7, <3>8
  <2>3. QED
    BY <2>1, <2>2
<1>7. ASSUME NEW p \in Spot, Forget(p) PROVE BatchInv'
  <2>1. forgotten' \in SUBSET Guest
    BY <1>7 DEF Forget, BatchTypeOK, BatchRecord
  <2>2. QED
    BY <1>7, <2>1, SiteIsDone DEF Forget, BatchAddsUp
<1>8. ASSUME NEW x \in Guest, Rename(x) \/ ComesBack(x, "long") PROVE BatchInv'
  <2>1. /\ history' \in [Guest -> [named : BOOLEAN, span : Span]]
        /\ knownAtStart' \subseteq knownAtStart
        /\ \A y \in knownAtStart' : history[y].named => history'[y].named
    <3>1. history \in [Guest -> [named : BOOLEAN, span : Span]] /\ "long" \in Span
      BY DEF BatchTypeOK, Span
    <3>2. CASE Rename(x)
      <4>1. /\ history' = [history EXCEPT ![x].named = ~@]
            /\ knownAtStart' = knownAtStart \ {x}
        BY <3>2 DEF Rename
      <4>2. history' \in [Guest -> [named : BOOLEAN, span : Span]]
        BY <3>1, <4>1
      <4>3. \A y \in Guest \ {x} : history'[y] = history[y]
        BY <3>1, <4>1
      <4>4. knownAtStart \subseteq Guest
        BY DEF BatchTypeOK
      <4>5. QED
        BY <4>1, <4>2, <4>3, <4>4
    <3>3. CASE ComesBack(x, "long")
      <4>1. history' = [history EXCEPT ![x].span = "long"] /\ knownAtStart' = knownAtStart
        BY <3>3 DEF ComesBack
      <4>2. history' \in [Guest -> [named : BOOLEAN, span : Span]]
        BY <3>1, <4>1
      <4>3. \A y \in Guest : history'[y].named = history[y].named
        BY <3>1, <4>1
      <4>4. knownAtStart \subseteq Guest
        BY DEF BatchTypeOK
      <4>5. QED
        BY <4>1, <4>2, <4>3, <4>4
    <3>4. QED
      BY <1>8, <3>2, <3>3
  <2>2. changes' \in 0 .. MaxChanges
    BY <1>8, BatchAssumption DEF Rename, ComesBack, BatchTypeOK
  <2>3. UNCHANGED <<usable, batch, forgotten>>
    BY <1>8 DEF Rename, ComesBack
  <2>4. PickedAreUnknown'
    BY <2>1, <2>3 DEF PickedAreUnknown, BatchTypeOK
  <2>5. QED
    BY <2>1, <2>2, <2>3, <2>4 DEF BatchTypeOK, BatchAddsUp
<1>9. CASE UNCHANGED batchVars
  BY <1>9 DEF batchVars, BatchTypeOK, BatchAddsUp, PickedAreUnknown
<1>10. QED
  BY <1>1, <1>2, <1>3, <1>4, <1>5, <1>6, <1>7, <1>8, <1>9 DEF BatchNext

LEMMA BatchHolds == BatchSpec => []BatchInv
<1>1. BatchInit => BatchInv
  BY BatchAssumption DEF BatchInit, BatchInv, BatchTypeOK, BatchRecord, NoBatch, BatchAddsUp,
     PickedAreUnknown
<1>2. BatchInv /\ [BatchNext]_batchVars => BatchInv'
  BY BatchStep
<1>3. QED
  BY <1>1, <1>2, PTL DEF BatchSpec

LEMMA KnownAreKept ==
  ASSUME BatchInv, BatchNext
  PROVE  \A x \in forgotten' \ forgotten :
           x \notin knownAtStart /\ SpotOf[x] \in batch.tried \ batch.failures
<1>1. SUFFICES ASSUME NEW p \in Spot, Forget(p)
               PROVE  \A x \in batch.eligible :
                        x \notin knownAtStart /\ SpotOf[x] \in batch.tried \ batch.failures
  BY DEF BatchNext, RemoveClients, RefreshData, Begin, Fail, Refreshed, HistoryRead, Forget,
     Rename, ComesBack
<1>2. QED
  BY DEF BatchInv, BatchAddsUp, PickedAreUnknown

(* remove_clients and refresh_data, for any consoles, sites and clients:   *)
(* whatever fails on the way, a call that is over has tried all it was for *)
(* and raises exactly when one of them failed; a client that has had a     *)
(* name since the call came, or is of a site that could not be read, is    *)
(* not forgotten.                                                          *)
THEOREM CallsDoAllTheyCan == BatchSpec => BatchesAreComplete
<1>1. BatchInv => BatchTypeOK /\ OneFailureStopsNothing
  BY DEF BatchInv, BatchAddsUp, OneFailureStopsNothing
<1>2. BatchInv /\ [BatchNext]_batchVars =>
        [\A x \in forgotten' \ forgotten :
           x \notin knownAtStart /\ SpotOf[x] \in batch.tried \ batch.failures]_batchVars
  BY KnownAreKept
<1>3. QED
  BY <1>1, <1>2, BatchHolds, PTL DEF BatchSpec, BatchesAreComplete, KnownClientsStay

-----------------------------------------------------------------------------
(* The view kept was made from the contents its key names, and an object   *)
(* still in place still has the content it had.                            *)
AnyContent == UNION {Content(o) : o \in Owner}
MemoType == [objects : Nat \X Nat \X Nat, key : AnyContent \X AnyContent,
             view : PlanSite \cup {"camera", NoMatch}]

MemoFits(m, d) ==
  /\ m.objects[1] = d["innerspace"].object =>
       m.view = BuildView(d["innerspace"].content, m.key[1], m.key[2])
  /\ m.objects[2] = d["device"].object => m.key[1] = d["device"].content
  /\ m.objects[3] = d["protect"].object => m.key[2] = d["protect"].content

Matched(d) == BuildView(d["innerspace"].content, d["device"].content, d["protect"].content)

FacadeTypes ==
  /\ FacadeTypeOK
  /\ data \in [Owner -> [object : 0 .. MaxPublished, content : AnyContent]]
  /\ refreshing \in [waiting : SUBSET Owner, done : BOOLEAN]
  /\ memo \in MemoType

(* What was published and not told is a part of a poll that still runs, or *)
(* of one that failed again.                                               *)
ToldUnlessPolled ==
  listening =>
    /\ snapshot.available = success
    /\ \A o \in Owner :
         success[o] /\ (o = "protect" => o \notin polling) => snapshot.shown[o] = data[o]

ObjectsArePublished ==
  /\ \A o \in Owner : data[o].object <= published
  /\ \A i \in 1 .. 3 : memo.objects[i] <= published

FacadeInv ==
  /\ FacadeTypes /\ ToldUnlessPolled /\ ObjectsArePublished
  /\ MemoFits(memo, data) /\ ViewFitsTheSnapshot

LEMMA ContentsAreKnown ==
  ASSUME NEW o \in Owner
  PROVE  Content(o) \subseteq AnyContent
BY DEF AnyContent

LEMMA OneMatch ==
  ASSUME NEW d, d["innerspace"].content \in Content("innerspace"),
         d["device"].content \in Content("device"), d["protect"].content \in Content("protect")
  PROVE  Matched(d) \in PlanSite \cup {"camera", NoMatch}
<1> DEFINE plan == d["innerspace"].content
           network == d["device"].content
           protect == d["protect"].content
           net == IF plan = AnySite THEN network ELSE network \cap {plan}
           found == net \cup protect
<1>1. /\ network \in SUBSET PlanSite /\ protect \in SUBSET {"camera"}
  BY DEF Content
<1>2. found \subseteq PlanSite \cup {"camera"}
  BY <1>1
<1>3. CASE Cardinality(found) = 1
  <2>1. found # {}
    BY <1>3, FS_EmptySet
  <2>2. QED
    BY <1>2, <1>3, <2>1 DEF Matched, BuildView
<1>4. CASE Cardinality(found) # 1
  BY <1>4 DEF Matched, BuildView
<1>5. QED
  BY <1>3, <1>4

(* _innerspace_view: kept, carried over or built, the view is the one the  *)
(* contents of this moment give.                                           *)
LEMMA ViewMatches ==
  ASSUME NEW d \in [Owner -> [object : Nat, content : AnyContent]],
         \A o \in Owner : d[o].content \in Content(o),
         memo \in MemoType, MemoFits(memo, d)
  PROVE  /\ View(d) \in MemoType
         /\ View(d).view = Matched(d)
         /\ MemoFits(View(d), d)
         /\ View(d).objects = memo.objects \/ View(d).objects = Objects(d)
<1> DEFINE key == CorrelationKey(d["device"].content, d["protect"].content)
           built == [objects |-> Objects(d), key |-> key, view |-> Matched(d)]
<1>1. /\ "innerspace" \in Owner /\ "device" \in Owner /\ "protect" \in Owner
  BY DEF Owner
<1>2. Objects(d) \in Nat \X Nat \X Nat
  BY <1>1 DEF Objects
<1>3. key \in AnyContent \X AnyContent
  BY <1>1 DEF CorrelationKey
<1>4. Matched(d) \in PlanSite \cup {"camera", NoMatch}
  BY <1>1, OneMatch
<1>5. CASE memo.objects = Objects(d)
  <2>1. View(d) = memo
    BY <1>5 DEF View
  <2>2. memo.key[1] = d["device"].content /\ memo.key[2] = d["protect"].content
    BY <1>5 DEF MemoFits, Objects
  <2>3. memo.view = Matched(d)
    BY <1>5, <2>2 DEF MemoFits, Objects, Matched
  <2>4. QED
    BY <2>1, <2>3
<1>6. CASE memo.objects # Objects(d) /\ (memo.objects[1] # Objects(d)[1] \/ memo.key # key)
  <2>1. View(d) = built
    BY <1>6 DEF View, Matched
  <2>2. built \in MemoType
    BY <1>2, <1>3, <1>4 DEF MemoType
  <2>3. MemoFits(built, d)
    BY DEF MemoFits, Objects, Matched, CorrelationKey
  <2>4. QED
    BY <2>1, <2>2, <2>3
<1>7. CASE memo.objects # Objects(d) /\ memo.objects[1] = Objects(d)[1] /\ memo.key = key
  <2>1. View(d) = [memo EXCEPT !.objects = Objects(d)]
    BY <1>7 DEF View
  <2>2. /\ View(d).objects = Objects(d) /\ View(d).key = key /\ View(d).view = memo.view
        /\ View(d) \in MemoType
    BY <1>2, <1>7, <2>1 DEF MemoType
  <2>3. memo.view = Matched(d)
    BY <1>7 DEF MemoFits, Objects, Matched, CorrelationKey
  <2>4. MemoFits(View(d), d)
    BY <2>2, <2>3 DEF MemoFits, Matched, CorrelationKey
  <2>5. QED
    BY <2>2, <2>3, <2>4
<1>8. QED
  BY <1>5, <1>6, <1>7

PublishedOK ==
  /\ data \in [Owner -> [object : 0 .. MaxPublished, content : AnyContent]]
  /\ \A o \in Owner : data[o].content \in Content(o)
  /\ published \in 0 .. MaxPublished
  /\ \A o \in Owner : data[o].object <= published

(* A new object has a number of its own: no view kept was made from it.    *)
LEMMA PublishingFits ==
  ASSUME FacadeInv, NEW o \in Owner, NEW content \in Content(o), Publish(o, content)
  PROVE  /\ PublishedOK'
         /\ MemoFits(memo, data')
         /\ published <= published'
         /\ \A q \in Owner \ {o} : data'[q] = data[q]
<1>1. /\ MaxPublished \in Nat /\ published \in Nat /\ published + 1 <= MaxPublished
      /\ published' = published + 1
  BY FacadeAssumption DEF Publish, FacadeInv, FacadeTypes, FacadeTypeOK
<1>2. content \in AnyContent
  BY ContentsAreKnown
<1> DEFINE news == [object |-> published + 1, content |-> content]
<1>3. news \in [object : 0 .. MaxPublished, content : AnyContent]
  BY <1>1, <1>2
<1>4. /\ data' = [data EXCEPT ![o] = news]
      /\ data'[o] = news /\ \A q \in Owner \ {o} : data'[q] = data[q]
      /\ data' \in [Owner -> [object : 0 .. MaxPublished, content : AnyContent]]
  BY <1>3 DEF Publish, FacadeInv, FacadeTypes
<1>5. /\ news.object = published + 1 /\ news.content = content
  OBVIOUS
<1> HIDE DEF news
<1>6. \A q \in Owner : data'[q].content \in Content(q)
  BY <1>4, <1>5 DEF FacadeInv, FacadeTypes, FacadeTypeOK
<1>7. \A q \in Owner : data'[q].object <= published'
  BY <1>1, <1>4, <1>5 DEF FacadeInv, ObjectsArePublished, FacadeTypes
<1>8. \A i \in 1 .. 3 : memo.objects[i] \in Nat /\ memo.objects[i] <= published
  BY DEF FacadeInv, ObjectsArePublished, FacadeTypes, MemoType
<1>9. /\ 1 \in 1 .. 3 /\ 2 \in 1 .. 3 /\ 3 \in 1 .. 3
      /\ "innerspace" \in Owner /\ "device" \in Owner /\ "protect" \in Owner
  BY DEF Owner
<1>10. MemoFits(memo, data)
  BY DEF FacadeInv
<1>11. \A i \in 1 .. 3 : memo.objects[i] # published + 1
  BY <1>1, <1>8
<1>12. MemoFits(memo, data')
  <2>1. /\ data'["innerspace"] = data["innerspace"] \/ data'["innerspace"].object = published + 1
        /\ data'["device"] = data["device"] \/ data'["device"].object = published + 1
        /\ data'["protect"] = data["protect"] \/ data'["protect"].object = published + 1
    BY <1>4, <1>5, <1>9
  <2>2. /\ memo.objects[1] # published + 1 /\ memo.objects[2] # published + 1
        /\ memo.objects[3] # published + 1
    BY <1>9, <1>11
  <2>3. QED
    BY <1>10, <2>1, <2>2 DEF MemoFits
<1>13. published' \in 0 .. MaxPublished /\ published <= published'
  BY <1>1
<1>14. QED
  BY <1>4, <1>6, <1>7, <1>12, <1>13 DEF PublishedOK

(* The data as it is, or after an object was published.                    *)
LEMMA UnchangedFits ==
  ASSUME FacadeInv, UNCHANGED <<data, published>>
  PROVE  PublishedOK' /\ MemoFits(memo, data') /\ published <= published'
<1>1. published \in Nat
  BY DEF FacadeInv, FacadeTypes, FacadeTypeOK
<1>2. QED
  BY <1>1 DEF FacadeInv, FacadeTypes, FacadeTypeOK, ObjectsArePublished, PublishedOK

(* Put together anew, the snapshot shows everything.                       *)
LEMMA Aggregated ==
  ASSUME FacadeInv, PublishedOK', MemoFits(memo, data'), published <= published', Aggregate
  PROVE  /\ memo' \in MemoType /\ MemoFits(memo, data)' /\ ViewFitsTheSnapshot'
         /\ snapshot'.available = success'
         /\ snapshot'.shown = data'
         /\ \A i \in 1 .. 3 : memo'.objects[i] <= published'
<1>1. memo' = View(data') /\ memo \in MemoType
  BY DEF Aggregate, FacadeInv, FacadeTypes
<1>2. data' \in [Owner -> [object : Nat, content : AnyContent]]
  BY FacadeAssumption DEF PublishedOK
<1>3. /\ memo' \in MemoType /\ memo'.view = Matched(data') /\ MemoFits(memo', data')
      /\ memo'.objects = memo.objects \/ memo'.objects = Objects(data')
  BY <1>1, <1>2, ViewMatches DEF PublishedOK
<1>4. [o \in Owner |-> data'[o]] = data'
  BY <1>2
<1>5. /\ snapshot'.available = success' /\ snapshot'.shown = data'
      /\ snapshot'.view = memo'.view
  BY <1>4 DEF Aggregate
<1>6. ViewFitsTheSnapshot'
  BY <1>3, <1>5 DEF ViewFitsTheSnapshot, Matched
<1>7. /\ "innerspace" \in Owner /\ "device" \in Owner /\ "protect" \in Owner
  BY DEF Owner
<1>8. published \in Nat /\ published' \in Nat
  BY DEF FacadeInv, FacadeTypes, FacadeTypeOK, PublishedOK
<1>9. \A i \in 1 .. 3 : Objects(data')[i] <= published'
  <2>1. /\ data'["innerspace"].object <= published' /\ data'["device"].object <= published'
        /\ data'["protect"].object <= published'
    BY <1>7 DEF PublishedOK
  <2>2. QED
    BY <2>1 DEF Objects
<1>10. \A i \in 1 .. 3 : memo.objects[i] <= published'
  <2>1. \A i \in 1 .. 3 : memo.objects[i] \in Nat /\ memo.objects[i] <= published
    BY DEF FacadeInv, ObjectsArePublished, FacadeTypes, MemoType
  <2>2. QED
    BY <1>8, <2>1
<1>11. QED
  BY <1>3, <1>5, <1>6, <1>9, <1>10

LEMMA NotAggregated ==
  ASSUME FacadeInv, PublishedOK', MemoFits(memo, data'), published <= published',
         UNCHANGED <<snapshot, memo>>
  PROVE  /\ memo' \in MemoType /\ MemoFits(memo, data)' /\ ViewFitsTheSnapshot'
         /\ \A i \in 1 .. 3 : memo'.objects[i] <= published'
<1>1. \A i \in 1 .. 3 : memo.objects[i] \in Nat /\ memo.objects[i] <= published
  BY DEF FacadeInv, ObjectsArePublished, FacadeTypes, MemoType
<1>2. published \in Nat /\ published' \in Nat
  BY DEF FacadeInv, FacadeTypes, FacadeTypeOK, PublishedOK
<1>3. \A i \in 1 .. 3 : memo'.objects[i] <= published'
  BY <1>1, <1>2
<1>4. QED
  BY <1>3 DEF FacadeInv, FacadeTypes, ViewFitsTheSnapshot

(* What is left to show of a step once the snapshot and the view are seen  *)
(* to.                                                                     *)
LEMMA FacadeAgain ==
  ASSUME PublishedOK', memo' \in MemoType, MemoFits(memo, data)', ViewFitsTheSnapshot',
         \A i \in 1 .. 3 : memo'.objects[i] <= published',
         success' \in [Owner -> BOOLEAN], polling' \in SUBSET Owner, listening' \in BOOLEAN,
         refreshing' \in [waiting : SUBSET Owner, done : BOOLEAN], ToldUnlessPolled'
  PROVE  FacadeInv'
<1>1. FacadeTypeOK'
  BY DEF PublishedOK, FacadeTypeOK
<1>2. QED
  BY <1>1 DEF FacadeInv, FacadeTypes, ObjectsArePublished, PublishedOK

LEMMA FacadeStep ==
  ASSUME FacadeInv, [FacadeNext]_facadeVars
  PROVE  FacadeInv'
<1> USE DEF FacadeInv
<1>1. /\ success \in [Owner -> BOOLEAN] /\ polling \in SUBSET Owner /\ listening \in BOOLEAN
      /\ refreshing \in [waiting : SUBSET Owner, done : BOOLEAN]
  BY DEF FacadeTypes, FacadeTypeOK
<1>2. ASSUME NEW o \in Owner, StartPoll(o) PROVE FacadeInv'
  <2>1. /\ PublishedOK' /\ MemoFits(memo, data') /\ published <= published'
    BY <1>2, UnchangedFits DEF StartPoll
  <2>2. UNCHANGED <<snapshot, memo>>
    BY <1>2 DEF StartPoll
  <2>3. ToldUnlessPolled'
    BY <1>2 DEF StartPoll, ToldUnlessPolled
  <2>4. QED
    BY <1>1, <1>2, <2>1, <2>2, <2>3, NotAggregated, FacadeAgain DEF StartPoll
<1>3. ASSUME NEW content \in Content("protect"), PublishPart(content) PROVE FacadeInv'
  <2>1. /\ PublishedOK' /\ MemoFits(memo, data') /\ published <= published'
        /\ \A q \in Owner \ {"protect"} : data'[q] = data[q]
    BY <1>3, PublishingFits DEF PublishPart, Owner
  <2>2. UNCHANGED <<snapshot, memo>>
    BY <1>3 DEF PublishPart
  <2>3. ToldUnlessPolled'
    BY <1>3, <2>1 DEF PublishPart, ToldUnlessPolled
  <2>4. QED
    BY <1>1, <1>3, <2>1, <2>2, <2>3, NotAggregated, FacadeAgain DEF PublishPart
<1>4. ASSUME NEW o \in Owner, NEW ok \in BOOLEAN, EndPoll(o, ok) PROVE FacadeInv'
  <2>1. /\ PublishedOK' /\ MemoFits(memo, data') /\ published <= published'
    BY <1>4, UnchangedFits, PublishingFits DEF EndPoll
  <2>2. /\ success' \in [Owner -> BOOLEAN] /\ polling' \in SUBSET Owner /\ listening' \in BOOLEAN
        /\ refreshing' \in [waiting : SUBSET Owner, done : BOOLEAN]
    BY <1>1, <1>4 DEF EndPoll
  <2>3. CASE Aggregate
    <3>1. ToldUnlessPolled'
      BY <2>1, <2>3, Aggregated DEF ToldUnlessPolled
    <3>2. QED
      BY <2>1, <2>2, <2>3, <3>1, Aggregated, FacadeAgain
  <2>4. CASE ~Aggregate
    <3>1. UNCHANGED <<snapshot, memo>>
      BY <1>4, <2>4 DEF EndPoll, Told
    <3>2. listening => ~ok /\ ~success[o]
      BY <1>4, <2>4 DEF EndPoll, Told, TellsListeners
    <3>3. listening => success' = success /\ data' = data
      BY <1>1, <1>4, <3>2 DEF EndPoll
    <3>4. ToldUnlessPolled'
      BY <1>4, <3>1, <3>2, <3>3 DEF EndPoll, ToldUnlessPolled
    <3>5. QED
      BY <2>1, <2>2, <3>1, <3>4, NotAggregated, FacadeAgain
  <2>5. QED
    BY <2>3, <2>4
<1>5. ASSUME NEW o \in Owner, NEW content \in Content(o), Overlay(o, content) PROVE FacadeInv'
  <2>1. /\ PublishedOK' /\ MemoFits(memo, data') /\ published <= published'
    BY <1>5, PublishingFits DEF Overlay
  <2>2. CASE Aggregate
    <3>1. ToldUnlessPolled'
      BY <2>1, <2>2, Aggregated DEF ToldUnlessPolled
    <3>2. QED
      BY <1>1, <1>5, <2>1, <2>2, <3>1, Aggregated, FacadeAgain DEF Overlay
  <2>3. CASE ~listening /\ UNCHANGED <<snapshot, memo>>
    <3>1. ToldUnlessPolled'
      BY <1>5, <2>3 DEF Overlay, ToldUnlessPolled
    <3>2. QED
      BY <1>1, <1>5, <2>1, <2>3, <3>1, NotAggregated, FacadeAgain DEF Overlay
  <2>4. QED
    BY <1>5, <2>2, <2>3 DEF Overlay, Told
<1>6. ASSUME NEW includeProtect \in BOOLEAN, RequestRefresh(includeProtect) PROVE FacadeInv'
  <2>1. /\ PublishedOK' /\ MemoFits(memo, data') /\ published <= published'
    BY <1>6, UnchangedFits DEF RequestRefresh
  <2>2. ToldUnlessPolled'
    BY <1>6 DEF RequestRefresh, ToldUnlessPolled
  <2>3. Children(includeProtect) \in SUBSET Owner
    BY DEF Children, Owner
  <2>4. /\ polling' \in SUBSET Owner /\ refreshing' \in [waiting : SUBSET Owner, done : BOOLEAN]
    BY <1>1, <1>6, <2>3 DEF RequestRefresh
  <2>5. QED
    BY <1>1, <1>6, <2>1, <2>2, <2>4, NotAggregated, FacadeAgain DEF RequestRefresh
<1>7. CASE RefreshEnds
  <2>1. /\ PublishedOK' /\ MemoFits(memo, data') /\ published <= published' /\ Aggregate
    BY <1>7, UnchangedFits DEF RefreshEnds
  <2>2. ToldUnlessPolled'
    BY <2>1, Aggregated DEF ToldUnlessPolled
  <2>3. refreshing' \in [waiting : SUBSET Owner, done : BOOLEAN]
    BY <1>7 DEF RefreshEnds, NotRefreshing
  <2>4. QED
    BY <1>1, <1>7, <2>1, <2>2, <2>3, Aggregated, FacadeAgain DEF RefreshEnds
<1>8. CASE Shutdown
  <2>1. /\ PublishedOK' /\ MemoFits(memo, data') /\ published <= published'
    BY <1>8, UnchangedFits DEF Shutdown
  <2>2. ToldUnlessPolled'
    BY <1>8 DEF Shutdown, ToldUnlessPolled
  <2>3. QED
    BY <1>1, <1>8, <2>1, <2>2, NotAggregated, FacadeAgain DEF Shutdown
<1>9. CASE UNCHANGED facadeVars
  <2>1. /\ PublishedOK' /\ MemoFits(memo, data') /\ published <= published'
    BY <1>9, UnchangedFits DEF facadeVars
  <2>2. ToldUnlessPolled'
    BY <1>9 DEF facadeVars, ToldUnlessPolled
  <2>3. QED
    BY <1>1, <1>9, <2>1, <2>2, NotAggregated, FacadeAgain DEF facadeVars
<1>10. QED
  BY <1>2, <1>3, <1>4, <1>5, <1>6, <1>7, <1>8, <1>9 DEF FacadeNext, Owner

LEMMA FacadeStarts == FacadeInit => FacadeInv
<1> SUFFICES ASSUME FacadeInit PROVE FacadeInv
  OBVIOUS
<1>1. \A o \in Owner : First(o).content \in Content(o) /\ First(o).object = 0
  BY DEF First, Content, Owner
<1>2. data \in [Owner -> [object : 0 .. MaxPublished, content : AnyContent]]
  <2>1. \A o \in Owner : First(o) \in [object : 0 .. MaxPublished, content : AnyContent]
    BY <1>1, ContentsAreKnown, FacadeAssumption DEF First
  <2>2. QED
    BY <2>1 DEF FacadeInit
<1>3. /\ data["innerspace"].object = 0 /\ data["innerspace"].content = AnySite
      /\ data["device"].object = 0 /\ data["device"].content = {}
      /\ data["protect"].object = 0 /\ data["protect"].content = {}
  BY DEF FacadeInit, First, Owner
<1>4. {} \in AnyContent
  BY DEF AnyContent, Content, Owner
<1>5. memo \in MemoType
  BY <1>4 DEF FacadeInit, MemoType, CorrelationKey
<1>6. BuildView(AnySite, {}, {}) = NoMatch
  BY FS_EmptySet DEF BuildView
<1>7. MemoFits(memo, data)
  BY <1>3, <1>6 DEF FacadeInit, MemoFits, CorrelationKey
<1>8. ViewFitsTheSnapshot
  BY <1>3, <1>6 DEF FacadeInit, ViewFitsTheSnapshot
<1>9. FacadeTypes
  BY <1>1, <1>2, <1>5, FacadeAssumption DEF FacadeInit, FacadeTypes, FacadeTypeOK, NotRefreshing
<1>10. ToldUnlessPolled
  BY DEF FacadeInit, ToldUnlessPolled
<1>11. ObjectsArePublished
  BY <1>1 DEF FacadeInit, ObjectsArePublished
<1>12. QED
  BY <1>7, <1>8, <1>9, <1>10, <1>11 DEF FacadeInv

LEMMA RefreshShows ==
  ASSUME FacadeInv, FacadeNext, refreshing'.done, ~refreshing.done
  PROVE  snapshot'.shown = data' /\ snapshot'.available = success'
<1>1. refreshing \in [waiting : SUBSET Owner, done : BOOLEAN]
  BY DEF FacadeInv, FacadeTypes
<1>2. RefreshEnds
  BY <1>1 DEF FacadeNext, StartPoll, PublishPart, EndPoll, Overlay, RequestRefresh, Shutdown
<1>3. PublishedOK' /\ MemoFits(memo, data') /\ published <= published' /\ Aggregate
  BY <1>2, UnchangedFits DEF RefreshEnds
<1>4. QED
  BY <1>3, Aggregated

(* _aggregate_data and _innerspace_view, for any sites and any number of   *)
(* objects: while nothing is in flight the snapshot is what the            *)
(* coordinators have, the matched devices are always those of the same     *)
(* snapshot, and a refresh somebody asked for shows all when it returns.   *)
THEOREM FacadeIsCurrent == FacadeSpec => ViewIsCurrent
<1>1. FacadeInit => FacadeInv
  BY FacadeStarts
<1>2. FacadeInv /\ [FacadeNext]_facadeVars => FacadeInv'
  BY FacadeStep
<1>3. FacadeInv => SnapshotIsCurrent /\ ViewFitsTheSnapshot
  BY DEF FacadeInv, ToldUnlessPolled, SnapshotIsCurrent
<1>4. FacadeInv /\ [FacadeNext]_facadeVars =>
        [refreshing'.done /\ ~refreshing.done =>
           snapshot'.shown = data' /\ snapshot'.available = success']_facadeVars
  BY RefreshShows
<1>5. QED
  BY <1>1, <1>2, <1>3, <1>4, PTL DEF FacadeSpec, ViewIsCurrent, RefreshShowsTheNews

-----------------------------------------------------------------------------
(* The call asks at most twice; once it was answered the account has what  *)
(* was asked for, and so has what the call's own poll read.                *)
CarrierCallRecord ==
  [phase : {"none", "asking", "again", "refresh", "reading", "done"},
   device : CarrierEntry \cup {NoEntry}, entry : CarrierEntry \cup {NoEntry},
   sub : Subscriber \cup {NoEntry}, want : BOOLEAN, requests : {0, 1, 2},
   answer : {"none", "notOne", "notLoaded", "disabled", "accepted", "failed", "ok"}]

CarrierTypes ==
  /\ CarrierTypeOK
  /\ listedBy \in [CarrierEntry -> SUBSET Subscriber]
  /\ shown \in [CarrierEntry -> {Summary(lines, susp) : lines, susp \in SUBSET Subscriber}]
  /\ \A p \in polls : \E e \in CarrierEntry, by \in {"timer", "call"} :
       \E lines, susp \in SUBSET Subscriber :
         p = [entry |-> e, by |-> by, read |-> Summary(lines, susp)]
  /\ carrierCall \in CarrierCallRecord

RequestsAreCounted ==
  /\ carrierCall.phase = "asking" => carrierCall.requests = 0
  /\ carrierCall.phase = "again" => carrierCall.requests = 1

AccountHasIt ==
  carrierCall.phase \in {"refresh", "reading"} /\ carrierCall.want =>
    <<carrierCall.entry, carrierCall.sub>> \in suspended

CallPolls == {p \in polls : p.by = "call"}
OwnPollShowsIt ==
  /\ carrierCall.phase # "reading" => CallPolls = {}
  /\ \A p, q \in CallPolls : p = q
  /\ \A p \in CallPolls :
       /\ p.entry = carrierCall.entry
       /\ carrierCall.want => carrierCall.sub \in p.read.suspended
       /\ \A s \in p.read.suspended : <<p.entry, s>> \in suspended
       /\ p.read.suspendedCount <= p.read.total

CarrierInv ==
  CarrierTypes /\ NoAccountIsGuessed /\ RequestsAreCounted /\ AccountHasIt /\ OwnPollShowsIt

(* A subscriber that is not the only account's, or whose account is not    *)
(* loaded or does not allow it, is not accepted; whoever is accepted has   *)
(* one account.                                                            *)
LEMMA OneOwner ==
  ASSUME NEW s \in Subscriber, NEW device \in CarrierEntry \cup {NoEntry},
         CarrierAnswer(s, device) = "accepted"
  PROVE  \E e \in CarrierEntry :
           /\ OwnersOf(s, device) = {e} /\ e \in up \cap enabledActions /\ s \in listedBy[e]
           /\ device = e \/ \A other \in CarrierEntry \ {e} : s \notin listedBy[other]
<1> DEFINE owners == OwnersOf(s, device)
<1>1. Cardinality(owners) = 1 /\ owners \subseteq up /\ owners \subseteq enabledActions
  BY DEF CarrierAnswer
<1>2. owners \subseteq {e \in CarrierEntry : s \in listedBy[e]}
  BY DEF OwnersOf
<1>3. IsFiniteSet(owners)
  BY <1>2, CarrierAssumption, FS_Subset
<1>4. PICK e : owners = {e}
  BY <1>1, <1>3, FS_Singleton
<1>5. CASE device # NoEntry
  BY <1>1, <1>2, <1>4, <1>5 DEF OwnersOf
<1>6. CASE device = NoEntry
  <2>1. owners = {x \in CarrierEntry : s \in listedBy[x]}
    BY <1>6 DEF OwnersOf
  <2>2. QED
    BY <1>1, <1>2, <1>4, <2>1
<1>7. QED
  BY <1>5, <1>6

LEMMA CountsFit ==
  ASSUME listedBy \in [CarrierEntry -> SUBSET Subscriber], NEW e \in CarrierEntry
  PROVE  /\ SuspendedOf(e) \in SUBSET Subscriber /\ listedBy[e] \in SUBSET Subscriber
         /\ LET read == Summary(listedBy[e], SuspendedOf(e))
            IN read.suspendedCount <= read.total /\ read.suspended = SuspendedOf(e)
<1>1. SuspendedOf(e) \subseteq listedBy[e] /\ listedBy[e] \subseteq Subscriber
  BY DEF SuspendedOf
<1>2. IsFiniteSet(listedBy[e])
  BY <1>1, CarrierAssumption, FS_Subset
<1>3. Cardinality(SuspendedOf(e)) <= Cardinality(listedBy[e])
  BY <1>1, <1>2, FS_Subset
<1>4. QED
  BY <1>1, <1>3 DEF Summary

(* Nothing but the call's answer and a failed call's takes a suspension    *)
(* back, so what the account has stays true while the call goes on.        *)
LEMMA AccountSuspendsMore ==
  ASSUME CarrierInv, suspended \subseteq suspended', suspended' \subseteq CarrierEntry \X Subscriber,
         UNCHANGED <<listedBy, enabledActions, up, shown, answering, polls, carrierCall>>,
         work' \in 0 .. MaxCarrierWork
  PROVE  CarrierInv'
<1>1. CarrierTypes' /\ NoAccountIsGuessed' /\ RequestsAreCounted' /\ AccountHasIt'
  BY DEF CarrierInv, CarrierTypes, CarrierTypeOK, NoAccountIsGuessed, RequestsAreCounted, AccountHasIt
<1>2. OwnPollShowsIt'
  BY DEF CarrierInv, OwnPollShowsIt, CallPolls
<1>3. QED
  BY <1>1, <1>2 DEF CarrierInv

(* The timer's polls come and go beside the call.                          *)
LEMMA TimerPolls ==
  ASSUME CarrierInv, UNCHANGED <<listedBy, suspended, enabledActions, up, carrierCall>>,
         work' \in 0 .. MaxCarrierWork, CarrierTypes', CallPolls' = CallPolls
  PROVE  CarrierInv'
<1>1. NoAccountIsGuessed' /\ RequestsAreCounted' /\ AccountHasIt'
  BY DEF CarrierInv, NoAccountIsGuessed, RequestsAreCounted, AccountHasIt
<1>2. OwnPollShowsIt'
  BY DEF CarrierInv, OwnPollShowsIt
<1>3. QED
  BY <1>1, <1>2 DEF CarrierInv

(* The call moves on, and no poll of its own is under way.                 *)
LEMMA CallMoves ==
  ASSUME CarrierInv, carrierCall.phase # "reading", carrierCall'.phase # "reading",
         carrierCall' \in CarrierCallRecord, suspended' \subseteq CarrierEntry \X Subscriber,
         UNCHANGED <<listedBy, enabledActions, up, shown, answering, polls>>, work' \in 0 .. MaxCarrierWork,
         NoAccountIsGuessed', RequestsAreCounted', AccountHasIt'
  PROVE  CarrierInv'
<1>1. CarrierTypes'
  BY DEF CarrierInv, CarrierTypes, CarrierTypeOK, CarrierCallRecord
<1>2. OwnPollShowsIt'
  BY DEF CarrierInv, OwnPollShowsIt, CallPolls
<1>3. QED
  BY <1>1, <1>2 DEF CarrierInv

LEMMA CarrierStep ==
  ASSUME CarrierInv, [CarrierNext]_carrierVars
  PROVE  CarrierInv'
<1>1. /\ carrierCall \in CarrierCallRecord /\ work \in 0 .. MaxCarrierWork
      /\ suspended \subseteq CarrierEntry \X Subscriber /\ MaxCarrierWork \in Nat
      /\ listedBy \in [CarrierEntry -> SUBSET Subscriber]
      /\ RequestsAreCounted /\ NoAccountIsGuessed /\ AccountHasIt /\ OwnPollShowsIt
  BY CarrierAssumption DEF CarrierInv, CarrierTypes, CarrierTypeOK
<1>2. Working => work' \in 0 .. MaxCarrierWork
  BY <1>1 DEF Working
<1>3. ASSUME NEW e \in CarrierEntry, ReadList(e) PROVE CarrierInv'
  <2> DEFINE lines == listedBy[e]
             susp == SuspendedOf(e)
             p == [entry |-> e, by |-> "timer", read |-> Summary(lines, susp)]
  <2>1. polls' = polls \cup {p} /\ p.by = "timer"
    BY <1>3 DEF ReadList
  <2>2. lines \in SUBSET Subscriber /\ susp \in SUBSET Subscriber
    BY <1>1, CountsFit
  <2>3. \E by \in {"timer", "call"} : \E l, s \in SUBSET Subscriber :
          p = [entry |-> e, by |-> by, read |-> Summary(l, s)]
    BY <2>2
  <2> HIDE DEF p
  <2>4. CallPolls' = CallPolls
    BY <2>1 DEF CallPolls
  <2>5. CarrierTypes'
    BY <1>2, <1>3, <2>1, <2>3 DEF ReadList, CarrierInv, CarrierTypes, CarrierTypeOK
  <2>6. QED
    BY <1>2, <1>3, <2>4, <2>5, TimerPolls DEF ReadList
<1>4. ASSUME NEW p \in polls, PublishList(p) PROVE CarrierInv'
  <2>1. PICK e \in CarrierEntry, by \in {"timer", "call"} : \E l, s \in SUBSET Subscriber :
          p = [entry |-> e, by |-> by, read |-> Summary(l, s)]
    BY DEF CarrierInv, CarrierTypes
  <2>2. PICK l \in SUBSET Subscriber, s \in SUBSET Subscriber :
          p = [entry |-> e, by |-> by, read |-> Summary(l, s)]
    BY <2>1
  <2>3. p.entry = e /\ p.read = Summary(l, s)
    BY <2>2
  <2>4. shown' \in [CarrierEntry -> {Summary(lines, susp) : lines, susp \in SUBSET Subscriber}]
    BY <1>4, <2>3 DEF PublishList, CarrierInv, CarrierTypes
  <2>5. CallPolls' = CallPolls
    BY <1>4 DEF PublishList, CallPolls
  <2>6. CarrierTypes'
    BY <1>4, <2>4 DEF PublishList, CarrierInv, CarrierTypes, CarrierTypeOK
  <2>7. QED
    BY <1>1, <1>4, <2>5, <2>6, TimerPolls DEF PublishList
<1>5. ASSUME NEW p \in polls, PollFails(p) PROVE CarrierInv'
  <2>1. CallPolls' = CallPolls
    BY <1>5 DEF PollFails, CallPolls
  <2>2. CarrierTypes'
    BY <1>5 DEF PollFails, CarrierInv, CarrierTypes, CarrierTypeOK
  <2>3. QED
    BY <1>1, <1>5, <2>1, <2>2, TimerPolls DEF PollFails
<1>6. ASSUME NEW s \in Subscriber, NEW device \in CarrierEntry \cup {NoEntry}, NEW want \in BOOLEAN,
             CarrierRequest(s, device, want)
      PROVE  CarrierInv'
  <2> DEFINE answer == CarrierAnswer(s, device)
             call == [NoCarrierCall EXCEPT !.sub = s, !.device = device, !.want = want, !.answer = answer]
  <2>1. answer \in {"notOne", "notLoaded", "disabled", "accepted"}
    BY DEF CarrierAnswer
  <2>2. /\ call \in CarrierCallRecord /\ call.sub = s /\ call.device = device /\ call.requests = 0
        /\ call.answer = answer
    <3> HIDE DEF answer
    <3>1. /\ NoCarrierCall \in CarrierCallRecord /\ NoCarrierCall.requests = 0
      BY DEF NoCarrierCall, CarrierCallRecord
    <3> DEFINE named == [NoCarrierCall EXCEPT !.sub = s, !.device = device]
    <3>2. call \in CarrierCallRecord
      <4>1. named \in CarrierCallRecord
        BY <3>1 DEF CarrierCallRecord
      <4>2. call = [named EXCEPT !.want = want, !.answer = answer]
        OBVIOUS
      <4> HIDE DEF named, call
      <4>3. QED
        BY <2>1, <4>1, <4>2 DEF CarrierCallRecord
    <3>3. /\ call.sub = s /\ call.device = device /\ call.requests = 0 /\ call.answer = answer
      BY <3>1 DEF CarrierCallRecord
    <3>4. QED
      BY <3>2, <3>3
  <2>3. /\ carrierCall.phase # "reading" /\ work' \in 0 .. MaxCarrierWork
        /\ UNCHANGED <<listedBy, suspended, enabledActions, up, shown, answering, polls>>
    BY <1>2, <1>6 DEF CarrierRequest
  <2>4. CASE answer # "accepted"
    <3>1. carrierCall' = [call EXCEPT !.phase = "done"]
      BY <1>6, <2>4 DEF CarrierRequest
    <3> HIDE DEF call, answer
    <3>2. carrierCall' \in CarrierCallRecord /\ carrierCall'.phase = "done"
      BY <2>2, <3>1 DEF CarrierCallRecord
    <3>3. QED
      BY <1>1, <2>3, <3>2, CallMoves DEF NoAccountIsGuessed, RequestsAreCounted, AccountHasIt
  <2>5. CASE answer = "accepted"
    <3>1. PICK e \in CarrierEntry :
             /\ OwnersOf(s, device) = {e} /\ e \in up \cap enabledActions /\ s \in listedBy[e]
             /\ device = e \/ \A other \in CarrierEntry \ {e} : s \notin listedBy[other]
      BY <2>5, OneOwner
    <3>2. (CHOOSE x \in OwnersOf(s, device) : TRUE) = e
      BY <3>1
    <3>3. carrierCall' = [call EXCEPT !.phase = "asking", !.entry = e]
      BY <1>6, <2>5, <3>2 DEF CarrierRequest
    <3> HIDE DEF call, answer
    <3>4. /\ carrierCall' \in CarrierCallRecord /\ carrierCall'.phase = "asking"
          /\ carrierCall'.entry = e /\ carrierCall'.sub = s /\ carrierCall'.device = device
          /\ carrierCall'.requests = 0
      BY <2>2, <3>3 DEF CarrierCallRecord
    <3>5. NoAccountIsGuessed'
      BY <2>3, <3>1, <3>4 DEF NoAccountIsGuessed
    <3>6. QED
      BY <1>1, <2>3, <3>4, <3>5, CallMoves DEF RequestsAreCounted, AccountHasIt
  <2>6. QED
    BY <2>4, <2>5
<1>7. Asking => /\ carrierCall.requests \in {0, 1} /\ carrierCall.phase # "reading"
                /\ carrierCall.entry \in CarrierEntry /\ carrierCall.sub \in Subscriber
  BY <1>1 DEF Asking, RequestsAreCounted, NoAccountIsGuessed, CarrierTypeOK, CarrierInv, CarrierTypes
<1>8. Asking /\ Apply =>
        /\ suspended' \subseteq CarrierEntry \X Subscriber
        /\ carrierCall.want => <<carrierCall.entry, carrierCall.sub>> \in suspended'
  BY <1>1, <1>7 DEF Apply
<1>9. CASE CarrierAnswered
  <2>1. carrierCall' = [carrierCall EXCEPT !.phase = "refresh", !.requests = @ + 1]
    BY <1>9 DEF CarrierAnswered
  <2>2. Asking /\ Apply /\ UNCHANGED <<listedBy, enabledActions, up, shown, answering, polls, work>>
    BY <1>9 DEF CarrierAnswered
  <2>3. /\ carrierCall' \in CarrierCallRecord /\ carrierCall'.phase = "refresh"
        /\ carrierCall'.entry = carrierCall.entry /\ carrierCall'.sub = carrierCall.sub
        /\ carrierCall'.device = carrierCall.device /\ carrierCall'.want = carrierCall.want
    <3>1. carrierCall.requests + 1 \in {0, 1, 2}
      BY <1>7, <2>2
    <3>2. carrierCall' \in CarrierCallRecord
      BY <1>1, <2>1, <3>1 DEF CarrierCallRecord
    <3>3. QED
      BY <1>1, <2>1, <3>2 DEF CarrierCallRecord
  <2>4. NoAccountIsGuessed' /\ AccountHasIt'
    BY <1>1, <1>8, <2>2, <2>3 DEF NoAccountIsGuessed, AccountHasIt, Asking, CarrierCallRecord
  <2>5. QED
    BY <1>1, <1>7, <1>8, <2>2, <2>3, <2>4, CallMoves DEF RequestsAreCounted
<1>10. CASE CarrierConflict
  <2>1. Asking /\ UNCHANGED <<suspended, listedBy, enabledActions, up, shown, answering, polls, work>>
    BY <1>10 DEF CarrierConflict
  <2>2. CASE carrierCall.phase = "asking"
    <3>1. carrierCall' = [carrierCall EXCEPT !.phase = "again", !.requests = 1]
      BY <1>10, <2>2 DEF CarrierConflict
    <3>2. /\ carrierCall' \in CarrierCallRecord /\ carrierCall'.phase = "again"
          /\ carrierCall'.requests = 1
          /\ carrierCall'.entry = carrierCall.entry /\ carrierCall'.sub = carrierCall.sub
          /\ carrierCall'.device = carrierCall.device /\ carrierCall'.want = carrierCall.want
      BY <1>1, <3>1 DEF CarrierCallRecord
    <3>3. NoAccountIsGuessed'
      BY <1>1, <2>1, <3>2 DEF NoAccountIsGuessed, Asking
    <3>4. QED
      BY <1>1, <1>7, <2>1, <3>2, <3>3, CallMoves DEF RequestsAreCounted, AccountHasIt
  <2>3. CASE carrierCall.phase # "asking"
    <3>1. carrierCall' = [carrierCall EXCEPT !.phase = "done", !.requests = 2, !.answer = "failed"]
      BY <1>10, <2>3 DEF CarrierConflict
    <3>2. carrierCall' \in CarrierCallRecord /\ carrierCall'.phase = "done"
      BY <1>1, <3>1 DEF CarrierCallRecord
    <3>3. QED
      BY <1>1, <1>7, <2>1, <3>2, CallMoves DEF NoAccountIsGuessed, RequestsAreCounted, AccountHasIt
  <2>4. QED
    BY <2>2, <2>3
<1>11. CASE CarrierFails
  <2>1. /\ Asking /\ UNCHANGED <<listedBy, enabledActions, up, shown, answering, polls, work>>
        /\ suspended' \subseteq CarrierEntry \X Subscriber
    BY <1>1, <1>8, <1>11 DEF CarrierFails
  <2>2. carrierCall' = [carrierCall EXCEPT !.phase = "done", !.requests = @ + 1, !.answer = "failed"]
    BY <1>11 DEF CarrierFails
  <2>3. carrierCall' \in CarrierCallRecord /\ carrierCall'.phase = "done"
    <3>1. carrierCall.requests + 1 \in {0, 1, 2}
      BY <1>7, <2>1
    <3>2. QED
      BY <1>1, <2>2, <3>1 DEF CarrierCallRecord
  <2>4. QED
    BY <1>1, <1>7, <2>1, <2>3, CallMoves DEF NoAccountIsGuessed, RequestsAreCounted, AccountHasIt
<1>12. CASE CarrierRefresh
  <2> DEFINE e == carrierCall.entry
             p == [entry |-> e, by |-> "call", read |-> Summary(listedBy[e], SuspendedOf(e))]
  <2>1. /\ carrierCall.phase = "refresh" /\ polls' = polls \cup {p}
        /\ UNCHANGED <<listedBy, suspended, enabledActions, up, shown, answering, work>>
    BY <1>12 DEF CarrierRefresh
  <2>2. carrierCall' = [carrierCall EXCEPT !.phase = "reading"]
    BY <1>12 DEF CarrierRefresh
  <2>3. e \in CarrierEntry /\ carrierCall.sub \in listedBy[e]
    BY <1>1, <2>1 DEF NoAccountIsGuessed, CarrierInv, CarrierTypes, CarrierTypeOK
  <2>4. /\ SuspendedOf(e) \in SUBSET Subscriber /\ listedBy[e] \in SUBSET Subscriber
        /\ p.read.suspendedCount <= p.read.total /\ p.read.suspended = SuspendedOf(e)
        /\ p.entry = e /\ p.by = "call"
    BY <1>1, <2>3, CountsFit
  <2>5. \E by \in {"timer", "call"} : \E l, s \in SUBSET Subscriber :
          p = [entry |-> e, by |-> by, read |-> Summary(l, s)]
    BY <2>4
  <2> HIDE DEF p
  <2>6. /\ carrierCall' \in CarrierCallRecord /\ carrierCall'.phase = "reading"
        /\ carrierCall'.requests = carrierCall.requests
        /\ carrierCall'.entry = carrierCall.entry /\ carrierCall'.sub = carrierCall.sub
        /\ carrierCall'.device = carrierCall.device /\ carrierCall'.want = carrierCall.want
    BY <1>1, <2>2 DEF CarrierCallRecord
  <2>7. CallPolls' = {p}
    BY <1>1, <2>1, <2>4 DEF CallPolls, OwnPollShowsIt
  <2>8. carrierCall.want => carrierCall.sub \in SuspendedOf(e)
    BY <1>1, <2>1, <2>3 DEF AccountHasIt, SuspendedOf
  <2>9. \A s \in SuspendedOf(e) : <<e, s>> \in suspended
    BY DEF SuspendedOf
  <2>10. OwnPollShowsIt'
    BY <2>1, <2>4, <2>6, <2>7, <2>8, <2>9 DEF OwnPollShowsIt
  <2>11. NoAccountIsGuessed' /\ AccountHasIt' /\ RequestsAreCounted'
    BY <1>1, <2>1, <2>6 DEF NoAccountIsGuessed, AccountHasIt, RequestsAreCounted
  <2>12. CarrierTypes'
    BY <2>1, <2>3, <2>5, <2>6 DEF CarrierInv, CarrierTypes, CarrierTypeOK, CarrierCallRecord
  <2>13. QED
    BY <2>10, <2>11, <2>12 DEF CarrierInv
<1>13. ASSUME NEW ok \in BOOLEAN, CarrierDone(ok) PROVE CarrierInv'
  <2>1. PICK p \in polls :
           /\ p.by = "call" /\ polls' = polls \ {p}
           /\ shown' = IF ok THEN [shown EXCEPT ![p.entry] = p.read] ELSE shown
           /\ answering' = IF ok THEN answering \cup {p.entry} ELSE answering \ {p.entry}
    BY <1>13 DEF CarrierDone
  <2>2. /\ carrierCall' = [carrierCall EXCEPT !.phase = "done", !.answer = "ok"]
        /\ UNCHANGED <<listedBy, suspended, enabledActions, up, work>>
    BY <1>13 DEF CarrierDone
  <2>3. carrierCall' \in CarrierCallRecord /\ carrierCall'.phase = "done"
    BY <1>1, <2>2 DEF CarrierCallRecord
  <2>4. CallPolls' = {}
    BY <1>1, <2>1 DEF CallPolls, OwnPollShowsIt
  <2>5. PICK e \in CarrierEntry, by \in {"timer", "call"} : \E l, s \in SUBSET Subscriber :
          p = [entry |-> e, by |-> by, read |-> Summary(l, s)]
    BY DEF CarrierInv, CarrierTypes
  <2>6. PICK l \in SUBSET Subscriber, s \in SUBSET Subscriber :
          p = [entry |-> e, by |-> by, read |-> Summary(l, s)]
    BY <2>5
  <2>7. p.entry = e /\ p.read = Summary(l, s)
    BY <2>6
  <2>8. shown' \in [CarrierEntry -> {Summary(lines, susp) : lines, susp \in SUBSET Subscriber}]
    BY <2>1, <2>7 DEF CarrierInv, CarrierTypes
  <2>9. CarrierTypes'
    BY <2>1, <2>2, <2>3, <2>8 DEF CarrierInv, CarrierTypes, CarrierTypeOK, CarrierCallRecord
  <2>10. OwnPollShowsIt'
    BY <2>4 DEF OwnPollShowsIt
  <2>11. NoAccountIsGuessed' /\ AccountHasIt' /\ RequestsAreCounted'
    BY <2>3 DEF NoAccountIsGuessed, AccountHasIt, RequestsAreCounted
  <2>12. QED
    BY <2>9, <2>10, <2>11 DEF CarrierInv
<1>14. ASSUME NEW e \in CarrierEntry, NEW s \in Subscriber, AccountChange(e, s) PROVE CarrierInv'
  BY <1>1, <1>2, <1>14, AccountSuspendsMore DEF AccountChange
<1>15. CASE UNCHANGED carrierVars
  BY <1>1, <1>15, AccountSuspendsMore DEF carrierVars
<1>16. QED
  BY <1>3, <1>4, <1>5, <1>6, <1>9, <1>10, <1>11, <1>12, <1>13, <1>14, <1>15 DEF CarrierNext

(* Only the end of the call's own poll, answered or not, ends the call     *)
(* without an error.                                                       *)
LEMMA ResultIsShown ==
  ASSUME CarrierInv, CarrierNext,
         carrierCall'.answer = "ok", carrierCall.phase # "done", carrierCall'.phase = "done"
  PROVE  LET now == shown'[carrierCall'.entry]
             inPlace == <<carrierCall'.entry, carrierCall'.sub>> \in suspended' IN
         /\ carrierCall'.want => inPlace
         /\ carrierCall'.entry \in answering' =>
              /\ carrierCall'.want => carrierCall'.sub \in now.suspended
              /\ carrierCall'.sub \in now.suspended => inPlace
              /\ now.suspendedCount <= now.total
<1>1. carrierCall \in CarrierCallRecord
  BY DEF CarrierInv, CarrierTypes
<1>2. ~ \E s \in Subscriber, device \in CarrierEntry \cup {NoEntry}, want \in BOOLEAN :
          CarrierRequest(s, device, want)
  <2>1. SUFFICES ASSUME NEW s \in Subscriber, NEW device \in CarrierEntry \cup {NoEntry},
                        NEW want \in BOOLEAN, CarrierRequest(s, device, want)
                 PROVE  FALSE
    OBVIOUS
  <2> DEFINE answer == CarrierAnswer(s, device)
             call == [NoCarrierCall EXCEPT !.sub = s, !.device = device, !.want = want, !.answer = answer]
  <2>2. answer \in {"notOne", "notLoaded", "disabled", "accepted"}
    BY DEF CarrierAnswer
  <2>3. CASE answer # "accepted"
    <3>1. carrierCall' = [call EXCEPT !.phase = "done"]
      BY <2>1, <2>3 DEF CarrierRequest
    <3> HIDE DEF answer
    <3>2. carrierCall'.answer = answer
      BY <3>1 DEF NoCarrierCall
    <3>3. QED
      BY <2>2, <3>2
  <2>4. CASE answer = "accepted"
    <3>1. carrierCall' = [call EXCEPT !.phase = "asking", !.entry = CHOOSE e \in OwnersOf(s, device) : TRUE]
      BY <2>1, <2>4 DEF CarrierRequest
    <3> HIDE DEF answer
    <3>2. carrierCall'.phase = "asking"
      BY <3>1 DEF NoCarrierCall
    <3>3. QED
      BY <3>2
  <2>5. QED
    BY <2>3, <2>4
<1>3. PICK ok \in BOOLEAN : CarrierDone(ok)
  <2>1. ~CarrierAnswered /\ ~CarrierConflict /\ ~CarrierFails /\ ~CarrierRefresh
    BY <1>1 DEF CarrierAnswered, CarrierConflict, CarrierFails, CarrierRefresh, CarrierCallRecord
  <2>2. /\ \A e \in CarrierEntry : ~ReadList(e)
        /\ \A p \in polls : ~PublishList(p) /\ ~PollFails(p)
        /\ \A e \in CarrierEntry, s \in Subscriber : ~AccountChange(e, s)
    BY DEF ReadList, PublishList, PollFails, AccountChange
  <2>3. QED
    BY <1>2, <2>1, <2>2 DEF CarrierNext
<1>4. PICK p \in polls :
         /\ p.by = "call"
         /\ shown' = IF ok THEN [shown EXCEPT ![p.entry] = p.read] ELSE shown
         /\ answering' = IF ok THEN answering \cup {p.entry} ELSE answering \ {p.entry}
  BY <1>3 DEF CarrierDone
<1>5. /\ carrierCall'.entry = carrierCall.entry /\ carrierCall'.want = carrierCall.want
      /\ carrierCall'.sub = carrierCall.sub
      /\ carrierCall.phase = "reading" /\ suspended' = suspended
  BY <1>1, <1>3 DEF CarrierDone, CarrierCallRecord
<1>6. p \in CallPolls
  BY <1>4 DEF CallPolls
<1>7. /\ p.entry = carrierCall.entry
      /\ carrierCall.want => carrierCall.sub \in p.read.suspended
      /\ \A s \in p.read.suspended : <<p.entry, s>> \in suspended
      /\ p.read.suspendedCount <= p.read.total
  BY <1>6 DEF CarrierInv, OwnPollShowsIt
<1>8. carrierCall.want => <<carrierCall.entry, carrierCall.sub>> \in suspended
  BY <1>5 DEF CarrierInv, AccountHasIt
<1>9. CASE ok
  <2>1. p.entry \in CarrierEntry
    BY DEF CarrierInv, CarrierTypes, CarrierTypeOK
  <2>2. shown'[carrierCall'.entry] = p.read
    BY <1>4, <1>5, <1>7, <1>9, <2>1 DEF CarrierInv, CarrierTypes
  <2>3. QED
    BY <1>5, <1>7, <1>8, <2>2
<1>10. CASE ~ok
  <2>1. carrierCall'.entry \notin answering'
    BY <1>4, <1>5, <1>7, <1>10
  <2>2. QED
    BY <1>5, <1>8, <2>1
<1>11. QED
  BY <1>9, <1>10

(* Suspending and resuming, for any accounts and subscribers: no account   *)
(* is guessed from an id that two of them list, and a call that returns    *)
(* without an error has left a suspension it asked for in place and the    *)
(* account showing what it did, or what was done since, or unavailable     *)
(* because the poll at its end failed, whatever the timer's polls publish  *)
(* beside it.                                                              *)
THEOREM CarrierCallsShowTheirResult == CarrierSpec => CarrierCallsAreSound
<1>1. CarrierInit => CarrierInv
  <2> SUFFICES ASSUME CarrierInit PROVE CarrierInv
    OBVIOUS
  <2>1. carrierCall \in CarrierCallRecord /\ carrierCall.phase = "none"
    BY DEF CarrierInit, NoCarrierCall, CarrierCallRecord
  <2>2. shown \in [CarrierEntry -> {Summary(lines, susp) : lines, susp \in SUBSET Subscriber}]
    BY DEF CarrierInit
  <2>3. CarrierTypes
    BY <2>1, <2>2, CarrierAssumption DEF CarrierInit, CarrierTypes, CarrierTypeOK
  <2>4. NoAccountIsGuessed /\ RequestsAreCounted /\ AccountHasIt /\ OwnPollShowsIt
    BY <2>1 DEF CarrierInit, NoAccountIsGuessed, RequestsAreCounted, AccountHasIt, OwnPollShowsIt,
       CallPolls
  <2>5. QED
    BY <2>3, <2>4 DEF CarrierInv
<1>2. CarrierInv /\ [CarrierNext]_carrierVars => CarrierInv'
  BY CarrierStep
<1>3. CarrierInv => CarrierTypeOK /\ NoAccountIsGuessed
  BY DEF CarrierInv, CarrierTypes
<1>4. CarrierInv /\ [CarrierNext]_carrierVars =>
        [carrierCall'.answer = "ok" /\ carrierCall.phase # "done" /\ carrierCall'.phase = "done" =>
           LET now == shown'[carrierCall'.entry]
               inPlace == <<carrierCall'.entry, carrierCall'.sub>> \in suspended' IN
           /\ carrierCall'.want => inPlace
           /\ carrierCall'.entry \in answering' =>
                /\ carrierCall'.want => carrierCall'.sub \in now.suspended
                /\ carrierCall'.sub \in now.suspended => inPlace
                /\ now.suspendedCount <= now.total]_carrierVars
  BY ResultIsShown
<1>5. QED
  BY <1>1, <1>2, <1>3, <1>4, PTL DEF CarrierSpec, CarrierCallsAreSound, CallShowsItsResult

-----------------------------------------------------------------------------
(* The streams the facade calls, those the hook will end and the open ones *)
(* are the same, and the hook is there when one is.                        *)
AnySectionContent == UNION {ContentOf(s) : s \in Section}
Open == {b \in Stream : stream[b].state = "open"}

StreamsAreFollowed ==
  /\ hooked = watched /\ listeners = Open /\ watchers = Open
  /\ Open # {} => hooked
  /\ life = "unloaded" => Open = {}

DashboardTypes ==
  /\ DashboardTypeOK
  /\ section \in [Section -> [object : 0 .. MaxDashboardWork, content : AnySectionContent]]
  /\ stream = [b \in Stream |-> stream[b]]

LinksWereTrue ==
  /\ \A c \in Roamer : place[c] \in been[c]
  /\ \A c \in DOMAIN section["client_links"].content : section["client_links"].content[c] \in been[c]

(* What a stream said last was built from contents its inputs stand for:   *)
(* an object still in place has the content it had then.                   *)
SnapshotFrom(kind, past) ==
  IF ~(kind = "protect" \/ past["selected"]) THEN <<"site_unavailable">>
  ELSE IF kind # "topology" THEN <<"snapshot", [s \in ReadsOf(kind) |-> past[s]]>>
  ELSE << "topology",
          Graph(past["devices"], past["clients"], past["client_links"]),
          [s \in TopologyReads \ {"devices", "clients", "client_links"} |-> past[s]] >>

StandsFor(inputs, kind, past) ==
  \A s \in InputsOf(kind) :
    /\ s \in Value => inputs[s] = past[s]
    /\ s \notin Value =>
         /\ inputs[s] \in 0 .. streamWork
         /\ section[s].object = inputs[s] => section[s].content = past[s]

StreamsRemember ==
  /\ \A s \in Section : section[s].object <= streamWork
  /\ \A b \in Open : told => stream[b].inputs = Inputs(stream[b].kind)
  /\ \A b \in Open : ~stream[b].raised =>
       \E past : /\ stream[b].said = SnapshotFrom(stream[b].kind, past)
                 /\ StandsFor(stream[b].inputs, stream[b].kind, past)

DashboardInv == DashboardTypes /\ StreamsAreFollowed /\ LinksWereTrue /\ StreamsRemember

(* Every part of a snapshot is compared, but for the devices of Protect's. *)
LEMMA ReadsAreCompared ==
  ASSUME NEW kind \in Kind
  PROVE  /\ InputsOf(kind) \subseteq Section
         /\ kind # "protect" => ReadsOf(kind) \subseteq InputsOf(kind) /\ "selected" \in InputsOf(kind)
         /\ kind = "protect" => ReadsOf(kind) \ {"devices"} \subseteq InputsOf(kind)
         /\ kind = "topology" => ReadsOf(kind) = TopologyReads
         /\ kind = "protect" => ReadsOf(kind) = ProtectReads
<1> USE DEF InputsOf, ReadsOf, Section, Object, Value
<1>1. CASE kind = "topology"
  BY <1>1 DEF TopologyReads, TopologyInputs
<1>2. CASE kind = "protect"
  BY <1>2 DEF ProtectReads, ProtectInputs
<1>3. CASE kind = "timeline"
  BY <1>3 DEF TimelineReads
<1>4. CASE kind = "site_health"
  BY <1>4 DEF SiteHealthReads
<1>5. CASE kind = "performance"
  BY <1>5 DEF PerformanceReads
<1>6. CASE kind = "internet_activity"
  BY <1>6 DEF InternetActivityReads
<1>7. QED
  BY <1>1, <1>2, <1>3, <1>4, <1>5, <1>6 DEF Kind

Now == [s \in Section |-> section[s].content]

LEMMA SnapshotOfNow ==
  ASSUME NEW kind \in Kind
  PROVE  Snapshot(kind) = SnapshotFrom(kind, Now)
<1>1. \A s \in Section : Now[s] = Shows(s)
  BY DEF Now, Shows
<1>2. /\ "selected" \in Section /\ "devices" \in Section /\ "clients" \in Section
      /\ "client_links" \in Section /\ TopologyReads \subseteq Section
  BY DEF Section, Object, Value, TopologyReads
<1>3. ReadsOf(kind) \subseteq Section
  <2>1. CASE kind = "protect"
    BY <2>1, ReadsAreCompared DEF ProtectReads, Section, Object, Value
  <2>2. CASE kind # "protect"
    BY <2>2, ReadsAreCompared
  <2>3. QED
    BY <2>1, <2>2
<1>4. Served(kind) = (kind = "protect" \/ Now["selected"])
  BY <1>1, <1>2 DEF Served, Shows
<1>5. Contents(kind) = [s \in ReadsOf(kind) |-> Now[s]]
  BY <1>1, <1>3 DEF Contents
<1>6. [s \in TopologyReads \ {"devices", "clients", "client_links"} |-> Shows(s)]
        = [s \in TopologyReads \ {"devices", "clients", "client_links"} |-> Now[s]]
  BY <1>1, <1>2
<1>7. /\ Shows("devices") = Now["devices"] /\ Shows("clients") = Now["clients"]
      /\ Shows("client_links") = Now["client_links"]
  BY <1>1, <1>2
<1> HIDE DEF Now
<1>8. QED
  BY <1>4, <1>5, <1>6, <1>7 DEF Snapshot, SnapshotFrom

(* Equal inputs, equal contents: what was said is what would be said now.  *)
LEMMA SameInputs ==
  ASSUME section \in [Section -> [object : 0 .. MaxDashboardWork, content : AnySectionContent]],
         NEW kind \in Kind, NEW past, StandsFor(Inputs(kind), kind, past)
  PROVE  /\ kind # "protect" => SnapshotFrom(kind, past) = Snapshot(kind)
         /\ kind = "protect" => \A s \in ProtectReads \ {"devices"} :
                                  SnapshotFrom(kind, past)[2][s] = Shows(s)
<1>1. \A s \in InputsOf(kind) : past[s] = section[s].content
  <2>1. TAKE s \in InputsOf(kind)
  <2>2. CASE s \in Value
    BY <2>2 DEF StandsFor, Inputs
  <2>3. CASE s \notin Value
    BY <2>3 DEF StandsFor, Inputs
  <2>4. QED
    BY <2>2, <2>3
<1>2. \A s \in InputsOf(kind) : past[s] = Now[s]
  BY <1>1, ReadsAreCompared DEF Now
<1>3. ASSUME kind # "protect" PROVE SnapshotFrom(kind, past) = Snapshot(kind)
  <2>1. ReadsOf(kind) \subseteq InputsOf(kind) /\ "selected" \in InputsOf(kind)
    BY <1>3, ReadsAreCompared
  <2>2. past["selected"] = Now["selected"]
    BY <1>2, <2>1
  <2>3. [s \in ReadsOf(kind) |-> past[s]] = [s \in ReadsOf(kind) |-> Now[s]]
    BY <1>2, <2>1
  <2>4. kind = "topology" =>
          /\ past["devices"] = Now["devices"] /\ past["clients"] = Now["clients"]
          /\ past["client_links"] = Now["client_links"]
          /\ [s \in TopologyReads \ {"devices", "clients", "client_links"} |-> past[s]]
               = [s \in TopologyReads \ {"devices", "clients", "client_links"} |-> Now[s]]
    <3>1. SUFFICES ASSUME kind = "topology" PROVE \A s \in TopologyReads : past[s] = Now[s]
      BY DEF TopologyReads
    <3>2. QED
      BY <1>2, <2>1, <3>1, ReadsAreCompared
  <2> HIDE DEF Now
  <2>5. SnapshotFrom(kind, past) = SnapshotFrom(kind, Now)
    BY <2>2, <2>3, <2>4 DEF SnapshotFrom
  <2>6. QED
    BY <2>5, SnapshotOfNow
<1>4. ASSUME kind = "protect"
      PROVE  \A s \in ProtectReads \ {"devices"} : SnapshotFrom(kind, past)[2][s] = Shows(s)
  <2>1. SnapshotFrom(kind, past) = <<"snapshot", [s \in ReadsOf(kind) |-> past[s]]>>
    BY <1>4 DEF SnapshotFrom
  <2>2. ReadsOf(kind) = ProtectReads /\ ReadsOf(kind) \ {"devices"} \subseteq InputsOf(kind)
    BY <1>4, ReadsAreCompared
  <2>3. QED
    BY <1>1, <2>1, <2>2 DEF Shows
<1>5. QED
  BY <1>3, <1>4

(* Inputs taken now stand for what is there now.                           *)
LEMMA InputsStandForNow ==
  ASSUME DashboardTypes, \A s \in Section : section[s].object <= streamWork, NEW kind \in Kind
  PROVE  StandsFor(Inputs(kind), kind, Now)
<1>1. \A s \in InputsOf(kind) : s \in Section
  BY ReadsAreCompared
<1>2. \A s \in Section : section[s].object \in 0 .. streamWork
  BY DEF DashboardTypes, DashboardTypeOK
<1>3. QED
  BY <1>1, <1>2 DEF StandsFor, Inputs, Now

-----------------------------------------------------------------------------
(* The topology graph of any lists of devices, clients and links.          *)
LEMMA PortsAreOfTheirLinks ==
  ASSUME NEW devices, DOMAIN devices \subseteq Gear, NEW clients, NEW links,
         NEW e \in Graph(devices, clients, links).clientEdges, e[3] # NoUplink
  PROVE  e[1] \in DOMAIN links /\ e[2] = links[e[1]][1] /\ e[3] = links[e[1]][2]
<1> DEFINE Link(c) == IF c \in DOMAIN links THEN links[c] ELSE <<NoUplink, NoUplink>>
<1>1. PICK c \in DOMAIN clients : e \in ClientEdge(devices, c, clients[c], Link(c))
  BY DEF Graph
<1>2. PICK target \in ClientParent(devices, clients[c], Link(c)) :
        e = <<c, target, IF Link(c)[1] = target THEN Link(c)[2] ELSE NoUplink>>
  BY <1>1 DEF ClientEdge
<1>3. e[1] = c /\ e[2] = target /\ Link(c)[1] = target /\ e[3] = Link(c)[2]
  BY <1>2
<1>4. target \in Gear
  BY <1>2 DEF ClientParent
<1>5. c \in DOMAIN links
  BY <1>3, <1>4, DashboardAssumption
<1>6. QED
  BY <1>3, <1>5

LEMMA EdgesAreUplinks ==
  ASSUME NEW devices, NEW clients, NEW links, NEW e \in Graph(devices, clients, links).edges
  PROVE  /\ e[1] \in DOMAIN devices \ Gateways /\ e[2] = devices[e[1]] /\ e[2] # e[1]
         /\ e[2] \in DOMAIN devices /\ e = <<e[1], devices[e[1]]>>
<1>1. PICK d \in DOMAIN devices : e \in DeviceEdge(devices, d)
  BY DEF Graph
<1>2. QED
  BY <1>1 DEF DeviceEdge

LEMMA ParentsAlwaysEnd == ParentsEnd
<1> DEFINE devices == Shows("devices")
           graph == Graph(devices, Shows("clients"), Shows("client_links"))
           plain == DOMAIN devices \ Gateways
           uplinks == {<<d, devices[d]>> : d \in {x \in plain : devices[x] # x}}
<1>1. ASSUME Circular(graph.edges, DOMAIN devices) PROVE Circular(uplinks, plain)
  <2>1. PICK loop \in SUBSET (DOMAIN devices) \ {{}} :
          \A d \in loop : \E e \in graph.edges : e[1] = d /\ e[2] \in loop
    BY <1>1 DEF Circular
  <2>2. ASSUME NEW d \in loop
        PROVE  d \in plain /\ \E e \in uplinks : e[1] = d /\ e[2] \in loop
    <3>1. PICK e \in graph.edges : e[1] = d /\ e[2] \in loop
      BY <2>1
    <3>2. e[1] \in plain /\ e[2] = devices[e[1]] /\ e[2] # e[1] /\ e = <<e[1], devices[e[1]]>>
      BY EdgesAreUplinks
    <3>3. e \in uplinks
      BY <3>2
    <3>4. QED
      BY <3>1, <3>2, <3>3
  <2>3. loop \in SUBSET plain \ {{}}
    BY <2>1, <2>2
  <2> HIDE DEF plain, uplinks
  <2>4. QED
    BY <2>2, <2>3 DEF Circular
<1>2. ASSUME NEW d \in plain
      PROVE  (\E e \in graph.edges : e[1] = d) \/ d \in graph.unresolved \/ devices[d] = d
  <2>1. CASE devices[d] \in DOMAIN devices \ {d}
    <3>1. <<d, devices[d]>> \in DeviceEdge(devices, d)
      BY <2>1 DEF DeviceEdge
    <3>2. <<d, devices[d]>> \in graph.edges
      BY <3>1 DEF Graph
    <3>3. QED
      BY <3>2
  <2>2. CASE devices[d] \notin DOMAIN devices
    BY <2>2 DEF DeviceUnresolved, Graph
  <2>3. QED
    BY <2>1, <2>2
<1>3. QED
  BY <1>1, <1>2 DEF ParentsEnd

LEMMA DashboardIsTrue ==
  ASSUME DashboardInv
  PROVE  StreamsAreCurrent /\ NoStreamOutlivesItsEntry /\ PortsBelongToTheParent /\ ParentsEnd
<1>1. StreamsAreCurrent
  <2>1. SUFFICES ASSUME told, NEW b \in Stream, stream[b].state = "open", ~stream[b].raised
                 PROVE  LET kind == stream[b].kind
                        IN IF kind = "protect"
                           THEN \A s \in ProtectReads \ {"devices"} : stream[b].said[2][s] = Shows(s)
                           ELSE stream[b].said = Snapshot(kind)
    BY DEF StreamsAreCurrent
  <2> DEFINE kind == stream[b].kind
  <2>2. kind \in Kind /\ b \in Open
    BY <2>1 DEF DashboardInv, DashboardTypes, DashboardTypeOK, Open
  <2>3. PICK past : stream[b].said = SnapshotFrom(kind, past) /\ StandsFor(stream[b].inputs, kind, past)
    BY <2>1, <2>2 DEF DashboardInv, StreamsRemember
  <2>4. stream[b].inputs = Inputs(kind)
    BY <2>1, <2>2 DEF DashboardInv, StreamsRemember
  <2>5. section \in [Section -> [object : 0 .. MaxDashboardWork, content : AnySectionContent]]
    BY DEF DashboardInv, DashboardTypes
  <2> HIDE DEF kind
  <2>6. StandsFor(Inputs(kind), kind, past)
    BY <2>3, <2>4
  <2>7. QED
    BY <2>2, <2>3, <2>5, <2>6, SameInputs DEF kind
<1>2. NoStreamOutlivesItsEntry
  BY DEF DashboardInv, StreamsAreFollowed, NoStreamOutlivesItsEntry, Open
<1>3. PortsBelongToTheParent
  <2>1. Shows("devices") \in DeviceLists /\ Shows("client_links") \in ListedWith(Gear \X Hole)
    <3>1. "devices" \in Section /\ "client_links" \in Section
      BY DEF Section, Object
    <3>2. Shows("devices") \in ContentOf("devices") /\ Shows("client_links") \in ContentOf("client_links")
      BY <3>1 DEF DashboardInv, DashboardTypes, DashboardTypeOK, Shows
    <3>3. QED
      BY <3>2 DEF ContentOf
  <2>2. DOMAIN Shows("devices") \subseteq Gear
    BY <2>1, DashboardAssumption
  <2> DEFINE links == Shows("client_links")
             graph == Graph(Shows("devices"), Shows("clients"), links)
  <2>3. SUFFICES ASSUME NEW e \in graph.clientEdges, e[3] # NoUplink PROVE <<e[2], e[3]>> \in been[e[1]]
    BY DEF PortsBelongToTheParent
  <2>4. e[1] \in DOMAIN links /\ e[2] = links[e[1]][1] /\ e[3] = links[e[1]][2]
    BY <2>2, <2>3, PortsAreOfTheirLinks
  <2>5. links[e[1]] \in been[e[1]]
    BY <2>4 DEF DashboardInv, LinksWereTrue, Shows
  <2>6. links[e[1]] \in Gear \X Hole
    BY <2>1, <2>4 DEF ListedWith
  <2>7. <<e[2], e[3]>> = links[e[1]]
    BY <2>4, <2>6
  <2>8. QED
    BY <2>5, <2>7
<1>4. QED
  BY <1>1, <1>2, <1>3, ParentsAlwaysEnd

-----------------------------------------------------------------------------
(* The streams left open are as they were, over the same sections.         *)
LEMMA RememberedStay ==
  ASSUME DashboardTypes, StreamsRemember, UNCHANGED section, streamWork' \in Nat,
         streamWork <= streamWork', told' => told, \A b \in Open' : b \in Open /\ stream'[b] = stream[b]
  PROVE  StreamsRemember'
<1>1. streamWork \in Nat /\ \A s \in Section : section[s].object \in Nat
  BY DEF DashboardTypes, DashboardTypeOK
<1>2. \A s \in Section : section'[s].object <= streamWork'
  BY <1>1 DEF StreamsRemember
<1>4. \A b \in Open' : told' => (stream[b].inputs = Inputs(stream[b].kind))'
  BY DEF StreamsRemember, Inputs
<1>5. ASSUME NEW b \in Open', ~stream'[b].raised
      PROVE  \E past : /\ (stream[b].said = SnapshotFrom(stream[b].kind, past))'
                       /\ StandsFor(stream[b].inputs, stream[b].kind, past)'
  <2>1. b \in Open /\ stream'[b] = stream[b]
    OBVIOUS
  <2>2. PICK past : /\ stream[b].said = SnapshotFrom(stream[b].kind, past)
                    /\ StandsFor(stream[b].inputs, stream[b].kind, past)
    BY <1>5, <2>1 DEF StreamsRemember
  <2>3. \A n \in 0 .. streamWork : n \in 0 .. streamWork'
    BY <1>1
  <2>4. StandsFor(stream[b].inputs, stream[b].kind, past)'
    BY <2>1, <2>2, <2>3 DEF StandsFor
  <2>5. QED
    BY <2>1, <2>2, <2>4
<1>6. QED
  BY <1>2, <1>4, <1>5 DEF StreamsRemember

(* A new object has a number no stream has seen.                           *)
LEMMA ReplaceKeeps ==
  ASSUME DashboardInv, NEW s \in Section, NEW content \in ContentOf(s), Replace(s, content)
  PROVE  DashboardInv'
<1> DEFINE new == [object |-> IF s \in Value THEN 0 ELSE streamWork + 1, content |-> content]
<1>1. /\ section' = [section EXCEPT ![s] = new] /\ told' = FALSE
      /\ UNCHANGED <<place, been, life, hooked, watched, watchers, listeners, stream>>
      /\ AsItIs(s, content)
  BY DEF Replace, LifeVars
<1>2. /\ streamWork \in Nat /\ streamWork' = streamWork + 1 /\ streamWork' \in 0 .. MaxDashboardWork
      /\ MaxDashboardWork \in Nat
  BY DashboardAssumption DEF Replace, Worked, DashboardInv, DashboardTypes, DashboardTypeOK
<1>3. /\ new.content = content /\ new.object \in 0 .. MaxDashboardWork /\ new.object <= streamWork'
      /\ s \notin Value => new.object = streamWork + 1
      /\ new \in [object : 0 .. MaxDashboardWork, content : AnySectionContent]
  BY <1>2 DEF AnySectionContent
<1> HIDE DEF new
<1>4. /\ section'[s] = new /\ \A q \in Section \ {s} : section'[q] = section[q]
      /\ section' \in [Section -> [object : 0 .. MaxDashboardWork, content : AnySectionContent]]
  BY <1>1, <1>3 DEF DashboardInv, DashboardTypes
<1>5. DashboardTypes'
  <2>1. \A q \in Section : section'[q].content \in ContentOf(q) /\ section'[q].object \in 0 .. MaxDashboardWork
    BY <1>3, <1>4 DEF DashboardInv, DashboardTypes, DashboardTypeOK
  <2>2. told' \in BOOLEAN /\ streamWork' \in 0 .. MaxDashboardWork
    BY <1>1, <1>2
  <2>3. QED
    BY <1>1, <1>4, <2>1, <2>2 DEF DashboardInv, DashboardTypes, DashboardTypeOK
<1>6. StreamsAreFollowed'
  BY <1>1 DEF DashboardInv, StreamsAreFollowed, Open
<1>7. LinksWereTrue'
  <2>1. CASE s = "client_links"
    <3>1. \A c \in DOMAIN content : c \in Roamer /\ content[c] = place[c]
      BY <1>1, <2>1 DEF AsItIs, ContentOf, ListedWith
    <3>2. QED
      BY <1>1, <1>3, <1>4, <2>1, <3>1 DEF DashboardInv, LinksWereTrue
  <2>2. CASE s # "client_links"
    <3>1. section'["client_links"] = section["client_links"]
      BY <1>4, <2>2 DEF Section, Object
    <3>2. QED
      BY <1>1, <3>1 DEF DashboardInv, LinksWereTrue
  <2>3. QED
    BY <2>1, <2>2
<1>8. StreamsRemember'
  <2>1. \A q \in Section : section'[q].object <= streamWork'
    <3>1. \A q \in Section : section[q].object \in Nat /\ section[q].object <= streamWork
      BY DEF DashboardInv, DashboardTypes, DashboardTypeOK, StreamsRemember
    <3>2. QED
      BY <1>2, <1>3, <1>4, <3>1
  <2>2. ASSUME NEW b \in Open, ~stream[b].raised
        PROVE  \E past : /\ stream[b].said = SnapshotFrom(stream[b].kind, past)
                         /\ StandsFor(stream[b].inputs, stream[b].kind, past)'
    <3> DEFINE kind == stream[b].kind
    <3>1. PICK past : stream[b].said = SnapshotFrom(kind, past) /\ StandsFor(stream[b].inputs, kind, past)
      BY <2>2 DEF DashboardInv, StreamsRemember
    <3>2. \A q \in InputsOf(kind) : q \in Section
      BY ReadsAreCompared DEF DashboardInv, DashboardTypes, DashboardTypeOK, Open
    <3>3. stream'[b] = stream[b]
      BY <1>1
    <3> HIDE DEF kind
    <3>4. ASSUME NEW q \in InputsOf(kind), q \notin Value
          PROVE  /\ stream[b].inputs[q] \in 0 .. streamWork'
                 /\ section'[q].object = stream[b].inputs[q] => section'[q].content = past[q]
      <4>1. /\ stream[b].inputs[q] \in 0 .. streamWork
            /\ section[q].object = stream[b].inputs[q] => section[q].content = past[q]
        BY <3>1, <3>4 DEF StandsFor
      <4>2. q = s => section'[q].object = streamWork + 1
        BY <1>3, <1>4, <3>4
      <4>3. q # s => section'[q] = section[q]
        BY <1>4, <3>2
      <4>4. QED
        BY <1>2, <4>1, <4>2, <4>3
    <3>5. StandsFor(stream[b].inputs, kind, past)'
      BY <1>1, <3>1, <3>4 DEF StandsFor, kind
    <3>6. QED
      BY <3>1, <3>5 DEF kind
  <2>3. Open' = Open
    BY <1>1 DEF Open
  <2>4. QED
    BY <1>1, <2>1, <2>2, <2>3 DEF StreamsRemember
<1>9. QED
  BY <1>5, <1>6, <1>7, <1>8 DEF DashboardInv

(* Called, a stream is as it was when nothing it compares was replaced,    *)
(* and else says what there is now, unless the build raised.               *)
LEMMA TellKeeps ==
  ASSUME DashboardInv, NEW raising \in SUBSET listeners, Tell(raising)
  PROVE  DashboardInv'
<1>1. /\ life # "unloaded" /\ told' = TRUE
      /\ stream' = [b \in Stream |-> IF b \in listeners THEN Forward(b, b \in raising) ELSE stream[b]]
      /\ UNCHANGED <<section, place, been, life, hooked, watched, watchers, listeners, streamWork>>
  BY DEF Tell, LifeVars
<1>2. listeners = Open /\ Open \subseteq Stream
  BY DEF DashboardInv, StreamsAreFollowed, Open
<1>3. ASSUME NEW b \in Stream
      PROVE  /\ b \notin Open => stream'[b] = stream[b]
             /\ b \in Open /\ Inputs(stream[b].kind) = stream[b].inputs => stream'[b] = stream[b]
             /\ b \in Open /\ Inputs(stream[b].kind) # stream[b].inputs =>
                  /\ stream'[b].state = stream[b].state /\ stream'[b].kind = stream[b].kind
                  /\ stream'[b].inputs = Inputs(stream[b].kind)
                  /\ ~stream'[b].raised => stream'[b].said = Snapshot(stream[b].kind)
  <2>1. b \notin Open => stream'[b] = stream[b]
    BY <1>1, <1>2
  <2>2. b \in Open => stream'[b] = Forward(b, b \in raising)
    BY <1>1, <1>2
  <2>3. Inputs(stream[b].kind) = stream[b].inputs => Forward(b, b \in raising) = stream[b]
    BY DEF Forward
  <2>4. ASSUME Inputs(stream[b].kind) # stream[b].inputs
        PROVE  LET next == Forward(b, b \in raising)
               IN /\ next.state = stream[b].state /\ next.kind = stream[b].kind
                  /\ next.inputs = Inputs(stream[b].kind)
                  /\ ~next.raised => next.said = Snapshot(stream[b].kind)
    <3> DEFINE fails == b \in raising /\ Served(stream[b].kind)
               next == [state |-> stream[b].state, kind |-> stream[b].kind,
                        inputs |-> Inputs(stream[b].kind),
                        said |-> IF fails THEN stream[b].said ELSE Snapshot(stream[b].kind),
                        raised |-> fails]
    <3>1. Forward(b, b \in raising) = next
      BY <2>4 DEF Forward
    <3> HIDE DEF fails
    <3>2. QED
      BY <3>1
  <2>5. QED
    BY <2>1, <2>2, <2>3, <2>4
<1>4. \A b \in Stream : stream'[b].state = stream[b].state /\ stream'[b].kind = stream[b].kind
  BY <1>3
<1>5. Open' = Open
  BY <1>4 DEF Open
<1>6. DashboardTypes'
  <2>1. stream' = [b \in Stream |-> stream'[b]]
    BY <1>1
  <2>2. DashboardTypeOK'
    BY <1>1, <1>4 DEF DashboardInv, DashboardTypes, DashboardTypeOK
  <2>3. QED
    BY <1>1, <2>1, <2>2 DEF DashboardInv, DashboardTypes
<1>7. StreamsAreFollowed' /\ LinksWereTrue'
  BY <1>1, <1>5 DEF DashboardInv, StreamsAreFollowed, LinksWereTrue
<1>8. \A s \in Section : section'[s].object <= streamWork'
  BY <1>1 DEF DashboardInv, StreamsRemember
<1>9. \A b \in Open : (stream[b].inputs = Inputs(stream[b].kind))'
  <2>1. \A b \in Open : stream'[b].inputs = Inputs(stream[b].kind) /\ stream'[b].kind = stream[b].kind
    BY <1>2, <1>3
  <2>2. TAKE b \in Open
  <2>3. stream'[b].inputs = Inputs(stream[b].kind) /\ stream'[b].kind = stream[b].kind
    BY <2>1
  <2>4. QED
    BY <1>1, <2>3 DEF Inputs
<1>10. ASSUME NEW b \in Open, ~stream'[b].raised
       PROVE  \E past : /\ (stream[b].said = SnapshotFrom(stream[b].kind, past))'
                        /\ StandsFor(stream[b].inputs, stream[b].kind, past)'
  <2>1. CASE Inputs(stream[b].kind) = stream[b].inputs
    <3>1. stream'[b] = stream[b]
      BY <1>2, <1>3, <2>1
    <3>2. PICK past : /\ stream[b].said = SnapshotFrom(stream[b].kind, past)
                      /\ StandsFor(stream[b].inputs, stream[b].kind, past)
      BY <1>10, <3>1 DEF DashboardInv, StreamsRemember
    <3>3. StandsFor(stream[b].inputs, stream[b].kind, past)'
      BY <1>1, <3>1, <3>2 DEF StandsFor
    <3>4. QED
      BY <3>1, <3>2, <3>3
  <2>2. CASE Inputs(stream[b].kind) # stream[b].inputs
    <3> DEFINE kind == stream[b].kind
    <3>0. PICK past : past = Now
      OBVIOUS
    <3>1. kind \in Kind
      BY <1>2 DEF DashboardInv, DashboardTypes, DashboardTypeOK
    <3>2. /\ stream'[b].kind = kind /\ stream'[b].inputs = Inputs(kind)
          /\ stream'[b].said = Snapshot(kind)
      BY <1>2, <1>3, <1>10, <2>2
    <3>3. stream'[b].said = SnapshotFrom(kind, past)
      BY <3>0, <3>1, <3>2, SnapshotOfNow
    <3>4. StandsFor(Inputs(kind), kind, past)
      BY <3>0, <3>1, InputsStandForNow DEF DashboardInv, StreamsRemember
    <3> HIDE DEF kind
    <3>5. StandsFor(stream[b].inputs, stream[b].kind, past)'
      BY <1>1, <3>2, <3>4 DEF StandsFor
    <3>6. QED
      BY <3>2, <3>3, <3>5
  <2>3. QED
    BY <2>1, <2>2
<1>11. StreamsRemember'
  BY <1>5, <1>8, <1>9, <1>10 DEF StreamsRemember
<1>12. QED
  BY <1>6, <1>7, <1>11 DEF DashboardInv

LEMMA SubscribeKeeps ==
  ASSUME DashboardInv, NEW a \in Stream, NEW kind \in Kind, Subscribe(a, kind)
  PROVE  DashboardInv'
<1> DEFINE new == [state |-> "open", kind |-> kind, inputs |-> Inputs(kind), said |-> Snapshot(kind),
                   raised |-> FALSE]
<1>1. /\ life = "loaded" /\ stream[a].state = "unused" /\ stream' = [stream EXCEPT ![a] = new]
      /\ listeners' = listeners \cup {a} /\ watchers' = watchers \cup {a}
      /\ hooked' = (hooked \/ ~watched) /\ watched' = TRUE
      /\ UNCHANGED <<section, place, been, life, told, streamWork>>
  BY DEF Subscribe, Watch
<1>2. /\ new.state = "open" /\ new.kind = kind /\ new.inputs = Inputs(kind)
      /\ new.said = Snapshot(kind) /\ new.raised = FALSE
  OBVIOUS
<1> HIDE DEF new
<1>3. /\ stream'[a] = new /\ \A b \in Stream \ {a} : stream'[b] = stream[b]
      /\ stream' = [b \in Stream |-> stream'[b]]
  BY <1>1 DEF DashboardInv, DashboardTypes
<1>4. Open' = Open \cup {a}
  BY <1>2, <1>3 DEF Open
<1>5. DashboardTypes'
  <2>1. DashboardTypeOK'
    BY <1>1, <1>2, <1>3 DEF DashboardInv, DashboardTypes, DashboardTypeOK
  <2>2. QED
    BY <1>1, <1>3, <2>1 DEF DashboardInv, DashboardTypes
<1>6. StreamsAreFollowed' /\ LinksWereTrue'
  BY <1>1, <1>4 DEF DashboardInv, DashboardTypes, DashboardTypeOK, StreamsAreFollowed, LinksWereTrue
<1>7. \A s \in Section : section'[s].object <= streamWork'
  BY <1>1 DEF DashboardInv, StreamsRemember
<1>8. ASSUME NEW b \in Open'
      PROVE  /\ told' => (stream[b].inputs = Inputs(stream[b].kind))'
             /\ ~stream'[b].raised =>
                  \E past : /\ (stream[b].said = SnapshotFrom(stream[b].kind, past))'
                           /\ StandsFor(stream[b].inputs, stream[b].kind, past)'
  <2>1. CASE b # a
    <3>1. b \in Open /\ stream'[b] = stream[b]
      BY <1>3, <1>4, <2>1 DEF Open
    <3>2. told' => (stream[b].inputs = Inputs(stream[b].kind))'
      BY <1>1, <3>1 DEF DashboardInv, StreamsRemember, Inputs
    <3>3. SUFFICES ASSUME ~stream'[b].raised
                   PROVE  \E past : /\ (stream[b].said = SnapshotFrom(stream[b].kind, past))'
                                    /\ StandsFor(stream[b].inputs, stream[b].kind, past)'
      BY <3>2
    <3>4. PICK past : /\ stream[b].said = SnapshotFrom(stream[b].kind, past)
                      /\ StandsFor(stream[b].inputs, stream[b].kind, past)
      BY <3>1, <3>3 DEF DashboardInv, StreamsRemember
    <3>5. StandsFor(stream[b].inputs, stream[b].kind, past)'
      BY <1>1, <3>1, <3>4 DEF StandsFor
    <3>6. QED
      BY <3>1, <3>4, <3>5
  <2>2. CASE b = a
    <3>0. PICK past : past = Now
      OBVIOUS
    <3>1. stream'[b].said = SnapshotFrom(kind, past)
      BY <1>2, <1>3, <2>2, <3>0, SnapshotOfNow
    <3>2. StandsFor(Inputs(kind), kind, past)
      BY <3>0, InputsStandForNow DEF DashboardInv, StreamsRemember
    <3>3. stream'[b].kind = kind /\ stream'[b].inputs = Inputs(kind)
      BY <1>2, <1>3, <2>2
    <3>4. StandsFor(stream[b].inputs, stream[b].kind, past)'
      BY <1>1, <3>2, <3>3 DEF StandsFor
    <3>5. (stream[b].inputs = Inputs(stream[b].kind))'
      BY <1>1, <3>3 DEF Inputs
    <3>6. QED
      BY <3>1, <3>3, <3>4, <3>5
  <2>3. QED
    BY <2>1, <2>2
<1>9. StreamsRemember'
  BY <1>7, <1>8 DEF StreamsRemember
<1>10. QED
  BY <1>5, <1>6, <1>9 DEF DashboardInv

LEMMA DashboardStep ==
  ASSUME DashboardInv, [DashboardNext]_dashboardVars
  PROVE  DashboardInv'
<1>1. /\ DashboardTypes /\ DashboardTypeOK /\ StreamsAreFollowed /\ LinksWereTrue /\ StreamsRemember
      /\ streamWork \in Nat /\ MaxDashboardWork \in Nat
  BY DashboardAssumption DEF DashboardInv, DashboardTypes, DashboardTypeOK
<1>2. ASSUME NEW c \in Roamer, NEW p \in Gear \X Hole, Replug(c, p) PROVE DashboardInv'
  <2>1. /\ place' = [place EXCEPT ![c] = p] /\ been' = [been EXCEPT ![c] = @ \cup {p}]
        /\ UNCHANGED <<section, life, hooked, watched, watchers, listeners, told, stream>>
        /\ streamWork' = streamWork + 1 /\ streamWork' \in 0 .. MaxDashboardWork
    BY <1>1, <1>2 DEF Replug, Worked, LifeVars
  <2>2. /\ place' \in [Roamer -> Gear \X Hole] /\ been' \in [Roamer -> SUBSET (Gear \X Hole)]
        /\ \A x \in Roamer : been[x] \subseteq been'[x] /\ place'[x] \in been'[x]
    BY <1>1, <2>1 DEF DashboardTypeOK, LinksWereTrue
  <2>3. DashboardTypes'
    BY <1>1, <2>1, <2>2 DEF DashboardTypes, DashboardTypeOK
  <2>4. \A x \in DOMAIN section["client_links"].content : x \in Roamer
    <3>1. section["client_links"].content \in ContentOf("client_links")
      BY <1>1 DEF DashboardTypeOK, Section, Object
    <3>2. QED
      BY <3>1 DEF ContentOf, ListedWith
  <2>5. LinksWereTrue'
    BY <1>1, <2>1, <2>2, <2>4 DEF LinksWereTrue
  <2>6. Open' = Open /\ StreamsAreFollowed'
    BY <1>1, <2>1 DEF Open, StreamsAreFollowed
  <2>7. StreamsRemember'
    BY <1>1, <2>1, <2>6, RememberedStay
  <2>8. QED
    BY <2>3, <2>5, <2>6, <2>7 DEF DashboardInv
<1>3. ASSUME NEW b \in Stream, Unsubscribe(b) PROVE DashboardInv'
  <2> DEFINE last == Closed(<<>>)
  <2>1. /\ stream[b].state = "open" /\ stream' = [stream EXCEPT ![b] = last]
        /\ listeners' = listeners \ {b} /\ watchers' = watchers \ {b}
        /\ UNCHANGED <<section, place, been, life, hooked, watched, told, streamWork>>
    BY <1>3 DEF Unsubscribe
  <2>2. last.state = "closed" /\ last.kind \in Kind
    BY DEF Closed, NoStream, Kind
  <2> HIDE DEF last
  <2>3. /\ stream'[b] = last /\ \A a \in Stream \ {b} : stream'[a] = stream[a]
        /\ stream' = [a \in Stream |-> stream'[a]]
    BY <1>1, <2>1 DEF DashboardTypes
  <2>4. Open' = Open \ {b}
    BY <2>2, <2>3 DEF Open
  <2>5. DashboardTypes'
    BY <1>1, <2>1, <2>2, <2>3 DEF DashboardTypes, DashboardTypeOK
  <2>6. StreamsAreFollowed' /\ LinksWereTrue'
    BY <1>1, <2>1, <2>4 DEF StreamsAreFollowed, LinksWereTrue
  <2>7. \A a \in Open' : a \in Open /\ stream'[a] = stream[a]
    BY <2>3, <2>4 DEF Open
  <2>8. StreamsRemember'
    BY <1>1, <2>1, <2>7, RememberedStay
  <2>9. QED
    BY <2>5, <2>6, <2>8 DEF DashboardInv
<1>4. CASE EndUnload
  <2> DEFINE last == Closed(<<"entry_unloaded">>)
  <2>1. /\ stream' = [b \in Stream |-> IF hooked /\ b \in Pending THEN last ELSE stream[b]]
        /\ listeners' = (IF hooked THEN listeners \ Pending ELSE listeners)
        /\ watchers' = (IF hooked THEN {} ELSE watchers)
        /\ watched' = (watched /\ ~hooked) /\ hooked' = FALSE /\ life' = "unloaded"
        /\ UNCHANGED <<section, place, been, told, streamWork>>
    BY <1>4 DEF EndUnload
  <2>2. last.state = "closed" /\ last.kind \in Kind
    BY DEF Closed, NoStream, Kind
  <2> HIDE DEF last
  <2>3. Pending = Open /\ listeners = Open /\ watchers = Open /\ hooked = watched
        /\ (~hooked => Open = {})
    BY <1>1 DEF StreamsAreFollowed, Pending, Open
  <2>4. \A b \in Stream : stream'[b].state # "open"
    BY <2>1, <2>2, <2>3 DEF Open
  <2>5. Open' = {}
    BY <2>4 DEF Open
  <2>6. DashboardTypes'
    <3>1. \A b \in Stream : stream'[b] = last \/ stream'[b] = stream[b]
      BY <2>1
    <3>2. DashboardTypeOK'
      BY <1>1, <2>1, <2>2, <2>3, <3>1 DEF DashboardTypeOK
    <3>3. QED
      BY <1>1, <2>1, <3>2 DEF DashboardTypes
  <2>7. StreamsAreFollowed' /\ LinksWereTrue'
    BY <1>1, <2>1, <2>3, <2>5 DEF StreamsAreFollowed, LinksWereTrue, DashboardTypeOK
  <2>8. StreamsRemember'
    BY <1>1, <2>1, <2>5, RememberedStay
  <2>9. QED
    BY <2>6, <2>7, <2>8 DEF DashboardInv
<1>5. CASE BeginUnload \/ UnloadFails \/ Reload \/ UNCHANGED dashboardVars
  <2>1. /\ UNCHANGED <<section, place, been, hooked, watched, watchers, listeners, told, stream, streamWork>>
        /\ life' = "unloaded" => life = "unloaded"
        /\ life' \in {"loaded", "unloading", "unloaded", "stuck"}
    BY <1>1, <1>5 DEF BeginUnload, UnloadFails, Reload, dashboardVars, DashboardTypeOK
  <2>2. Open' = Open
    BY <2>1 DEF Open
  <2>3. DashboardTypes' /\ LinksWereTrue'
    BY <1>1, <2>1 DEF DashboardTypes, DashboardTypeOK, LinksWereTrue
  <2>4. StreamsAreFollowed'
    BY <1>1, <2>1, <2>2 DEF StreamsAreFollowed
  <2>5. StreamsRemember'
    BY <1>1, <2>1, <2>2, RememberedStay
  <2>6. QED
    BY <2>3, <2>4, <2>5 DEF DashboardInv
<1>6. ASSUME NEW b \in Stream, NEW kind \in KindsOf[b], Subscribe(b, kind) PROVE DashboardInv'
  BY <1>6, SubscribeKeeps, DashboardAssumption
<1>7. QED
  BY <1>2, <1>3, <1>4, <1>5, <1>6, ReplaceKeeps, TellKeeps DEF DashboardNext

LEMMA DashboardStarts == DashboardInit => DashboardInv
<1> SUFFICES ASSUME DashboardInit PROVE DashboardInv
  OBVIOUS
<1>1. /\ \A c \in Roamer : place[c] \in Gear \X Hole
      /\ place \in [Roamer -> Gear \X Hole] /\ been = [c \in Roamer |-> {place[c]}]
  <2>1. (CHOOSE p \in Gear \X Hole : TRUE) \in Gear \X Hole
    <3>1. PICK g \in Gear, h \in Hole : TRUE
      BY DashboardAssumption
    <3>2. <<g, h>> \in Gear \X Hole
      OBVIOUS
    <3>3. QED
      BY <3>2
  <2>2. QED
    BY <2>1 DEF DashboardInit
<1> DEFINE content(s) == CASE s = "devices" -> [d \in Gear |-> NoUplink]
                           [] s = "clients" -> [c \in Roamer |-> place[c][1]]
                           [] s = "client_links" -> place
                           [] s \in {"available", "protect_available", "selected"} -> TRUE
                           [] OTHER -> FALSE
<1>2. section = [s \in Section |-> [object |-> 0, content |-> content(s)]]
  BY DEF DashboardInit
<1>3. \A s \in Section : content(s) \in ContentOf(s)
  <2>1. content("devices") \in ContentOf("devices")
    BY DashboardAssumption DEF ContentOf
  <2>2. [c \in Roamer |-> place[c][1]] \in [Roamer -> Gear \cup {NoUplink}]
    BY <1>1
  <2>3. content("clients") \in ContentOf("clients")
    BY <2>2 DEF ContentOf, ListedWith
  <2>4. content("client_links") \in ContentOf("client_links")
    BY <1>1 DEF ContentOf, ListedWith
  <2>5. \A s \in Section \ {"devices", "clients", "client_links"} : content(s) \in BOOLEAN /\ ContentOf(s) = BOOLEAN
    BY DEF ContentOf
  <2> HIDE DEF content
  <2>6. QED
    BY <2>1, <2>3, <2>4, <2>5
<1>4. content("client_links") = place
  OBVIOUS
<1> HIDE DEF content
<1>5. \A s \in Section : section[s].object = 0 /\ section[s].content = content(s)
  BY <1>2
<1>6. section \in [Section -> [object : 0 .. MaxDashboardWork, content : AnySectionContent]]
  BY <1>2, <1>3, DashboardAssumption DEF AnySectionContent
<1>7. \A b \in Stream : stream[b].state = "unused" /\ stream[b].kind \in Kind
  BY DEF DashboardInit, NoStream, Kind
<1>8. Open = {}
  BY <1>7 DEF Open
<1>9. DashboardTypes
  <2>1. \A s \in Section : section[s].content \in ContentOf(s) /\ section[s].object \in 0 .. MaxDashboardWork
    BY <1>3, <1>5, DashboardAssumption
  <2>2. been \in [Roamer -> SUBSET (Gear \X Hole)]
    BY <1>1
  <2>3. DashboardTypeOK
    <3>1. /\ life = "loaded" /\ hooked = FALSE /\ watched = FALSE /\ told = TRUE
          /\ watchers = {} /\ listeners = {} /\ streamWork = 0
      BY DEF DashboardInit
    <3>2. streamWork \in 0 .. MaxDashboardWork
      BY <3>1, DashboardAssumption
    <3>3. QED
      BY <1>1, <1>7, <2>1, <2>2, <3>1, <3>2 DEF DashboardTypeOK
  <2>4. QED
    BY <1>6, <2>3 DEF DashboardInit, DashboardTypes
<1>10. StreamsAreFollowed
  BY <1>8 DEF DashboardInit, StreamsAreFollowed
<1>11. LinksWereTrue
  <2>1. section["client_links"].content = place
    BY <1>4, <1>5 DEF Section, Object
  <2>2. QED
    BY <1>1, <2>1 DEF LinksWereTrue
<1>12. StreamsRemember
  BY <1>5, <1>8 DEF DashboardInit, StreamsRemember
<1>13. QED
  BY <1>9, <1>10, <1>11, <1>12 DEF DashboardInv

LEMMA ClosedStay ==
  ASSUME DashboardInv, DashboardNext, NEW b \in Stream, stream[b].state = "closed"
  PROVE  stream'[b] = stream[b]
<1>1. b \notin Open /\ listeners = Open /\ stream = [a \in Stream |-> stream[a]]
  BY DEF Open, DashboardInv, StreamsAreFollowed, DashboardTypes
<1>2. ASSUME NEW raising, Tell(raising) PROVE stream'[b] = stream[b]
  BY <1>1, <1>2 DEF Tell
<1>3. ASSUME NEW a \in Stream, Unsubscribe(a) \/ \E kind \in KindsOf[a] : Subscribe(a, kind)
      PROVE  stream'[b] = stream[b]
  <2>1. a # b
    BY <1>3 DEF Unsubscribe, Subscribe
  <2>2. PICK v : stream' = [stream EXCEPT ![a] = v]
    BY <1>3 DEF Unsubscribe, Subscribe
  <2>3. QED
    BY <1>1, <2>1, <2>2
<1>4. CASE EndUnload
  BY <1>4 DEF EndUnload, Pending
<1>5. QED
  BY <1>2, <1>3, <1>4 DEF DashboardNext, Replug, Replace, BeginUnload, UnloadFails, Reload

(* The streams of the dashboard, for any streams, devices, clients and any *)
(* number of changes: what a card shows once the listeners were called is  *)
(* what would be built for it now; a stream ends once, and with its entry; *)
(* no client is drawn on a port it never had; and following the parents    *)
(* ends.                                                                   *)
THEOREM StreamsShowTheTruth == DashboardSpec => StreamsAreTrue
<1>1. DashboardInit => DashboardInv
  BY DashboardStarts
<1>2. DashboardInv /\ [DashboardNext]_dashboardVars => DashboardInv'
  BY DashboardStep
<1>3. DashboardInv => StreamsAreCurrent /\ NoStreamOutlivesItsEntry /\ PortsBelongToTheParent /\ ParentsEnd
  BY DashboardIsTrue
<1>4. DashboardInv /\ [DashboardNext]_dashboardVars =>
        [\A b \in Stream : stream[b].state = "closed" => stream'[b] = stream[b]]_dashboardVars
  BY ClosedStay
<1>5. QED
  BY <1>1, <1>2, <1>3, <1>4, PTL DEF DashboardSpec, StreamsAreTrue, StreamsEndOnce

-----------------------------------------------------------------------------
(* The parts together, as MCServices runs them: every behaviour of the     *)
(* composition is one of each part, since what moves one part leaves the   *)
(* others alone.                                                           *)
LEMMA PartsStart ==
  ServiceInit => TargetsInit /\ NetTargetsInit /\ BatchInit /\ FacadeInit /\ CarrierInit /\ DashboardInit
BY DEF ServiceInit

LEMMA PartsStep ==
  [ServiceNext]_serviceVars =>
    /\ [TargetsNext]_targetVars /\ [NetTargetsNext]_netTargetVars /\ [BatchNext]_batchVars
    /\ [FacadeNext]_facadeVars /\ [CarrierNext]_carrierVars /\ [DashboardNext]_dashboardVars
<1> SUFFICES ASSUME [ServiceNext]_serviceVars
             PROVE  /\ [TargetsNext]_targetVars /\ [NetTargetsNext]_netTargetVars
                    /\ [BatchNext]_batchVars /\ [FacadeNext]_facadeVars
                    /\ [CarrierNext]_carrierVars /\ [DashboardNext]_dashboardVars
  OBVIOUS
<1>1. TargetsNext \/ UNCHANGED targetVars
  BY DEF ServiceNext, OfProtect, OfNetwork, OfBatch, OfFacade, OfCarrier, OfDashboard,
         serviceVars, callVars
<1>2. NetTargetsNext \/ UNCHANGED netTargetVars
  BY DEF ServiceNext, OfProtect, OfNetwork, OfBatch, OfFacade, OfCarrier, OfDashboard,
         serviceVars, callVars
<1>3. BatchNext \/ UNCHANGED batchVars
  BY DEF ServiceNext, OfProtect, OfNetwork, OfBatch, OfFacade, OfCarrier, OfDashboard,
         serviceVars, callVars
<1>4. FacadeNext \/ UNCHANGED facadeVars
  BY DEF ServiceNext, OfProtect, OfNetwork, OfBatch, OfFacade, OfCarrier, OfDashboard,
         serviceVars, callVars
<1>5. CarrierNext \/ UNCHANGED carrierVars
  BY DEF ServiceNext, OfProtect, OfNetwork, OfBatch, OfFacade, OfCarrier, OfDashboard,
         serviceVars, callVars
<1>6. DashboardNext \/ UNCHANGED dashboardVars
  BY DEF ServiceNext, OfProtect, OfNetwork, OfBatch, OfFacade, OfCarrier, OfDashboard,
         serviceVars, callVars
<1>7. QED
  BY <1>1, <1>2, <1>3, <1>4, <1>5, <1>6

(* What the service actions are built on, in one installation, for any     *)
(* consoles, sites, devices, clients, accounts and cards: the calls reach  *)
(* the console that has what they name, or none (service_targets.py); and  *)
(* calls to several consoles, the snapshot, the calls to accounts and the  *)
(* streams keep what is proved of each above.                              *)
THEOREM ServicesAreSound ==
  ServiceSpec =>
    /\ []CallsAreRouted
    /\ BatchesAreComplete /\ ViewIsCurrent /\ CarrierCallsAreSound /\ StreamsAreTrue
<1>1. ServiceSpec => TargetsSpec /\ NetTargetsSpec /\ BatchSpec
  BY PartsStart, PartsStep, PTL DEF ServiceSpec, TargetsSpec, NetTargetsSpec, BatchSpec
<1>2. ServiceSpec => FacadeSpec /\ CarrierSpec /\ DashboardSpec
  BY PartsStart, PartsStep, PTL DEF ServiceSpec, FacadeSpec, CarrierSpec, DashboardSpec
<1>3. FacadeSpec => []FacadeTypeOK
  <2>1. FacadeInit => FacadeInv
    BY FacadeStarts
  <2>2. FacadeInv /\ [FacadeNext]_facadeVars => FacadeInv'
    BY FacadeStep
  <2>3. FacadeInv => FacadeTypeOK
    BY DEF FacadeInv, FacadeTypes
  <2>4. QED
    BY <2>1, <2>2, <2>3, PTL DEF FacadeSpec
<1>4. DashboardSpec => []DashboardTypeOK
  <2>1. DashboardInit => DashboardInv
    BY DashboardStarts
  <2>2. DashboardInv /\ [DashboardNext]_dashboardVars => DashboardInv'
    BY DashboardStep
  <2>3. DashboardInv => DashboardTypeOK
    BY DEF DashboardInv, DashboardTypes
  <2>4. QED
    BY <2>1, <2>2, <2>3, PTL DEF DashboardSpec
<1>5. /\ TargetsTypeOK /\ ProtectCallsAreRouted /\ NetTargetsTypeOK /\ NetCallsAreRouted
      /\ FacadeTypeOK /\ DashboardTypeOK
      => CallsAreRouted
  BY DEF CallsAreRouted, ServiceTypesOK
<1>6. ServiceSpec => []CallsAreRouted
  BY <1>1, <1>2, <1>3, <1>4, <1>5, ProtectCallsReachTheirConsole, NetworkCallsReachTheirConsole, PTL
<1>7. ServiceSpec => BatchesAreComplete /\ ViewIsCurrent /\ CarrierCallsAreSound /\ StreamsAreTrue
  BY <1>1, <1>2, CallsDoAllTheyCan, FacadeIsCurrent, CarrierCallsShowTheirResult, StreamsShowTheTruth
<1>8. QED
  BY <1>6, <1>7
=============================================================================
