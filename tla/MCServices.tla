----------------------------- MODULE MCServices -----------------------------
(***************************************************************************)
(* What the service actions are built on, in two-console installations:    *)
(* where a Protect or a Network call goes, the calls that work through     *)
(* several consoles, the snapshot the entities and the calls read, the     *)
(* calls to Carrier Fabric accounts, and the streams that bring the        *)
(* snapshot to the dashboard cards. The parts share no state, so each      *)
(* behaviour moves one of them.                                            *)
(***************************************************************************)
EXTENDS ProtectTargets, NetworkTargets, BatchActions, FacadeView, CarrierFabric,
        DashboardStreams

VARIABLE piece

callVars == <<targetVars, netTargetVars, batchVars, carrierVars>>
serviceVars == <<piece, callVars, facadeVars, dashboardVars>>

SameTitle == [c \in ProtectConsole |-> CHOOSE t \in Title : TRUE]
(* One card may show anything, the other the Protect status.               *)
KindsShown == [b \in Stream |-> IF b = CHOOSE x \in Stream : TRUE THEN Kind ELSE {"protect"}]
(* Uplinks unknown, right, mutual, to itself, and devices that are gone.   *)
SomeLists ==
  LET Top == CHOOSE g \in Gateways : TRUE
      Leaf == CHOOSE w \in Gear : w \notin Gateways
      Both(topUplink, leafUplink) ==
        [d \in {Top, Leaf} |-> IF d = Top THEN topUplink ELSE leafUplink]
  IN { Both(NoUplink, NoUplink), Both(NoUplink, Top), Both(Leaf, Top), Both(NoUplink, Leaf),
       [d \in {Leaf} |-> Top], <<>> }
SpotNo == CHOOSE f \in [Guest -> Spot] : \A p \in Spot : \E x \in Guest : f[x] = p

(* A part that does not move starts from one of its initial states.        *)
ServiceInit ==
  /\ piece \in {"protect", "network", "batch", "facade", "carrier", "dashboard"}
  /\ TargetsInit
  /\ piece # "protect" => \A r \in Resource : home[r] = CHOOSE c \in ProtectConsole : TRUE
  /\ NetTargetsInit
  /\ piece # "network" =>
       (\A c \in NetConsole : sites[c] = Site) /\ \A x \in Thing : at[x] = CHOOSE p \in Place : TRUE
  /\ BatchInit
  /\ piece # "batch" =>
       usable = {} /\ \A x \in Guest : history[x] = [named |-> FALSE, span |-> "short"]
  /\ FacadeInit
  /\ CarrierInit
  /\ DashboardInit
  /\ piece # "carrier" => enabledActions = {} /\ up = {} /\ \A e \in CarrierEntry : listedBy[e] = {}

OfProtect(action) ==
  /\ piece = "protect" /\ action
  /\ UNCHANGED <<piece, netTargetVars, batchVars, facadeVars, carrierVars, dashboardVars>>
OfNetwork(action) ==
  /\ piece = "network" /\ action
  /\ UNCHANGED <<piece, targetVars, batchVars, facadeVars, carrierVars, dashboardVars>>
OfBatch(action) ==
  /\ piece = "batch" /\ action
  /\ UNCHANGED <<piece, targetVars, netTargetVars, facadeVars, carrierVars, dashboardVars>>
OfFacade(action) ==
  piece = "facade" /\ action /\ UNCHANGED <<piece, callVars, dashboardVars>>
OfCarrier(action) ==
  /\ piece = "carrier" /\ action
  /\ UNCHANGED <<piece, targetVars, netTargetVars, batchVars, facadeVars, dashboardVars>>
OfDashboard(action) ==
  piece = "dashboard" /\ action /\ UNCHANGED <<piece, callVars, facadeVars>>

ServiceNext ==
  \/ OfProtect(TargetsNext) \/ OfNetwork(NetTargetsNext) \/ OfBatch(BatchNext)
  \/ OfFacade(FacadeNext) \/ OfCarrier(CarrierNext) \/ OfDashboard(DashboardNext)

ServiceSpec == ServiceInit /\ [][ServiceNext]_serviceVars

ServiceTypesOK ==
  /\ TargetsTypeOK /\ NetTargetsTypeOK
  /\ FacadeTypeOK /\ DashboardTypeOK

(* A Protect or a Network call goes to a console that has what it names,   *)
(* or to none (service_targets.py).                                        *)
CallsAreRouted == ServiceTypesOK /\ ProtectCallsAreRouted /\ NetCallsAreRouted
=============================================================================
