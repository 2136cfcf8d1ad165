------------------------------ MODULE MCSteps ------------------------------
(***************************************************************************)
(* Parts whose promises are about single steps. Of Protect the latches,    *)
(* the event store and the question about the global alarm manager; of     *)
(* Access emergency commands, the receiver of signed results and its       *)
(* endpoint on the console; of the config coordinator what is written      *)
(* between its polls: vouchers, classic site names, rule toggles and the   *)
(* rule audit; a poll of the Network device coordinator; and the registry  *)
(* rows of rules, ports and clients over the setups of an entry. They      *)
(* share no state: each behaviour moves one of them, `part`.               *)
(***************************************************************************)
EXTENDS EventLatches, EventStore, GlobalAlarmManager, AccessEmergency, AccessWebhook,
        AccessEndpoint, Vouchers, LegacyNames, RuleToggles, RuleAudit, DevicePoll,
        SweptRows, ClientRows

VARIABLE part

consoleVars == <<latchVars, storeVars, alarmVars, emergencyVars, webhookVars, endpointVars>>
sectionVars == <<voucherVars, legacyVars, toggleVars, auditVars>>
entityVars == <<sweptVars, clientVars>>
configVars == <<sectionVars, pollVars, entityVars>>
stepsVars == <<part, consoleVars, configVars>>

StepsInit ==
  /\ part \in {"latches", "store", "alarm", "emergency", "webhook", "endpoint",
               "vouchers", "names", "toggles", "audit", "poll", "swept", "clients"}
  /\ LatchInit
  /\ StoreInit /\ (part # "store" => ahead = 0)
  /\ AlarmInit /\ (part # "alarm" => ~manager)
  /\ EmergencyInit /\ (part # "emergency" => modes = NoPair)
  /\ WebhookInit /\ (part # "webhook" => \A d \in Delivery : stamp[d] = 0)
  /\ EndpointInit /\ (part # "endpoint" => url = CHOOSE u \in Url : TRUE)
  /\ VoucherInit /\ LegacyInit
  /\ ToggleInit /\ (part # "toggles" => keepsLast /\ atConsole = EmptySection)
  /\ AuditInit /\ (part # "audit" => consoleRules = NoRules)
  /\ PollInit /\ (part # "poll" => faulty = "stats")
  /\ SweptInit /\ (part # "swept" => platform = "switch" /\ signalled)
  /\ ClientRowsInit /\ (part # "clients" => tracks = {} /\ ~control /\ trackerRows = {})

OfLatches(action) ==
  /\ part = "latches" /\ action
  /\ UNCHANGED <<part, storeVars, alarmVars, emergencyVars, webhookVars, endpointVars, configVars>>
OfStore(action) ==
  /\ part = "store" /\ action
  /\ UNCHANGED <<part, latchVars, alarmVars, emergencyVars, webhookVars, endpointVars, configVars>>
OfAlarm(action) ==
  /\ part = "alarm" /\ action
  /\ UNCHANGED <<part, latchVars, storeVars, emergencyVars, webhookVars, endpointVars, configVars>>
OfEmergency(action) ==
  /\ part = "emergency" /\ action
  /\ UNCHANGED <<part, latchVars, storeVars, alarmVars, webhookVars, endpointVars, configVars>>
OfWebhook(action) ==
  /\ part = "webhook" /\ action
  /\ UNCHANGED <<part, latchVars, storeVars, alarmVars, emergencyVars, endpointVars, configVars>>
OfEndpoint(action) ==
  /\ part = "endpoint" /\ action
  /\ UNCHANGED <<part, latchVars, storeVars, alarmVars, emergencyVars, webhookVars, configVars>>
OfVouchers(action) ==
  part = "vouchers" /\ action /\ UNCHANGED <<part, consoleVars, pollVars, entityVars, legacyVars, toggleVars, auditVars>>
OfNames(action) ==
  part = "names" /\ action /\ UNCHANGED <<part, consoleVars, pollVars, entityVars, voucherVars, toggleVars, auditVars>>
OfToggles(action) ==
  part = "toggles" /\ action /\ UNCHANGED <<part, consoleVars, pollVars, entityVars, voucherVars, legacyVars, auditVars>>
OfAudit(action) ==
  part = "audit" /\ action /\ UNCHANGED <<part, consoleVars, pollVars, entityVars, voucherVars, legacyVars, toggleVars>>
OfPoll(action) ==
  part = "poll" /\ action /\ UNCHANGED <<part, consoleVars, sectionVars, entityVars>>
OfSwept(action) ==
  part = "swept" /\ action /\ UNCHANGED <<part, consoleVars, sectionVars, pollVars, clientVars>>
OfClients(action) ==
  part = "clients" /\ action /\ UNCHANGED <<part, consoleVars, sectionVars, pollVars, sweptVars>>

StepsNext ==
  \/ OfLatches(LatchNext) \/ OfStore(StoreNext) \/ OfAlarm(AlarmNext)
  \/ OfEmergency(EmergencyNext) \/ OfWebhook(WebhookNext) \/ OfEndpoint(EndpointNext)
  \/ OfVouchers(VoucherNext) \/ OfNames(LegacyNext)
  \/ OfToggles(ToggleNext) \/ OfAudit(AuditNext) \/ OfPoll(PollNext)
  \/ OfSwept(SweptNext) \/ OfClients(ClientRowsNext)

StepsSpec == StepsInit /\ [][StepsNext]_stepsVars

StepsTypesOK ==
  /\ LatchTypeOK /\ StoreTypeOK /\ AlarmTypeOK
  /\ EmergencyTypeOK /\ WebhookTypeOK /\ EndpointTypeOK
  /\ LegacyTypeOK /\ ToggleTypeOK /\ AuditTypeOK

(* Entities come and go with what the console has: those of switches and   *)
(* ports (the sweeps of the platforms) and those of clients (the client    *)
(* trackers and the Wake buttons).                                         *)
EntitiesAreKept == []StepsTypesOK /\ LivingRowsAreKept /\ ClientEntitiesAreKept

=============================================================================
