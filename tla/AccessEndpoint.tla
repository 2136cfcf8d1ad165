--------------------------- MODULE AccessEndpoint ---------------------------
(***************************************************************************)
(* The endpoint the console sends Access results to. Setup publishes it:   *)
(* list, then update the stored endpoint, or one that already has the      *)
(* receiver's URL, or create one; turning the option off, removing the     *)
(* entry and moving to another server delete it. The answer of a request   *)
(* may be lost after the console acted on it, and the console's owner may  *)
(* delete endpoints. Setups and removals of an entry run one at a time;    *)
(* a move (reconfigure flow) may run beside a setup.                       *)
(***************************************************************************)
CONSTANTS
  Id,           \* endpoint ids; the console never uses one again
  Url,          \* internal URLs Home Assistant may have for the receiver
  NoId

ASSUME EndpointAssumption == NoId \notin Id

VARIABLES
  console,      \* endpoints of the console: [id, url]
  unused,       \* ids the console has not given yet
  url,          \* the receiver's URL now
  stored,       \* CONF_ACCESS_WEBHOOK_ENDPOINT_ID
  registered,   \* the receiver
  setup,        \* [phase, url, target]: "idle", "list", "update", "create", "unusable", "disable"
  leaving,      \* the id a move or a removal deletes, or NoId
  strayed       \* history: was an endpoint left behind (see OneEndpoint)?

endpointVars == <<console, unused, url, stored, registered, setup, leaving, strayed>>

NoSetup(u) == [phase |-> "idle", url |-> u, target |-> NoId]

EndpointTypeOK ==
  /\ console \subseteq [id : Id, url : Url]
  /\ unused \subseteq Id
  /\ url \in Url
  /\ stored \in Id \cup {NoId}
  /\ registered \in BOOLEAN
  /\ setup \in [phase : {"idle", "list", "update", "create", "unusable", "disable"},
                url : Url, target : Id \cup {NoId}]
  /\ leaving \in Id \cup {NoId}
  /\ strayed \in BOOLEAN

EndpointInit ==
  /\ console = {}
  /\ unused = Id
  /\ url \in Url
  /\ stored = NoId
  /\ registered = FALSE
  /\ setup = NoSetup(url)
  /\ leaving = NoId
  /\ strayed = FALSE

Ids == {e.id : e \in console}
Ends == setup' = NoSetup(setup.url)

-----------------------------------------------------------------------------
(* A reload begins: the receiver goes, and the option decides.             *)
SetupStarts ==
  /\ setup.phase = "idle"
  /\ registered' = FALSE
  /\ \/ setup' = [phase |-> "list", url |-> url, target |-> NoId]
     \/ setup' = [phase |-> "disable", url |-> url, target |-> stored]
  /\ UNCHANGED <<console, unused, url, stored, leaving, strayed>>

(* _async_publish_endpoint, after get_all: the stored endpoint wins, else  *)
(* one with this URL, else none.                                           *)
Matches_StoredOnly == {i \in Ids : i = stored}

Matches ==
  IF stored \in Ids THEN {stored}
  ELSE {e.id : e \in {f \in console : f.url = setup.url}}

Listed ==
  /\ setup.phase = "list"
  /\ \/ Matches # {} /\ \E i \in Matches :
          setup' = [setup EXCEPT !.phase = "update", !.target = i]
     \/ Matches = {} /\ setup' = [setup EXCEPT !.phase = "create"]
  /\ UNCHANGED <<console, unused, url, stored, registered, leaving, strayed>>

(* The answer is used: the id and the secret are stored and the receiver   *)
(* registered; or it has no secret, and what was published is deleted.     *)
Answered(i) ==
  \/ Ends /\ stored' = i /\ registered' = TRUE
  \/ /\ setup' = [setup EXCEPT !.phase = "unusable", !.target = i]
     /\ UNCHANGED <<stored, registered>>

(* The update; a console that has forgotten the endpoint answers 404, and  *)
(* it is created again.                                                    *)
Updated ==
  /\ setup.phase = "update"
  /\ IF setup.target \in Ids
     THEN /\ console' = {IF e.id = setup.target THEN [e EXCEPT !.url = setup.url] ELSE e :
                           e \in console}
          /\ Answered(setup.target)
     ELSE /\ setup' = [setup EXCEPT !.phase = "create"]
          /\ UNCHANGED <<console, stored, registered>>
  /\ UNCHANGED <<unused, url, leaving, strayed>>

Created ==
  /\ setup.phase = "create"
  /\ \E i \in unused :
       /\ console' = console \cup {[id |-> i, url |-> setup.url]}
       /\ unused' = unused \ {i}
       /\ Answered(i)
  /\ UNCHANGED <<url, leaving, strayed>>

(* A request of the setup fails, with or without effect: the receiver      *)
(* stays away and what was stored is kept.                                 *)
PublishFails ==
  /\ setup.phase \in {"list", "update", "create"}
  /\ \/ UNCHANGED <<console, unused>>
     \/ /\ setup.phase = "update"
        /\ console' = {IF e.id = setup.target THEN [e EXCEPT !.url = setup.url] ELSE e :
                         e \in console}
        /\ UNCHANGED unused
     \/ /\ setup.phase = "create"
        /\ \E i \in unused : /\ console' = console \cup {[id |-> i, url |-> setup.url]}
                             /\ unused' = unused \ {i}
  /\ Ends
  /\ UNCHANGED <<url, stored, registered, leaving, strayed>>

(* _async_delete_endpoint is asked; the answer may be lost.                *)
Without(i) == {e \in console : e.id # i}

UnusableDeleted ==
  /\ setup.phase = "unusable"
  /\ console' \in {console, Without(setup.target)}
  /\ stored' = NoId
  /\ Ends
  /\ UNCHANGED <<unused, url, registered, leaving, strayed>>

(* _async_disable: the id is forgotten once the endpoint is known gone.    *)
Disabled ==
  /\ setup.phase = "disable"
  /\ \/ console' = Without(setup.target) /\ stored' = NoId
     \/ setup.target # NoId /\ console' \in {console, Without(setup.target)} /\ UNCHANGED stored
  /\ Ends
  /\ UNCHANGED <<unused, url, registered, leaving, strayed>>

-----------------------------------------------------------------------------
(* A move to another host or port, a cleared token, a removed entry: the   *)
(* endpoint is deleted, and the entry forgets it; only a move stops, with  *)
(* everything kept, when that is not confirmed. What the server moved to   *)
(* holds is covered by the console forgetting.                             *)
LeaveStarts ==
  /\ leaving = NoId /\ stored # NoId
  /\ leaving' = stored
  /\ UNCHANGED <<console, unused, url, stored, registered, setup, strayed>>

LeaveEnds ==
  /\ leaving # NoId
  /\ \/ /\ console' = Without(leaving)
        /\ stored' = NoId /\ registered' = FALSE
        /\ UNCHANGED strayed
     \/ /\ console' \in {console, Without(leaving)}
        /\ \/ UNCHANGED <<stored, registered, strayed>>
           \/ /\ stored' = NoId /\ registered' = FALSE
              /\ strayed' = (strayed \/ leaving \in {e.id : e \in console'})
  /\ leaving' = NoId
  /\ UNCHANGED <<unused, url, setup>>

-----------------------------------------------------------------------------
(* The console's owner deletes an endpoint; Home Assistant's URL changes.  *)
ConsoleForgets ==
  /\ \E e \in console : console' = console \ {e}
  /\ UNCHANGED <<unused, url, stored, registered, setup, leaving, strayed>>

UrlChanges ==
  /\ url' \in Url \ {url}
  /\ strayed' = (strayed \/ setup.phase # "idle" \/ leaving # NoId
                             \/ \E e \in console : e.id # stored)
  /\ UNCHANGED <<console, unused, stored, registered, setup, leaving>>

EndpointNext ==
  \/ SetupStarts \/ Listed \/ Updated \/ Created \/ PublishFails
  \/ UnusableDeleted \/ Disabled
  \/ LeaveStarts \/ LeaveEnds
  \/ ConsoleForgets \/ UrlChanges

EndpointSpec == EndpointInit /\ [][EndpointNext]_endpointVars

-----------------------------------------------------------------------------
(* "Recovers from lost state without a duplicate": whatever answers were   *)
(* lost and whatever was deleted meanwhile, the console holds at most one  *)
(* endpoint of the entry. Left behind is one that the URL changed under    *)
(* while the entry did not know it, or while a setup or a move was under   *)
(* way, and one the entry gave up with its token.                          *)
OneEndpoint == ~strayed => \A e, f \in console : e = f

=============================================================================
