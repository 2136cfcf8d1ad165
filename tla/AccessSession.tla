---------------------------- MODULE AccessSession ----------------------------
(***************************************************************************)
(* The Access coordinator's tasks: refreshes by the poll, by the debounce  *)
(* timer and after commands, one at a time under the update lock, each     *)
(* with a read task of its own; the notification socket; and the two ways  *)
(* all of it is stopped: a rejected token (_async_expire, by whichever     *)
(* task met the 401) and unloading. Stopping cancels and awaits the        *)
(* tracked tasks: the reads and the debounced refreshes.                   *)
(***************************************************************************)
CONSTANTS
  Fire,         \* debounced refreshes that may be alive at a time (tracked)
  Poll, Remote, \* the poll and a command (not tracked)
  Notice,       \* the task that expires Access for the socket
  Unload        \* async_shutdown, then closing the client

Refresher == Fire \cup {Poll, Remote}
Proc == Refresher \cup {Notice, Unload}
Nobody == "nobody"

ASSUME SessionAssumption ==
  /\ Nobody \notin Proc
  /\ {Poll, Remote, Notice, Unload} \cap Fire = {}
  /\ Poll # Remote /\ {Poll, Remote} \cap {Notice, Unload} = {} /\ Notice # Unload

VARIABLES
  pc,          \* where each task is
  updater,     \* the holder of the update lock
  cancelled,   \* refreshes whose task, or whose read, was cancelled
  waits,       \* what a stop in progress awaits: [fires, reads]
  socket,      \* "new", "on", "ending" (cancelled), "off"
  armed,       \* _debounce_cancel: is the debounce timer running?
  authFailed,
  shutDown     \* the base class's flag

sessionVars == <<pc, updater, cancelled, waits, socket, armed, authFailed, shutDown>>

NoWaits == [fires |-> {}, reads |-> {}]

SessionTypeOK ==
  /\ pc \in [Proc -> {"idle", "sending", "lock", "reading", "socket", "settling", "closed"}]
  /\ updater \in Refresher \cup {Nobody}
  /\ cancelled \in SUBSET Refresher
  /\ waits \in [Proc -> [fires : SUBSET Fire, reads : SUBSET Refresher]]
  /\ socket \in {"new", "on", "ending", "off"}
  /\ {armed, authFailed, shutDown} \subseteq BOOLEAN

SessionInit ==
  /\ pc = [p \in Proc |-> "idle"]
  /\ updater = Nobody
  /\ cancelled = {}
  /\ waits = [p \in Proc |-> NoWaits]
  /\ socket = "new"
  /\ armed = FALSE
  /\ authFailed = FALSE
  /\ shutDown = FALSE

-----------------------------------------------------------------------------
(* A task is over: it gives the lock back, its read is over too, and       *)
(* nothing waits for either any more.                                      *)
Over(p, next) ==
  /\ pc' = [pc EXCEPT ![p] = next]
  /\ updater' = IF updater = p THEN Nobody ELSE updater
  /\ cancelled' = cancelled \ {p}
  /\ waits' = [q \in Proc |-> IF q = p THEN NoWaits
                              ELSE [fires |-> waits[q].fires \ {p},
                                    reads |-> waits[q].reads \ {p}]]

(* The second half of async_stop_websocket: clear the timer, cancel every  *)
(* tracked task but the calling one, and await them.                       *)
Settle_AwaitsItself(p) ==
  LET fires == {f \in Fire : pc[f] # "idle"}
      reads == {q \in Refresher \ {p} : pc[q] = "reading"}
  IN  /\ armed' = FALSE
      /\ cancelled' = cancelled \cup (fires \ {p}) \cup reads
      /\ waits' = [waits EXCEPT ![p] = [fires |-> fires, reads |-> reads]]
      /\ pc' = [pc EXCEPT ![p] = "settling"]

Settle_NoReads(p) ==
  LET fires == {f \in Fire \ {p} : pc[f] # "idle"}
  IN  /\ armed' = FALSE
      /\ cancelled' = cancelled \cup fires
      /\ waits' = [waits EXCEPT ![p] = [fires |-> fires, reads |-> {}]]
      /\ pc' = [pc EXCEPT ![p] = "settling"]

Settle(p) ==
  LET fires == {f \in Fire \ {p} : pc[f] # "idle"}
      reads == {q \in Refresher \ {p} : pc[q] = "reading"}
  IN  /\ armed' = FALSE
      /\ cancelled' = cancelled \cup fires \cup reads
      /\ waits' = [waits EXCEPT ![p] = [fires |-> fires, reads |-> reads]]
      /\ pc' = [pc EXCEPT ![p] = "settling"]

(* async_stop_websocket from its start: the socket first, if it still has  *)
(* a task, else straight on.                                               *)
Stop(p) ==
  IF socket = "on"
  THEN /\ socket' = "ending"
       /\ pc' = [pc EXCEPT ![p] = "socket"]
       /\ UNCHANGED <<cancelled, waits, armed>>
  ELSE Settle(p) /\ UNCHANGED socket

(* _async_expire, met by a task that holds whatever it holds.              *)
Expire(p) ==
  IF authFailed
  THEN Over(p, "idle") /\ UNCHANGED <<socket, armed, authFailed>>
  ELSE authFailed' = TRUE /\ Stop(p) /\ UNCHANGED updater

-----------------------------------------------------------------------------
(* A command's own request (unlock, PIN, emergency ...), after             *)
(* _require_command.                                                       *)
Sends ==
  /\ pc[Remote] = "idle" /\ ~authFailed
  /\ pc' = [pc EXCEPT ![Remote] = "sending"]
  /\ UNCHANGED <<updater, cancelled, waits, socket, armed, authFailed, shutDown>>

SendEnds ==
  /\ pc[Remote] = "sending"
  /\ \/ /\ pc' = [pc EXCEPT ![Remote] = "lock"]
        /\ UNCHANGED <<updater, cancelled, waits, socket, armed, authFailed>>
     \/ Over(Remote, "idle") /\ UNCHANGED <<socket, armed, authFailed>>
     \/ Expire(Remote)
  /\ UNCHANGED shutDown

(* The poll's turn; expiring and shutting down end its schedule.           *)
PollTurn ==
  /\ pc[Poll] = "idle" /\ ~authFailed /\ ~shutDown
  /\ pc' = [pc EXCEPT ![Poll] = "lock"]
  /\ UNCHANGED <<updater, cancelled, waits, socket, armed, authFailed, shutDown>>

(* _async_debounced_fire.                                                  *)
Fires(f) ==
  /\ armed /\ pc[f] = "idle"
  /\ armed' = FALSE
  /\ pc' = [pc EXCEPT ![f] = "lock"]
  /\ UNCHANGED <<updater, cancelled, waits, socket, authFailed, shutDown>>

(* A refresh gets the update lock: it ends at once when the coordinator is *)
(* shut down or the token was rejected, or starts its read.                *)
MayRead_NoFlag == ~authFailed

MayRead == ~shutDown /\ ~authFailed

Locks(p) ==
  /\ pc[p] = "lock" /\ updater = Nobody /\ p \notin cancelled
  /\ IF MayRead
     THEN /\ updater' = p
          /\ pc' = [pc EXCEPT ![p] = "reading"]
          /\ UNCHANGED <<cancelled, waits>>
     ELSE Over(p, "idle")
  /\ UNCHANGED <<socket, armed, authFailed, shutDown>>

(* The read ends: an answer, an error, or a 401.                           *)
ReadEnds(p) ==
  /\ pc[p] = "reading" /\ p \notin cancelled
  /\ \/ Over(p, "idle") /\ UNCHANGED <<socket, armed, authFailed>>
     \/ Expire(p)
  /\ UNCHANGED shutDown

(* Cancellation reaches a refresh, wherever it waits: for the lock, for    *)
(* its read, or, having met a 401, for the tasks it stops itself.          *)
CancelLands(p) ==
  /\ p \in cancelled
  /\ Over(p, "idle")
  /\ UNCHANGED <<socket, armed, authFailed, shutDown>>

-----------------------------------------------------------------------------
(* async_start_websocket, at the end of setup.                             *)
StartSocket ==
  /\ socket = "new" /\ ~authFailed /\ ~shutDown
  /\ socket' = "on"
  /\ UNCHANGED <<pc, updater, cancelled, waits, armed, authFailed, shutDown>>

(* _handle_frame: a status frame arms the debounce timer again.            *)
StatusFrame ==
  /\ socket = "on"
  /\ armed' = TRUE
  /\ UNCHANGED <<pc, updater, cancelled, waits, socket, authFailed, shutDown>>

(* _handle_socket_stop: 403 or 404 ends the notifications, 401 has a task  *)
(* expire Access.                                                          *)
SocketRefused ==
  /\ socket = "on"
  /\ socket' = "off"
  /\ pc[Notice] = "idle"
  /\ \E unauthorized \in BOOLEAN :
       pc' = IF unauthorized THEN [pc EXCEPT ![Notice] = "sending"] ELSE pc
  /\ UNCHANGED <<updater, cancelled, waits, armed, authFailed, shutDown>>

NoticeExpires ==
  /\ pc[Notice] = "sending"
  /\ Expire(Notice)
  /\ UNCHANGED shutDown

(* The cancelled socket task ends, and the stop that awaits it goes on.    *)
SocketEnds ==
  /\ socket = "ending"
  /\ socket' = "off"
  /\ UNCHANGED <<pc, updater, cancelled, waits, armed, authFailed, shutDown>>

SocketGone(p) ==
  /\ pc[p] = "socket" /\ socket = "off" /\ p \notin cancelled
  /\ Settle(p)
  /\ UNCHANGED <<updater, socket, authFailed, shutDown>>

(* A stop returns: an expiry publishes, unloading closes the client.       *)
StopReturns(p) ==
  /\ pc[p] = "settling" /\ waits[p] = NoWaits /\ p \notin cancelled
  /\ Over(p, IF p = Unload THEN "closed" ELSE "idle")
  /\ UNCHANGED <<socket, armed, authFailed, shutDown>>

Unloads ==
  /\ pc[Unload] = "idle"
  /\ shutDown' = TRUE
  /\ Stop(Unload)
  /\ UNCHANGED <<updater, authFailed>>

-----------------------------------------------------------------------------
SessionNext ==
  \/ Sends \/ SendEnds \/ PollTurn \/ NoticeExpires
  \/ \E f \in Fire : Fires(f)
  \/ \E p \in Refresher : Locks(p) \/ ReadEnds(p) \/ CancelLands(p)
  \/ StartSocket \/ StatusFrame \/ SocketRefused \/ SocketEnds
  \/ \E p \in Proc : SocketGone(p) \/ StopReturns(p)
  \/ Unloads

SessionSpec == SessionInit /\ [][SessionNext]_sessionVars

-----------------------------------------------------------------------------
(* "Returning means no other tracked read or refresh is still running",    *)
(* whichever task stops, and also when two of them stop at once.           *)
StopSettles ==
  [][\A p \in Proc :
       pc[p] = "settling" /\ waits[p] = NoWaits /\ pc'[p] # "settling" /\ p \notin cancelled =>
         \A q \in Refresher \ {p} : pc[q] # "reading" /\ (q \in Fire => pc[q] = "idle")]_sessionVars

(* No read uses the client after unloading has closed it, also not one of  *)
(* a refresh that had been waiting for the lock.                           *)
NoReadAfterClose == pc[Unload] = "closed" => \A q \in Refresher : pc[q] # "reading"

(* Stopping never waits for itself, nor two stops for each other: both end.*)
EveryStopReturns ==
  \A p \in Proc : pc[p] \in {"socket", "settling"} ~> pc[p] \in {"idle", "closed"}

(* A stop ends, and has stopped what it stops.                             *)
StopsSettleAndReturn == StopSettles /\ EveryStopReturns

=============================================================================
