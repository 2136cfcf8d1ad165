------------------------------ MODULE SolePoller ------------------------------
(***************************************************************************)
(* What Mobility ownership promises: a key is polled by at most one entry, *)
(* and it changes hands only through nobody.                               *)
(***************************************************************************)
CONSTANTS Entry, Key, Nobody

VARIABLE poller    \* the entry polling each key, or Nobody

Init == poller = [k \in Key |-> Nobody]

Take(e, k) == poller[k] = Nobody /\ poller' = [poller EXCEPT ![k] = e]
Leave(k) == poller[k] # Nobody /\ poller' = [poller EXCEPT ![k] = Nobody]

Next == \E k \in Key : Leave(k) \/ \E e \in Entry : Take(e, k)

Spec == Init /\ [][Next]_poller
=============================================================================
