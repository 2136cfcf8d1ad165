---------------------------- MODULE AccountLease ----------------------------
(***************************************************************************)
(* What the account registry promises: an entry leases the service of an   *)
(* API key from its setup to its unload, and a key is served exactly while *)
(* somebody leases it.                                                     *)
(***************************************************************************)
CONSTANTS Entry, Key, None

VARIABLES
  lease,    \* the key each entry leases, or None
  serving   \* the keys an account is polled for

leaseVars == <<lease, serving>>

Init == lease = [e \in Entry |-> None] /\ serving = {}

Take(e, k) ==
  /\ lease[e] = None
  /\ lease' = [lease EXCEPT ![e] = k]
  /\ serving' = serving \cup {k}

Give(e) ==
  /\ lease[e] # None
  /\ lease' = [lease EXCEPT ![e] = None]
  /\ serving' = IF \E other \in Entry \ {e} : lease[other] = lease[e]
                THEN serving ELSE serving \ {lease[e]}

Next == \E e \in Entry : Give(e) \/ \E k \in Key : Take(e, k)

Spec == Init /\ [][Next]_leaseVars
=============================================================================
