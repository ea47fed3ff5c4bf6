---------------------------- MODULE DeliveryLease ----------------------------
(***************************************************************************)
(* What the webhook run gate promises: a delivery key is a lease.  A free  *)
(* key can be granted to one holder; a holder that succeeds seals the key  *)
(* and one that fails returns it; a sealed key refuses everyone until it   *)
(* is reopened (its time to live passed, or the process was replaced).     *)
(* A key never passes from one holder to another, nor from sealed to a     *)
(* holder, without being free in between.                                  *)
(***************************************************************************)
CONSTANTS Keys, Holders, Free, Sealed

VARIABLE lease

LeaseTypeOK == lease \in [Keys -> Holders \cup {Free, Sealed}]

Init == lease = [k \in Keys |-> Free]

Grant(k, h) ==
  /\ lease[k] = Free
  /\ lease' = [lease EXCEPT ![k] = h]

Seal(k) ==
  /\ lease[k] \in Holders
  /\ lease' = [lease EXCEPT ![k] = Sealed]

\* Any keys become free at once: one returned, some expired, or all of them
\* forgotten by a restart.
Reopen ==
  /\ lease' \in [Keys -> Holders \cup {Free, Sealed}]
  /\ \A k \in Keys : lease'[k] \in {lease[k], Free}

Next ==
  \/ \E k \in Keys, h \in Holders : Grant(k, h)
  \/ \E k \in Keys : Seal(k)
  \/ Reopen

Spec == Init /\ [][Next]_lease
==============================================================================
