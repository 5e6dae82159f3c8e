------------------------------ MODULE MCLease ------------------------------
(***************************************************************************)
(* Small instances of Lease: two holders; either each caller has a holder  *)
(* id of its own, or two callers share one.                                *)
(***************************************************************************)
EXTENDS Lease, TLC

CONSTANTS c1, c2, c3, h1, h2

\* Each caller has its own holder id.
OwnIds == (c1 :> h1) @@ (c2 :> h2)

\* Two callers present the same holder id, a third another one.
SharedIds == (c1 :> h1) @@ (c2 :> h2) @@ (c3 :> h1)
=============================================================================
