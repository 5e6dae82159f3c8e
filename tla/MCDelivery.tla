----------------------------- MODULE MCDelivery -----------------------------
(***************************************************************************)
(* Instances of modules with liveness properties: Delivery, WorkerPool and *)
(* Health.  They share nothing: `part', chosen at the start, says which    *)
(* one runs.  The others stand in their first states, where of the actions *)
(* with fairness only those of the relays could take a step.  Liveness is  *)
(* checked, hence no symmetry.                                             *)
(***************************************************************************)
EXTENDS Delivery, WorkerPool, Health

VARIABLE part

allVars == <<dvars, poolVars, healthVars, part>>

MCInit == DInit /\ PoolInit /\ HealthInit /\ part \in {"delivery", "pool", "health"}

MCNext ==
  /\ UNCHANGED part
  /\ \/ part = "delivery" /\ DNext /\ UNCHANGED <<poolVars, healthVars>>
     \/ part = "pool" /\ PoolNext /\ UNCHANGED <<dvars, healthVars>>
     \/ part = "health" /\ HealthNext /\ UNCHANGED <<dvars, poolVars>>

MCFairness ==
  /\ \A r \in Relay : WF_allVars(part = "delivery" /\ Work(r) /\ UNCHANGED <<cvars, poolVars, healthVars, part>>)
  /\ ConsumerFairness
  /\ PoolFairness
  /\ HealthFairness

MCSpec == MCInit /\ [][MCNext]_allVars /\ MCFairness
=============================================================================
