---------------------------- MODULE MCSimulation ----------------------------
(***************************************************************************)
(* Instances of the simulation kernel, of the simulation runner, and of    *)
(* the two patterns around a call.  They share nothing: `part', chosen at  *)
(* the start, says which one runs.                                         *)
(***************************************************************************)
EXTENDS Kernel, SimRunner, CircuitBreaker, Bulkhead, TLC

VARIABLE part

Part == {"kernel", "runner", "breaker", "bulkhead"}

\* The kernel: two events of the same time may differ in priority.
MCSlot == {<<0, 0>>, <<1, 0>>, <<1, -1>>}

-----------------------------------------------------------------------------
(* The runner: a gateway whose checkout calls the database twice and the   *)
(* gateway in between, a lookup that calls nothing, two operations with a  *)
(* second dependency that is not configured, and an arrival for an         *)
(* operation that is not.                                                  *)

CONSTANTS r1, r2, r3, r4, r5, r6, gateway, db, none

MCOpOf == r1 :> "checkout" @@ r2 :> "checkout" @@ r3 :> "lookup"
       @@ r4 :> "dangling" @@ r5 :> "adrift" @@ r6 :> none
MCOps == {"checkout", "lookup", "dangling", "adrift", "query"}
MCNodeOf == [o \in MCOps |-> IF o = "query" THEN db ELSE gateway]

Query == [op |-> "query", node |-> db]
MCSyncDeps == [o \in MCOps |->
  CASE o = "checkout" -> <<Query, [op |-> "lookup", node |-> gateway], Query>>
    [] o = "dangling" -> <<Query, [op |-> none, node |-> db], Query>>
    [] o = "adrift"   -> <<Query, [op |-> "query", node |-> none]>>
    [] OTHER          -> << >>]

MCWorkers == [n \in {gateway, db} |-> 1]
MCQueueSize == [n \in {gateway, db} |-> 2]
MCConnections == [n \in {gateway, db} |-> 1]

-----------------------------------------------------------------------------

MCInit == KInit /\ RInit /\ BreakerInit /\ BulkheadInit /\ part \in Part

MCNext ==
  /\ UNCHANGED part
  /\ \/ part = "kernel" /\ KNext /\ UNCHANGED <<rvars, breakerVars, bulkheadVars>>
     \/ part = "runner" /\ RNext /\ UNCHANGED <<kvars, breakerVars, bulkheadVars>>
     \/ part = "breaker" /\ BreakerNext /\ UNCHANGED <<kvars, rvars, bulkheadVars>>
     \/ part = "bulkhead" /\ BulkheadNext /\ UNCHANGED <<kvars, rvars, breakerVars>>

MCSpec == MCInit /\ [][MCNext]_<<kvars, rvars, breakerVars, bulkheadVars, part>>
=============================================================================
