----------------------------- MODULE MCPlatform -----------------------------
(***************************************************************************)
(* Instances of leases that are taken in turns, of the topology algorithms *)
(* and routes, of the artifact store, the migrations, the capacity search, *)
(* the calibration and the metrics.  They share nothing: `part', chosen at *)
(* the start, says which one runs.                                         *)
(***************************************************************************)
EXTENDS Lease, TopologyApi, Storage, Migrate, CapacitySearch, Calibration, Metrics

VARIABLE part

Part == {"leases", "graphs", "validation", "operations", "storage", "migrations",
         "search", "calibration", "metrics"}

restVars == <<graph, topoVars, storageVars, migrateVars, searchVars, calibrationVars,
              metricsVars>>

\* Every caller of the lease manager has a holder id of its own.
MCHolderOf == [c \in Caller |-> c]

\* An operation that calls another node twice, there and back.
Env == [project |-> [tenant |-> "t", slug |-> "a"], slug |-> "a"]
CallFrom(from, to) == [env |-> Env, from |-> <<Env, from>>, to |-> <<Env, to>>, sync |-> TRUE]
MCCalls == <<CallFrom("a", "b"), CallFrom("b", "a")>>
MCEnds == {<<"a", "b">>, <<"b", "a">>}

\* Files with Unix, Windows and mixed line ends; an edited file; an older release.
Version(text, ends) == [text |-> text, ends |-> ends]
MCDeployment ==
  {<<Version("a", "lf"), Version("b", "lf")>>,
   <<Version("a", "crlf"), Version("b", "mixed")>>,
   <<Version("a", "lf"), Version("B", "lf"), Version("c", "lf")>>,
   <<Version("a", "lf"), Version("b", "lf"), Version("c", "lf")>>}

MCSlo == [p99 |-> 2, errors |-> 0]
\* Within the SLO, too slow, and fast because load is shed.
MCMeasured == {[p99 |-> 2, errors |-> 0], [p99 |-> 3, errors |-> 0], [p99 |-> 1, errors |-> 1]}
MCSearch == {[min |-> 1, max |-> 13, check |-> TRUE], [min |-> 1, max |-> 13, check |-> FALSE],
             [min |-> 0, max |-> 2, check |-> FALSE]}

\* In fifths: from 0.2 to 0.8, which rounding leaves; from 1 to 9, begun outside.
MCParameter == <<[min |-> 1, max |-> 4, start |-> 2], [min |-> 5, max |-> 45, start |-> 50]>>

MCInit ==
  /\ Init
  /\ GraphInit /\ TopoInit /\ StorageInit /\ MigrateInit /\ SearchInit /\ CalibrationInit
  /\ MetricsInit
  /\ part \in Part
  /\ part # "storage" => contents = Content
  /\ part # "migrations" => \A p \in Pod : files[p] = <<Version("a", "lf"), Version("b", "lf")>>
  /\ part # "search" => search = [min |-> 0, max |-> 2, check |-> FALSE]

\* The graphs on which requests are made: one project, nodes of which "b" is a
\* broker, synchronous edges; operations in one environment.
SmallTopology ==
  /\ \A p \in projects' : p.slug = "a"
  /\ \A i \in DOMAIN nodes' : nodes'[i].broker = (nodes'[i].id[2] = "b")
  /\ Len(edges') <= 2 /\ \A i \in DOMAIN edges' : edges'[i].sync
  /\ IF part = "operations"
     THEN check'.at = "idle" /\ (\A e \in environments' : e.slug = "a")
     ELSE \A r \in Requester : post'[r].at = "idle"

\* One more histogram is registered, which stays empty, and gauges are 1.
SmallRegistry ==
  /\ registered' \subseteq registered \cup {[kind |-> "histogram", name |-> "other"]}
  /\ \A k \in DOMAIN records' : k[1].name = "standard"
  /\ \A k \in DOMAIN values' : k[1].kind = "gauge" => values'[k] = 1

RestNext ==
  \/ /\ part = "graphs" /\ GraphNext
     /\ UNCHANGED <<topoVars, storageVars, migrateVars, searchVars, calibrationVars, metricsVars>>
  \/ /\ part \in {"validation", "operations"} /\ TopoNext /\ SmallTopology
     /\ UNCHANGED <<graph, storageVars, migrateVars, searchVars, calibrationVars, metricsVars>>
  \/ /\ part = "storage" /\ StorageNext
     /\ UNCHANGED <<graph, topoVars, migrateVars, searchVars, calibrationVars, metricsVars>>
  \/ /\ part = "migrations" /\ MigrateNext
     /\ UNCHANGED <<graph, topoVars, storageVars, searchVars, calibrationVars, metricsVars>>
  \/ /\ part = "search" /\ SearchNext
     /\ UNCHANGED <<graph, topoVars, storageVars, migrateVars, calibrationVars, metricsVars>>
  \/ /\ part = "calibration" /\ CalibrationNext
     /\ UNCHANGED <<graph, topoVars, storageVars, migrateVars, searchVars, metricsVars>>
  \/ /\ part = "metrics" /\ MetricsNext /\ SmallRegistry
     /\ UNCHANGED <<graph, topoVars, storageVars, migrateVars, searchVars, calibrationVars>>

MCNext ==
  /\ UNCHANGED part
  /\ \/ part = "leases" /\ Next /\ UNCHANGED restVars
     \/ RestNext /\ UNCHANGED vars

MCSpec == MCInit /\ [][MCNext]_<<vars, restVars, part>>
=============================================================================
