----------------------------- MODULE WorkerPool -----------------------------
(***************************************************************************)
(* WorkerPool of packages/load-orchestrator: the registry of load workers  *)
(* in Redis, which LoadWorker writes and LoadOrchestrator allocates from.  *)
(* A worker has a key with a time to live, which registering and every     *)
(* heartbeat set anew, and an entry in the set of active workers, which    *)
(* has none: getActiveWorkers removes the entries whose key it did not     *)
(* find.  MULTI makes the two writes of a command one step; between the    *)
(* commands of a call anything may happen.  What a worker executes is in   *)
(* module LoadRuns; here its status is any.                                *)
(***************************************************************************)
EXTENDS Naturals, FiniteSets, FiniteSetsExt

CONSTANTS Worker,
          Allocator        \* calls of allocateWorkers

VARIABLES
  life,       \* LoadWorker, from start() to the end of stop() or of its process
  registry,   \* the worker keys of Redis: the status in them, or "none"
  listed,     \* the set of active workers
  beat,       \* the heartbeat of a worker that is between GET and SET
  alloc       \* allocateWorkers, one call of each caller

poolVars == <<life, registry, listed, beat, alloc>>

WorkerStatus == {"IDLE", "BUSY"}

PoolTypeOK ==
  /\ life \in [Worker -> {"new", "up", "stopping", "leaving", "gone"}]
  /\ registry \in [Worker -> WorkerStatus \cup {"none"}]
  /\ beat \in [Worker -> WorkerStatus \cup {"none"}]
  /\ listed \subseteq Worker
  /\ \A c \in Allocator : alloc[c].active \subseteq Worker /\ alloc[c].idle \subseteq alloc[c].active

PoolInit ==
  /\ life = [w \in Worker |-> "new"]
  /\ registry = [w \in Worker |-> "none"]
  /\ listed = {}
  /\ beat = [w \in Worker |-> "none"]
  /\ alloc = [c \in Allocator |-> [at |-> "new", ids |-> {}, active |-> {}, idle |-> {},
                              answer |-> {}]]

-----------------------------------------------------------------------------
(* The worker's side: start and stop of LoadWorker call these              *)

Life(w, from, to) == life[w] = from /\ life' = [life EXCEPT ![w] = to]

Put(w, status) ==
  /\ registry' = [registry EXCEPT ![w] = status]
  /\ listed' = listed \cup {w}

RegisterWorker(w) ==
  /\ Life(w, "new", "up")
  /\ Put(w, "IDLE")
  /\ UNCHANGED <<beat, alloc>>

\* The status is that of the call; what GET finds adds only host and metadata.
HeartbeatGet(w, status) ==
  /\ life[w] = "up" /\ beat[w] = "none"
  /\ beat' = [beat EXCEPT ![w] = status]
  /\ UNCHANGED <<life, registry, listed, alloc>>

\* Mutant: a heartbeat does not enter the worker into the set again.
HeartbeatSetOnly(w) ==
  /\ beat[w] # "none"
  /\ registry' = [registry EXCEPT ![w] = beat[w]]
  /\ beat' = [beat EXCEPT ![w] = "none"]
  /\ UNCHANGED <<life, listed, alloc>>

HeartbeatSet(w) ==
  /\ beat[w] # "none"
  /\ Put(w, beat[w])
  /\ beat' = [beat EXCEPT ![w] = "none"]
  /\ UNCHANGED <<life, alloc>>

\* A command of the heartbeat fails: start() ignores it.
HeartbeatFails(w) ==
  /\ beat[w] # "none"
  /\ beat' = [beat EXCEPT ![w] = "none"]
  /\ UNCHANGED <<life, registry, listed, alloc>>

\* stop() ends the interval; a heartbeat may be under way.
Stop(w) == Life(w, "up", "stopping") /\ UNCHANGED <<registry, listed, beat, alloc>>

DeregisterWorker(w) ==
  /\ Life(w, "stopping", "leaving")
  /\ registry' = [registry EXCEPT ![w] = "none"]
  /\ listed' = listed \ {w}
  /\ UNCHANGED <<beat, alloc>>

\* close() after the consumer is disconnected, or the process dies.
Close(w) ==
  /\ life[w] # "new" /\ life' = [life EXCEPT ![w] = "gone"]
  /\ beat' = [beat EXCEPT ![w] = "none"]
  /\ UNCHANGED <<registry, listed, alloc>>

\* Redis: the time to live of a key is over.
Expire(w) ==
  /\ registry[w] # "none"
  /\ registry' = [registry EXCEPT ![w] = "none"]
  /\ UNCHANGED <<life, listed, beat, alloc>>

-----------------------------------------------------------------------------
(* getActiveWorkers and allocateWorkers                                    *)

SMembers(c) ==
  /\ alloc[c].at = "new"
  /\ alloc' = [alloc EXCEPT ![c].at = IF listed = {} THEN "read" ELSE "ids",
                            ![c].ids = listed]
  /\ UNCHANGED <<life, registry, listed, beat>>

MGet(c) ==
  /\ alloc[c].at = "ids"
  /\ LET active == {w \in alloc[c].ids : registry[w] # "none"}
     IN  alloc' = [alloc EXCEPT
           ![c].at = IF active = alloc[c].ids THEN "read" ELSE "expired",
           ![c].ids = @ \ active,
           ![c].active = active,
           ![c].idle = {w \in active : registry[w] = "IDLE"}]
  /\ UNCHANGED <<life, registry, listed, beat>>

SRem(c) ==
  /\ alloc[c].at = "expired"
  /\ listed' = listed \ alloc[c].ids
  /\ alloc' = [alloc EXCEPT ![c].at = "read"]
  /\ UNCHANGED <<life, registry, beat>>

\* slice(0, count): SMEMBERS has no order, so it takes any of them.
Slice(workers, count) ==
  IF Cardinality(workers) < count THEN {workers} ELSE kSubset(count, workers)

AllocateWorkers(c) ==
  /\ alloc[c].at = "read"
  /\ \E count \in 1..Cardinality(Worker) :
       LET from == IF Cardinality(alloc[c].idle) < count THEN alloc[c].active ELSE alloc[c].idle
       IN  \E workers \in Slice(from, count) :
             alloc' = [alloc EXCEPT ![c].at = "done", ![c].answer = workers]
  /\ UNCHANGED <<life, registry, listed, beat>>

-----------------------------------------------------------------------------
PoolNext ==
  \/ \E w \in Worker :
       \/ RegisterWorker(w) \/ HeartbeatSet(w) \/ HeartbeatFails(w) \/ Stop(w)
       \/ DeregisterWorker(w) \/ Close(w) \/ Expire(w)
       \/ \E status \in WorkerStatus : HeartbeatGet(w, status)
  \/ \E c \in Allocator : SMembers(c) \/ MGet(c) \/ SRem(c) \/ AllocateWorkers(c)

\* Heartbeats come every three seconds and do not fail for ever; the key of a
\* worker that has gone expires.
PoolFairness == \A w \in Worker :
  /\ WF_poolVars(\E status \in WorkerStatus : HeartbeatGet(w, status))
  /\ SF_poolVars(HeartbeatSet(w))
  /\ WF_poolVars(life[w] = "gone" /\ Expire(w))

PoolSpec == PoolInit /\ [][PoolNext]_poolVars /\ PoolFairness

-----------------------------------------------------------------------------
(* Properties                                                              *)

\* The registry heals: a worker that stays up is listed again and again, however
\* often its key expires or a getActiveWorkers with an old answer removes it; and
\* of a worker that has gone no registration is left for ever, not even one that
\* a heartbeat wrote back after deregisterWorker.
RegistryFollows ==
  \A w \in Worker :
    /\ <>[](life[w] = "up") => []<>(registry[w] # "none" /\ w \in listed)
    /\ <>[](life[w] = "gone") => <>[](registry[w] = "none")
=============================================================================
