----------------------------- MODULE SimRunner -----------------------------
(***************************************************************************)
(* SimulationRunner of packages/simulation-engine with its thread pools,   *)
(* connection pools and CPUs.  Each event handler is one action.           *)
(*                                                                         *)
(* Which of the scheduled events comes next depends on latencies and on    *)
(* the load; here it may be any of them, so what is shown holds for every  *)
(* choice of latencies.  Asynchronous dependencies do nothing when they    *)
(* complete and are left out.  run() may stop at its time limit, at any    *)
(* point: nothing need happen.                                             *)
(***************************************************************************)
EXTENDS Integers, Sequences, FiniteSets

CONSTANTS
  Request, OpOf,       \* the arrivals, and the operation each one asks for
  Op, NodeOf,          \* the operations, and the node each one runs on
  SyncDeps,            \* per operation: its non-ASYNC dependencies by callOrder
  Node,
  Workers, QueueSize,  \* per node: threadPoolSize, threadPoolQueueCapacity
  Connections,         \* per node: connectionPoolSize
  MaxWaiters,          \* of every connection pool (100 in the code)
  Unknown              \* an operation or node that is not configured

Dependency == [op : Op \cup {Unknown}, node : Node \cup {Unknown}]

ASSUME RunnerAssumption ==
  /\ IsFiniteSet(Request)
  /\ Unknown \notin Op \cup Node
  /\ OpOf \in [Request -> Op \cup {Unknown}]
  /\ NodeOf \in [Op -> Node \cup {Unknown}]
  /\ SyncDeps \in [Op -> Seq(Dependency)]
  /\ Workers \in [Node -> Nat \ {0}]
  /\ QueueSize \in [Node -> Nat]
  /\ Connections \in [Node -> Nat \ {0}]
  /\ MaxWaiters \in Nat

VARIABLES
  stage,      \* of each request: see Stage
  status,     \* its status field
  remaining,  \* its pendingDependencies
  calls,      \* the DEP_COMPLETE events in the queue: <<request, dependency>>
  threads,    \* per node: the thread pool
  conns,      \* per node: the connection pool
  cpu,        \* per node: activeTasks
  arrivals, successes, failures,
  finishes    \* history: how often each request was finished

rvars == <<stage, status, remaining, calls, threads, conns, cpu, arrivals,
           successes, failures, finishes>>

\* scheduled: its ARRIVAL is in the queue; local: its LOCAL_OP_COMPLETE is;
\* called: that is over, and its dependencies have been called, if any.
Stage == {"scheduled", "refused", "local", "called"}

\* A pool: tasks that have a slot, tasks that wait for one, and the counters
\* totalExecuted or totalAcquisitions, and totalRejected or totalExhausted.
Pool == [active : Nat, waiting : Nat, started : Nat, refused : Nat]
EmptyPool == [active |-> 0, waiting |-> 0, started |-> 0, refused |-> 0]

RTypeOK ==
  /\ stage \in [Request -> Stage]
  /\ status \in [Request -> {"RUNNING", "SUCCESS", "FAILED"}]
  /\ remaining \in [Request -> Nat]
  /\ calls \subseteq Request \X (Nat \ {0})
  /\ threads \in [Node -> Pool]
  /\ conns \in [Node -> Pool]
  /\ cpu \in [Node -> Nat]
  /\ arrivals \in Nat /\ successes \in Nat /\ failures \in Nat
  /\ finishes \in [Request -> Nat]

RInit ==
  /\ stage = [r \in Request |-> "scheduled"]
  /\ status = [r \in Request |-> "RUNNING"]
  /\ remaining = [r \in Request |-> 0]
  /\ calls = {}
  /\ threads = [n \in Node |-> EmptyPool]
  /\ conns = [n \in Node |-> EmptyPool]
  /\ cpu = [n \in Node |-> 0]
  /\ arrivals = 0 /\ successes = 0 /\ failures = 0
  /\ finishes = [r \in Request |-> 0]

-----------------------------------------------------------------------------
(* The resources.                                                          *)

\* How many more tasks a pool takes.
Room(p, slots, places) == (slots - p.active) + (places - p.waiting)

\* The pool after k calls of tryAcquire that were not refused: slots first.
Taken(p, slots, k) ==
  LET direct == IF k <= slots - p.active THEN k ELSE slots - p.active
  IN  [active  |-> p.active + direct,
       waiting |-> p.waiting + (k - direct),
       started |-> p.started + direct,
       refused |-> p.refused]

Refused(p) == [p EXCEPT !.refused = @ + 1]

\* Mutant: a slot is given back although somebody waits for one.
ReleasedActiveFirst(p) ==
  IF p.active > 0 THEN [p EXCEPT !.active = @ - 1]
  ELSE IF p.waiting > 0 THEN [p EXCEPT !.waiting = @ - 1, !.started = @ + 1]
  ELSE p

\* Mutant: a slot for which nobody waits is kept.
ReleasedNever(p) ==
  IF p.waiting > 0 THEN [p EXCEPT !.waiting = @ - 1, !.started = @ + 1] ELSE p

\* release: the slot goes to a waiting task if there is one.
Released(p) ==
  IF p.waiting > 0 THEN [p EXCEPT !.waiting = @ - 1, !.started = @ + 1]
  ELSE IF p.active > 0 THEN [p EXCEPT !.active = @ - 1]
  ELSE p

-----------------------------------------------------------------------------
(* ARRIVAL                                                                 *)

Configured(r) == OpOf[r] \in Op /\ NodeOf[OpOf[r]] \in Node
Home(r) == NodeOf[OpOf[r]]
HasThread(r) == Room(threads[Home(r)], Workers[Home(r)], QueueSize[Home(r)]) > 0

Refuse(r) ==
  /\ stage[r] = "scheduled"
  /\ IF Configured(r)
       THEN /\ ~HasThread(r)
            /\ threads' = [threads EXCEPT ![Home(r)] = Refused(@)]
       ELSE UNCHANGED threads
  /\ stage' = [stage EXCEPT ![r] = "refused"]
  /\ arrivals' = arrivals + 1 /\ failures' = failures + 1
  /\ UNCHANGED <<status, remaining, calls, conns, cpu, successes, finishes>>

\* A request that is queued for a thread goes on like one that has got it.
Admit(r) ==
  /\ stage[r] = "scheduled"
  /\ Configured(r)
  /\ HasThread(r)
  /\ threads' = [threads EXCEPT ![Home(r)] = Taken(@, Workers[Home(r)], 1)]
  /\ cpu' = [cpu EXCEPT ![Home(r)] = @ + 1]
  /\ stage' = [stage EXCEPT ![r] = "local"]
  /\ arrivals' = arrivals + 1
  /\ UNCHANGED <<status, remaining, calls, conns, successes, failures, finishes>>

-----------------------------------------------------------------------------
(* finishRequest, with the status the request has got by now.               *)

Finish(r, result) ==
  /\ threads' = [threads EXCEPT ![Home(r)] = Released(@)]
  /\ finishes' = [finishes EXCEPT ![r] = @ + 1]
  /\ IF result = "RUNNING"
       THEN /\ status' = [status EXCEPT ![r] = "SUCCESS"]
            /\ successes' = successes + 1 /\ UNCHANGED failures
       ELSE /\ status' = [status EXCEPT ![r] = result]
            /\ failures' = failures + 1 /\ UNCHANGED successes

NotFinished == UNCHANGED <<threads, finishes, status, successes, failures>>

-----------------------------------------------------------------------------
(* LOCAL_OP_COMPLETE                                                       *)

CallsTo(deps, ks, n) == {k \in ks : deps[k].node = n}

\* The k-th dependency cannot be called, all before it having been.
Fails(deps, k) ==
  \/ deps[k].op = Unknown
  \/ deps[k].node = Unknown
  \/ LET n == deps[k].node
     IN  Cardinality(CallsTo(deps, 1..(k - 1), n))
           >= Room(conns[n], Connections[n], MaxWaiters)

\* The dependencies before the first that cannot be called.
Called(deps) == {k \in DOMAIN deps : \A j \in 1..k : ~Fails(deps, j)}

\* The first of the others is refused by the pool of node n.
RefusedBy(deps, n) ==
  \E k \in DOMAIN deps \ Called(deps) :
    /\ 1..(k - 1) \subseteq Called(deps)
    /\ deps[k].op # Unknown /\ deps[k].node = n

ConnsAfter(deps) ==
  [n \in Node |->
     LET p == Taken(conns[n], Connections[n],
                    Cardinality(CallsTo(deps, Called(deps), n)))
     IN  IF RefusedBy(deps, n) THEN Refused(p) ELSE p]

\* Mutant: those are counted that are called.
CountedAsCalled(deps) == Cardinality(Called(deps))

\* pendingDependencies, whether they can be called or not.
Counted(deps) == Len(deps)

\* A failing dependency ends the request at once; those called before it go on.
LocalComplete(r) ==
  /\ stage[r] = "local"
  /\ stage' = [stage EXCEPT ![r] = "called"]
  /\ cpu' = [cpu EXCEPT ![Home(r)] = IF @ > 0 THEN @ - 1 ELSE @]
  /\ LET deps == SyncDeps[OpOf[r]]
     IN  /\ remaining' = [remaining EXCEPT ![r] = Counted(deps)]
         /\ calls' = calls \cup ({r} \X Called(deps))
         /\ conns' = ConnsAfter(deps)
         /\ IF Called(deps) # DOMAIN deps THEN Finish(r, "FAILED")
            ELSE IF deps = << >> THEN Finish(r, status[r])
            ELSE NotFinished
  /\ UNCHANGED arrivals

-----------------------------------------------------------------------------
(* DEP_COMPLETE of the k-th dependency of a request.                       *)

\* Mutant: the first answer will do.
NothingToCome(r) == 0

StillToCome(r) == remaining[r] - 1

DepComplete(r, k) ==
  /\ <<r, k>> \in calls
  /\ calls' = calls \ {<<r, k>>}
  /\ remaining' = [remaining EXCEPT ![r] = StillToCome(r)]
  /\ LET n == SyncDeps[OpOf[r]][k].node
     IN  conns' = [conns EXCEPT ![n] = Released(@)]
  /\ IF StillToCome(r) <= 0 THEN Finish(r, status[r]) ELSE NotFinished
  /\ UNCHANGED <<stage, cpu, arrivals>>

RNext ==
  \/ \E r \in Request : Refuse(r) \/ Admit(r) \/ LocalComplete(r)
  \/ \E c \in calls : DepComplete(c[1], c[2])

RSpec == RInit /\ [][RNext]_rvars

-----------------------------------------------------------------------------
(* Properties.                                                             *)

InFlight == {r \in Request : stage[r] \in {"local", "called"} /\ finishes[r] = 0}
At(n) == {r \in InFlight : Home(r) = n}
LocalAt(n) == {r \in At(n) : stage[r] = "local"}
CallsAt(n) == {c \in calls : SyncDeps[OpOf[c[1]]][c[2]].node = n}

\* finishRequest is called once at most for a request, although a failing
\* dependency finishes it while answers of others are still to come.
FinishedOnce == \A r \in Request : finishes[r] <= 1

\* A thread is held, or waited for, by each request in flight and by nothing
\* else, a connection by each call that has not been answered, a CPU by each
\* request in its local part; none leaks on the paths that fail.
ResourcesAreAccounted ==
  \A n \in Node :
    /\ threads[n].active + threads[n].waiting = Cardinality(At(n))
    /\ conns[n].active + conns[n].waiting = Cardinality(CallsAt(n))
    /\ cpu[n] = Cardinality(LocalAt(n))

\* A pool never exceeds its limits, and nobody waits while it has a free slot.
NoIdleSlot ==
  \A n \in Node :
    /\ threads[n].active <= Workers[n] /\ conns[n].active <= Connections[n]
    /\ threads[n].waiting <= QueueSize[n] /\ conns[n].waiting <= MaxWaiters
    /\ threads[n].waiting > 0 => threads[n].active = Workers[n]
    /\ conns[n].waiting > 0 => conns[n].active = Connections[n]

\* The counters of the result: every arrival has succeeded, has failed or is in
\* flight.
ArrivalsAddUp == arrivals = successes + failures + Cardinality(InFlight)

\* A request succeeds only when all its synchronous dependencies have answered.
SuccessIsAnswered ==
  \A r \in Request : status[r] = "SUCCESS" => \A c \in calls : c[1] # r

\* The counters that run() returns tell what became of each request: no arrival is
\* lost or counted twice, and none is a success before its dependencies have answered.
RequestsAddUp == ArrivalsAddUp /\ SuccessIsAnswered
=============================================================================
