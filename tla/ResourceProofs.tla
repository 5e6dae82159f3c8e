--------------------------- MODULE ResourceProofs ---------------------------
(***************************************************************************)
(* Theorems about what a request holds or is let in by: the pools and      *)
(* queues of a simulation run, for every finite set of arrivals, every     *)
(* configuration and every order of the scheduled events; the circuit      *)
(* breaker and the bulkhead, for all thresholds and limits, any number of  *)
(* calls and tasks, and results that come in at any time and in any order. *)
(***************************************************************************)
EXTENDS CircuitBreaker, Bulkhead, SimRunner, FiniteSetTheorems, WellFoundedInduction, TLAPS

-----------------------------------------------------------------------------
(* Sets of natural numbers.                                                *)

\* A bounded set of natural numbers that is not empty has a largest element.
LEMMA LargestElement ==
  ASSUME NEW T \in SUBSET Nat, NEW b \in Nat, T # {}, \A x \in T : x <= b
  PROVE  \E j \in T : \A x \in T : x <= j
<1> DEFINE D == {d \in Nat : b - d \in T}
<1>1. \A x \in T : b - x \in D
  <2> TAKE x \in T
  <2>1. b - x \in Nat /\ b - (b - x) = x
    OBVIOUS
  <2>2. QED
    BY <2>1
<1>2. D # {}
  BY <1>1
<1>3. PICK d \in D : \A e \in D : ~(<<e, d>> \in OpToRel(<, Nat))
  BY <1>2, NatLessThanWellFounded, WFMin
<1>4. \A e \in D : ~(e < d)
  BY <1>3 DEF OpToRel
<1>5. QED
  BY <1>1, <1>4

-----------------------------------------------------------------------------
(* Pools.                                                                  *)

\* A pool within its limits: a task waits only when every slot is in use.
Within(p, slots, places) ==
  /\ p.active <= slots /\ p.waiting <= places
  /\ p.waiting > 0 => p.active = slots

\* Taking what there is room for keeps a pool within its limits.
LEMMA TakenWithin ==
  ASSUME NEW p \in Pool, NEW slots \in Nat, NEW places \in Nat, NEW k \in Nat,
         Within(p, slots, places), k <= Room(p, slots, places)
  PROVE  /\ Taken(p, slots, k) \in Pool
         /\ Within(Taken(p, slots, k), slots, places)
         /\ Taken(p, slots, k).active + Taken(p, slots, k).waiting
              = p.active + p.waiting + k
<1> DEFINE direct == IF k <= slots - p.active THEN k ELSE slots - p.active
           q == Taken(p, slots, k)
<1>1. /\ p.active \in Nat /\ p.waiting \in Nat /\ p.started \in Nat
      /\ p.refused \in Nat
  BY DEF Pool
<1>2. direct \in Nat /\ k - direct \in Nat
  BY <1>1 DEF Within
<1>3. q = [active |-> p.active + direct, waiting |-> p.waiting + (k - direct),
           started |-> p.started + direct, refused |-> p.refused]
  BY DEF Taken
<1>4. q \in Pool /\ q.active = p.active + direct
      /\ q.waiting = p.waiting + (k - direct)
  <2> HIDE DEF q, direct
  <2>1. QED
    BY <1>1, <1>2, <1>3 DEF Pool
<1>5. QED
  BY <1>1, <1>2, <1>4 DEF Within, Room

\* A refusal is only counted.
LEMMA RefusedWithin ==
  ASSUME NEW p \in Pool
  PROVE  /\ Refused(p) \in Pool
         /\ Refused(p).active = p.active /\ Refused(p).waiting = p.waiting
<1>1. Refused(p) = [active |-> p.active, waiting |-> p.waiting,
                    started |-> p.started, refused |-> p.refused + 1]
  BY DEF Refused, Pool
<1>2. p.active \in Nat /\ p.waiting \in Nat /\ p.started \in Nat
      /\ p.refused \in Nat
  BY DEF Pool
<1>3. QED
  BY <1>1, <1>2 DEF Pool

\* A release gives the slot to a waiting task or frees it.
LEMMA ReleasedWithin ==
  ASSUME NEW p \in Pool, NEW slots \in Nat \ {0}, NEW places \in Nat,
         Within(p, slots, places)
  PROVE  /\ Released(p) \in Pool
         /\ Within(Released(p), slots, places)
         /\ p.active + p.waiting > 0 =>
              Released(p).active + Released(p).waiting = p.active + p.waiting - 1
<1>1. p.active \in Nat /\ p.waiting \in Nat /\ p.started \in Nat
      /\ p.refused \in Nat
  BY DEF Pool
<1>2. CASE p.waiting > 0
  <2>1. Released(p) = [active |-> p.active, waiting |-> p.waiting - 1,
                       started |-> p.started + 1, refused |-> p.refused]
    BY <1>2 DEF Released, Pool
  <2>2. QED
    BY <1>1, <1>2, <2>1 DEF Within, Pool
<1>3. CASE ~(p.waiting > 0) /\ p.active > 0
  <2>1. Released(p) = [active |-> p.active - 1, waiting |-> p.waiting,
                       started |-> p.started, refused |-> p.refused]
    BY <1>3 DEF Released, Pool
  <2>2. QED
    BY <1>1, <1>3, <2>1 DEF Within, Pool
<1>4. CASE ~(p.waiting > 0) /\ ~(p.active > 0)
  BY <1>1, <1>4 DEF Released
<1>5. QED
  BY <1>2, <1>3, <1>4

-----------------------------------------------------------------------------
(* Calls.                                                                  *)

\* The dependencies that can be called, in all and on one node, are finitely many.
LEMMA CalledIsFinite ==
  ASSUME NEW deps \in Seq(Dependency)
  PROVE  /\ Called(deps) \subseteq 1..Len(deps)
         /\ IsFiniteSet(Called(deps))
         /\ \A n : /\ IsFiniteSet(CallsTo(deps, Called(deps), n))
                   /\ Cardinality(CallsTo(deps, Called(deps), n)) \in Nat
<1>1. Called(deps) \in SUBSET (1..Len(deps))
  BY DEF Called
<1>2. IsFiniteSet(1..Len(deps))
  BY FS_Interval
<1>3. IsFiniteSet(Called(deps))
  BY <1>1, <1>2, FS_Subset
<1>4. ASSUME NEW n
      PROVE  IsFiniteSet(CallsTo(deps, Called(deps), n))
  BY <1>3, FS_Subset DEF CallsTo
<1>5. QED
  BY <1>1, <1>3, <1>4, FS_CardinalityType

\* A node is not called more often than its connection pool has room for.
LEMMA CalledHasRoom ==
  ASSUME NEW deps \in Seq(Dependency), NEW n \in Node,
         Room(conns[n], Connections[n], MaxWaiters) \in Nat
  PROVE  Cardinality(CallsTo(deps, Called(deps), n))
           <= Room(conns[n], Connections[n], MaxWaiters)
<1> DEFINE T == CallsTo(deps, Called(deps), n)
           room == Room(conns[n], Connections[n], MaxWaiters)
<1>1. CASE T = {}
  BY <1>1, FS_EmptySet
<1>2. CASE T # {}
  <2>1. T \in SUBSET Nat /\ Len(deps) \in Nat /\ \A x \in T : x <= Len(deps)
    BY DEF CallsTo, Called
  <2>2. \E j \in T : \A x \in T : x <= j
    <3> HIDE DEF T
    <3>1. QED
      BY <1>2, <2>1, LargestElement
  <2>. PICK j \in T : \A x \in T : x <= j
    BY <2>2
  <2>3. j \in 1..Len(deps) /\ deps[j].node = n /\ ~Fails(deps, j)
    BY DEF CallsTo, Called
  <2> DEFINE B == CallsTo(deps, 1..(j - 1), n)
  <2>4. IsFiniteSet(B)
    <3>1. B \in SUBSET (1..(j - 1))
      BY DEF CallsTo
    <3>2. 1 \in Int /\ j - 1 \in Int
      BY <2>3
    <3>3. IsFiniteSet(1..(j - 1))
      BY <3>2, FS_Interval
    <3>4. QED
      BY <3>1, <3>3, FS_Subset
  <2>5. Cardinality(B) \in Nat
    BY <2>4, FS_CardinalityType
  <2>6. Cardinality(B) < room
    BY <2>3, <2>5 DEF Fails
  <2>7. T \in SUBSET (B \cup {j})
    BY <2>1, <2>3 DEF CallsTo, Called
  <2>8. IsFiniteSet(B \cup {j}) /\ Cardinality(B \cup {j}) <= Cardinality(B) + 1
    <3> HIDE DEF B
    <3>1. /\ IsFiniteSet(B \cup {j})
          /\ Cardinality(B \cup {j}) = IF j \in B THEN Cardinality(B)
                                                 ELSE Cardinality(B) + 1
      BY <2>4, FS_AddElement
    <3>2. QED
      BY <2>5, <3>1
  <2>9. Cardinality(T) <= Cardinality(B \cup {j})
    BY <2>7, <2>8, FS_Subset
  <2>10. Cardinality(T) \in Nat /\ Cardinality(B \cup {j}) \in Nat
    BY <2>8, CalledIsFinite, FS_CardinalityType
  <2>11. QED
    BY <2>5, <2>6, <2>8, <2>9, <2>10
<1>3. QED
  BY <1>1, <1>2

-----------------------------------------------------------------------------
(* Types and limits.  That a request's count of dependencies stays natural *)
(* depends on how it is finished, and comes later.                         *)

RShape ==
  /\ stage \in [Request -> Stage]
  /\ status \in [Request -> {"RUNNING", "SUCCESS", "FAILED"}]
  /\ remaining \in [Request -> Int]
  /\ calls \subseteq Request \X (Nat \ {0})
  /\ threads \in [Node -> Pool]
  /\ conns \in [Node -> Pool]
  /\ cpu \in [Node -> Nat]
  /\ arrivals \in Nat /\ successes \in Nat /\ failures \in Nat
  /\ finishes \in [Request -> Nat]

ThreadLimit == \A n \in Node : Within(threads[n], Workers[n], QueueSize[n])
ConnLimit   == \A n \in Node : Within(conns[n], Connections[n], MaxWaiters)

\* Only a request whose operation and node are configured is admitted.
Known == \A r \in Request : stage[r] \in {"local", "called"} => Configured(r)

\* The dependencies of a request that was admitted are a list of dependencies.
LEMMA DependenciesOf ==
  ASSUME NEW r \in Request, Configured(r)
  PROVE  /\ Home(r) \in Node
         /\ SyncDeps[OpOf[r]] \in Seq(Dependency)
BY RunnerAssumption DEF Configured, Home

\* Giving the thread back keeps types and limits.
LEMMA FinishShape ==
  ASSUME RShape, ThreadLimit, NEW r \in Request, Configured(r),
         NEW res \in {"RUNNING", "SUCCESS", "FAILED"}, Finish(r, res)
  PROVE  /\ threads' \in [Node -> Pool] /\ ThreadLimit'
         /\ status' \in [Request -> {"RUNNING", "SUCCESS", "FAILED"}]
         /\ successes' \in Nat /\ failures' \in Nat
         /\ finishes' \in [Request -> Nat]
<1>1. Home(r) \in Node
  BY DependenciesOf
<1>2. /\ Released(threads[Home(r)]) \in Pool
      /\ Within(Released(threads[Home(r)]), Workers[Home(r)], QueueSize[Home(r)])
  BY <1>1, ReleasedWithin, RunnerAssumption DEF RShape, ThreadLimit
<1>3. threads' = [threads EXCEPT ![Home(r)] = Released(threads[Home(r)])]
  BY DEF Finish
<1>4. threads' \in [Node -> Pool] /\ ThreadLimit'
  BY <1>1, <1>2, <1>3 DEF RShape, ThreadLimit
<1>5. finishes' \in [Request -> Nat]
  BY DEF Finish, RShape
<1>6. CASE res = "RUNNING"
  BY <1>4, <1>5, <1>6 DEF Finish, RShape
<1>7. CASE res # "RUNNING"
  BY <1>4, <1>5, <1>7 DEF Finish, RShape
<1>8. QED
  BY <1>6, <1>7

\* So does calling the dependencies of a request.
LEMMA ConnsAfterShape ==
  ASSUME RShape, ConnLimit, NEW deps \in Seq(Dependency)
  PROVE  /\ ConnsAfter(deps) \in [Node -> Pool]
         /\ \A n \in Node :
              /\ Within(ConnsAfter(deps)[n], Connections[n], MaxWaiters)
              /\ ConnsAfter(deps)[n].active + ConnsAfter(deps)[n].waiting
                   = conns[n].active + conns[n].waiting
                       + Cardinality(CallsTo(deps, Called(deps), n))
<1>1. SUFFICES ASSUME NEW n \in Node
               PROVE  LET q == ConnsAfter(deps)[n]
                      IN  /\ q \in Pool
                          /\ Within(q, Connections[n], MaxWaiters)
                          /\ q.active + q.waiting
                               = conns[n].active + conns[n].waiting
                                  + Cardinality(CallsTo(deps, Called(deps), n))
  BY DEF ConnsAfter
<1> DEFINE k == Cardinality(CallsTo(deps, Called(deps), n))
           t == Taken(conns[n], Connections[n], k)
<1>2. k \in Nat
  BY CalledIsFinite
<1>3. /\ conns[n] \in Pool /\ Connections[n] \in Nat /\ MaxWaiters \in Nat
      /\ Within(conns[n], Connections[n], MaxWaiters)
  BY RunnerAssumption DEF RShape, ConnLimit
<1>4. Room(conns[n], Connections[n], MaxWaiters) \in Nat
  BY <1>3 DEF Room, Within, Pool
<1>5. k <= Room(conns[n], Connections[n], MaxWaiters)
  BY <1>4, CalledHasRoom
<1>6. /\ t \in Pool /\ Within(t, Connections[n], MaxWaiters)
      /\ t.active + t.waiting = conns[n].active + conns[n].waiting + k
  <2> HIDE DEF k
  <2>1. QED
    BY <1>2, <1>3, <1>5, TakenWithin
<1>7. ConnsAfter(deps)[n] = IF RefusedBy(deps, n) THEN Refused(t) ELSE t
  BY DEF ConnsAfter
<1>8. /\ Refused(t) \in Pool
      /\ Refused(t).active = t.active /\ Refused(t).waiting = t.waiting
  <2> HIDE DEF t
  <2>1. QED
    BY <1>6, RefusedWithin
<1>9. QED
  <2> HIDE DEF t, k
  <2>1. QED
    BY <1>6, <1>7, <1>8 DEF Within, k

LEMMA RefuseShape ==
  ASSUME RShape, ThreadLimit, ConnLimit, Known, NEW r \in Request, Refuse(r)
  PROVE  RShape' /\ ThreadLimit' /\ ConnLimit' /\ Known'
<1>1. threads' \in [Node -> Pool] /\ ThreadLimit'
  <2>1. CASE Configured(r)
    <3>1. Home(r) \in Node
      BY <2>1, DependenciesOf
    <3>2. threads[Home(r)] \in Pool
      BY <3>1 DEF RShape
    <3>3. /\ Refused(threads[Home(r)]) \in Pool
          /\ Refused(threads[Home(r)]).active = threads[Home(r)].active
          /\ Refused(threads[Home(r)]).waiting = threads[Home(r)].waiting
      BY <3>2, RefusedWithin
    <3>4. threads' = [threads EXCEPT ![Home(r)] = Refused(threads[Home(r)])]
      BY <2>1 DEF Refuse
    <3>5. QED
      BY <3>1, <3>3, <3>4 DEF RShape, ThreadLimit, Within
  <2>2. CASE ~Configured(r)
    BY <2>2 DEF Refuse, RShape, ThreadLimit
  <2>3. QED
    BY <2>1, <2>2
<1>2. ConnLimit'
  BY DEF Refuse, ConnLimit
<1>3. Known'
  BY DEF Refuse, Known, Configured, RShape
<1>4. RShape'
  BY <1>1 DEF Refuse, RShape, Stage
<1>5. QED
  BY <1>1, <1>2, <1>3, <1>4

LEMMA AdmitShape ==
  ASSUME RShape, ThreadLimit, ConnLimit, Known, NEW r \in Request, Admit(r)
  PROVE  /\ RShape' /\ ThreadLimit' /\ ConnLimit' /\ Known'
         /\ Home(r) \in Node
         /\ threads' = [threads EXCEPT ![Home(r)] = threads'[Home(r)]]
         /\ threads'[Home(r)].active + threads'[Home(r)].waiting
              = threads[Home(r)].active + threads[Home(r)].waiting + 1
<1> DEFINE n == Home(r)
           t == Taken(threads[n], Workers[n], 1)
<1>1. n \in Node
  BY DependenciesOf DEF Admit
<1>2. /\ threads[n] \in Pool /\ Within(threads[n], Workers[n], QueueSize[n])
      /\ Workers[n] \in Nat /\ QueueSize[n] \in Nat
  BY <1>1, RunnerAssumption DEF RShape, ThreadLimit
<1>3. 1 <= Room(threads[n], Workers[n], QueueSize[n])
  BY <1>2 DEF Admit, HasThread, Room, Pool
<1>4. /\ t \in Pool /\ Within(t, Workers[n], QueueSize[n])
      /\ t.active + t.waiting = threads[n].active + threads[n].waiting + 1
  <2> HIDE DEF n
  <2>1. QED
    BY <1>2, <1>3, TakenWithin
<1>5. threads' = [threads EXCEPT ![n] = t]
  BY DEF Admit
<1>6. threads' \in [Node -> Pool] /\ ThreadLimit' /\ threads'[n] = t
  <2> HIDE DEF n, t
  <2>1. QED
    BY <1>1, <1>4, <1>5 DEF RShape, ThreadLimit
<1>7. ConnLimit'
  BY DEF Admit, ConnLimit
<1>8. Known'
  BY DEF Admit, Known, Configured, RShape
<1>9. RShape'
  BY <1>1, <1>6 DEF Admit, RShape, Stage
<1>10. QED
  BY <1>1, <1>4, <1>5, <1>6, <1>7, <1>8, <1>9

LEMMA LocalCompleteShape ==
  ASSUME RShape, ThreadLimit, ConnLimit, Known, NEW r \in Request,
         LocalComplete(r)
  PROVE  RShape' /\ ThreadLimit' /\ ConnLimit' /\ Known'
<1> DEFINE deps == SyncDeps[OpOf[r]]
<1>1. Configured(r)
  BY DEF LocalComplete, Known
<1>2. deps \in Seq(Dependency) /\ Home(r) \in Node
  BY <1>1, DependenciesOf
<1>3. conns' \in [Node -> Pool] /\ ConnLimit'
  BY <1>2, ConnsAfterShape DEF LocalComplete, ConnLimit
<1>4. /\ threads' \in [Node -> Pool] /\ ThreadLimit'
      /\ status' \in [Request -> {"RUNNING", "SUCCESS", "FAILED"}]
      /\ successes' \in Nat /\ failures' \in Nat
      /\ finishes' \in [Request -> Nat]
  <2>1. CASE Finish(r, "FAILED")
    BY <1>1, <2>1, FinishShape
  <2>2. CASE Finish(r, status[r])
    <3>1. status[r] \in {"RUNNING", "SUCCESS", "FAILED"}
      BY DEF RShape
    <3>2. QED
      BY <1>1, <2>2, <3>1, FinishShape
  <2>3. CASE NotFinished
    BY <2>3 DEF NotFinished, RShape, ThreadLimit
  <2>4. QED
    BY <2>1, <2>2, <2>3 DEF LocalComplete
<1>5. stage' = [stage EXCEPT ![r] = "called"] /\ Known'
  BY <1>1 DEF LocalComplete, Known, Configured, RShape
<1>6. remaining' \in [Request -> Int]
  BY <1>2 DEF LocalComplete, RShape, Counted
<1>7. calls' \subseteq Request \X (Nat \ {0})
  <2>1. Called(deps) \subseteq Nat \ {0}
    BY <1>2, CalledIsFinite
  <2>2. QED
    BY <2>1 DEF LocalComplete, RShape
<1>8. cpu' \in [Node -> Nat]
  BY <1>2 DEF LocalComplete, RShape
<1>9. RShape'
  BY <1>3, <1>4, <1>5, <1>6, <1>7, <1>8 DEF RShape, LocalComplete, Stage
<1>10. QED
  BY <1>3, <1>4, <1>5, <1>9

LEMMA DepCompleteShape ==
  ASSUME RShape, ThreadLimit, ConnLimit, Known, NEW r \in Request, NEW k,
         stage[r] = "called", k \in DOMAIN SyncDeps[OpOf[r]], DepComplete(r, k)
  PROVE  RShape' /\ ThreadLimit' /\ ConnLimit' /\ Known'
<1> DEFINE n == SyncDeps[OpOf[r]][k].node
<1>1. Configured(r)
  BY DEF Known
<1>2. conns' \in [Node -> Pool] /\ ConnLimit'
  <2>1. conns' = [conns EXCEPT ![n] = Released(conns[n])]
    BY DEF DepComplete
  <2>2. CASE n \in Node
    <3>1. /\ Released(conns[n]) \in Pool
          /\ Within(Released(conns[n]), Connections[n], MaxWaiters)
      BY <2>2, ReleasedWithin, RunnerAssumption DEF RShape, ConnLimit
    <3>2. QED
      BY <2>1, <2>2, <3>1 DEF RShape, ConnLimit
  <2>3. CASE n \notin Node
    BY <2>1, <2>3 DEF RShape, ConnLimit
  <2>4. QED
    BY <2>2, <2>3
<1>3. /\ threads' \in [Node -> Pool] /\ ThreadLimit'
      /\ status' \in [Request -> {"RUNNING", "SUCCESS", "FAILED"}]
      /\ successes' \in Nat /\ failures' \in Nat
      /\ finishes' \in [Request -> Nat]
  <2>1. CASE Finish(r, status[r])
    <3>1. status[r] \in {"RUNNING", "SUCCESS", "FAILED"}
      BY DEF RShape
    <3>2. QED
      BY <1>1, <2>1, <3>1, FinishShape
  <2>2. CASE NotFinished
    BY <2>2 DEF NotFinished, RShape, ThreadLimit
  <2>3. QED
    BY <2>1, <2>2 DEF DepComplete
<1>4. Known'
  BY DEF DepComplete, Known, Configured
<1>5. remaining' \in [Request -> Int]
  BY DEF DepComplete, StillToCome, RShape
<1>6. RShape'
  BY <1>2, <1>3, <1>5 DEF RShape, DepComplete
<1>7. QED
  BY <1>2, <1>3, <1>4, <1>6

-----------------------------------------------------------------------------
(* Phases of a request.                                                    *)

\* The calls of a request that have not been answered.
Open(r) == {k \in DOMAIN SyncDeps[OpOf[r]] : <<r, k>> \in calls}

CallsKnown ==
  \A c \in calls : stage[c[1]] = "called" /\ c[2] \in DOMAIN SyncDeps[OpOf[c[1]]]

\* It waits for as many answers as it has calls open.
Waiting(r) ==
  /\ finishes[r] = 0 /\ status[r] = "RUNNING"
  /\ Open(r) # {} /\ remaining[r] = Cardinality(Open(r))

\* It was finished by a dependency that could not be called, which is counted
\* and never answered.
FailedEarly(r) ==
  /\ finishes[r] = 1 /\ status[r] = "FAILED"
  /\ remaining[r] > Cardinality(Open(r))

Succeeded(r) ==
  /\ finishes[r] = 1 /\ status[r] = "SUCCESS"
  /\ Open(r) = {} /\ remaining[r] = 0

Phase(r) ==
  IF stage[r] = "called"
    THEN Waiting(r) \/ FailedEarly(r) \/ Succeeded(r)
    ELSE finishes[r] = 0 /\ status[r] = "RUNNING" /\ remaining[r] = 0

Phases == CallsKnown /\ \A r \in Request : Phase(r)

RunnerInv ==
  RShape /\ ThreadLimit /\ ConnLimit /\ Known /\ Phases

LEMMA OpenIsFinite ==
  ASSUME NEW r \in Request, Configured(r)
  PROVE  IsFiniteSet(Open(r)) /\ Cardinality(Open(r)) \in Nat
<1>1. SyncDeps[OpOf[r]] \in Seq(Dependency)
  BY DependenciesOf
<1>2. /\ Open(r) \in SUBSET (1..Len(SyncDeps[OpOf[r]]))
      /\ Len(SyncDeps[OpOf[r]]) \in Nat
  BY <1>1 DEF Open
<1>3. IsFiniteSet(1..Len(SyncDeps[OpOf[r]]))
  BY <1>2, FS_Interval
<1>4. QED
  BY <1>2, <1>3, FS_Subset, FS_CardinalityType

\* Nothing changes for a request that an action is not about.
LEMMA OtherPhase ==
  ASSUME NEW s \in Request, Phase(s), Open(s)' = Open(s),
         stage'[s] = stage[s], status'[s] = status[s],
         remaining'[s] = remaining[s], finishes'[s] = finishes[s]
  PROVE  Phase(s)'
BY DEF Phase, Waiting, FailedEarly, Succeeded

LEMMA ArrivalPhases ==
  ASSUME RunnerInv, NEW r \in Request, Refuse(r) \/ Admit(r)
  PROVE  Phases'
<1>1. /\ stage[r] = "scheduled"
      /\ stage' = [stage EXCEPT ![r] = stage'[r]]
      /\ stage'[r] \in {"refused", "local"}
      /\ UNCHANGED <<status, remaining, calls, finishes>>
  BY DEF Refuse, Admit, RunnerInv, RShape
<1>2. CallsKnown'
  BY <1>1 DEF RunnerInv, RShape, Phases, CallsKnown
<1>3. ASSUME NEW s \in Request PROVE Phase(s)'
  <2>1. Open(s)' = Open(s)
    BY <1>1 DEF Open
  <2>2. CASE s = r
    BY <1>1, <2>2 DEF RunnerInv, RShape, Phases, Phase
  <2>3. CASE s # r
    BY <1>1, <2>1, <2>3, OtherPhase DEF RunnerInv, RShape, Phases
  <2>4. QED
    BY <2>2, <2>3
<1>4. QED
  BY <1>2, <1>3 DEF Phases

\* What LOCAL_OP_COMPLETE leaves of a request.
LEMMA LocalCompletePhases ==
  ASSUME RunnerInv, NEW r \in Request, LocalComplete(r)
  PROVE  Phases'
<1> DEFINE deps == SyncDeps[OpOf[r]]
<1>1. /\ stage[r] = "local" /\ stage' = [stage EXCEPT ![r] = "called"]
      /\ Configured(r) /\ finishes[r] = 0 /\ status[r] = "RUNNING"
  BY DEF LocalComplete, RunnerInv, Known, Phases, Phase
<1>2. /\ deps \in Seq(Dependency) /\ Len(deps) \in Nat
      /\ Called(deps) \subseteq 1..Len(deps) /\ DOMAIN deps = 1..Len(deps)
  BY <1>1, DependenciesOf, CalledIsFinite
<1>3. \A k : <<r, k>> \notin calls
  BY <1>1 DEF RunnerInv, Phases, CallsKnown
<1>4. /\ remaining' = [remaining EXCEPT ![r] = Len(deps)]
      /\ calls' = calls \cup ({r} \X Called(deps))
  BY DEF LocalComplete, Counted
<1>5. Open(r)' = Called(deps)
  BY <1>2, <1>3, <1>4 DEF Open
<1>6. \A s \in Request \ {r} : Open(s)' = Open(s)
  BY <1>4 DEF Open
<1>7. \/ /\ Called(deps) # DOMAIN deps
         /\ finishes' = [finishes EXCEPT ![r] = 1]
         /\ status' = [status EXCEPT ![r] = "FAILED"]
      \/ /\ Called(deps) = DOMAIN deps /\ deps = << >>
         /\ finishes' = [finishes EXCEPT ![r] = 1]
         /\ status' = [status EXCEPT ![r] = "SUCCESS"]
      \/ /\ Called(deps) = DOMAIN deps /\ deps # << >>
         /\ finishes' = finishes /\ status' = status
  <2>1. finishes[r] + 1 = 1
    BY <1>1
  <2>2. QED
    BY <1>1, <2>1 DEF LocalComplete, Finish, NotFinished
<1>8. CallsKnown'
  BY <1>1, <1>2, <1>4 DEF RunnerInv, RShape, Phases, CallsKnown
<1>9. Phase(r)'
  <2>1. stage'[r] = "called" /\ remaining'[r] = Len(deps)
    BY <1>1, <1>4 DEF RunnerInv, RShape
  <2>2. IsFiniteSet(1..Len(deps)) /\ Cardinality(1..Len(deps)) = Len(deps)
    BY <1>2, FS_Interval
  <2>3. CASE Called(deps) # DOMAIN deps
    <3>1. /\ Cardinality(Called(deps)) <= Cardinality(1..Len(deps))
          /\ Cardinality(1..Len(deps)) = Cardinality(Called(deps)) =>
               1..Len(deps) = Called(deps)
      BY <1>2, <2>2, FS_Subset
    <3>2. Cardinality(Called(deps)) \in Nat
      BY <1>2, CalledIsFinite, FS_CardinalityType
    <3>3. Len(deps) > Cardinality(Called(deps))
      BY <1>2, <2>2, <2>3, <3>1, <3>2
    <3>4. finishes'[r] = 1 /\ status'[r] = "FAILED"
      BY <1>7, <2>3 DEF RunnerInv, RShape
    <3>5. FailedEarly(r)'
      BY <1>5, <2>1, <3>3, <3>4 DEF FailedEarly
    <3>6. QED
      BY <2>1, <3>5 DEF Phase
  <2>4. CASE Called(deps) = DOMAIN deps /\ deps = << >>
    <3>1. finishes'[r] = 1 /\ status'[r] = "SUCCESS"
      BY <1>7, <2>4 DEF RunnerInv, RShape
    <3>2. Called(deps) = {} /\ Len(deps) = 0
      BY <1>2, <2>4
    <3>3. Succeeded(r)'
      BY <1>5, <2>1, <3>1, <3>2 DEF Succeeded
    <3>4. QED
      BY <2>1, <3>3 DEF Phase
  <2>5. CASE Called(deps) = DOMAIN deps /\ deps # << >>
    <3>1. finishes'[r] = 0 /\ status'[r] = "RUNNING"
      BY <1>1, <1>7, <2>5
    <3>2. Called(deps) # {} /\ Cardinality(Called(deps)) = Len(deps)
      <4>1. Len(deps) # 0
        <5> HIDE DEF deps
        <5>1. QED
          BY <1>2, <2>5
      <4>2. 1 \in 1..Len(deps)
        BY <1>2, <4>1
      <4>3. QED
        BY <1>2, <2>2, <2>5, <4>2
    <3>3. Waiting(r)'
      BY <1>5, <2>1, <3>1, <3>2 DEF Waiting
    <3>4. QED
      BY <2>1, <3>3 DEF Phase
  <2>6. QED
    BY <2>3, <2>4, <2>5
<1>10. ASSUME NEW s \in Request, s # r PROVE Phase(s)'
  <2>1. /\ stage'[s] = stage[s] /\ remaining'[s] = remaining[s]
        /\ finishes'[s] = finishes[s] /\ status'[s] = status[s]
    BY <1>1, <1>4, <1>7, <1>10 DEF RunnerInv, RShape
  <2>2. QED
    BY <1>6, <1>10, <2>1, OtherPhase DEF RunnerInv, Phases
<1>11. QED
  BY <1>8, <1>9, <1>10 DEF Phases

\* An answer is one of those that are waited for, or comes too late.
LEMMA DepCompletePhases ==
  ASSUME RunnerInv, NEW r \in Request, NEW k, DepComplete(r, k)
  PROVE  Phases'
<1>1. stage[r] = "called" /\ k \in Open(r) /\ Configured(r)
  BY DEF DepComplete, RunnerInv, Known, Phases, CallsKnown, Open
<1>2. /\ calls' = calls \ {<<r, k>>}
      /\ remaining' = [remaining EXCEPT ![r] = remaining[r] - 1]
      /\ stage' = stage
  BY DEF DepComplete, StillToCome
<1>3. Open(r)' = Open(r) \ {k}
  BY <1>2 DEF Open
<1>4. \A s \in Request \ {r} : Open(s)' = Open(s)
  BY <1>2 DEF Open
<1>5. /\ IsFiniteSet(Open(r)) /\ Cardinality(Open(r)) \in Nat
      /\ IsFiniteSet(Open(r)') /\ Cardinality(Open(r)') \in Nat
      /\ Cardinality(Open(r)') = Cardinality(Open(r)) - 1
      /\ Cardinality(Open(r)') = 0 <=> Open(r)' = {}
  <2>1. IsFiniteSet(Open(r)) /\ Cardinality(Open(r)) \in Nat
    BY <1>1, OpenIsFinite
  <2>2. /\ IsFiniteSet(Open(r) \ {k})
        /\ Cardinality(Open(r) \ {k}) = Cardinality(Open(r)) - 1
    BY <1>1, <2>1, FS_RemoveElement
  <2>3. QED
    BY <1>3, <2>1, <2>2, FS_CardinalityType, FS_EmptySet
<1>6. CallsKnown'
  BY <1>2 DEF RunnerInv, Phases, CallsKnown
<1>7. remaining[r] \in Int /\ remaining'[r] = remaining[r] - 1
  BY <1>2 DEF RunnerInv, RShape
<1>8. Waiting(r) \/ FailedEarly(r)
  BY <1>1 DEF RunnerInv, Phases, Phase, Succeeded
<1>9. CASE Waiting(r)
  <2>1. CASE remaining[r] - 1 <= 0
    <3>1. finishes[r] + 1 = 1
      BY <1>9 DEF Waiting
    <3>2. /\ finishes' = [finishes EXCEPT ![r] = 1]
          /\ status' = [status EXCEPT ![r] = "SUCCESS"]
      BY <1>9, <2>1, <3>1 DEF DepComplete, StillToCome, Finish, Waiting
    <3>3. Open(r)' = {} /\ remaining[r] - 1 = 0
      BY <1>5, <1>9, <2>1 DEF Waiting
    <3>4. Succeeded(r)'
      BY <1>7, <3>2, <3>3 DEF Succeeded, RunnerInv, RShape
    <3>5. ASSUME NEW s \in Request PROVE Phase(s)'
      <4>1. CASE s = r
        BY <1>1, <1>2, <3>4, <4>1 DEF Phase
      <4>2. CASE s # r
        BY <1>2, <1>4, <3>2, <4>2, OtherPhase DEF RunnerInv, RShape, Phases
      <4>3. QED
        BY <4>1, <4>2
    <3>6. QED
      BY <1>6, <3>5 DEF Phases
  <2>2. CASE ~(remaining[r] - 1 <= 0)
    <3>1. finishes' = finishes /\ status' = status
      BY <2>2 DEF DepComplete, StillToCome, NotFinished
    <3>2. Waiting(r)'
      BY <1>5, <1>7, <1>9, <2>2, <3>1 DEF Waiting
    <3>3. ASSUME NEW s \in Request PROVE Phase(s)'
      <4>1. CASE s = r
        BY <1>1, <1>2, <3>2, <4>1 DEF Phase
      <4>2. CASE s # r
        BY <1>2, <1>4, <3>1, <4>2, OtherPhase DEF RunnerInv, RShape, Phases
      <4>3. QED
        BY <4>1, <4>2
    <3>4. QED
      BY <1>6, <3>3 DEF Phases
  <2>3. QED
    BY <2>1, <2>2
<1>10. CASE FailedEarly(r)
  <2>1. ~(remaining[r] - 1 <= 0)
    BY <1>5, <1>7, <1>10 DEF FailedEarly
  <2>2. finishes' = finishes /\ status' = status
    BY <2>1 DEF DepComplete, StillToCome, NotFinished
  <2>3. FailedEarly(r)'
    BY <1>5, <1>7, <1>10, <2>2 DEF FailedEarly
  <2>4. ASSUME NEW s \in Request PROVE Phase(s)'
    <3>1. CASE s = r
      BY <1>1, <1>2, <2>3, <3>1 DEF Phase
    <3>2. CASE s # r
      BY <1>2, <1>4, <2>2, <3>2, OtherPhase DEF RunnerInv, RShape, Phases
    <3>3. QED
      BY <3>1, <3>2
  <2>5. QED
    BY <1>6, <2>4 DEF Phases
<1>11. QED
  BY <1>8, <1>9, <1>10

-----------------------------------------------------------------------------
(* Accounts: what is held is held by a request or a call that needs it.    *)

ThreadAccount ==
  \A n \in Node : threads[n].active + threads[n].waiting = Cardinality(At(n))
ConnAccount ==
  \A n \in Node : conns[n].active + conns[n].waiting = Cardinality(CallsAt(n))
CpuAccount == \A n \in Node : cpu[n] = Cardinality(LocalAt(n))

Accounts ==
  /\ IsFiniteSet(calls)
  /\ ThreadAccount /\ ConnAccount /\ CpuAccount /\ ArrivalsAddUp

\* The sets that are counted are finite.
LEMMA CountedSets ==
  ASSUME IsFiniteSet(calls)
  PROVE  /\ IsFiniteSet(InFlight) /\ Cardinality(InFlight) \in Nat
         /\ \A n : /\ IsFiniteSet(At(n)) /\ Cardinality(At(n)) \in Nat
                   /\ IsFiniteSet(LocalAt(n)) /\ Cardinality(LocalAt(n)) \in Nat
                   /\ IsFiniteSet(CallsAt(n)) /\ Cardinality(CallsAt(n)) \in Nat
<1>1. IsFiniteSet(Request)
  BY RunnerAssumption
<1>2. InFlight \in SUBSET Request
  BY DEF InFlight
<1>3. ASSUME NEW n
      PROVE  /\ At(n) \in SUBSET Request /\ LocalAt(n) \in SUBSET Request
             /\ CallsAt(n) \in SUBSET calls
  BY DEF At, LocalAt, CallsAt, InFlight
<1>4. IsFiniteSet(InFlight) /\ Cardinality(InFlight) \in Nat
  BY <1>1, <1>2, FS_Subset, FS_CardinalityType
<1>5. ASSUME NEW n
      PROVE  /\ IsFiniteSet(At(n)) /\ Cardinality(At(n)) \in Nat
             /\ IsFiniteSet(LocalAt(n)) /\ Cardinality(LocalAt(n)) \in Nat
             /\ IsFiniteSet(CallsAt(n)) /\ Cardinality(CallsAt(n)) \in Nat
  BY <1>1, <1>3, FS_Subset, FS_CardinalityType
<1>6. QED
  BY <1>4, <1>5

\* A refused request leaves the accounts as they are.
LEMMA RefuseAccounts ==
  ASSUME RunnerInv, Accounts, NEW r \in Request, Refuse(r)
  PROVE  Accounts'
<1>1. /\ stage[r] = "scheduled" /\ stage' = [stage EXCEPT ![r] = "refused"]
      /\ UNCHANGED <<calls, conns, cpu, finishes, successes>>
      /\ arrivals' = arrivals + 1 /\ failures' = failures + 1
  BY DEF Refuse
<1>2. InFlight' = InFlight
  BY <1>1 DEF InFlight, RunnerInv, RShape
<1>3. \A n : At(n)' = At(n) /\ CallsAt(n)' = CallsAt(n) /\ LocalAt(n)' = LocalAt(n)
  BY <1>1, <1>2 DEF At, CallsAt, LocalAt, RunnerInv, RShape, Home, InFlight
<1>4. ThreadAccount'
  <2>1. CASE Configured(r)
    <3>1. Home(r) \in Node
      BY <2>1, DependenciesOf
    <3>2. /\ Refused(threads[Home(r)]).active = threads[Home(r)].active
          /\ Refused(threads[Home(r)]).waiting = threads[Home(r)].waiting
      BY <3>1, RefusedWithin DEF RunnerInv, RShape
    <3>3. threads' = [threads EXCEPT ![Home(r)] = Refused(threads[Home(r)])]
      BY <2>1 DEF Refuse
    <3>4. QED
      BY <1>3, <3>1, <3>2, <3>3 DEF Accounts, ThreadAccount, RunnerInv, RShape
  <2>2. CASE ~Configured(r)
    BY <1>3, <2>2 DEF Refuse, Accounts, ThreadAccount
  <2>3. QED
    BY <2>1, <2>2
<1>5. ConnAccount' /\ CpuAccount' /\ IsFiniteSet(calls)'
  BY <1>1, <1>3 DEF Accounts, ConnAccount, CpuAccount
<1>6. ArrivalsAddUp'
  <2>1. Cardinality(InFlight) \in Nat
    BY CountedSets DEF Accounts
  <2>2. QED
    BY <1>1, <1>2, <2>1 DEF Accounts, ArrivalsAddUp, RunnerInv, RShape
<1>7. QED
  BY <1>4, <1>5, <1>6 DEF Accounts

\* An admitted request takes a place in the thread pool and on the CPU.
LEMMA AdmitAccounts ==
  ASSUME RunnerInv, Accounts, NEW r \in Request, Admit(r)
  PROVE  Accounts'
<1>1. /\ stage[r] = "scheduled" /\ stage' = [stage EXCEPT ![r] = "local"]
      /\ UNCHANGED <<calls, conns, finishes, successes, failures>>
      /\ arrivals' = arrivals + 1
      /\ cpu' = [cpu EXCEPT ![Home(r)] = @ + 1]
  BY DEF Admit
<1>2. /\ Home(r) \in Node
      /\ threads' = [threads EXCEPT ![Home(r)] = threads'[Home(r)]]
      /\ threads'[Home(r)].active + threads'[Home(r)].waiting
           = threads[Home(r)].active + threads[Home(r)].waiting + 1
  BY AdmitShape DEF RunnerInv
<1>3. finishes[r] = 0
  BY <1>1 DEF RunnerInv, Phases, Phase
<1>4. r \notin InFlight /\ InFlight' = InFlight \cup {r}
  BY <1>1, <1>3 DEF InFlight, RunnerInv, RShape
<1>5. /\ r \notin At(Home(r)) /\ At(Home(r))' = At(Home(r)) \cup {r}
      /\ r \notin LocalAt(Home(r)) /\ LocalAt(Home(r))' = LocalAt(Home(r)) \cup {r}
  BY <1>1, <1>4 DEF At, LocalAt, Home, RunnerInv, RShape, InFlight
<1>6. \A n : n # Home(r) => At(n)' = At(n) /\ LocalAt(n)' = LocalAt(n)
  BY <1>1, <1>4 DEF At, LocalAt, Home, RunnerInv, RShape, InFlight
<1>7. \A n : CallsAt(n)' = CallsAt(n)
  BY <1>1 DEF CallsAt
<1>8. /\ Cardinality(InFlight) \in Nat
      /\ Cardinality(InFlight') = Cardinality(InFlight) + 1
      /\ Cardinality(At(Home(r))') = Cardinality(At(Home(r))) + 1
      /\ Cardinality(LocalAt(Home(r))') = Cardinality(LocalAt(Home(r))) + 1
  <2>1. /\ IsFiniteSet(InFlight) /\ IsFiniteSet(At(Home(r)))
        /\ IsFiniteSet(LocalAt(Home(r))) /\ Cardinality(InFlight) \in Nat
    BY CountedSets DEF Accounts
  <2>2. QED
    BY <1>4, <1>5, <2>1, FS_AddElement
<1>9. ThreadAccount'
  BY <1>2, <1>6, <1>8 DEF Accounts, ThreadAccount, RunnerInv, RShape
<1>10. CpuAccount'
  BY <1>1, <1>2, <1>6, <1>8 DEF Accounts, CpuAccount, RunnerInv, RShape
<1>11. ConnAccount' /\ IsFiniteSet(calls)'
  BY <1>1, <1>7 DEF Accounts, ConnAccount
<1>12. ArrivalsAddUp'
  BY <1>1, <1>8 DEF Accounts, ArrivalsAddUp, RunnerInv, RShape
<1>13. QED
  BY <1>9, <1>10, <1>11, <1>12 DEF Accounts

\* Finishing a request gives back its thread and counts it.
LEMMA FinishAccounts ==
  ASSUME RunnerInv, Accounts, NEW r \in Request, NEW res,
         Finish(r, res), r \in InFlight, UNCHANGED arrivals,
         \A s \in Request : stage'[s] \in {"local", "called"}
                              <=> stage[s] \in {"local", "called"}
  PROVE  ThreadAccount' /\ ArrivalsAddUp'
<1>1. Configured(r) /\ finishes[r] = 0
  BY DEF InFlight, RunnerInv, Known
<1>2. Home(r) \in Node
  BY <1>1, DependenciesOf
<1>3. /\ threads' = [threads EXCEPT ![Home(r)] = Released(threads[Home(r)])]
      /\ finishes' = [finishes EXCEPT ![r] = 1]
  <2>1. finishes[r] + 1 = 1
    BY <1>1
  <2>2. QED
    BY <2>1 DEF Finish
<1>4. InFlight' = InFlight \ {r}
  BY <1>3 DEF InFlight, RunnerInv, RShape
<1>5. r \in At(Home(r)) /\ At(Home(r))' = At(Home(r)) \ {r}
  BY <1>4 DEF At, Home
<1>6. \A n : n # Home(r) => At(n)' = At(n)
  BY <1>4 DEF At, Home
<1>7. /\ Cardinality(InFlight) \in Nat /\ Cardinality(At(Home(r))) \in Nat
      /\ Cardinality(InFlight') = Cardinality(InFlight) - 1
      /\ Cardinality(At(Home(r))') = Cardinality(At(Home(r))) - 1
      /\ Cardinality(At(Home(r))) > 0
  <2>1. /\ IsFiniteSet(InFlight) /\ IsFiniteSet(At(Home(r)))
        /\ Cardinality(InFlight) \in Nat /\ Cardinality(At(Home(r))) \in Nat
    BY CountedSets DEF Accounts
  <2>2. Cardinality(At(Home(r))) # 0
    BY <1>5, <2>1, FS_EmptySet
  <2>3. /\ Cardinality(InFlight \ {r}) = Cardinality(InFlight) - 1
        /\ Cardinality(At(Home(r)) \ {r}) = Cardinality(At(Home(r))) - 1
    BY <1>5, <2>1, FS_RemoveElement
  <2>4. QED
    BY <1>4, <1>5, <2>1, <2>2, <2>3
<1>8. Released(threads[Home(r)]).active + Released(threads[Home(r)]).waiting
        = threads[Home(r)].active + threads[Home(r)].waiting - 1
  <2>1. /\ threads[Home(r)] \in Pool
        /\ Within(threads[Home(r)], Workers[Home(r)], QueueSize[Home(r)])
        /\ Workers[Home(r)] \in Nat \ {0} /\ QueueSize[Home(r)] \in Nat
    BY <1>2, RunnerAssumption DEF RunnerInv, RShape, ThreadLimit
  <2>2. threads[Home(r)].active + threads[Home(r)].waiting > 0
    BY <1>2, <1>7 DEF Accounts, ThreadAccount
  <2>3. QED
    BY <2>1, <2>2, ReleasedWithin
<1>9. ASSUME NEW n \in Node
      PROVE  threads'[n].active + threads'[n].waiting = Cardinality(At(n)')
  <2>1. /\ threads[n].active + threads[n].waiting = Cardinality(At(n))
        /\ threads'[n] = IF n = Home(r) THEN Released(threads[n]) ELSE threads[n]
    BY <1>3 DEF Accounts, ThreadAccount, RunnerInv, RShape
  <2>2. CASE n = Home(r)
    <3>1. Cardinality(At(n)') = Cardinality(At(n)) - 1
      BY <1>7, <2>2 DEF At
    <3>2. Released(threads[n]).active + Released(threads[n]).waiting
            = threads[n].active + threads[n].waiting - 1
      BY <1>8, <2>2
    <3>3. threads'[n] = Released(threads[n])
      BY <2>1, <2>2
    <3>4. threads[n].active + threads[n].waiting - 1 = Cardinality(At(n)')
      <4>1. /\ threads[n].active \in Nat /\ threads[n].waiting \in Nat
            /\ Cardinality(At(n)) \in Nat
        BY CountedSets DEF Accounts, RunnerInv, RShape, Pool
      <4>2. QED
        BY <2>1, <3>1, <4>1
    <3>5. QED
      BY <3>2, <3>3, <3>4
  <2>3. CASE n # Home(r)
    BY <1>6, <2>1, <2>3
  <2>4. QED
    BY <2>2, <2>3
<1>10. ArrivalsAddUp'
  <2>1. \/ successes' = successes + 1 /\ failures' = failures
        \/ failures' = failures + 1 /\ successes' = successes
    BY DEF Finish
  <2>2. QED
    BY <1>7, <2>1 DEF Accounts, ArrivalsAddUp, RunnerInv, RShape
<1>11. QED
  BY <1>9, <1>10 DEF ThreadAccount

\* Pairs with one first component are as many as their second components.
LEMMA PairsAreCounted ==
  ASSUME NEW x, NEW S, IsFiniteSet(S)
  PROVE  IsFiniteSet({x} \X S) /\ Cardinality({x} \X S) = Cardinality(S)
<1>1. IsFiniteSet({x}) /\ Cardinality({x}) = 1
  BY FS_Singleton
<1>2. /\ IsFiniteSet({x} \X S)
      /\ Cardinality({x} \X S) = Cardinality({x}) * Cardinality(S)
  BY <1>1, FS_Product
<1>3. Cardinality(S) \in Nat
  BY FS_CardinalityType
<1>4. QED
  BY <1>1, <1>2, <1>3

\* A request that goes on leaves the threads and the counters of the result.
LEMMA GoOnAccounts ==
  ASSUME RunnerInv, Accounts, NotFinished, UNCHANGED arrivals,
         \A s \in Request : stage'[s] \in {"local", "called"}
                              <=> stage[s] \in {"local", "called"}
  PROVE  ThreadAccount' /\ ArrivalsAddUp'
<1>1. InFlight' = InFlight
  BY DEF InFlight, NotFinished
<1>2. \A n : At(n)' = At(n)
  BY <1>1 DEF At, Home
<1>3. QED
  BY <1>1, <1>2 DEF NotFinished, Accounts, ThreadAccount, ArrivalsAddUp

\* LOCAL_OP_COMPLETE frees the CPU and takes a connection for each call.
LEMMA LocalCompleteAccounts ==
  ASSUME RunnerInv, Accounts, NEW r \in Request, LocalComplete(r)
  PROVE  Accounts'
<1> DEFINE deps == SyncDeps[OpOf[r]]
<1>1. /\ stage[r] = "local" /\ stage' = [stage EXCEPT ![r] = "called"]
      /\ Configured(r) /\ finishes[r] = 0 /\ UNCHANGED arrivals
      /\ calls' = calls \cup ({r} \X Called(deps))
      /\ conns' = ConnsAfter(deps)
      /\ cpu' = [cpu EXCEPT ![Home(r)] = IF @ > 0 THEN @ - 1 ELSE @]
  BY DEF LocalComplete, RunnerInv, Known, Phases, Phase
<1>2. Home(r) \in Node /\ deps \in Seq(Dependency)
  BY <1>1, DependenciesOf
<1>3. \A s \in Request : stage'[s] \in {"local", "called"}
                          <=> stage[s] \in {"local", "called"}
  BY <1>1 DEF RunnerInv, RShape
<1>4. r \in InFlight
  BY <1>1 DEF InFlight
<1>5. ThreadAccount' /\ ArrivalsAddUp'
  <2>1. CASE Finish(r, "FAILED")
    BY <1>1, <1>3, <1>4, <2>1, FinishAccounts
  <2>2. CASE Finish(r, status[r])
    BY <1>1, <1>3, <1>4, <2>2, FinishAccounts
  <2>3. CASE NotFinished
    BY <1>1, <1>3, <2>3, GoOnAccounts
  <2>4. QED
    BY <2>1, <2>2, <2>3 DEF LocalComplete
<1>6. CpuAccount'
  <2>1. \A s \in Request : s # r => finishes'[s] = finishes[s]
    BY DEF LocalComplete, Finish, NotFinished, RunnerInv, RShape
  <2>2. \A n : LocalAt(n)' = LocalAt(n) \ {r}
    BY <1>1, <2>1 DEF LocalAt, At, InFlight, Home, RunnerInv, RShape
  <2>3. r \in LocalAt(Home(r)) /\ \A n : n # Home(r) => r \notin LocalAt(n)
    BY <1>1, <1>4 DEF LocalAt, At
  <2>4. ASSUME NEW n \in Node PROVE cpu'[n] = Cardinality(LocalAt(n)')
    <3>1. /\ IsFiniteSet(LocalAt(n)) /\ Cardinality(LocalAt(n)) \in Nat
          /\ cpu[n] = Cardinality(LocalAt(n)) /\ n \in DOMAIN cpu
      BY CountedSets DEF Accounts, CpuAccount, RunnerInv, RShape
    <3>2. CASE n = Home(r)
      <4>1. Cardinality(LocalAt(n) \ {r}) = Cardinality(LocalAt(n)) - 1
        BY <2>3, <3>1, <3>2, FS_RemoveElement
      <4>2. Cardinality(LocalAt(n)) # 0
        BY <2>3, <3>1, <3>2, FS_EmptySet
      <4>3. cpu'[n] = cpu[n] - 1
        BY <1>1, <3>1, <3>2, <4>2
      <4>4. QED
        BY <2>2, <3>1, <4>1, <4>3
    <3>3. CASE n # Home(r)
      <4>1. LocalAt(n) \ {r} = LocalAt(n)
        BY <2>3, <3>3
      <4>2. cpu'[n] = cpu[n]
        BY <1>1, <3>1, <3>3
      <4>3. QED
        BY <2>2, <3>1, <4>1, <4>2
    <3>4. QED
      BY <3>2, <3>3
  <2>5. QED
    BY <2>4 DEF CpuAccount
<1>7. ConnAccount'
  <2>1. ASSUME NEW n \in Node
        PROVE  conns'[n].active + conns'[n].waiting = Cardinality(CallsAt(n)')
    <3> DEFINE T == CallsTo(deps, Called(deps), n)
    <3>1. CallsAt(n)' = CallsAt(n) \cup ({r} \X T)
      BY <1>1 DEF CallsAt, CallsTo
    <3>2. CallsAt(n) \cap ({r} \X T) = {}
      BY <1>1 DEF CallsAt, RunnerInv, Phases, CallsKnown
    <3>3. IsFiniteSet(T) /\ Cardinality(T) \in Nat
      BY <1>2, CalledIsFinite
    <3>4. IsFiniteSet({r} \X T) /\ Cardinality({r} \X T) = Cardinality(T)
      BY <3>3, PairsAreCounted
    <3>5. IsFiniteSet(CallsAt(n)) /\ Cardinality(CallsAt(n)) \in Nat
      BY CountedSets DEF Accounts
    <3>6. Cardinality(CallsAt(n) \cup ({r} \X T))
            = Cardinality(CallsAt(n)) + Cardinality({r} \X T)
                - Cardinality(CallsAt(n) \cap ({r} \X T))
      BY <3>4, <3>5, FS_Union
    <3>7. Cardinality(CallsAt(n) \cap ({r} \X T)) = 0
      BY <3>2, FS_EmptySet
    <3>8. conns'[n].active + conns'[n].waiting
            = conns[n].active + conns[n].waiting + Cardinality(T)
      BY <1>1, <1>2, ConnsAfterShape DEF RunnerInv
    <3>9. /\ conns[n].active \in Nat /\ conns[n].waiting \in Nat
          /\ conns[n].active + conns[n].waiting = Cardinality(CallsAt(n))
      BY DEF RunnerInv, RShape, Pool, Accounts, ConnAccount
    <3>10. QED
      <4> HIDE DEF T
      <4>1. QED
        BY <3>1, <3>3, <3>4, <3>5, <3>6, <3>7, <3>8, <3>9
  <2>2. QED
    BY <2>1 DEF ConnAccount
<1>8. IsFiniteSet(calls')
  <2>1. IsFiniteSet(Called(deps)) /\ IsFiniteSet(calls)
    BY <1>2, CalledIsFinite DEF Accounts
  <2>2. IsFiniteSet({r} \X Called(deps))
    BY <2>1, PairsAreCounted
  <2>3. QED
    BY <1>1, <2>1, <2>2, FS_Union
<1>9. QED
  BY <1>5, <1>6, <1>7, <1>8 DEF Accounts

\* DEP_COMPLETE gives the connection of the call back.
LEMMA DepCompleteAccounts ==
  ASSUME RunnerInv, Accounts, NEW r \in Request, NEW k, DepComplete(r, k)
  PROVE  Accounts'
<1> DEFINE m == SyncDeps[OpOf[r]][k].node
           c == <<r, k>>
<1>1. /\ c \in calls /\ calls' = calls \ {c} /\ UNCHANGED <<stage, cpu, arrivals>>
      /\ conns' = [conns EXCEPT ![m] = Released(conns[m])]
  BY DEF DepComplete
<1>2. /\ stage[r] = "called" /\ k \in Open(r) /\ Configured(r)
  BY <1>1 DEF RunnerInv, Known, Phases, CallsKnown, Open
<1>3. ThreadAccount' /\ ArrivalsAddUp'
  <2>1. CASE NotFinished
    BY <1>1, <2>1, GoOnAccounts
  <2>2. CASE StillToCome(r) <= 0 /\ Finish(r, status[r])
    <3>1. finishes[r] = 0
      <4>1. IsFiniteSet(Open(r)) /\ Cardinality(Open(r)) \in Nat
        BY <1>2, OpenIsFinite
      <4>2. Cardinality(Open(r)) # 0
        BY <1>2, <4>1, FS_EmptySet
      <4>3. ~FailedEarly(r)
        BY <2>2, <4>1, <4>2 DEF FailedEarly, StillToCome, RunnerInv, RShape
      <4>4. QED
        BY <1>2, <4>3 DEF RunnerInv, Phases, Phase, Waiting, Succeeded
    <3>2. r \in InFlight
      BY <1>2, <3>1 DEF InFlight
    <3>3. QED
      BY <1>1, <2>2, <3>2, FinishAccounts
  <2>3. QED
    BY <2>1, <2>2 DEF DepComplete
<1>4. CpuAccount'
  <2>1. \A n : LocalAt(n)' = LocalAt(n)
    BY <1>1, <1>2 DEF LocalAt, At, InFlight, Home, DepComplete, Finish, NotFinished,
                      RunnerInv, RShape
  <2>2. QED
    BY <1>1, <2>1 DEF Accounts, CpuAccount
<1>5. IsFiniteSet(calls')
  BY <1>1, FS_RemoveElement DEF Accounts
<1>6. ASSUME NEW n \in Node
      PROVE  conns'[n].active + conns'[n].waiting = Cardinality(CallsAt(n)')
  <2>1. /\ IsFiniteSet(CallsAt(n)) /\ Cardinality(CallsAt(n)) \in Nat
        /\ conns[n].active \in Nat /\ conns[n].waiting \in Nat
        /\ conns[n] \in Pool
        /\ conns[n].active + conns[n].waiting = Cardinality(CallsAt(n))
    BY CountedSets DEF Accounts, ConnAccount, RunnerInv, RShape, Pool
  <2>2. CASE n = m
    <3>1. c \in CallsAt(n) /\ CallsAt(n)' = CallsAt(n) \ {c}
      BY <1>1, <2>2 DEF CallsAt
    <3>2. /\ Cardinality(CallsAt(n)') = Cardinality(CallsAt(n)) - 1
          /\ Cardinality(CallsAt(n)) # 0
      BY <2>1, <3>1, FS_RemoveElement, FS_EmptySet
    <3>3. conns'[n] = Released(conns[n])
      BY <1>1, <2>2 DEF RunnerInv, RShape
    <3>4. /\ Within(conns[n], Connections[n], MaxWaiters)
          /\ Connections[n] \in Nat \ {0} /\ MaxWaiters \in Nat
      BY RunnerAssumption DEF RunnerInv, ConnLimit
    <3>5. conns[n].active + conns[n].waiting > 0
      BY <2>1, <3>2
    <3>6. Released(conns[n]).active + Released(conns[n]).waiting
            = conns[n].active + conns[n].waiting - 1
      BY <2>1, <3>4, <3>5, ReleasedWithin
    <3>7. QED
      BY <2>1, <3>2, <3>3, <3>6
  <2>3. CASE n # m
    <3>1. CallsAt(n)' = CallsAt(n)
      BY <1>1, <2>3 DEF CallsAt
    <3>2. conns'[n] = conns[n]
      BY <1>1, <2>3 DEF RunnerInv, RShape
    <3>3. QED
      BY <2>1, <3>1, <3>2
  <2>4. QED
    BY <2>2, <2>3
<1>7. QED
  BY <1>3, <1>4, <1>5, <1>6 DEF Accounts, ConnAccount

-----------------------------------------------------------------------------
(* The invariant and what follows from it.                                 *)

LEMMA RunnerInit == RInit => RunnerInv /\ Accounts
<1> SUFFICES ASSUME RInit PROVE RunnerInv /\ Accounts
  OBVIOUS
<1>1. RShape
  BY DEF RInit, RShape, Stage, Pool, EmptyPool
<1>2. ThreadLimit /\ ConnLimit
  BY RunnerAssumption DEF RInit, ThreadLimit, ConnLimit, Within, EmptyPool
<1>3. Known
  BY DEF RInit, Known
<1>4. Phases
  BY DEF RInit, Phases, CallsKnown, Phase
<1>5. InFlight = {} /\ \A n : At(n) = {} /\ LocalAt(n) = {} /\ CallsAt(n) = {}
  BY DEF RInit, InFlight, At, LocalAt, CallsAt
<1>6. IsFiniteSet(calls) /\ Cardinality({}) = 0
  BY FS_EmptySet DEF RInit
<1>7. ThreadAccount /\ ConnAccount /\ CpuAccount /\ ArrivalsAddUp
  BY <1>5, <1>6 DEF RInit, ThreadAccount, ConnAccount, CpuAccount, ArrivalsAddUp,
                    EmptyPool
<1>8. QED
  BY <1>1, <1>2, <1>3, <1>4, <1>6, <1>7 DEF RunnerInv, Accounts

LEMMA RunnerStep ==
  ASSUME RunnerInv, Accounts, [RNext]_rvars
  PROVE  RunnerInv' /\ Accounts'
<1>1. ASSUME NEW r \in Request, Refuse(r) PROVE RunnerInv' /\ Accounts'
  BY <1>1, RefuseShape, ArrivalPhases, RefuseAccounts DEF RunnerInv
<1>2. ASSUME NEW r \in Request, Admit(r) PROVE RunnerInv' /\ Accounts'
  BY <1>2, AdmitShape, ArrivalPhases, AdmitAccounts DEF RunnerInv
<1>3. ASSUME NEW r \in Request, LocalComplete(r) PROVE RunnerInv' /\ Accounts'
  BY <1>3, LocalCompleteShape, LocalCompletePhases, LocalCompleteAccounts
     DEF RunnerInv
<1>4. ASSUME NEW c \in calls, DepComplete(c[1], c[2])
      PROVE  RunnerInv' /\ Accounts'
  <2>1. /\ c[1] \in Request /\ stage[c[1]] = "called"
        /\ c[2] \in DOMAIN SyncDeps[OpOf[c[1]]]
    BY DEF RunnerInv, RShape, Phases, CallsKnown
  <2>2. RShape' /\ ThreadLimit' /\ ConnLimit' /\ Known'
    BY <1>4, <2>1, DepCompleteShape DEF RunnerInv
  <2>3. QED
    BY <1>4, <2>1, <2>2, DepCompletePhases, DepCompleteAccounts DEF RunnerInv
<1>5. CASE UNCHANGED rvars
  <2>1. RunnerInv'
    BY <1>5 DEF RunnerInv, rvars, RShape, ThreadLimit, ConnLimit, Known, Configured,
                Phases, CallsKnown, Phase, Waiting, FailedEarly, Succeeded, Open
  <2>2. Accounts'
    BY <1>5 DEF rvars, Accounts, ThreadAccount, ConnAccount, CpuAccount,
                ArrivalsAddUp, InFlight, At, LocalAt, CallsAt, Home
  <2>3. QED
    BY <2>1, <2>2
<1>6. QED
  BY <1>1, <1>2, <1>3, <1>4, <1>5 DEF RNext

LEMMA RunnerInvariant == RSpec => [](RunnerInv /\ Accounts)
<1>1. RInit => RunnerInv /\ Accounts
  BY RunnerInit
<1>2. RunnerInv /\ Accounts /\ [RNext]_rvars => (RunnerInv /\ Accounts)'
  BY RunnerStep
<1>3. QED
  BY <1>1, <1>2, PTL DEF RSpec

\* Every reachable state of the runner is well typed; in particular the count of
\* outstanding dependencies of a request never drops below zero.
THEOREM RunnerTypeCorrect == RSpec => []RTypeOK
<1>1. RunnerInv => RTypeOK
  <2> SUFFICES ASSUME RunnerInv PROVE RTypeOK
    OBVIOUS
  <2>1. ASSUME NEW r \in Request PROVE remaining[r] \in Nat
    <3>1. CASE stage[r] = "called"
      <4>1. Cardinality(Open(r)) \in Nat
        BY <3>1, OpenIsFinite DEF RunnerInv, Known
      <4>2. QED
        BY <3>1, <4>1 DEF RunnerInv, RShape, Phases, Phase, Waiting, FailedEarly,
                          Succeeded
    <3>2. CASE stage[r] # "called"
      BY <3>2 DEF RunnerInv, Phases, Phase
    <3>3. QED
      BY <3>1, <3>2
  <2>2. remaining \in [Request -> Nat]
    BY <2>1 DEF RunnerInv, RShape
  <2>3. QED
    BY <2>2 DEF RunnerInv, RShape, RTypeOK
<1>2. QED
  BY <1>1, RunnerInvariant, PTL

\* finishRequest is called at most once for a request.
THEOREM FinishedAtMostOnce == RSpec => []FinishedOnce
<1>1. RunnerInv => FinishedOnce
  BY DEF RunnerInv, Phases, Phase, Waiting, FailedEarly, Succeeded, FinishedOnce
<1>2. QED
  BY <1>1, RunnerInvariant, PTL

\* A request succeeds only when all its dependencies have answered.
THEOREM SuccessWasAnswered == RSpec => []SuccessIsAnswered
<1>1. RunnerInv => SuccessIsAnswered
  <2> SUFFICES ASSUME RunnerInv, NEW r \in Request, status[r] = "SUCCESS",
                      NEW c \in calls, c[1] = r
               PROVE  FALSE
    BY DEF SuccessIsAnswered
  <2>1. stage[r] = "called" /\ c[2] \in Open(r)
    BY DEF RunnerInv, RShape, Phases, CallsKnown, Open
  <2>2. QED
    BY <2>1 DEF RunnerInv, Phases, Phase, Waiting, FailedEarly, Succeeded
<1>2. QED
  BY <1>1, RunnerInvariant, PTL

\* Threads, connections and CPUs are held by requests and calls in progress, each
\* once, and by nothing else.
THEOREM NothingLeaks == RSpec => []ResourcesAreAccounted
<1>1. Accounts => ResourcesAreAccounted
  BY DEF Accounts, ThreadAccount, ConnAccount, CpuAccount, ResourcesAreAccounted
<1>2. QED
  BY <1>1, RunnerInvariant, PTL

\* No pool exceeds its limits, none lets a task wait for a free slot.
THEOREM PoolsAreUsed == RSpec => []NoIdleSlot
<1>1. RunnerInv => NoIdleSlot
  BY DEF RunnerInv, ThreadLimit, ConnLimit, Within, NoIdleSlot
<1>2. QED
  BY <1>1, RunnerInvariant, PTL

\* The counters that run() returns add up.
THEOREM ResultAddsUp == RSpec => []ArrivalsAddUp
<1>1. Accounts => ArrivalsAddUp
  BY DEF Accounts
<1>2. QED
  BY <1>1, RunnerInvariant, PTL

\* Both: the counters that run() returns tell what became of each request.
THEOREM RequestsAreCounted == RSpec => []RequestsAddUp
<1>1. ArrivalsAddUp /\ SuccessIsAnswered => RequestsAddUp
  BY DEF RequestsAddUp
<1>2. QED
  BY <1>1, ResultAddsUp, SuccessWasAnswered, PTL

-----------------------------------------------------------------------------
(* The circuit breaker.                                                    *)

\* What the breaker's fields say about its past.
Tells ==
  /\ breaker.state = "OPEN" => tripped.ever /\ tripped.at = breaker.openedAt
  /\ breaker.state = "CLOSED" => breaker.failures <= streak
  /\ tripped.ever /\ breaker.state # "OPEN" => clock >= tripped.at + ResetTimeout

BreakerInv == BreakerTypeOK /\ Tells

\* The values of the breaker object.
Breaker == [state : {"CLOSED", "OPEN", "HALF_OPEN"}, failures : Nat, successes : Nat,
            openedAt : Nat]

LEMMA BreakerInitInv == ASSUME BreakerInit PROVE BreakerInv
  BY BreakerAssumption DEF BreakerInit, BreakerInv, BreakerTypeOK, Tells, Closed

LEMMA CanExecuteInv ==
  ASSUME BreakerInv, NEW c \in Call, CanExecute(c) PROVE BreakerInv'
<1>1. CASE breaker.state = "OPEN"
  <2>1. breaker' = [breaker EXCEPT !.state = "HALF_OPEN", !.successes = 0]
    BY <1>1 DEF CanExecute
  <2>2. /\ breaker' \in Breaker
        /\ breaker'.state = "HALF_OPEN" /\ breaker'.successes = 0
    BY <2>1 DEF BreakerInv, BreakerTypeOK, Breaker
  <2>3. QED
    BY <1>1, <2>2, BreakerAssumption
    DEF Breaker, CanExecute, Admits, Due, BreakerInv, BreakerTypeOK, Tells
<1>2. CASE breaker.state # "OPEN"
  BY <1>2 DEF CanExecute, BreakerInv, BreakerTypeOK, Tells
<1>3. QED
  BY <1>1, <1>2

LEMMA RecordSuccessInv ==
  ASSUME BreakerInv, NEW c \in Call, RecordSuccess(c) PROVE BreakerInv'
<1> USE BreakerAssumption DEF RecordSuccess, BreakerInv, BreakerTypeOK, Tells
<1>1. CASE breaker.state = "CLOSED"
  <2>1. breaker' = [breaker EXCEPT !.failures = 0]
    BY <1>1 DEF AfterSuccess
  <2>2. /\ breaker' \in Breaker
        /\ breaker'.state = "CLOSED" /\ breaker'.failures = 0
    BY <1>1, <2>1 DEF Breaker
  <2>3. QED
    BY <1>1, <2>2 DEF Breaker
<1>2. CASE breaker.state = "HALF_OPEN" /\ breaker.successes + 1 >= SuccessThreshold
  <2> DEFINE closed == [breaker EXCEPT !.state = "CLOSED", !.failures = 0]
  <2>1. breaker' = [closed EXCEPT !.successes = 0]
    BY <1>2 DEF AfterSuccess
  <2>2. closed \in Breaker /\ closed.state = "CLOSED" /\ closed.failures = 0
    BY DEF Breaker
  <2>3. /\ breaker' \in Breaker
        /\ breaker'.state = "CLOSED" /\ breaker'.failures = 0
    <3> HIDE DEF closed
    <3>1. QED
      BY <2>1, <2>2 DEF Breaker
  <2>4. QED
    BY <1>2, <2>3 DEF Breaker
<1>3. CASE breaker.state = "HALF_OPEN" /\ ~(breaker.successes + 1 >= SuccessThreshold)
  <2>1. breaker' = [breaker EXCEPT !.successes = @ + 1]
    BY <1>3 DEF AfterSuccess
  <2>2. /\ breaker' \in Breaker
        /\ breaker'.state = "HALF_OPEN" /\ breaker'.successes = breaker.successes + 1
    BY <1>3, <2>1 DEF Breaker
  <2>3. QED
    BY <1>3, <2>2 DEF Breaker
<1>4. CASE breaker.state = "OPEN"
  <2>1. breaker' = breaker
    BY <1>4 DEF AfterSuccess
  <2>2. QED
    BY <1>4, <2>1
<1>5. QED
  BY <1>1, <1>2, <1>3, <1>4

LEMMA RecordFailureInv ==
  ASSUME BreakerInv, NEW c \in Call, RecordFailure(c) PROVE BreakerInv'
<1> USE BreakerAssumption DEF RecordFailure, BreakerInv, BreakerTypeOK, Tells
<1>1. CASE breaker.state = "CLOSED" /\ breaker.failures + 1 >= FailureThreshold
  <2>1. AfterFailure = [Opened EXCEPT !.failures = Opened.failures + 1]
    BY <1>1 DEF AfterFailure
  <2>2. Opened \in Breaker /\ Opened.state = "OPEN" /\ Opened.openedAt = clock
    BY DEF Opened, Breaker
  <2>3. /\ AfterFailure \in Breaker
        /\ AfterFailure.state = "OPEN" /\ AfterFailure.openedAt = clock
    BY <2>1, <2>2 DEF Breaker
  <2>4. QED
    BY <1>1, <2>3 DEF Breaker
<1>2. CASE breaker.state = "CLOSED" /\ ~(breaker.failures + 1 >= FailureThreshold)
  <2>1. AfterFailure = [breaker EXCEPT !.failures = breaker.failures + 1]
    BY <1>2 DEF AfterFailure
  <2>2. /\ AfterFailure \in Breaker
        /\ AfterFailure.state = "CLOSED" /\ AfterFailure.failures = breaker.failures + 1
    BY <1>2, <2>1 DEF Breaker
  <2>3. QED
    BY <1>2, <2>2 DEF Breaker
<1>3. CASE breaker.state = "HALF_OPEN"
  <2>1. AfterFailure = [Opened EXCEPT !.successes = 0]
    BY <1>3 DEF AfterFailure
  <2>2. Opened \in Breaker /\ Opened.state = "OPEN" /\ Opened.openedAt = clock
    BY DEF Opened, Breaker
  <2>3. /\ AfterFailure \in Breaker
        /\ AfterFailure.state = "OPEN" /\ AfterFailure.openedAt = clock
    BY <2>1, <2>2 DEF Breaker
  <2>4. QED
    BY <1>3, <2>3 DEF Breaker
<1>4. CASE breaker.state = "OPEN"
  <2>1. AfterFailure = breaker
    BY <1>4 DEF AfterFailure
  <2>2. QED
    BY <1>4, <2>1
<1>5. QED
  BY <1>1, <1>2, <1>3, <1>4

LEMMA BreakerStepInv ==
  ASSUME BreakerInv, [BreakerNext]_breakerVars PROVE BreakerInv'
<1>1. ASSUME NEW c \in Call, GiveUp(c) PROVE BreakerInv'
  <2>1. running' \subseteq Call /\ probes' \subseteq Call
    BY <1>1 DEF GiveUp, BreakerInv, BreakerTypeOK
  <2>2. UNCHANGED <<breaker, clock, streak, tripped>>
    BY <1>1 DEF GiveUp
  <2>3. Tells'
    BY <2>2 DEF BreakerInv, Tells
  <2>4. QED
    BY <2>1, <2>2, <2>3 DEF BreakerInv, BreakerTypeOK
<1>2. CASE ResetBreaker
  <2>1. breaker' \in Breaker /\ breaker'.state = "CLOSED" /\ breaker'.failures = 0
    BY <1>2 DEF ResetBreaker, Closed, Breaker
  <2>2. tripped' \in [ever : BOOLEAN, at : Nat] /\ ~tripped'.ever
    BY <1>2 DEF ResetBreaker, BreakerInv, BreakerTypeOK
  <2>3. Tells'
    BY <1>2, <2>1, <2>2 DEF ResetBreaker, Tells
  <2>4. QED
    BY <1>2, <2>1, <2>2, <2>3 DEF ResetBreaker, Breaker, BreakerInv, BreakerTypeOK
<1>3. CASE Elapse
  BY <1>3, BreakerAssumption DEF Elapse, BreakerInv, BreakerTypeOK, Tells
<1>4. CASE UNCHANGED breakerVars
  <2>1. UNCHANGED <<breaker, clock, running, streak, tripped, probes>>
    BY <1>4 DEF breakerVars
  <2>2. Tells'
    BY <2>1 DEF BreakerInv, Tells
  <2>3. BreakerTypeOK'
    BY <2>1 DEF BreakerInv, BreakerTypeOK
  <2>4. QED
    BY <2>2, <2>3 DEF BreakerInv
<1>5. QED
  BY <1>1, <1>2, <1>3, <1>4, CanExecuteInv, RecordSuccessInv, RecordFailureInv
  DEF BreakerNext

LEMMA BreakerInvariant == BreakerSpec => []BreakerInv
  BY BreakerInitInv, BreakerStepInv, PTL DEF BreakerSpec

\* An open breaker refuses until its timeout has passed since it opened.
LEMMA RefusalHasReason == ASSUME BreakerInv PROVE RefusesForItsTimeout
  BY BreakerAssumption
  DEF BreakerInv, BreakerTypeOK, Tells, RefusesForItsTimeout, Admits, Due

\* A step that opens the breaker is a failure that was recorded, and one too many.
LEMMA TripHasCause ==
  ASSUME BreakerInv, [BreakerNext]_breakerVars PROVE TripsForACause
<1> SUFFICES ASSUME breaker'.state = "OPEN", breaker.state # "OPEN"
             PROVE  /\ breaker.state = "CLOSED" => streak' >= FailureThreshold
                    /\ tripped.ever => clock >= tripped.at + ResetTimeout
  BY DEF TripsForACause
<1>1. tripped.ever => clock >= tripped.at + ResetTimeout
  BY DEF BreakerInv, Tells
<1>2. PICK c \in Call : RecordFailure(c)
  <2>1. ~UNCHANGED breakerVars /\ ~Elapse /\ ~ResetBreaker
    BY DEF breakerVars, Elapse, ResetBreaker, Closed
  <2>2. ASSUME NEW c \in Call PROVE ~CanExecute(c) /\ ~GiveUp(c)
    BY DEF CanExecute, GiveUp, BreakerInv, BreakerTypeOK
  <2>3. ASSUME NEW c \in Call PROVE ~RecordSuccess(c)
    <3>1. AfterSuccess.state # "OPEN"
      BY DEF AfterSuccess, BreakerInv, BreakerTypeOK
    <3>2. QED
      BY <3>1 DEF RecordSuccess
  <2>4. QED
    BY <2>1, <2>2, <2>3 DEF BreakerNext
<1>3. ASSUME breaker.state = "CLOSED" PROVE streak' >= FailureThreshold
  <2>1. breaker.failures + 1 >= FailureThreshold
    <3> SUFFICES ASSUME ~(breaker.failures + 1 >= FailureThreshold) PROVE FALSE
      OBVIOUS
    <3>1. AfterFailure = [breaker EXCEPT !.failures = breaker.failures + 1]
      BY <1>3 DEF AfterFailure
    <3>2. QED
      BY <1>2, <1>3, <3>1 DEF RecordFailure, BreakerInv, BreakerTypeOK
  <2>2. QED
    BY <1>2, <1>3, <2>1, BreakerAssumption
    DEF RecordFailure, BreakerInv, BreakerTypeOK, Tells
<1>4. QED
  BY <1>1, <1>3

\* A breaker that is OPEN refuses for its timeout since it opened and no longer, and
\* it opens only for enough failures in a row or a failed probe, however late results are recorded
\* (canExecute, recordSuccess, recordFailure).
THEOREM BreakerIsTrue == BreakerSpec => BreakerKeepsItsWord
<1>1. BreakerInv /\ [BreakerNext]_breakerVars => TripsForACause
  BY TripHasCause
<1>2. BreakerInv' => RefusesForItsTimeout'
  BY RefusalHasReason, PTL
<1>3. BreakerInv /\ BreakerInv' /\ [BreakerNext]_breakerVars
        => [TripsForACause /\ RefusesForItsTimeout']_breakerVars
  BY <1>1, <1>2
<1>4. QED
  BY BreakerInvariant, <1>3, PTL DEF BreakerSpec, BreakerKeepsItsWord

-----------------------------------------------------------------------------
(* The bulkhead.                                                           *)

Answer == {"new", "EXECUTING", "QUEUED", "REJECTED", "DONE", "CANCELLED"}

BulkheadTypeOK ==
  /\ active \in Nat /\ queued \in Nat
  /\ total \in [acquired : Nat, queued : Nat, rejected : Nat, completed : Nat]
  /\ task \in [Task -> Answer]
  /\ crossed \in BOOLEAN

BulkheadInv == BulkheadTypeOK /\ SlotsAreTrue

\* The tasks that were told an answer are finitely many.
LEMMA ToldFinite ==
  ASSUME NEW answer
  PROVE  IsFiniteSet(Told(answer)) /\ Cardinality(Told(answer)) \in Nat
<1>1. Told(answer) \subseteq Task
  BY DEF Told
<1>2. QED
  BY <1>1, BulkheadAssumption, FS_Subset, FS_CardinalityType

\* One task more is told the answer.
LEMMA ToldMore ==
  ASSUME NEW t \in Task, NEW answer, task[t] # answer,
         Told(answer)' = Told(answer) \cup {t}
  PROVE  Cardinality(Told(answer)') = Cardinality(Told(answer)) + 1
<1>1. t \notin Told(answer)
  BY DEF Told
<1>2. QED
  BY <1>1, ToldFinite, FS_AddElement

\* One task less.
LEMMA ToldLess ==
  ASSUME NEW t \in Task, NEW answer, task[t] = answer,
         Told(answer)' = Told(answer) \ {t}
  PROVE  Cardinality(Told(answer)') = Cardinality(Told(answer)) - 1
<1>1. t \in Told(answer)
  BY DEF Told
<1>2. QED
  BY <1>1, ToldFinite, FS_RemoveElement

LEMMA BulkheadInitInv == ASSUME BulkheadInit PROVE BulkheadInv
<1>1. Told("EXECUTING") = {} /\ Told("QUEUED") = {}
  BY DEF BulkheadInit, Told
<1>2. Cardinality(Told("EXECUTING")) = 0 /\ Cardinality(Told("QUEUED")) = 0
  BY <1>1, FS_EmptySet
<1>3. BulkheadTypeOK
  BY DEF BulkheadInit, BulkheadTypeOK, NoTotals, Answer
<1>4. /\ total.completed = 0 /\ total.acquired = 0 /\ total.queued = 0
  BY DEF BulkheadInit, NoTotals
<1>5. SlotsAreTrue
  BY <1>2, <1>4, BulkheadAssumption DEF BulkheadInit, SlotsAreTrue
<1>6. QED
  BY <1>3, <1>5 DEF BulkheadInv

LEMMA TryAcquireInv ==
  ASSUME BulkheadInv, NEW t \in Task, TryAcquire(t) PROVE BulkheadInv'
<1> USE BulkheadAssumption
<1>0. BulkheadTypeOK'
  BY DEF TryAcquire, Acquired, Queued, Rejected, BulkheadInv, BulkheadTypeOK, Answer
<1>1. CASE Acquired(t)
  <2>1. Told("EXECUTING")' = Told("EXECUTING") \cup {t} /\ Told("QUEUED")' = Told("QUEUED")
    BY <1>1 DEF TryAcquire, Acquired, Told, BulkheadInv, BulkheadTypeOK
  <2>2. Cardinality(Told("EXECUTING")') = Cardinality(Told("EXECUTING")) + 1
    BY <2>1, ToldMore DEF TryAcquire
  <2>3. /\ total'.completed = total.completed /\ total'.queued = total.queued
        /\ total'.acquired = total.acquired + 1
    BY <1>1 DEF Acquired, BulkheadInv, BulkheadTypeOK
  <2>4. SlotsAreTrue'
    BY <1>1, <2>1, <2>2, <2>3
    DEF TryAcquire, Acquired, BulkheadInv, BulkheadTypeOK, SlotsAreTrue
  <2>5. QED
    BY <1>0, <2>4 DEF BulkheadInv
<1>2. CASE Queued(t)
  <2>1. Told("QUEUED")' = Told("QUEUED") \cup {t} /\ Told("EXECUTING")' = Told("EXECUTING")
    BY <1>2 DEF TryAcquire, Queued, Told, BulkheadInv, BulkheadTypeOK
  <2>2. Cardinality(Told("QUEUED")') = Cardinality(Told("QUEUED")) + 1
    BY <2>1, ToldMore DEF TryAcquire
  <2>3. /\ total'.completed = total.completed /\ total'.acquired = total.acquired
        /\ total'.queued = total.queued + 1
    BY <1>2 DEF Queued, BulkheadInv, BulkheadTypeOK
  <2>4. SlotsAreTrue'
    BY <1>2, <2>1, <2>2, <2>3
    DEF TryAcquire, Queued, BulkheadInv, BulkheadTypeOK, SlotsAreTrue
  <2>5. QED
    BY <1>0, <2>4 DEF BulkheadInv
<1>3. CASE Rejected(t)
  <2>1. Told("QUEUED")' = Told("QUEUED") /\ Told("EXECUTING")' = Told("EXECUTING")
    BY <1>3 DEF TryAcquire, Rejected, Told, BulkheadInv, BulkheadTypeOK
  <2>2. /\ total'.completed = total.completed /\ total'.acquired = total.acquired
        /\ total'.queued = total.queued
    BY <1>3 DEF Rejected, BulkheadInv, BulkheadTypeOK
  <2>3. SlotsAreTrue'
    BY <1>3, <2>1, <2>2 DEF TryAcquire, Rejected, BulkheadInv, SlotsAreTrue
  <2>4. QED
    BY <1>0, <2>3 DEF BulkheadInv
<1>4. QED
  BY <1>1, <1>2, <1>3 DEF TryAcquire

LEMMA ReleaseInv ==
  ASSUME BulkheadInv, NEW t \in Task, Release(t) PROVE BulkheadInv'
<1> USE BulkheadAssumption
<1>1. /\ total'.completed = total.completed + 1 /\ total'.acquired = total.acquired
      /\ total'.queued = total.queued
      /\ total' \in [acquired : Nat, queued : Nat, rejected : Nat, completed : Nat]
  BY DEF Release, BulkheadInv, BulkheadTypeOK
<1>2. t \in Told("EXECUTING") /\ task[t] = "EXECUTING" /\ crossed' = crossed
  BY DEF Release, Told
<1>3. CASE Promote(t)
  <2>1. PICK next \in Told("QUEUED") :
          task' = [task EXCEPT ![t] = "DONE", ![next] = "EXECUTING"]
    BY <1>3 DEF Promote
  <2>2. next \in Task /\ task[next] = "QUEUED" /\ next # t
    BY <1>2, <2>1 DEF Told
  <2>3. /\ Told("QUEUED")' = Told("QUEUED") \ {next}
        /\ Told("EXECUTING")' = (Told("EXECUTING") \ {t}) \cup {next}
    BY <1>2, <2>1, <2>2 DEF Told, BulkheadInv, BulkheadTypeOK
  <2>4. Cardinality(Told("QUEUED")') = Cardinality(Told("QUEUED")) - 1
    BY <2>2, <2>3, ToldLess
  <2>5. Cardinality(Told("EXECUTING")') = Cardinality(Told("EXECUTING"))
    <3>1. next \notin Told("EXECUTING") \ {t}
      BY <2>2 DEF Told
    <3>2. /\ IsFiniteSet(Told("EXECUTING") \ {t})
          /\ Cardinality(Told("EXECUTING") \ {t}) = Cardinality(Told("EXECUTING")) - 1
      BY <1>2, ToldFinite, FS_RemoveElement
    <3>3. Cardinality(Told("EXECUTING")')
            = Cardinality(Told("EXECUTING") \ {t}) + 1
      BY <2>3, <3>1, <3>2, FS_AddElement
    <3>4. QED
      BY <3>2, <3>3, ToldFinite
  <2>6. queued > 0 /\ queued' = queued - 1 /\ active' = active
    BY <1>3 DEF Promote
  <2>7. BulkheadTypeOK'
    <3>1. task' \in [Task -> Answer]
      BY <2>1 DEF BulkheadInv, BulkheadTypeOK, Answer
    <3>2. active' \in Nat /\ queued' \in Nat
      BY <2>6 DEF BulkheadInv, BulkheadTypeOK
    <3>3. QED
      BY <1>1, <1>2, <3>1, <3>2 DEF BulkheadInv, BulkheadTypeOK
  <2>8. SlotsAreTrue'
    BY <1>1, <1>2, <2>4, <2>5, <2>6 DEF BulkheadInv, BulkheadTypeOK, SlotsAreTrue
  <2>9. QED
    BY <2>7, <2>8 DEF BulkheadInv
<1>4. CASE GiveBack(t)
  <2>1. task' = [task EXCEPT ![t] = "DONE"] /\ queued = 0 /\ queued' = queued
    BY <1>4 DEF GiveBack
  <2>2. /\ Told("QUEUED")' = Told("QUEUED")
        /\ Told("EXECUTING")' = Told("EXECUTING") \ {t}
    BY <1>2, <2>1 DEF Told, BulkheadInv, BulkheadTypeOK
  <2>3. Cardinality(Told("EXECUTING")') = Cardinality(Told("EXECUTING")) - 1
    BY <1>2, <2>2, ToldLess
  <2>4. ~crossed => active > 0
    <3>1. Cardinality(Told("EXECUTING")) # 0
      BY <1>2, ToldFinite, FS_EmptySet
    <3>2. QED
      BY <3>1, ToldFinite DEF BulkheadInv, BulkheadTypeOK, SlotsAreTrue
  <2>5. BulkheadTypeOK'
    BY <1>1, <1>2, <1>4, <2>1 DEF GiveBack, BulkheadInv, BulkheadTypeOK, Answer
  <2>6. SlotsAreTrue'
    BY <1>1, <1>2, <1>4, <2>1, <2>2, <2>3, <2>4
    DEF GiveBack, BulkheadInv, BulkheadTypeOK, SlotsAreTrue
  <2>7. QED
    BY <2>5, <2>6 DEF BulkheadInv
<1>5. QED
  BY <1>3, <1>4 DEF Release

LEMMA CancelQueuedInv ==
  ASSUME BulkheadInv, NEW t \in Task, CancelQueued(t) PROVE BulkheadInv'
<1>1. t \in Told("QUEUED") /\ task[t] = "QUEUED"
  BY DEF CancelQueued, Told
<1>2. /\ Told("QUEUED")' = Told("QUEUED") \ {t}
      /\ Told("EXECUTING")' = Told("EXECUTING")
  BY <1>1 DEF CancelQueued, Told, BulkheadInv, BulkheadTypeOK
<1>3. Cardinality(Told("QUEUED")') = Cardinality(Told("QUEUED")) - 1
  BY <1>1, <1>2, ToldLess
<1>4. ~crossed => queued > 0
  <2>1. Cardinality(Told("QUEUED")) # 0
    BY <1>1, ToldFinite, FS_EmptySet
  <2>2. QED
    BY <2>1, ToldFinite DEF BulkheadInv, BulkheadTypeOK, SlotsAreTrue
<1>5. BulkheadTypeOK'
  BY DEF CancelQueued, BulkheadInv, BulkheadTypeOK, Answer
<1>6. SlotsAreTrue'
  BY <1>2, <1>3, <1>4, BulkheadAssumption
  DEF CancelQueued, BulkheadInv, BulkheadTypeOK, SlotsAreTrue
<1>7. QED
  BY <1>5, <1>6 DEF BulkheadInv

LEMMA ResetBulkheadInv ==
  ASSUME BulkheadInv, ResetBulkhead PROVE BulkheadInv'
<1>1. BulkheadTypeOK'
  BY DEF ResetBulkhead, NoTotals, BulkheadInv, BulkheadTypeOK
<1>2. /\ Told("QUEUED")' = Told("QUEUED")
      /\ Told("EXECUTING")' = Told("EXECUTING")
  BY DEF ResetBulkhead, Told
<1>3. ~crossed' => Told("QUEUED") = {} /\ Told("EXECUTING") = {}
  BY DEF ResetBulkhead
<1>4. SlotsAreTrue'
  BY <1>2, <1>3, FS_EmptySet, BulkheadAssumption
  DEF ResetBulkhead, NoTotals, SlotsAreTrue
<1>5. QED
  BY <1>1, <1>4 DEF BulkheadInv

LEMMA BulkheadStepInv ==
  ASSUME BulkheadInv, [BulkheadNext]_bulkheadVars PROVE BulkheadInv'
<1>1. CASE UNCHANGED bulkheadVars
  BY <1>1 DEF bulkheadVars, BulkheadInv, BulkheadTypeOK, SlotsAreTrue, Told
<1>2. QED
  BY <1>1, TryAcquireInv, ReleaseInv, CancelQueuedInv, ResetBulkheadInv DEF BulkheadNext

\* Unless reset is called with tasks inside, the two counts are those of the tasks
\* that execute and wait, both within their limits, and no slot is free while a task
\* waits (tryAcquire, release, cancelQueued, reset).
THEOREM BulkheadIsTrue == BulkheadSpec => []SlotsAreTrue
<1>1. BulkheadInv => SlotsAreTrue
  BY DEF BulkheadInv
<1>2. QED
  BY BulkheadInitInv, BulkheadStepInv, <1>1, PTL DEF BulkheadSpec
=============================================================================
