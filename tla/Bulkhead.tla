------------------------------ MODULE Bulkhead ------------------------------
(***************************************************************************)
(* PureBulkhead of packages/workload-spec and the tasks that pass it.  The *)
(* object keeps numbers only: which task it queues, promotes or drops, the *)
(* caller knows, and here any queued task is the one promoted.             *)
(***************************************************************************)
EXTENDS Naturals, FiniteSets

CONSTANTS Task, MaxConcurrent, MaxQueueCapacity

\* What the constructor asks for.
ASSUME BulkheadAssumption ==
  IsFiniteSet(Task) /\ MaxConcurrent \in Nat \ {0} /\ MaxQueueCapacity \in Nat

VARIABLES
  active, queued,     \* _activeCount and _queueCount
  total,              \* the four totals
  task,               \* what each task has been told
  crossed             \* history: reset was called while tasks were inside

bulkheadVars == <<active, queued, total, task, crossed>>

NoTotals == [acquired |-> 0, queued |-> 0, rejected |-> 0, completed |-> 0]

BulkheadInit ==
  /\ active = 0 /\ queued = 0
  /\ total = NoTotals
  /\ task = [t \in Task |-> "new"]
  /\ crossed = FALSE

Told(answer) == {t \in Task : task[t] = answer}

-----------------------------------------------------------------------------

Acquired(t) ==
  /\ active < MaxConcurrent
  /\ active' = active + 1
  /\ total' = [total EXCEPT !.acquired = @ + 1]
  /\ task' = [task EXCEPT ![t] = "EXECUTING"]
  /\ UNCHANGED queued

Queued(t) ==
  /\ active >= MaxConcurrent /\ queued < MaxQueueCapacity
  /\ queued' = queued + 1
  /\ total' = [total EXCEPT !.queued = @ + 1]
  /\ task' = [task EXCEPT ![t] = "QUEUED"]
  /\ UNCHANGED active

Rejected(t) ==
  /\ active >= MaxConcurrent /\ queued >= MaxQueueCapacity
  /\ total' = [total EXCEPT !.rejected = @ + 1]
  /\ task' = [task EXCEPT ![t] = "REJECTED"]
  /\ UNCHANGED <<active, queued>>

TryAcquire(t) ==
  /\ task[t] = "new"
  /\ Acquired(t) \/ Queued(t) \/ Rejected(t)
  /\ UNCHANGED crossed

\* Mutant: the slot of a task that ends is given back and to a queued task.
PromoteTwice(t) ==
  /\ queued > 0
  /\ queued' = queued - 1 /\ active' = active - 1
  /\ \E next \in Told("QUEUED") : task' = [task EXCEPT ![t] = "DONE", ![next] = "EXECUTING"]

\* The queued task takes the slot at once, so that active stays.
Promote(t) ==
  /\ queued > 0
  /\ queued' = queued - 1 /\ UNCHANGED active
  /\ \E next \in Told("QUEUED") : task' = [task EXCEPT ![t] = "DONE", ![next] = "EXECUTING"]

GiveBack(t) ==
  /\ queued = 0
  /\ active' = IF active > 0 THEN active - 1 ELSE 0
  /\ task' = [task EXCEPT ![t] = "DONE"]
  /\ UNCHANGED queued

Release(t) ==
  /\ task[t] = "EXECUTING"
  /\ total' = [total EXCEPT !.completed = @ + 1]
  /\ Promote(t) \/ GiveBack(t)
  /\ UNCHANGED crossed

\* A task in the queue has waited too long.
CancelQueued(t) ==
  /\ task[t] = "QUEUED"
  /\ queued' = IF queued > 0 THEN queued - 1 ELSE 0
  /\ task' = [task EXCEPT ![t] = "CANCELLED"]
  /\ UNCHANGED <<active, total, crossed>>

ResetBulkhead ==
  /\ active' = 0 /\ queued' = 0 /\ total' = NoTotals
  /\ crossed' = (crossed \/ Told("EXECUTING") \cup Told("QUEUED") # {})
  /\ UNCHANGED task

-----------------------------------------------------------------------------
BulkheadNext ==
  \/ \E t \in Task : TryAcquire(t) \/ Release(t) \/ CancelQueued(t)
  \/ ResetBulkhead

BulkheadSpec == BulkheadInit /\ [][BulkheadNext]_bulkheadVars

-----------------------------------------------------------------------------
(* Properties                                                              *)

\* The numbers are those of the tasks, promoted and cancelled ones included: no
\* slot is lost or taken twice, none is free while a task is queued, and the totals
\* account for every task inside.  Only reset with tasks inside can break this.
SlotsAreTrue ==
  ~crossed =>
    /\ active = Cardinality(Told("EXECUTING")) /\ active <= MaxConcurrent
    /\ queued = Cardinality(Told("QUEUED")) /\ queued <= MaxQueueCapacity
    /\ queued > 0 => active = MaxConcurrent
    /\ total.completed + active + queued <= total.acquired + total.queued
=============================================================================
