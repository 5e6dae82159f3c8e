------------------------------- MODULE Kernel -------------------------------
(***************************************************************************)
(* SimulationKernel of packages/simulation-engine with its EventQueue: one *)
(* thread, whose steps are interleaved with what handlers do while a step  *)
(* runs, and with checkpoints that are taken and resumed between steps.    *)
(*                                                                         *)
(* The hash chain over the processed events is the sequence of their keys; *)
(* event types and payloads go with the key.                               *)
(***************************************************************************)
EXTENDS EventHeap

CONSTANTS MaxTime,     \* bound: the latest time of an event
          MaxEvents,   \* bound: sequence numbers
          MaxSaved,    \* bound: sequence numbers when there is a checkpoint
          MaxResumes,  \* bound: checkpoints resumed
          MaxThrows,   \* bound: handlers that throw
          Budget,      \* the maxEvents argument of runUntil
          Slot         \* the pairs of time and priority in use

ASSUME KernelAssumption ==
  /\ MaxTime \in Nat /\ Slot \subseteq (0..MaxTime) \X Int
  /\ Budget \in Nat

VARIABLES
  heap, index, next,   \* the EventQueue
  cancelled,           \* event objects marked as cancelled
  now, count, hash,    \* _virtualTimeUs, _processedCount, the hasher
  mode,                \* what the thread is in
  until,               \* the maxTimeUs argument of the last runUntil
  answer,              \* what it has just returned
  snap,                \* the last checkpoint: a KernelCheckpoint, and history
  resumes,             \* number of resumed checkpoints: tells copies apart
  threw                \* history: handlers that threw

queueVars == <<heap, index, next>>
runVars   == <<mode, until>>
saveVars  == <<snap, resumes>>
kvars == <<queueVars, cancelled, now, count, hash, runVars, answer, saveVars,
           threw>>

\* idle: nothing runs; looping: runUntil is between two steps; stepping and
\* running: a handler runs, for step() or for runUntil.
Mode == {"idle", "looping", "stepping", "running"}

queue == [heap |-> heap, index |-> index]
Key(e) == [time |-> e.time, prio |-> e.prio, seq |-> e.seq]
Live(events) == {e \in Range(events) : e \notin cancelled}
Pending == {Key(e) : e \in Live(heap)}

NoSnap == [taken |-> FALSE, now |-> 0, count |-> 0, hash |-> << >>, next |-> 0,
           events |-> << >>, threw |-> 0, resumes |-> 0]

KTypeOK ==
  /\ heap \in Seq(Entry) /\ next \in Nat
  /\ cancelled \subseteq Entry
  /\ now \in Nat /\ count \in Nat /\ hash \in Seq(Nat)
  /\ mode \in Mode /\ until \in Nat
  /\ answer \in {"none", "finished", "limit", "budget"}
  /\ resumes \in Nat /\ threw \in Nat

KInit ==
  /\ heap = << >> /\ index = << >> /\ next = 0
  /\ cancelled = {}
  /\ now = 0 /\ count = 0 /\ hash = << >>
  /\ mode = "idle" /\ until = 0 /\ answer = "none"
  /\ snap = NoSnap /\ resumes = 0
  /\ threw = 0

SetQueue(q) == heap' = q.heap /\ index' = q.index

Bound == IF snap.taken THEN MaxSaved ELSE MaxEvents

Handling == mode \in {"stepping", "running"}

-----------------------------------------------------------------------------
(* schedule and cancel: by whoever drives the kernel, or by a handler.      *)

Schedule(t, p) ==
  /\ mode # "looping"
  /\ next < Bound
  /\ t >= now
  /\ SetQueue(PushEvent(queue,
                        [time |-> t, prio |-> p, seq |-> next, copy |-> resumes]))
  /\ next' = next + 1
  /\ answer' = "none"
  /\ UNCHANGED <<cancelled, now, count, hash, runVars, saveVars, threw>>

\* cancel(id), if the map leads to an object of that id that is not marked yet.
Cancel(id) ==
  /\ mode # "looping"
  /\ id \in DOMAIN index
  /\ index[id] <= Len(heap)
  /\ Id(heap[index[id]]) = id
  /\ heap[index[id]] \notin cancelled
  /\ cancelled' = cancelled \cup {heap[index[id]]}
  /\ answer' = "none"
  /\ UNCHANGED <<queueVars, now, count, hash, runVars, saveVars, threw>>

-----------------------------------------------------------------------------
(* step                                                                    *)

\* pop, the clock and the hash; the handler comes next.
Begin(handling) ==
  LET q == Prune(queue, cancelled)
  IN  /\ q.heap # << >>
      /\ SetQueue(RemoveRoot(q))
      /\ now' = q.heap[1].time
      /\ hash' = Append(hash, q.heap[1].seq)
      /\ mode' = handling
      /\ answer' = "none"
      /\ UNCHANGED <<next, cancelled, count, until, saveVars, threw>>

Step == mode = "idle" /\ Begin("stepping")

\* Nothing is left: false.
StepEmpty ==
  /\ mode = "idle"
  /\ LET q == Prune(queue, cancelled)
     IN  q.heap = << >> /\ SetQueue(q)
  /\ answer' = "none"
  /\ UNCHANGED <<next, cancelled, now, count, hash, runVars, saveVars, threw>>

\* The handler has returned.
EndStep ==
  /\ Handling
  /\ count' = count + 1
  /\ mode' = IF mode = "running" THEN "looping" ELSE "idle"
  /\ UNCHANGED <<queueVars, cancelled, now, hash, until, answer, saveVars, threw>>

\* The handler throws (by schedule, into the past, if by nothing else): step and
\* runUntil are over, the event is gone and not counted.
HandlerThrows ==
  /\ Handling
  /\ threw < MaxThrows
  /\ mode' = "idle"
  /\ threw' = threw + 1
  /\ UNCHANGED <<queueVars, cancelled, now, count, hash, until, answer, saveVars>>

-----------------------------------------------------------------------------
(* runUntil                                                                *)

RunUntil(t) ==
  /\ mode = "idle"
  /\ mode' = "looping"
  /\ until' = t
  /\ answer' = "none"
  /\ UNCHANGED <<queueVars, cancelled, now, count, hash, saveVars, threw>>

Return(kind) ==
  /\ mode' = "idle"
  /\ answer' = kind
  /\ UNCHANGED <<next, cancelled, now, count, hash, until, saveVars, threw>>

\* Mutant: an event at the limit itself is out of reach.
InReachStrictly(q) == q.heap # << >> /\ q.heap[1].time < until

\* The next event is in reach of the time limit.
InReach(q) == q.heap # << >> /\ q.heap[1].time <= until

RunStep ==
  /\ mode = "looping"
  /\ InReach(Prune(queue, cancelled))
  /\ count < Budget
  /\ Begin("running")

\* The loop is left: the queue is empty, the next event is too late (or there
\* was none but cancelled ones), or the budget is used up.
RunEnds ==
  /\ mode = "looping"
  /\ LET q == Prune(queue, cancelled)
     IN  /\ SetQueue(q)
         /\ \/ heap = << >> /\ Return("finished")
            \/ heap # << >> /\ ~InReach(q) /\ Return("limit")
            \/ heap # << >> /\ InReach(q) /\ count >= Budget /\ Return("budget")

-----------------------------------------------------------------------------
(* Checkpoints.                                                            *)

\* The list is new, its events are the objects of the queue.
CreateCheckpoint ==
  /\ mode = "idle"
  /\ next <= MaxSaved
  /\ resumes < MaxResumes
  /\ snap' = [taken |-> TRUE, now |-> now, count |-> count, hash |-> hash,
              next |-> next, threw |-> threw, resumes |-> resumes,
              events |-> Unmarked(heap, cancelled)]
  /\ answer' = "none"
  /\ UNCHANGED <<queueVars, cancelled, now, count, hash, runVars, resumes, threw>>

\* `{ ...ev }': a copy that is marked if the object is.
CopyOf(e) == [e EXCEPT !.copy = resumes + 1]

\* resumeCheckpoint, in this kernel or in a new one that goes on in its place.
ResumeCheckpoint ==
  /\ mode = "idle"
  /\ snap.taken
  /\ resumes < MaxResumes
  /\ LET events == [i \in DOMAIN snap.events |-> CopyOf(snap.events[i])]
     IN  SetQueue(Restore(events))
  /\ cancelled' = cancelled \cup {CopyOf(e) : e \in Range(snap.events) \cap cancelled}
  /\ next' = snap.next /\ now' = snap.now
  /\ count' = snap.count /\ hash' = snap.hash
  /\ resumes' = resumes + 1
  /\ threw' = snap.threw
  /\ answer' = "none"
  /\ UNCHANGED <<runVars, snap>>

\* reset: the queue is emptied, its sequence numbers go on.
Reset ==
  /\ mode = "idle"
  /\ SetQueue(EmptyQueue)
  /\ now' = 0 /\ count' = 0 /\ hash' = << >> /\ threw' = 0
  /\ answer' = "none"
  /\ UNCHANGED <<next, cancelled, runVars, saveVars>>

KNext ==
  \/ \E s \in Slot : Schedule(s[1], s[2])
  \/ \E id \in (0..MaxEvents) \X (0..MaxTime) : Cancel(id)
  \/ Step \/ StepEmpty \/ EndStep \/ HandlerThrows
  \/ \E t \in 0..MaxTime : RunUntil(t)
  \/ RunStep \/ RunEnds
  \/ CreateCheckpoint \/ ResumeCheckpoint \/ Reset

KSpec == KInit /\ [][KNext]_kvars

-----------------------------------------------------------------------------
(* Properties.                                                             *)

\* Heap and index map belong together after any sequence of pushes, pops,
\* cancellations, prunings and restores.
QueueWellFormed == WellFormed(queue)

\* Nothing that waits is in the past: the exception `Time monotonicity
\* violation' of step is out of reach, after rollbacks and resets too.
NothingInThePast == \A e \in Pending : e.time >= now

\* While runUntil runs a handler the clock has not passed the limit, although
\* the root of the heap may have been a cancelled event.
RunKeepsLimit == mode = "running" => now <= until

\* The answers of runUntil say what the queue is like: nothing is left, or
\* nothing that is due, or the budget is used up while something is due.
RunAnswers ==
  /\ answer = "finished" => Pending = {}
  /\ answer = "limit" => \A e \in Pending : e.time > until
  /\ answer = "budget" => count >= Budget /\ \E e \in Pending : e.time <= until

\* The hash chain has one link per processed event and per handler that threw,
\* in a resumed kernel as in the original.
TraceIsCounted ==
  Len(hash) = count + threw + (IF Handling THEN 1 ELSE 0)

\* These four together: what the kernel tells of its run is true.
RunIsExact == NothingInThePast /\ RunKeepsLimit /\ RunAnswers /\ TraceIsCounted

\* The kernel's queue as a set of events, and its checkpoint as it was taken.
Events == INSTANCE EventSchedule WITH
  live  <- Pending,
  saved <- [live |-> {Key(e) : e \in Range(snap.events)},
            next |-> snap.next, now |-> snap.now, taken |-> snap.taken]

\* A resumption brings back what has not been cancelled since the checkpoint.
ResumesTheRest == Events!Resume({Key(e) : e \in Live(snap.events)})

\* Events are taken in order, each once and never when it is cancelled, over
\* any pushes, cancellations, throwing handlers, checkpoints and resets; and a
\* checkpoint brings back the clock, the numbering and the events it was taken
\* of, but for those that were cancelled since.
FollowsSchedule ==
  Events!SInit /\ [][Events!SNext \/ ResumesTheRest]_(Events!svars)

\* The same with a checkpoint that nothing can change after it was taken: full
\* serialization and resumption of the kernel's state (blackbox-x.md).  The
\* code does not keep it: the checkpoint's events are the queue's objects, and
\* a later cancel marks them there too (simulation-kernel.ts, event-queue.ts).
ImplementsSchedule == Events!SSpec
=============================================================================
