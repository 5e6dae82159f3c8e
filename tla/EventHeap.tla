----------------------------- MODULE EventHeap -----------------------------
(***************************************************************************)
(* EventQueue of packages/simulation-engine as operators on a queue        *)
(* [heap, index]: a binary heap of event objects and the map from event    *)
(* ids to their places.  An object is a record of its key and of `copy',   *)
(* which tells it from its copies; `cancelled' is the set of objects that  *)
(* are marked.  Places count from 1.                                       *)
(***************************************************************************)
EXTENDS Integers, SequencesExt

Entry == [time : Nat, prio : Int, seq : Nat, copy : Nat]

EmptyQueue == [heap |-> << >>, index |-> << >>]

\* `ev_${sequenceNum}_${timeUs}'
Id(e) == <<e.seq, e.time>>

\* compare(a, b) < 0
Less(a, b) ==
  \/ a.time < b.time
  \/ a.time = b.time /\ a.prio < b.prio
  \/ a.time = b.time /\ a.prio = b.prio /\ a.seq < b.seq

\* set and delete of the map.
Note(index, id, i) ==
  [k \in DOMAIN index \cup {id} |-> IF k = id THEN i ELSE index[k]]
Forget(index, id) == [k \in DOMAIN index \ {id} |-> index[k]]

Place(q, e, i) ==
  [heap |-> [q.heap EXCEPT ![i] = e], index |-> Note(q.index, Id(e), i)]

\* Mutant: only one of the two places is noted in the map.
SwapHalf(q, i, j) ==
  [heap  |-> [q.heap EXCEPT ![i] = q.heap[j], ![j] = q.heap[i]],
   index |-> Note(q.index, Id(q.heap[j]), i)]

Swap(q, i, j) == Place(Place(q, q.heap[j], i), q.heap[i], j)

-----------------------------------------------------------------------------
(* The loops.  Each is a function of the number of rounds, which goes on   *)
(* with no effect when the code has left the loop.                         *)

\* siftUp, at the place `at'.
Rise(s) ==
  IF s.at > 1 /\ Less(s.queue.heap[s.at], s.queue.heap[s.at \div 2])
    THEN [queue |-> Swap(s.queue, s.at, s.at \div 2), at |-> s.at \div 2]
    ELSE s

SiftUp(q, i) ==
  LET round[n \in 0..i] ==
        IF n = 0 THEN [queue |-> q, at |-> i] ELSE Rise(round[n - 1])
  IN  round[i].queue

\* The smaller child of i, which has one.
SmallerChild(h, i) ==
  IF 2 * i < Len(h) /\ Less(h[2 * i + 1], h[2 * i]) THEN 2 * i + 1 ELSE 2 * i

\* siftDown, at the place `at'.
Sink(s) ==
  LET child == SmallerChild(s.queue.heap, s.at) IN
  IF 2 * s.at <= Len(s.queue.heap) /\ Less(s.queue.heap[child], s.queue.heap[s.at])
    THEN [queue |-> Swap(s.queue, s.at, child), at |-> child]
    ELSE s

SiftDown(q, i) ==
  LET round[n \in 0..Len(q.heap)] ==
        IF n = 0 THEN [queue |-> q, at |-> i] ELSE Sink(round[n - 1])
  IN  round[Len(q.heap)].queue

-----------------------------------------------------------------------------
(* push, pop, pruneCancelled, serializeState and restoreState              *)

PushEvent(q, e) ==
  LET n == Len(q.heap) + 1
  IN  SiftUp([heap |-> Append(q.heap, e), index |-> Note(q.index, Id(e), n)], n)

RemoveRoot(q) ==
  LET rest == [heap |-> Front(q.heap), index |-> Forget(q.index, Id(q.heap[1]))]
  IN  IF Len(q.heap) = 1 THEN rest
                         ELSE SiftDown(Place(rest, Last(q.heap), 1), 1)

\* Mutant: cancelled roots stay.
PruneNothing(q, cancelled) == q

PruneRoot(q, cancelled) ==
  IF q.heap # << >> /\ q.heap[1] \in cancelled THEN RemoveRoot(q) ELSE q

Prune(q, cancelled) ==
  LET round[n \in 0..Len(q.heap)] ==
        IF n = 0 THEN q ELSE PruneRoot(round[n - 1], cancelled)
  IN  round[Len(q.heap)]

\* The objects of a heap that are not marked, in its order.
Unmarked(h, cancelled) ==
  LET kept[n \in 0..Len(h)] ==
        IF n = 0 THEN << >>
        ELSE IF h[n] \in cancelled THEN kept[n - 1] ELSE Append(kept[n - 1], h[n])
  IN  kept[Len(h)]

\* Every place from the middle down to the first is sifted.
Heapify(q) ==
  LET middle == Len(q.heap) \div 2
      round[n \in 0..middle] ==
        IF n = 0 THEN q ELSE SiftDown(round[n - 1], middle + 1 - n)
  IN  round[middle]

\* A heap of a list of objects; then the map is made anew.
Restore(events) ==
  LET h == Heapify([heap |-> events, index |-> << >>]).heap
  IN  [heap  |-> h,
       index |-> [id \in {Id(e) : e \in Range(h)} |->
                    CHOOSE i \in DOMAIN h : Id(h[i]) = id]]

-----------------------------------------------------------------------------
Ordered(h) == \A i \in 2..Len(h) : ~Less(h[i], h[i \div 2])

Indexed(q) ==
  /\ DOMAIN q.index = {Id(e) : e \in Range(q.heap)}
  /\ \A i \in DOMAIN q.heap : q.index[Id(q.heap[i])] = i

WellFormed(q) == Ordered(q.heap) /\ Indexed(q)
=============================================================================
