---------------------------- MODULE KernelProofs ----------------------------
(***************************************************************************)
(* Theorems about the simulation kernel and its event queue, for any       *)
(* slots, limits, handlers and checkpoints: the binary heap and its index  *)
(* map stay sound, what runUntil answers is true, and the kernel           *)
(* implements EventSchedule.                                               *)
(***************************************************************************)
EXTENDS Kernel, SequenceTheorems, WellFoundedInduction, TLAPS

-----------------------------------------------------------------------------
(* THE EVENT QUEUE                                                         *)

LEMMA NaturalInduction ==
  ASSUME NEW P, 0 \in P, \A n \in Nat : n \in P => n + 1 \in P
  PROVE  Nat \subseteq P
<1> SUFFICES ASSUME Nat \ P # {} PROVE FALSE
  OBVIOUS
<1>1. PICK d \in Nat \ P : \A e \in Nat \ P : ~(<<e, d>> \in OpToRel(<, Nat))
  BY NatLessThanWellFounded, WFMin
<1>2. \A e \in Nat \ P : ~(e < d)
  BY <1>1 DEF OpToRel
<1>3. d \in Nat /\ d \notin P /\ d # 0
  BY <1>1
<1>4. d - 1 \in Nat /\ d - 1 < d /\ (d - 1) + 1 = d
  BY <1>3
<1>5. d - 1 \in P
  BY <1>2, <1>4
<1>6. QED
  BY <1>3, <1>4, <1>5

\* Induction over the rounds of a loop.
LEMMA RoundInduction ==
  ASSUME NEW n \in Nat, NEW P, 0 \in P, \A k \in 1..n : k - 1 \in P => k \in P
  PROVE  \A k \in 0..n : k \in P
<1> DEFINE Q == {k \in Nat : k <= n => k \in P}
<1>1. 0 \in Q
  OBVIOUS
<1>2. ASSUME NEW k \in Nat, k \in Q PROVE k + 1 \in Q
  <2>1. CASE k + 1 <= n
    <3>1. k + 1 \in 1..n /\ (k + 1) - 1 = k /\ k \in P
      BY <1>2, <2>1
    <3>2. k + 1 \in P
      BY <3>1
    <3>3. QED
      BY <3>2
  <2>2. CASE ~(k + 1 <= n)
    BY <2>2
  <2>3. QED
    BY <2>1, <2>2
<1>3. Nat \subseteq Q
  <2> HIDE DEF Q
  <2>1. QED
    BY <1>1, <1>2, NaturalInduction
<1>4. QED
  BY <1>3

-----------------------------------------------------------------------------
(* The loops of the queue, round by round.                                 *)

\* What a loop of a sift begins with.
At(q, i) == [queue |-> q, at |-> i]

\* siftUp.
RisesFor(round, q, i, m) ==
  round = [n \in 0..m |-> IF n = 0 THEN At(q, i) ELSE Rise(round[n - 1])]
Rises(q, i) == CHOOSE round : RisesFor(round, q, i, i)

LEMMA RisesExist ==
  ASSUME NEW q, NEW i, NEW n \in Nat PROVE \E round : RisesFor(round, q, i, n)
<1> DEFINE P == {m \in Nat : \E round : RisesFor(round, q, i, m)}
<1>1. 0 \in P
  <2> DEFINE round == [k \in 0..0 |-> At(q, i)]
  <2>1. RisesFor(round, q, i, 0)
    BY DEF RisesFor
  <2>2. QED
    BY <2>1
<1>2. ASSUME NEW m \in Nat, m \in P PROVE m + 1 \in P
  <2>1. PICK round : RisesFor(round, q, i, m)
    BY <1>2
  <2> DEFINE more == [k \in 0..m + 1 |-> IF k = 0 THEN At(q, i) ELSE Rise(round[k - 1])]
  <2>2. ASSUME NEW k \in 0..m + 1, k # 0 PROVE more[k - 1] = round[k - 1]
    <3>1. k - 1 \in 0..m /\ k - 1 \in 0..m + 1
      BY <2>2
    <3>2. QED
      BY <2>1, <3>1 DEF RisesFor
  <2>3. more = [k \in 0..m + 1 |-> IF k = 0 THEN At(q, i) ELSE Rise(more[k - 1])]
    BY <2>2
  <2> HIDE DEF more
  <2>4. RisesFor(more, q, i, m + 1)
    BY <2>3 DEF RisesFor
  <2>5. QED
    BY <2>4
<1>3. Nat \subseteq P
  <2> HIDE DEF P
  <2>1. QED
    BY <1>1, <1>2, NaturalInduction
<1>4. QED
  BY <1>3

LEMMA SiftUpRounds ==
  ASSUME NEW q, NEW i, i \in Nat
  PROVE  /\ SiftUp(q, i) = Rises(q, i)[i].queue
         /\ Rises(q, i)[0] = At(q, i)
         /\ \A n \in 1..i : Rises(q, i)[n] = Rise(Rises(q, i)[n - 1])
<1> DEFINE r == Rises(q, i)
           last == i
<1>1. SiftUp(q, i) = r[last].queue
  BY Zenon DEF SiftUp, Rises, RisesFor, At
<1>2. \E round : RisesFor(round, q, i, last)
  BY RisesExist
<1>3. RisesFor(r, q, i, last)
  BY <1>2, Zenon DEF Rises
<1>4. last \in Nat
  OBVIOUS
<1> HIDE DEF r, last
<1>5. r[0] = At(q, i)
  BY <1>3, <1>4 DEF RisesFor
<1>6. ASSUME NEW n \in 1..last PROVE r[n] = Rise(r[n - 1])
  <2>1. n \in 0..last /\ n # 0
    BY <1>4
  <2>2. QED
    BY <1>3, <2>1 DEF RisesFor
<1>7. QED
  BY <1>1, <1>5, <1>6 DEF r, last

\* siftDown.
SinksFor(round, q, i, m) ==
  round = [n \in 0..m |-> IF n = 0 THEN At(q, i) ELSE Sink(round[n - 1])]
Sinks(q, i) == CHOOSE round : SinksFor(round, q, i, Len(q.heap))

LEMMA SinksExist ==
  ASSUME NEW q, NEW i, NEW n \in Nat PROVE \E round : SinksFor(round, q, i, n)
<1> DEFINE P == {m \in Nat : \E round : SinksFor(round, q, i, m)}
<1>1. 0 \in P
  <2> DEFINE round == [k \in 0..0 |-> At(q, i)]
  <2>1. SinksFor(round, q, i, 0)
    BY DEF SinksFor
  <2>2. QED
    BY <2>1
<1>2. ASSUME NEW m \in Nat, m \in P PROVE m + 1 \in P
  <2>1. PICK round : SinksFor(round, q, i, m)
    BY <1>2
  <2> DEFINE more == [k \in 0..m + 1 |-> IF k = 0 THEN At(q, i) ELSE Sink(round[k - 1])]
  <2>2. ASSUME NEW k \in 0..m + 1, k # 0 PROVE more[k - 1] = round[k - 1]
    <3>1. k - 1 \in 0..m /\ k - 1 \in 0..m + 1
      BY <2>2
    <3>2. QED
      BY <2>1, <3>1 DEF SinksFor
  <2>3. more = [k \in 0..m + 1 |-> IF k = 0 THEN At(q, i) ELSE Sink(more[k - 1])]
    BY <2>2
  <2> HIDE DEF more
  <2>4. SinksFor(more, q, i, m + 1)
    BY <2>3 DEF SinksFor
  <2>5. QED
    BY <2>4
<1>3. Nat \subseteq P
  <2> HIDE DEF P
  <2>1. QED
    BY <1>1, <1>2, NaturalInduction
<1>4. QED
  BY <1>3

LEMMA SiftDownRounds ==
  ASSUME NEW q, NEW i, Len(q.heap) \in Nat
  PROVE  /\ SiftDown(q, i) = Sinks(q, i)[Len(q.heap)].queue
         /\ Sinks(q, i)[0] = At(q, i)
         /\ \A n \in 1..Len(q.heap) : Sinks(q, i)[n] = Sink(Sinks(q, i)[n - 1])
<1> DEFINE r == Sinks(q, i)
           last == Len(q.heap)
<1>1. SiftDown(q, i) = r[last].queue
  BY Zenon DEF SiftDown, Sinks, SinksFor, At
<1>2. \E round : SinksFor(round, q, i, last)
  BY SinksExist
<1>3. SinksFor(r, q, i, last)
  BY <1>2, Zenon DEF Sinks
<1>4. last \in Nat
  OBVIOUS
<1> HIDE DEF r, last
<1>5. r[0] = At(q, i)
  BY <1>3, <1>4 DEF SinksFor
<1>6. ASSUME NEW n \in 1..last PROVE r[n] = Sink(r[n - 1])
  <2>1. n \in 0..last /\ n # 0
    BY <1>4
  <2>2. QED
    BY <1>3, <2>1 DEF SinksFor
<1>7. QED
  BY <1>1, <1>5, <1>6 DEF r, last

\* The loop of restoreState.
Middle(q) == Len(q.heap) \div 2
SiftPlace(q, s, n) == SiftDown(s, Middle(q) + 1 - n)
HeapsFor(round, q, m) ==
  round = [n \in 0..m |-> IF n = 0 THEN q ELSE SiftPlace(q, round[n - 1], n)]
Heaps(q) == CHOOSE round : HeapsFor(round, q, Middle(q))

LEMMA HeapsExist ==
  ASSUME NEW q, NEW n \in Nat PROVE \E round : HeapsFor(round, q, n)
<1> DEFINE P == {m \in Nat : \E round : HeapsFor(round, q, m)}
<1>1. 0 \in P
  <2> DEFINE round == [k \in 0..0 |-> q]
  <2>1. HeapsFor(round, q, 0)
    BY DEF HeapsFor
  <2>2. QED
    BY <2>1
<1>2. ASSUME NEW m \in Nat, m \in P PROVE m + 1 \in P
  <2>1. PICK round : HeapsFor(round, q, m)
    BY <1>2
  <2> DEFINE more == [k \in 0..m + 1 |-> IF k = 0 THEN q ELSE SiftPlace(q, round[k - 1], k)]
  <2>2. ASSUME NEW k \in 0..m + 1, k # 0 PROVE more[k - 1] = round[k - 1]
    <3>1. k - 1 \in 0..m /\ k - 1 \in 0..m + 1
      BY <2>2
    <3>2. QED
      BY <2>1, <3>1 DEF HeapsFor
  <2>3. more = [k \in 0..m + 1 |-> IF k = 0 THEN q ELSE SiftPlace(q, more[k - 1], k)]
    BY <2>2
  <2> HIDE DEF more
  <2>4. HeapsFor(more, q, m + 1)
    BY <2>3 DEF HeapsFor
  <2>5. QED
    BY <2>4
<1>3. Nat \subseteq P
  <2> HIDE DEF P
  <2>1. QED
    BY <1>1, <1>2, NaturalInduction
<1>4. QED
  BY <1>3

LEMMA HeapifyRounds ==
  ASSUME NEW q, Middle(q) \in Nat
  PROVE  /\ Heapify(q) = Heaps(q)[Middle(q)]
         /\ Heaps(q)[0] = q
         /\ \A n \in 1..Middle(q) : Heaps(q)[n] = SiftPlace(q, Heaps(q)[n - 1], n)
<1> DEFINE r == Heaps(q)
           last == Middle(q)
<1>1. Heapify(q) = r[last]
  BY Zenon DEF Heapify, Heaps, HeapsFor, SiftPlace, Middle
<1>2. \E round : HeapsFor(round, q, last)
  BY HeapsExist
<1>3. HeapsFor(r, q, last)
  BY <1>2, Zenon DEF Heaps
<1>4. last \in Nat
  OBVIOUS
<1> HIDE DEF r, last
<1>5. r[0] = q
  BY <1>3, <1>4 DEF HeapsFor
<1>6. ASSUME NEW n \in 1..last PROVE r[n] = SiftPlace(q, r[n - 1], n)
  <2>1. n \in 0..last /\ n # 0
    BY <1>4
  <2>2. QED
    BY <1>3, <2>1 DEF HeapsFor
<1>7. QED
  BY <1>1, <1>5, <1>6 DEF r, last

\* pruneCancelled.
PrunesFor(round, q, gone, m) ==
  round = [n \in 0..m |-> IF n = 0 THEN q ELSE PruneRoot(round[n - 1], gone)]
Prunes(q, gone) == CHOOSE round : PrunesFor(round, q, gone, Len(q.heap))

LEMMA PrunesExist ==
  ASSUME NEW q, NEW gone, NEW n \in Nat PROVE \E round : PrunesFor(round, q, gone, n)
<1> DEFINE P == {m \in Nat : \E round : PrunesFor(round, q, gone, m)}
<1>1. 0 \in P
  <2> DEFINE round == [k \in 0..0 |-> q]
  <2>1. PrunesFor(round, q, gone, 0)
    BY DEF PrunesFor
  <2>2. QED
    BY <2>1
<1>2. ASSUME NEW m \in Nat, m \in P PROVE m + 1 \in P
  <2>1. PICK round : PrunesFor(round, q, gone, m)
    BY <1>2
  <2> DEFINE more == [k \in 0..m + 1 |-> IF k = 0 THEN q ELSE PruneRoot(round[k - 1], gone)]
  <2>2. ASSUME NEW k \in 0..m + 1, k # 0 PROVE more[k - 1] = round[k - 1]
    <3>1. k - 1 \in 0..m /\ k - 1 \in 0..m + 1
      BY <2>2
    <3>2. QED
      BY <2>1, <3>1 DEF PrunesFor
  <2>3. more = [k \in 0..m + 1 |-> IF k = 0 THEN q ELSE PruneRoot(more[k - 1], gone)]
    BY <2>2
  <2> HIDE DEF more
  <2>4. PrunesFor(more, q, gone, m + 1)
    BY <2>3 DEF PrunesFor
  <2>5. QED
    BY <2>4
<1>3. Nat \subseteq P
  <2> HIDE DEF P
  <2>1. QED
    BY <1>1, <1>2, NaturalInduction
<1>4. QED
  BY <1>3

LEMMA PruneRounds ==
  ASSUME NEW q, NEW gone, Len(q.heap) \in Nat
  PROVE  /\ Prune(q, gone) = Prunes(q, gone)[Len(q.heap)]
         /\ Prunes(q, gone)[0] = q
         /\ \A n \in 1..Len(q.heap) :
              Prunes(q, gone)[n] = PruneRoot(Prunes(q, gone)[n - 1], gone)
<1> DEFINE r == Prunes(q, gone)
           last == Len(q.heap)
<1>1. Prune(q, gone) = r[last]
  BY Zenon DEF Prune, Prunes, PrunesFor
<1>2. \E round : PrunesFor(round, q, gone, last)
  BY PrunesExist
<1>3. PrunesFor(r, q, gone, last)
  BY <1>2, Zenon DEF Prunes
<1>4. last \in Nat
  OBVIOUS
<1> HIDE DEF r, last
<1>5. r[0] = q
  BY <1>3, <1>4 DEF PrunesFor
<1>6. ASSUME NEW n \in 1..last PROVE r[n] = PruneRoot(r[n - 1], gone)
  <2>1. n \in 0..last /\ n # 0
    BY <1>4
  <2>2. QED
    BY <1>3, <2>1 DEF PrunesFor
<1>7. QED
  BY <1>1, <1>5, <1>6 DEF r, last

\* The filter of serializeState.
Keep(s, e, gone) == IF e \in gone THEN s ELSE Append(s, e)
KeepsFor(kept, h, gone, m) ==
  kept = [n \in 0..m |-> IF n = 0 THEN << >> ELSE Keep(kept[n - 1], h[n], gone)]
Keeps(h, gone) == CHOOSE kept : KeepsFor(kept, h, gone, Len(h))

LEMMA KeepsExist ==
  ASSUME NEW h, NEW gone, NEW n \in Nat PROVE \E kept : KeepsFor(kept, h, gone, n)
<1> DEFINE P == {m \in Nat : \E kept : KeepsFor(kept, h, gone, m)}
<1>1. 0 \in P
  <2> DEFINE kept == [k \in 0..0 |-> << >>]
  <2>1. KeepsFor(kept, h, gone, 0)
    BY DEF KeepsFor
  <2>2. QED
    BY <2>1
<1>2. ASSUME NEW m \in Nat, m \in P PROVE m + 1 \in P
  <2>1. PICK kept : KeepsFor(kept, h, gone, m)
    BY <1>2
  <2> DEFINE more == [k \in 0..m + 1 |->
                    IF k = 0 THEN << >> ELSE Keep(kept[k - 1], h[k], gone)]
  <2>2. ASSUME NEW k \in 0..m + 1, k # 0 PROVE more[k - 1] = kept[k - 1]
    <3>1. k - 1 \in 0..m /\ k - 1 \in 0..m + 1
      BY <2>2
    <3>2. QED
      BY <2>1, <3>1 DEF KeepsFor
  <2>3. more = [k \in 0..m + 1 |-> IF k = 0 THEN << >> ELSE Keep(more[k - 1], h[k], gone)]
    BY <2>2
  <2> HIDE DEF more
  <2>4. KeepsFor(more, h, gone, m + 1)
    BY <2>3 DEF KeepsFor
  <2>5. QED
    BY <2>4
<1>3. Nat \subseteq P
  <2> HIDE DEF P
  <2>1. QED
    BY <1>1, <1>2, NaturalInduction
<1>4. QED
  BY <1>3

LEMMA UnmarkedRounds ==
  ASSUME NEW h, NEW gone, Len(h) \in Nat
  PROVE  /\ Unmarked(h, gone) = Keeps(h, gone)[Len(h)]
         /\ Keeps(h, gone)[0] = << >>
         /\ \A n \in 1..Len(h) : Keeps(h, gone)[n] = Keep(Keeps(h, gone)[n - 1], h[n], gone)
<1> DEFINE r == Keeps(h, gone)
           last == Len(h)
<1>1. Unmarked(h, gone) = r[last]
  BY Zenon DEF Unmarked, Keeps, KeepsFor, Keep
<1>2. \E kept : KeepsFor(kept, h, gone, last)
  BY KeepsExist
<1>3. KeepsFor(r, h, gone, last)
  BY <1>2, Zenon DEF Keeps
<1>4. last \in Nat
  OBVIOUS
<1> HIDE DEF r, last
<1>5. r[0] = << >>
  BY <1>3, <1>4 DEF KeepsFor
<1>6. ASSUME NEW n \in 1..last PROVE r[n] = Keep(r[n - 1], h[n], gone)
  <2>1. n \in 0..last /\ n # 0
    BY <1>4
  <2>2. QED
    BY <1>3, <2>1 DEF KeepsFor
<1>7. QED
  BY <1>1, <1>5, <1>6 DEF r, last

-----------------------------------------------------------------------------
(* The order of events, and exchanges in a heap.                           *)

LEMMA LessIsOrder ==
  ASSUME NEW a \in Entry, NEW b \in Entry, NEW c \in Entry
  PROVE  /\ Less(a, b) => ~Less(b, a)
         /\ ~Less(a, b) /\ ~Less(b, c) => ~Less(a, c)
         /\ ~Less(a, a)
<1>1. /\ a.time \in Int /\ b.time \in Int /\ c.time \in Int
      /\ a.prio \in Int /\ b.prio \in Int /\ c.prio \in Int
      /\ a.seq \in Int /\ b.seq \in Int /\ c.seq \in Int
  BY DEF Entry
<1>2. QED
  BY <1>1 DEF Less

\* No two events of a list have one id.
Distinct(h) == \A i, j \in 1..Len(h) : Id(h[i]) = Id(h[j]) => i = j

\* r has the events of q, and its map is right if that of q is.
Permuted(q, r) ==
  /\ r.heap \in Seq(Entry) /\ Len(r.heap) = Len(q.heap)
  /\ Range(r.heap) = Range(q.heap)
  /\ Distinct(q.heap) => Distinct(r.heap)
  /\ Indexed(q) => Indexed(r)

LEMMA PermutedAgain ==
  ASSUME NEW q, NEW r, NEW s, Permuted(q, r), Permuted(r, s) PROVE Permuted(q, s)
BY DEF Permuted

LEMMA NotPermuted == ASSUME NEW q, q.heap \in Seq(Entry) PROVE Permuted(q, q)
BY DEF Permuted

LEMMA SwapHeap ==
  ASSUME NEW q, q.heap \in Seq(Entry), NEW i \in 1..Len(q.heap), NEW j \in 1..Len(q.heap),
         i # j
  PROVE  LET g == Swap(q, i, j).heap IN
         /\ g \in Seq(Entry) /\ Len(g) = Len(q.heap)
         /\ g[i] = q.heap[j] /\ g[j] = q.heap[i]
         /\ \A k \in 1..Len(q.heap) : k # i /\ k # j => g[k] = q.heap[k]
<1> DEFINE h == q.heap
           g == [[h EXCEPT ![i] = h[j]] EXCEPT ![j] = h[i]]
<1>1. Swap(q, i, j).heap = g
  BY DEF Swap, Place
<1>2. h \in [1..Len(h) -> Entry] /\ Len(h) \in Nat
  OBVIOUS
<1>3. g \in [1..Len(h) -> Entry]
  BY <1>2
<1>4. g \in Seq(Entry) /\ Len(g) = Len(h)
  <2> HIDE DEF g, h
  <2>1. QED
    BY <1>2, <1>3
<1>5. g[i] = h[j] /\ g[j] = h[i] /\ \A k \in 1..Len(h) : k # i /\ k # j => g[k] = h[k]
  BY <1>2
<1>6. QED
  BY <1>1, <1>4, <1>5

LEMMA SwapIndex ==
  ASSUME NEW q, NEW i, NEW j
  PROVE  LET x == Swap(q, i, j).index
             a == Id(q.heap[i])
             b == Id(q.heap[j]) IN
         /\ DOMAIN x = DOMAIN q.index \cup {a, b}
         /\ x[a] = j /\ (a # b => x[b] = i)
         /\ \A k \in DOMAIN q.index : k # a /\ k # b => x[k] = q.index[k]
BY DEF Swap, Place, Note

LEMMA SwapPermutes ==
  ASSUME NEW q, q.heap \in Seq(Entry), NEW i \in 1..Len(q.heap), NEW j \in 1..Len(q.heap),
         i # j
  PROVE  Permuted(q, Swap(q, i, j))
<1> DEFINE r == Swap(q, i, j)
           h == q.heap
           g == r.heap
           n == Len(h)
<1>1. /\ g \in Seq(Entry) /\ Len(g) = n /\ n \in Nat
      /\ g[i] = h[j] /\ g[j] = h[i] /\ \A k \in 1..n : k # i /\ k # j => g[k] = h[k]
  BY SwapHeap
<1>2. /\ DOMAIN r.index = DOMAIN q.index \cup {Id(h[i]), Id(h[j])}
      /\ r.index[Id(h[i])] = j /\ (Id(h[i]) # Id(h[j]) => r.index[Id(h[j])] = i)
      /\ \A k \in DOMAIN q.index : k # Id(h[i]) /\ k # Id(h[j]) => r.index[k] = q.index[k]
  BY SwapIndex
<1> DEFINE x == r.index
<1> HIDE DEF r
<1>3. DOMAIN g = 1..n /\ DOMAIN h = 1..n
  BY <1>1
<1>4. Range(g) = Range(h)
  <2>1. ASSUME NEW k \in 1..n PROVE h[k] \in Range(g) /\ g[k] \in Range(h)
    BY <1>1, <1>3, <2>1 DEF Range
  <2>2. QED
    BY <1>3, <2>1 DEF Range
<1>5. ASSUME Distinct(h) PROVE Distinct(g)
  <2> SUFFICES ASSUME NEW k \in 1..n, NEW l \in 1..n, Id(g[k]) = Id(g[l]) PROVE k = l
    BY <1>1 DEF Distinct
  <2> DEFINE from(m) == IF m = i THEN j ELSE IF m = j THEN i ELSE m
  <2>1. from(k) \in 1..n /\ from(l) \in 1..n /\ g[k] = h[from(k)] /\ g[l] = h[from(l)]
    BY <1>1
  <2>2. from(k) = from(l)
    BY <1>5, <2>1 DEF Distinct
  <2>3. QED
    BY <2>2
<1>6. ASSUME Indexed(q) PROVE Indexed(r)
  <2>1. /\ DOMAIN q.index = {Id(e) : e \in Range(h)}
        /\ \A k \in 1..n : q.index[Id(h[k])] = k
    BY <1>3, <1>6 DEF Indexed
  <2>2. h[i] \in Range(h) /\ h[j] \in Range(h)
    BY <1>3 DEF Range
  <2>3. DOMAIN r.index = {Id(e) : e \in Range(g)}
    BY <1>2, <1>4, <2>1, <2>2
  <2>4. \A k, l \in 1..n : Id(h[k]) = Id(h[l]) => k = l
    BY <2>1
  <2>5. ASSUME NEW k \in 1..n PROVE r.index[Id(g[k])] = k
    <3>1. Id(h[i]) # Id(h[j])
      BY <2>4
    <3>2. CASE k = i
      BY <1>1, <1>2, <3>1, <3>2
    <3>3. CASE k = j
      BY <1>1, <1>2, <3>3
    <3>4. CASE k # i /\ k # j
      <4>1. g[k] = h[k] /\ Id(h[k]) # Id(h[i]) /\ Id(h[k]) # Id(h[j])
        BY <1>1, <2>4, <3>4
      <4>2. Id(h[k]) \in DOMAIN q.index
        BY <1>3, <2>1 DEF Range
      <4>3. QED
        BY <1>2, <2>1, <4>1, <4>2
    <3>5. QED
      BY <3>2, <3>3, <3>4
  <2>6. QED
    BY <1>3, <2>3, <2>5 DEF Indexed
<1>7. QED
  BY <1>1, <1>4, <1>5, <1>6 DEF Permuted, r

-----------------------------------------------------------------------------
(* Sifting.                                                                *)

\* g is h with the places i and j exchanged.
Exchanged(h, g, i, j) ==
  /\ g \in Seq(Entry) /\ Len(g) = Len(h)
  /\ g[i] = h[j] /\ g[j] = h[i]
  /\ \A k \in 1..Len(h) : k # i /\ k # j => g[k] = h[k]

\* Halves of places.
LEMMA Parents ==
  ASSUME NEW i \in Nat
  PROVE  /\ i \div 2 \in Nat
         /\ i >= 2 => i \div 2 >= 1 /\ i \div 2 < i
         /\ i = 2 * (i \div 2) \/ i = 2 * (i \div 2) + 1
         /\ \A m \in Nat : i \div 2 >= m <=> i >= 2 * m
OBVIOUS

\* The heap is ordered but for the place `at', which may be too low.
Rising(h, at) ==
  /\ \A i \in 2..Len(h) : i # at => ~Less(h[i], h[i \div 2])
  /\ \A i \in 2..Len(h) : i \div 2 = at /\ at > 1 => ~Less(h[i], h[at \div 2])

LEMMA RisingOn ==
  ASSUME NEW h \in Seq(Entry), NEW at \in 2..Len(h), Rising(h, at),
         Less(h[at], h[at \div 2]), NEW g, Exchanged(h, g, at, at \div 2)
  PROVE  Rising(g, at \div 2)
<1> DEFINE n == Len(h)
           p == at \div 2
<1>1. /\ n \in Nat /\ p \in 1..n /\ p < at /\ at \in 2..n /\ Len(g) = n
      /\ g[at] = h[p] /\ g[p] = h[at] /\ Less(h[at], h[p])
      /\ \A k \in 1..n : k # at /\ k # p => g[k] = h[k]
  BY Parents DEF Exchanged
<1>2. \A k \in 1..n : h[k] \in Entry
  OBVIOUS
<1>3. /\ \A i \in 2..n : i # at => ~Less(h[i], h[i \div 2])
      /\ \A i \in 2..n : i \div 2 = at => ~Less(h[i], h[p])
  BY <1>1 DEF Rising
<1>4. \A i \in 2..n : i \in 1..n /\ i \div 2 \in 1..n /\ i \div 2 < i
  BY <1>1, Parents
<1> HIDE DEF n, p
<1>5. ASSUME NEW i \in 2..n, i # p PROVE ~Less(g[i], g[i \div 2])
  <2>1. CASE i = at
    BY <1>1, <1>2, <2>1, LessIsOrder DEF p
  <2>2. CASE i # at /\ i \div 2 = p
    <3>1. g[i] = h[i] /\ g[i \div 2] = h[at] /\ ~Less(h[i], h[p])
      BY <1>1, <1>3, <1>4, <1>5, <2>2
    <3>2. ~Less(h[p], h[at]) /\ h[i] \in Entry /\ h[p] \in Entry /\ h[at] \in Entry
      BY <1>1, <1>2, <1>4, LessIsOrder
    <3>3. QED
      BY <3>1, <3>2, LessIsOrder
  <2>3. CASE i # at /\ i \div 2 = at
    BY <1>1, <1>3, <1>4, <1>5, <2>3
  <2>4. CASE i # at /\ i \div 2 # p /\ i \div 2 # at
    BY <1>1, <1>3, <1>4, <1>5, <2>4
  <2>5. QED
    BY <2>1, <2>2, <2>3, <2>4
<1>6. ASSUME NEW i \in 2..n, i \div 2 = p, p > 1 PROVE ~Less(g[i], g[p \div 2])
  <2>1. p \in 2..n /\ p \div 2 \in 1..n /\ p \div 2 < p
    BY <1>1, <1>4, <1>6
  <2>2. g[p \div 2] = h[p \div 2] /\ ~Less(h[p], h[p \div 2])
    BY <1>1, <1>3, <2>1
  <2>3. CASE i = at
    BY <1>1, <2>2, <2>3
  <2>4. CASE i # at
    <3>1. g[i] = h[i] /\ ~Less(h[i], h[p])
      BY <1>1, <1>3, <1>4, <1>6, <2>4
    <3>2. h[i] \in Entry /\ h[p] \in Entry /\ h[p \div 2] \in Entry
      BY <1>1, <1>2, <1>4, <2>1
    <3>3. QED
      BY <2>2, <3>1, <3>2, LessIsOrder
  <2>5. QED
    BY <2>3, <2>4
<1>7. QED
  BY <1>1, <1>5, <1>6 DEF Rising, n, p

\* siftUp mends a heap in which the last step was an addition at the place i.
LEMMA SiftUpMends ==
  ASSUME NEW q, q.heap \in Seq(Entry), NEW i \in 1..Len(q.heap), Rising(q.heap, i)
  PROVE  Permuted(q, SiftUp(q, i)) /\ Ordered(SiftUp(q, i).heap)
<1> DEFINE r == Rises(q, i)
           Arrived(s) == ~(s.at > 1 /\ Less(s.queue.heap[s.at], s.queue.heap[s.at \div 2]))
           Good(s) == /\ Permuted(q, s.queue) /\ s.at \in 1..Len(q.heap)
                      /\ Rising(s.queue.heap, s.at)
           P == {k \in 0..i : Good(r[k]) /\ (Arrived(r[k]) \/ r[k].at <= i - k)}
<1>1. /\ SiftUp(q, i) = r[i].queue /\ r[0] = At(q, i)
      /\ \A k \in 1..i : r[k] = Rise(r[k - 1])
  BY SiftUpRounds
<1>2. i \in Nat /\ Len(q.heap) \in Nat
  OBVIOUS
<1> HIDE DEF r
<1>3. 0 \in P
  <2>1. r[0].queue = q /\ r[0].at = i
    BY <1>1 DEF At
  <2>2. QED
    BY <1>2, <2>1, NotPermuted
<1>4. ASSUME NEW k \in 1..i, k - 1 \in P PROVE k \in P
  <2> DEFINE s == r[k - 1]
             h == s.queue.heap
  <2>1. Good(s) /\ (Arrived(s) \/ s.at <= i - (k - 1)) /\ r[k] = Rise(s)
    BY <1>1, <1>4
  <2>2. CASE Arrived(s)
    <3>1. r[k] = s
      BY <2>1, <2>2 DEF Rise
    <3>2. QED
      BY <2>1, <2>2, <3>1
  <2>3. CASE ~Arrived(s)
    <3> DEFINE p == s.at \div 2
    <3>1. r[k] = [queue |-> Swap(s.queue, s.at, p), at |-> p]
      BY <2>1, <2>3 DEF Rise
    <3>2. h \in Seq(Entry) /\ Len(h) = Len(q.heap) /\ s.at \in 2..Len(h)
      BY <2>1, <2>3 DEF Permuted
    <3>3. p \in 1..Len(h) /\ p < s.at /\ p # s.at
      BY <3>2, Parents
    <3>4. Exchanged(h, Swap(s.queue, s.at, p).heap, s.at, p)
      <4>1. s.at \in 1..Len(h)
        BY <3>2
      <4> HIDE DEF p
      <4>2. QED
        BY <3>2, <3>3, <4>1, SwapHeap DEF Exchanged
    <3>5. Rising(Swap(s.queue, s.at, p).heap, p)
      BY <2>1, <2>3, <3>2, <3>4, RisingOn
    <3>6. Permuted(q, Swap(s.queue, s.at, p))
      <4>1. Permuted(s.queue, Swap(s.queue, s.at, p))
        BY <3>2, <3>3, SwapPermutes
      <4>2. QED
        BY <2>1, <4>1, PermutedAgain
    <3>7. Good(r[k])
      BY <3>1, <3>2, <3>3, <3>5, <3>6
    <3>8. r[k].at <= i - k
      <4>1. r[k].at = p /\ s.at <= i - (k - 1)
        BY <2>1, <2>3, <3>1
      <4>2. QED
        BY <1>2, <3>2, <3>3, <4>1
    <3>9. QED
      BY <3>7, <3>8
  <2>4. QED
    BY <2>2, <2>3
<1>5. i \in P
  <2> HIDE DEF P
  <2>1. \A k \in 0..i : k \in P
    BY <1>2, <1>3, <1>4, RoundInduction
  <2>2. QED
    BY <1>2, <2>1
<1>6. Good(r[i]) /\ Arrived(r[i])
  <2>1. Good(r[i]) /\ (Arrived(r[i]) \/ r[i].at <= i - i)
    BY <1>5
  <2>2. QED
    BY <1>2, <2>1
<1>7. Ordered(r[i].queue.heap)
  <2> DEFINE h == r[i].queue.heap
  <2>1. /\ \A j \in 2..Len(h) : j # r[i].at => ~Less(h[j], h[j \div 2])
        /\ r[i].at \in 1..Len(h)
    BY <1>6 DEF Rising, Permuted
  <2>2. ~(r[i].at > 1 /\ Less(h[r[i].at], h[r[i].at \div 2]))
    BY <1>6
  <2> HIDE DEF h
  <2>3. ASSUME NEW j \in 2..Len(h) PROVE ~Less(h[j], h[j \div 2])
    <3>1. CASE j = r[i].at
      BY <2>2, <3>1
    <3>2. CASE j # r[i].at
      BY <2>1, <3>2
    <3>3. QED
      BY <3>1, <3>2
  <2>4. Ordered(h)
    BY <2>3 DEF Ordered
  <2>5. QED
    BY <2>4 DEF h
<1>8. QED
  BY <1>1, <1>6, <1>7

\* The events below the place `from' are in order.
OrderedFrom(h, from) ==
  \A i \in 2..Len(h) : i \div 2 >= from => ~Less(h[i], h[i \div 2])

\* They are but for the place `at', which may be too high.
Sinking(h, from, at) ==
  /\ \A i \in 2..Len(h) : i \div 2 >= from /\ i \div 2 # at => ~Less(h[i], h[i \div 2])
  /\ \A i \in 2..Len(h) : i \div 2 = at /\ at \div 2 >= from => ~Less(h[i], h[at \div 2])

\* Which child siftDown looks at.
LEMMA TheSmallerChild ==
  ASSUME NEW h \in Seq(Entry), NEW at \in Nat, at >= 1, 2 * at <= Len(h)
  PROVE  LET c == SmallerChild(h, at) IN
         /\ c \in 2..Len(h) /\ c \div 2 = at /\ c > at
         /\ \A i \in 2..Len(h) : i \div 2 = at => ~Less(h[i], h[c])
<1> DEFINE n == Len(h)
           c == SmallerChild(h, at)
<1>1. n \in Nat /\ \A k \in 1..n : h[k] \in Entry
  OBVIOUS
<1> HIDE DEF n
<1>2. \A i \in 2..n : i \div 2 = at => i = 2 * at \/ i = 2 * at + 1
  BY <1>1, Parents
<1>3. /\ (2 * at) \div 2 = at /\ (2 * at + 1) \div 2 = at
      /\ 2 * at \in 2..n /\ 2 * at > at /\ 2 * at + 1 > at
      /\ 2 * at < n => 2 * at + 1 \in 2..n
  BY <1>1 DEF n
<1>4. CASE 2 * at < n /\ Less(h[2 * at + 1], h[2 * at])
  <2>1. c = 2 * at + 1
    BY <1>4 DEF SmallerChild, n
  <2>2. /\ ~Less(h[2 * at], h[2 * at + 1])
        /\ ~Less(h[2 * at + 1], h[2 * at + 1])
    BY <1>1, <1>3, <1>4, LessIsOrder
  <2>3. QED
    BY <1>2, <1>3, <1>4, <2>1, <2>2 DEF n
<1>5. CASE ~(2 * at < n /\ Less(h[2 * at + 1], h[2 * at]))
  <2>1. c = 2 * at
    BY <1>5 DEF SmallerChild, n
  <2>2. ~Less(h[2 * at], h[2 * at])
    BY <1>1, <1>3, LessIsOrder
  <2>3. \A i \in 2..n : i = 2 * at + 1 => ~Less(h[i], h[2 * at])
    BY <1>1, <1>5
  <2>4. QED
    BY <1>2, <1>3, <2>1, <2>2, <2>3 DEF n
<1>6. QED
  BY <1>4, <1>5

LEMMA SinkingOn ==
  ASSUME NEW h \in Seq(Entry), NEW from \in Nat, NEW at \in 1..Len(h), NEW c \in 2..Len(h),
         from >= 1, at >= from, c \div 2 = at,
         \A i \in 2..Len(h) : i \div 2 = at => ~Less(h[i], h[c]),
         Sinking(h, from, at), Less(h[c], h[at]), NEW g, Exchanged(h, g, at, c)
  PROVE  Sinking(g, from, c)
<1> DEFINE n == Len(h)
<1>1. /\ n \in Nat /\ at \in 1..n /\ c \in 2..n /\ at < c /\ Len(g) = n
      /\ g[at] = h[c] /\ g[c] = h[at] /\ Less(h[c], h[at])
      /\ \A k \in 1..n : k # at /\ k # c => g[k] = h[k]
  BY Parents DEF Exchanged
<1>2. \A k \in 1..n : h[k] \in Entry
  OBVIOUS
<1>3. /\ \A i \in 2..n : i \div 2 >= from /\ i \div 2 # at => ~Less(h[i], h[i \div 2])
      /\ \A i \in 2..n : i \div 2 = at /\ at \div 2 >= from => ~Less(h[i], h[at \div 2])
      /\ \A i \in 2..n : i \div 2 = at => ~Less(h[i], h[c])
  BY DEF Sinking
<1>4. \A i \in 2..n : i \in 1..n /\ i \div 2 \in 1..n /\ i \div 2 < i
  BY <1>1, Parents
<1> HIDE DEF n
<1>5. ASSUME NEW i \in 2..n, i \div 2 >= from, i \div 2 # c PROVE ~Less(g[i], g[i \div 2])
  <2>1. CASE i = c
    BY <1>1, <1>2, <1>4, <2>1, LessIsOrder
  <2>2. CASE i # c /\ i \div 2 = at
    BY <1>1, <1>3, <1>4, <2>2
  <2>3. CASE i = at
    <3>1. g[i \div 2] = h[at \div 2]
      BY <1>1, <1>4, <1>5, <2>3
    <3>2. ~Less(h[c], h[at \div 2])
      BY <1>1, <1>3, <1>5, <2>3
    <3>3. QED
      BY <1>1, <2>3, <3>1, <3>2
  <2>4. CASE i # c /\ i # at /\ i \div 2 # at
    BY <1>1, <1>3, <1>4, <1>5, <2>4
  <2>5. QED
    BY <2>1, <2>2, <2>3, <2>4
<1>6. ASSUME NEW i \in 2..n, i \div 2 = c, c \div 2 >= from PROVE ~Less(g[i], g[c \div 2])
  <2>1. g[i] = h[i] /\ g[c \div 2] = h[c]
    BY <1>1, <1>4, <1>6
  <2>2. ~Less(h[i], h[c])
    BY <1>1, <1>3, <1>6
  <2>3. QED
    BY <2>1, <2>2
<1>7. QED
  BY <1>1, <1>5, <1>6 DEF Sinking, n

\* siftDown puts the place m in order with the places below.
LEMMA SiftDownMends ==
  ASSUME NEW q, q.heap \in Seq(Entry), NEW m \in Nat, m >= 1, OrderedFrom(q.heap, m + 1)
  PROVE  Permuted(q, SiftDown(q, m)) /\ OrderedFrom(SiftDown(q, m).heap, m)
<1> DEFINE n == Len(q.heap)
           r == Sinks(q, m)
           child(s) == SmallerChild(s.queue.heap, s.at)
           Arrived(s) == ~(/\ 2 * s.at <= n
                           /\ Less(s.queue.heap[child(s)], s.queue.heap[s.at]))
           Good(s) == /\ Permuted(q, s.queue) /\ s.at \in Nat /\ s.at >= m
                      /\ Sinking(s.queue.heap, m, s.at)
           P == {k \in 0..n : Good(r[k]) /\ (Arrived(r[k]) \/ r[k].at >= m + k)}
<1>1. n \in Nat
  OBVIOUS
<1>2. /\ SiftDown(q, m) = r[n].queue /\ r[0] = At(q, m)
      /\ \A k \in 1..n : r[k] = Sink(r[k - 1])
  BY SiftDownRounds
<1> HIDE DEF r
<1>3. 0 \in P
  <2>1. r[0].queue = q /\ r[0].at = m
    BY <1>2 DEF At
  <2>2. Sinking(q.heap, m, m)
    <3>1. m \div 2 < m
      OBVIOUS
    <3>2. \A i \in 2..Len(q.heap) : i \div 2 \in Nat /\ m \div 2 \in Nat
      BY Parents
    <3>3. QED
      BY <3>1, <3>2 DEF OrderedFrom, Sinking
  <2>3. QED
    BY <1>1, <2>1, <2>2, NotPermuted
<1>4. ASSUME NEW k \in 1..n, k - 1 \in P PROVE k \in P
  <2> DEFINE s == r[k - 1]
             h == s.queue.heap
             c == SmallerChild(h, s.at)
  <2>1. Good(s) /\ (Arrived(s) \/ s.at >= m + (k - 1)) /\ r[k] = Sink(s)
    BY <1>2, <1>4
  <2>2. h \in Seq(Entry) /\ Len(h) = n
    BY <2>1 DEF Permuted
  <2>3. CASE Arrived(s)
    <3>1. r[k] = s /\ k \in 0..n
      BY <1>1, <2>1, <2>2, <2>3 DEF Sink
    <3>2. Good(r[k]) /\ Arrived(r[k])
      BY <2>1, <2>3, <3>1
    <3>3. QED
      BY <3>1, <3>2
  <2>4. CASE ~Arrived(s)
    <3>1. r[k] = [queue |-> Swap(s.queue, s.at, c), at |-> c]
      BY <2>1, <2>2, <2>4 DEF Sink
    <3>2. /\ c \in 2..Len(h) /\ c \div 2 = s.at /\ c > s.at
          /\ \A i \in 2..Len(h) : i \div 2 = s.at => ~Less(h[i], h[c])
      <4>1. 2 * s.at <= Len(h) /\ s.at \in Nat /\ s.at >= 1
        BY <2>1, <2>2, <2>4
      <4> HIDE DEF s
      <4>2. QED
        BY <2>2, <4>1, TheSmallerChild
    <3>3. Less(h[c], h[s.at]) /\ s.at \in Nat /\ s.at >= m /\ 2 * s.at <= Len(h)
      BY <2>1, <2>2, <2>4
    <3> HIDE DEF c
    <3>4. s.at \in 1..Len(h) /\ c \in 1..Len(h) /\ c # s.at /\ c \in Nat
      BY <1>1, <2>2, <3>2, <3>3
    <3>5. Exchanged(h, Swap(s.queue, s.at, c).heap, s.at, c)
      BY <2>2, <3>4, SwapHeap DEF Exchanged
    <3>6. Sinking(Swap(s.queue, s.at, c).heap, m, c)
      BY <2>1, <2>2, <3>2, <3>3, <3>4, <3>5, SinkingOn
    <3>7. Permuted(q, Swap(s.queue, s.at, c))
      <4>1. Permuted(s.queue, Swap(s.queue, s.at, c))
        BY <2>2, <3>4, SwapPermutes
      <4>2. QED
        BY <2>1, <4>1, PermutedAgain
    <3>8. Good(r[k])
      BY <3>1, <3>2, <3>3, <3>4, <3>6, <3>7
    <3>9. r[k].at >= m + k
      <4>1. r[k].at = c /\ s.at >= m + (k - 1)
        BY <2>1, <2>4, <3>1
      <4>2. QED
        BY <3>2, <3>3, <3>4, <4>1
    <3>10. QED
      BY <3>8, <3>9
  <2>5. QED
    BY <2>3, <2>4
<1>5. n \in P
  <2> HIDE DEF P, n
  <2>1. \A k \in 0..n : k \in P
    BY <1>1, <1>3, <1>4, RoundInduction
  <2>2. QED
    BY <1>1, <2>1
<1> DEFINE s == r[n]
           h == s.queue.heap
<1>6. Good(s) /\ Arrived(s) /\ h \in Seq(Entry) /\ Len(h) = n
  <2>1. Good(s) /\ (Arrived(s) \/ s.at >= m + n)
    BY <1>5
  <2>2. s.at >= m + n /\ s.at \in Nat => ~(2 * s.at <= n)
    BY <1>1
  <2>3. h \in Seq(Entry) /\ Len(h) = n
    BY <2>1 DEF Permuted
  <2>4. QED
    BY <2>1, <2>2, <2>3
<1>7. ASSUME NEW i \in 2..n, i \div 2 >= m PROVE ~Less(h[i], h[i \div 2])
  <2>1. CASE i \div 2 # s.at
    BY <1>6, <1>7, <2>1 DEF Sinking
  <2>2. CASE i \div 2 = s.at
    <3> DEFINE c == SmallerChild(h, s.at)
    <3>1. 2 * s.at <= n /\ s.at \in Nat /\ s.at >= 1
      BY <1>1, <1>6, <2>2, Parents
    <3>2. /\ c \in 2..Len(h) /\ ~Less(h[i], h[c])
      BY <1>6, <1>7, <2>2, <3>1, TheSmallerChild
    <3>3. ~Less(h[c], h[s.at])
      BY <1>6, <3>1
    <3> HIDE DEF c
    <3>4. h[i] \in Entry /\ h[c] \in Entry /\ h[s.at] \in Entry
      <4>1. i \in 1..Len(h) /\ c \in 1..Len(h) /\ s.at \in 1..Len(h)
        BY <1>1, <1>6, <3>1, <3>2
      <4> HIDE DEF h, s
      <4>2. QED
        BY <1>6, <4>1, ElementOfSeq
    <3>5. QED
      BY <2>2, <3>2, <3>3, <3>4, LessIsOrder
  <2>3. QED
    BY <2>1, <2>2
<1>8. QED
  BY <1>2, <1>6, <1>7 DEF OrderedFrom

-----------------------------------------------------------------------------
(* The operations of the queue.                                            *)

LEMMA OrderedFromTop == ASSUME NEW h \in Seq(Entry), OrderedFrom(h, 1) PROVE Ordered(h)
<1>1. \A i \in 2..Len(h) : i \div 2 >= 1
  BY Parents
<1>2. QED
  BY <1>1 DEF OrderedFrom, Ordered

\* restoreState orders whatever list it is given.
LEMMA HeapifyMends ==
  ASSUME NEW q, q.heap \in Seq(Entry)
  PROVE  Permuted(q, Heapify(q)) /\ Ordered(Heapify(q).heap)
<1> DEFINE m == Middle(q)
           r == Heaps(q)
           P == {k \in 0..m : Permuted(q, r[k]) /\ OrderedFrom(r[k].heap, m + 1 - k)}
<1>1. m \in Nat /\ \A i \in 2..Len(q.heap) : ~(i \div 2 >= m + 1)
  <2>1. Len(q.heap) \in Nat
    OBVIOUS
  <2>2. m \in Nat /\ 2 * (m + 1) > Len(q.heap)
    <3> DEFINE l == Len(q.heap)
    <3>1. l \in Nat /\ m = l \div 2
      BY <2>1 DEF Middle
    <3> HIDE DEF l, m
    <3>2. m \in Nat /\ 2 * (m + 1) > l
      BY <3>1, Parents
    <3>3. QED
      BY <3>2 DEF l
  <2>3. QED
    BY <2>1, <2>2, Parents
<1>2. /\ Heapify(q) = r[m] /\ r[0] = q
      /\ \A k \in 1..m : r[k] = SiftPlace(q, r[k - 1], k)
  BY <1>1, HeapifyRounds
<1> HIDE DEF r, m
<1>3. 0 \in P
  <2>1. OrderedFrom(q.heap, m + 1 - 0)
    BY <1>1 DEF OrderedFrom
  <2>2. QED
    BY <1>1, <1>2, <2>1, NotPermuted
<1>4. ASSUME NEW k \in 1..m, k - 1 \in P PROVE k \in P
  <2> DEFINE s == r[k - 1]
             p == m + 1 - k
  <2>1. Permuted(q, s) /\ OrderedFrom(s.heap, p + 1) /\ p \in Nat /\ p >= 1
    <3>1. m + 1 - (k - 1) = p + 1
      BY <1>1
    <3>2. QED
      BY <1>1, <1>4, <3>1
  <2>2. r[k] = SiftDown(s, p)
    BY <1>2 DEF SiftPlace, m
  <2> HIDE DEF p, s
  <2>3. Permuted(s, r[k]) /\ OrderedFrom(r[k].heap, p)
    BY <2>1, <2>2, SiftDownMends DEF Permuted
  <2>4. Permuted(q, r[k])
    BY <2>1, <2>3, PermutedAgain
  <2>5. QED
    BY <1>1, <2>3, <2>4 DEF p
<1>5. m \in P
  <2> HIDE DEF P
  <2>1. \A k \in 0..m : k \in P
    BY <1>1, <1>3, <1>4, RoundInduction
  <2>2. QED
    BY <1>1, <2>1
<1>6. m + 1 - m = 1
  BY <1>1
<1>7. QED
  BY <1>2, <1>5, <1>6, OrderedFromTop DEF Permuted

\* What every operation leaves behind.
Sound(q) == q.heap \in Seq(Entry) /\ WellFormed(q)

LEMMA RestoreIsSound ==
  ASSUME NEW events \in Seq(Entry), Distinct(events)
  PROVE  Sound(Restore(events)) /\ Range(Restore(events).heap) = Range(events)
<1> DEFINE q == [heap |-> events, index |-> << >>]
           h == Heapify(q).heap
           r == Restore(events)
<1>1. /\ h \in Seq(Entry) /\ Range(h) = Range(events) /\ Distinct(h) /\ Ordered(h)
  BY HeapifyMends DEF Permuted
<1>2. /\ r.heap = h
      /\ r.index = [id \in {Id(e) : e \in Range(h)} |->
                    CHOOSE i \in DOMAIN h : Id(h[i]) = id]
  BY DEF Restore
<1> HIDE DEF h, r
<1>3. ASSUME NEW i \in DOMAIN h PROVE r.index[Id(h[i])] = i
  <2>1. h[i] \in Range(h) /\ DOMAIN h = 1..Len(h)
    BY <1>1 DEF Range
  <2> DEFINE j == CHOOSE k \in DOMAIN h : Id(h[k]) = Id(h[i])
  <2>2. j \in DOMAIN h /\ Id(h[j]) = Id(h[i])
    OBVIOUS
  <2>3. r.index[Id(h[i])] = j
    BY <1>2, <2>1
  <2> HIDE DEF j
  <2>4. j = i
    BY <1>1, <2>1, <2>2 DEF Distinct
  <2>5. QED
    BY <2>3, <2>4
<1>4. DOMAIN r.index = {Id(e) : e \in Range(h)}
  BY <1>2
<1>5. QED
  BY <1>1, <1>2, <1>3, <1>4 DEF Sound, WellFormed, Indexed, r

\* In a queue with a right map ids are different.
LEMMA IndexedDistinct ==
  ASSUME NEW q, q.heap \in Seq(Entry), Indexed(q) PROVE Distinct(q.heap)
BY DEF Indexed, Distinct

LEMMA AppendedRange ==
  ASSUME NEW s \in Seq(Entry), NEW e \in Entry
  PROVE  /\ Append(s, e) \in Seq(Entry) /\ Len(Append(s, e)) = Len(s) + 1
         /\ Append(s, e)[Len(s) + 1] = e
         /\ \A k \in 1..Len(s) : Append(s, e)[k] = s[k]
         /\ Range(Append(s, e)) = Range(s) \cup {e}
<1> DEFINE t == Append(s, e)
<1>1. /\ t \in Seq(Entry) /\ Len(t) = Len(s) + 1 /\ t[Len(s) + 1] = e
      /\ \A k \in 1..Len(s) : t[k] = s[k]
  BY AppendProperties
<1>2. DOMAIN t = 1..Len(s) + 1 /\ DOMAIN s = 1..Len(s) /\ Len(s) \in Nat
  BY <1>1
<1> HIDE DEF t
<1>3. \A k \in 1..Len(s) + 1 : k \in 1..Len(s) \/ k = Len(s) + 1
  BY <1>2
<1>4. ASSUME NEW f \in Range(t) PROVE f \in Range(s) \cup {e}
  BY <1>1, <1>2, <1>3 DEF Range
<1>5. ASSUME NEW f \in Range(s) \cup {e} PROVE f \in Range(t)
  <2>1. CASE f = e
    <3>1. Len(s) + 1 \in DOMAIN t
      BY <1>2
    <3>2. QED
      BY <1>1, <2>1, <3>1 DEF Range
  <2>2. CASE f \in Range(s)
    <3>1. PICK k \in 1..Len(s) : f = s[k]
      BY <1>2, <2>2 DEF Range
    <3>2. k \in DOMAIN t /\ t[k] = f
      BY <1>1, <1>2, <3>1
    <3>3. QED
      BY <3>2 DEF Range
  <2>3. QED
    BY <2>1, <2>2
<1>6. QED
  BY <1>1, <1>4, <1>5 DEF t

LEMMA PushIsSound ==
  ASSUME NEW q, Sound(q), NEW e \in Entry, Id(e) \notin {Id(f) : f \in Range(q.heap)}
  PROVE  /\ Sound(PushEvent(q, e))
         /\ Range(PushEvent(q, e).heap) = Range(q.heap) \cup {e}
<1> DEFINE h == q.heap
           n == Len(h) + 1
           g == Append(h, e)
           r == [heap |-> g, index |-> Note(q.index, Id(e), n)]
<1>1. /\ h \in Seq(Entry) /\ Len(h) \in Nat /\ n \in Nat /\ Ordered(h) /\ Indexed(q)
      /\ DOMAIN h = 1..Len(h)
  BY DEF Sound, WellFormed
<1>2. /\ g \in Seq(Entry) /\ Len(g) = n /\ g[n] = e /\ \A k \in 1..Len(h) : g[k] = h[k]
      /\ Range(g) = Range(h) \cup {e}
  BY <1>1, AppendedRange
<1> DEFINE x == Note(q.index, Id(e), n)
<1>3. PushEvent(q, e) = SiftUp(r, n) /\ r.heap = g /\ r.index = x
  BY DEF PushEvent
<1>4. /\ DOMAIN x = DOMAIN q.index \cup {Id(e)} /\ x[Id(e)] = n
      /\ \A id \in DOMAIN q.index : id # Id(e) => x[id] = q.index[id]
  BY DEF Note
<1> HIDE DEF r, g, x
<1>5. Rising(g, n)
  <2>1. ASSUME NEW i \in 2..n, i # n PROVE ~Less(g[i], g[i \div 2])
    <3>1. i \in 2..Len(h) /\ i \in 1..Len(h) /\ i \div 2 \in 1..Len(h)
      BY <1>1, <2>1, Parents
    <3>2. QED
      BY <1>1, <1>2, <3>1 DEF Ordered
  <2>2. ASSUME NEW i \in 2..n PROVE i \div 2 # n
    BY <1>1, Parents
  <2>3. QED
    BY <1>2, <2>1, <2>2 DEF Rising
<1>6. Indexed(r)
  <2>1. DOMAIN x = {Id(f) : f \in Range(g)}
    BY <1>1, <1>2, <1>4 DEF Indexed
  <2>2. ASSUME NEW k \in 1..n PROVE x[Id(g[k])] = k
    <3>1. CASE k = n
      BY <1>2, <1>4, <3>1
    <3>2. CASE k # n
      <4>1. k \in 1..Len(h) /\ g[k] = h[k] /\ h[k] \in Range(h)
        BY <1>1, <1>2, <3>2 DEF Range
      <4>2. Id(h[k]) # Id(e) /\ Id(h[k]) \in DOMAIN q.index /\ q.index[Id(h[k])] = k
        BY <1>1, <4>1 DEF Indexed
      <4>3. QED
        BY <1>4, <4>1, <4>2
    <3>3. QED
      BY <3>1, <3>2
  <2>3. DOMAIN g = 1..n
    BY <1>2
  <2>4. QED
    BY <1>3, <2>1, <2>2, <2>3 DEF Indexed
<1>7. n \in 1..Len(r.heap) /\ r.heap \in Seq(Entry)
  BY <1>1, <1>2, <1>3
<1>8. Permuted(r, SiftUp(r, n)) /\ Ordered(SiftUp(r, n).heap)
  <2> HIDE DEF n
  <2>1. QED
    BY <1>3, <1>5, <1>7, SiftUpMends
<1>9. QED
  BY <1>2, <1>3, <1>6, <1>8 DEF Permuted, Sound, WellFormed

\* The map after the last event has taken the root's place.
LEMMA LastToRoot ==
  ASSUME NEW q, Sound(q), Len(q.heap) > 1
  PROVE  LET rest == [heap  |-> Front(q.heap), index |-> Forget(q.index, Id(q.heap[1]))]
             r == Place(rest, Last(q.heap), 1) IN
         /\ r.heap \in Seq(Entry) /\ Len(r.heap) = Len(q.heap) - 1
         /\ Range(r.heap) = Range(q.heap) \ {q.heap[1]}
         /\ Indexed(r) /\ OrderedFrom(r.heap, 2)
<1> DEFINE h == q.heap
           n == Len(h) - 1
           rest == [heap  |-> Front(h), index |-> Forget(q.index, Id(h[1]))]
           g == [Front(h) EXCEPT ![1] = h[n + 1]]
           x == Note(Forget(q.index, Id(h[1])), Id(h[n + 1]), 1)
           r == Place(rest, Last(h), 1)
<1>1. /\ h \in Seq(Entry) /\ Len(h) \in Nat /\ n \in Nat /\ n >= 1 /\ Len(h) = n + 1
      /\ Ordered(h) /\ Indexed(q) /\ Distinct(h) /\ DOMAIN h = 1..n + 1
  BY IndexedDistinct DEF Sound, WellFormed
<1>2. r.heap = g /\ r.index = x
  BY <1>1 DEF Place, Last
<1> HIDE DEF n, rest
<1>3. Front(h) \in [1..n -> Entry] /\ \A k \in 1..n : Front(h)[k] = h[k]
  <2>1. Front(h) = SubSeq(h, 1, n)
    BY DEF Front, n
  <2>2. n \in Int /\ 1 \in Int /\ 1 <= n /\ n - 1 + 1 = n
    BY <1>1
  <2>3. \A k \in 1..n : h[k] \in Entry /\ 1 + k - 1 = k
    BY <1>1
  <2> DEFINE f == SubSeq(h, 1, n)
  <2>4. f \in Seq(Entry) /\ Len(f) = n /\ \A k \in 1..n : f[k] = h[k]
    BY <2>2, <2>3, SubSeqProperties
  <2> HIDE DEF f
  <2>5. f \in [1..n -> Entry]
    BY <2>4
  <2>6. QED
    BY <2>1, <2>4, <2>5 DEF f
<1>4. h[n + 1] \in Entry
  BY <1>1
<1>5. /\ g \in [1..n -> Entry] /\ g[1] = h[n + 1] /\ \A k \in 2..n : g[k] = h[k]
  BY <1>1, <1>3, <1>4
<1> HIDE DEF g
<1>6. g \in Seq(Entry) /\ Len(g) = n /\ DOMAIN g = 1..n
  BY <1>1, <1>5
<1>7. /\ DOMAIN x = (DOMAIN q.index \ {Id(h[1])}) \cup {Id(h[n + 1])}
      /\ x[Id(h[n + 1])] = 1
      /\ \A id \in DOMAIN q.index : id # Id(h[1]) /\ id # Id(h[n + 1]) => x[id] = q.index[id]
  BY DEF Note, Forget
<1> HIDE DEF x, r
<1>8. \A k, l \in 1..n + 1 : Id(h[k]) = Id(h[l]) => k = l
  BY <1>1 DEF Distinct
<1>9. Range(g) = Range(h) \ {h[1]}
  <2>1. ASSUME NEW k \in 1..n PROVE g[k] \in Range(h) /\ g[k] # h[1]
    <3>1. CASE k = 1
      <4>1. g[k] = h[n + 1] /\ n + 1 \in 1..n + 1 /\ 1 \in 1..n + 1 /\ n + 1 # 1
        BY <1>1, <1>5, <3>1
      <4>2. QED
        BY <1>1, <1>8, <4>1 DEF Range
    <3>2. CASE k # 1
      <4>1. g[k] = h[k] /\ k \in 1..n + 1 /\ 1 \in 1..n + 1
        BY <1>1, <1>5, <3>2
      <4>2. QED
        BY <1>1, <1>8, <3>2, <4>1 DEF Range
    <3>3. QED
      BY <3>1, <3>2
  <2>2. ASSUME NEW k \in 1..n + 1, k # 1 PROVE h[k] \in Range(g)
    <3>1. CASE k = n + 1
      <4>1. 1 \in DOMAIN g /\ g[1] = h[k]
        BY <1>1, <1>5, <1>6, <3>1
      <4>2. QED
        BY <4>1 DEF Range
    <3>2. CASE k # n + 1
      <4>1. k \in DOMAIN g /\ g[k] = h[k]
        BY <1>1, <1>5, <1>6, <2>2, <3>2
      <4>2. QED
        BY <4>1 DEF Range
    <3>3. QED
      BY <3>1, <3>2
  <2>3. ASSUME NEW e \in Range(g) PROVE e \in Range(h) \ {h[1]}
    BY <1>6, <2>1 DEF Range
  <2>4. ASSUME NEW e \in Range(h) \ {h[1]} PROVE e \in Range(g)
    <3>1. PICK k \in 1..n + 1 : e = h[k]
      BY <1>1 DEF Range
    <3>2. QED
      BY <2>2, <3>1
  <2>5. QED
    BY <2>3, <2>4
<1>10. DOMAIN x = {Id(e) : e \in Range(g)}
  <2>1. /\ DOMAIN q.index = {Id(e) : e \in Range(h)} /\ h[1] \in Range(h)
        /\ h[n + 1] \in Range(g)
    <3>1. 1 \in DOMAIN h /\ 1 \in DOMAIN g
      BY <1>1, <1>6
    <3>2. QED
      BY <1>1, <1>5, <3>1 DEF Indexed, Range
  <2>2. \A e \in Range(h) : Id(e) = Id(h[1]) => e = h[1]
    <3>1. 1 \in 1..n + 1
      BY <1>1
    <3>2. QED
      BY <1>1, <1>8, <3>1 DEF Range
  <2>3. QED
    BY <1>7, <1>9, <2>1, <2>2
<1>11. ASSUME NEW k \in 1..n PROVE x[Id(g[k])] = k
  <2>1. CASE k = 1
    BY <1>5, <1>7, <2>1
  <2>2. CASE k # 1
    <3>1. k \in 1..n + 1 /\ 1 \in 1..n + 1 /\ n + 1 \in 1..n + 1 /\ k # n + 1 /\ g[k] = h[k]
      BY <1>1, <1>5, <2>2
    <3>2. Id(h[k]) # Id(h[1]) /\ Id(h[k]) # Id(h[n + 1])
      BY <1>8, <2>2, <3>1
    <3>3. Id(h[k]) \in DOMAIN q.index /\ q.index[Id(h[k])] = k
      BY <1>1, <3>1 DEF Indexed, Range
    <3>4. QED
      BY <1>7, <3>1, <3>2, <3>3
  <2>3. QED
    BY <2>1, <2>2
<1>12. OrderedFrom(g, 2)
  <2>1. ASSUME NEW i \in 2..n, i \div 2 >= 2 PROVE ~Less(g[i], g[i \div 2])
    <3>1. i \div 2 \in 2..n /\ i \in 2..n + 1
      BY <1>1, <2>1, Parents
    <3>2. QED
      BY <1>1, <1>5, <2>1, <3>1 DEF Ordered
  <2>2. QED
    BY <1>6, <2>1 DEF OrderedFrom
<1>13. Indexed(r)
  BY <1>2, <1>6, <1>10, <1>11 DEF Indexed
<1>14. QED
  BY <1>1, <1>2, <1>6, <1>9, <1>12, <1>13 DEF r, rest

LEMMA RemoveRootIsSound ==
  ASSUME NEW q, Sound(q), q.heap # << >>
  PROVE  /\ Sound(RemoveRoot(q)) /\ Len(RemoveRoot(q).heap) = Len(q.heap) - 1
         /\ Range(RemoveRoot(q).heap) = Range(q.heap) \ {q.heap[1]}
<1> DEFINE h == q.heap
           rest == [heap |-> Front(h), index |-> Forget(q.index, Id(h[1]))]
<1>1. h \in Seq(Entry) /\ Len(h) \in Nat /\ Len(h) >= 1 /\ Indexed(q) /\ DOMAIN h = 1..Len(h)
  BY DEF Sound, WellFormed
<1>2. CASE Len(h) = 1
  <2>1. RemoveRoot(q) = rest
    BY <1>2 DEF RemoveRoot
  <2>2. rest.heap = << >> /\ rest.heap \in Seq(Entry)
    BY <1>1, <1>2 DEF Front
  <2>3. Range(h) = {h[1]}
    BY <1>1, <1>2 DEF Range
  <2>4. DOMAIN rest.index = {}
    BY <1>1, <2>3 DEF Forget, Indexed
  <2> HIDE DEF rest
  <2>5. Range(rest.heap) = {} /\ Len(rest.heap) = 0 /\ DOMAIN rest.heap = {}
    BY <2>2 DEF Range
  <2>6. Sound(rest)
    BY <2>2, <2>4, <2>5 DEF Sound, WellFormed, Ordered, Indexed
  <2>7. QED
    BY <1>2, <2>1, <2>3, <2>5, <2>6
<1>3. CASE Len(h) # 1
  <2> DEFINE r == Place(rest, Last(h), 1)
  <2>1. RemoveRoot(q) = SiftDown(r, 1)
    BY <1>3 DEF RemoveRoot
  <2>2. /\ r.heap \in Seq(Entry) /\ Len(r.heap) = Len(h) - 1
        /\ Range(r.heap) = Range(h) \ {h[1]}
        /\ Indexed(r) /\ OrderedFrom(r.heap, 2)
    <3> DEFINE l == Len(h)
    <3>1. l \in Nat /\ l >= 1 /\ l # 1
      BY <1>1, <1>3
    <3> HIDE DEF l
    <3>2. l > 1
      BY <3>1
    <3>3. QED
      BY <3>2, LastToRoot DEF l
  <2> HIDE DEF r
  <2>3. 1 \in Nat /\ 1 >= 1 /\ 1 + 1 = 2
    OBVIOUS
  <2>4. Permuted(r, SiftDown(r, 1)) /\ OrderedFrom(SiftDown(r, 1).heap, 1)
    BY <2>2, <2>3, SiftDownMends
  <2>5. QED
    BY <2>1, <2>2, <2>4, OrderedFromTop DEF Permuted, Sound, WellFormed
<1>4. QED
  BY <1>2, <1>3

\* The root of a queue comes before all others.
LEMMA RootIsFirst ==
  ASSUME NEW q, Sound(q), q.heap # << >>, NEW e \in Range(q.heap), e # q.heap[1]
  PROVE  q.heap[1] \in Range(q.heap) /\ q.heap[1] \in Entry /\ ~Less(e, q.heap[1])
<1> DEFINE h == q.heap
           n == Len(h)
           P == {k \in 0..n : \A i \in 1..k : ~Less(h[i], h[1])}
<1>1. h \in Seq(Entry) /\ n \in Nat /\ n >= 1 /\ DOMAIN h = 1..n /\ Ordered(h)
  BY DEF Sound, WellFormed
<1>2. \A i \in 1..n : h[i] \in Entry
  BY <1>1
<1>3. 1 \in 1..n /\ h[1] \in Entry /\ ~Less(h[1], h[1])
  BY <1>1, <1>2, LessIsOrder
<1> HIDE DEF h, n
<1>4. 0 \in P
  BY <1>1
<1>5. ASSUME NEW k \in 1..n, k - 1 \in P PROVE k \in P
  <2>1. ~Less(h[k], h[1])
    <3>1. CASE k = 1
      BY <1>3, <3>1
    <3>2. CASE k # 1
      <4>1. k \in 2..n /\ k \in 1..n /\ k \div 2 \in 1..k - 1 /\ k \div 2 \in 1..n
        BY <1>1, <3>2, Parents
      <4>2. ~Less(h[k], h[k \div 2]) /\ ~Less(h[k \div 2], h[1])
        BY <1>5, <4>1, <1>1 DEF Ordered, n
      <4>3. h[k] \in Entry /\ h[k \div 2] \in Entry
        BY <1>2, <4>1
      <4>4. QED
        BY <1>3, <4>2, <4>3, LessIsOrder
    <3>3. QED
      BY <3>1, <3>2
  <2>2. \A i \in 1..k : i = k \/ i \in 1..k - 1
    BY <1>1
  <2>3. k \in 0..n
    BY <1>1
  <2>4. QED
    BY <1>5, <2>1, <2>2, <2>3
<1>6. \A i \in 1..n : ~Less(h[i], h[1])
  <2>1. n \in P
    <3> HIDE DEF P
    <3>1. \A k \in 0..n : k \in P
      BY <1>1, <1>4, <1>5, RoundInduction
    <3>2. QED
      BY <1>1, <3>1
  <2>2. QED
    BY <2>1
<1>7. PICK i \in 1..n : e = h[i]
  BY <1>1 DEF Range, h
<1>8. h[1] \in Range(h)
  BY <1>1, <1>3 DEF Range
<1>9. QED
  BY <1>3, <1>6, <1>7, <1>8 DEF h

\* Pruning takes cancelled events only, and all that come to the root.
LEMMA PruneIsSound ==
  ASSUME NEW q, Sound(q), NEW gone
  PROVE  LET r == Prune(q, gone) IN
         /\ Sound(r) /\ Range(r.heap) \subseteq Range(q.heap)
         /\ Range(q.heap) \ gone = Range(r.heap) \ gone
         /\ r.heap # << >> => r.heap[1] \notin gone
<1> DEFINE n == Len(q.heap)
           r == Prunes(q, gone)
           Clean(s) == ~(s.heap # << >> /\ s.heap[1] \in gone)
           Good(s) == /\ Sound(s) /\ Range(s.heap) \subseteq Range(q.heap)
                      /\ Range(q.heap) \ gone = Range(s.heap) \ gone
           P == {k \in 0..n : Good(r[k]) /\ (Clean(r[k]) \/ Len(r[k].heap) <= n - k)}
<1>1. n \in Nat
  BY DEF Sound
<1>2. /\ Prune(q, gone) = r[n] /\ r[0] = q
      /\ \A k \in 1..n : r[k] = PruneRoot(r[k - 1], gone)
  BY <1>1, PruneRounds
<1> HIDE DEF r
<1>3. 0 \in P
  BY <1>1, <1>2
<1>4. ASSUME NEW k \in 1..n, k - 1 \in P PROVE k \in P
  <2> DEFINE s == r[k - 1]
  <2>1. Good(s) /\ (Clean(s) \/ Len(s.heap) <= n - (k - 1)) /\ r[k] = PruneRoot(s, gone)
    BY <1>2, <1>4
  <2>2. k \in 0..n
    BY <1>1
  <2> HIDE DEF s
  <2>3. CASE Clean(s)
    <3>1. r[k] = s
      BY <2>1, <2>3 DEF PruneRoot
    <3>2. QED
      BY <2>1, <2>2, <2>3, <3>1
  <2>4. CASE ~Clean(s)
    <3>1. r[k] = RemoveRoot(s) /\ s.heap # << >> /\ s.heap[1] \in gone
      BY <2>1, <2>4 DEF PruneRoot
    <3>2. /\ Sound(r[k]) /\ Len(r[k].heap) = Len(s.heap) - 1
          /\ Range(r[k].heap) = Range(s.heap) \ {s.heap[1]}
      BY <2>1, <3>1, RemoveRootIsSound
    <3>3. Good(r[k])
      BY <2>1, <3>1, <3>2
    <3>4. Len(r[k].heap) <= n - k
      <4>1. Len(s.heap) \in Nat /\ Len(s.heap) <= n - (k - 1)
        BY <2>1, <2>4 DEF Sound
      <4>2. QED
        BY <1>1, <3>2, <4>1
    <3>5. QED
      BY <2>2, <3>3, <3>4
  <2>5. QED
    BY <2>3, <2>4
<1>5. n \in P
  <2> HIDE DEF P, n
  <2>1. \A k \in 0..n : k \in P
    BY <1>1, <1>3, <1>4, RoundInduction
  <2>2. QED
    BY <1>1, <2>1
<1>6. Good(r[n]) /\ (Clean(r[n]) \/ Len(r[n].heap) <= n - n)
  BY <1>5
<1>7. Len(r[n].heap) <= n - n => Clean(r[n])
  <2>1. r[n].heap \in Seq(Entry) /\ n - n = 0
    BY <1>1, <1>6 DEF Sound
  <2> DEFINE h == r[n].heap
  <2> HIDE DEF h
  <2>2. h \in Seq(Entry) /\ Len(h) <= 0 => h = << >>
    OBVIOUS
  <2>3. QED
    BY <2>1, <2>2 DEF h
<1>8. QED
  BY <1>2, <1>6, <1>7

\* serializeState keeps the events that are not marked.
LEMMA UnmarkedKeeps ==
  ASSUME NEW h \in Seq(Entry), Distinct(h), NEW gone
  PROVE  LET s == Unmarked(h, gone) IN
         /\ s \in Seq(Entry) /\ Distinct(s)
         /\ Range(s) = Range(h) \ gone
<1> DEFINE n == Len(h)
           r == Keeps(h, gone)
           Before(k) == {h[i] : i \in 1..k}
           P == {k \in 0..n : r[k] \in Seq(Entry) /\ Distinct(r[k])
                              /\ Range(r[k]) = Before(k) \ gone}
<1>1. n \in Nat /\ DOMAIN h = 1..n /\ \A k \in 1..n : h[k] \in Entry
  OBVIOUS
<1>2. /\ Unmarked(h, gone) = r[n] /\ r[0] = << >>
      /\ \A k \in 1..n : r[k] = Keep(r[k - 1], h[k], gone)
  BY <1>1, UnmarkedRounds
<1> HIDE DEF r
<1>3. 0 \in P
  <2>1. << >> \in Seq(Entry) /\ Distinct(<< >>) /\ Range(<< >>) = {} /\ Before(0) = {}
    BY DEF Distinct, Range
  <2>2. r[0] \in Seq(Entry) /\ Distinct(r[0]) /\ Range(r[0]) = Before(0) \ gone
    <3> HIDE DEF Before
    <3>1. QED
      BY <1>2, <2>1
  <2>3. 0 \in 0..n
    BY <1>1
  <2>4. QED
    BY <2>2, <2>3
<1>4. ASSUME NEW k \in 1..n, k - 1 \in P PROVE k \in P
  <2> DEFINE s == r[k - 1]
             e == h[k]
  <2>1. /\ s \in Seq(Entry) /\ Distinct(s) /\ Range(s) = Before(k - 1) \ gone
        /\ r[k] = Keep(s, e, gone) /\ e \in Entry /\ k \in 0..n
    BY <1>1, <1>2, <1>4
  <2>2. Before(k) = Before(k - 1) \cup {e}
    <3>1. \A i \in 1..k : i \in 1..k - 1 \/ i = k
      BY <1>1
    <3>2. \A i \in 1..k - 1 : i \in 1..k
      BY <1>1
    <3>3. k \in 1..k
      BY <1>1
    <3>4. QED
      BY <3>1, <3>2, <3>3
  <2>3. CASE e \in gone
    <3>1. r[k] = s
      BY <2>1, <2>3 DEF Keep
    <3>2. QED
      BY <2>1, <2>2, <2>3, <3>1
  <2>4. CASE e \notin gone
    <3> DEFINE t == Append(s, e)
               l == Len(s)
    <3>1. r[k] = t
      BY <2>1, <2>4 DEF Keep
    <3>2. /\ t \in Seq(Entry) /\ Len(t) = l + 1 /\ t[l + 1] = e /\ l \in Nat
          /\ \A i \in 1..l : t[i] = s[i]
          /\ Range(t) = Range(s) \cup {e} /\ DOMAIN s = 1..l
      BY <2>1, AppendedRange
    <3>3. ASSUME NEW i \in 1..l PROVE Id(s[i]) # Id(e)
      <4>1. s[i] \in Before(k - 1)
        BY <2>1, <3>2 DEF Range
      <4>2. PICK j \in 1..k - 1 : s[i] = h[j]
        BY <4>1
      <4>3. j \in 1..n /\ j # k
        BY <1>1
      <4>4. QED
        BY <4>2, <4>3 DEF Distinct
    <3> HIDE DEF t, l, e, s
    <3>4. Distinct(t)
      <4> SUFFICES ASSUME NEW i \in 1..l + 1, NEW j \in 1..l + 1, Id(t[i]) = Id(t[j])
                   PROVE  i = j
        BY <3>2 DEF Distinct
      <4>1. (i \in 1..l \/ i = l + 1) /\ (j \in 1..l \/ j = l + 1)
        BY <3>2
      <4>2. CASE i \in 1..l /\ j \in 1..l
        BY <2>1, <3>2, <4>2 DEF Distinct, l
      <4>3. QED
        BY <3>2, <3>3, <4>1, <4>2
    <3>5. Range(t) = Before(k) \ gone
      BY <2>1, <2>2, <2>4, <3>2
    <3>6. QED
      BY <2>1, <3>1, <3>2, <3>4, <3>5
  <2>5. QED
    BY <2>3, <2>4
<1>5. n \in P
  <2> HIDE DEF P, n
  <2>1. \A k \in 0..n : k \in P
    BY <1>1, <1>3, <1>4, RoundInduction
  <2>2. QED
    BY <1>1, <2>1
<1>6. Before(n) = Range(h)
  BY <1>1 DEF Range
<1>7. QED
  BY <1>2, <1>5, <1>6

-----------------------------------------------------------------------------
(* THE KERNEL                                                              *)

-----------------------------------------------------------------------------
(* The invariant.                                                          *)

\* The objects of the queue are those made since the last checkpoint was resumed.
QueueOK ==
  /\ Sound(queue)
  /\ \A e \in Range(heap) : e.seq < next /\ e.copy = resumes

\* No object that is still to be made is marked.
MarksOK == \A e \in cancelled : e.copy <= resumes /\ (e.copy = resumes => e.seq < next)

\* A checkpoint is of a queue and of a clock that belong together.
SnapOK ==
  /\ snap.events \in Seq(Entry) /\ Distinct(snap.events)
  /\ snap.next \in Nat /\ snap.now \in Nat /\ snap.count \in Nat /\ snap.hash \in Seq(Nat)
  /\ snap.threw \in Nat /\ snap.resumes \in Nat /\ snap.resumes <= resumes
  /\ \A e \in Range(snap.events) :
       /\ e.seq < snap.next /\ e.copy = snap.resumes
       /\ e \notin cancelled => e.time >= snap.now
  /\ Len(snap.hash) = snap.count + snap.threw
  /\ snap.taken \in BOOLEAN /\ (snap.taken \/ snap.events = << >>)

\* While the thread is busy nothing has been answered.
NoAnswerYet == mode # "idle" => answer = "none"

KernelInv == KTypeOK /\ QueueOK /\ MarksOK /\ SnapOK /\ NoAnswerYet /\ RunIsExact

-----------------------------------------------------------------------------
(* What waits.                                                             *)

LEMMA EventFields ==
  ASSUME NEW e \in Entry
  PROVE  /\ e = [time |-> e.time, prio |-> e.prio, seq |-> e.seq, copy |-> e.copy]
         /\ e.time \in Nat /\ e.prio \in Int /\ e.seq \in Nat /\ e.copy \in Nat
         /\ Key(e).time = e.time /\ Key(e).seq = e.seq /\ Key(e).prio = e.prio
BY DEF Entry, Key

\* NothingInThePast and RunAnswers, said of the objects themselves.
Ahead == \A e \in Live(heap) : e.time >= now
Answers ==
  /\ answer = "finished" => Live(heap) = {}
  /\ answer = "limit" => \A e \in Live(heap) : e.time > until
  /\ answer = "budget" => count >= Budget /\ \E e \in Live(heap) : e.time <= until

LEMMA SaidOfObjects ==
  /\ NothingInThePast <=> Ahead
  /\ RunAnswers <=> Answers
<1>1. \A e : Key(e).time = e.time
  BY DEF Key
<1>2. Pending = {Key(e) : e \in Live(heap)}
  BY DEF Pending
<1>3. NothingInThePast <=> Ahead
  BY <1>1, <1>2 DEF NothingInThePast, Ahead
<1>4. Pending = {} <=> Live(heap) = {}
  BY <1>2
<1>5. (\A e \in Pending : e.time > until) <=> (\A e \in Live(heap) : e.time > until)
  BY <1>1, <1>2
<1>6. (\E e \in Pending : e.time <= until) <=> (\E e \in Live(heap) : e.time <= until)
  BY <1>1, <1>2
<1>7. RunAnswers <=> Answers
  BY <1>4, <1>5, <1>6 DEF RunAnswers, Answers
<1>8. QED
  BY <1>3, <1>7

LEMMA SaidOfObjectsNext ==
  /\ NothingInThePast' <=> Ahead'
  /\ RunAnswers' <=> Answers'
BY SaidOfObjects, PTL

LEMMA QueueFacts ==
  ASSUME KernelInv
  PROVE  /\ heap \in Seq(Entry) /\ DOMAIN heap = 1..Len(heap) /\ Sound(queue)
         /\ queue.heap = heap /\ queue.index = index
         /\ \A e \in Range(heap) : e \in Entry /\ e.seq < next /\ e.copy = resumes
         /\ next \in Nat /\ resumes \in Nat /\ now \in Nat /\ count \in Nat /\ threw \in Nat
         /\ cancelled \subseteq Entry
<1>1. heap \in Seq(Entry)
  BY DEF KernelInv, KTypeOK
<1>2. \A e \in Range(heap) : e \in Entry
  BY <1>1 DEF Range
<1>3. QED
  BY <1>1, <1>2 DEF KernelInv, KTypeOK, QueueOK, queue

LEMMA SetSound ==
  ASSUME NEW q, Sound(q), SetQueue(q)
  PROVE  Sound(queue)' /\ heap' = q.heap /\ heap' \in Seq(Entry)
BY DEF SetQueue, Sound, WellFormed, Indexed, queue

\* A checkpoint is untouched by what happens to the queue.
LEMMA SnapStays ==
  ASSUME SnapOK, UNCHANGED saveVars, cancelled \subseteq cancelled' PROVE SnapOK'
BY DEF SnapOK, saveVars

\* The queue after pruning.
LEMMA Pruned ==
  ASSUME KernelInv
  PROVE  LET q == Prune(queue, cancelled) IN
         /\ Sound(q) /\ q.heap \in Seq(Entry) /\ Range(q.heap) \subseteq Range(heap)
         /\ Live(q.heap) = Live(heap)
         /\ q.heap # << >> => /\ q.heap[1] \in Live(heap) /\ q.heap[1] \in Entry
                              /\ \A e \in Live(heap) : ~Less(e, q.heap[1])
<1> DEFINE q == Prune(queue, cancelled)
<1>1. /\ Sound(q) /\ Range(q.heap) \subseteq Range(heap)
      /\ Range(heap) \ cancelled = Range(q.heap) \ cancelled
      /\ q.heap # << >> => q.heap[1] \notin cancelled
  BY QueueFacts, PruneIsSound
<1> HIDE DEF q
<1>2. Live(q.heap) = Live(heap)
  BY <1>1 DEF Live
<1>3. ASSUME q.heap # << >>
      PROVE  /\ q.heap[1] \in Live(heap) /\ q.heap[1] \in Entry
             /\ \A e \in Live(heap) : ~Less(e, q.heap[1])
  <2>1. q.heap[1] \in Range(q.heap) /\ q.heap[1] \in Entry
    <3>1. q.heap \in Seq(Entry) /\ 1 \in 1..Len(q.heap)
      BY <1>1, <1>3 DEF Sound
    <3>2. QED
      BY <3>1 DEF Range
  <2>2. ASSUME NEW e \in Live(heap) PROVE ~Less(e, q.heap[1])
    <3>1. e \in Range(q.heap)
      BY <1>2 DEF Live
    <3>2. CASE e = q.heap[1]
      BY <2>1, <3>2, LessIsOrder
    <3>3. CASE e # q.heap[1]
      BY <1>1, <1>3, <3>1, <3>3, RootIsFirst
    <3>4. QED
      BY <3>2, <3>3
  <2>3. QED
    BY <1>1, <1>2, <1>3, <2>1, <2>2 DEF Live
<1>4. QED
  BY <1>1, <1>2, <1>3 DEF q, Sound

-----------------------------------------------------------------------------
(* schedule and cancel.                                                    *)

LEMMA InitInv == KInit => KernelInv
<1> SUFFICES ASSUME KInit PROVE KernelInv
  OBVIOUS
<1>1. heap = << >> /\ heap \in Seq(Entry) /\ Range(heap) = {} /\ DOMAIN heap = {}
  BY DEF KInit, Range
<1>2. DOMAIN index = {}
  BY DEF KInit
<1>3. QueueOK
  BY <1>1, <1>2 DEF QueueOK, Sound, WellFormed, Ordered, Indexed, queue
<1>4. KTypeOK /\ MarksOK /\ NoAnswerYet
  BY <1>1 DEF KInit, KTypeOK, MarksOK, NoAnswerYet, Mode
<1>5. SnapOK
  BY <1>1 DEF KInit, SnapOK, NoSnap, Distinct, Range
<1>6. Ahead /\ Answers /\ RunKeepsLimit /\ TraceIsCounted
  BY <1>1 DEF KInit, Ahead, Answers, Live, RunKeepsLimit, TraceIsCounted, Handling
<1>7. QED
  BY <1>3, <1>4, <1>5, <1>6, SaidOfObjects DEF KernelInv, RunIsExact

LEMMA ScheduleInv ==
  ASSUME KernelInv, NEW t \in Nat, NEW p \in Int, Schedule(t, p) PROVE KernelInv'
<1> DEFINE e == [time |-> t, prio |-> p, seq |-> next, copy |-> resumes]
<1>1. /\ SetQueue(PushEvent(queue, e)) /\ t >= now /\ next' = next + 1 /\ answer' = "none"
      /\ UNCHANGED <<cancelled, now, count, hash, runVars, saveVars, threw>>
  BY DEF Schedule
<1>2. e \in Entry /\ e.time = t /\ e.seq = next /\ e.copy = resumes
  BY QueueFacts DEF Entry
<1> HIDE DEF e
<1>3. Id(e) \notin {Id(f) : f \in Range(queue.heap)}
  <2> SUFFICES ASSUME NEW f \in Range(heap), Id(f) = Id(e) PROVE FALSE
    BY QueueFacts
  <2>1. f.seq = next /\ f.seq < next /\ f.seq \in Nat /\ next \in Nat
    BY <1>2, QueueFacts, EventFields DEF Id
  <2>2. QED
    BY <2>1
<1>4. Sound(queue)' /\ Range(heap') = Range(heap) \cup {e} /\ heap' \in Seq(Entry)
  BY <1>1, <1>2, <1>3, QueueFacts, PushIsSound, SetSound
<1>5. UNCHANGED <<mode, until, snap, resumes>>
  BY <1>1 DEF runVars, saveVars
<1>6. KTypeOK'
  BY <1>1, <1>4, <1>5 DEF KernelInv, KTypeOK
<1>7. QueueOK'
  <2>1. ASSUME NEW f \in Range(heap') PROVE f.seq < next' /\ f.copy = resumes
    <3>1. CASE f \in Range(heap)
      <4>1. f.seq < next /\ f.seq \in Nat /\ next \in Nat /\ f.copy = resumes
        BY <3>1, QueueFacts, EventFields
      <4>2. QED
        BY <1>1, <4>1
    <3>2. CASE f = e
      BY <1>1, <1>2, <3>2, QueueFacts
    <3>3. QED
      BY <1>4, <3>1, <3>2
  <2>2. QED
    BY <1>4, <1>5, <2>1 DEF QueueOK
<1>8. MarksOK' /\ SnapOK' /\ NoAnswerYet'
  <2>1. \A f \in cancelled : f.seq \in Nat
    BY QueueFacts, EventFields
  <2>2. MarksOK'
    BY <1>1, <1>5, <2>1, QueueFacts DEF KernelInv, MarksOK
  <2>3. SnapOK' /\ NoAnswerYet'
    BY <1>1, SnapStays DEF KernelInv, NoAnswerYet
  <2>4. QED
    BY <2>2, <2>3
<1>9. Ahead' /\ Answers' /\ RunKeepsLimit' /\ TraceIsCounted'
  <2>1. Live(heap)' \subseteq Live(heap) \cup {e}
    BY <1>1, <1>4 DEF Live
  <2>2. Ahead'
    BY <1>1, <1>2, <2>1, SaidOfObjects DEF KernelInv, RunIsExact, Ahead
  <2>3. Answers' /\ RunKeepsLimit' /\ TraceIsCounted'
    BY <1>1, <1>5
       DEF KernelInv, RunIsExact, Answers, RunKeepsLimit, TraceIsCounted, Handling
  <2>4. QED
    BY <2>2, <2>3
<1>10. QED
  BY <1>6, <1>7, <1>8, <1>9, SaidOfObjectsNext DEF KernelInv, RunIsExact

\* What cancel marks: an object of the queue.
LEMMA CancelFinds ==
  ASSUME KernelInv, NEW id, Cancel(id)
  PROVE  heap[index[id]] \in Live(heap)
<1>1. id \in DOMAIN index /\ heap[index[id]] \notin cancelled /\ Indexed(queue)
  BY QueueFacts DEF Cancel, Sound, WellFormed
<1>2. PICK e \in Range(heap) : id = Id(e)
  BY <1>1, QueueFacts DEF Indexed
<1>3. PICK i \in DOMAIN heap : e = heap[i]
  BY <1>2 DEF Range
<1>4. index[id] = i
  BY <1>1, <1>2, <1>3, QueueFacts DEF Indexed
<1>5. QED
  BY <1>1, <1>3, <1>4 DEF Live, Range

LEMMA CancelInv == ASSUME KernelInv, NEW id, Cancel(id) PROVE KernelInv'
<1> DEFINE e == heap[index[id]]
<1>1. e \in Live(heap) /\ e \in Range(heap) /\ e \in Entry
  BY CancelFinds, QueueFacts DEF Live
<1>2. /\ cancelled' = cancelled \cup {e} /\ answer' = "none"
      /\ UNCHANGED <<heap, index, next, now, count, hash, runVars, saveVars, threw>>
  BY DEF Cancel, queueVars
<1> HIDE DEF e
<1>3. UNCHANGED <<mode, until, snap, resumes>>
  BY <1>2 DEF runVars, saveVars
<1>4. KTypeOK' /\ NoAnswerYet'
  BY <1>1, <1>2, <1>3 DEF KernelInv, KTypeOK, NoAnswerYet
<1>5. QueueOK'
  BY <1>2, <1>3 DEF KernelInv, QueueOK, queue
<1>6. MarksOK'
  <2>1. e.copy <= resumes /\ e.seq < next
    BY <1>1, QueueFacts, EventFields
  <2>2. QED
    BY <1>2, <1>3, <2>1 DEF KernelInv, MarksOK
<1>7. SnapOK'
  BY <1>2, SnapStays DEF KernelInv
<1>8. Ahead' /\ Answers' /\ RunKeepsLimit' /\ TraceIsCounted'
  <2>1. Live(heap)' \subseteq Live(heap)
    BY <1>2 DEF Live
  <2>2. Ahead'
    BY <1>2, <2>1, SaidOfObjects DEF KernelInv, RunIsExact, Ahead
  <2>3. Answers' /\ RunKeepsLimit' /\ TraceIsCounted'
    BY <1>2, <1>3
       DEF KernelInv, RunIsExact, Answers, RunKeepsLimit, TraceIsCounted, Handling
  <2>4. QED
    BY <2>2, <2>3
<1>9. QED
  BY <1>4, <1>5, <1>6, <1>7, <1>8, SaidOfObjectsNext DEF KernelInv, RunIsExact


-----------------------------------------------------------------------------
(* step and runUntil.                                                      *)

\* The event that a step takes.
Took(e) ==
  /\ e = Prune(queue, cancelled).heap[1] /\ e \in Live(heap) /\ e \in Entry
  /\ \A f \in Live(heap) : ~Less(f, e)
  /\ Sound(queue)' /\ heap' \in Seq(Entry) /\ Range(heap') \subseteq Range(heap)
  /\ Live(heap)' = Live(heap) \ {e}
  /\ now' = e.time /\ e.time >= now /\ hash' = Append(hash, e.seq) /\ answer' = "none"
  /\ UNCHANGED <<next, cancelled, count, until, snap, resumes, threw>>

LEMMA BeginTakes ==
  ASSUME KernelInv, NEW handling, Begin(handling)
  PROVE  /\ Took(Prune(queue, cancelled).heap[1]) /\ mode' = handling
<1> DEFINE q == Prune(queue, cancelled)
           e == q.heap[1]
           r == RemoveRoot(q)
<1>1. /\ q.heap # << >> /\ SetQueue(r) /\ now' = e.time /\ hash' = Append(hash, e.seq)
      /\ mode' = handling /\ answer' = "none"
      /\ UNCHANGED <<next, cancelled, count, until, snap, resumes, threw>>
  BY DEF Begin, saveVars
<1>2. /\ Sound(q) /\ Range(q.heap) \subseteq Range(heap) /\ Live(q.heap) = Live(heap)
      /\ e \in Live(heap) /\ e \in Entry /\ \A f \in Live(heap) : ~Less(f, e)
  BY <1>1, Pruned
<1> HIDE DEF q
<1>3. Sound(r) /\ Range(r.heap) = Range(q.heap) \ {e}
  BY <1>1, <1>2, RemoveRootIsSound
<1> HIDE DEF r, e
<1>4. Sound(queue)' /\ heap' = r.heap /\ heap' \in Seq(Entry)
  BY <1>1, <1>3, SetSound
<1>5. Range(heap') = Range(q.heap) \ {e}
  BY <1>3, <1>4
<1>6. Live(heap)' = Live(heap) \ {e}
  <2>1. cancelled' = cancelled
    BY <1>1
  <2>2. Live(heap)' = {f \in Range(heap') : f \notin cancelled}
    BY <2>1 DEF Live
  <2>3. Live(heap) = {f \in Range(q.heap) : f \notin cancelled}
    BY <1>2 DEF Live
  <2>4. QED
    BY <1>5, <2>2, <2>3
<1>7. e.time >= now
  BY <1>2, SaidOfObjects DEF KernelInv, RunIsExact, Ahead
<1>8. QED
  BY <1>1, <1>2, <1>4, <1>5, <1>6, <1>7 DEF Took, e, q

LEMMA BeginInv ==
  ASSUME KernelInv, NEW handling \in {"stepping", "running"}, ~Handling, Begin(handling),
         handling = "running" => Prune(queue, cancelled).heap[1].time <= until
  PROVE  KernelInv'
<1> DEFINE e == Prune(queue, cancelled).heap[1]
<1>1. Took(e) /\ mode' = handling
  BY BeginTakes
<1>2. handling = "running" => e.time <= until
  OBVIOUS
<1> HIDE DEF e
<1>3. e.time \in Nat /\ e.seq \in Nat /\ now' = e.time
  BY <1>1, EventFields DEF Took
<1>4. hash' \in Seq(Nat) /\ Len(hash') = Len(hash) + 1
  BY <1>1, <1>3 DEF Took, KernelInv, KTypeOK
<1>5. KTypeOK' /\ NoAnswerYet'
  BY <1>1, <1>3, <1>4 DEF Took, KernelInv, KTypeOK, Mode, NoAnswerYet
<1>6. QueueOK' /\ MarksOK'
  BY <1>1 DEF Took, KernelInv, QueueOK, MarksOK
<1>7. SnapOK'
  BY <1>1, SnapStays DEF Took, KernelInv, saveVars
<1>8. Ahead'
  <2> SUFFICES ASSUME NEW f \in Live(heap) \ {e} PROVE f.time >= e.time
    BY <1>1 DEF Took, Ahead
  <2>1. ~Less(f, e) /\ f \in Entry
    BY <1>1, QueueFacts DEF Took, Live
  <2>2. f.time \in Nat
    BY <2>1, EventFields
  <2>3. QED
    BY <1>3, <2>1, <2>2 DEF Less
<1>9. Answers' /\ RunKeepsLimit'
  BY <1>1, <1>2 DEF Took, Answers, RunKeepsLimit
<1>10. TraceIsCounted'
  <2>1. Handling' /\ Len(hash) = count + threw + 0
    BY <1>1 DEF Handling, KernelInv, RunIsExact, TraceIsCounted
  <2>2. Len(hash') = count + threw + 1
    BY <1>4, <2>1, QueueFacts
  <2>3. QED
    BY <1>1, <2>1, <2>2 DEF Took, TraceIsCounted
<1>11. QED
  BY <1>5, <1>6, <1>7, <1>8, <1>9, <1>10, SaidOfObjectsNext DEF KernelInv, RunIsExact

\* The queue is pruned, or stays as it is, and the clock stands still.
Rests ==
  /\ Sound(queue)' /\ heap' \in Seq(Entry) /\ Range(heap') \subseteq Range(heap)
  /\ Live(heap)' = Live(heap)
  /\ UNCHANGED <<next, cancelled, now, hash, snap, resumes>>

LEMMA PruneRests ==
  ASSUME KernelInv, SetQueue(Prune(queue, cancelled)),
         UNCHANGED <<next, cancelled, now, hash, snap, resumes>>
  PROVE  Rests /\ heap' = Prune(queue, cancelled).heap
<1> DEFINE q == Prune(queue, cancelled)
<1>1. /\ Sound(q) /\ Range(q.heap) \subseteq Range(heap) /\ Live(q.heap) = Live(heap)
      /\ SetQueue(q)
  BY Pruned
<1> HIDE DEF q
<1>2. Sound(queue)' /\ heap' = q.heap /\ heap' \in Seq(Entry)
  BY <1>1, SetSound
<1>3. Live(heap)' = Live(q.heap)
  BY <1>2 DEF Live
<1>4. QED
  BY <1>1, <1>2, <1>3 DEF Rests, q

LEMMA QueueRests ==
  ASSUME KernelInv, UNCHANGED <<queueVars, cancelled, now, hash, saveVars>> PROVE Rests
<1>1. UNCHANGED <<heap, index, next, cancelled, now, hash, snap, resumes>>
  BY DEF queueVars, saveVars
<1>2. Sound(queue)' /\ heap' \in Seq(Entry)
  BY <1>1, QueueFacts DEF queue, Sound, WellFormed, Indexed
<1>3. Live(heap)' = Live(heap)
  BY <1>1 DEF Live
<1>4. QED
  BY <1>1, <1>2, <1>3 DEF Rests

\* What is left to show of such a step.
LEMMA RestsInv ==
  ASSUME KernelInv, Rests, mode' \in Mode, until' \in Nat, count' \in Nat, threw' \in Nat,
         answer' \in {"none", "finished", "limit", "budget"}, NoAnswerYet', Answers',
         RunKeepsLimit', TraceIsCounted'
  PROVE  KernelInv'
<1>1. KTypeOK'
  BY DEF Rests, KernelInv, KTypeOK
<1>2. QueueOK' /\ MarksOK'
  BY DEF Rests, KernelInv, QueueOK, MarksOK
<1>3. SnapOK'
  BY SnapStays DEF Rests, KernelInv, saveVars
<1>4. Ahead'
  BY SaidOfObjects DEF Rests, KernelInv, RunIsExact, Ahead
<1>5. QED
  BY <1>1, <1>2, <1>3, <1>4, SaidOfObjectsNext DEF KernelInv, RunIsExact

LEMMA StepInv == ASSUME KernelInv, Step PROVE KernelInv'
BY BeginInv DEF Step, Handling

LEMMA RunStepInv == ASSUME KernelInv, RunStep PROVE KernelInv'
BY BeginInv DEF RunStep, InReach, Handling

LEMMA StepEmptyInv == ASSUME KernelInv, StepEmpty PROVE KernelInv'
<1>1. /\ SetQueue(Prune(queue, cancelled)) /\ mode = "idle" /\ answer' = "none"
      /\ UNCHANGED <<next, cancelled, now, count, hash, mode, until, snap, resumes, threw>>
  BY DEF StepEmpty, runVars, saveVars
<1>2. Rests
  BY <1>1, PruneRests
<1>3. NoAnswerYet' /\ Answers' /\ RunKeepsLimit' /\ TraceIsCounted'
  BY <1>1
     DEF NoAnswerYet, Answers, KernelInv, RunIsExact, RunKeepsLimit, TraceIsCounted, Handling
<1>4. QED
  BY <1>1, <1>2, <1>3, RestsInv DEF KernelInv, KTypeOK

LEMMA EndStepInv == ASSUME KernelInv, EndStep PROVE KernelInv'
<1>1. /\ Rests /\ count' = count + 1 /\ answer = "none" /\ answer' = "none"
      /\ mode' \in {"idle", "looping"} /\ UNCHANGED <<until, threw, hash>> /\ Handling
  BY QueueRests DEF EndStep, Handling, KernelInv, NoAnswerYet
<1>2. count \in Nat /\ threw \in Nat /\ until \in Nat
  BY DEF KernelInv, KTypeOK
<1>3. TraceIsCounted'
  <2>1. Len(hash) = count + threw + 1 /\ ~Handling'
    BY <1>1 DEF KernelInv, RunIsExact, TraceIsCounted, Handling
  <2>2. Len(hash') = count' + threw' + 0
    BY <1>1, <1>2, <2>1
  <2>3. QED
    BY <2>1, <2>2 DEF TraceIsCounted
<1>4. NoAnswerYet' /\ Answers' /\ RunKeepsLimit'
  BY <1>1 DEF NoAnswerYet, Answers, RunKeepsLimit
<1>5. QED
  BY <1>1, <1>2, <1>3, <1>4, RestsInv DEF Mode

LEMMA HandlerThrowsInv == ASSUME KernelInv, HandlerThrows PROVE KernelInv'
<1>1. /\ Rests /\ threw' = threw + 1 /\ answer = "none" /\ answer' = "none"
      /\ mode' = "idle" /\ UNCHANGED <<until, count, hash>> /\ Handling
  BY QueueRests DEF HandlerThrows, Handling, KernelInv, NoAnswerYet
<1>2. count \in Nat /\ threw \in Nat /\ until \in Nat
  BY DEF KernelInv, KTypeOK
<1>3. TraceIsCounted'
  <2>1. Len(hash) = count + threw + 1 /\ ~Handling'
    BY <1>1 DEF KernelInv, RunIsExact, TraceIsCounted, Handling
  <2>2. Len(hash') = count' + threw' + 0
    BY <1>1, <1>2, <2>1
  <2>3. QED
    BY <2>1, <2>2 DEF TraceIsCounted
<1>4. NoAnswerYet' /\ Answers' /\ RunKeepsLimit'
  BY <1>1 DEF NoAnswerYet, Answers, RunKeepsLimit
<1>5. QED
  BY <1>1, <1>2, <1>3, <1>4, RestsInv DEF Mode

LEMMA RunUntilInv == ASSUME KernelInv, NEW t \in Nat, RunUntil(t) PROVE KernelInv'
<1>1. /\ Rests /\ answer' = "none" /\ mode = "idle" /\ mode' = "looping" /\ until' = t
      /\ UNCHANGED <<count, hash, threw>>
  BY QueueRests DEF RunUntil
<1>2. count \in Nat /\ threw \in Nat
  BY DEF KernelInv, KTypeOK
<1>3. NoAnswerYet' /\ Answers' /\ RunKeepsLimit' /\ TraceIsCounted'
  BY <1>1
     DEF NoAnswerYet, Answers, KernelInv, RunIsExact, RunKeepsLimit, TraceIsCounted, Handling
<1>4. QED
  BY <1>1, <1>2, <1>3, RestsInv DEF Mode

LEMMA RunEndsInv == ASSUME KernelInv, RunEnds PROVE KernelInv'
<1> DEFINE q == Prune(queue, cancelled)
<1>1. /\ SetQueue(q) /\ mode = "looping" /\ mode' = "idle"
      /\ UNCHANGED <<next, cancelled, now, count, hash, until, snap, resumes, threw>>
  BY DEF RunEnds, Return, saveVars
<1>2. \/ heap = << >> /\ answer' = "finished"
      \/ ~InReach(q) /\ answer' = "limit"
      \/ InReach(q) /\ count >= Budget /\ answer' = "budget"
  BY DEF RunEnds, Return
<1>3. Rests /\ heap' = q.heap
  BY <1>1, PruneRests
<1>4. /\ q.heap \in Seq(Entry) /\ Live(q.heap) = Live(heap)
      /\ q.heap # << >> => /\ q.heap[1] \in Live(heap) /\ q.heap[1] \in Entry
                           /\ \A e \in Live(heap) : ~Less(e, q.heap[1])
  BY Pruned
<1> HIDE DEF q
<1>5. Live(heap)' = Live(heap) /\ until' = until /\ count' = count /\ until \in Nat
  BY <1>1, <1>3 DEF Rests, KernelInv, KTypeOK
<1>6. \A s : s = << >> => Live(s) = {}
  BY DEF Live, Range
<1>7. Answers'
  <2>1. CASE heap = << >> /\ answer' = "finished"
    BY <1>5, <1>6, <2>1 DEF Answers
  <2>2. CASE ~InReach(q) /\ answer' = "limit"
    <3>1. CASE q.heap = << >>
      BY <1>4, <1>5, <1>6, <2>2, <3>1 DEF Answers
    <3>2. CASE q.heap # << >>
      <4> DEFINE e == q.heap[1]
      <4>1. ~(e.time <= until) /\ e.time \in Nat /\ \A f \in Live(heap) : ~Less(f, e)
        BY <1>4, <2>2, <3>2, EventFields DEF InReach
      <4> HIDE DEF e
      <4>2. \A f \in Live(heap) : f.time > until
        <5> SUFFICES ASSUME NEW f \in Live(heap) PROVE f.time > until
          OBVIOUS
        <5>1. f.time \in Nat
          BY QueueFacts, EventFields DEF Live
        <5>2. ~Less(f, e)
          BY <4>1
        <5>3. QED
          BY <1>5, <4>1, <5>1, <5>2 DEF Less
      <4>3. QED
        BY <1>5, <2>2, <4>2 DEF Answers
    <3>3. QED
      BY <3>1, <3>2
  <2>3. CASE InReach(q) /\ count >= Budget /\ answer' = "budget"
    <3>1. q.heap # << >> /\ q.heap[1].time <= until
      BY <2>3 DEF InReach
    <3>2. q.heap[1] \in Live(heap)
      BY <1>4, <3>1
    <3>3. QED
      BY <1>5, <2>3, <3>1, <3>2 DEF Answers
  <2>4. QED
    BY <1>2, <2>1, <2>2, <2>3
<1>8. NoAnswerYet' /\ RunKeepsLimit' /\ TraceIsCounted'
  BY <1>1 DEF NoAnswerYet, KernelInv, RunIsExact, RunKeepsLimit, TraceIsCounted, Handling
<1>9. count \in Nat /\ threw \in Nat
  BY DEF KernelInv, KTypeOK
<1>10. QED
  BY <1>1, <1>2, <1>3, <1>5, <1>7, <1>8, <1>9, RestsInv DEF Mode

-----------------------------------------------------------------------------
(* Checkpoints and reset.                                                  *)

\* The checkpoint holds what waits; the queue is left alone.
LEMMA Saved ==
  ASSUME KernelInv, CreateCheckpoint
  PROVE  /\ snap'.events \in Seq(Entry) /\ Distinct(snap'.events)
         /\ Range(snap'.events) = Live(heap)
         /\ snap' = [taken |-> TRUE, now |-> now, count |-> count, hash |-> hash,
                     next |-> next, threw |-> threw, resumes |-> resumes,
                     events |-> snap'.events]
         /\ mode = "idle" /\ answer' = "none"
         /\ UNCHANGED <<heap, index, next, cancelled, now, count, hash, mode, until,
                        resumes, threw>>
<1> DEFINE s == Unmarked(heap, cancelled)
<1>1. Distinct(heap)
  BY QueueFacts, IndexedDistinct DEF Sound, WellFormed
<1>2. s \in Seq(Entry) /\ Distinct(s) /\ Range(s) = Live(heap)
  BY <1>1, QueueFacts, UnmarkedKeeps DEF Live
<1> HIDE DEF s
<1>3. snap' = [taken |-> TRUE, now |-> now, count |-> count, hash |-> hash, next |-> next,
               threw |-> threw, resumes |-> resumes, events |-> s]
  BY DEF CreateCheckpoint, s
<1>4. /\ mode = "idle" /\ answer' = "none"
      /\ UNCHANGED <<heap, index, next, cancelled, now, count, hash, mode, until,
                     resumes, threw>>
  BY DEF CreateCheckpoint, queueVars, runVars
<1>5. snap'.events = s
  BY <1>3
<1>6. QED
  BY <1>2, <1>3, <1>4, <1>5

LEMMA CreateCheckpointInv == ASSUME KernelInv, CreateCheckpoint PROVE KernelInv'
<1> DEFINE s == snap'.events
<1>1. /\ s \in Seq(Entry) /\ Distinct(s) /\ Range(s) = Live(heap)
      /\ snap' = [taken |-> TRUE, now |-> now, count |-> count, hash |-> hash,
                  next |-> next, threw |-> threw, resumes |-> resumes, events |-> s]
      /\ mode = "idle" /\ answer' = "none"
      /\ UNCHANGED <<heap, index, next, cancelled, now, count, hash, mode, until,
                     resumes, threw>>
  BY Saved
<1> HIDE DEF s
<1>2. KTypeOK' /\ NoAnswerYet'
  BY <1>1 DEF KernelInv, KTypeOK, NoAnswerYet
<1>3. QueueOK' /\ MarksOK'
  BY <1>1 DEF KernelInv, QueueOK, MarksOK, queue
<1>4. SnapOK'
  <2>1. /\ snap'.events = s /\ snap'.next = next /\ snap'.now = now /\ snap'.count = count
        /\ snap'.hash = hash /\ snap'.threw = threw /\ snap'.resumes = resumes
        /\ resumes' = resumes /\ cancelled' = cancelled
    BY <1>1
  <2>2. Len(hash) = count + threw
    <3>1. Len(hash) = count + threw + 0 /\ count \in Nat /\ threw \in Nat
      BY <1>1, QueueFacts DEF KernelInv, RunIsExact, TraceIsCounted, Handling
    <3>2. QED
      BY <3>1
  <2>3. \A e \in Live(heap) : e.seq < next /\ e.copy = resumes /\ e.time >= now
    BY QueueFacts, SaidOfObjects DEF KernelInv, RunIsExact, Ahead, Live
  <2>4. resumes <= resumes /\ hash \in Seq(Nat)
    BY QueueFacts DEF KernelInv, KTypeOK
  <2>5. QED
    BY <1>1, <2>1, <2>2, <2>3, <2>4, QueueFacts DEF SnapOK
<1>5. Ahead' /\ Answers' /\ RunKeepsLimit' /\ TraceIsCounted'
  <2>1. Live(heap)' = Live(heap)
    BY <1>1 DEF Live
  <2>2. QED
    BY <1>1, <2>1, SaidOfObjects
       DEF KernelInv, RunIsExact, Ahead, Answers, RunKeepsLimit, TraceIsCounted, Handling
<1>6. QED
  BY <1>2, <1>3, <1>4, <1>5, SaidOfObjectsNext DEF KernelInv, RunIsExact

\* A copy differs from its object in `copy' only.
LEMMA Copies ==
  ASSUME KernelInv, NEW e \in Entry
  PROVE  /\ CopyOf(e) \in Entry /\ CopyOf(e).copy = resumes + 1 /\ CopyOf(e).seq = e.seq
         /\ CopyOf(e).time = e.time /\ Id(CopyOf(e)) = Id(e) /\ Key(CopyOf(e)) = Key(e)
<1>1. /\ CopyOf(e) = [time |-> e.time, prio |-> e.prio, seq |-> e.seq, copy |-> resumes + 1]
  BY EventFields DEF CopyOf
<1>2. resumes + 1 \in Nat
  BY QueueFacts
<1>3. QED
  BY <1>1, <1>2, EventFields DEF Entry, Id, Key

\* The queue holds copies of what the checkpoint holds.
LEMMA Loaded ==
  ASSUME KernelInv, ResumeCheckpoint
  PROVE  /\ Sound(queue)' /\ heap' \in Seq(Entry)
         /\ Range(heap') = {CopyOf(e) : e \in Range(snap.events)}
         /\ Live(heap)' = {CopyOf(e) : e \in Live(snap.events)}
         /\ cancelled' = cancelled \cup {CopyOf(e) : e \in Range(snap.events) \cap cancelled}
         /\ next' = snap.next /\ now' = snap.now /\ count' = snap.count /\ hash' = snap.hash
         /\ threw' = snap.threw /\ resumes' = resumes + 1 /\ answer' = "none"
         /\ mode = "idle" /\ snap.taken /\ UNCHANGED <<mode, until, snap>>
<1> DEFINE h == snap.events
           g == [i \in DOMAIN h |-> CopyOf(h[i])]
<1>1. /\ SetQueue(Restore(g))
      /\ cancelled' = cancelled \cup {CopyOf(e) : e \in Range(h) \cap cancelled}
      /\ next' = snap.next /\ now' = snap.now /\ count' = snap.count /\ hash' = snap.hash
      /\ threw' = snap.threw /\ resumes' = resumes + 1 /\ answer' = "none"
      /\ mode = "idle" /\ snap.taken /\ UNCHANGED <<mode, until, snap>>
  BY DEF ResumeCheckpoint, runVars
<1>2. h \in Seq(Entry) /\ Distinct(h)
  BY DEF KernelInv, SnapOK
<1> DEFINE n == Len(h)
<1>3. n \in Nat /\ DOMAIN h = 1..n /\ \A i \in 1..n : h[i] \in Entry
  BY <1>2
<1> HIDE DEF h
<1>4. /\ g \in [1..n -> Entry] /\ \A i \in 1..n : g[i] = CopyOf(h[i])
  BY <1>3, Copies
<1> HIDE DEF g
<1>5. g \in Seq(Entry) /\ Len(g) = n /\ DOMAIN g = 1..n
  BY <1>3, <1>4
<1>6. Distinct(g)
  <2> SUFFICES ASSUME NEW i \in 1..n, NEW j \in 1..n, Id(g[i]) = Id(g[j]) PROVE i = j
    BY <1>5 DEF Distinct
  <2>1. Id(g[i]) = Id(h[i]) /\ Id(g[j]) = Id(h[j])
    BY <1>3, <1>4, Copies
  <2>2. QED
    BY <1>2, <2>1 DEF Distinct, n
<1>7. Range(g) = {CopyOf(e) : e \in Range(h)}
  <2>1. Range(g) = {CopyOf(h[i]) : i \in 1..n}
    BY <1>4, <1>5 DEF Range
  <2>2. Range(h) = {h[i] : i \in 1..n}
    BY <1>3 DEF Range
  <2>3. QED
    BY <2>1, <2>2
<1>8. Sound(Restore(g)) /\ Range(Restore(g).heap) = Range(g)
  BY <1>5, <1>6, RestoreIsSound
<1>9. Sound(queue)' /\ heap' \in Seq(Entry) /\ Range(heap') = Range(g)
  BY <1>1, <1>8, SetSound
<1>10. ASSUME NEW e \in Range(h) PROVE CopyOf(e) \in cancelled' <=> e \in cancelled
  <2>1. e \in Entry /\ \A f \in Range(h) : f \in Entry /\ f.copy = snap.resumes
    <3>1. \A f \in Range(h) : f \in Entry
      BY <1>3 DEF Range
    <3>2. \A f \in Range(h) : f.copy = snap.resumes
      BY DEF KernelInv, SnapOK, h
    <3>3. QED
      BY <3>1, <3>2
  <2>2. CopyOf(e) \notin cancelled
    <3>1. CopyOf(e).copy = resumes + 1 /\ resumes \in Nat
      BY <2>1, Copies, QueueFacts
    <3>2. QED
      BY <3>1 DEF KernelInv, MarksOK
  <2>3. ASSUME NEW f \in Range(h), CopyOf(f) = CopyOf(e) PROVE f = e
    <3>1. Key(f) = Key(e) /\ f.copy = e.copy
      BY <2>1, <2>3, Copies
    <3>2. f.time = e.time /\ f.prio = e.prio /\ f.seq = e.seq
      BY <3>1 DEF Key
    <3>3. QED
      BY <2>1, <3>1, <3>2, EventFields
  <2>4. QED
    BY <1>1, <2>2, <2>3
<1>11. Live(heap)' = {CopyOf(e) : e \in Live(h)}
  <2>1. Live(heap)' = {f \in Range(heap') : f \notin cancelled'}
    BY DEF Live
  <2>2. Live(h) = {e \in Range(h) : e \notin cancelled}
    BY DEF Live
  <2>3. QED
    BY <1>7, <1>9, <1>10, <2>1, <2>2
<1>12. QED
  BY <1>1, <1>7, <1>9, <1>11 DEF h

LEMMA ResumeCheckpointInv == ASSUME KernelInv, ResumeCheckpoint PROVE KernelInv'
<1> DEFINE R == Range(snap.events)
<1>1. /\ Sound(queue)' /\ heap' \in Seq(Entry)
      /\ Range(heap') = {CopyOf(e) : e \in R}
      /\ Live(heap)' = {CopyOf(e) : e \in Live(snap.events)}
      /\ cancelled' = cancelled \cup {CopyOf(e) : e \in R \cap cancelled}
      /\ next' = snap.next /\ now' = snap.now /\ count' = snap.count /\ hash' = snap.hash
      /\ threw' = snap.threw /\ resumes' = resumes + 1 /\ answer' = "none"
      /\ mode = "idle" /\ UNCHANGED <<mode, until, snap>>
  BY Loaded
<1>2. /\ snap.events \in Seq(Entry) /\ Distinct(snap.events)
      /\ snap.next \in Nat /\ snap.now \in Nat /\ snap.count \in Nat /\ snap.hash \in Seq(Nat)
      /\ snap.threw \in Nat /\ snap.resumes \in Nat /\ snap.resumes <= resumes
      /\ \A e \in R : /\ e.seq < snap.next /\ e.copy = snap.resumes
                      /\ e \notin cancelled => e.time >= snap.now
      /\ Len(snap.hash) = snap.count + snap.threw /\ resumes \in Nat
      /\ snap.taken \in BOOLEAN /\ (snap.taken \/ snap.events = << >>)
  BY QueueFacts DEF KernelInv, SnapOK
<1>3. \A e \in R : /\ CopyOf(e) \in Entry /\ CopyOf(e).copy = resumes + 1
                   /\ CopyOf(e).seq = e.seq /\ CopyOf(e).time = e.time
  <2>1. \A e \in R : e \in Entry
    BY <1>2 DEF Range
  <2>2. QED
    BY <2>1, Copies
<1>4. \A e \in Live(snap.events) : e \in R /\ e \notin cancelled
  BY DEF Live
<1> HIDE DEF R
<1>5. KTypeOK' /\ NoAnswerYet'
  <2>1. cancelled' \subseteq Entry
    BY <1>1, <1>3, QueueFacts
  <2>2. QED
    BY <1>1, <1>2, <2>1 DEF KernelInv, KTypeOK, NoAnswerYet
<1>6. QueueOK'
  BY <1>1, <1>2, <1>3 DEF QueueOK
<1>7. MarksOK'
  <2> SUFFICES ASSUME NEW f \in cancelled'
               PROVE  f.copy <= resumes + 1 /\ (f.copy = resumes + 1 => f.seq < snap.next)
    BY <1>1 DEF MarksOK
  <2>1. CASE f \in cancelled
    <3>1. f.copy <= resumes /\ f.copy \in Nat
      BY <2>1, QueueFacts, EventFields DEF KernelInv, MarksOK
    <3>2. QED
      BY <1>2, <3>1
  <2>2. CASE f \notin cancelled
    <3>1. PICK e \in R : f = CopyOf(e)
      BY <1>1, <2>2
    <3>2. QED
      BY <1>2, <1>3, <3>1
  <2>3. QED
    BY <2>1, <2>2
<1>8. SnapOK'
  <2>1. cancelled \subseteq cancelled' /\ snap' = snap /\ snap.resumes <= resumes + 1
    BY <1>1, <1>2
  <2>2. QED
    BY <1>1, <1>2, <2>1 DEF SnapOK, R
<1>9. Ahead'
  BY <1>1, <1>2, <1>3, <1>4 DEF Ahead
<1>10. Answers' /\ RunKeepsLimit' /\ TraceIsCounted'
  <2>1. Answers' /\ RunKeepsLimit' /\ ~Handling'
    BY <1>1 DEF Answers, RunKeepsLimit, Handling
  <2>2. Len(hash') = count' + threw' + 0
    BY <1>1, <1>2
  <2>3. QED
    BY <2>1, <2>2 DEF TraceIsCounted
<1>11. QED
  BY <1>5, <1>6, <1>7, <1>8, <1>9, <1>10, SaidOfObjectsNext DEF KernelInv, RunIsExact

LEMMA ResetInv == ASSUME KernelInv, Reset PROVE KernelInv'
<1>1. /\ heap' = << >> /\ index' = << >>
      /\ now' = 0 /\ count' = 0 /\ hash' = << >> /\ threw' = 0
      /\ answer' = "none" /\ mode = "idle"
      /\ UNCHANGED <<next, cancelled, mode, until, snap, resumes>>
  BY DEF Reset, SetQueue, EmptyQueue, runVars, saveVars
<1>2. Range(heap') = {} /\ DOMAIN index' = {} /\ heap' \in Seq(Entry) /\ hash' \in Seq(Nat)
      /\ Len(hash') = 0 /\ DOMAIN heap' = {} /\ Len(heap') = 0
  BY <1>1 DEF Range
<1>3. QueueOK'
  BY <1>2 DEF QueueOK, Sound, WellFormed, Ordered, Indexed, queue
<1>4. KTypeOK' /\ NoAnswerYet' /\ MarksOK'
  BY <1>1, <1>2 DEF KernelInv, KTypeOK, NoAnswerYet, MarksOK
<1>5. SnapOK'
  BY <1>1, SnapStays DEF KernelInv, saveVars
<1>6. Ahead' /\ Answers' /\ RunKeepsLimit' /\ TraceIsCounted'
  <2>1. Live(heap)' = {}
    BY <1>2 DEF Live
  <2>2. QED
    BY <1>1, <1>2, <2>1 DEF Ahead, Answers, RunKeepsLimit, TraceIsCounted, Handling
<1>7. QED
  BY <1>3, <1>4, <1>5, <1>6, SaidOfObjectsNext DEF KernelInv, RunIsExact

-----------------------------------------------------------------------------
(* The invariant holds.                                                    *)

LEMMA KernelInvStays == ASSUME KernelInv, [KNext]_kvars PROVE KernelInv'
<1>1. ASSUME NEW s \in Slot, Schedule(s[1], s[2]) PROVE KernelInv'
  <2>1. s[1] \in Nat /\ s[2] \in Int
    BY KernelAssumption
  <2>2. QED
    BY <1>1, <2>1, ScheduleInv
<1>2. ASSUME NEW id \in (0..MaxEvents) \X (0..MaxTime), Cancel(id) PROVE KernelInv'
  BY <1>2, CancelInv
<1>3. CASE Step
  BY <1>3, StepInv
<1>4. CASE StepEmpty
  BY <1>4, StepEmptyInv
<1>5. CASE EndStep
  BY <1>5, EndStepInv
<1>6. CASE HandlerThrows
  BY <1>6, HandlerThrowsInv
<1>7. ASSUME NEW t \in 0..MaxTime, RunUntil(t) PROVE KernelInv'
  <2>1. t \in Nat
    BY KernelAssumption
  <2>2. QED
    BY <1>7, <2>1, RunUntilInv
<1>8. CASE RunStep
  BY <1>8, RunStepInv
<1>9. CASE RunEnds
  BY <1>9, RunEndsInv
<1>10. CASE CreateCheckpoint
  BY <1>10, CreateCheckpointInv
<1>11. CASE ResumeCheckpoint
  BY <1>11, ResumeCheckpointInv
<1>12. CASE Reset
  BY <1>12, ResetInv
<1>13. CASE UNCHANGED kvars
  <2>1. /\ Rests /\ UNCHANGED <<mode, until, count, threw, answer, hash, now>>
    BY <1>13, QueueRests DEF kvars, queueVars, runVars, saveVars
  <2>2. NoAnswerYet' /\ Answers' /\ RunKeepsLimit' /\ TraceIsCounted'
    BY <2>1, SaidOfObjects
       DEF Rests, KernelInv, RunIsExact, NoAnswerYet, Answers, RunKeepsLimit, TraceIsCounted,
           Handling
  <2>3. QED
    BY <2>1, <2>2, RestsInv DEF KernelInv, KTypeOK
<1>14. QED
  BY <1>1, <1>2, <1>3, <1>4, <1>5, <1>6, <1>7, <1>8, <1>9, <1>10, <1>11, <1>12, <1>13
  DEF KNext

LEMMA KernelInvariant == KSpec => []KernelInv
BY InitInv, KernelInvStays, PTL DEF KSpec

\* Every variable of the kernel keeps its type, whatever handlers schedule and
\* cancel and whatever checkpoints are resumed.
THEOREM KernelTypeCorrect == KSpec => []KTypeOK
<1>1. KernelInv => KTypeOK
  BY DEF KernelInv
<1>2. QED
  BY <1>1, KernelInvariant, PTL

\* siftUp, siftDown, pruneCancelled and restoreState keep the binary heap in
\* order and the map from ids to places right, through any sequence of calls.
THEOREM QueueStaysWellFormed == KSpec => []QueueWellFormed
<1>1. KernelInv => QueueWellFormed
  BY DEF KernelInv, QueueOK, Sound, QueueWellFormed
<1>2. QED
  BY <1>1, KernelInvariant, PTL

\* Nothing that waits is in the past, runUntil keeps to its limit and says the
\* truth of what is left, and the hash chain counts what was processed.
THEOREM RunsAreExact == KSpec => []RunIsExact
<1>1. KernelInv => RunIsExact
  BY DEF KernelInv
<1>2. QED
  BY <1>1, KernelInvariant, PTL

-----------------------------------------------------------------------------
(* The kernel follows EventSchedule.                                       *)

\* The checkpoint as it was taken.
Kept == {Key(e) : e \in Range(snap.events)}

LEMMA SameKey ==
  ASSUME NEW e \in Entry, NEW f \in Entry, Key(e) = Key(f), e.copy = f.copy PROVE e = f
<1>1. e.time = f.time /\ e.prio = f.prio /\ e.seq = f.seq
  BY DEF Key
<1>2. QED
  BY <1>1, EventFields

LEMMA RestsStutters == ASSUME KernelInv, Rests PROVE UNCHANGED Events!svars
<1>1. Live(heap)' = Live(heap) /\ UNCHANGED <<next, now, snap>>
  BY DEF Rests, Live
<1>2. Pending' = Pending
  BY <1>1 DEF Pending
<1>3. QED
  BY <1>1, <1>2 DEF Events!svars

LEMMA ScheduleAdds ==
  ASSUME KernelInv, NEW t \in Nat, NEW p \in Int, Schedule(t, p) PROVE Events!SNext
<1> DEFINE e == [time |-> t, prio |-> p, seq |-> next, copy |-> resumes]
<1>1. /\ SetQueue(PushEvent(queue, e)) /\ t >= now /\ next' = next + 1
      /\ UNCHANGED <<cancelled, now, snap, resumes>>
  BY DEF Schedule, saveVars
<1>2. /\ e \in Entry /\ e.time = t /\ e.seq = next /\ e.copy = resumes
      /\ Key(e).time = t /\ Key(e).seq = next
  BY QueueFacts DEF Entry, Key
<1> HIDE DEF e
<1>3. Id(e) \notin {Id(f) : f \in Range(queue.heap)}
  <2> SUFFICES ASSUME NEW f \in Range(heap), Id(f) = Id(e) PROVE FALSE
    BY QueueFacts
  <2>1. f.seq = next /\ f.seq < next /\ f.seq \in Nat /\ next \in Nat
    BY <1>2, QueueFacts, EventFields DEF Id
  <2>2. QED
    BY <2>1
<1>4. Range(heap') = Range(heap) \cup {e}
  BY <1>1, <1>2, <1>3, QueueFacts, PushIsSound, SetSound
<1>5. e \notin cancelled
  BY <1>2, QueueFacts DEF KernelInv, MarksOK
<1>6. Live(heap)' = Live(heap) \cup {e}
  BY <1>1, <1>4, <1>5 DEF Live
<1>7. Pending' = Pending \cup {Key(e)}
  BY <1>6 DEF Pending
<1>8. Key(e) \notin Pending
  <2> SUFFICES ASSUME NEW f \in Live(heap), Key(f) = Key(e) PROVE FALSE
    BY DEF Pending
  <2>1. f.seq < next /\ f.seq \in Nat /\ next \in Nat /\ Key(f).seq = f.seq
    BY QueueFacts, EventFields DEF Live
  <2>2. QED
    BY <1>2, <2>1
<1>9. Events!Add(Key(e))
  BY <1>1, <1>2, <1>7 DEF Events!Add
<1>10. QED
  BY <1>7, <1>8, <1>9 DEF Events!SNext

LEMMA CancelDrops == ASSUME KernelInv, NEW id, Cancel(id) PROVE Events!SNext
<1> DEFINE e == heap[index[id]]
<1>1. e \in Live(heap) /\ e \in Range(heap) /\ e \in Entry /\ e.copy = resumes
  BY CancelFinds, QueueFacts DEF Live
<1>2. cancelled' = cancelled \cup {e} /\ UNCHANGED <<heap, next, now, snap, resumes>>
  BY DEF Cancel, queueVars, saveVars
<1> HIDE DEF e
<1>3. Live(heap)' = Live(heap) \ {e}
  BY <1>2 DEF Live
<1>4. Pending' = Pending \ {Key(e)} /\ Key(e) \in Pending
  <2>1. \A f \in Live(heap) : Key(f) = Key(e) => f = e
    BY <1>1, QueueFacts, SameKey DEF Live
  <2>2. QED
    BY <1>1, <1>3, <2>1 DEF Pending
<1>5. Events!Drop(Key(e))
  BY <1>2, <1>4 DEF Events!Drop
<1>6. QED
  BY <1>4, <1>5 DEF Events!SNext

LEMMA BeginIsTake == ASSUME KernelInv, NEW handling, Begin(handling) PROVE Events!SNext
<1> DEFINE e == Prune(queue, cancelled).heap[1]
<1>1. Took(e)
  BY BeginTakes
<1> HIDE DEF e
<1>2. /\ e \in Live(heap) /\ e \in Entry /\ \A f \in Live(heap) : ~Less(f, e)
      /\ Live(heap)' = Live(heap) \ {e} /\ now' = e.time /\ e.time >= now
      /\ UNCHANGED <<next, cancelled, snap, resumes>>
  BY <1>1 DEF Took
<1>4. Pending' = Pending \ {Key(e)} /\ Key(e) \in Pending
  <2>1. \A f \in Live(heap) : Key(f) = Key(e) => f = e
    BY <1>2, QueueFacts, SameKey DEF Live
  <2>2. QED
    BY <1>2, <2>1 DEF Pending
<1>5. ASSUME NEW k \in Pending \ {Key(e)} PROVE Events!Earlier(Key(e), k)
  <2>1. PICK f \in Live(heap) : k = Key(f)
    BY DEF Pending
  <2>2. f \in Entry /\ ~Less(f, e) /\ f # e /\ f.copy = e.copy
    BY <1>2, <1>5, <2>1, QueueFacts DEF Live
  <2>3. /\ f.time \in Int /\ f.prio \in Int /\ f.seq \in Int
        /\ e.time \in Int /\ e.prio \in Int /\ e.seq \in Int
    BY <1>2, <2>2, EventFields
  <2>4. ~(f.time = e.time /\ f.prio = e.prio /\ f.seq = e.seq)
    BY <1>2, <2>2, EventFields
  <2>5. Less(e, f)
    BY <2>2, <2>3, <2>4 DEF Less
  <2>6. QED
    BY <2>1, <2>5 DEF Less, Events!Earlier, Key
<1>6. Key(e).time = e.time
  BY DEF Key
<1>7. Events!Take(Key(e))
  BY <1>2, <1>4, <1>5, <1>6 DEF Events!Take
<1>8. QED
  BY <1>4, <1>7 DEF Events!SNext

LEMMA CreateCheckpointSaves == ASSUME KernelInv, CreateCheckpoint PROVE Events!SNext
<1> DEFINE s == snap'.events
<1>1. /\ Range(s) = Live(heap)
      /\ snap' = [taken |-> TRUE, now |-> now, count |-> count, hash |-> hash,
                  next |-> next, threw |-> threw, resumes |-> resumes, events |-> s]
      /\ UNCHANGED <<heap, next, cancelled, now, resumes>>
  BY Saved
<1> HIDE DEF s
<1>2. snap'.events = s /\ snap'.taken = TRUE /\ snap'.next = next /\ snap'.now = now
  BY <1>1
<1>3. Live(heap)' = Live(heap)
  BY <1>1 DEF Live
<1>4. Pending' = Pending /\ Kept' = Pending
  BY <1>1, <1>2, <1>3 DEF Pending, Kept
<1>5. Events!Save
  BY <1>1, <1>2, <1>4 DEF Events!Save, Kept
<1>6. QED
  BY <1>5 DEF Events!SNext

LEMMA ResumeCheckpointResumes == ASSUME KernelInv, ResumeCheckpoint PROVE ResumesTheRest
<1>1. /\ Live(heap)' = {CopyOf(e) : e \in Live(snap.events)}
      /\ next' = snap.next /\ now' = snap.now /\ snap.taken /\ UNCHANGED snap
  BY Loaded
<1>2. \A e \in Live(snap.events) : Key(CopyOf(e)) = Key(e)
  BY Copies DEF KernelInv, SnapOK, Range, Live
<1>3. Pending' = {Key(CopyOf(e)) : e \in Live(snap.events)}
  BY <1>1 DEF Pending
<1>4. Pending' = {Key(e) : e \in Live(snap.events)}
  BY <1>2, <1>3
<1>5. QED
  BY <1>1, <1>4 DEF ResumesTheRest, Events!Resume

LEMMA ResetClears == ASSUME KernelInv, Reset PROVE Events!SNext
<1>1. heap' = << >> /\ now' = 0 /\ UNCHANGED <<next, cancelled, snap>>
  BY DEF Reset, SetQueue, EmptyQueue, saveVars
<1>2. Live(heap)' = {}
  BY <1>1 DEF Live, Range
<1>3. Pending' = {}
  BY <1>2 DEF Pending
<1>4. Events!Clear
  BY <1>1, <1>2, <1>3 DEF Events!Clear
<1>5. QED
  BY <1>4 DEF Events!SNext

LEMMA StepsAreSteps ==
  ASSUME KernelInv, [KNext]_kvars PROVE [Events!SNext \/ ResumesTheRest]_(Events!svars)
<1>1. ASSUME NEW s \in Slot, Schedule(s[1], s[2]) PROVE Events!SNext
  <2>1. s[1] \in Nat /\ s[2] \in Int
    BY KernelAssumption
  <2>2. QED
    BY <1>1, <2>1, ScheduleAdds
<1>2. ASSUME NEW id \in (0..MaxEvents) \X (0..MaxTime), Cancel(id) PROVE Events!SNext
  BY <1>2, CancelDrops
<1>3. CASE Step \/ RunStep
  BY <1>3, BeginIsTake DEF Step, RunStep
<1>4. CASE StepEmpty
  <2>1. Rests
    BY <1>4, PruneRests DEF StepEmpty, runVars, saveVars
  <2>2. QED
    BY <2>1, RestsStutters
<1>5. CASE EndStep \/ HandlerThrows
  <2>1. Rests
    BY <1>5, QueueRests DEF EndStep, HandlerThrows
  <2>2. QED
    BY <2>1, RestsStutters
<1>6. ASSUME NEW t \in 0..MaxTime, RunUntil(t) PROVE UNCHANGED Events!svars
  <2>1. Rests
    BY <1>6, QueueRests DEF RunUntil
  <2>2. QED
    BY <2>1, RestsStutters
<1>7. CASE RunEnds
  <2>1. Rests
    BY <1>7, PruneRests DEF RunEnds, Return, saveVars
  <2>2. QED
    BY <2>1, RestsStutters
<1>8. CASE CreateCheckpoint
  BY <1>8, CreateCheckpointSaves
<1>9. CASE ResumeCheckpoint
  BY <1>9, ResumeCheckpointResumes
<1>10. CASE Reset
  BY <1>10, ResetClears
<1>11. CASE UNCHANGED kvars
  <2>1. Rests
    BY <1>11, QueueRests DEF kvars
  <2>2. QED
    BY <2>1, RestsStutters
<1>12. QED
  BY <1>1, <1>2, <1>3, <1>4, <1>5, <1>6, <1>7, <1>8, <1>9, <1>10, <1>11 DEF KNext

LEMMA StartsEmpty == KInit => Events!SInit
<1> SUFFICES ASSUME KInit PROVE Events!SInit
  OBVIOUS
<1>1. heap = << >> /\ next = 0 /\ now = 0 /\ snap = NoSnap
  BY DEF KInit
<1>2. /\ snap.events = << >> /\ snap.next = 0 /\ snap.now = 0 /\ snap.taken = FALSE
  BY <1>1 DEF NoSnap
<1>3. Live(heap) = {} /\ Range(snap.events) = {}
  BY <1>1, <1>2 DEF Live, Range
<1>4. Pending = {} /\ {Key(e) : e \in Range(snap.events)} = {}
  BY <1>3 DEF Pending
<1>5. QED
  BY <1>1, <1>2, <1>4 DEF Events!SInit, Events!NotSaved

\* The kernel is a schedule: events are taken in the order of time, priority and
\* sequence number, each once and a cancelled one never; a checkpoint brings back
\* the clock, the numbering and the events it was taken of, but for what was
\* cancelled since (EventQueue, createCheckpoint, resumeCheckpoint).
THEOREM KernelIsASchedule == KSpec => FollowsSchedule
BY StartsEmpty, StepsAreSteps, KernelInvariant, PTL DEF KSpec, FollowsSchedule
=============================================================================
