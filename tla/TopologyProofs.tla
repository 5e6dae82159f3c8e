--------------------------- MODULE TopologyProofs --------------------------
(***************************************************************************)
(* Theorems about the topology: the searches and the sort of a graph, for  *)
(* every graph of any size, in any order of its nodes and edges; the       *)
(* report of the route that validates one, whatever is posted between its  *)
(* two reads; and the operations of a node, for any requests that overlap  *)
(* and any list of dependency calls.                                       *)
(***************************************************************************)
EXTENDS TopologyApi, FiniteSetTheorems, SequenceTheorems, WellFoundedInduction, TLAPS

LEMMA NaturalInduction ==
  ASSUME NEW P, 0 \in P, \A n \in Nat : n \in P => n + 1 \in P
  PROVE  Nat \subseteq P
<1> SUFFICES ASSUME Nat \ P # {} PROVE FALSE
  OBVIOUS
<1>1. PICK d \in Nat \ P : \A e \in Nat \ P : ~(<<e, d>> \in OpToRel(<, Nat))
  BY NatLessThanWellFounded, WFMin
<1>2. \A e \in Nat \ P : ~(e < d)
  BY <1>1 DEF OpToRel
<1>3. d \in Nat /\ d \notin P /\ d # 0
  BY <1>1
<1>4. d - 1 \in Nat /\ d - 1 < d /\ (d - 1) + 1 = d
  BY <1>3
<1>5. d - 1 \in P
  BY <1>2, <1>4
<1>6. QED
  BY <1>3, <1>4, <1>5

\* Induction over the rounds of a loop.
LEMMA RoundInduction ==
  ASSUME NEW n \in Nat, NEW P, 0 \in P, \A k \in 1..n : k - 1 \in P => k \in P
  PROVE  \A k \in 0..n : k \in P
<1> DEFINE Q == {k \in Nat : k <= n => k \in P}
<1>1. 0 \in Q
  OBVIOUS
<1>2. ASSUME NEW k \in Nat, k \in Q PROVE k + 1 \in Q
  <2>1. CASE k + 1 <= n
    <3>1. k + 1 \in 1..n /\ (k + 1) - 1 = k /\ k \in P
      BY <1>2, <2>1
    <3>2. k + 1 \in P
      BY <3>1
    <3>3. QED
      BY <3>2
  <2>2. CASE ~(k + 1 <= n)
    BY <2>2
  <2>3. QED
    BY <2>1, <2>2
<1>3. Nat \subseteq Q
  <2> HIDE DEF Q
  <2>1. QED
    BY <1>1, <1>2, NaturalInduction
<1>4. QED
  BY <1>3

-----------------------------------------------------------------------------
(* Sets of places, and sequences                                           *)

LEMMA MinIsMember ==
  ASSUME NEW S \in SUBSET Nat, S # {} PROVE Min(S) \in S
<1>1. PICK d \in S : \A e \in S : ~(<<e, d>> \in OpToRel(<, Nat))
  BY NatLessThanWellFounded, WFMin
<1>2. \A e \in S : ~(e < d)
  BY <1>1 DEF OpToRel
<1>3. \A e \in S : e \in Nat
  OBVIOUS
<1>4. \A e \in S : d <= e
  BY <1>2, <1>3
<1>5. QED
  BY <1>4, Zenon DEF Min

LEMMA PlacesAreFew ==
  ASSUME NEW n \in Nat, NEW S \in SUBSET (1..n)
  PROVE  IsFiniteSet(S) /\ Cardinality(S) \in 0..n
<1>1. IsFiniteSet(1..n) /\ Cardinality(1..n) = n
  BY FS_Interval
<1>2. IsFiniteSet(S) /\ Cardinality(S) <= Cardinality(1..n)
  BY <1>1, FS_Subset, Zenon
<1>3. Cardinality(S) \in Nat
  BY <1>2, FS_CardinalityType
<1>4. QED
  BY <1>1, <1>2, <1>3

\* A set of places that lost one is smaller.
LEMMA OneLess ==
  ASSUME NEW n \in Nat, NEW S \in SUBSET (1..n), NEW T \in SUBSET S, NEW i \in S, i \notin T
  PROVE  Cardinality(T) + 1 <= Cardinality(S)
<1>1. IsFiniteSet(S) /\ Cardinality(S) \in 0..n
  BY PlacesAreFew, Zenon
<1>2. T \in SUBSET (S \ {i})
  OBVIOUS
<1>3. IsFiniteSet(S \ {i}) /\ Cardinality(S \ {i}) = Cardinality(S) - 1
  BY <1>1, FS_RemoveElement
<1>4. IsFiniteSet(T) /\ Cardinality(T) <= Cardinality(S \ {i})
  BY <1>2, <1>3, FS_Subset, Zenon
<1>5. Cardinality(T) \in Nat
  BY <1>4, FS_CardinalityType
<1>6. QED
  BY <1>1, <1>3, <1>4, <1>5

LEMMA NoPlaces ==
  ASSUME NEW n \in Nat, NEW S \in SUBSET (1..n), Cardinality(S) = 0 PROVE S = {}
<1>1. IsFiniteSet(S)
  BY PlacesAreFew
<1>2. QED
  BY <1>1, FS_EmptySet

LEMMA FrontAndLast ==
  ASSUME NEW S, NEW s \in Seq(S), s # << >>
  PROVE  /\ Last(s) \in S /\ Last(s) = s[Len(s)] /\ Len(s) \in Nat \ {0}
         /\ Front(s) \in Seq(S) /\ Len(Front(s)) = Len(s) - 1
         /\ \A i \in 1..Len(s) - 1 : Front(s)[i] = s[i]
<1>1. Len(s) \in Nat \ {0}
  BY EmptySeq
<1>2. \A i \in 1..Len(s) - 1 : s[i] \in S
  BY <1>1, ElementOfSeq
<1> DEFINE m == Len(s) - 1
           f == SubSeq(s, 1, m)
<1>3. m \in Int /\ \A i \in 1..m : s[i] \in S
  BY <1>1, <1>2
<1> HIDE DEF m
<1>4. /\ f \in Seq(S)
      /\ Len(f) = IF 1 <= m THEN m - 1 + 1 ELSE 0
      /\ \A i \in 1..m - 1 + 1 : f[i] = s[1 + i - 1]
  BY <1>3, SubSeqProperties
<1> HIDE DEF f
<1>5. m \in Nat
  BY <1>1 DEF m
<1>6. Len(f) = m
  BY <1>4, <1>5
<1>7. ASSUME NEW i \in 1..m PROVE f[i] = s[i]
  <2>1. i \in 1..m - 1 + 1 /\ 1 + i - 1 = i
    BY <1>5
  <2>2. f[i] = s[1 + i - 1]
    BY <1>4, <2>1
  <2>3. QED
    BY <2>1, <2>2
<1>8. Front(s) = f /\ Last(s) = s[Len(s)]
  BY DEF Front, Last, f, m
<1>9. s[Len(s)] \in S
  BY <1>1, ElementOfSeq
<1>10. QED
  BY <1>1, <1>4, <1>6, <1>7, <1>8, <1>9 DEF m

LEMMA SeqSet == ASSUME NEW S, NEW s \in Seq(S) PROVE
    /\ ToSet(s) \subseteq S /\ Len(s) \in Nat /\ DOMAIN s = 1..Len(s)
    /\ \A i \in 1..Len(s) : s[i] \in S /\ s[i] \in ToSet(s)
    /\ \A x \in ToSet(s) : \E i \in 1..Len(s) : s[i] = x
    /\ (s = << >>) = (Len(s) = 0)
  BY ElementOfSeq, EmptySeq DEF ToSet

LEMMA SeqWithin ==
  ASSUME NEW S, NEW s \in Seq(S), NEW T, \A i \in 1..Len(s) : s[i] \in T
  PROVE  s \in Seq(T)
<1>1. Len(s) \in Nat /\ s \in [1..Len(s) -> S]
  BY LenProperties
<1>2. s \in [1..Len(s) -> T]
  BY <1>1
<1>3. QED
  BY <1>1, <1>2, SeqDef

\* The elements of a sequence with one more.
LEMMA AppendSet ==
  ASSUME NEW S, NEW s \in Seq(S), NEW x \in S
  PROVE  ToSet(Append(s, x)) = ToSet(s) \cup {x}
<1>1. /\ Append(s, x) \in Seq(S) /\ Len(Append(s, x)) = Len(s) + 1 /\ Len(s) \in Nat
      /\ \A i \in 1..Len(s) : Append(s, x)[i] = s[i]
      /\ Append(s, x)[Len(s) + 1] = x
  BY AppendProperties
<1> DEFINE t == Append(s, x)
<1>2. DOMAIN t = 1..Len(s) + 1 /\ DOMAIN s = 1..Len(s)
  BY <1>1
<1> HIDE DEF t
<1>3. /\ \A i \in 1..Len(s) : t[i] = s[i]
      /\ t[Len(s) + 1] = x
  BY <1>1 DEF t
<1>4. ToSet(t) = ToSet(s) \cup {x}
  BY <1>1, <1>2, <1>3 DEF ToSet
<1>5. QED
  BY <1>4 DEF t

\* A sequence without repetitions, and an element that it lacks.
LEMMA AppendOnce ==
  ASSUME NEW S, NEW s \in Seq(S), NEW x \in S, x \notin ToSet(s), IsInjective(s)
  PROVE  IsInjective(Append(s, x))
<1> DEFINE t == Append(s, x)
<1>1. /\ t \in Seq(S) /\ Len(t) = Len(s) + 1 /\ Len(s) \in Nat
      /\ \A i \in 1..Len(s) : t[i] = s[i]
      /\ t[Len(s) + 1] = x
  BY AppendProperties
<1>2. DOMAIN t = 1..Len(s) + 1 /\ DOMAIN s = 1..Len(s)
  BY <1>1
<1>3. \A i \in 1..Len(s) : s[i] # x
  BY SeqSet
<1> HIDE DEF t
<1>4. ASSUME NEW i \in 1..Len(s) + 1, NEW j \in 1..Len(s) + 1, t[i] = t[j] PROVE i = j
  <2>1. (i \in 1..Len(s) \/ i = Len(s) + 1) /\ (j \in 1..Len(s) \/ j = Len(s) + 1)
    BY <1>1
  <2>2. QED
    BY <1>1, <1>2, <1>3, <1>4, <2>1 DEF IsInjective
<1>5. IsInjective(t)
  BY <1>2, <1>4 DEF IsInjective
<1>6. QED
  BY <1>5 DEF t

\* The first element of such a sequence, and the others.
LEMMA HeadOnce ==
  ASSUME NEW S, NEW s \in Seq(S), s # << >>, IsInjective(s)
  PROVE  /\ Tail(s) \in Seq(S) /\ Head(s) \in S /\ Head(s) \notin ToSet(Tail(s))
         /\ ToSet(s) = ToSet(Tail(s)) \cup {Head(s)} /\ IsInjective(Tail(s))
<1> DEFINE t == Tail(s)
           h == Head(s)
           k == Len(s)
<1>1. /\ t \in Seq(S) /\ h \in S /\ Len(t) = k - 1
      /\ \A i \in 1..Len(t) : t[i] = s[i + 1]
  BY HeadTailProperties
<1>2. k \in Nat \ {0} /\ h = s[1] /\ DOMAIN s = 1..k
  BY SeqSet
<1> HIDE DEF t, h, k
<1>3. DOMAIN t = 1..k - 1 /\ \A i \in 1..k - 1 : t[i] = s[i + 1] /\ i + 1 \in 1..k /\ i + 1 # 1
  BY <1>1, <1>2
<1>4. \A i, j \in 1..k : s[i] = s[j] => i = j
  BY <1>2 DEF IsInjective
<1>5. h \notin ToSet(t)
  BY <1>2, <1>3, <1>4 DEF ToSet
<1>6. IsInjective(t)
  <2> SUFFICES ASSUME NEW i \in 1..k - 1, NEW j \in 1..k - 1, t[i] = t[j] PROVE i = j
    BY <1>3 DEF IsInjective
  <2>1. i + 1 = j + 1
    BY <1>3, <1>4
  <2>2. QED
    BY <1>2, <2>1
<1>7. ToSet(s) = ToSet(t) \cup {h}
  <2>1. \A i \in 1..k : i = 1 \/ (i - 1 \in 1..k - 1 /\ (i - 1) + 1 = i)
    BY <1>2
  <2>2. \A i \in 1..k : i = 1 \/ (s[i] = t[i - 1] /\ i - 1 \in DOMAIN t)
    BY <1>3, <2>1
  <2>3. ToSet(s) \subseteq ToSet(t) \cup {h}
    BY <1>2, <2>2 DEF ToSet
  <2>4. ToSet(t) \subseteq ToSet(s) /\ h \in ToSet(s)
    BY <1>2, <1>3 DEF ToSet
  <2>5. QED
    BY <2>3, <2>4
<1>8. QED
  BY <1>1, <1>5, <1>6, <1>7 DEF t, h

\* A sequence without repetitions is as long as it has elements.
LEMMA AsLongAsMany ==
  ASSUME NEW S, NEW s \in Seq(S), IsInjective(s)
  PROVE  IsFiniteSet(ToSet(s)) /\ Cardinality(ToSet(s)) = Len(s)
<1>1. Len(s) \in Nat /\ DOMAIN s = 1..Len(s) /\ s \in [1..Len(s) -> S]
  BY LenProperties
<1>2. IsFiniteSet(1..Len(s)) /\ Cardinality(1..Len(s)) = Len(s)
  BY <1>1, FS_Interval
<1>3. s \in Bijection(1..Len(s), ToSet(s))
  <2>1. s \in [1..Len(s) -> ToSet(s)]
    BY <1>1 DEF ToSet
  <2>2. \A t \in ToSet(s) : \E i \in 1..Len(s) : s[i] = t
    BY <1>1 DEF ToSet
  <2>3. \A i, j \in 1..Len(s) : s[i] = s[j] => i = j
    BY <1>1 DEF IsInjective
  <2>4. QED
    BY <2>1, <2>2, <2>3 DEF Bijection, Injection, Surjection
<1>4. ExistsBijection(1..Len(s), ToSet(s))
  BY <1>3 DEF ExistsBijection
<1>5. QED
  BY <1>2, <1>4, FS_Bijection

-----------------------------------------------------------------------------
(* What the edges of a graph reach                                         *)

EdgesAmong(V) == [from : V, to : V, sync : BOOLEAN]
IsGraph(g) ==
  g.nodes \in Seq(ToSet(g.nodes)) /\ g.edges \in Seq(EdgesAmong(ToSet(g.nodes)))

LEMMA EdgesOfGraph ==
  ASSUME NEW g, IsGraph(g)
  PROVE  /\ Len(g.edges) \in Nat /\ DOMAIN g.edges = 1..Len(g.edges)
         /\ \A i \in 1..Len(g.edges) :
              g.edges[i] \in Edges(g) /\ g.edges[i].from \in ToSet(g.nodes)
              /\ g.edges[i].to \in ToSet(g.nodes)
         /\ \A e \in Edges(g) : \E i \in 1..Len(g.edges) : e = g.edges[i]
         /\ \A e \in Edges(g) : e.from \in ToSet(g.nodes) /\ e.to \in ToSet(g.nodes)
<1> DEFINE V == ToSet(g.nodes)
           s == g.edges
<1>1. s \in Seq(EdgesAmong(V))
  BY DEF IsGraph
<1> HIDE DEF V, s
<1>2. /\ Len(s) \in Nat /\ DOMAIN s = 1..Len(s)
      /\ \A i \in 1..Len(s) : s[i] \in EdgesAmong(V) /\ s[i] \in ToSet(s)
      /\ \A x \in ToSet(s) : \E i \in 1..Len(s) : s[i] = x
  BY <1>1, SeqSet
<1>3. \A e \in EdgesAmong(V) : e.from \in V /\ e.to \in V
  BY DEF EdgesAmong
<1>4. QED
  BY <1>2, <1>3 DEF Edges, s, V

LEMMA EdgeReaches ==
  ASSUME NEW g, NEW arcs, NEW e \in arcs PROVE Reaches(g, arcs, e.from, e.to)
  BY DEF Reaches

LEMMA ReachesOn ==
  ASSUME NEW g, NEW arcs, NEW n, NEW m, NEW l,
         Reaches(g, arcs, n, m), Reaches(g, arcs, m, l)
  PROVE  Reaches(g, arcs, n, l)
<1> SUFFICES ASSUME NEW S \in SUBSET ToSet(g.nodes),
                    \A e \in arcs : e.from \in S \cup {n} => e.to \in S
             PROVE  l \in S
  BY DEF Reaches
<1>1. m \in S
  BY Zenon DEF Reaches
<1>2. \A e \in arcs : e.from \in S \cup {m} => e.to \in S
  BY <1>1
<1>3. QED
  BY <1>2, Zenon DEF Reaches

LEMMA StaysInside ==
  ASSUME NEW g, NEW arcs, NEW n, NEW m, Reaches(g, arcs, n, m),
         NEW S \in SUBSET ToSet(g.nodes),
         \A e \in arcs : e.from \in S \cup {n} => e.to \in S
  PROVE  m \in S
  BY Zenon DEF Reaches

\* The first node of a cycle reaches the others, and itself.
LEMMA CycleReaches ==
  ASSUME NEW g, IsGraph(g), NEW c, IsCycle(g, c),
         c.path \in Seq(ToSet(g.nodes)), c.edges \in Seq(EdgesAmong(ToSet(g.nodes)))
  PROVE  Cyclic(g, Edges(g))
<1> DEFINE p == c.path
           s == c.edges
           V == ToSet(g.nodes)
           E == Edges(g)
           P == {j \in Nat : j = 0 \/ Reaches(g, E, p[1], p[j + 1])}
<1>1. /\ Len(s) \in Nat \ {0} /\ Len(p) = Len(s) + 1
      /\ DOMAIN s = 1..Len(s) /\ DOMAIN p = 1..Len(p)
  BY SeqSet DEF IsCycle
<1>2. \A j \in 1..Len(s) : s[j] \in E /\ s[j].from = p[j] /\ s[j].to = p[j + 1]
  BY <1>1 DEF IsCycle
<1>3. p[1] = p[Len(p)]
  BY <1>1 DEF IsCycle, Last
<1>4. p[1] \in V
  BY <1>1, ElementOfSeq
<1> HIDE DEF p, s, V, E
<1>5. 0 \in P
  OBVIOUS
<1>6. ASSUME NEW j \in 1..Len(s), j - 1 \in P PROVE j \in P
  <2>1. Reaches(g, E, p[j], p[j + 1])
    BY <1>2, EdgeReaches
  <2>2. CASE j = 1
    BY <2>1, <2>2
  <2>3. CASE j # 1
    <3>1. j - 1 # 0 /\ (j - 1) + 1 = j /\ j \in Nat
      BY <2>3, <1>1
    <3>2. Reaches(g, E, p[1], p[(j - 1) + 1])
      BY <1>6, <3>1
    <3>3. Reaches(g, E, p[1], p[j])
      BY <3>1, <3>2
    <3>4. Reaches(g, E, p[1], p[j + 1])
      BY <2>1, <3>3, ReachesOn
    <3>5. QED
      BY <3>1, <3>4
  <2>4. QED
    BY <2>2, <2>3
<1>7. \A j \in 0..Len(s) : j \in P
  <2> HIDE DEF P
  <2>1. QED
    BY <1>1, <1>5, <1>6, RoundInduction
<1>8. Reaches(g, E, p[1], p[Len(s) + 1])
  BY <1>1, <1>7
<1>9. Reaches(g, E, p[1], p[1])
  BY <1>1, <1>3, <1>8
<1>10. QED
  BY <1>4, <1>9, Zenon DEF Cyclic, V, E

-----------------------------------------------------------------------------
(* detectCycles, round by round                                            *)

DfsFor(round, g, m) ==
  round = [n \in 0..m |-> IF n = 0 THEN NoSearch ELSE Dfs(g, round[n - 1])]
DfsRounds(g) == 2 * Len(g.nodes) + Len(g.edges)
DfsRun(g) == CHOOSE round : DfsFor(round, g, DfsRounds(g))

LEMMA DfsRunExists ==
  ASSUME NEW g, NEW n \in Nat PROVE \E round : DfsFor(round, g, n)
<1> DEFINE P == {m \in Nat : \E round : DfsFor(round, g, m)}
<1>1. 0 \in P
  <2> DEFINE round == [k \in 0..0 |-> NoSearch]
  <2>1. DfsFor(round, g, 0)
    BY DEF DfsFor
  <2>2. QED
    BY <2>1
<1>2. ASSUME NEW m \in Nat, m \in P PROVE m + 1 \in P
  <2>1. PICK round : DfsFor(round, g, m)
    BY <1>2
  <2> DEFINE more == [k \in 0..m + 1 |-> IF k = 0 THEN NoSearch ELSE Dfs(g, round[k - 1])]
  <2>2. ASSUME NEW k \in 0..m + 1, k # 0 PROVE more[k - 1] = round[k - 1]
    <3>1. k - 1 \in 0..m /\ k - 1 \in 0..m + 1
      BY <2>2
    <3>2. QED
      BY <2>1, <3>1 DEF DfsFor
  <2>3. more = [k \in 0..m + 1 |-> IF k = 0 THEN NoSearch ELSE Dfs(g, more[k - 1])]
    BY <2>2
  <2> HIDE DEF more
  <2>4. DfsFor(more, g, m + 1)
    BY <2>3 DEF DfsFor
  <2>5. QED
    BY <2>4
<1>3. Nat \subseteq P
  <2> HIDE DEF P
  <2>1. QED
    BY <1>1, <1>2, NaturalInduction
<1>4. QED
  BY <1>3

LEMMA DfsRunRounds ==
  ASSUME NEW g, DfsRounds(g) \in Nat
  PROVE  /\ DetectCycles(g) = DfsRun(g)[DfsRounds(g)].cycles
         /\ DfsRun(g)[0] = NoSearch
         /\ \A n \in 1..DfsRounds(g) : DfsRun(g)[n] = Dfs(g, DfsRun(g)[n - 1])
<1> DEFINE r == DfsRun(g)
           last == DfsRounds(g)
<1>1. DetectCycles(g) = r[last].cycles
  BY Zenon DEF DetectCycles, DfsRun, DfsRounds, DfsFor
<1>2. \E round : DfsFor(round, g, last)
  BY DfsRunExists
<1>3. DfsFor(r, g, last)
  BY <1>2, Zenon DEF DfsRun
<1>4. last \in Nat
  OBVIOUS
<1> HIDE DEF r, last
<1>5. r[0] = NoSearch
  BY <1>3, <1>4 DEF DfsFor
<1>6. ASSUME NEW n \in 1..last PROVE r[n] = Dfs(g, r[n - 1])
  <2>1. n \in 0..last /\ n # 0
    BY <1>4
  <2>2. QED
    BY <1>3, <2>1 DEF DfsFor
<1>7. QED
  BY <1>1, <1>5, <1>6 DEF r, last

-----------------------------------------------------------------------------
(* What a depth-first search knows after each round.                       *)

Nodes(g) == ToSet(g.nodes)
Places(g) == 1..Len(g.edges)
CyclesOver(V) == [path : Seq(V), edges : Seq(EdgesAmong(V))]
Search(g) ==
  [stack : Seq(Nodes(g)), path : Seq(EdgesAmong(Nodes(g))), seen : SUBSET Places(g),
   visited : SUBSET Nodes(g), cycles : Seq(CyclesOver(Nodes(g)))]

\* Whose call of dfs has returned.
Left(d) == d.visited \ ToSet(d.stack)

\* The stack holds nodes visited, each once, and path the edges between them.
StackIsPath(g, d) ==
  /\ ToSet(d.stack) \subseteq d.visited
  /\ \A i, j \in 1..Len(d.stack) : d.stack[i] = d.stack[j] => i = j
  /\ Len(d.path) = IF d.stack = << >> THEN 0 ELSE Len(d.stack) - 1
  /\ \A j \in 1..Len(d.path) :
       d.path[j] \in Edges(g) /\ d.path[j].from = d.stack[j] /\ d.path[j].to = d.stack[j + 1]

\* Only a node visited has edges looked at, and one that is left has no others.
EdgesAreSeen(g, d) ==
  /\ \A i \in d.seen : g.edges[i].from \in d.visited
  /\ \A i \in Places(g) : g.edges[i].from \in Left(d) => i \in d.seen

FoundAreCycles(g, d) == \A i \in 1..Len(d.cycles) : IsCycle(g, d.cycles[i])

\* As long as no cycle was found, an edge looked at leads to a node that is left,
\* or to the next one on the stack, and no node that is left reaches itself.
NoneMissed(g, d) ==
  d.cycles = << >> =>
    /\ \A n \in Left(d) : ~Reaches(g, Edges(g), n, n)
    /\ \A i \in d.seen :
         g.edges[i].to \notin Left(d) =>
           \E j \in 1..Len(d.stack) - 1 :
             g.edges[i].from = d.stack[j] /\ g.edges[i].to = d.stack[j + 1]

DfsInv(g, d) ==
  /\ d \in Search(g) /\ StackIsPath(g, d) /\ EdgesAreSeen(g, d)
  /\ FoundAreCycles(g, d) /\ NoneMissed(g, d)

LEMMA NoSearchInv == ASSUME NEW g, IsGraph(g) PROVE DfsInv(g, NoSearch)
<1>1. NoSearch \in Search(g)
  BY EmptySeq DEF NoSearch, Search
<1>2. Len(<< >>) = 0 /\ ToSet(<< >>) = {}
  BY DEF ToSet
<1>3. QED
  BY <1>1, <1>2
  DEF NoSearch, DfsInv, StackIsPath, EdgesAreSeen, FoundAreCycles, NoneMissed, Left

\* A round that only calls dfs, of a root.
LEMMA RootInv ==
  ASSUME NEW g, IsGraph(g), NEW d, DfsInv(g, d), d.stack = << >>,
         NEW n \in Nodes(g), n \notin d.visited
  PROVE  DfsInv(g, Enter(d, n))
<1> DEFINE c == Enter(d, n)
<1>1. /\ d.stack \in Seq(Nodes(g)) /\ d.visited \subseteq Nodes(g) /\ d.seen \subseteq Places(g)
      /\ ToSet(d.stack) = {} /\ Len(d.stack) = 0
  BY SeqSet DEF DfsInv, Search, ToSet
<1>2. /\ Append(d.stack, n) \in Seq(Nodes(g)) /\ Len(Append(d.stack, n)) = 1
      /\ Append(d.stack, n) # << >> /\ ToSet(Append(d.stack, n)) = {n}
  <2>1. /\ Append(d.stack, n) \in Seq(Nodes(g)) /\ Append(d.stack, n) # << >>
        /\ Len(Append(d.stack, n)) = Len(d.stack) + 1
    BY <1>1, AppendProperties
  <2>2. ToSet(Append(d.stack, n)) = ToSet(d.stack) \cup {n}
    <3> DEFINE s == d.stack
    <3>1. s \in Seq(Nodes(g))
      BY <1>1
    <3> HIDE DEF s
    <3>2. ToSet(Append(s, n)) = ToSet(s) \cup {n}
      BY <3>1, AppendSet
    <3>3. QED
      BY <3>2 DEF s
  <2>3. QED
    BY <1>1, <2>1, <2>2
<1>3. /\ c \in Search(g) /\ c.stack = Append(d.stack, n) /\ c.visited = d.visited \cup {n}
      /\ c.path = d.path /\ c.seen = d.seen /\ c.cycles = d.cycles
  BY <1>2 DEF DfsInv, Search, Enter
<1>4. Left(c) = d.visited /\ Left(d) = d.visited
  BY <1>1, <1>2, <1>3 DEF Left
<1>5. Len(d.path) = 0
  BY DEF DfsInv, StackIsPath
<1> HIDE DEF c
<1>6. StackIsPath(g, c)
  BY <1>2, <1>3, <1>5 DEF StackIsPath
<1>7. EdgesAreSeen(g, c)
  BY <1>3, <1>4 DEF DfsInv, EdgesAreSeen
<1>8. NoneMissed(g, c)
  BY <1>1, <1>3, <1>4 DEF DfsInv, NoneMissed
<1>9. FoundAreCycles(g, c)
  BY <1>3 DEF DfsInv, FoundAreCycles
<1>10. QED
  BY <1>3, <1>6, <1>7, <1>8, <1>9 DEF DfsInv, c

\* What a turn of the loop over the edges of a node begins with.
Turn(g, d, i) ==
  /\ d.stack # << >> /\ i \in Places(g) \ d.seen /\ g.edges[i].from = Last(d.stack)
Looked(d, i) == [d EXCEPT !.seen = @ \cup {i}]

LEMMA TurnFacts ==
  ASSUME NEW g, IsGraph(g), NEW d, DfsInv(g, d), NEW i, Turn(g, d, i)
  PROVE  /\ d.stack \in Seq(Nodes(g)) /\ d.path \in Seq(EdgesAmong(Nodes(g)))
         /\ d.visited \subseteq Nodes(g) /\ d.seen \subseteq Places(g)
         /\ i \in Places(g) /\ g.edges[i] \in EdgesAmong(Nodes(g)) /\ g.edges[i] \in Edges(g)
         /\ g.edges[i].from \in Nodes(g) /\ g.edges[i].to \in Nodes(g)
         /\ Len(d.stack) \in Nat \ {0} /\ g.edges[i].from = d.stack[Len(d.stack)]
         /\ g.edges[i].from \in ToSet(d.stack) /\ g.edges[i].from \in d.visited
         /\ Len(d.path) = Len(d.stack) - 1
<1>1. d.stack \in Seq(Nodes(g)) /\ d.path \in Seq(EdgesAmong(Nodes(g)))
      /\ d.visited \subseteq Nodes(g) /\ d.seen \subseteq Places(g)
  BY DEF DfsInv, Search
<1>2. Len(d.stack) \in Nat \ {0} /\ d.stack[Len(d.stack)] \in ToSet(d.stack)
      /\ Last(d.stack) = d.stack[Len(d.stack)]
  BY <1>1, SeqSet DEF Turn, Last
<1>3. /\ i \in Places(g) /\ g.edges[i] \in Edges(g)
      /\ g.edges[i].from \in Nodes(g) /\ g.edges[i].to \in Nodes(g)
  BY EdgesOfGraph DEF Turn, Places, Nodes
<1>4. g.edges[i] \in EdgesAmong(Nodes(g))
  <2>1. g.edges \in Seq(EdgesAmong(Nodes(g))) /\ i \in 1..Len(g.edges)
    BY <1>3 DEF IsGraph, Nodes, Places
  <2>2. QED
    BY <2>1, ElementOfSeq
<1>5. Len(d.path) = Len(d.stack) - 1 /\ ToSet(d.stack) \subseteq d.visited
  BY DEF DfsInv, StackIsPath, Turn
<1>6. QED
  BY <1>1, <1>2, <1>3, <1>4, <1>5 DEF Turn

\* dfs is called for the target of an edge.
LEMMA DeeperInv ==
  ASSUME NEW g, IsGraph(g), NEW d, DfsInv(g, d), NEW i, Turn(g, d, i),
         g.edges[i].to \notin d.visited
  PROVE  DfsInv(g, Enter([Looked(d, i) EXCEPT !.path = Append(@, g.edges[i])], g.edges[i].to))
<1> DEFINE e == g.edges[i]
           c == Enter([Looked(d, i) EXCEPT !.path = Append(@, e)], e.to)
           k == Len(d.stack)
<1>1. /\ d.stack \in Seq(Nodes(g)) /\ d.path \in Seq(EdgesAmong(Nodes(g)))
      /\ d.visited \subseteq Nodes(g) /\ d.seen \subseteq Places(g)
      /\ i \in Places(g) /\ e \in EdgesAmong(Nodes(g)) /\ e \in Edges(g)
      /\ e.from \in Nodes(g) /\ e.to \in Nodes(g)
      /\ k \in Nat \ {0} /\ e.from = d.stack[k]
      /\ e.from \in ToSet(d.stack) /\ e.from \in d.visited /\ Len(d.path) = k - 1
  BY TurnFacts
<1>2. e.to \notin d.visited
  OBVIOUS
<1> DEFINE s == Append(d.stack, e.to)
           p == Append(d.path, e)
<1> HIDE DEF e
<1>3. /\ s \in Seq(Nodes(g)) /\ Len(s) = k + 1 /\ s # << >> /\ s[k + 1] = e.to
      /\ \A j \in 1..k : s[j] = d.stack[j]
  BY <1>1, AppendProperties
<1>4. /\ p \in Seq(EdgesAmong(Nodes(g))) /\ Len(p) = (k - 1) + 1 /\ p[(k - 1) + 1] = e
      /\ \A j \in 1..k - 1 : p[j] = d.path[j]
  BY <1>1, AppendProperties
<1>5. ToSet(s) = ToSet(d.stack) \cup {e.to}
  BY <1>1, AppendSet
<1>6. /\ c \in Search(g) /\ c.stack = s /\ c.visited = d.visited \cup {e.to}
      /\ c.path = p /\ c.seen = d.seen \cup {i} /\ c.cycles = d.cycles
  BY <1>1, <1>3, <1>4 DEF DfsInv, Search, Enter, Looked
<1> HIDE DEF s, p, c
<1>7. ToSet(d.stack) \subseteq d.visited
  BY DEF DfsInv, StackIsPath
<1>8. Left(c) = Left(d)
  BY <1>2, <1>5, <1>6, <1>7 DEF Left
<1>9. \A j \in 1..k : d.stack[j] \in d.visited
  BY <1>1, <1>7, SeqSet
<1>10. StackIsPath(g, c)
  <2>1. ToSet(c.stack) \subseteq c.visited
    BY <1>5, <1>6, <1>7
  <2>2. ASSUME NEW a \in 1..Len(c.stack), NEW b \in 1..Len(c.stack), c.stack[a] = c.stack[b]
        PROVE  a = b
    <3>1. \A x, y \in 1..k : d.stack[x] = d.stack[y] => x = y
      BY DEF DfsInv, StackIsPath
    <3>2. (a \in 1..k \/ a = k + 1) /\ (b \in 1..k \/ b = k + 1)
      BY <1>1, <1>3, <1>6
    <3>3. QED
      BY <1>2, <1>3, <1>6, <1>9, <2>2, <3>1, <3>2
  <2>3. Len(c.path) = k /\ c.path[k] = e /\ Len(c.stack) = k + 1 /\ c.stack # << >>
    BY <1>1, <1>3, <1>4, <1>6
  <2>4. ASSUME NEW j \in 1..Len(c.path)
        PROVE  c.path[j] \in Edges(g) /\ c.path[j].from = c.stack[j]
               /\ c.path[j].to = c.stack[j + 1]
    <3>1. CASE j = k
      BY <1>1, <1>3, <1>6, <2>3, <3>1
    <3>2. CASE j # k
      <4>1. j \in 1..k - 1 /\ j \in 1..k /\ j + 1 \in 1..k
        BY <1>1, <2>3, <3>2
      <4>2. d.path[j] \in Edges(g) /\ d.path[j].from = d.stack[j] /\ d.path[j].to = d.stack[j + 1]
        BY <1>1, <4>1 DEF DfsInv, StackIsPath
      <4>3. QED
        BY <1>3, <1>4, <1>6, <4>1, <4>2
    <3>3. QED
      BY <3>1, <3>2
  <2>5. Len(c.path) = IF c.stack = << >> THEN 0 ELSE Len(c.stack) - 1
    BY <1>1, <2>3
  <2>6. QED
    BY <2>1, <2>2, <2>4, <2>5 DEF StackIsPath
<1>11. EdgesAreSeen(g, c)
  BY <1>1, <1>6, <1>8 DEF DfsInv, EdgesAreSeen, e
<1>12. NoneMissed(g, c)
  <2> SUFFICES ASSUME c.cycles = << >>, NEW x \in c.seen, g.edges[x].to \notin Left(c)
               PROVE  \E j \in 1..Len(c.stack) - 1 :
                        g.edges[x].from = c.stack[j] /\ g.edges[x].to = c.stack[j + 1]
    BY <1>6, <1>8 DEF DfsInv, NoneMissed
  <2>1. CASE x = i
    <3>1. k \in 1..Len(c.stack) - 1
      BY <1>1, <1>3, <1>6
    <3>2. g.edges[x].from = c.stack[k] /\ g.edges[x].to = c.stack[k + 1]
      BY <1>1, <1>3, <1>6, <2>1 DEF e
    <3>3. QED
      BY <3>1, <3>2
  <2>2. CASE x # i
    <3>1. PICK j \in 1..k - 1 : g.edges[x].from = d.stack[j] /\ g.edges[x].to = d.stack[j + 1]
      BY <1>6, <1>8, <2>2 DEF DfsInv, NoneMissed
    <3>2. j \in 1..Len(c.stack) - 1 /\ j \in 1..k /\ j + 1 \in 1..k
      BY <1>1, <1>3, <1>6
    <3>3. QED
      BY <1>3, <1>6, <3>1, <3>2
  <2>3. QED
    BY <2>1, <2>2
<1>13. FoundAreCycles(g, c)
  BY <1>6 DEF DfsInv, FoundAreCycles
<1>14. QED
  BY <1>6, <1>10, <1>11, <1>12, <1>13 DEF DfsInv, c, e

\* The target was left before.
LEMMA PassInv ==
  ASSUME NEW g, IsGraph(g), NEW d, DfsInv(g, d), NEW i, Turn(g, d, i),
         g.edges[i].to \in Left(d)
  PROVE  DfsInv(g, Looked(d, i))
<1> DEFINE c == Looked(d, i)
<1>1. i \in Places(g) /\ d.seen \subseteq Places(g) /\ g.edges[i].from \in d.visited
  BY TurnFacts
<1>2. /\ c \in Search(g) /\ c.stack = d.stack /\ c.visited = d.visited
      /\ c.path = d.path /\ c.seen = d.seen \cup {i} /\ c.cycles = d.cycles
  BY <1>1 DEF DfsInv, Search, Looked
<1> HIDE DEF c
<1>3. Left(c) = Left(d)
  BY <1>2 DEF Left
<1>4. StackIsPath(g, c)
  BY <1>2 DEF DfsInv, StackIsPath
<1>5. EdgesAreSeen(g, c)
  BY <1>1, <1>2, <1>3 DEF DfsInv, EdgesAreSeen
<1>6. NoneMissed(g, c)
  BY <1>2, <1>3 DEF DfsInv, NoneMissed
<1>7. FoundAreCycles(g, c)
  BY <1>2 DEF DfsInv, FoundAreCycles
<1>8. QED
  BY <1>2, <1>4, <1>5, <1>6, <1>7 DEF DfsInv, c

\* The target is on the stack: the edges from there on are a cycle.
LEMMA FoundIsCycle ==
  ASSUME NEW g, IsGraph(g), NEW d, DfsInv(g, d), NEW i, Turn(g, d, i),
         g.edges[i].to \in ToSet(d.stack)
  PROVE  /\ Found(Looked(d, i), g.edges[i]) \in CyclesOver(Nodes(g))
         /\ IsCycle(g, Found(Looked(d, i), g.edges[i]))
<1> DEFINE e == g.edges[i]
           k == Len(d.stack)
           a == CHOOSE x \in DOMAIN d.stack : d.stack[x] = e.to
           s == SubSeq(d.stack, a, k)
           p == Append(d.path, e)
           t == Append(s, e.to)
           u == SubSeq(p, a, Len(p))
<1>1. /\ d.stack \in Seq(Nodes(g)) /\ d.path \in Seq(EdgesAmong(Nodes(g)))
      /\ e \in EdgesAmong(Nodes(g)) /\ e \in Edges(g)
      /\ e.to \in Nodes(g)
      /\ k \in Nat \ {0} /\ e.from = d.stack[k] /\ Len(d.path) = k - 1
  BY TurnFacts
<1>2. e.to \in ToSet(d.stack)
  OBVIOUS
<1> HIDE DEF e
<1>3. \E x \in DOMAIN d.stack : d.stack[x] = e.to
  BY <1>2 DEF ToSet
<1>4. a \in DOMAIN d.stack /\ d.stack[a] = e.to
  BY <1>3
<1>5. DOMAIN d.stack = 1..k
  BY <1>1
<1>6. Found(Looked(d, i), g.edges[i]) = [path |-> t, edges |-> u]
  BY Zenon DEF Found, Looked, CycleEdges, e, DfsInv, Search
<1> HIDE DEF a
<1>7. a \in 1..k /\ d.stack[a] = e.to
  BY <1>4, <1>5
<1>8. /\ p \in Seq(EdgesAmong(Nodes(g))) /\ Len(p) = k /\ p[k] = e
      /\ \A j \in 1..k - 1 : p[j] = d.path[j]
  <2>1. /\ p \in Seq(EdgesAmong(Nodes(g))) /\ Len(p) = Len(d.path) + 1
        /\ p[Len(d.path) + 1] = e
        /\ \A j \in 1..Len(d.path) : p[j] = d.path[j]
    BY <1>1, AppendProperties
  <2>2. Len(d.path) + 1 = k
    BY <1>1
  <2>3. QED
    BY <1>1, <2>1, <2>2
<1> HIDE DEF k, p
<1>9. /\ s \in Seq(Nodes(g)) /\ Len(s) = k - a + 1
      /\ \A j \in 1..k - a + 1 : s[j] = d.stack[a + j - 1]
  <2>1. a \in Int /\ k \in Int /\ a <= k /\ \A j \in a..k : d.stack[j] \in Nodes(g)
    BY <1>1, <1>7, ElementOfSeq DEF k
  <2>2. QED
    BY <2>1, SubSeqProperties
<1>10. /\ u \in Seq(EdgesAmong(Nodes(g))) /\ Len(u) = k - a + 1
       /\ \A j \in 1..k - a + 1 : u[j] = p[a + j - 1]
  <2>1. a \in Int /\ k \in Int /\ a <= k /\ \A j \in a..k : p[j] \in EdgesAmong(Nodes(g))
    BY <1>1, <1>7, <1>8, ElementOfSeq
  <2>2. u = SubSeq(p, a, k)
    BY <1>8
  <2>3. QED
    BY <2>1, <2>2, SubSeqProperties
<1> HIDE DEF s, u
<1>11. /\ t \in Seq(Nodes(g)) /\ Len(t) = k - a + 2 /\ t[k - a + 2] = e.to
       /\ \A j \in 1..k - a + 1 : t[j] = d.stack[a + j - 1]
  <2>1. /\ t \in Seq(Nodes(g)) /\ Len(t) = Len(s) + 1 /\ t[Len(s) + 1] = e.to
        /\ \A j \in 1..Len(s) : t[j] = s[j]
    BY <1>1, <1>9, AppendProperties
  <2>2. Len(s) = k - a + 1 /\ Len(s) + 1 = k - a + 2
    BY <1>1, <1>7, <1>9
  <2>3. QED
    BY <1>9, <2>1, <2>2
<1> HIDE DEF t
<1> DEFINE c == [path |-> t, edges |-> u]
           l == k - a + 1
<1>12. l \in Nat \ {0} /\ k - a + 2 = l + 1 /\ k = a + l - 1
  <2>1. a \in Nat /\ k \in Nat /\ a <= k
    BY <1>1, <1>7
  <2>2. QED
    BY <2>1
<1>13. \A j \in 1..l : a + j - 1 \in 1..k
  BY <1>1, <1>7
<1>14. Len(t) = l + 1 /\ Len(u) = l /\ t[l + 1] = e.to /\ t[1] = e.to
  <2>1. t[1] = d.stack[a + 1 - 1] /\ a + 1 - 1 = a
    BY <1>7, <1>11, <1>12
  <2>2. QED
    BY <1>7, <1>10, <1>11, <1>12, <2>1
<1>15. \A j \in 1..l : t[j] = d.stack[a + j - 1] /\ u[j] = p[a + j - 1]
  BY <1>10, <1>11
<1> HIDE DEF l
<1>16. ASSUME NEW j \in 1..l
       PROVE  u[j] \in Edges(g) /\ u[j].from = t[j] /\ u[j].to = t[j + 1]
  <2> DEFINE x == a + j - 1
  <2>1. x \in 1..k /\ t[j] = d.stack[x] /\ u[j] = p[x]
    BY <1>13, <1>15
  <2>2. CASE j = l
    <3>1. x = k /\ u[j] = e
      BY <1>8, <1>12, <2>1, <2>2
    <3>2. QED
      BY <1>1, <1>14, <2>1, <2>2, <3>1 DEF k
  <2>3. CASE j # l
    <3>1. j + 1 \in 1..l /\ a + (j + 1) - 1 = x + 1 /\ x \in 1..k - 1
      BY <1>7, <1>12, <2>3
    <3>2. t[j + 1] = d.stack[x + 1]
      BY <1>15, <3>1
    <3>3. u[j] = d.path[x] /\ x \in 1..Len(d.path)
      BY <1>1, <1>8, <2>1, <3>1 DEF k
    <3>4. d.path[x] \in Edges(g) /\ d.path[x].from = d.stack[x] /\ d.path[x].to = d.stack[x + 1]
      BY <3>3 DEF DfsInv, StackIsPath
    <3>5. QED
      BY <2>1, <3>2, <3>3, <3>4
  <2>4. QED
    BY <2>2, <2>3
<1>17. IsInjective(Tail(t))
  <2>1. t # << >>
    BY <1>12, <1>14, EmptySeq
  <2>2. Tail(t) \in Seq(Nodes(g)) /\ Len(Tail(t)) = l
        /\ \A j \in 1..l : Tail(t)[j] = t[j + 1]
    BY <1>11, <1>12, <1>14, <2>1, HeadTailProperties
  <2>3. DOMAIN Tail(t) = 1..l
    BY <2>2
  <2>4. ASSUME NEW x \in 1..l PROVE \E y \in 1..k : t[x + 1] = d.stack[y] /\ (IF x = l THEN y = a ELSE y = a + x)
    <3>1. CASE x = l
      BY <1>7, <1>14, <3>1
    <3>2. CASE x # l
      <4>1. x + 1 \in 1..l /\ a + (x + 1) - 1 = a + x
        BY <1>7, <1>12, <3>2
      <4>2. t[x + 1] = d.stack[a + x] /\ a + x \in 1..k
        BY <1>13, <1>15, <4>1
      <4>3. QED
        BY <3>2, <4>2
    <3>3. QED
      BY <3>1, <3>2
  <2>5. \A x, y \in 1..k : d.stack[x] = d.stack[y] => x = y
    BY DEF DfsInv, StackIsPath, k
  <2>6. ASSUME NEW x \in 1..l, NEW y \in 1..l, Tail(t)[x] = Tail(t)[y] PROVE x = y
    <3>1. t[x + 1] = t[y + 1]
      BY <2>2, <2>6
    <3>2. PICK v \in 1..k : t[x + 1] = d.stack[v] /\ (IF x = l THEN v = a ELSE v = a + x)
      BY <2>4
    <3>3. PICK w \in 1..k : t[y + 1] = d.stack[w] /\ (IF y = l THEN w = a ELSE w = a + y)
      BY <2>4
    <3>4. v = w
      BY <2>5, <3>1, <3>2, <3>3
    <3>5. QED
      BY <1>7, <1>12, <3>2, <3>3, <3>4
  <2>7. QED
    BY <2>3, <2>6 DEF IsInjective
<1>18. c \in CyclesOver(Nodes(g))
  BY <1>10, <1>11 DEF CyclesOver
<1>19. IsCycle(g, c)
  <2>1. u # << >> /\ Len(t) = Len(u) + 1
    BY <1>10, <1>12, <1>14, SeqSet
  <2>2. Head(t) = t[1] /\ Last(t) = t[l + 1]
    BY <1>11, <1>12, <1>14 DEF Last
  <2>3. DOMAIN u = 1..l
    BY <1>10, <1>14
  <2>4. QED
    BY <1>14, <1>16, <1>17, <2>1, <2>2, <2>3 DEF IsCycle
<1>20. QED
  BY <1>6, <1>18, <1>19

LEMMA FoundInv ==
  ASSUME NEW g, IsGraph(g), NEW d, DfsInv(g, d), NEW i, Turn(g, d, i),
         g.edges[i].to \in ToSet(d.stack)
  PROVE  DfsInv(g, [Looked(d, i) EXCEPT !.cycles = Append(@, Found(Looked(d, i), g.edges[i]))])
<1> DEFINE f == Found(Looked(d, i), g.edges[i])
           c == [Looked(d, i) EXCEPT !.cycles = Append(@, f)]
           all == Append(d.cycles, f)
<1>1. i \in Places(g) /\ d.seen \subseteq Places(g) /\ g.edges[i].from \in d.visited
  BY TurnFacts
<1>2. f \in CyclesOver(Nodes(g)) /\ IsCycle(g, f)
  BY FoundIsCycle
<1> HIDE DEF f
<1>3. d.cycles \in Seq(CyclesOver(Nodes(g)))
  BY DEF DfsInv, Search
<1>4. /\ all \in Seq(CyclesOver(Nodes(g))) /\ all # << >> /\ Len(all) = Len(d.cycles) + 1
      /\ \A j \in 1..Len(d.cycles) : all[j] = d.cycles[j]
      /\ all[Len(d.cycles) + 1] = f /\ Len(d.cycles) \in Nat
  BY <1>2, <1>3, AppendProperties
<1> HIDE DEF all
<1>5. /\ c \in Search(g) /\ c.stack = d.stack /\ c.visited = d.visited
      /\ c.path = d.path /\ c.seen = d.seen \cup {i} /\ c.cycles = all
  BY <1>1, <1>4 DEF DfsInv, Search, Looked, all
<1> HIDE DEF c
<1>6. Left(c) = Left(d)
  BY <1>5 DEF Left
<1>7. StackIsPath(g, c)
  BY <1>5 DEF DfsInv, StackIsPath
<1>8. EdgesAreSeen(g, c)
  BY <1>1, <1>5, <1>6 DEF DfsInv, EdgesAreSeen
<1>9. NoneMissed(g, c)
  BY <1>4, <1>5 DEF NoneMissed
<1>10. FoundAreCycles(g, c)
  <2>1. ASSUME NEW j \in 1..Len(all) PROVE IsCycle(g, all[j])
    <3>1. CASE j \in 1..Len(d.cycles)
      BY <1>4, <3>1 DEF DfsInv, FoundAreCycles
    <3>2. CASE j \notin 1..Len(d.cycles)
      <4>1. j = Len(d.cycles) + 1
        BY <1>4, <3>2
      <4>2. QED
        BY <1>2, <1>4, <4>1
    <3>3. QED
      BY <3>1, <3>2
  <2>2. QED
    BY <1>5, <2>1 DEF FoundAreCycles
<1>11. QED
  BY <1>5, <1>7, <1>8, <1>9, <1>10 DEF DfsInv, c, f

\* dfs returns.
LEMMA LeaveInv ==
  ASSUME NEW g, IsGraph(g), NEW d, DfsInv(g, d), d.stack # << >>,
         Outgoing(g, Last(d.stack), d.seen) = {}
  PROVE  DfsInv(g, Leave(d))
<1> DEFINE c == Leave(d)
           k == Len(d.stack)
           n == Last(d.stack)
           s == Front(d.stack)
           V == Nodes(g)
<1>1. /\ d.stack \in Seq(V) /\ d.path \in Seq(EdgesAmong(V)) /\ d.seen \subseteq Places(g)
      /\ d.visited \subseteq V
  BY DEF DfsInv, Search
<1>2. /\ n \in V /\ n = d.stack[k] /\ k \in Nat \ {0}
      /\ s \in Seq(V) /\ Len(s) = k - 1
      /\ \A j \in 1..k - 1 : s[j] = d.stack[j]
  BY <1>1, FrontAndLast
<1>3. /\ \A x, y \in 1..k : d.stack[x] = d.stack[y] => x = y
      /\ ToSet(d.stack) \subseteq d.visited /\ Len(d.path) = k - 1
      /\ \A j \in 1..k - 1 :
           d.path[j] \in Edges(g) /\ d.path[j].from = d.stack[j] /\ d.path[j].to = d.stack[j + 1]
  BY DEF DfsInv, StackIsPath
<1>4. \A i \in Places(g) : g.edges[i].from = n => i \in d.seen
  BY EdgesOfGraph DEF Outgoing, Places
<1> DEFINE p == IF d.path = << >> THEN << >> ELSE Front(d.path)
<1> HIDE DEF n, k, s, V
<1>5. /\ p \in Seq(EdgesAmong(V)) /\ Len(p) = IF s = << >> THEN 0 ELSE Len(s) - 1
      /\ \A j \in 1..Len(p) : p[j] = d.path[j] /\ j \in 1..k - 2
  <2>1. CASE d.path = << >>
    <3>1. Len(d.path) = 0 /\ s = << >>
      BY <1>1, <1>2, <1>3, <2>1, SeqSet
    <3>2. QED
      BY <2>1, <3>1, EmptySeq
  <2>2. CASE d.path # << >>
    <3>1. /\ Len(d.path) \in Nat \ {0} /\ p \in Seq(EdgesAmong(V)) /\ Len(p) = Len(d.path) - 1
          /\ \A i \in 1..Len(d.path) - 1 : p[i] = d.path[i]
      BY <1>1, <2>2, FrontAndLast
    <3>2. s # << >>
      BY <1>2, <1>3, <3>1, EmptySeq
    <3>3. QED
      BY <1>2, <1>3, <3>1, <3>2
  <2>3. QED
    BY <2>1, <2>2
<1>6. /\ c \in Search(g) /\ c.stack = s /\ c.visited = d.visited
      /\ c.path = p /\ c.seen = d.seen /\ c.cycles = d.cycles
  BY <1>2, <1>5 DEF DfsInv, Search, Leave, s, V
<1> HIDE DEF p, c
<1>7. ToSet(s) = ToSet(d.stack) \ {n}
  <2>1. \A x \in ToSet(s) : \E j \in 1..k - 1 : s[j] = x
    BY <1>2, SeqSet
  <2>2. \A x \in ToSet(d.stack) : \E j \in 1..k : d.stack[j] = x
    BY <1>1, SeqSet DEF k
  <2>3. \A j \in 1..k - 1 : s[j] \in ToSet(s)
    BY <1>2, SeqSet
  <2>4. \A j \in 1..k : d.stack[j] \in ToSet(d.stack)
    BY <1>1, SeqSet DEF k
  <2>5. \A j \in 1..k - 1 : j \in 1..k /\ j # k
    BY <1>2
  <2>6. ToSet(s) \subseteq ToSet(d.stack) \ {n}
    BY <1>2, <1>3, <2>1, <2>4, <2>5
  <2>7. \A j \in 1..k : j = k \/ j \in 1..k - 1
    BY <1>2
  <2>8. ToSet(d.stack) \ {n} \subseteq ToSet(s)
    BY <1>2, <2>2, <2>3, <2>7
  <2>9. QED
    BY <2>6, <2>8
<1>8. n \in ToSet(d.stack) /\ n \in d.visited
  BY <1>1, <1>2, <1>3, SeqSet DEF k
<1>9. Left(c) = Left(d) \cup {n}
  BY <1>6, <1>7, <1>8 DEF Left
<1>10. StackIsPath(g, c)
  <2>1. ToSet(c.stack) \subseteq c.visited
    BY <1>3, <1>6, <1>7
  <2>2. \A x, y \in 1..Len(s) : s[x] = s[y] => x = y
    BY <1>2, <1>3
  <2>3. ASSUME NEW j \in 1..Len(p)
        PROVE  p[j] \in Edges(g) /\ p[j].from = s[j] /\ p[j].to = s[j + 1]
    <3>1. j \in 1..k - 2 /\ p[j] = d.path[j] /\ j \in 1..k - 1 /\ j + 1 \in 1..k - 1
      BY <1>2, <1>5
    <3>2. QED
      BY <1>2, <1>3, <3>1
  <2>4. QED
    BY <1>5, <1>6, <2>1, <2>2, <2>3 DEF StackIsPath
<1>11. EdgesAreSeen(g, c)
  BY <1>4, <1>6, <1>9 DEF DfsInv, EdgesAreSeen
<1>12. NoneMissed(g, c)
  <2> SUFFICES ASSUME d.cycles = << >>
               PROVE  /\ \A m \in Left(c) : ~Reaches(g, Edges(g), m, m)
                      /\ \A i \in d.seen : g.edges[i].to \notin Left(c) =>
                           \E j \in 1..Len(s) - 1 :
                             g.edges[i].from = s[j] /\ g.edges[i].to = s[j + 1]
    BY <1>6 DEF NoneMissed
  <2>1. /\ \A m \in Left(d) : ~Reaches(g, Edges(g), m, m)
        /\ \A i \in d.seen : g.edges[i].to \notin Left(d) =>
             \E j \in 1..k - 1 : g.edges[i].from = d.stack[j] /\ g.edges[i].to = d.stack[j + 1]
    BY DEF DfsInv, NoneMissed, k
  <2>2. \A j \in 1..k - 1 : d.stack[j] \notin Left(d) /\ d.stack[j] # n
    <3>1. \A j \in 1..k - 1 : j \in 1..k /\ j # k
      BY <1>2
    <3>2. \A j \in 1..k : d.stack[j] \in ToSet(d.stack)
      BY <1>1, SeqSet DEF k
    <3>3. QED
      BY <1>2, <1>3, <3>1, <3>2 DEF Left
  <2>3. ASSUME NEW e \in Edges(g), e.from \in Left(d) \cup {n} PROVE e.to \in Left(d)
    <3>1. PICK i \in Places(g) : e = g.edges[i]
      BY EdgesOfGraph DEF Places
    <3>2. i \in d.seen
      BY <1>4, <2>3, <3>1 DEF DfsInv, EdgesAreSeen
    <3>3. QED
      BY <2>1, <2>2, <2>3, <3>1, <3>2
  <2>4. ~Reaches(g, Edges(g), n, n)
    <3>1. Left(d) \in SUBSET ToSet(g.nodes) /\ n \notin Left(d)
      BY <1>1, <1>8 DEF Left, V, Nodes
    <3>2. QED
      BY <2>3, <3>1, StaysInside
  <2>5. ASSUME NEW i \in d.seen, g.edges[i].to \notin Left(c)
        PROVE  \E j \in 1..Len(s) - 1 : g.edges[i].from = s[j] /\ g.edges[i].to = s[j + 1]
    <3>1. PICK j \in 1..k - 1 : g.edges[i].from = d.stack[j] /\ g.edges[i].to = d.stack[j + 1]
      BY <1>9, <2>1, <2>5
    <3>2. j + 1 # k
      BY <1>2, <1>9, <2>5, <3>1
    <3>3. j \in 1..Len(s) - 1 /\ j + 1 \in 1..k - 1
      BY <1>2, <3>2
    <3>4. QED
      BY <1>2, <3>1, <3>3
  <2>6. QED
    BY <1>9, <2>1, <2>4, <2>5
<1>13. FoundAreCycles(g, c)
  BY <1>6 DEF DfsInv, FoundAreCycles
<1>14. QED
  BY <1>6, <1>10, <1>11, <1>12, <1>13 DEF DfsInv, c

\* The rounds a search may still take: to call dfs and return for every node it has
\* not visited, to return for those on the stack, and to look at the other edges.
Ahead(g, d) ==
  Cardinality(Roots(g, d)) + Cardinality(Roots(g, d)) + Len(d.stack)
    + Cardinality(Places(g) \ d.seen)
DfsDone(g, d) == d.stack = << >> /\ Roots(g, d) = {}

LEMMA NodesOfGraph ==
  ASSUME NEW g, IsGraph(g)
  PROVE  /\ Len(g.nodes) \in Nat /\ DOMAIN g.nodes = 1..Len(g.nodes)
         /\ \A i \in 1..Len(g.nodes) : g.nodes[i] \in Nodes(g)
         /\ \A n \in Nodes(g) : \E i \in 1..Len(g.nodes) : g.nodes[i] = n
<1> DEFINE s == g.nodes
           V == ToSet(g.nodes)
<1>1. s \in Seq(V)
  BY DEF IsGraph
<1> HIDE DEF s, V
<1>2. /\ Len(s) \in Nat /\ DOMAIN s = 1..Len(s)
      /\ \A i \in 1..Len(s) : s[i] \in V
      /\ \A x \in ToSet(s) : \E i \in 1..Len(s) : s[i] = x
  BY <1>1, SeqSet
<1>3. QED
  BY <1>2 DEF s, V, Nodes

LEMMA Twice == \A x, y \in Nat : 2 * x + y \in Nat /\ 2 * x + y = x + x + y
  OBVIOUS

LEMMA AheadIsNat ==
  ASSUME NEW g, IsGraph(g), NEW d, DfsInv(g, d)
  PROVE  /\ Ahead(g, d) \in Nat
         /\ Roots(g, d) \subseteq 1..Len(g.nodes)
         /\ Cardinality(Roots(g, d)) \in Nat /\ Cardinality(Roots(g, d)) <= Len(g.nodes)
         /\ Len(d.stack) \in Nat
         /\ Cardinality(Places(g) \ d.seen) \in Nat
         /\ Cardinality(Places(g) \ d.seen) <= Len(g.edges)
<1>1. Len(g.nodes) \in Nat /\ Len(g.edges) \in Nat /\ DOMAIN g.nodes = 1..Len(g.nodes)
  BY NodesOfGraph, EdgesOfGraph
<1>2. Roots(g, d) \in SUBSET (1..Len(g.nodes))
  BY <1>1 DEF Roots
<1>3. Places(g) \ d.seen \in SUBSET (1..Len(g.edges))
  BY DEF Places
<1>4. Cardinality(Roots(g, d)) \in Nat /\ Cardinality(Roots(g, d)) <= Len(g.nodes)
  BY <1>1, <1>2, PlacesAreFew
<1>5. /\ Cardinality(Places(g) \ d.seen) \in Nat
      /\ Cardinality(Places(g) \ d.seen) <= Len(g.edges)
  BY <1>1, <1>3, PlacesAreFew
<1>6. d.stack \in Seq(Nodes(g))
  BY DEF DfsInv, Search
<1>7. Len(d.stack) \in Nat
  BY <1>6, SeqSet
<1>8. Ahead(g, d) \in Nat
  BY <1>1, <1>4, <1>5, <1>7 DEF Ahead
<1>9. QED
  BY <1>2, <1>4, <1>5, <1>7, <1>8

\* A node that is visited is no root any more.
LEMMA OneRootLess ==
  ASSUME NEW g, IsGraph(g), NEW d, NEW c, NEW n \in Nodes(g), n \notin d.visited,
         c.visited = d.visited \cup {n}
  PROVE  Cardinality(Roots(g, c)) + 1 <= Cardinality(Roots(g, d))
<1>1. Len(g.nodes) \in Nat /\ DOMAIN g.nodes = 1..Len(g.nodes)
  BY NodesOfGraph
<1>2. PICK i \in 1..Len(g.nodes) : g.nodes[i] = n
  BY NodesOfGraph
<1>3. /\ Roots(g, d) \in SUBSET (1..Len(g.nodes)) /\ Roots(g, c) \in SUBSET Roots(g, d)
      /\ i \in Roots(g, d) /\ i \notin Roots(g, c)
  BY <1>1, <1>2 DEF Roots
<1>4. QED
  BY <1>1, <1>3, OneLess

LEMMA OnePlaceLess ==
  ASSUME NEW g, IsGraph(g), NEW seen, NEW i \in Places(g) \ seen
  PROVE  Cardinality(Places(g) \ (seen \cup {i})) + 1 <= Cardinality(Places(g) \ seen)
<1>1. Len(g.edges) \in Nat
  BY EdgesOfGraph
<1>2. /\ Places(g) \ seen \in SUBSET (1..Len(g.edges))
      /\ Places(g) \ (seen \cup {i}) \in SUBSET (Places(g) \ seen)
      /\ i \in Places(g) \ seen /\ i \notin Places(g) \ (seen \cup {i})
  BY DEF Places
<1>3. QED
  BY <1>1, <1>2, OneLess

LEMMA FewerAhead ==
  ASSUME NEW g, IsGraph(g), NEW d, DfsInv(g, d), NEW c, DfsInv(g, c),
         \/ /\ Cardinality(Roots(g, c)) + 1 <= Cardinality(Roots(g, d))
            /\ Len(c.stack) = Len(d.stack) + 1
            /\ \/ c.seen = d.seen
               \/ Cardinality(Places(g) \ c.seen) + 1 <= Cardinality(Places(g) \ d.seen)
         \/ /\ c.visited = d.visited
            /\ \/ c.seen = d.seen /\ Len(c.stack) = Len(d.stack) - 1
               \/ /\ Cardinality(Places(g) \ c.seen) + 1 <= Cardinality(Places(g) \ d.seen)
                  /\ c.stack = d.stack
  PROVE  Ahead(g, c) + 1 <= Ahead(g, d)
<1>1. PICK x \in Nat, y \in Nat, z \in Nat :
        /\ x = Cardinality(Roots(g, d)) /\ y = Len(d.stack)
        /\ z = Cardinality(Places(g) \ d.seen)
  BY AheadIsNat
<1>2. PICK u \in Nat, v \in Nat, w \in Nat :
        /\ u = Cardinality(Roots(g, c)) /\ v = Len(c.stack)
        /\ w = Cardinality(Places(g) \ c.seen)
  BY AheadIsNat
<1>3. Ahead(g, d) = x + x + y + z
  BY <1>1, Zenon DEF Ahead
<1>4. Ahead(g, c) = u + u + v + w
  BY <1>2, Zenon DEF Ahead
<1>5. c.visited = d.visited => u = x
  BY <1>1, <1>2, Zenon DEF Roots
<1>6. (c.seen = d.seen => w = z) /\ (c.stack = d.stack => v = y)
  BY <1>1, <1>2, Zenon
<1>7. \/ u + 1 <= x /\ v = y + 1 /\ (w = z \/ w + 1 <= z)
      \/ u = x /\ ((w = z /\ v = y - 1) \/ (w + 1 <= z /\ v = y))
  <2>1. Cardinality(Roots(g, c)) + 1 <= Cardinality(Roots(g, d)) => u + 1 <= x
    BY <1>1, <1>2, Zenon
  <2>2. Cardinality(Places(g) \ c.seen) + 1 <= Cardinality(Places(g) \ d.seen) => w + 1 <= z
    BY <1>1, <1>2, Zenon
  <2>3. /\ Len(c.stack) = Len(d.stack) + 1 => v = y + 1
        /\ Len(c.stack) = Len(d.stack) - 1 => v = y - 1
    BY <1>1, <1>2, Zenon
  <2>4. QED
    BY <1>5, <1>6, <2>1, <2>2, <2>3, Zenon
<1>8. (u + u + v + w) + 1 <= x + x + y + z
  BY <1>7
<1>9. QED
  BY <1>3, <1>4, <1>8, Zenon

LEMMA DfsStep ==
  ASSUME NEW g, IsGraph(g), NEW d, DfsInv(g, d)
  PROVE  /\ DfsInv(g, Dfs(g, d))
         /\ IF DfsDone(g, d) THEN Dfs(g, d) = d ELSE Ahead(g, Dfs(g, d)) + 1 <= Ahead(g, d)
<1>1. CASE d.stack = << >> /\ Roots(g, d) = {}
  BY <1>1 DEF Dfs, DfsDone
<1>2. CASE d.stack = << >> /\ Roots(g, d) # {}
  <2> DEFINE n == g.nodes[Min(Roots(g, d))]
             c == Enter(d, n)
  <2>1. Dfs(g, d) = c /\ ~DfsDone(g, d)
    BY <1>2 DEF Dfs, DfsDone
  <2>2. Roots(g, d) \in SUBSET Nat
    <3>1. Roots(g, d) \subseteq 1..Len(g.nodes)
      BY AheadIsNat
    <3>2. QED
      BY <3>1
  <2>3. Min(Roots(g, d)) \in Roots(g, d)
    BY <1>2, <2>2, MinIsMember
  <2>4. n \in Nodes(g) /\ n \notin d.visited
    BY <2>3, NodesOfGraph DEF Roots
  <2> HIDE DEF n
  <2>5. DfsInv(g, c)
    BY <1>2, <2>4, RootInv
  <2>6. /\ d.stack \in Seq(Nodes(g)) /\ c.stack = Append(d.stack, n)
        /\ c.visited = d.visited \cup {n} /\ c.seen = d.seen
    BY DEF DfsInv, Search, Enter
  <2>7. Len(c.stack) = Len(d.stack) + 1
    BY <2>4, <2>6, AppendProperties
  <2> HIDE DEF c
  <2>8. Cardinality(Roots(g, c)) + 1 <= Cardinality(Roots(g, d))
    BY <2>4, <2>6, OneRootLess
  <2>9. Ahead(g, c) + 1 <= Ahead(g, d)
    BY <2>5, <2>6, <2>7, <2>8, FewerAhead
  <2>10. QED
    BY <2>1, <2>5, <2>9
<1>3. CASE d.stack # << >> /\ Outgoing(g, Last(d.stack), d.seen) = {}
  <2> DEFINE c == Leave(d)
  <2>1. Dfs(g, d) = c /\ ~DfsDone(g, d)
    BY <1>3 DEF Dfs, DfsDone
  <2>2. DfsInv(g, c)
    BY <1>3, LeaveInv
  <2>3. /\ d.stack \in Seq(Nodes(g)) /\ c.stack = Front(d.stack)
        /\ c.visited = d.visited /\ c.seen = d.seen
    BY DEF DfsInv, Search, Leave
  <2>4. Len(c.stack) = Len(d.stack) - 1
    BY <1>3, <2>3, FrontAndLast
  <2> HIDE DEF c
  <2>5. Ahead(g, c) + 1 <= Ahead(g, d)
    BY <2>2, <2>3, <2>4, FewerAhead
  <2>6. QED
    BY <2>1, <2>2, <2>5
<1>4. CASE d.stack # << >> /\ Outgoing(g, Last(d.stack), d.seen) # {}
  <2> DEFINE turns == Outgoing(g, Last(d.stack), d.seen)
             i == Min(turns)
             e == g.edges[i]
             c == Look(Looked(d, i), e)
  <2>1. Dfs(g, d) = c /\ ~DfsDone(g, d)
    BY <1>4 DEF Dfs, DfsDone, Looked
  <2>2. turns \in SUBSET Nat /\ turns \subseteq Places(g) \ d.seen
    BY EdgesOfGraph DEF Outgoing, Places
  <2>3. i \in turns
    BY <1>4, <2>2, MinIsMember
  <2>4. Turn(g, d, i) /\ i \in Places(g) \ d.seen
    BY <1>4, <2>2, <2>3 DEF Turn, Outgoing
  <2> HIDE DEF turns, i
  <2>5. Cardinality(Places(g) \ (d.seen \cup {i})) + 1 <= Cardinality(Places(g) \ d.seen)
    BY <2>4, OnePlaceLess
  <2>6. /\ Looked(d, i).stack = d.stack /\ Looked(d, i).visited = d.visited
        /\ Looked(d, i).seen = d.seen \cup {i}
        /\ ToSet(d.stack) \subseteq d.visited
    BY DEF DfsInv, Search, Looked, StackIsPath
  <2>7. CASE e.to \in ToSet(d.stack)
    <3>1. c = [Looked(d, i) EXCEPT !.cycles = Append(@, Found(Looked(d, i), e))]
      BY <2>6, <2>7 DEF Look
    <3>2. DfsInv(g, c)
      BY <2>4, <2>7, <3>1, FoundInv
    <3>3. c.stack = d.stack /\ c.visited = d.visited /\ c.seen = d.seen \cup {i}
      BY <3>1 DEF DfsInv, Search, Looked
    <3> HIDE DEF c
    <3>4. Ahead(g, c) + 1 <= Ahead(g, d)
      BY <2>5, <3>2, <3>3, FewerAhead
    <3>5. QED
      BY <2>1, <3>2, <3>4
  <2>8. CASE e.to \notin d.visited
    <3>1. c = Enter([Looked(d, i) EXCEPT !.path = Append(@, e)], e.to)
      BY <2>6, <2>8 DEF Look
    <3>2. DfsInv(g, c)
      BY <2>4, <2>8, <3>1, DeeperInv
    <3>3. c.stack = Append(d.stack, e.to) /\ c.visited = d.visited \cup {e.to}
          /\ c.seen = d.seen \cup {i} /\ d.stack \in Seq(Nodes(g))
      BY <3>1 DEF DfsInv, Search, Looked, Enter
    <3>4. e.to \in Nodes(g)
      BY <2>4, TurnFacts
    <3> HIDE DEF c, e
    <3>5. Len(c.stack) = Len(d.stack) + 1
      BY <3>3, <3>4, AppendProperties
    <3>6. Cardinality(Roots(g, c)) + 1 <= Cardinality(Roots(g, d))
      BY <2>8, <3>3, <3>4, OneRootLess
    <3>7. Ahead(g, c) + 1 <= Ahead(g, d)
      BY <2>5, <3>2, <3>3, <3>5, <3>6, FewerAhead
    <3>8. QED
      BY <2>1, <3>2, <3>7
  <2>9. CASE e.to \in d.visited /\ e.to \notin ToSet(d.stack)
    <3>1. c = Looked(d, i)
      BY <2>6, <2>9 DEF Look
    <3>2. DfsInv(g, c)
      BY <2>4, <2>9, <3>1, PassInv DEF Left
    <3>3. c.stack = d.stack /\ c.visited = d.visited /\ c.seen = d.seen \cup {i}
      BY <2>6, <3>1
    <3> HIDE DEF c
    <3>4. Ahead(g, c) + 1 <= Ahead(g, d)
      BY <2>5, <3>2, <3>3, FewerAhead
    <3>5. QED
      BY <2>1, <3>2, <3>4
  <2>10. QED
    BY <2>7, <2>8, <2>9
<1>5. QED
  BY <1>1, <1>2, <1>3, <1>4

LEMMA DfsEnds ==
  ASSUME NEW g, IsGraph(g)
  PROVE  \E d : DfsInv(g, d) /\ DfsDone(g, d) /\ DetectCycles(g) = d.cycles
<1> DEFINE last == DfsRounds(g)
           r == DfsRun(g)
           P == {n \in Nat : DfsInv(g, r[n]) /\ (DfsDone(g, r[n]) \/ Ahead(g, r[n]) + n <= last)}
<1>1. Len(g.nodes) \in Nat /\ Len(g.edges) \in Nat
  BY NodesOfGraph, EdgesOfGraph
<1>2. last \in Nat
  BY <1>1, Twice, Zenon DEF DfsRounds
<1>3. /\ DetectCycles(g) = r[last].cycles /\ r[0] = NoSearch
      /\ \A n \in 1..last : r[n] = Dfs(g, r[n - 1])
  BY <1>2, DfsRunRounds
<1>4. 0 \in P
  <2>1. DfsInv(g, NoSearch)
    BY NoSearchInv
  <2>2. Len(NoSearch.stack) = 0
    BY DEF NoSearch
  <2>3. Ahead(g, NoSearch) + 0 <= last
    <3>1. PICK x \in Nat, y \in Nat, u \in Nat, v \in Nat :
            /\ x = Cardinality(Roots(g, NoSearch)) /\ y = Cardinality(Places(g) \ NoSearch.seen)
            /\ u = Len(g.nodes) /\ v = Len(g.edges) /\ x <= u /\ y <= v
      BY <1>1, <2>1, AheadIsNat
    <3>2. Ahead(g, NoSearch) = x + x + 0 + y
      BY <2>2, <3>1, Zenon DEF Ahead
    <3>3. last = u + u + v
      BY <1>1, <3>1, Twice, Zenon DEF DfsRounds
    <3>4. x <= u /\ y <= v
      BY <3>1, Zenon
    <3>5. (x + x + 0 + y) + 0 <= u + u + v
      BY <3>4
    <3>6. QED
      BY <3>2, <3>3, <3>5, Zenon
  <2>4. 0 \in Nat
    OBVIOUS
  <2>5. QED
    BY <1>3, <2>1, <2>3, <2>4, Zenon
<1> HIDE DEF last, r
<1>5. ASSUME NEW n \in 1..last, n - 1 \in P PROVE n \in P
  <2>1. n \in Nat /\ (n - 1) \in Nat /\ r[n] = Dfs(g, r[n - 1])
    BY <1>2, <1>3
  <2>2. /\ DfsInv(g, r[n])
        /\ IF DfsDone(g, r[n - 1]) THEN r[n] = r[n - 1]
           ELSE Ahead(g, r[n]) + 1 <= Ahead(g, r[n - 1])
    BY <1>5, <2>1, DfsStep
  <2>3. CASE DfsDone(g, r[n - 1])
    BY <2>1, <2>2, <2>3
  <2>4. CASE ~DfsDone(g, r[n - 1])
    <3>1. Ahead(g, r[n - 1]) + (n - 1) <= last /\ DfsInv(g, r[n - 1])
      BY <1>5, <2>4
    <3>2. Ahead(g, r[n]) \in Nat /\ Ahead(g, r[n - 1]) \in Nat
      BY <2>2, <3>1, AheadIsNat
    <3>3. Ahead(g, r[n]) + n <= last
      BY <1>2, <2>1, <2>2, <2>4, <3>1, <3>2
    <3>4. QED
      BY <2>1, <2>2, <3>3
  <2>5. QED
    BY <2>3, <2>4
<1>6. \A n \in 0..last : n \in P
  <2> HIDE DEF P
  <2>1. QED
    BY <1>2, <1>4, <1>5, RoundInduction
<1>7. DfsInv(g, r[last]) /\ (DfsDone(g, r[last]) \/ Ahead(g, r[last]) + last <= last)
  BY <1>2, <1>6
<1>8. DfsDone(g, r[last])
  <2> SUFFICES ASSUME Ahead(g, r[last]) + last <= last PROVE DfsDone(g, r[last])
    BY <1>7
  <2> DEFINE d == r[last]
  <2>1. DfsInv(g, d)
    BY <1>7
  <2> HIDE DEF d
  <2>2. /\ Roots(g, d) \in SUBSET (1..Len(g.nodes))
        /\ Cardinality(Roots(g, d)) \in Nat
        /\ Len(d.stack) \in Nat
        /\ Cardinality(Places(g) \ d.seen) \in Nat
    BY <2>1, AheadIsNat
  <2>3. Ahead(g, d) + last <= last /\ Ahead(g, d) \in Nat
    BY <2>1, AheadIsNat DEF d
  <2>4. PICK x \in Nat, y \in Nat, z \in Nat :
          /\ x = Cardinality(Roots(g, d)) /\ y = Len(d.stack)
          /\ z = Cardinality(Places(g) \ d.seen)
    BY <2>2
  <2>5. (x + x + y + z) + last <= last
    BY <2>3, <2>4, Zenon DEF Ahead
  <2>6. Cardinality(Roots(g, d)) = 0 /\ Len(d.stack) = 0
    <3>1. x = 0 /\ y = 0
      BY <1>2, <2>5
    <3>2. QED
      BY <2>4, <3>1, Zenon
  <2>7. Roots(g, d) = {}
    BY <1>1, <2>2, <2>6, NoPlaces
  <2>8. d.stack \in Seq(Nodes(g))
    BY <2>1 DEF DfsInv, Search
  <2>9. DfsDone(g, d)
    BY <2>6, <2>7, <2>8, SeqSet DEF DfsDone
  <2>10. QED
    BY <2>9 DEF d
<1>9. QED
  BY <1>3, <1>7, <1>8

LEMMA DetectedAreCycles ==
  ASSUME NEW g, IsGraph(g)
  PROVE  /\ DetectCycles(g) \in Seq(CyclesOver(Nodes(g)))
         /\ \A i \in DOMAIN DetectCycles(g) : IsCycle(g, DetectCycles(g)[i])
<1>1. PICK d : DfsInv(g, d) /\ DetectCycles(g) = d.cycles
  BY DfsEnds
<1>2. d.cycles \in Seq(CyclesOver(Nodes(g)))
  BY <1>1 DEF DfsInv, Search
<1>3. DOMAIN d.cycles = 1..Len(d.cycles)
  BY <1>2
<1>4. QED
  BY <1>1, <1>2, <1>3 DEF DfsInv, FoundAreCycles

LEMMA CycleIsDetected ==
  ASSUME NEW g, IsGraph(g) PROVE (DetectCycles(g) # << >>) = Cyclic(g, Edges(g))
<1>1. PICK d : DfsInv(g, d) /\ DfsDone(g, d) /\ DetectCycles(g) = d.cycles
  BY DfsEnds
<1>2. ASSUME d.cycles # << >> PROVE Cyclic(g, Edges(g))
  <2>1. d.cycles \in Seq(CyclesOver(Nodes(g)))
    BY <1>1 DEF DfsInv, Search
  <2>2. 1 \in 1..Len(d.cycles)
    BY <1>2, <2>1, SeqSet
  <2>3. d.cycles[1] \in CyclesOver(Nodes(g)) /\ IsCycle(g, d.cycles[1])
    BY <1>1, <2>1, <2>2, ElementOfSeq DEF DfsInv, FoundAreCycles
  <2> DEFINE c == d.cycles[1]
  <2>4. c.path \in Seq(Nodes(g)) /\ c.edges \in Seq(EdgesAmong(Nodes(g)))
    BY <2>3 DEF CyclesOver
  <2> HIDE DEF c
  <2>5. IsCycle(g, c)
    BY <2>3 DEF c
  <2>6. QED
    BY <2>4, <2>5, CycleReaches DEF Nodes
<1>3. ASSUME d.cycles = << >> PROVE ~Cyclic(g, Edges(g))
  <2>1. ASSUME NEW n \in Nodes(g) PROVE n \in Left(d)
    <3>1. PICK i \in DOMAIN g.nodes : g.nodes[i] = n
      BY NodesOfGraph
    <3>2. n \in d.visited
      BY <1>1, <3>1 DEF DfsDone, Roots
    <3>3. ToSet(d.stack) = {}
      BY <1>1 DEF DfsDone, ToSet
    <3>4. QED
      BY <3>2, <3>3 DEF Left
  <2>2. QED
    BY <1>1, <1>3, <2>1 DEF DfsInv, NoneMissed, Cyclic, Nodes
<1>4. QED
  BY <1>1, <1>2, <1>3 DEF Cyclic

-----------------------------------------------------------------------------
(* topologicalSort, round by round                                         *)

SortFor(round, g, m) ==
  round = [n \in 0..m |-> IF n = 0 THEN Unsorted(g) ELSE Sort(g, round[n - 1])]
SortRounds(g) == Len(g.nodes) + Len(g.edges)
SortRun(g) == CHOOSE round : SortFor(round, g, SortRounds(g))

LEMMA SortRunExists ==
  ASSUME NEW g, NEW n \in Nat PROVE \E round : SortFor(round, g, n)
<1> DEFINE P == {m \in Nat : \E round : SortFor(round, g, m)}
<1>1. 0 \in P
  <2> DEFINE round == [k \in 0..0 |-> Unsorted(g)]
  <2>1. SortFor(round, g, 0)
    BY DEF SortFor
  <2>2. QED
    BY <2>1
<1>2. ASSUME NEW m \in Nat, m \in P PROVE m + 1 \in P
  <2>1. PICK round : SortFor(round, g, m)
    BY <1>2
  <2> DEFINE more == [k \in 0..m + 1 |-> IF k = 0 THEN Unsorted(g) ELSE Sort(g, round[k - 1])]
  <2>2. ASSUME NEW k \in 0..m + 1, k # 0 PROVE more[k - 1] = round[k - 1]
    <3>1. k - 1 \in 0..m /\ k - 1 \in 0..m + 1
      BY <2>2
    <3>2. QED
      BY <2>1, <3>1 DEF SortFor
  <2>3. more = [k \in 0..m + 1 |-> IF k = 0 THEN Unsorted(g) ELSE Sort(g, more[k - 1])]
    BY <2>2
  <2> HIDE DEF more
  <2>4. SortFor(more, g, m + 1)
    BY <2>3 DEF SortFor
  <2>5. QED
    BY <2>4
<1>3. Nat \subseteq P
  <2> HIDE DEF P
  <2>1. QED
    BY <1>1, <1>2, NaturalInduction
<1>4. QED
  BY <1>3

LEMMA SortRunRounds ==
  ASSUME NEW g, SortRounds(g) \in Nat
  PROVE  /\ TopologicalSort(g) = LET result == SortRun(g)[SortRounds(g)].result
                                 IN  IF Len(result) = Len(g.nodes) THEN result ELSE << >>
         /\ SortRun(g)[0] = Unsorted(g)
         /\ \A n \in 1..SortRounds(g) : SortRun(g)[n] = Sort(g, SortRun(g)[n - 1])
<1> DEFINE r == SortRun(g)
           last == SortRounds(g)
<1>1. TopologicalSort(g) = LET result == r[last].result
                           IN  IF Len(result) = Len(g.nodes) THEN result ELSE << >>
  BY Zenon DEF TopologicalSort, SortRun, SortRounds, SortFor
<1>2. \E round : SortFor(round, g, last)
  BY SortRunExists
<1>3. SortFor(r, g, last)
  BY <1>2, Zenon DEF SortRun
<1>4. last \in Nat
  OBVIOUS
<1> HIDE DEF r, last
<1>5. r[0] = Unsorted(g)
  BY <1>3, <1>4 DEF SortFor
<1>6. ASSUME NEW n \in 1..last PROVE r[n] = Sort(g, r[n - 1])
  <2>1. n \in 0..last /\ n # 0
    BY <1>4
  <2>2. QED
    BY <1>3, <2>1 DEF SortFor
<1>7. QED
  BY <1>1, <1>5, <1>6 DEF r, last

\* Chosen.
ChoiceFor(chosen, s, places, m) ==
  chosen = [n \in 0..m |-> IF n = 0 THEN << >>
                           ELSE IF n \in places THEN Append(chosen[n - 1], s[n]) ELSE chosen[n - 1]]
Choice(s, places) == CHOOSE chosen : ChoiceFor(chosen, s, places, Len(s))

LEMMA ChoiceExists ==
  ASSUME NEW s, NEW places, NEW n \in Nat PROVE \E chosen : ChoiceFor(chosen, s, places, n)
<1> DEFINE P == {m \in Nat : \E chosen : ChoiceFor(chosen, s, places, m)}
<1>1. 0 \in P
  <2> DEFINE chosen == [k \in 0..0 |-> << >>]
  <2>1. ChoiceFor(chosen, s, places, 0)
    BY DEF ChoiceFor
  <2>2. QED
    BY <2>1
<1>2. ASSUME NEW m \in Nat, m \in P PROVE m + 1 \in P
  <2>1. PICK chosen : ChoiceFor(chosen, s, places, m)
    BY <1>2
  <2> DEFINE next(f, k) == IF k \in places THEN Append(f[k - 1], s[k]) ELSE f[k - 1]
             more == [k \in 0..m + 1 |-> IF k = 0 THEN << >> ELSE next(chosen, k)]
  <2>2. ASSUME NEW k \in 0..m + 1, k # 0 PROVE more[k - 1] = chosen[k - 1]
    <3>1. k - 1 \in 0..m /\ k - 1 \in 0..m + 1
      BY <2>2
    <3>2. QED
      BY <2>1, <3>1 DEF ChoiceFor
  <2>3. more = [k \in 0..m + 1 |-> IF k = 0 THEN << >> ELSE next(more, k)]
    BY <2>2
  <2> HIDE DEF more
  <2>4. ChoiceFor(more, s, places, m + 1)
    BY <2>3 DEF ChoiceFor
  <2>5. QED
    BY <2>4
<1>3. Nat \subseteq P
  <2> HIDE DEF P
  <2>1. QED
    BY <1>1, <1>2, NaturalInduction
<1>4. QED
  BY <1>3

LEMMA ChosenElements ==
  ASSUME NEW S, NEW s \in Seq(S), NEW places \in SUBSET (1..Len(s))
  PROVE  /\ Chosen(s, places) \in Seq(S)
         /\ ToSet(Chosen(s, places)) = {s[i] : i \in places}
         /\ IsInjective(s) => IsInjective(Chosen(s, places))
<1> DEFINE r == Choice(s, places)
           last == Len(s)
           P == {n \in Nat : n <= last =>
                   /\ r[n] \in Seq(S) /\ ToSet(r[n]) = {s[i] : i \in places \cap (1..n)}
                   /\ IsInjective(s) => IsInjective(r[n])}
<1>1. Chosen(s, places) = r[last]
  BY Zenon DEF Chosen, Choice, ChoiceFor
<1>2. last \in Nat /\ DOMAIN s = 1..last
  OBVIOUS
<1>3. ChoiceFor(r, s, places, last)
  <2>1. \E chosen : ChoiceFor(chosen, s, places, last)
    BY <1>2, ChoiceExists
  <2>2. QED
    BY <2>1, Zenon DEF Choice
<1> HIDE DEF r, last
<1>4. r[0] = << >>
  BY <1>2, <1>3 DEF ChoiceFor
<1>5. ASSUME NEW n \in 1..last
      PROVE r[n] = IF n \in places THEN Append(r[n - 1], s[n]) ELSE r[n - 1]
  <2>1. n \in 0..last /\ n # 0
    BY <1>2
  <2>2. QED
    BY <1>3, <2>1 DEF ChoiceFor
<1>6. 0 \in P
  <2>1. << >> \in Seq(S) /\ ToSet(<< >>) = {} /\ IsInjective(<< >>)
    BY EmptySeq DEF ToSet, IsInjective
  <2>2. places \cap (1..0) = {}
    OBVIOUS
  <2>3. QED
    BY <1>4, <2>1, <2>2
<1>7. ASSUME NEW n \in 1..last, n - 1 \in P PROVE n \in P
  <2>1. n \in Nat /\ n <= last /\ n - 1 <= last /\ s[n] \in S
    BY <1>2, ElementOfSeq DEF last
  <2>2. /\ r[n - 1] \in Seq(S) /\ ToSet(r[n - 1]) = {s[i] : i \in places \cap (1..n - 1)}
        /\ IsInjective(s) => IsInjective(r[n - 1])
    BY <1>7, <2>1
  <2>3. CASE n \notin places
    <3>1. places \cap (1..n) = places \cap (1..n - 1)
      BY <2>1, <2>3
    <3>2. r[n] = r[n - 1]
      BY <1>5, <2>3
    <3>3. QED
      BY <2>1, <2>2, <3>1, <3>2
  <2>4. CASE n \in places
    <3> DEFINE t == r[n - 1]
    <3>1. r[n] = Append(t, s[n])
      BY <1>5, <2>4
    <3>2. t \in Seq(S) /\ ToSet(t) = {s[i] : i \in places \cap (1..n - 1)}
      BY <2>2
    <3>3. places \cap (1..n) = (places \cap (1..n - 1)) \cup {n}
      BY <2>1, <2>4
    <3> HIDE DEF t
    <3>4. Append(t, s[n]) \in Seq(S) /\ ToSet(Append(t, s[n])) = ToSet(t) \cup {s[n]}
      BY <2>1, <3>2, AppendProperties, AppendSet
    <3>5. ToSet(t) \cup {s[n]} = {s[i] : i \in places \cap (1..n)}
      BY <3>2, <3>3
    <3>6. ASSUME IsInjective(s) PROVE IsInjective(Append(t, s[n]))
      <4>1. s[n] \notin ToSet(t)
        <5>1. \A i \in places \cap (1..n - 1) : i \in DOMAIN s /\ n \in DOMAIN s /\ i # n
          BY <1>2, <2>1
        <5>2. QED
          BY <3>2, <3>6, <5>1 DEF IsInjective
      <4>2. IsInjective(t)
        BY <2>2, <3>6 DEF t
      <4>3. QED
        BY <2>1, <3>2, <4>1, <4>2, AppendOnce
    <3>7. QED
      BY <2>1, <3>1, <3>4, <3>5, <3>6
  <2>5. QED
    BY <2>3, <2>4
<1>8. \A n \in 0..last : n \in P
  <2> HIDE DEF P
  <2>1. QED
    BY <1>2, <1>6, <1>7, RoundInduction
<1>9. last \in P
  <2>1. last \in 0..last
    BY <1>2
  <2> HIDE DEF P
  <2>2. QED
    BY <1>8, <2>1
<1>10. places \cap (1..last) = places
  BY DEF last
<1>11. QED
  BY <1>1, <1>2, <1>9, <1>10

-----------------------------------------------------------------------------
(* What the sort knows after each round.                                   *)

Sorting(g) ==
  [queue : Seq(Nodes(g)), degree : [Nodes(g) -> Nat], result : Seq(Nodes(g)),
   seen : SUBSET Places(g)]

\* A node stands in the queue or the result at most once.
StandsOnce(k) ==
  IsInjective(k.queue) /\ IsInjective(k.result) /\ ToSet(k.queue) \cap ToSet(k.result) = {}

\* A degree counts the edges into a node that were not looked at, and is zero when
\* the node is in the queue or the result.
DegreesCount(g, k) ==
  \A n \in Nodes(g) :
    /\ k.degree[n] = Cardinality(Callers(g.edges, n, k.seen))
    /\ k.degree[n] = 0 <=> n \in ToSet(k.queue) \cup ToSet(k.result)

\* Only nodes in the result have edges looked at, and all but the last of them have
\* no others.
ResultIsSeen(g, k) ==
  /\ \A i \in k.seen : g.edges[i].from \in ToSet(k.result)
  /\ \A i \in Places(g) :
       g.edges[i].from \in ToSet(k.result) /\ g.edges[i].from # Last(k.result) => i \in k.seen

\* The edges into a node of the result come from nodes before it.
ResultIsOrdered(g, k) ==
  \A j \in 1..Len(k.result), i \in Places(g) :
    g.edges[i].to = k.result[j] => \E l \in 1..j - 1 : k.result[l] = g.edges[i].from

SortInv(g, k) ==
  k \in Sorting(g) /\ StandsOnce(k) /\ DegreesCount(g, k) /\ ResultIsSeen(g, k)
  /\ ResultIsOrdered(g, k)

\* No two nodes have the same id.
IdsDiffer(g) == IsInjective(g.nodes)

LEMMA InCallers ==
  ASSUME NEW g, IsGraph(g), NEW n, NEW seen, NEW i
  PROVE  i \in Callers(g.edges, n, seen) <=> (i \in Places(g) /\ i \notin seen /\ g.edges[i].to = n)
<1>1. DOMAIN g.edges = 1..Len(g.edges)
  BY EdgesOfGraph
<1>2. QED
  BY <1>1 DEF Callers, Places

LEMMA CallersCount ==
  ASSUME NEW g, IsGraph(g), NEW n, NEW seen
  PROVE  /\ IsFiniteSet(Callers(g.edges, n, seen))
         /\ Cardinality(Callers(g.edges, n, seen)) \in Nat
         /\ Cardinality(Callers(g.edges, n, seen)) = 0 <=> Callers(g.edges, n, seen) = {}
<1> DEFINE C == Callers(g.edges, n, seen)
<1>1. Len(g.edges) \in Nat /\ C \in SUBSET (1..Len(g.edges))
  BY EdgesOfGraph DEF Callers
<1> HIDE DEF C
<1>2. IsFiniteSet(C)
  BY <1>1, PlacesAreFew
<1>3. Cardinality(C) \in Nat
  BY <1>2, FS_CardinalityType
<1>4. Cardinality(C) = 0 <=> C = {}
  BY <1>2, FS_EmptySet
<1>5. QED
  BY <1>2, <1>3, <1>4 DEF C

LEMMA UnsortedInv ==
  ASSUME NEW g, IsGraph(g), IdsDiffer(g) PROVE SortInv(g, Unsorted(g))
<1> DEFINE k == Unsorted(g)
           V == Nodes(g)
           places == {i \in DOMAIN g.nodes : Degree(g, g.nodes[i]) = 0}
<1>1. /\ Len(g.nodes) \in Nat /\ DOMAIN g.nodes = 1..Len(g.nodes)
      /\ g.nodes \in Seq(V)
  BY NodesOfGraph DEF IsGraph, Nodes
<1>2. \A n : Degree(g, n) = Cardinality(Callers(g.edges, n, {}))
  <2>1. \A n : Callers(g.edges, n, {}) = {i \in DOMAIN g.edges : g.edges[i].to = n}
    BY DEF Callers
  <2>2. QED
    BY <2>1, Zenon DEF Degree
<1>3. places \in SUBSET (1..Len(g.nodes))
  BY <1>1
<1>4. Free(g) = Chosen(g.nodes, places)
  BY DEF Free
<1>5. /\ Free(g) \in Seq(V) /\ IsInjective(Free(g))
      /\ ToSet(Free(g)) = {g.nodes[i] : i \in places}
  <2> DEFINE s == g.nodes
  <2>1. s \in Seq(V) /\ IsInjective(s) /\ places \in SUBSET (1..Len(s))
    BY <1>1, <1>3 DEF IdsDiffer
  <2>2. Free(g) = Chosen(s, places) /\ {g.nodes[i] : i \in places} = {s[i] : i \in places}
    BY <1>4
  <2> HIDE DEF s, V, places
  <2>3. QED
    BY <2>1, <2>2, ChosenElements
<1>6. ASSUME NEW n \in V PROVE n \in ToSet(Free(g)) <=> Degree(g, n) = 0
  <2>1. PICK i \in DOMAIN g.nodes : g.nodes[i] = n
    BY NodesOfGraph
  <2>2. Degree(g, n) = 0 => n \in ToSet(Free(g))
    BY <1>5, <2>1
  <2>3. n \in ToSet(Free(g)) => Degree(g, n) = 0
    BY <1>5
  <2>4. QED
    BY <2>2, <2>3, Zenon
<1>7. /\ k.queue = Free(g) /\ k.result = << >> /\ k.seen = {}
      /\ k.degree = [n \in V |-> Degree(g, n)]
  BY DEF Unsorted, Nodes
<1>8. \A n \in V : Degree(g, n) \in Nat
  <2>1. ASSUME NEW n \in V PROVE Cardinality(Callers(g.edges, n, {})) \in Nat
    BY CallersCount
  <2>2. QED
    BY <1>2, <2>1, Zenon
<1>9. k \in Sorting(g)
  BY <1>5, <1>8, EmptySeq DEF Sorting, Unsorted, Nodes
<1> HIDE DEF k, V
<1>10. ToSet(k.result) = {} /\ IsInjective(k.result) /\ Len(k.result) = 0
  BY <1>7 DEF ToSet, IsInjective
<1>11. StandsOnce(k)
  BY <1>5, <1>7, <1>10 DEF StandsOnce
<1>12. DegreesCount(g, k)
  <2>1. \A n \in V : k.degree[n] = Degree(g, n)
    BY <1>7
  <2>2. QED
    BY <1>2, <1>6, <1>7, <1>10, <2>1, Zenon DEF DegreesCount, V
<1>13. ResultIsSeen(g, k) /\ ResultIsOrdered(g, k)
  BY <1>7, <1>10 DEF ResultIsSeen, ResultIsOrdered
<1>14. QED
  BY <1>9, <1>11, <1>12, <1>13 DEF SortInv, k

\* One edge more is looked at.
LEMMA CallersLess ==
  ASSUME NEW g, IsGraph(g), NEW seen, NEW i \in Places(g), i \notin seen
  PROVE  /\ \A m : m # g.edges[i].to =>
              Callers(g.edges, m, seen \cup {i}) = Callers(g.edges, m, seen)
         /\ i \in Callers(g.edges, g.edges[i].to, seen)
         /\ Cardinality(Callers(g.edges, g.edges[i].to, seen \cup {i}))
              = Cardinality(Callers(g.edges, g.edges[i].to, seen)) - 1
<1>1. i \in DOMAIN g.edges
  BY EdgesOfGraph DEF Places
<1>2. ASSUME NEW m, m # g.edges[i].to
      PROVE  Callers(g.edges, m, seen \cup {i}) = Callers(g.edges, m, seen)
  BY <1>2 DEF Callers
<1> DEFINE C == Callers(g.edges, g.edges[i].to, seen)
           D == Callers(g.edges, g.edges[i].to, seen \cup {i})
<1>3. i \in C /\ D = C \ {i}
  BY <1>1 DEF Callers
<1>4. IsFiniteSet(C)
  BY CallersCount
<1> HIDE DEF C, D
<1>5. Cardinality(C \ {i}) = Cardinality(C) - 1
  BY <1>3, <1>4, FS_RemoveElement
<1>6. Cardinality(D) = Cardinality(C) - 1
  BY <1>3, <1>5
<1>7. QED
  BY <1>2, <1>3, <1>6 DEF C, D

\* An edge of the node taken last is looked at.
LEMMA LowerInv ==
  ASSUME NEW g, IsGraph(g), NEW k, SortInv(g, k), k.result # << >>,
         NEW i \in Outgoing(g, Last(k.result), k.seen)
  PROVE  /\ SortInv(g, Lower([k EXCEPT !.seen = @ \cup {i}], g.edges[i].to))
         /\ Lower([k EXCEPT !.seen = @ \cup {i}], g.edges[i].to).result = k.result
         /\ Lower([k EXCEPT !.seen = @ \cup {i}], g.edges[i].to).seen = k.seen \cup {i}
<1> DEFINE n == g.edges[i].to
           V == Nodes(g)
           c == Lower([k EXCEPT !.seen = @ \cup {i}], n)
           less == k.degree[n] - 1
           q == IF less = 0 THEN Append(k.queue, n) ELSE k.queue
           more == k.seen \cup {i}
           C == Cardinality(Callers(g.edges, n, k.seen))
           D == Cardinality(Callers(g.edges, n, more))
<1>1. i \in Places(g) /\ i \notin k.seen /\ g.edges[i].from = Last(k.result)
  BY EdgesOfGraph DEF Outgoing, Places
<1>2. n \in V
  BY <1>1, EdgesOfGraph DEF Places, Nodes
<1>3. /\ k.queue \in Seq(V) /\ k.degree \in [V -> Nat] /\ k.result \in Seq(V)
      /\ k.seen \subseteq Places(g)
  BY DEF SortInv, Sorting
<1>4. C \in Nat /\ (C = 0 <=> Callers(g.edges, n, k.seen) = {}) /\ k.degree[n] = C
  BY <1>2, CallersCount DEF SortInv, DegreesCount
<1>5. Callers(g.edges, n, k.seen) # {} /\ D = C - 1
  <2>1. \A seen : i \notin seen =>
               /\ i \in Callers(g.edges, n, seen)
               /\ Cardinality(Callers(g.edges, n, seen \cup {i})) = Cardinality(Callers(g.edges, n, seen)) - 1
    <3> HIDE DEF C, D, more, c, less, q, V
    <3>1. QED
      BY <1>1, CallersLess
  <2>2. QED
    BY <1>1, <2>1, Zenon
<1>6. \A m : m # n => Callers(g.edges, m, more) = Callers(g.edges, m, k.seen)
  BY <1>1, CallersLess
<1> HIDE DEF C, D
<1>7. k.degree[n] \in Nat \ {0} /\ less \in Nat /\ less = D
  BY <1>4, <1>5
<1>8. n \notin ToSet(k.queue) /\ n \notin ToSet(k.result)
  BY <1>2, <1>7 DEF SortInv, DegreesCount
<1>9. c = [queue |-> q, degree |-> [k.degree EXCEPT ![n] = less], result |-> k.result,
           seen |-> more]
  <2> DEFINE s == [k EXCEPT !.seen = @ \cup {i}]
  <2> HIDE DEF n, q, less, V, c
  <2>1. s = [k EXCEPT !.seen = more]
    OBVIOUS
  <2>2. k \in Sorting(g)
    BY DEF SortInv
  <2> HIDE DEF more, s
  <2>3. s = [queue |-> k.queue, degree |-> k.degree, result |-> k.result, seen |-> more]
    BY <2>1, <2>2 DEF Sorting
  <2>4. Lower(s, n) = [s EXCEPT !.degree = [@ EXCEPT ![n] = less],
                                !.queue = IF less = 0 THEN Append(@, n) ELSE @]
    BY <1>7, <2>3 DEF Lower, less
  <2>5. QED
    BY <2>3, <2>4 DEF c, s, q
<1> HIDE DEF n, c, less, V, more
<1>10. q \in Seq(V) /\ IsInjective(q)
       /\ ToSet(q) = IF less = 0 THEN ToSet(k.queue) \cup {n} ELSE ToSet(k.queue)
  <2>1. IsInjective(k.queue)
    BY DEF SortInv, StandsOnce
  <2>2. Append(k.queue, n) \in Seq(V)
    BY <1>2, <1>3, AppendProperties
  <2>3. ToSet(Append(k.queue, n)) = ToSet(k.queue) \cup {n}
    BY <1>2, <1>3, AppendSet
  <2>4. IsInjective(Append(k.queue, n))
    BY <1>2, <1>3, <1>8, <2>1, AppendOnce
  <2>5. QED
    BY <1>3, <2>1, <2>2, <2>3, <2>4
<1> HIDE DEF q
<1>11. c \in Sorting(g)
  BY <1>1, <1>3, <1>7, <1>9, <1>10 DEF Sorting, V, more
<1>12. StandsOnce(c)
  BY <1>8, <1>9, <1>10 DEF SortInv, StandsOnce
<1>13. DegreesCount(g, c)
  <2> SUFFICES ASSUME NEW m \in V
               PROVE  /\ c.degree[m] = Cardinality(Callers(g.edges, m, more))
                      /\ c.degree[m] = 0 <=> m \in ToSet(q) \cup ToSet(k.result)
    BY <1>9 DEF DegreesCount, V
  <2>1. /\ k.degree[m] = Cardinality(Callers(g.edges, m, k.seen))
        /\ k.degree[m] = 0 <=> m \in ToSet(k.queue) \cup ToSet(k.result)
    BY DEF SortInv, DegreesCount, V
  <2>2. CASE m = n
    <3>1. c.degree[m] = less
      BY <1>2, <1>3, <1>9, <2>2
    <3>2. less = Cardinality(Callers(g.edges, m, more))
      BY <1>7, <2>2 DEF D
    <3>3. m \in ToSet(q) <=> less = 0
      BY <1>8, <1>10, <2>2
    <3>4. QED
      BY <1>8, <2>2, <3>1, <3>2, <3>3
  <2>3. CASE m # n
    <3>1. c.degree[m] = k.degree[m]
      BY <1>2, <1>3, <1>9, <2>3
    <3>2. m \in ToSet(q) <=> m \in ToSet(k.queue)
      BY <1>10, <2>3
    <3>3. Callers(g.edges, m, more) = Callers(g.edges, m, k.seen)
      BY <1>6, <2>3
    <3>4. QED
      BY <2>1, <3>1, <3>2, <3>3
  <2>4. QED
    BY <2>2, <2>3
<1>14. Last(k.result) \in ToSet(k.result)
  BY <1>3, SeqSet DEF Last
<1>15. c.result = k.result /\ c.seen = more
  BY <1>9
<1>16. ResultIsSeen(g, c)
  BY <1>1, <1>14, <1>15 DEF SortInv, ResultIsSeen, more
<1>17. ResultIsOrdered(g, c)
  BY <1>15 DEF SortInv, ResultIsOrdered
<1>18. SortInv(g, c)
  BY <1>11, <1>12, <1>13, <1>16, <1>17 DEF SortInv
<1>19. QED
  BY <1>15, <1>18, Zenon DEF c, n, more

\* The next node of the queue is taken.
LEMMA TakeInv ==
  ASSUME NEW g, IsGraph(g), NEW k, SortInv(g, k), k.queue # << >>,
         k.result # << >> => Outgoing(g, Last(k.result), k.seen) = {}
  PROVE  /\ SortInv(g, Take(k)) /\ Take(k).seen = k.seen
         /\ Head(k.queue) \in Nodes(g) /\ Head(k.queue) \notin ToSet(k.result)
         /\ ToSet(Take(k).result) = ToSet(k.result) \cup {Head(k.queue)}
<1> DEFINE n == Head(k.queue)
           V == Nodes(g)
           c == Take(k)
           r == Append(k.result, n)
           q == Tail(k.queue)
           l == Len(k.result)
<1>1. /\ k.queue \in Seq(V) /\ k.degree \in [V -> Nat] /\ k.result \in Seq(V)
      /\ k.seen \subseteq Places(g)
  BY DEF SortInv, Sorting
<1>2. IsInjective(k.queue) /\ IsInjective(k.result) /\ ToSet(k.queue) \cap ToSet(k.result) = {}
  BY DEF SortInv, StandsOnce
<1>3. /\ q \in Seq(V) /\ n \in V /\ n \notin ToSet(q) /\ IsInjective(q)
      /\ ToSet(k.queue) = ToSet(q) \cup {n}
  BY <1>1, <1>2, HeadOnce
<1> HIDE DEF n, q
<1>4. n \notin ToSet(k.result)
  BY <1>2, <1>3
<1>5. /\ r \in Seq(V) /\ Len(r) = l + 1 /\ r[l + 1] = n /\ l \in Nat /\ r # << >>
      /\ \A j \in 1..l : r[j] = k.result[j]
  BY <1>1, <1>3, AppendProperties
<1>6. ToSet(r) = ToSet(k.result) \cup {n}
  BY <1>1, <1>3, AppendSet
<1>7. IsInjective(r)
  BY <1>1, <1>2, <1>3, <1>4, AppendOnce
<1> HIDE DEF r
<1>8. c = [queue |-> q, degree |-> k.degree, result |-> r, seen |-> k.seen]
  <2>1. k \in Sorting(g)
    BY DEF SortInv
  <2>2. c = [k EXCEPT !.queue = q, !.result = r]
    BY Zenon DEF Take, q, r, n
  <2>3. QED
    BY <2>1, <2>2 DEF Sorting
<1> HIDE DEF c
<1>9. c \in Sorting(g)
  BY <1>1, <1>3, <1>5, <1>8 DEF Sorting
<1>10. StandsOnce(c)
  BY <1>2, <1>3, <1>6, <1>7, <1>8 DEF StandsOnce
<1>11. DegreesCount(g, c)
  <2>1. ToSet(q) \cup ToSet(r) = ToSet(k.queue) \cup ToSet(k.result)
    BY <1>3, <1>6
  <2>2. QED
    BY <1>8, <2>1 DEF SortInv, DegreesCount
<1>12. ASSUME NEW i \in Places(g), g.edges[i].from \in ToSet(k.result) PROVE i \in k.seen
  <2>1. k.result # << >>
    BY <1>1, <1>12, SeqSet
  <2>2. CASE g.edges[i].from = Last(k.result)
    BY <2>1, <2>2, EdgesOfGraph DEF Outgoing, Places
  <2>3. CASE g.edges[i].from # Last(k.result)
    BY <1>12, <2>3 DEF SortInv, ResultIsSeen
  <2>4. QED
    BY <2>2, <2>3
<1>13. Last(r) = n
  BY <1>5 DEF Last
<1>14. ResultIsSeen(g, c)
  BY <1>6, <1>8, <1>12, <1>13 DEF SortInv, ResultIsSeen
<1>15. ResultIsOrdered(g, c)
  <2> SUFFICES ASSUME NEW j \in 1..l + 1, NEW i \in Places(g), g.edges[i].to = r[j]
               PROVE  \E x \in 1..j - 1 : r[x] = g.edges[i].from
    BY <1>5, <1>8 DEF ResultIsOrdered
  <2>1. CASE j = l + 1
    <3>1. k.degree[n] = 0 /\ k.degree[n] = Cardinality(Callers(g.edges, n, k.seen))
      BY <1>3 DEF SortInv, DegreesCount
    <3>2. Callers(g.edges, n, k.seen) = {}
      BY <3>1, CallersCount
    <3>3. i \in Callers(g.edges, n, k.seen) <=> (i \in Places(g) /\ i \notin k.seen /\ g.edges[i].to = n)
      BY InCallers
    <3>4. i \in k.seen
      BY <1>5, <2>1, <3>2, <3>3
    <3>5. g.edges[i].from \in ToSet(k.result)
      BY <3>4 DEF SortInv, ResultIsSeen
    <3> DEFINE s == k.result
               m == g.edges[i].from
    <3>6. s \in Seq(V) /\ m \in ToSet(s)
      BY <1>1, <3>5
    <3>7. PICK x \in 1..l : k.result[x] = g.edges[i].from
      <4> HIDE DEF s, m, V
      <4>1. \E x \in 1..Len(s) : s[x] = m
        BY <3>6, SeqSet
      <4>2. QED
        BY <4>1 DEF s, m
    <3>8. x \in 1..j - 1 /\ r[x] = g.edges[i].from
      BY <1>5, <2>1, <3>7
    <3>9. QED
      BY <3>8
  <2>2. CASE j # l + 1
    <3>1. j \in 1..l /\ \A x \in 1..j - 1 : x \in 1..l
      BY <1>5, <2>2
    <3>2. PICK x \in 1..j - 1 : k.result[x] = g.edges[i].from
      BY <1>5, <3>1 DEF SortInv, ResultIsOrdered
    <3>3. QED
      BY <1>5, <3>1, <3>2
  <2>3. QED
    BY <2>1, <2>2
<1>16. QED
  BY <1>3, <1>4, <1>6, <1>8, <1>9, <1>10, <1>11, <1>14, <1>15 DEF SortInv, c, n

\* The rounds the sort may still take: one for every node that it has not taken and
\* for every edge that it has not looked at.
Untaken(g, k) == Roots(g, [visited |-> ToSet(k.result)])
Unsettled(g, k) == Cardinality(Untaken(g, k)) + Cardinality(Places(g) \ k.seen)
SortDone(g, k) ==
  k.queue = << >> /\ (k.result # << >> => Outgoing(g, Last(k.result), k.seen) = {})

LEMMA UnsettledIsNat ==
  ASSUME NEW g, IsGraph(g), NEW k
  PROVE  /\ Unsettled(g, k) \in Nat
         /\ Cardinality(Untaken(g, k)) \in Nat /\ Cardinality(Untaken(g, k)) <= Len(g.nodes)
         /\ Cardinality(Places(g) \ k.seen) \in Nat
         /\ Cardinality(Places(g) \ k.seen) <= Len(g.edges)
         /\ Cardinality(Untaken(g, k)) = 0 => Untaken(g, k) = {}
<1>1. Len(g.nodes) \in Nat /\ Len(g.edges) \in Nat /\ DOMAIN g.nodes = 1..Len(g.nodes)
  BY NodesOfGraph, EdgesOfGraph
<1>2. Untaken(g, k) \in SUBSET (1..Len(g.nodes))
  BY <1>1 DEF Untaken, Roots
<1>3. Places(g) \ k.seen \in SUBSET (1..Len(g.edges))
  BY DEF Places
<1>4. Cardinality(Untaken(g, k)) \in Nat /\ Cardinality(Untaken(g, k)) <= Len(g.nodes)
  BY <1>1, <1>2, PlacesAreFew
<1>5. /\ Cardinality(Places(g) \ k.seen) \in Nat
      /\ Cardinality(Places(g) \ k.seen) <= Len(g.edges)
  BY <1>1, <1>3, PlacesAreFew
<1>6. Cardinality(Untaken(g, k)) = 0 => Untaken(g, k) = {}
  BY <1>1, <1>2, NoPlaces
<1>7. QED
  BY <1>4, <1>5, <1>6 DEF Unsettled

LEMMA SortStep ==
  ASSUME NEW g, IsGraph(g), NEW k, SortInv(g, k)
  PROVE  /\ SortInv(g, Sort(g, k))
         /\ IF SortDone(g, k) THEN Sort(g, k) = k
            ELSE Unsettled(g, Sort(g, k)) + 1 <= Unsettled(g, k)
<1> DEFINE turns == Outgoing(g, Last(k.result), k.seen)
<1>1. CASE SortDone(g, k)
  BY <1>1, Zenon DEF Sort, SortDone
<1>2. CASE k.result # << >> /\ turns # {}
  <2> DEFINE i == Min(turns)
             c == Lower([k EXCEPT !.seen = @ \cup {i}], g.edges[i].to)
  <2>1. Sort(g, k) = c /\ ~SortDone(g, k)
    BY <1>2, Zenon DEF Sort, SortDone
  <2>2. turns \in SUBSET Nat /\ turns \subseteq Places(g) \ k.seen
    BY EdgesOfGraph DEF Outgoing, Places
  <2>3. i \in turns
    BY <1>2, <2>2, MinIsMember
  <2>4. i \in Places(g) \ k.seen /\ i \in Outgoing(g, Last(k.result), k.seen)
    BY <2>2, <2>3
  <2> HIDE DEF i, turns
  <2>5. Cardinality(Places(g) \ (k.seen \cup {i})) + 1 <= Cardinality(Places(g) \ k.seen)
    BY <2>4, OnePlaceLess
  <2>6. SortInv(g, c) /\ c.result = k.result /\ c.seen = k.seen \cup {i}
    BY <1>2, <2>4, LowerInv
  <2> HIDE DEF c
  <2>7. Untaken(g, c) = Untaken(g, k)
    BY <2>6, Zenon DEF Untaken
  <2>8. Cardinality(Places(g) \ c.seen) + 1 <= Cardinality(Places(g) \ k.seen)
    BY <2>5, <2>6, Zenon
  <2>9. PICK x \in Nat, y \in Nat, z \in Nat :
          /\ x = Cardinality(Untaken(g, k)) /\ y = Cardinality(Places(g) \ k.seen)
          /\ z = Cardinality(Places(g) \ c.seen)
    BY UnsettledIsNat
  <2>10. z + 1 <= y
    BY <2>8, <2>9, Zenon
  <2>11. Unsettled(g, c) = x + z /\ Unsettled(g, k) = x + y
    BY <2>7, <2>9, Zenon DEF Unsettled
  <2>12. (x + z) + 1 <= x + y
    BY <2>10
  <2>13. Unsettled(g, c) + 1 <= Unsettled(g, k)
    BY <2>11, <2>12, Zenon
  <2>14. QED
    BY <2>1, <2>6, <2>13
<1>3. CASE k.queue # << >> /\ (k.result = << >> \/ turns = {})
  <2> DEFINE c == Take(k)
             n == Head(k.queue)
             now == [visited |-> ToSet(k.result)]
             then == [visited |-> ToSet(c.result)]
  <2>1. Sort(g, k) = c /\ ~SortDone(g, k)
    BY <1>3, Zenon DEF Sort, SortDone
  <2>2. /\ SortInv(g, c) /\ c.seen = k.seen /\ n \in Nodes(g) /\ n \notin ToSet(k.result)
        /\ ToSet(c.result) = ToSet(k.result) \cup {n}
    BY <1>3, TakeInv
  <2> HIDE DEF c, n
  <2>3. n \notin now.visited /\ then.visited = now.visited \cup {n}
    BY <2>2
  <2>4. Untaken(g, k) = Roots(g, now) /\ Untaken(g, c) = Roots(g, then)
    BY DEF Untaken
  <2> HIDE DEF now, then
  <2>5. Cardinality(Roots(g, then)) + 1 <= Cardinality(Roots(g, now))
    BY <2>2, <2>3, OneRootLess
  <2>6. PICK x \in Nat, y \in Nat, z \in Nat :
          /\ x = Cardinality(Untaken(g, k)) /\ y = Cardinality(Places(g) \ k.seen)
          /\ z = Cardinality(Untaken(g, c))
    BY UnsettledIsNat
  <2>7. z + 1 <= x
    BY <2>4, <2>5, <2>6, Zenon
  <2>8. Unsettled(g, c) = z + y /\ Unsettled(g, k) = x + y
    BY <2>2, <2>6, Zenon DEF Unsettled
  <2>9. (z + y) + 1 <= x + y
    BY <2>7
  <2>10. Unsettled(g, c) + 1 <= Unsettled(g, k)
    BY <2>8, <2>9, Zenon
  <2>11. QED
    BY <2>1, <2>2, <2>10
<1>4. QED
  BY <1>1, <1>2, <1>3 DEF SortDone

LEMMA SortEnds ==
  ASSUME NEW g, IsGraph(g), IdsDiffer(g)
  PROVE  \E k : /\ SortInv(g, k) /\ SortDone(g, k)
                /\ TopologicalSort(g) = IF Len(k.result) = Len(g.nodes) THEN k.result ELSE << >>
<1> DEFINE last == SortRounds(g)
           r == SortRun(g)
           P == {n \in Nat : SortInv(g, r[n]) /\ (SortDone(g, r[n]) \/ Unsettled(g, r[n]) + n <= last)}
<1>1. Len(g.nodes) \in Nat /\ Len(g.edges) \in Nat
  BY NodesOfGraph, EdgesOfGraph
<1>2. last \in Nat
  <2>1. \A x, y \in Nat : x + y \in Nat
    OBVIOUS
  <2>2. QED
    BY <1>1, <2>1, Zenon DEF SortRounds
<1>3. /\ TopologicalSort(g) = LET result == r[last].result
                              IN  IF Len(result) = Len(g.nodes) THEN result ELSE << >>
      /\ r[0] = Unsorted(g)
      /\ \A n \in 1..last : r[n] = Sort(g, r[n - 1])
  BY <1>2, SortRunRounds, Zenon
<1>4. 0 \in P
  <2> DEFINE k == Unsorted(g)
  <2>1. SortInv(g, k)
    BY UnsortedInv
  <2> HIDE DEF k
  <2>2. Unsettled(g, k) + 0 <= last
    <3>1. PICK x \in Nat, y \in Nat, u \in Nat, v \in Nat :
            /\ x = Cardinality(Untaken(g, k)) /\ y = Cardinality(Places(g) \ k.seen)
            /\ u = Len(g.nodes) /\ v = Len(g.edges) /\ x <= u /\ y <= v
      BY <1>1, UnsettledIsNat
    <3>2. Unsettled(g, k) = x + y /\ last = u + v
      BY <3>1, Zenon DEF Unsettled, SortRounds
    <3>3. x <= u /\ y <= v
      BY <3>1, Zenon
    <3>4. (x + y) + 0 <= u + v
      BY <3>3
    <3>5. QED
      BY <3>2, <3>4, Zenon
  <2>3. 0 \in Nat
    OBVIOUS
  <2>4. QED
    BY <1>3, <2>1, <2>2, <2>3, Zenon DEF k
<1> HIDE DEF last, r
<1>5. ASSUME NEW n \in 1..last, n - 1 \in P PROVE n \in P
  <2>1. n \in Nat /\ (n - 1) \in Nat /\ r[n] = Sort(g, r[n - 1])
    BY <1>2, <1>3
  <2>2. /\ SortInv(g, r[n])
        /\ IF SortDone(g, r[n - 1]) THEN r[n] = r[n - 1]
           ELSE Unsettled(g, r[n]) + 1 <= Unsettled(g, r[n - 1])
    BY <1>5, <2>1, SortStep
  <2>3. CASE SortDone(g, r[n - 1])
    BY <2>1, <2>2, <2>3
  <2>4. CASE ~SortDone(g, r[n - 1])
    <3>1. Unsettled(g, r[n - 1]) + (n - 1) <= last
      BY <1>5, <2>4
    <3>2. Unsettled(g, r[n]) \in Nat /\ Unsettled(g, r[n - 1]) \in Nat
      BY UnsettledIsNat
    <3>3. Unsettled(g, r[n]) + n <= last
      BY <1>2, <2>1, <2>2, <2>4, <3>1, <3>2
    <3>4. QED
      BY <2>1, <2>2, <3>3
  <2>5. QED
    BY <2>3, <2>4
<1>6. \A n \in 0..last : n \in P
  <2> HIDE DEF P
  <2>1. QED
    BY <1>2, <1>4, <1>5, RoundInduction
<1>7. SortInv(g, r[last]) /\ (SortDone(g, r[last]) \/ Unsettled(g, r[last]) + last <= last)
  BY <1>2, <1>6
<1> DEFINE k == r[last]
<1> HIDE DEF k
<1>8. SortDone(g, k)
  <2> SUFFICES ASSUME Unsettled(g, k) + last <= last PROVE SortDone(g, k)
    BY <1>7 DEF k
  <2>1. PICK x \in Nat, y \in Nat :
          x = Cardinality(Untaken(g, k)) /\ y = Cardinality(Places(g) \ k.seen)
    BY UnsettledIsNat
  <2>2. (x + y) + last <= last
    BY <2>1, Zenon DEF Unsettled
  <2>3. x = 0
    BY <1>2, <2>2
  <2>4. Untaken(g, k) = {}
    BY <2>1, <2>3, UnsettledIsNat
  <2>5. y = 0
    BY <1>2, <2>2
  <2>6. Places(g) \ k.seen = {}
    <3>1. Places(g) \ k.seen \in SUBSET (1..Len(g.edges))
      BY DEF Places
    <3>2. QED
      BY <1>1, <2>1, <2>5, <3>1, NoPlaces
  <2>7. Outgoing(g, Last(k.result), k.seen) = {}
    BY <2>6, EdgesOfGraph DEF Outgoing, Places
  <2>8. k.queue = << >>
    <3>1. \A n \in Nodes(g) : n \in ToSet(k.result)
      BY <2>4, NodesOfGraph DEF Untaken, Roots
    <3> DEFINE q == k.queue
    <3>2. q \in Seq(Nodes(g)) /\ ToSet(q) \cap ToSet(k.result) = {}
      BY <1>7 DEF SortInv, Sorting, StandsOnce, k
    <3> HIDE DEF q
    <3>3. ToSet(q) = {}
      BY <3>1, <3>2, SeqSet
    <3>4. q = << >>
      <4>1. Len(q) \in Nat /\ \A j \in 1..Len(q) : q[j] \in ToSet(q)
        BY <3>2, SeqSet
      <4>2. Len(q) = 0
        BY <3>3, <4>1
      <4>3. QED
        BY <3>2, <4>2, SeqSet
    <3>5. QED
      BY <3>4 DEF q
  <2>9. QED
    BY <2>7, <2>8 DEF SortDone
<1>9. TopologicalSort(g) = IF Len(k.result) = Len(g.nodes) THEN k.result ELSE << >>
  BY <1>3, Zenon DEF k
<1>10. QED
  BY <1>7, <1>8, <1>9 DEF k

\* Where every node of a set has an edge from a node of it, there is a cycle.
LEMMA NoFirstNode ==
  ASSUME NEW g, IsGraph(g), NEW L \in SUBSET Nodes(g), L # {},
         \A n \in L : \E e \in Edges(g) : e.from \in L /\ e.to = n
  PROVE  Cyclic(g, Edges(g))
<1> DEFINE E == Edges(g)
           before(n) == {m \in L : Reaches(g, E, m, n)}
           many(n) == Cardinality(before(n))
           sizes == {many(n) : n \in L}
<1>1. IsFiniteSet(L)
  <2>1. IsFiniteSet(Nodes(g))
    <3> DEFINE s == g.nodes
               N == 1..Len(s)
               V == Nodes(g)
    <3>1. IsFiniteSet(N)
      BY NodesOfGraph, FS_Interval
    <3>2. DOMAIN s = N /\ s \in Seq(V) /\ \A i \in N : s[i] \in V
      BY NodesOfGraph DEF IsGraph, Nodes
    <3>3. \A n \in V : \E i \in N : s[i] = n
      BY NodesOfGraph
    <3>4. s \in [N -> V]
      BY <3>2, LenProperties
    <3> HIDE DEF s, N, V
    <3>5. s \in Surjection(N, V)
      BY <3>3, <3>4 DEF Surjection
    <3>6. QED
      BY <3>1, <3>5, FS_Surjection DEF V
  <2>2. QED
    BY <2>1, FS_Subset
<1>2. ASSUME NEW n PROVE IsFiniteSet(before(n)) /\ many(n) \in Nat
  <2> DEFINE S == before(n)
  <2>1. S \in SUBSET L
    OBVIOUS
  <2> HIDE DEF S
  <2>2. IsFiniteSet(S)
    BY <1>1, <2>1, FS_Subset
  <2>3. Cardinality(S) \in Nat
    BY <2>2, FS_CardinalityType
  <2>4. QED
    BY <2>2, <2>3 DEF S
<1> HIDE DEF many, before
<1>3. sizes \in SUBSET Nat /\ sizes # {}
  BY <1>2
<1>4. PICK n \in L : \A m \in L : ~(many(m) < many(n))
  <2>1. PICK s \in sizes : \A t \in sizes : ~(<<t, s>> \in OpToRel(<, Nat))
    <3> HIDE DEF sizes
    <3>1. QED
      BY <1>3, NatLessThanWellFounded, WFMin
  <2>2. \A t \in sizes : ~(t < s)
    BY <1>3, <2>1 DEF OpToRel
  <2>3. QED
    BY <2>2
<1>5. PICK e \in E : e.from \in L /\ e.to = n
  OBVIOUS
<1> DEFINE m == e.from
<1>6. Reaches(g, E, m, n)
  BY <1>5, EdgeReaches
<1>7. before(m) \subseteq before(n) /\ m \in before(n) /\ m \in L
  <2>1. ASSUME NEW l \in L, Reaches(g, E, l, m) PROVE Reaches(g, E, l, n)
    BY <1>6, <2>1, ReachesOn
  <2>2. QED
    BY <1>5, <1>6, <2>1 DEF before
<1> HIDE DEF m
<1>8. before(m) = before(n)
  <2> DEFINE S == before(m)
             T == before(n)
  <2>1. /\ IsFiniteSet(T) /\ S \in SUBSET T /\ Cardinality(S) \in Nat /\ Cardinality(T) \in Nat
        /\ ~(Cardinality(S) < Cardinality(T))
    BY <1>2, <1>4, <1>7 DEF many
  <2> HIDE DEF S, T
  <2>2. Cardinality(S) <= Cardinality(T) /\ (Cardinality(S) = Cardinality(T) => S = T)
    BY <2>1, FS_Subset, Zenon
  <2>3. Cardinality(S) = Cardinality(T)
    BY <2>1, <2>2
  <2>4. S = T
    BY <2>2, <2>3
  <2>5. QED
    BY <2>4 DEF S, T
<1>9. Reaches(g, E, m, m)
  BY <1>7, <1>8 DEF before
<1>10. QED
  BY <1>7, <1>9 DEF Cyclic, Nodes

\* What the sort leaves out has no first node.
LEMMA UnsortedIsCyclic ==
  ASSUME NEW g, IsGraph(g), NEW k, SortInv(g, k), SortDone(g, k), ToSet(k.result) # Nodes(g)
  PROVE  Cyclic(g, Edges(g))
<1> DEFINE L == Nodes(g) \ ToSet(k.result)
<1>1. ToSet(k.result) \subseteq Nodes(g)
  <2> DEFINE s == k.result
  <2>1. s \in Seq(Nodes(g))
    BY DEF SortInv, Sorting
  <2> HIDE DEF s
  <2>2. ToSet(s) \subseteq Nodes(g)
    BY <2>1, SeqSet
  <2>3. QED
    BY <2>2 DEF s
<1>2. L \in SUBSET Nodes(g) /\ L # {}
  BY <1>1
<1>3. ASSUME NEW n \in L PROVE \E e \in Edges(g) : e.from \in L /\ e.to = n
  <2>1. ToSet(k.queue) = {}
    BY DEF SortDone, ToSet
  <2>2. /\ k.degree[n] = Cardinality(Callers(g.edges, n, k.seen))
        /\ k.degree[n] = 0 <=> n \in ToSet(k.queue) \cup ToSet(k.result)
    BY DEF SortInv, DegreesCount
  <2>3. Callers(g.edges, n, k.seen) # {}
    BY <2>1, <2>2, CallersCount
  <2>4. PICK i \in Callers(g.edges, n, k.seen) : TRUE
    BY <2>3
  <2>5. i \in Places(g) /\ i \notin k.seen /\ g.edges[i].to = n
    BY <2>4, EdgesOfGraph DEF Callers, Places
  <2>6. g.edges[i] \in Edges(g) /\ g.edges[i].from \in Nodes(g)
    BY <2>5, EdgesOfGraph DEF Places, Nodes
  <2>7. g.edges[i].from \notin ToSet(k.result)
    <3> SUFFICES ASSUME g.edges[i].from \in ToSet(k.result) PROVE FALSE
      OBVIOUS
    <3>1. g.edges[i].from = Last(k.result)
      BY <2>5 DEF SortInv, ResultIsSeen
    <3>2. i \in Outgoing(g, Last(k.result), k.seen)
      BY <2>5, <3>1, EdgesOfGraph DEF Outgoing, Places
    <3>3. k.result # << >>
      BY DEF ToSet
    <3>4. QED
      BY <3>2, <3>3 DEF SortDone
  <2>8. QED
    BY <2>5, <2>6, <2>7
<1> HIDE DEF L
<1>4. QED
  BY <1>2, <1>3, NoFirstNode

\* A graph whose nodes all stand in an order has no cycle.
LEMMA OrderedIsAcyclic ==
  ASSUME NEW g, IsGraph(g), NEW k, SortInv(g, k), ToSet(k.result) = Nodes(g)
  PROVE  ~Cyclic(g, Edges(g))
<1> DEFINE s == k.result
           last == Len(s)
<1>1. s \in Seq(Nodes(g)) /\ IsInjective(s) /\ ToSet(s) = Nodes(g)
  BY DEF SortInv, Sorting, StandsOnce
<1>2. \A j \in 1..last, i \in Places(g) :
        g.edges[i].to = s[j] => \E l \in 1..j - 1 : s[l] = g.edges[i].from
  BY DEF SortInv, ResultIsOrdered
<1> HIDE DEF s
<1>3. /\ last \in Nat /\ DOMAIN s = 1..last /\ \A i \in 1..last : s[i] \in Nodes(g)
      /\ \A n \in Nodes(g) : \E i \in 1..last : s[i] = n
  BY <1>1, SeqSet
<1>4. \A i, j \in 1..last : s[i] = s[j] => i = j
  BY <1>1, <1>3 DEF IsInjective
<1> HIDE DEF last
<1> SUFFICES ASSUME NEW n \in Nodes(g), Reaches(g, Edges(g), n, n) PROVE FALSE
  BY DEF Cyclic, Nodes
<1>5. PICK j \in 1..last : s[j] = n
  BY <1>3
<1> DEFINE S == {s[x] : x \in j + 1..last}
<1>6. S \in SUBSET ToSet(g.nodes)
  <2>1. \A x \in j + 1..last : x \in 1..last
    BY <1>3
  <2>2. QED
    BY <1>3, <2>1 DEF Nodes
<1>7. ASSUME NEW e \in Edges(g), e.from \in S \cup {n} PROVE e.to \in S
  <2>1. PICK i \in Places(g) : e = g.edges[i]
    BY EdgesOfGraph DEF Places
  <2>2. PICK x \in 1..last : s[x] = e.from /\ x >= j
    BY <1>3, <1>5, <1>7
  <2>3. PICK y \in 1..last : s[y] = e.to
    <3>1. e.to \in Nodes(g)
      BY EdgesOfGraph DEF Nodes
    <3>2. QED
      BY <1>3, <3>1
  <2>4. PICK l \in 1..y - 1 : s[l] = e.from
    BY <1>2, <2>1, <2>3
  <2>5. l \in 1..last /\ l < y
    BY <1>3
  <2>6. l = x
    BY <1>4, <2>2, <2>4, <2>5
  <2>7. y \in j + 1..last
    BY <1>3, <2>2, <2>5, <2>6
  <2>8. QED
    BY <2>3, <2>7
<1> HIDE DEF S
<1>8. n \in S
  BY <1>6, <1>7, StaysInside
<1>9. PICK x \in j + 1..last : s[x] = n
  BY <1>8 DEF S
<1>10. x \in 1..last /\ x # j
  BY <1>3
<1>11. QED
  BY <1>4, <1>5, <1>9, <1>10

LEMMA OrderIsSorted ==
  ASSUME NEW g, IsGraph(g), IdsDiffer(g), NEW order, order = TopologicalSort(g)
  PROVE  /\ order = << >> <=> (g.nodes = << >> \/ Cyclic(g, Edges(g)))
         /\ order # << >> =>
              /\ ToSet(order) = ToSet(g.nodes)
              /\ \A i, j \in DOMAIN order : i <= j =>
                   ~\E e \in Edges(g) : e.from = order[j] /\ e.to = order[i]
<1>1. PICK k : /\ SortInv(g, k) /\ SortDone(g, k)
               /\ order = IF Len(k.result) = Len(g.nodes) THEN k.result ELSE << >>
  BY SortEnds
<1> DEFINE s == k.result
           V == Nodes(g)
           a == g.nodes
<1>2. s \in Seq(V) /\ IsInjective(s) /\ a \in Seq(V) /\ IsInjective(a) /\ ToSet(a) = V
  BY <1>1 DEF SortInv, Sorting, StandsOnce, IsGraph, IdsDiffer, Nodes
<1>3. \A j \in 1..Len(s), i \in Places(g) :
        g.edges[i].to = s[j] => \E l \in 1..j - 1 : s[l] = g.edges[i].from
  BY <1>1 DEF SortInv, ResultIsOrdered
<1>4. (ToSet(s) # V => Cyclic(g, Edges(g))) /\ (ToSet(s) = V => ~Cyclic(g, Edges(g)))
  BY <1>1, UnsortedIsCyclic, OrderedIsAcyclic
<1>5. order = IF Len(s) = Len(a) THEN s ELSE << >>
  BY <1>1, Zenon
<1> HIDE DEF s, V, a
<1>6. Len(s) = Len(a) <=> ToSet(s) = V
  <2>1. IsFiniteSet(V) /\ Cardinality(V) = Len(a) /\ Cardinality(ToSet(s)) = Len(s)
    BY <1>2, AsLongAsMany
  <2>2. ToSet(s) \in SUBSET V
    BY <1>2, SeqSet
  <2>3. Cardinality(V) = Cardinality(ToSet(s)) => V = ToSet(s)
    BY <2>1, <2>2, FS_Subset, Zenon
  <2>4. QED
    BY <2>1, <2>3, Zenon
<1>7. (s = << >> <=> Len(s) = 0) /\ (a = << >> <=> Len(a) = 0) /\ Len(<< >>) = 0
  BY <1>2, SeqSet
<1>8. order = << >> <=> (a = << >> \/ Cyclic(g, Edges(g)))
  BY <1>4, <1>5, <1>6, <1>7
<1>9. ASSUME order # << >> PROVE order = s /\ ToSet(s) = V
  BY <1>5, <1>6, <1>9
<1>10. DOMAIN s = 1..Len(s) /\ Len(s) \in Nat
  BY <1>2
<1>11. ASSUME NEW i \in 1..Len(s), NEW j \in 1..Len(s), i <= j,
              NEW e \in Edges(g), e.from = s[j], e.to = s[i]
       PROVE  FALSE
  <2>1. PICK p \in Places(g) : e = g.edges[p]
    BY EdgesOfGraph DEF Places
  <2>2. PICK l \in 1..i - 1 : s[l] = e.from
    BY <1>3, <1>11, <2>1
  <2>3. l \in 1..Len(s) /\ l # j
    BY <1>11, <1>10
  <2>4. s[l] = s[j]
    BY <1>11, <2>2
  <2>5. QED
    BY <1>2, <1>10, <2>3, <2>4 DEF IsInjective
<1>12. QED
  BY <1>8, <1>9, <1>11, <1>10 DEF a, V, Nodes

-----------------------------------------------------------------------------
(* What the breadth-first search for the nodes upstream of t knows after   *)
(* each round.                                                             *)

Waiting(g) == [node : Nodes(g), depth : Nat]
Climbing(g) ==
  [queue : Seq(Waiting(g)), current : Waiting(g), visited : SUBSET Nodes(g), depth : Nat,
   seen : SUBSET Places(g)]
CallersOf(g, t) == {e.from : e \in {e \in Edges(g) : e.to = t}}

\* Only the target has depth zero, and where it is left its callers are visited.
DepthIsSteps(g, t, b) ==
  /\ t \in b.visited
  /\ b.current.node \in b.visited /\ (b.current.depth = 0 => b.current.node = t)
  /\ b.current.depth # 0 => CallersOf(g, t) \subseteq b.visited
  /\ \A w \in ToSet(b.queue) : w.depth # 0 /\ w.node \in b.visited

\* What was found at a depth of two or more is no caller of the target.
DeepIsNoCaller(g, t, b) ==
  (b.depth >= 2 \/ \E w \in ToSet(b.queue) : w.depth >= 2)
    <=> \E n \in b.visited : n # t /\ n \notin CallersOf(g, t)

\* The edges into a node that is neither waiting nor the current one were looked at,
\* and where an edge looked at comes from is visited.
UpstreamIsSeen(g, b) ==
  /\ \A i \in b.seen : g.edges[i].from \in b.visited
  /\ \A i \in Places(g) :
       /\ g.edges[i].to \in b.visited /\ g.edges[i].to # b.current.node
       /\ \A w \in ToSet(b.queue) : w.node # g.edges[i].to
       => i \in b.seen

VisitedReach(g, t, b) == \A n \in b.visited : n = t \/ Reaches(g, Edges(g), n, t)

ClimbInv(g, t, b) ==
  b \in Climbing(g) /\ DepthIsSteps(g, t, b) /\ DeepIsNoCaller(g, t, b) /\ UpstreamIsSeen(g, b)
  /\ VisitedReach(g, t, b)

LEMMA HeadSet ==
  ASSUME NEW S, NEW s \in Seq(S), s # << >>
  PROVE  /\ Tail(s) \in Seq(S) /\ Head(s) \in S /\ Len(Tail(s)) = Len(s) - 1 /\ Len(s) \in Nat
         /\ ToSet(s) = ToSet(Tail(s)) \cup {Head(s)}
<1> DEFINE t == Tail(s)
           h == Head(s)
           k == Len(s)
<1>1. /\ t \in Seq(S) /\ h \in S /\ Len(t) = k - 1
      /\ \A i \in 1..Len(t) : t[i] = s[i + 1]
  BY HeadTailProperties
<1>2. k \in Nat \ {0} /\ h = s[1] /\ DOMAIN s = 1..k
  BY SeqSet
<1> HIDE DEF t, h, k
<1>3. DOMAIN t = 1..k - 1 /\ \A i \in 1..k - 1 : t[i] = s[i + 1] /\ i + 1 \in 1..k
  BY <1>1, <1>2
<1>4. \A i \in 1..k : i = 1 \/ (i - 1 \in 1..k - 1 /\ (i - 1) + 1 = i)
  BY <1>2
<1>5. \A i \in 1..k : i = 1 \/ (s[i] = t[i - 1] /\ i - 1 \in DOMAIN t)
  BY <1>3, <1>4
<1>6. ToSet(s) \subseteq ToSet(t) \cup {h}
  BY <1>2, <1>5 DEF ToSet
<1>7. ToSet(t) \subseteq ToSet(s) /\ h \in ToSet(s)
  BY <1>2, <1>3 DEF ToSet
<1>8. QED
  BY <1>1, <1>2, <1>6, <1>7 DEF t, h, k

LEMMA InCallersOf ==
  ASSUME NEW g, IsGraph(g), NEW i \in Places(g)
  PROVE  g.edges[i].from \in CallersOf(g, g.edges[i].to)
  BY EdgesOfGraph DEF CallersOf, Places

LEMMA OfCallers ==
  ASSUME NEW g, IsGraph(g), NEW t, NEW n \in CallersOf(g, t)
  PROVE  \E i \in Places(g) : g.edges[i].from = n /\ g.edges[i].to = t
  BY EdgesOfGraph DEF CallersOf, Places

LEMMA TargetInv ==
  ASSUME NEW g, IsGraph(g), NEW t \in Nodes(g) PROVE ClimbInv(g, t, Target(t))
<1> DEFINE b == Target(t)
<1>1. /\ b.queue = << >> /\ b.current = [node |-> t, depth |-> 0] /\ b.visited = {t}
      /\ b.depth = 0 /\ b.seen = {}
  BY DEF Target
<1>2. << >> \in Seq(Waiting(g)) /\ ToSet(<< >>) = {} /\ b.current \in Waiting(g)
  BY <1>1, EmptySeq DEF ToSet, Waiting
<1>3. b \in Climbing(g)
  BY <1>2 DEF Target, Climbing
<1> HIDE DEF b
<1>4. DepthIsSteps(g, t, b) /\ VisitedReach(g, t, b)
  BY <1>1, <1>2 DEF DepthIsSteps, VisitedReach
<1>5. DeepIsNoCaller(g, t, b)
  BY <1>1, <1>2 DEF DeepIsNoCaller
<1>6. UpstreamIsSeen(g, b)
  BY <1>1, <1>2 DEF UpstreamIsSeen
<1>7. QED
  BY <1>3, <1>4, <1>5, <1>6 DEF ClimbInv, b

\* An edge into the current node is looked at; it comes from a node visited.
LEMMA ReachKnownInv ==
  ASSUME NEW g, IsGraph(g), NEW t \in Nodes(g), NEW b, ClimbInv(g, t, b), NEW i \in Places(g),
         g.edges[i].from \in b.visited, NEW c,
         c = [queue |-> b.queue, current |-> b.current, visited |-> b.visited, depth |-> b.depth,
              seen |-> b.seen \cup {i}]
  PROVE  ClimbInv(g, t, c)
<1>1. /\ b \in Climbing(g) /\ DepthIsSteps(g, t, b) /\ DeepIsNoCaller(g, t, b)
      /\ UpstreamIsSeen(g, b) /\ VisitedReach(g, t, b)
  BY DEF ClimbInv
<1>2. /\ b.queue \in Seq(Waiting(g)) /\ b.current \in Waiting(g) /\ b.visited \in SUBSET Nodes(g)
      /\ b.depth \in Nat /\ b.seen \in SUBSET Places(g)
  BY <1>1 DEF Climbing
<1>3. c \in Climbing(g)
  BY <1>2 DEF Climbing
<1>4. /\ c.queue = b.queue /\ c.current = b.current /\ c.visited = b.visited
      /\ c.depth = b.depth /\ c.seen = b.seen \cup {i}
  OBVIOUS
<1>5. DepthIsSteps(g, t, c) /\ VisitedReach(g, t, c)
  BY <1>1, <1>4, Zenon DEF DepthIsSteps, VisitedReach
<1>6. DeepIsNoCaller(g, t, c)
  BY <1>1, <1>4, Zenon DEF DeepIsNoCaller
<1>7. UpstreamIsSeen(g, c)
  <2>1. \A j \in b.seen \cup {i} : j \in b.seen \/ j = i
    OBVIOUS
  <2>2. \A j \in b.seen : j \in b.seen \cup {i}
    OBVIOUS
  <2>3. QED
    BY <1>1, <1>4, <2>1, <2>2, Zenon DEF UpstreamIsSeen
<1>8. QED
  BY <1>3, <1>5, <1>6, <1>7 DEF ClimbInv

\* The edge comes from a node that was not visited.
LEMMA ReachNewInv ==
  ASSUME NEW g, IsGraph(g), NEW t \in Nodes(g), NEW b, ClimbInv(g, t, b), NEW i \in Places(g),
         g.edges[i].to = b.current.node, NEW n, n = g.edges[i].from, n \notin b.visited,
         NEW w, w = [node |-> n, depth |-> b.current.depth + 1], NEW c,
         c = [queue |-> Append(b.queue, w), current |-> b.current, visited |-> b.visited \cup {n},
              depth |-> b.depth, seen |-> b.seen \cup {i}]
  PROVE  ClimbInv(g, t, c)
<1>1. /\ b \in Climbing(g) /\ DepthIsSteps(g, t, b) /\ DeepIsNoCaller(g, t, b)
      /\ UpstreamIsSeen(g, b) /\ VisitedReach(g, t, b)
  BY DEF ClimbInv
<1>2. /\ b.queue \in Seq(Waiting(g)) /\ b.current \in Waiting(g) /\ b.visited \in SUBSET Nodes(g)
      /\ b.depth \in Nat /\ b.seen \in SUBSET Places(g)
  BY <1>1 DEF Climbing
<1>3. n \in Nodes(g) /\ b.current.depth \in Nat
  BY <1>2, EdgesOfGraph DEF Places, Nodes, Waiting
<1>4. w \in Waiting(g) /\ w.node = n /\ w.depth = b.current.depth + 1
  BY <1>3 DEF Waiting
<1>5. Append(b.queue, w) \in Seq(Waiting(g)) /\ ToSet(Append(b.queue, w)) = ToSet(b.queue) \cup {w}
  BY <1>2, <1>4, AppendProperties, AppendSet
<1>6. c \in Climbing(g)
  BY <1>2, <1>3, <1>5 DEF Climbing
<1>7. /\ ToSet(c.queue) = ToSet(b.queue) \cup {w} /\ c.current = b.current
      /\ c.visited = b.visited \cup {n} /\ c.depth = b.depth /\ c.seen = b.seen \cup {i}
  BY <1>5
<1>8. w.depth # 0 /\ (w.depth >= 2 <=> b.current.depth # 0)
  BY <1>3, <1>4
<1>9. b.current.depth = 0 => n \in CallersOf(g, t)
  BY <1>1, InCallersOf DEF DepthIsSteps
<1>10. b.current.depth # 0 => n \notin CallersOf(g, t)
  BY <1>1 DEF DepthIsSteps
<1>11. n # t
  BY <1>1 DEF DepthIsSteps
<1> DEFINE C == CallersOf(g, t)
<1> HIDE DEF C
<1>12. DepthIsSteps(g, t, c)
  <2>1. /\ t \in b.visited /\ b.current.node \in b.visited
        /\ b.current.depth = 0 => b.current.node = t
        /\ b.current.depth # 0 => C \subseteq b.visited
        /\ \A x \in ToSet(b.queue) : x.depth # 0 /\ x.node \in b.visited
    BY <1>1 DEF DepthIsSteps, C
  <2>2. \A x \in ToSet(c.queue) : x.depth # 0 /\ x.node \in c.visited
    BY <1>4, <1>7, <1>8, <2>1
  <2>3. QED
    BY <1>7, <2>1, <2>2 DEF DepthIsSteps, C
<1>13. DeepIsNoCaller(g, t, c)
  <2>1. (b.depth >= 2 \/ \E x \in ToSet(b.queue) : x.depth >= 2)
          <=> \E m \in b.visited : m # t /\ m \notin C
    BY <1>1 DEF DeepIsNoCaller, C
  <2>2. (\E x \in ToSet(c.queue) : x.depth >= 2)
          <=> (b.current.depth # 0 \/ \E x \in ToSet(b.queue) : x.depth >= 2)
    BY <1>7, <1>8
  <2>3. (\E m \in c.visited : m # t /\ m \notin C)
          <=> (b.current.depth # 0 \/ \E m \in b.visited : m # t /\ m \notin C)
    BY <1>7, <1>9, <1>10, <1>11 DEF C
  <2>4. QED
    BY <1>7, <2>1, <2>2, <2>3, Zenon DEF DeepIsNoCaller, C
<1>14. UpstreamIsSeen(g, c)
  <2>1. \A j \in c.seen : g.edges[j].from \in c.visited
    BY <1>1, <1>7 DEF UpstreamIsSeen
  <2>2. ASSUME NEW j \in Places(g), g.edges[j].to \in c.visited, g.edges[j].to # c.current.node,
               \A x \in ToSet(c.queue) : x.node # g.edges[j].to
        PROVE  j \in c.seen
    <3>1. g.edges[j].to # n
      BY <1>4, <1>7, <2>2
    <3>2. g.edges[j].to \in b.visited /\ g.edges[j].to # b.current.node
          /\ \A x \in ToSet(b.queue) : x.node # g.edges[j].to
      BY <1>7, <2>2, <3>1
    <3>3. j \in b.seen
      BY <1>1, <3>2 DEF UpstreamIsSeen
    <3>4. QED
      BY <1>7, <3>3
  <2>3. QED
    BY <2>1, <2>2 DEF UpstreamIsSeen
<1>15. VisitedReach(g, t, c)
  <2>1. g.edges[i] \in Edges(g)
    BY EdgesOfGraph DEF Places
  <2>2. Reaches(g, Edges(g), n, b.current.node)
    BY <2>1, EdgeReaches
  <2>3. b.current.node = t \/ Reaches(g, Edges(g), b.current.node, t)
    BY <1>1 DEF VisitedReach, DepthIsSteps
  <2>4. Reaches(g, Edges(g), n, t)
    BY <2>2, <2>3, ReachesOn
  <2>5. QED
    BY <1>1, <1>7, <2>4 DEF VisitedReach
<1>16. QED
  BY <1>6, <1>12, <1>13, <1>14, <1>15 DEF ClimbInv

\* The edges into the current node are done, and the next node becomes current.
LEMMA ShiftInv ==
  ASSUME NEW g, IsGraph(g), NEW t \in Nodes(g), NEW b, ClimbInv(g, t, b), b.queue # << >>,
         Callers(g.edges, b.current.node, b.seen) = {}
  PROVE  /\ ClimbInv(g, t, Shift(b)) /\ Shift(b).queue = Tail(b.queue)
         /\ Shift(b).visited = b.visited /\ Shift(b).seen = b.seen
<1> DEFINE q == Tail(b.queue)
           w == Head(b.queue)
           c == Shift(b)
           deep == IF w.depth > b.depth THEN w.depth ELSE b.depth
<1>1. /\ b \in Climbing(g) /\ DepthIsSteps(g, t, b) /\ DeepIsNoCaller(g, t, b)
      /\ UpstreamIsSeen(g, b) /\ VisitedReach(g, t, b)
  BY DEF ClimbInv
<1>2. /\ b.queue \in Seq(Waiting(g)) /\ b.current \in Waiting(g) /\ b.visited \in SUBSET Nodes(g)
      /\ b.depth \in Nat /\ b.seen \in SUBSET Places(g)
  BY <1>1 DEF Climbing
<1>3. q \in Seq(Waiting(g)) /\ w \in Waiting(g) /\ ToSet(b.queue) = ToSet(q) \cup {w}
  BY <1>2, HeadSet
<1>4. c = [b EXCEPT !.queue = q, !.current = w, !.depth = deep]
  BY Zenon DEF Shift
<1> HIDE DEF q, w, c, deep
<1>5. c = [queue |-> q, current |-> w, visited |-> b.visited, depth |-> deep, seen |-> b.seen]
  BY <1>1, <1>4 DEF Climbing
<1>6. w.depth \in Nat /\ w.node \in Nodes(g) /\ w.depth # 0
  BY <1>1, <1>3 DEF Waiting, DepthIsSteps
<1>7. deep \in Nat /\ (deep >= 2 <=> (b.depth >= 2 \/ w.depth >= 2))
  BY <1>2, <1>6 DEF deep
<1>8. c \in Climbing(g)
  BY <1>2, <1>3, <1>5, <1>7 DEF Climbing
<1>9. /\ c.queue = q /\ c.current = w /\ c.visited = b.visited /\ c.depth = deep
      /\ c.seen = b.seen
  BY <1>5
<1>10. CallersOf(g, t) \subseteq b.visited
  <2>1. CASE b.current.depth # 0
    BY <1>1, <2>1 DEF DepthIsSteps
  <2>2. CASE b.current.depth = 0
    <3>1. b.current.node = t
      BY <1>1, <2>2 DEF DepthIsSteps
    <3>2. ASSUME NEW n \in CallersOf(g, t) PROVE n \in b.visited
      <4>1. PICK i \in Places(g) : g.edges[i].from = n /\ g.edges[i].to = t
        BY OfCallers
      <4>2. i \in DOMAIN g.edges
        BY EdgesOfGraph DEF Places
      <4>3. i \in b.seen
        BY <3>1, <4>1, <4>2 DEF Callers
      <4>4. QED
        BY <1>1, <4>1, <4>3 DEF UpstreamIsSeen
    <3>3. QED
      BY <3>2
  <2>3. QED
    BY <2>1, <2>2
<1>11. DepthIsSteps(g, t, c)
  BY <1>1, <1>3, <1>6, <1>9, <1>10 DEF DepthIsSteps
<1>12. DeepIsNoCaller(g, t, c)
  <2>1. (\E x \in ToSet(b.queue) : x.depth >= 2)
          <=> (w.depth >= 2 \/ \E x \in ToSet(q) : x.depth >= 2)
    BY <1>3
  <2>2. (c.depth >= 2 \/ \E x \in ToSet(c.queue) : x.depth >= 2)
          <=> (b.depth >= 2 \/ \E x \in ToSet(b.queue) : x.depth >= 2)
    BY <1>7, <1>9, <2>1
  <2>3. QED
    BY <1>1, <1>9, <2>2, Zenon DEF DeepIsNoCaller
<1>13. UpstreamIsSeen(g, c)
  <2>1. ASSUME NEW j \in Places(g), g.edges[j].to \in b.visited, g.edges[j].to # w.node,
               \A x \in ToSet(q) : x.node # g.edges[j].to
        PROVE  j \in b.seen
    <3>1. CASE g.edges[j].to = b.current.node
      <4>1. j \in DOMAIN g.edges
        BY EdgesOfGraph DEF Places
      <4>2. QED
        BY <3>1, <4>1 DEF Callers
    <3>2. CASE g.edges[j].to # b.current.node
      <4>1. \A x \in ToSet(b.queue) : x.node # g.edges[j].to
        BY <1>3, <2>1
      <4>2. QED
        BY <1>1, <2>1, <3>2, <4>1 DEF UpstreamIsSeen
    <3>3. QED
      BY <3>1, <3>2
  <2>2. \A j \in c.seen : g.edges[j].from \in c.visited
    BY <1>1, <1>9 DEF UpstreamIsSeen
  <2>3. QED
    BY <1>9, <2>1, <2>2 DEF UpstreamIsSeen
<1>14. VisitedReach(g, t, c)
  BY <1>1, <1>9 DEF VisitedReach
<1>15. ClimbInv(g, t, c)
  BY <1>8, <1>11, <1>12, <1>13, <1>14 DEF ClimbInv
<1>16. QED
  BY <1>9, <1>15 DEF c, q

-----------------------------------------------------------------------------
(* The search upstream, round by round                                     *)

ClimbFor(round, t, arcs, m) ==
  round = [n \in 0..m |-> IF n = 0 THEN Target(t) ELSE Climb(arcs, round[n - 1])]
ClimbRounds(arcs) == 2 * Len(arcs)
ClimbRun(t, arcs) == CHOOSE round : ClimbFor(round, t, arcs, ClimbRounds(arcs))

LEMMA ClimbRunExists ==
  ASSUME NEW t, NEW arcs, NEW n \in Nat PROVE \E round : ClimbFor(round, t, arcs, n)
<1> DEFINE P == {m \in Nat : \E round : ClimbFor(round, t, arcs, m)}
<1>1. 0 \in P
  <2> DEFINE round == [k \in 0..0 |-> Target(t)]
  <2>1. ClimbFor(round, t, arcs, 0)
    BY DEF ClimbFor
  <2>2. QED
    BY <2>1
<1>2. ASSUME NEW m \in Nat, m \in P PROVE m + 1 \in P
  <2>1. PICK round : ClimbFor(round, t, arcs, m)
    BY <1>2
  <2> DEFINE more == [k \in 0..m + 1 |-> IF k = 0 THEN Target(t) ELSE Climb(arcs, round[k - 1])]
  <2>2. ASSUME NEW k \in 0..m + 1, k # 0 PROVE more[k - 1] = round[k - 1]
    <3>1. k - 1 \in 0..m /\ k - 1 \in 0..m + 1
      BY <2>2
    <3>2. QED
      BY <2>1, <3>1 DEF ClimbFor
  <2>3. more = [k \in 0..m + 1 |-> IF k = 0 THEN Target(t) ELSE Climb(arcs, more[k - 1])]
    BY <2>2
  <2> HIDE DEF more
  <2>4. ClimbFor(more, t, arcs, m + 1)
    BY <2>3 DEF ClimbFor
  <2>5. QED
    BY <2>4
<1>3. Nat \subseteq P
  <2> HIDE DEF P
  <2>1. QED
    BY <1>1, <1>2, NaturalInduction
<1>4. QED
  BY <1>3

LEMMA ClimbRunRounds ==
  ASSUME NEW t, NEW arcs, ClimbRounds(arcs) \in Nat
  PROVE  /\ Upstream(t, arcs) = ClimbRun(t, arcs)[ClimbRounds(arcs)]
         /\ ClimbRun(t, arcs)[0] = Target(t)
         /\ \A n \in 1..ClimbRounds(arcs) :
              ClimbRun(t, arcs)[n] = Climb(arcs, ClimbRun(t, arcs)[n - 1])
<1> DEFINE r == ClimbRun(t, arcs)
           last == ClimbRounds(arcs)
<1>1. Upstream(t, arcs) = r[last]
  BY Zenon DEF Upstream, ClimbRun, ClimbRounds, ClimbFor
<1>2. \E round : ClimbFor(round, t, arcs, last)
  BY ClimbRunExists
<1>3. ClimbFor(r, t, arcs, last)
  BY <1>2, Zenon DEF ClimbRun
<1>4. last \in Nat
  OBVIOUS
<1> HIDE DEF r, last
<1>5. r[0] = Target(t)
  BY <1>3, <1>4 DEF ClimbFor
<1>6. ASSUME NEW n \in 1..last PROVE r[n] = Climb(arcs, r[n - 1])
  <2>1. n \in 0..last /\ n # 0
    BY <1>4
  <2>2. QED
    BY <1>3, <2>1 DEF ClimbFor
<1>7. QED
  BY <1>1, <1>5, <1>6 DEF r, last

\* The rounds the search may still take: one for every edge it has not looked at,
\* and to take the nodes that wait and, at most one an edge, those that will.
Unvisited(g, b) == {i \in Places(g) : g.edges[i].from \notin b.visited}
ToClimb(g, b) ==
  Cardinality(Unvisited(g, b)) + Len(b.queue) + Cardinality(Places(g) \ b.seen)
ClimbDone(g, b) == b.queue = << >> /\ Callers(g.edges, b.current.node, b.seen) = {}

LEMMA ToClimbIsNat ==
  ASSUME NEW g, IsGraph(g), NEW t, NEW b, ClimbInv(g, t, b)
  PROVE  /\ ToClimb(g, b) \in Nat
         /\ Cardinality(Unvisited(g, b)) \in Nat /\ Cardinality(Unvisited(g, b)) <= Len(g.edges)
         /\ Len(b.queue) \in Nat
         /\ Cardinality(Places(g) \ b.seen) \in Nat
         /\ Cardinality(Places(g) \ b.seen) <= Len(g.edges)
<1>1. Len(g.edges) \in Nat
  BY EdgesOfGraph
<1>2. Unvisited(g, b) \in SUBSET (1..Len(g.edges))
  BY DEF Unvisited, Places
<1>3. Places(g) \ b.seen \in SUBSET (1..Len(g.edges))
  BY DEF Places
<1>4. Cardinality(Unvisited(g, b)) \in Nat /\ Cardinality(Unvisited(g, b)) <= Len(g.edges)
  BY <1>1, <1>2, PlacesAreFew
<1>5. /\ Cardinality(Places(g) \ b.seen) \in Nat
      /\ Cardinality(Places(g) \ b.seen) <= Len(g.edges)
  BY <1>1, <1>3, PlacesAreFew
<1>6. b.queue \in Seq(Waiting(g))
  BY DEF ClimbInv, Climbing
<1>7. Len(b.queue) \in Nat
  BY <1>6, SeqSet
<1>8. QED
  BY <1>4, <1>5, <1>7 DEF ToClimb

LEMMA LessInAll ==
  \A x, y, z, u, v, w \in Nat :
    \/ u + 1 <= x /\ v = y + 1 /\ w + 1 <= z
    \/ u = x /\ ((w = z /\ v = y - 1) \/ (w + 1 <= z /\ v = y))
    => (u + v + w) + 1 <= x + y + z
  OBVIOUS

LEMMA LessToClimb ==
  ASSUME NEW g, IsGraph(g), NEW t, NEW b, ClimbInv(g, t, b), NEW c, ClimbInv(g, t, c),
         \/ /\ Cardinality(Unvisited(g, c)) + 1 <= Cardinality(Unvisited(g, b))
            /\ Len(c.queue) = Len(b.queue) + 1
            /\ Cardinality(Places(g) \ c.seen) + 1 <= Cardinality(Places(g) \ b.seen)
         \/ /\ c.visited = b.visited
            /\ \/ c.seen = b.seen /\ Len(c.queue) = Len(b.queue) - 1
               \/ /\ Cardinality(Places(g) \ c.seen) + 1 <= Cardinality(Places(g) \ b.seen)
                  /\ c.queue = b.queue
  PROVE  ToClimb(g, c) + 1 <= ToClimb(g, b)
<1>1. PICK x \in Nat, y \in Nat, z \in Nat :
        /\ x = Cardinality(Unvisited(g, b)) /\ y = Len(b.queue)
        /\ z = Cardinality(Places(g) \ b.seen)
  BY ToClimbIsNat
<1>2. PICK u \in Nat, v \in Nat, w \in Nat :
        /\ u = Cardinality(Unvisited(g, c)) /\ v = Len(c.queue)
        /\ w = Cardinality(Places(g) \ c.seen)
  BY ToClimbIsNat
<1>3. ToClimb(g, b) = x + y + z /\ ToClimb(g, c) = u + v + w
  BY <1>1, <1>2, Zenon DEF ToClimb
<1>4. c.visited = b.visited => u = x
  BY <1>1, <1>2, Zenon DEF Unvisited
<1>5. (c.seen = b.seen => w = z) /\ (c.queue = b.queue => v = y)
  BY <1>1, <1>2, Zenon
<1>6. \/ u + 1 <= x /\ v = y + 1 /\ w + 1 <= z
      \/ u = x /\ ((w = z /\ v = y - 1) \/ (w + 1 <= z /\ v = y))
  <2>1. Cardinality(Unvisited(g, c)) + 1 <= Cardinality(Unvisited(g, b)) => u + 1 <= x
    BY <1>1, <1>2, Zenon
  <2>2. Cardinality(Places(g) \ c.seen) + 1 <= Cardinality(Places(g) \ b.seen) => w + 1 <= z
    BY <1>1, <1>2, Zenon
  <2>3. /\ Len(c.queue) = Len(b.queue) + 1 => v = y + 1
        /\ Len(c.queue) = Len(b.queue) - 1 => v = y - 1
    BY <1>1, <1>2, Zenon
  <2>4. QED
    BY <1>4, <1>5, <2>1, <2>2, <2>3, Zenon
<1>7. (u + v + w) + 1 <= x + y + z
  BY <1>6, LessInAll, Zenon
<1>8. QED
  BY <1>3, <1>7, Zenon

LEMMA ClimbStep ==
  ASSUME NEW g, IsGraph(g), NEW t \in Nodes(g), NEW b, ClimbInv(g, t, b)
  PROVE  /\ ClimbInv(g, t, Climb(g.edges, b))
         /\ IF ClimbDone(g, b) THEN Climb(g.edges, b) = b
            ELSE ToClimb(g, Climb(g.edges, b)) + 1 <= ToClimb(g, b)
<1> DEFINE turns == Callers(g.edges, b.current.node, b.seen)
<1>1. CASE ClimbDone(g, b)
  BY <1>1, Zenon DEF Climb, ClimbDone
<1>2. CASE b.queue # << >> /\ turns = {}
  <2> DEFINE c == Shift(b)
             q == b.queue
  <2>1. Climb(g.edges, b) = c /\ ~ClimbDone(g, b)
    BY <1>2, Zenon DEF Climb, ClimbDone
  <2>2. ClimbInv(g, t, c) /\ c.queue = Tail(q) /\ c.visited = b.visited /\ c.seen = b.seen
    BY <1>2, ShiftInv
  <2>3. q \in Seq(Waiting(g)) /\ q # << >>
    BY <1>2 DEF ClimbInv, Climbing
  <2> HIDE DEF c, q
  <2>4. Len(c.queue) = Len(q) - 1
    BY <2>2, <2>3, HeadSet
  <2>5. ToClimb(g, c) + 1 <= ToClimb(g, b)
    BY <2>2, <2>4, LessToClimb DEF q
  <2>6. QED
    BY <2>1, <2>2, <2>5
<1>3. CASE turns # {}
  <2> DEFINE i == Min(turns)
             n == g.edges[i].from
             now == [b EXCEPT !.seen = @ \cup {i}]
             c == Reach(now, n)
             w == [node |-> n, depth |-> b.current.depth + 1]
  <2>1. Climb(g.edges, b) = c /\ ~ClimbDone(g, b)
    BY <1>3, Zenon DEF Climb, ClimbDone
  <2>2. turns \in SUBSET Nat /\ turns \subseteq Places(g) \ b.seen
    BY EdgesOfGraph DEF Callers, Places
  <2>3. i \in turns
    BY <1>3, <2>2, MinIsMember
  <2>4. i \in Places(g) \ b.seen /\ g.edges[i].to = b.current.node
    BY <2>2, <2>3 DEF Callers
  <2> HIDE DEF i, turns, c
  <2>5. Cardinality(Places(g) \ (b.seen \cup {i})) + 1 <= Cardinality(Places(g) \ b.seen)
    BY <2>4, OnePlaceLess
  <2>6. b \in Climbing(g)
    BY DEF ClimbInv
  <2>7. now = [queue |-> b.queue, current |-> b.current, visited |-> b.visited,
               depth |-> b.depth, seen |-> b.seen \cup {i}]
    <3> DEFINE more == b.seen \cup {i}
    <3> HIDE DEF more
    <3>1. now = [b EXCEPT !.seen = more]
      BY DEF more
    <3> HIDE DEF now
    <3>2. now = [queue |-> b.queue, current |-> b.current, visited |-> b.visited,
                 depth |-> b.depth, seen |-> more]
      BY <2>6, <3>1 DEF Climbing
    <3>3. QED
      BY <3>2 DEF more
  <2> HIDE DEF now, n, w
  <2>8. CASE n \in b.visited
    <3>1. c = now
      BY <2>7, <2>8 DEF Reach, c
    <3>2. ClimbInv(g, t, c)
      BY <2>4, <2>7, <2>8, <3>1, ReachKnownInv DEF n
    <3>3. c.queue = b.queue /\ c.visited = b.visited /\ c.seen = b.seen \cup {i}
      BY <2>7, <3>1
    <3>4. ToClimb(g, c) + 1 <= ToClimb(g, b)
      BY <2>5, <3>2, <3>3, LessToClimb
    <3>5. QED
      BY <2>1, <3>2, <3>4
  <2>9. CASE n \notin b.visited
    <3>1. c = [queue |-> Append(b.queue, w), current |-> b.current,
               visited |-> b.visited \cup {n}, depth |-> b.depth, seen |-> b.seen \cup {i}]
      BY <2>7, <2>9 DEF Reach, c, w
    <3>2. ClimbInv(g, t, c)
      BY <2>4, <2>9, <3>1, ReachNewInv DEF n, w
    <3>3. c.queue = Append(b.queue, w) /\ c.visited = b.visited \cup {n}
          /\ c.seen = b.seen \cup {i}
      BY <3>1
    <3>4. b.queue \in Seq(Waiting(g)) /\ w \in Waiting(g)
      <4>1. n \in Nodes(g)
        BY <2>4, EdgesOfGraph DEF Places, Nodes, n
      <4>2. b.current.depth \in Nat
        BY <2>6 DEF Climbing, Waiting
      <4>3. QED
        BY <2>6, <4>1, <4>2 DEF Climbing, Waiting, w
    <3> HIDE DEF c
    <3>5. Len(c.queue) = Len(b.queue) + 1
      BY <3>3, <3>4, AppendProperties
    <3>6. Cardinality(Unvisited(g, c)) + 1 <= Cardinality(Unvisited(g, b))
      <4>1. /\ Len(g.edges) \in Nat /\ Unvisited(g, b) \in SUBSET (1..Len(g.edges))
            /\ Unvisited(g, c) \in SUBSET Unvisited(g, b)
        BY <3>3, EdgesOfGraph DEF Unvisited, Places
      <4>2. i \in Unvisited(g, b) /\ i \notin Unvisited(g, c)
        BY <2>4, <2>9, <3>3 DEF Unvisited, n
      <4>3. QED
        BY <4>1, <4>2, OneLess
    <3>7. ToClimb(g, c) + 1 <= ToClimb(g, b)
      BY <2>5, <3>2, <3>3, <3>5, <3>6, LessToClimb
    <3>8. QED
      BY <2>1, <3>2, <3>7
  <2>10. QED
    BY <2>8, <2>9
<1>4. QED
  BY <1>1, <1>2, <1>3 DEF ClimbDone

LEMMA ClimbEnds ==
  ASSUME NEW g, IsGraph(g), NEW t \in Nodes(g)
  PROVE  ClimbInv(g, t, Upstream(t, g.edges)) /\ ClimbDone(g, Upstream(t, g.edges))
<1> DEFINE last == ClimbRounds(g.edges)
           r == ClimbRun(t, g.edges)
           P == {n \in Nat : /\ ClimbInv(g, t, r[n])
                             /\ ClimbDone(g, r[n]) \/ ToClimb(g, r[n]) + n <= last}
<1>1. PICK u \in Nat : u = Len(g.edges)
  BY EdgesOfGraph
<1>2. last \in Nat /\ last = u + u
  <2>1. \A x \in Nat : 2 * x \in Nat /\ 2 * x = x + x
    OBVIOUS
  <2>2. QED
    BY <1>1, <2>1, Zenon DEF ClimbRounds
<1>3. /\ Upstream(t, g.edges) = r[last] /\ r[0] = Target(t)
      /\ \A n \in 1..last : r[n] = Climb(g.edges, r[n - 1])
  BY <1>2, ClimbRunRounds, Zenon
<1>4. 0 \in P
  <2> DEFINE b == Target(t)
  <2>1. ClimbInv(g, t, b) /\ Len(b.queue) = 0
    BY TargetInv DEF Target
  <2> HIDE DEF b
  <2>2. ToClimb(g, b) + 0 <= last
    <3>1. PICK x \in Nat, y \in Nat :
            /\ x = Cardinality(Unvisited(g, b)) /\ y = Cardinality(Places(g) \ b.seen)
            /\ x <= Len(g.edges) /\ y <= Len(g.edges)
      BY <2>1, ToClimbIsNat
    <3>2. ToClimb(g, b) = x + 0 + y /\ x <= u /\ y <= u
      BY <1>1, <2>1, <3>1, Zenon DEF ToClimb
    <3>3. (x + 0 + y) + 0 <= u + u
      BY <3>2
    <3>4. QED
      BY <1>2, <3>2, <3>3, Zenon
  <2>3. 0 \in Nat
    OBVIOUS
  <2>4. QED
    BY <1>3, <2>1, <2>2, <2>3, Zenon DEF b
<1> HIDE DEF last, r
<1>5. ASSUME NEW n \in 1..last, n - 1 \in P PROVE n \in P
  <2>1. n \in Nat /\ (n - 1) \in Nat /\ r[n] = Climb(g.edges, r[n - 1])
    BY <1>2, <1>3
  <2>2. /\ ClimbInv(g, t, r[n])
        /\ IF ClimbDone(g, r[n - 1]) THEN r[n] = r[n - 1]
           ELSE ToClimb(g, r[n]) + 1 <= ToClimb(g, r[n - 1])
    BY <1>5, <2>1, ClimbStep
  <2>3. CASE ClimbDone(g, r[n - 1])
    BY <2>1, <2>2, <2>3
  <2>4. CASE ~ClimbDone(g, r[n - 1])
    <3>1. ToClimb(g, r[n - 1]) + (n - 1) <= last /\ ClimbInv(g, t, r[n - 1])
      BY <1>5, <2>4
    <3>2. ToClimb(g, r[n]) \in Nat /\ ToClimb(g, r[n - 1]) \in Nat
      BY <2>2, <3>1, ToClimbIsNat
    <3>3. ToClimb(g, r[n]) + n <= last
      BY <1>2, <2>1, <2>2, <2>4, <3>1, <3>2
    <3>4. QED
      BY <2>1, <2>2, <3>3
  <2>5. QED
    BY <2>3, <2>4
<1>6. \A n \in 0..last : n \in P
  <2> HIDE DEF P
  <2>1. QED
    BY <1>2, <1>4, <1>5, RoundInduction
<1>7. ClimbInv(g, t, r[last]) /\ (ClimbDone(g, r[last]) \/ ToClimb(g, r[last]) + last <= last)
  BY <1>2, <1>6
<1> DEFINE b == r[last]
<1> HIDE DEF b
<1>8. ClimbDone(g, b)
  <2> SUFFICES ASSUME ToClimb(g, b) + last <= last PROVE ClimbDone(g, b)
    BY <1>7 DEF b
  <2>1. ClimbInv(g, t, b)
    BY <1>7 DEF b
  <2>2. PICK x \in Nat, y \in Nat, z \in Nat :
          /\ x = Cardinality(Unvisited(g, b)) /\ y = Len(b.queue)
          /\ z = Cardinality(Places(g) \ b.seen)
    BY <2>1, ToClimbIsNat
  <2>3. (x + y + z) + last <= last
    BY <2>2, Zenon DEF ToClimb
  <2>4. y = 0 /\ z = 0
    BY <1>2, <2>3
  <2>5. b.queue = << >>
    <3> DEFINE q == b.queue
    <3>1. q \in Seq(Waiting(g)) /\ Len(q) = 0
      BY <2>1, <2>2, <2>4 DEF ClimbInv, Climbing
    <3> HIDE DEF q
    <3>2. q = << >>
      BY <3>1, SeqSet
    <3>3. QED
      BY <3>2 DEF q
  <2>6. Places(g) \ b.seen = {}
    <3>1. Places(g) \ b.seen \in SUBSET (1..Len(g.edges)) /\ Len(g.edges) \in Nat
      BY EdgesOfGraph DEF Places
    <3>2. QED
      BY <2>2, <2>4, <3>1, NoPlaces
  <2>7. Callers(g.edges, b.current.node, b.seen) = {}
    BY <2>6, EdgesOfGraph DEF Callers, Places
  <2>8. QED
    BY <2>5, <2>7 DEF ClimbDone
<1>9. QED
  BY <1>3, <1>7, <1>8 DEF b

\* The blast radius of a node are the others that reach it.
LEMMA RadiusIsExact ==
  ASSUME NEW g, IsGraph(g), NEW t \in Nodes(g), NEW result, result = AnalyzeBlastRadius(t, g.edges)
  PROVE  /\ result.upstream = {n \in Nodes(g) \ {t} : Reaches(g, Edges(g), n, t)}
         /\ result.isCascade = (~(result.upstream \subseteq CallersOf(g, t)))
<1> DEFINE b == Upstream(t, g.edges)
<1>1. /\ result.upstream = b.visited \ {t}
      /\ result.isCascade = (b.depth >= 2)
  <2> DEFINE deep == b.depth >= 2
  <2>1. result = [upstream |-> b.visited \ {t}, depth |-> b.depth, isCascade |-> deep]
    BY DEF AnalyzeBlastRadius
  <2> HIDE DEF b, deep
  <2>2. result.upstream = b.visited \ {t} /\ result.isCascade = deep
    BY <2>1
  <2>3. QED
    BY <2>2, Zenon DEF deep
<1>2. ClimbInv(g, t, b) /\ ClimbDone(g, b)
  BY ClimbEnds
<1> HIDE DEF b
<1>3. /\ b \in Climbing(g) /\ DepthIsSteps(g, t, b) /\ DeepIsNoCaller(g, t, b)
      /\ UpstreamIsSeen(g, b) /\ VisitedReach(g, t, b)
  BY <1>2 DEF ClimbInv
<1>4. ToSet(b.queue) = {} /\ b.visited \subseteq Nodes(g) /\ t \in b.visited
  BY <1>2, <1>3 DEF ClimbDone, ToSet, Climbing, DepthIsSteps
<1>5. ASSUME NEW i \in Places(g), g.edges[i].to \in b.visited PROVE g.edges[i].from \in b.visited
  <2>1. i \in DOMAIN g.edges
    BY EdgesOfGraph DEF Places
  <2>2. CASE g.edges[i].to = b.current.node
    BY <1>2, <1>3, <2>1, <2>2 DEF ClimbDone, Callers, UpstreamIsSeen
  <2>3. CASE g.edges[i].to # b.current.node
    BY <1>3, <1>4, <1>5, <2>3 DEF UpstreamIsSeen
  <2>4. QED
    BY <2>2, <2>3
<1>6. ASSUME NEW n \in Nodes(g), Reaches(g, Edges(g), n, t) PROVE n \in b.visited
  <2> SUFFICES ASSUME n \notin b.visited PROVE FALSE
    OBVIOUS
  <2> DEFINE S == Nodes(g) \ b.visited
  <2>1. S \in SUBSET ToSet(g.nodes)
    BY DEF Nodes
  <2>2. ASSUME NEW e \in Edges(g), e.from \in S \cup {n} PROVE e.to \in S
    <3>1. PICK i \in Places(g) : e = g.edges[i]
      BY EdgesOfGraph DEF Places
    <3>2. e.to \in Nodes(g) /\ e.from \notin b.visited
      BY <2>2, EdgesOfGraph DEF Nodes
    <3>3. QED
      BY <1>5, <3>1, <3>2
  <2> HIDE DEF S
  <2>3. t \in S
    BY <1>6, <2>1, <2>2, StaysInside
  <2>4. QED
    BY <1>4, <2>3 DEF S
<1>7. result.upstream = {n \in Nodes(g) \ {t} : Reaches(g, Edges(g), n, t)}
  BY <1>1, <1>3, <1>4, <1>6 DEF VisitedReach
<1>8. b.depth >= 2 <=> \E n \in b.visited : n # t /\ n \notin CallersOf(g, t)
  BY <1>3, <1>4, Zenon DEF DeepIsNoCaller
<1>9. (b.depth >= 2) <=> ~(result.upstream \subseteq CallersOf(g, t))
  BY <1>1, <1>8
<1>10. (b.depth >= 2) = (~(result.upstream \subseteq CallersOf(g, t)))
  <2> DEFINE few == result.upstream \subseteq CallersOf(g, t)
             deep == b.depth >= 2
  <2>1. deep <=> ~few
    BY <1>9
  <2>2. deep \in BOOLEAN /\ few \in BOOLEAN
    OBVIOUS
  <2> HIDE DEF deep, few
  <2>3. deep = (~few)
    BY <2>1, <2>2
  <2>4. QED
    BY <2>3, Zenon DEF deep, few
<1>11. QED
  BY <1>1, <1>7, <1>10, Zenon

-----------------------------------------------------------------------------
(* Every graph the builder reaches                                         *)

Graphs == [nodes : Seq(Nat), brokers : SUBSET Nat, edges : Seq(EdgesAmong(Nat))]

\* The nodes of the builder are 1, 2, ... in their order, and its edges join them.
GraphInv ==
  /\ graph \in Graphs
  /\ \A i \in 1..Len(graph.nodes) : graph.nodes[i] = i
  /\ \A i \in 1..Len(graph.edges) :
       graph.edges[i].from \in ToSet(graph.nodes) /\ graph.edges[i].to \in ToSet(graph.nodes)

LEMMA GraphInvInit == GraphInit => GraphInv
<1> SUFFICES ASSUME GraphInit PROVE GraphInv
  OBVIOUS
<1>1. graph.nodes = << >> /\ graph.edges = << >> /\ Len(<< >>) = 0
  BY DEF GraphInit, EmptyGraph
<1>2. graph \in Graphs
  BY EmptySeq DEF GraphInit, EmptyGraph, Graphs
<1>3. QED
  BY <1>1, <1>2 DEF GraphInv

LEMMA GraphInvNext == GraphInv /\ [GraphNext]_graph => GraphInv'
<1> SUFFICES ASSUME GraphInv, [GraphNext]_graph PROVE GraphInv'
  OBVIOUS
<1> DEFINE a == graph.nodes
           s == graph.edges
<1>1. /\ graph \in Graphs /\ a \in Seq(Nat) /\ s \in Seq(EdgesAmong(Nat))
      /\ \A i \in 1..Len(a) : a[i] = i
      /\ \A i \in 1..Len(s) : s[i].from \in ToSet(a) /\ s[i].to \in ToSet(a)
  BY DEF GraphInv, Graphs
<1>2. CASE BuildNode
  <2> DEFINE n == Len(a) + 1
             b == Append(a, n)
  <2>1. PICK broker \in BOOLEAN : graph' = AddNode(graph, n, broker)
    BY <1>2 DEF BuildNode
  <2>2. n \in Nat /\ b \in Seq(Nat) /\ Len(b) = n /\ b[n] = n
        /\ \A i \in 1..Len(a) : b[i] = a[i]
    BY <1>1, AppendProperties
  <2>3. graph' \in Graphs /\ graph'.nodes = b /\ graph'.edges = s
    BY <1>1, <2>1, <2>2 DEF AddNode, Graphs
  <2>4. ToSet(a) \subseteq ToSet(b)
    BY <1>1, <2>2, AppendSet
  <2> HIDE DEF a, s, b
  <2>5. \A i \in 1..n : b[i] = i
    <3>1. Len(a) \in Nat /\ \A i \in 1..n : i \in 1..Len(a) \/ i = n
      BY <1>1
    <3>2. QED
      BY <1>1, <2>2, <3>1
  <2>6. QED
    BY <1>1, <2>2, <2>3, <2>4, <2>5 DEF GraphInv
<1>3. CASE BuildEdge
  <2>1. PICK from \in ToSet(a), to \in ToSet(a), sync \in BOOLEAN :
          graph' = AddEdge(graph, [from |-> from, to |-> to, sync |-> sync])
    BY <1>3 DEF BuildEdge
  <2> DEFINE e == [from |-> from, to |-> to, sync |-> sync]
             t == Append(s, e)
  <2>2. ToSet(a) \subseteq Nat
    BY <1>1, SeqSet
  <2>3. e \in EdgesAmong(Nat) /\ e.from = from /\ e.to = to
    BY <2>2 DEF EdgesAmong
  <2> HIDE DEF e
  <2>4. t \in Seq(EdgesAmong(Nat)) /\ Len(t) = Len(s) + 1 /\ t[Len(s) + 1] = e
        /\ Len(s) \in Nat /\ \A i \in 1..Len(s) : t[i] = s[i]
    BY <1>1, <2>3, AppendProperties
  <2>5. graph' \in Graphs /\ graph'.nodes = a /\ graph'.edges = t
    BY <1>1, <2>1, <2>4 DEF AddEdge, Graphs, e
  <2> HIDE DEF a, s, t
  <2>6. \A i \in 1..Len(s) + 1 : t[i].from \in ToSet(a) /\ t[i].to \in ToSet(a)
    <3>1. \A i \in 1..Len(s) + 1 : i \in 1..Len(s) \/ i = Len(s) + 1
      BY <2>4
    <3>2. QED
      BY <1>1, <2>3, <2>4, <3>1
  <2>7. QED
    BY <1>1, <2>4, <2>5, <2>6 DEF GraphInv
<1>4. CASE UNCHANGED graph
  BY <1>4 DEF GraphInv
<1>5. QED
  BY <1>2, <1>3, <1>4 DEF GraphNext

LEMMA BuiltIsGraph == GraphInv => IsGraph(graph) /\ IdsDiffer(graph)
<1> SUFFICES ASSUME GraphInv PROVE IsGraph(graph) /\ IdsDiffer(graph)
  OBVIOUS
<1> DEFINE a == graph.nodes
           s == graph.edges
           V == ToSet(a)
<1>1. /\ a \in Seq(Nat) /\ s \in Seq(EdgesAmong(Nat))
      /\ \A i \in 1..Len(a) : a[i] = i
      /\ \A i \in 1..Len(s) : s[i].from \in V /\ s[i].to \in V
  BY DEF GraphInv, Graphs
<1> HIDE DEF a, s
<1>2. DOMAIN a = 1..Len(a) /\ \A i \in 1..Len(a) : a[i] \in V
  BY <1>1, SeqSet DEF V
<1> HIDE DEF V
<1>3. a \in Seq(V)
  BY <1>1, <1>2, SeqWithin
<1>4. \A i \in 1..Len(s) : s[i] \in EdgesAmong(V)
  <2>1. \A e \in EdgesAmong(Nat) : e.from \in V /\ e.to \in V => e \in EdgesAmong(V)
    BY DEF EdgesAmong
  <2>2. \A i \in 1..Len(s) : s[i] \in EdgesAmong(Nat)
    BY <1>1, SeqSet
  <2>3. QED
    BY <1>1, <2>1, <2>2
<1>5. s \in Seq(EdgesAmong(V))
  BY <1>1, <1>4, SeqWithin
<1>6. IsInjective(a)
  BY <1>1, <1>2 DEF IsInjective
<1>7. QED
  BY <1>3, <1>5, <1>6 DEF IsGraph, IdsDiffer, a, s, V

\* Every graph built is answered truly: the cycles that detectCycles reports are cycles,
\* it reports one exactly when there is one, the blast radius of every node is exact,
\* and topologicalSort orders every node or throws because of a cycle.
THEOREM SearchesAreTrue == GraphSpec => []SearchesAreExact
<1>1. GraphInv => SearchesAreExact
  <2> SUFFICES ASSUME GraphInv PROVE SearchesAreExact
    OBVIOUS
  <2>1. IsGraph(graph) /\ IdsDiffer(graph)
    BY BuiltIsGraph
  <2>2. CyclesAreReal
    BY <2>1, DetectedAreCycles, Zenon DEF CyclesAreReal
  <2>3. SomeCycleIsFound
    BY <2>1, CycleIsDetected, Zenon DEF SomeCycleIsFound
  <2>4. CascadeIsExact
    <3> SUFFICES ASSUME NEW target \in Nodes(graph)
                 PROVE  LET result == AnalyzeBlastRadius(target, graph.edges)
                        IN  /\ result.upstream = {n \in Nodes(graph) \ {target} :
                                                  Reaches(graph, Edges(graph), n, target)}
                            /\ result.isCascade = (~(result.upstream \subseteq CallersOf(graph, target)))
      BY DEF CascadeIsExact, Nodes, CallersOf
    <3>1. QED
      BY <2>1, RadiusIsExact, Zenon
  <2>5. SortIsTopological
    BY <2>1, OrderIsSorted DEF SortIsTopological
  <2>6. QED
    BY <2>2, <2>3, <2>4, <2>5 DEF SearchesAreExact
<1>2. QED
  BY <1>1, GraphInvInit, GraphInvNext, PTL DEF GraphSpec

-----------------------------------------------------------------------------
(* The route that validates an environment                                 *)

\* Nodes and edges are rows in their order, and the nodes a request has read are
\* some of them.
TopoRowsInv ==
  /\ nodes \in Seq(ToSet(nodes)) /\ edges \in Seq(ToSet(edges))
  /\ \A i \in 1..Len(edges) : edges[i].sync \in BOOLEAN
  /\ check.at = "edges" => check.nodes \in Seq(ToSet(nodes))

\* A sequence that is one of its elements, with one more.
LEMMA RowAdded ==
  ASSUME NEW s, s \in Seq(ToSet(s)), NEW x, NEW t, t = Append(s, x)
  PROVE  /\ t \in Seq(ToSet(t)) /\ ToSet(t) = ToSet(s) \cup {x}
         /\ Len(t) = Len(s) + 1 /\ Len(s) \in Nat /\ t[Len(s) + 1] = x
         /\ \A i \in 1..Len(s) : t[i] = s[i]
<1> DEFINE S == ToSet(s) \cup {x}
<1>1. s \in Seq(S)
  <2>1. \A i \in 1..Len(s) : s[i] \in S
    BY SeqSet
  <2>2. QED
    BY <2>1, SeqWithin
<1>2. x \in S
  OBVIOUS
<1> HIDE DEF S
<1>3. /\ t \in Seq(S) /\ Len(t) = Len(s) + 1 /\ Len(s) \in Nat /\ t[Len(s) + 1] = x
      /\ \A i \in 1..Len(s) : t[i] = s[i]
  BY <1>1, <1>2, AppendProperties
<1>4. ToSet(t) = ToSet(s) \cup {x}
  BY <1>1, <1>2, AppendSet
<1>5. QED
  BY <1>3, <1>4 DEF S

LEMMA TopoRowsInit == ASSUME TopoInit PROVE TopoRowsInv
<1>1. nodes = << >> /\ edges = << >> /\ check.at # "edges"
  BY DEF TopoInit
<1>2. Len(<< >>) = 0 /\ << >> \in Seq(ToSet(<< >>))
  BY EmptySeq
<1>3. QED
  BY <1>1, <1>2 DEF TopoRowsInv

\* What is chosen of rows are rows.
LEMMA OfRows ==
  ASSUME NEW env, NEW s, s \in Seq(ToSet(s))
  PROVE  /\ Of(env, s) \in Seq(ToSet(s))
         /\ ToSet(Of(env, s)) = {s[i] : i \in {j \in 1..Len(s) : s[j].env = env}}
<1> DEFINE places == {i \in DOMAIN s : s[i].env = env}
           S == ToSet(s)
<1>1. s \in Seq(S) /\ places \in SUBSET (1..Len(s)) /\ DOMAIN s = 1..Len(s)
  BY SeqSet
<1>2. Of(env, s) = Chosen(s, places)
  BY DEF Of
<1>3. places = {j \in 1..Len(s) : s[j].env = env}
  BY <1>1
<1> HIDE DEF places, S
<1>4. Chosen(s, places) \in Seq(S) /\ ToSet(Chosen(s, places)) = {s[i] : i \in places}
  BY <1>1, ChosenElements
<1>5. QED
  BY <1>2, <1>3, <1>4 DEF S

LEMMA TopoRowsNext == ASSUME TopoRowsInv, [TopoNext]_topoVars PROVE TopoRowsInv'
<1>1. ASSUME NEW env, NEW slug, NEW broker, PostNode(env, slug, broker) PROVE TopoRowsInv'
  <2> DEFINE row == [id |-> <<env, slug>>, env |-> env, broker |-> broker]
             s == nodes
             t == nodes'
  <2>1. t = Append(s, row) /\ edges' = edges /\ check' = check
    BY <1>1 DEF PostNode
  <2>2. s \in Seq(ToSet(s))
    BY DEF TopoRowsInv
  <2> HIDE DEF row, s, t
  <2>3. t \in Seq(ToSet(t)) /\ ToSet(t) = ToSet(s) \cup {row}
    BY <2>1, <2>2, RowAdded
  <2>4. ASSUME check.at = "edges" PROVE check.nodes \in Seq(ToSet(t))
    <3> DEFINE r == check.nodes
    <3>1. r \in Seq(ToSet(s))
      BY <2>4 DEF TopoRowsInv, s
    <3> HIDE DEF r
    <3>2. \A i \in 1..Len(r) : r[i] \in ToSet(t)
      BY <2>3, <3>1, SeqSet
    <3>3. r \in Seq(ToSet(t))
      BY <3>1, <3>2, SeqWithin
    <3>4. QED
      BY <3>3 DEF r
  <2>5. QED
    BY <2>1, <2>3, <2>4 DEF TopoRowsInv, t
<1>2. ASSUME NEW env, NEW from, NEW to, NEW sync \in BOOLEAN, PostEdge(env, from, to, sync)
      PROVE  TopoRowsInv'
  <2> DEFINE row == [env |-> env, from |-> from, to |-> to, sync |-> sync]
             s == edges
             t == edges'
  <2>1. t = Append(s, row) /\ nodes' = nodes /\ check' = check /\ row.sync = sync
    BY <1>2 DEF PostEdge
  <2>2. s \in Seq(ToSet(s)) /\ \A i \in 1..Len(s) : s[i].sync \in BOOLEAN
    BY DEF TopoRowsInv
  <2> HIDE DEF row, s, t
  <2>3. /\ t \in Seq(ToSet(t)) /\ Len(t) = Len(s) + 1 /\ Len(s) \in Nat
        /\ t[Len(s) + 1] = row /\ \A i \in 1..Len(s) : t[i] = s[i]
    <3>1. t = Append(s, row) /\ s \in Seq(ToSet(s))
      BY <2>1, <2>2
    <3>2. t \in Seq(ToSet(t)) /\ Len(t) = Len(s) + 1 /\ Len(s) \in Nat
      BY <3>1, RowAdded
    <3>3. t[Len(s) + 1] = row /\ \A i \in 1..Len(s) : t[i] = s[i]
      BY <3>1, RowAdded
    <3>4. QED
      BY <3>2, <3>3
  <2>4. \A i \in 1..Len(t) : t[i].sync \in BOOLEAN
    <3>1. \A i \in 1..Len(t) : i \in 1..Len(s) \/ i = Len(s) + 1
      BY <2>3
    <3>2. QED
      BY <2>1, <2>2, <2>3, <3>1
  <2>5. QED
    BY <2>1, <2>3, <2>4 DEF TopoRowsInv, t
<1>3. ASSUME NEW env, SelectNodes(env) PROVE TopoRowsInv'
  <2>1. /\ check'.nodes = Of(env, nodes) /\ nodes' = nodes /\ edges' = edges
    BY <1>3 DEF SelectNodes, tables
  <2>2. Of(env, nodes) \in Seq(ToSet(nodes))
    BY OfRows DEF TopoRowsInv
  <2>3. QED
    BY <2>1, <2>2 DEF TopoRowsInv
<1>4. ASSUME NEW guard, SelectEdges(guard) PROVE TopoRowsInv'
  <2>1. check'.at # "edges" /\ nodes' = nodes /\ edges' = edges
    BY <1>4 DEF SelectEdges, Report, tables
  <2>2. QED
    BY <2>1 DEF TopoRowsInv
<1>5. CASE NextCheck
  <2>1. check'.at # "edges" /\ nodes' = nodes /\ edges' = edges
    BY <1>5 DEF NextCheck, tables
  <2>2. QED
    BY <2>1 DEF TopoRowsInv
<1>6. CASE UNCHANGED <<nodes, edges, check>>
  BY <1>6 DEF TopoRowsInv
<1>7. QED
  BY <1>1, <1>2, <1>3, <1>4, <1>5, <1>6
  DEF TopoNext, PostProject, PostEnvironment, SelectNode, InsertOperation, InsertCall, Answer,
      PostFails, Set, topoVars, tables

LEMMA TopoRowsInvariant == TopoSpec => []TopoRowsInv
  BY TopoRowsInit, TopoRowsNext, PTL DEF TopoSpec

\* Nodes that no edge joins make no cycle.
LEMMA SameCycles ==
  ASSUME NEW g, NEW h, NEW arcs, Nodes(g) \subseteq Nodes(h),
         \A e \in arcs : e.from \in Nodes(g) /\ e.to \in Nodes(g)
  PROVE  Cyclic(g, arcs) <=> Cyclic(h, arcs)
<1> DEFINE V == Nodes(g)
           W == Nodes(h)
<1>1. ASSUME NEW n \in V, Reaches(g, arcs, n, n) PROVE Reaches(h, arcs, n, n)
  <2> SUFFICES ASSUME NEW S \in SUBSET W, \A e \in arcs : e.from \in S \cup {n} => e.to \in S
               PROVE  n \in S
    BY DEF Reaches, Nodes
  <2> DEFINE T == S \cap V
  <2>1. T \in SUBSET ToSet(g.nodes)
    BY DEF Nodes
  <2>2. \A e \in arcs : e.from \in T \cup {n} => e.to \in T
    OBVIOUS
  <2> HIDE DEF T
  <2>3. n \in T
    BY <1>1, <2>1, <2>2, StaysInside
  <2>4. QED
    BY <2>3 DEF T
<1>2. ASSUME NEW n \in W, Reaches(h, arcs, n, n) PROVE n \in V /\ Reaches(g, arcs, n, n)
  <2>1. V \in SUBSET ToSet(h.nodes)
    BY DEF Nodes
  <2>2. n \in V
    BY <1>2, <2>1, StaysInside
  <2>3. ASSUME NEW S \in SUBSET ToSet(g.nodes),
               \A e \in arcs : e.from \in S \cup {n} => e.to \in S
        PROVE  n \in S
    <3>1. S \in SUBSET ToSet(h.nodes)
      BY DEF Nodes
    <3>2. QED
      BY <1>2, <2>3, <3>1, StaysInside
  <2>4. QED
    BY <2>2, <2>3 DEF Reaches
<1>3. QED
  BY <1>1, <1>2 DEF Cyclic, Nodes

\* The graph of rows.
LEMMA GraphOfRows ==
  ASSUME NEW ns, NEW S, ns \in Seq(S), NEW es, NEW T, es \in Seq(T),
         \A i \in 1..Len(es) : es[i].sync \in BOOLEAN, NEW g, g = GraphOf(ns, es)
  PROVE  /\ Nodes(g) = Ids(ns)
         /\ Edges(g) = {[from |-> es[i].from, to |-> es[i].to, sync |-> es[i].sync] : i \in 1..Len(es)}
         /\ Buildable(ns, es) <=> \A e \in Edges(g) : {e.from, e.to} \subseteq Ids(ns)
         /\ Buildable(ns, es) => IsGraph(g)
<1> DEFINE a == [i \in DOMAIN ns |-> ns[i].id]
           row(i) == [from |-> es[i].from, to |-> es[i].to, sync |-> es[i].sync]
           b == [i \in DOMAIN es |-> row(i)]
<1>1. g.nodes = a /\ g.edges = b
  BY DEF GraphOf
<1>2. DOMAIN ns = 1..Len(ns) /\ Len(ns) \in Nat /\ DOMAIN es = 1..Len(es) /\ Len(es) \in Nat
  BY SeqSet
<1>3. Nodes(g) = Ids(ns)
  BY <1>1 DEF Nodes, ToSet, Ids
<1>4. Edges(g) = {row(i) : i \in 1..Len(es)}
  <2>1. DOMAIN b = 1..Len(es) /\ \A i \in 1..Len(es) : b[i] = row(i)
    BY <1>2
  <2> HIDE DEF row, b
  <2>2. ToSet(b) = {row(i) : i \in 1..Len(es)}
    BY <2>1 DEF ToSet
  <2>3. QED
    BY <1>1, <2>2 DEF Edges
<1>5. Buildable(ns, es) <=> \A i \in 1..Len(es) : {es[i].from, es[i].to} \subseteq Ids(ns)
  <2>1. ToSet(g.nodes) = Ids(ns)
    BY <1>3 DEF Nodes
  <2>2. QED
    BY <1>2, <2>1, Zenon DEF Buildable, Fits
<1>6. \A i \in 1..Len(es) : row(i).from = es[i].from /\ row(i).to = es[i].to /\ row(i).sync = es[i].sync
  OBVIOUS
<1>7. ASSUME Buildable(ns, es) PROVE IsGraph(g)
  <2> DEFINE V == ToSet(g.nodes)
  <2>1. V = Ids(ns)
    BY <1>3 DEF Nodes
  <2>2. a \in [1..Len(ns) -> V]
    BY <1>2, <2>1 DEF Ids
  <2>3. \A i \in 1..Len(es) : row(i) \in EdgesAmong(V)
    BY <1>5, <1>7, <2>1 DEF EdgesAmong
  <2>4. b \in [1..Len(es) -> EdgesAmong(V)]
    BY <1>2, <2>3
  <2> HIDE DEF a, b, V
  <2>5. a \in Seq(V) /\ b \in Seq(EdgesAmong(V))
    BY <1>2, <2>2, <2>4, SeqDef
  <2>6. QED
    BY <1>1, <2>5 DEF IsGraph, V
<1> HIDE DEF row
<1>8. (\A e \in Edges(g) : {e.from, e.to} \subseteq Ids(ns))
        <=> \A i \in 1..Len(es) : {es[i].from, es[i].to} \subseteq Ids(ns)
  BY <1>4, <1>6
<1>9. QED
  BY <1>3, <1>4, <1>5, <1>7, <1>8 DEF row

\* A report that detectCycles answers without a cycle says so.
LEMMA ReportedCycles ==
  ASSUME NEW g, IsGraph(g), NEW guard
  PROVE  (ValidateTopology(g, guard).cycles = {}) = ~Cyclic(g, Edges(g))
<1> DEFINE cycles == DetectCycles(g)
           reported == {[path |-> cycles[i].path, classification |-> ClassifyCycle(g, cycles[i])]
                        : i \in DOMAIN cycles}
<1>1. ValidateTopology(g, guard).cycles = reported
  BY DEF ValidateTopology
<1>2. cycles \in Seq(CyclesOver(Nodes(g)))
  BY DetectedAreCycles
<1>3. (cycles # << >>) = Cyclic(g, Edges(g))
  BY CycleIsDetected
<1> HIDE DEF cycles
<1>4. reported = {} <=> cycles = << >>
  <2>1. DOMAIN cycles = 1..Len(cycles) /\ Len(cycles) \in Nat
        /\ (cycles = << >> <=> Len(cycles) = 0)
    BY <1>2, SeqSet
  <2>2. DOMAIN cycles = {} <=> cycles = << >>
    BY <2>1
  <2>3. reported = {} <=> DOMAIN cycles = {}
    OBVIOUS
  <2>4. QED
    BY <2>2, <2>3
<1> HIDE DEF reported
<1>5. QED
  BY <1>1, <1>3, <1>4

\* Whatever is posted between its two reads, a report tells of the topology of its end.
THEOREM ReportsAreCurrent == TopoSpec => ReportIsCurrent
<1> DEFINE now == GraphOf(nodes, Of(check.env, edges))
<1>1. ASSUME TopoRowsInv, [TopoNext]_topoVars, check.at = "edges", check' # check
      PROVE  IF check'.at = "answered"
             THEN (check'.report.cycles = {}) = ~Cyclic(now, Edges(now))
             ELSE \E e \in Edges(now) : ~({e.from, e.to} \subseteq Ids(check.nodes))
  <2>1. PICK guard \in BOOLEAN : SelectEdges(guard)
    BY <1>1 DEF TopoNext, topoVars, tables, PostProject, PostEnvironment, PostNode, PostEdge,
      SelectNodes, NextCheck, SelectNode, InsertOperation, InsertCall, Answer, PostFails, Set
  <2> DEFINE ns == check.nodes
             es == Of(check.env, edges)
             g == GraphOf(ns, es)
             all == nodes
  <2>2. check' = Report(ns, es, guard)
    BY <2>1 DEF SelectEdges
  <2>3. /\ all \in Seq(ToSet(all)) /\ ns \in Seq(ToSet(all)) /\ edges \in Seq(ToSet(edges))
        /\ \A i \in 1..Len(edges) : edges[i].sync \in BOOLEAN
    BY <1>1 DEF TopoRowsInv
  <2>4. es \in Seq(ToSet(edges)) /\ \A i \in 1..Len(es) : es[i].sync \in BOOLEAN
    <3>1. /\ es \in Seq(ToSet(edges))
          /\ ToSet(es) = {edges[i] : i \in {j \in 1..Len(edges) : edges[j].env = check.env}}
      BY <2>3, OfRows
    <3> HIDE DEF es
    <3>2. \A i \in 1..Len(es) : es[i] \in ToSet(es)
      BY <3>1, SeqSet
    <3>3. QED
      BY <2>3, <3>1, <3>2
  <2>5. now = GraphOf(all, es)
    OBVIOUS
  <2> HIDE DEF ns, es, all, now, g
  <2>6. g = GraphOf(ns, es)
    BY DEF g
  <2>7. /\ Nodes(g) = Ids(ns) /\ (Buildable(ns, es) => IsGraph(g))
        /\ Edges(g) = {[from |-> es[i].from, to |-> es[i].to, sync |-> es[i].sync] : i \in 1..Len(es)}
        /\ Buildable(ns, es) <=> \A e \in Edges(g) : {e.from, e.to} \subseteq Ids(ns)
    BY <2>3, <2>4, <2>6, GraphOfRows
  <2>8. /\ Nodes(now) = Ids(all)
        /\ Edges(now) = {[from |-> es[i].from, to |-> es[i].to, sync |-> es[i].sync] : i \in 1..Len(es)}
    BY <2>3, <2>4, <2>5, GraphOfRows
  <2>9. Edges(now) = Edges(g)
    BY <2>7, <2>8, Zenon
  <2>10. Nodes(g) \subseteq Nodes(now)
    <3>1. /\ DOMAIN ns = 1..Len(ns) /\ \A i \in 1..Len(ns) : ns[i] \in ToSet(all)
      BY <2>3, SeqSet
    <3>2. Ids(ns) \subseteq Ids(all)
      BY <3>1 DEF Ids, ToSet
    <3>3. QED
      BY <2>7, <2>8, <3>2
  <2>11. CASE Buildable(ns, es)
    <3> DEFINE report == ValidateTopology(g, guard)
               cycles == report.cycles
    <3>1. check' = [at |-> "answered", report |-> report]
      BY <2>2, <2>11 DEF Report, g
    <3>2. (cycles = {}) = ~Cyclic(g, Edges(g))
      BY <2>7, <2>11, ReportedCycles
    <3> HIDE DEF report
    <3>3. check'.at = "answered" /\ check'.report.cycles = cycles
      BY <3>1
    <3> HIDE DEF cycles
    <3>4. \A e \in Edges(g) : e.from \in Nodes(g) /\ e.to \in Nodes(g)
      BY <2>7, <2>11
    <3>5. Cyclic(g, Edges(g)) <=> Cyclic(now, Edges(now))
      <4>1. Cyclic(g, Edges(g)) <=> Cyclic(now, Edges(g))
        BY <2>10, <3>4, SameCycles
      <4>2. QED
        BY <2>9, <4>1, Zenon
    <3>6. Cyclic(g, Edges(g)) \in BOOLEAN /\ Cyclic(now, Edges(now)) \in BOOLEAN
      BY DEF Cyclic
    <3>7. QED
      BY <3>2, <3>3, <3>5, <3>6
  <2>12. CASE ~Buildable(ns, es)
    <3>1. check'.at = "failed"
      BY <2>2, <2>12 DEF Report
    <3>2. \E e \in Edges(now) : ~({e.from, e.to} \subseteq Ids(ns))
      BY <2>7, <2>9, <2>12
    <3>3. QED
      BY <3>1, <3>2 DEF ns
  <2>13. QED
    BY <2>11, <2>12
<1>2. TopoRowsInv /\ [TopoNext]_topoVars =>
        [check.at = "edges" /\ check' # check =>
           IF check'.at = "answered"
           THEN (check'.report.cycles = {}) = ~Cyclic(now, Edges(now))
           ELSE \E e \in Edges(now) : ~({e.from, e.to} \subseteq Ids(check.nodes))]_topoVars
  BY <1>1
<1>3. QED
  BY <1>2, TopoRowsInvariant, PTL DEF TopoSpec, ReportIsCurrent

-----------------------------------------------------------------------------
(* The operations of a node: the invariant                                 *)

Posting == {c \in Requester : post[c].at \in {"calls", "created"}}

\* A request has stored its operation and the calls before the next one.
UnderWay(c) == post[c].at = "calls" =>
  /\ post[c] = [at |-> "calls", node |-> post[c].node, next |-> post[c].next]
  /\ post[c].node \in operations
  /\ post[c].next \in 1 .. Len(Calls) + 1
  /\ \A i \in 1 .. post[c].next - 1 : <<post[c].node, i>> \in dependencies

Created(c) == post[c].at = "created" =>
  /\ post[c].node \in operations
  /\ post[c].calls = DOMAIN Calls
  /\ \A i \in DOMAIN Calls : <<post[c].node, i>> \in dependencies

\* An operation belongs to one request, and what is stored of it are its calls.
OperationInv ==
  /\ post = [c \in Requester |-> post[c]]
  /\ \A c \in Requester : UnderWay(c) /\ Created(c)
  /\ \A c, d \in Posting : post[c].node = post[d].node => c = d
  /\ \A d \in dependencies : d[2] \in DOMAIN Calls

-----------------------------------------------------------------------------
(* The operations of a node: the steps                                     *)

LEMMA CallsAreNumbered == Len(Calls) \in Nat /\ DOMAIN Calls = 1 .. Len(Calls)
BY CallsAssumption

\* A step of one request that neither takes an operation nor a call away leaves the
\* others as they were.
LEMMA OthersKeep ==
  ASSUME OperationInv, NEW c \in Requester, NEW state, Set(c, state),
         operations \subseteq operations', dependencies \subseteq dependencies',
         \A d \in dependencies' : d[2] \in DOMAIN Calls,
         UnderWay(c)', Created(c)',
         state.at \in {"calls", "created"} =>
           \A d \in Posting \ {c} : post[d].node # state.node
  PROVE  OperationInv'
<1>1. post' = [post EXCEPT ![c] = state] /\ post = [d \in Requester |-> post[d]]
  BY DEF Set, OperationInv
<1>2. post' = [d \in Requester |-> post'[d]] /\ post'[c] = state
      /\ \A d \in Requester \ {c} : post'[d] = post[d]
  BY <1>1
<1>3. ASSUME NEW d \in Requester \ {c} PROVE UnderWay(d)' /\ Created(d)'
  BY <1>2, <1>3 DEF OperationInv, UnderWay, Created
<1>4. ASSUME NEW d \in Posting', NEW e \in Posting', post'[d].node = post'[e].node
      PROVE  d = e
  BY <1>2, <1>4 DEF OperationInv, Posting
<1>5. QED
  BY <1>2, <1>3, <1>4 DEF OperationInv

LEMMA SelectNodeStep ==
  ASSUME OperationInv, NEW c \in Requester, NEW n, SelectNode(c, n)
  PROVE  OperationInv'
<1>1. /\ Set(c, [at |-> "insert", node |-> n])
      /\ operations' = operations /\ dependencies' = dependencies
  BY DEF SelectNode
<1>2. post'[c] = [at |-> "insert", node |-> n]
  BY <1>1 DEF Set, OperationInv
<1>3. UnderWay(c)' /\ Created(c)'
  BY <1>2 DEF UnderWay, Created
<1>4. QED
  BY <1>1, <1>3, OthersKeep DEF OperationInv

LEMMA InsertOperationStep ==
  ASSUME OperationInv, NEW c \in Requester, InsertOperation(c)
  PROVE  OperationInv'
<1> DEFINE n == post[c].node
           state == [at |-> "calls", node |-> n, next |-> 1]
<1>1. /\ Set(c, state) /\ n \notin operations
      /\ operations' = operations \cup {n} /\ dependencies' = dependencies
  BY DEF InsertOperation
<1>2. post'[c] = state
  BY <1>1 DEF Set, OperationInv
<1>3. UnderWay(c)' /\ Created(c)'
  BY <1>1, <1>2, CallsAreNumbered DEF UnderWay, Created
<1>4. \A d \in Posting \ {c} : post[d].node # state.node
  BY <1>1 DEF OperationInv, Posting, UnderWay, Created
<1> HIDE DEF state
<1>5. QED
  BY <1>1, <1>3, <1>4, OthersKeep DEF OperationInv

LEMMA InsertCallStep ==
  ASSUME OperationInv, NEW c \in Requester, InsertCall(c)
  PROVE  OperationInv'
<1> DEFINE n == post[c].node
           k == post[c].next
<1>1. /\ post[c].at = "calls" /\ k <= Len(Calls) /\ Set(c, Advanced(c))
      /\ operations' = operations /\ dependencies' = dependencies \cup {<<n, k>>}
  BY DEF InsertCall
<1>2. /\ post[c] = [at |-> "calls", node |-> n, next |-> k] /\ n \in operations
      /\ k \in 1 .. Len(Calls) + 1 /\ \A i \in 1 .. k - 1 : <<n, i>> \in dependencies
  BY <1>1 DEF OperationInv, UnderWay
<1>3. k \in DOMAIN Calls
  BY <1>1, <1>2, CallsAreNumbered
<1> HIDE DEF n, k
<1>4. Advanced(c) = [at |-> "calls", node |-> n, next |-> k + 1]
  BY <1>2 DEF Advanced, k
<1>5. post'[c] = [at |-> "calls", node |-> n, next |-> k + 1]
  BY <1>1, <1>4 DEF Set, OperationInv
<1>6. UnderWay(c)' /\ Created(c)'
  <2>1. k + 1 \in 1 .. Len(Calls) + 1
    BY <1>3, CallsAreNumbered
  <2>2. \A i \in 1 .. (k + 1) - 1 : <<n, i>> \in dependencies'
    BY <1>1, <1>2, <1>3, CallsAreNumbered
  <2>3. QED
    BY <1>1, <1>2, <1>5, <2>1, <2>2 DEF UnderWay, Created
<1>7. \A d \in Posting \ {c} : post[d].node # n
  BY <1>1, <1>2 DEF OperationInv, Posting, n
<1>8. \A d \in dependencies' : d[2] \in DOMAIN Calls
  BY <1>1, <1>3 DEF OperationInv
<1>9. QED
  BY <1>1, <1>4, <1>6, <1>7, <1>8, OthersKeep

LEMMA AnswerStep ==
  ASSUME OperationInv, NEW c \in Requester, Answer(c)
  PROVE  OperationInv'
<1> DEFINE n == post[c].node
           calls == {d[2] : d \in {d \in dependencies : d[1] = n}}
           state == [at |-> "created", node |-> n, calls |-> calls]
<1>1. /\ post[c].at = "calls" /\ post[c].next > Len(Calls) /\ Set(c, state)
      /\ operations' = operations /\ dependencies' = dependencies
  BY DEF Answer
<1>2. /\ n \in operations /\ post[c].next \in 1 .. Len(Calls) + 1
      /\ \A i \in 1 .. post[c].next - 1 : <<n, i>> \in dependencies
  BY <1>1 DEF OperationInv, UnderWay
<1>3. \A i \in DOMAIN Calls : <<n, i>> \in dependencies
  BY <1>1, <1>2, CallsAreNumbered
<1>4. calls = DOMAIN Calls
  <2>1. calls \subseteq DOMAIN Calls
    BY DEF OperationInv
  <2>2. ASSUME NEW i \in DOMAIN Calls PROVE i \in calls
    <3>1. <<n, i>> \in {d \in dependencies : d[1] = n} /\ <<n, i>>[2] = i
      BY <1>3
    <3>2. QED
      BY <3>1
  <2>3. QED
    BY <2>1, <2>2
<1>5. post'[c] = state
  BY <1>1 DEF Set, OperationInv
<1>6. UnderWay(c)' /\ Created(c)'
  BY <1>1, <1>2, <1>3, <1>4, <1>5 DEF UnderWay, Created
<1>7. \A d \in Posting \ {c} : post[d].node # state.node
  BY <1>1 DEF OperationInv, Posting
<1> HIDE DEF state
<1>8. QED
  BY <1>1, <1>6, <1>7, OthersKeep DEF OperationInv

LEMMA PostFailsStep ==
  ASSUME OperationInv, NEW c \in Requester, PostFails(c)
  PROVE  OperationInv'
<1> DEFINE state == [at |-> "failed", node |-> post[c].node]
<1>1. Set(c, state) /\ operations' = operations /\ dependencies' = dependencies
  BY DEF PostFails
<1>2. post'[c] = state
  BY <1>1 DEF Set, OperationInv
<1>3. UnderWay(c)' /\ Created(c)'
  BY <1>2 DEF UnderWay, Created
<1>4. state.at \notin {"calls", "created"}
  OBVIOUS
<1> HIDE DEF state
<1>5. QED
  BY <1>1, <1>3, <1>4, OthersKeep DEF OperationInv

LEMMA UnrelatedStep ==
  ASSUME OperationInv, UNCHANGED <<operations, dependencies, post>>
  PROVE  OperationInv'
BY DEF OperationInv, UnderWay, Created, Posting

LEMMA OperationInvariant == TopoSpec => []OperationInv
<1>1. TopoInit => OperationInv
  BY DEF TopoInit, OperationInv, UnderWay, Created, Posting
<1>2. OperationInv /\ [TopoNext]_topoVars => OperationInv'
  <2> SUFFICES ASSUME OperationInv, [TopoNext]_topoVars PROVE OperationInv'
    OBVIOUS
  <2>1. CASE UNCHANGED <<operations, dependencies, post>>
    BY <2>1, UnrelatedStep
  <2>2. ASSUME NEW c \in Requester,
               \/ \E n \in Ids(nodes) : SelectNode(c, n)
               \/ InsertOperation(c) \/ InsertCall(c) \/ Answer(c) \/ PostFails(c)
        PROVE  OperationInv'
    BY <2>2, SelectNodeStep, InsertOperationStep, InsertCallStep, AnswerStep, PostFailsStep
  <2>3. UNCHANGED topoVars => UNCHANGED <<operations, dependencies, post>>
    BY DEF topoVars, tables
  <2>4. QED
    BY <2>1, <2>2, <2>3 DEF TopoNext, PostProject, PostEnvironment, PostNode, PostEdge,
                            SelectNodes, SelectEdges, NextCheck, tables
<1>3. QED
  BY <1>1, <1>2, PTL DEF TopoSpec

-----------------------------------------------------------------------------
(* The operations of a node: what an answer promises                       *)

\* An operation that POST /nodes/:nodeId/operations has answered as created has all
\* its calls in the tables and in the answer, although they are inserted one by one in
\* no transaction; and no two requests ever store calls of one operation, so that what
\* a failed request has left is never completed.
THEOREM CreatedWasWhole == TopoSpec => []CreatedIsWhole
<1>1. OperationInv => CreatedIsWhole
  <2> SUFFICES ASSUME OperationInv PROVE CreatedIsWhole
    OBVIOUS
  <2>1. ASSUME NEW n \in operations
        PROVE  Cardinality({c \in Requester : post[c].at \in {"calls", "created"}
                                           /\ post[c].node = n}) <= 1
    <3> DEFINE S == {c \in Requester : post[c].at \in {"calls", "created"} /\ post[c].node = n}
    <3>1. CASE S = {}
      <4>1. Cardinality(S) = 0
        BY <3>1, FS_EmptySet
      <4>2. QED
        BY <4>1
    <3>2. ASSUME NEW c \in S PROVE Cardinality(S) = 1
      <4>1. S = {c}
        BY <3>2 DEF OperationInv, Posting
      <4>2. QED
        BY <4>1, FS_Singleton
    <3>3. QED
      BY <3>1, <3>2
  <2>2. QED
    BY <2>1 DEF OperationInv, Created, CreatedIsWhole
<1>2. QED
  BY OperationInvariant, <1>1, PTL

=============================================================================
