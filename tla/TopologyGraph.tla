--------------------------- MODULE TopologyGraph ---------------------------
(***************************************************************************)
(* TopologyGraph and the algorithms of packages/domain (detectCycles,      *)
(* classifyCycle, validateTopology, topologicalSort) and CascadeAnalyzer   *)
(* of packages/chaos-engine, as operators on a graph, and a builder that   *)
(* reaches every small graph by addNode and addEdge.  Nodes and edges keep *)
(* the order in which they were added, for the search follows it.  Of a    *)
(* node's kind what matters is whether it is a MESSAGE_BROKER, of an       *)
(* edge's kind whether it is synchronous; the id of an edge is its place.  *)
(***************************************************************************)
EXTENDS Naturals, FiniteSets, FiniteSetsExt, SequencesExt

CONSTANTS MaxNodes, MaxEdges   \* bounds of the builder

VARIABLE graph

\* [nodes : Seq(id), brokers : SUBSET id, edges : Seq([from, to, sync])]
EmptyGraph == [nodes |-> << >>, brokers |-> {}, edges |-> << >>]

AddNode(g, n, broker) ==
  [g EXCEPT !.nodes = Append(@, n), !.brokers = @ \cup (IF broker THEN {n} ELSE {})]

\* addEdge throws unless both nodes are there.
Fits(g, e) == {e.from, e.to} \subseteq ToSet(g.nodes)
AddEdge(g, e) == [g EXCEPT !.edges = Append(@, e)]

\* The elements of s at some of its places, in their order.
Chosen(s, places) ==
  LET chosen[n \in 0..Len(s)] ==
        IF n = 0 THEN << >>
        ELSE IF n \in places THEN Append(chosen[n - 1], s[n]) ELSE chosen[n - 1]
  IN  chosen[Len(s)]

\* The edges of n that a loop over getOutgoingEdges(n) has not looked at.
Outgoing(g, n, seen) == {i \in DOMAIN g.edges \ seen : g.edges[i].from = n}

-----------------------------------------------------------------------------
(* The searches look at the edges of a node once, in their order.  Each is *)
(* a function of the number of rounds, which goes on with no effect when   *)
(* the code has left its loops.  A round is a call that begins, one turn   *)
(* of a loop over edges, or a return.                                      *)

(* detectCycles: one depth-first search, which visits a node once.  stack  *)
(* and path are its two stacks, seen the edges it has looked at.           *)

NoSearch == [stack |-> << >>, path |-> << >>, seen |-> {}, visited |-> {}, cycles |-> << >>]

\* dfs(n) is called.
Enter(d, n) == [d EXCEPT !.stack = Append(@, n), !.visited = @ \cup {n}]

CycleEdges(edges, start) == SubSeq(edges, start, Len(edges))

\* The cycle that e closes at its target on the stack.
Found(d, e) ==
  LET start == CHOOSE i \in DOMAIN d.stack : d.stack[i] = e.to
  IN  [path |-> Append(SubSeq(d.stack, start, Len(d.stack)), e.to),
       edges |-> CycleEdges(Append(d.path, e), start)]

Look(d, e) ==
  CASE e.to \in ToSet(d.stack) -> [d EXCEPT !.cycles = Append(@, Found(d, e))]
    [] e.to \notin d.visited \cup ToSet(d.stack) -> Enter([d EXCEPT !.path = Append(@, e)], e.to)
    [] OTHER -> d

\* dfs returns, and the edge that led to the call leaves its stack.
Leave(d) == [d EXCEPT !.stack = Front(@), !.path = IF @ = << >> THEN << >> ELSE Front(@)]

\* Mutant: only the first node is a root of the search.
FirstRoot(g, d) == {i \in DOMAIN g.nodes : i = 1 /\ g.nodes[i] \notin d.visited}
Roots(g, d) == {i \in DOMAIN g.nodes : g.nodes[i] \notin d.visited}

Dfs(g, d) ==
  IF d.stack = << >>
  THEN IF Roots(g, d) = {} THEN d ELSE Enter(d, g.nodes[Min(Roots(g, d))])
  ELSE LET turns == Outgoing(g, Last(d.stack), d.seen) IN
       IF turns = {} THEN Leave(d)
       ELSE Look([d EXCEPT !.seen = @ \cup {Min(turns)}], g.edges[Min(turns)])

DetectCycles(g) ==
  LET rounds == 2 * Len(g.nodes) + Len(g.edges)
      round[n \in 0..rounds] == IF n = 0 THEN NoSearch ELSE Dfs(g, round[n - 1])
  IN  round[rounds].cycles

-----------------------------------------------------------------------------
(* classifyCycle and validateTopology                                      *)

AllSync(c) == \A i \in DOMAIN c.edges : c.edges[i].sync
AllAsync(c) == \A i \in DOMAIN c.edges : ~c.edges[i].sync
Brokered(g, c) == ToSet(c.path) \cap g.brokers # {}

ClassifyCycle(g, c) ==
  CASE AllSync(c) -> "ALL_SYNCHRONOUS"
    [] AllAsync(c) /\ Brokered(g, c) -> "ASYNC_EVENT_DRIVEN"
    [] OTHER -> "MIXED"

Permitted(g, c, guard) ==
  /\ Brokered(g, c)
  /\ ClassifyCycle(g, c) = "ASYNC_EVENT_DRIVEN" \/ (ClassifyCycle(g, c) = "MIXED" /\ guard)

ValidateTopology(g, guard) ==
  LET cycles == DetectCycles(g) IN
  [valid |-> \A i \in DOMAIN cycles : Permitted(g, cycles[i], guard),
   nodeCount |-> Len(g.nodes),
   edgeCount |-> Len(g.edges),
   cycles |-> {[path |-> cycles[i].path, classification |-> ClassifyCycle(g, cycles[i])]
               : i \in DOMAIN cycles}]

-----------------------------------------------------------------------------
(* topologicalSort: Kahn's algorithm, by its queue, in-degrees and result. *)
(* The loop over edges is that of the node added to the result last.       *)

Degree(g, n) == Cardinality({i \in DOMAIN g.edges : g.edges[i].to = n})

\* The nodes without incoming edges, in their order.
Free(g) == Chosen(g.nodes, {i \in DOMAIN g.nodes : Degree(g, g.nodes[i]) = 0})

\* `|| 1' reads a degree of zero as one.
Lower(k, n) ==
  LET degree == IF k.degree[n] = 0 THEN 0 ELSE k.degree[n] - 1 IN
  [k EXCEPT !.degree[n] = degree, !.queue = IF degree = 0 THEN Append(@, n) ELSE @]

Take(k) == [k EXCEPT !.queue = Tail(@), !.result = Append(@, Head(k.queue))]

Sort(g, k) ==
  LET turns == IF k.result = << >> THEN {} ELSE Outgoing(g, Last(k.result), k.seen) IN
  IF turns # {} THEN Lower([k EXCEPT !.seen = @ \cup {Min(turns)}], g.edges[Min(turns)].to)
  ELSE IF k.queue # << >> THEN Take(k) ELSE k

Unsorted(g) == [queue |-> Free(g), degree |-> [n \in ToSet(g.nodes) |-> Degree(g, n)],
                result |-> << >>, seen |-> {}]

\* The order, or << >> where the code throws because a node is missing from it.
TopologicalSort(g) ==
  LET rounds == Len(g.nodes) + Len(g.edges)
      round[n \in 0..rounds] == IF n = 0 THEN Unsorted(g) ELSE Sort(g, round[n - 1])
      result == round[rounds].result
  IN  IF Len(result) = Len(g.nodes) THEN result ELSE << >>

-----------------------------------------------------------------------------
(* analyzeBlastRadius: breadth-first against the edges.  A queue entry is  *)
(* a node and its depth; current is the one taken last, at first target.   *)

Callers(edges, n, seen) == {i \in DOMAIN edges \ seen : edges[i].to = n}

Reach(b, n) ==
  IF n \in b.visited THEN b
  ELSE [b EXCEPT !.visited = @ \cup {n},
                 !.queue = Append(@, [node |-> n, depth |-> b.current.depth + 1])]

Shift(b) ==
  LET next == Head(b.queue)
  IN  [b EXCEPT !.queue = Tail(@), !.current = next,
                !.depth = IF next.depth > @ THEN next.depth ELSE @]

Climb(edges, b) ==
  LET turns == Callers(edges, b.current.node, b.seen) IN
  IF turns # {} THEN Reach([b EXCEPT !.seen = @ \cup {Min(turns)}], edges[Min(turns)].from)
  ELSE IF b.queue # << >> THEN Shift(b) ELSE b

Target(n) == [queue |-> << >>, current |-> [node |-> n, depth |-> 0], visited |-> {n},
              depth |-> 0, seen |-> {}]

Upstream(target, edges) ==
  LET rounds == 2 * Len(edges)
      round[n \in 0..rounds] == IF n = 0 THEN Target(target) ELSE Climb(edges, round[n - 1])
  IN  round[rounds]

AnalyzeBlastRadius(target, edges) ==
  LET b == Upstream(target, edges)
  IN  [upstream |-> b.visited \ {target}, depth |-> b.depth, isCascade |-> b.depth >= 2]

-----------------------------------------------------------------------------
(* Every graph of at most MaxNodes and MaxEdges                            *)

GraphInit == graph = EmptyGraph

BuildNode ==
  /\ Len(graph.nodes) < MaxNodes
  /\ \E broker \in BOOLEAN : graph' = AddNode(graph, Len(graph.nodes) + 1, broker)

BuildEdge ==
  /\ Len(graph.edges) < MaxEdges
  /\ \E from, to \in ToSet(graph.nodes), sync \in BOOLEAN :
       graph' = AddEdge(graph, [from |-> from, to |-> to, sync |-> sync])

GraphNext == BuildNode \/ BuildEdge
GraphSpec == GraphInit /\ [][GraphNext]_graph

-----------------------------------------------------------------------------
(* Properties, against what the edges of a graph reach                     *)

Edges(g) == ToSet(g.edges)

\* n reaches m: m is in every set that the edges of n lead into and no edge leaves.
Reaches(g, edges, n, m) ==
  \A S \in SUBSET ToSet(g.nodes) :
    (\A e \in edges : e.from \in S \cup {n} => e.to \in S) => m \in S
Cyclic(g, edges) == \E n \in ToSet(g.nodes) : Reaches(g, edges, n, n)

\* The edges of c join its nodes in their order; it ends where it began and visits
\* no node twice.
IsCycle(g, c) ==
  /\ c.edges # << >> /\ Len(c.path) = Len(c.edges) + 1
  /\ Head(c.path) = Last(c.path) /\ IsInjective(Tail(c.path))
  /\ \A j \in DOMAIN c.edges :
       c.edges[j] \in Edges(g) /\ c.edges[j].from = c.path[j] /\ c.edges[j].to = c.path[j + 1]

\* Every cycle detectCycles reports is one.
CyclesAreReal ==
  LET cycles == DetectCycles(graph) IN \A i \in DOMAIN cycles : IsCycle(graph, cycles[i])

\* Whatever the order of nodes and edges, and although it visits a node once, the
\* search finds a cycle exactly when there is one.
SomeCycleIsFound ==
  (DetectCycles(graph) # << >>) = Cyclic(graph, Edges(graph))

\* The blast radius of a node are the others that reach it, in a graph with cycles
\* and parallel edges too; it is a cascade exactly when one of them only does so
\* over another.
CascadeIsExact ==
  \A target \in ToSet(graph.nodes) :
    LET result == AnalyzeBlastRadius(target, graph.edges)
        callers == {e.from : e \in {e \in Edges(graph) : e.to = target}}
    IN  /\ result.upstream = {n \in ToSet(graph.nodes) \ {target} :
                              Reaches(graph, Edges(graph), n, target)}
        /\ result.isCascade = (~(result.upstream \subseteq callers))

\* topologicalSort gives every node once, before all it calls, or throws, and
\* then there is a cycle.
SortIsTopological ==
  LET order == TopologicalSort(graph) IN
  /\ (order = << >>) = (graph.nodes = << >> \/ Cyclic(graph, Edges(graph)))
  /\ order # << >> =>
       /\ ToSet(order) = ToSet(graph.nodes)
       /\ \A i, j \in DOMAIN order : i <= j =>
            ~\E e \in Edges(graph) : e.from = order[j] /\ e.to = order[i]

\* What the three searches and the sort answer of one graph is true.
SearchesAreExact == CyclesAreReal /\ SomeCycleIsFound /\ CascadeIsExact /\ SortIsTopological

\* detectCycles: "Detects all elementary directed cycles in the topology graph",
\* and a synchronous cycle is "strictly forbidden": no valid topology has one.
NoValidSyncCycle ==
  \A guard \in BOOLEAN : ValidateTopology(graph, guard).valid =>
    ~Cyclic(graph, {e \in Edges(graph) : e.sync})
=============================================================================
