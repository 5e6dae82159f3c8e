---------------------------- MODULE TopologyApi ----------------------------
(***************************************************************************)
(* The routes of apps/blackbox-api/src/routes/topology.ts over the tables  *)
(* of packages/db/src/schema/topology.ts.  A request is one INSERT, or     *)
(* several commands with other requests in between: validate reads the     *)
(* nodes and then the edges of an environment, and an operation is stored  *)
(* before its dependency calls, one by one and in no transaction.          *)
(*                                                                         *)
(* A row is known by its unique key, and an INSERT that violates that key  *)
(* or a foreign key does nothing and is answered by an error.  No route    *)
(* deletes.  Edges have no key but their id; two with the same ends and    *)
(* kind are one here.                                                      *)
(***************************************************************************)
EXTENDS TopologyGraph

CONSTANTS Tenant, Slug,
          Ends,        \* bound: the pairs of slugs edges are posted for
          Requester,   \* requests for operations that may overlap
          Calls        \* Seq of edges: the dependencyCalls of every such request

ASSUME CallsAssumption == Calls \in Seq(ToSet(Calls))

VARIABLES projects, environments, nodes, edges,
          operations,    \* the names taken at their node
          dependencies,  \* <<operation, call>>
          check,         \* one request to validate
          post           \* the requests for operations

tables == <<projects, environments, nodes, edges, operations, dependencies>>
topoVars == <<tables, check, post>>

TopologyNode == [env : [project : [tenant : Tenant, slug : Slug], slug : Slug], slug : Slug]

TopoInit ==
  /\ projects = {} /\ environments = {} /\ nodes = << >> /\ edges = << >>
  /\ operations = {} /\ dependencies = {}
  /\ check = [at |-> "idle"]
  /\ post = [c \in Requester |-> [at |-> "idle"]]

-----------------------------------------------------------------------------
(* Projects, environments, nodes and edges                                 *)

PostProject(tenant, slug) ==
  /\ projects' = projects \cup {[tenant |-> tenant, slug |-> slug]}
  /\ UNCHANGED <<environments, nodes, edges, operations, dependencies, check, post>>

\* 404 unless the project is the tenant's.
PostEnvironment(tenant, project, slug) ==
  /\ project.tenant = tenant
  /\ environments' = environments \cup {[project |-> project, slug |-> slug]}
  /\ UNCHANGED <<projects, nodes, edges, operations, dependencies, check, post>>

Ids(rows) == {rows[i].id : i \in DOMAIN rows}

\* Any kind of the schema is taken; the environment need not be the tenant's.
PostNode(env, slug, broker) ==
  /\ <<env, slug>> \notin Ids(nodes)
  /\ nodes' = Append(nodes, [id |-> <<env, slug>>, env |-> env, broker |-> broker])
  /\ UNCHANGED <<projects, environments, edges, operations, dependencies, check, post>>

\* The foreign keys ask that the nodes exist, not that they are of env.
PostEdge(env, from, to, sync) ==
  LET row == [env |-> env, from |-> from, to |-> to, sync |-> sync] IN
  /\ <<from[2], to[2]>> \in Ends /\ row \notin ToSet(edges)
  /\ edges' = Append(edges, row)
  /\ UNCHANGED <<projects, environments, nodes, operations, dependencies, check, post>>

-----------------------------------------------------------------------------
(* POST /environments/:envId/topology/validate                             *)

Of(env, rows) == Chosen(rows, {i \in DOMAIN rows : rows[i].env = env})

\* The graph of the two answers, or none where addEdge throws.
GraphOf(ns, es) ==
  [nodes |-> [i \in DOMAIN ns |-> ns[i].id],
   brokers |-> {ns[i].id : i \in {j \in DOMAIN ns : ns[j].broker}},
   edges |-> [i \in DOMAIN es |-> [from |-> es[i].from, to |-> es[i].to, sync |-> es[i].sync]]]
Buildable(ns, es) == \A i \in DOMAIN es : Fits(GraphOf(ns, es), es[i])

SelectNodes(env) ==
  /\ check.at = "idle"
  /\ check' = [at |-> "edges", env |-> env, nodes |-> Of(env, nodes)]
  /\ UNCHANGED <<tables, post>>

Report(ns, es, guard) ==
  IF Buildable(ns, es)
  THEN [at |-> "answered", report |-> ValidateTopology(GraphOf(ns, es), guard)]
  ELSE [at |-> "failed", nodes |-> Ids(ns)]

\* Mutant: the edges were read before the nodes.
SelectOldEdges(guard) ==
  /\ check.at = "edges"
  /\ check' = Report(Of(check.env, nodes),
       SelectSeq(Of(check.env, edges), LAMBDA e : {e.from, e.to} \subseteq Ids(check.nodes)), guard)
  /\ UNCHANGED <<tables, post>>

SelectEdges(guard) ==
  /\ check.at = "edges"
  /\ check' = Report(check.nodes, Of(check.env, edges), guard)
  /\ UNCHANGED <<tables, post>>

NextCheck ==
  /\ check.at \in {"answered", "failed"}
  /\ check' = [at |-> "idle"]
  /\ UNCHANGED <<tables, post>>

-----------------------------------------------------------------------------
(* POST /nodes/:nodeId/operations                                          *)

Set(c, state) == post' = [post EXCEPT ![c] = state] /\ UNCHANGED <<projects, environments, nodes, edges, check>>

\* SELECT the node; 404 without it.
SelectNode(c, n) ==
  /\ post[c].at = "idle"
  /\ Set(c, [at |-> "insert", node |-> n])
  /\ UNCHANGED <<operations, dependencies>>

InsertOperation(c) ==
  /\ post[c].at = "insert" /\ post[c].node \notin operations
  /\ operations' = operations \cup {post[c].node}
  /\ Set(c, [at |-> "calls", node |-> post[c].node, next |-> 1])
  /\ UNCHANGED dependencies

Advanced(c) == [post[c] EXCEPT !.next = @ + 1]
Stored(e) == e \in ToSet(edges)

\* Mutant: a call whose edge is unknown is passed over.
InsertKnownCall(c) ==
  /\ post[c].at = "calls" /\ post[c].next <= Len(Calls)
  /\ dependencies' = dependencies \cup
       (IF Stored(Calls[post[c].next]) THEN {<<post[c].node, post[c].next>>} ELSE {})
  /\ Set(c, Advanced(c))
  /\ UNCHANGED operations

InsertCall(c) ==
  /\ post[c].at = "calls" /\ post[c].next <= Len(Calls) /\ Stored(Calls[post[c].next])
  /\ dependencies' = dependencies \cup {<<post[c].node, post[c].next>>}
  /\ Set(c, Advanced(c))
  /\ UNCHANGED operations

\* The operation and its calls are read back.
Answer(c) ==
  /\ post[c].at = "calls" /\ post[c].next > Len(Calls)
  /\ Set(c, [at |-> "created", node |-> post[c].node,
             calls |-> {d[2] : d \in {d \in dependencies : d[1] = post[c].node}}])
  /\ UNCHANGED <<operations, dependencies>>

\* A key is violated or the connection fails: 500, and what is stored stays.
PostFails(c) ==
  /\ post[c].at \in {"insert", "calls"}
  /\ Set(c, [at |-> "failed", node |-> post[c].node])
  /\ UNCHANGED <<operations, dependencies>>

-----------------------------------------------------------------------------
TopoNext ==
  \/ \E tenant \in Tenant, slug \in Slug :
       \/ PostProject(tenant, slug)
       \/ \E project \in projects : PostEnvironment(tenant, project, slug)
  \/ \E env \in environments :
       \/ /\ Len(nodes) < MaxNodes
          /\ \E slug \in Slug, broker \in BOOLEAN : PostNode(env, slug, broker)
       \/ /\ Len(edges) < MaxEdges
          /\ \E from, to \in Ids(nodes), sync \in BOOLEAN : PostEdge(env, from, to, sync)
       \/ SelectNodes(env)
  \/ \E guard \in BOOLEAN : SelectEdges(guard)
  \/ NextCheck
  \/ \E c \in Requester :
       \/ \E n \in Ids(nodes) : SelectNode(c, n)
       \/ InsertOperation(c) \/ InsertCall(c) \/ Answer(c) \/ PostFails(c)

TopoSpec == TopoInit /\ [][TopoNext]_topoVars

-----------------------------------------------------------------------------
(* Properties                                                              *)

\* Although it reads in two steps, a report tells of the cycles of the topology
\* as it is when it is answered; and the request fails only over an edge to a
\* node that the first step did not see.
ReportIsCurrent ==
  [][check.at = "edges" /\ check' # check =>
       LET now == GraphOf(nodes, Of(check.env, edges)) IN
       IF check'.at = "answered"
       THEN (check'.report.cycles = {}) = ~Cyclic(now, Edges(now))
       ELSE \E e \in Edges(now) : ~({e.from, e.to} \subseteq Ids(check.nodes))]_topoVars

\* An operation answered as created has all its calls, in the tables and in the
\* answer; one that has not belongs to a request that is under way or failed,
\* and no later request for the same operation can complete it.
CreatedIsWhole ==
  /\ \A c \in Requester : post[c].at = "created" =>
       /\ post[c].calls = DOMAIN Calls
       /\ \A i \in DOMAIN Calls : <<post[c].node, i>> \in dependencies
  /\ \A n \in operations :
       Cardinality({c \in Requester : post[c].at \in {"calls", "created"} /\ post[c].node = n}) <= 1
=============================================================================
