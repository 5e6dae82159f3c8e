------------------------------- MODULE Health -------------------------------
(***************************************************************************)
(* The readiness and dependency routes of apps/blackbox-api, the checks of *)
(* health.ts behind them, and the graceful shutdown of the server.  The    *)
(* check of MySQL shares the connection pool with every other route, races *)
(* with a timer, and leaves its query where it was when it loses.  The     *)
(* other checks open a connection of their own.  Time is left out: a check *)
(* that gets no answer runs into its timeout, and a MySQL that is up       *)
(* answers SELECT 1 in less.                                               *)
(***************************************************************************)
EXTENDS Naturals, FiniteSets, SequencesExt

CONSTANTS Probe,        \* clients that ask again and again
          Other,        \* the dependencies but MySQL
          PoolSize,     \* connectionLimit
          MaxLine,      \* bound: queries that wait or are executed
          MaxOutages    \* bound: how often a dependency changes for the worse

VARIABLES
  server,   \* the server, from startServer to its exit
  mysql, reachable,   \* the state of MySQL; the others that answer
  line,     \* the queries on the pool: the first PoolSize have a connection
  probe,    \* one request of each client
  told,     \* the status of its last answer
  outages

healthVars == <<server, mysql, reachable, line, probe, told, outages>>

Idle == [route |-> "none", checks |-> [d \in Other \cup {"mysql"} |-> "none"]]

HealthInit ==
  /\ server = "new"
  /\ mysql = "up" /\ reachable = Other
  /\ line = << >>
  /\ probe = [p \in Probe |-> Idle]
  /\ told = [p \in Probe |-> "none"]
  /\ outages = 0

-----------------------------------------------------------------------------
(* The routes.  checkAllDependencies begins all checks at once             *)

Waiting(p) == probe[p].route # "none"

Ask(p, route) ==
  /\ server = "up" /\ ~Waiting(p) /\ Len(line) < MaxLine
  /\ probe' = [probe EXCEPT ![p] =
       [route |-> route, checks |-> [d \in Other \cup {"mysql"} |-> "waiting"]]]
  /\ line' = Append(line, p)
  /\ UNCHANGED <<server, mysql, reachable, told, outages>>

Decide(p, d, healthy) ==
  probe' = [probe EXCEPT ![p].checks[d] = IF healthy THEN "healthy" ELSE "unhealthy"]

\* Connect, ask, disconnect; every step has a timeout.
CheckOther(p, d) ==
  /\ Waiting(p) /\ probe[p].checks[d] = "waiting"
  /\ Decide(p, d, d \in reachable)
  /\ UNCHANGED <<server, mysql, reachable, line, told, outages>>

Verdict(route, checks) ==
  LET unhealthy == {d \in DOMAIN checks : checks[d] = "unhealthy"} IN
  CASE unhealthy = {} -> "ok"
    [] unhealthy = DOMAIN checks \/ (unhealthy # {} /\ route = "ready") -> "error"
    [] OTHER -> "degraded"

Answer(p) ==
  /\ Waiting(p) /\ "waiting" \notin {probe[p].checks[d] : d \in Other \cup {"mysql"}}
  /\ told' = [told EXCEPT ![p] = Verdict(probe[p].route, probe[p].checks)]
  /\ probe' = [probe EXCEPT ![p] = Idle]
  /\ UNCHANGED <<server, mysql, reachable, line, outages>>

-----------------------------------------------------------------------------
(* The pool.  A query of any other route waits without a timeout           *)

Query ==
  /\ server = "up" /\ Len(line) < MaxLine
  /\ line' = Append(line, "route")
  /\ UNCHANGED <<server, mysql, reachable, probe, told, outages>>

\* Mutant: the connection of a query nobody waits for is not given back.
ServedIfAwaited(i) ==
  /\ i <= Len(line) /\ i <= PoolSize /\ mysql # "stuck"
  /\ line[i] # "lost"
  /\ line' = RemoveAt(line, i)
  /\ IF line[i] \in Probe THEN Decide(line[i], "mysql", mysql = "up") ELSE UNCHANGED probe
  /\ UNCHANGED <<server, mysql, reachable, told, outages>>

\* A query is answered or rejected, and its connection serves the next.
Served(i) ==
  /\ i <= Len(line) /\ i <= PoolSize /\ mysql # "stuck"
  /\ line' = RemoveAt(line, i)
  /\ IF line[i] \in Probe THEN Decide(line[i], "mysql", mysql = "up") ELSE UNCHANGED probe
  /\ UNCHANGED <<server, mysql, reachable, told, outages>>

\* The timer wins, because MySQL does not answer or other routes have the
\* connections; the query stays where it is.
MysqlTimeout(p) ==
  /\ \E i \in DOMAIN line :
       /\ line[i] = p
       /\ mysql = "stuck" \/ (i > PoolSize /\ "route" \in ToSet(SubSeq(line, 1, i)))
       /\ line' = [line EXCEPT ![i] = "lost"]
  /\ Decide(p, "mysql", FALSE)
  /\ UNCHANGED <<server, mysql, reachable, told, outages>>

-----------------------------------------------------------------------------
(* Dependencies fail and come back while the server runs                   *)

Running == server \notin {"new", "exited"}

Outage ==
  /\ Running /\ outages < MaxOutages /\ outages' = outages + 1
  /\ \/ mysql' \in {"down", "stuck"} /\ UNCHANGED reachable
     \/ \E d \in reachable : reachable' = reachable \ {d} /\ UNCHANGED mysql
  /\ UNCHANGED <<server, line, probe, told>>

Recover ==
  /\ Running
  /\ \/ mysql' = "up" /\ UNCHANGED reachable
     \/ \E d \in Other : reachable' = reachable \cup {d} /\ UNCHANGED mysql
  /\ UNCHANGED <<server, line, probe, told, outages>>

-----------------------------------------------------------------------------
(* startServer and its handler of SIGTERM and SIGINT                       *)

\* Without the port the process exits.
Listen ==
  /\ server = "new" /\ server' \in {"up", "exited"}
  /\ UNCHANGED <<mysql, reachable, line, probe, told, outages>>

\* A further signal waits for the same.
Signal ==
  /\ server = "up" /\ server' = "closing"
  /\ UNCHANGED <<mysql, reachable, line, probe, told, outages>>

\* server.close() takes no more requests and waits for those under way.
CloseServer ==
  /\ server = "closing"
  /\ "route" \notin ToSet(line) /\ \A p \in Probe : ~Waiting(p)
  /\ server' = "ending"
  /\ UNCHANGED <<mysql, reachable, line, probe, told, outages>>

\* pool.end() waits for the queries under way, also those nobody waits for.
Exit ==
  /\ server = "ending" /\ line = << >>
  /\ server' = "exited"
  /\ UNCHANGED <<mysql, reachable, line, probe, told, outages>>

-----------------------------------------------------------------------------
HealthNext ==
  \/ \E p \in Probe :
       \/ \E route \in {"ready", "dependencies"} : Ask(p, route)
       \/ \E d \in Other : CheckOther(p, d)
       \/ MysqlTimeout(p) \/ Answer(p)
  \/ Query \/ Outage \/ Recover
  \/ \E i \in 1..PoolSize : Served(i)
  \/ Listen \/ Signal \/ CloseServer \/ Exit

\* Checks come to an end, the server goes on with its shutdown, the oldest query is
\* answered unless MySQL is stuck, and clients ask again.
ProbeStep(p) == (\E d \in Other : CheckOther(p, d)) \/ Answer(p) \/ MysqlTimeout(p)
HealthFairness ==
  /\ \A p \in Probe : WF_healthVars(ProbeStep(p)) /\ WF_healthVars(Ask(p, "ready"))
  /\ WF_healthVars(Served(1))
  /\ WF_healthVars(CloseServer \/ Exit)

HealthSpec == HealthInit /\ [][HealthNext]_healthVars /\ HealthFairness

-----------------------------------------------------------------------------
(* Properties                                                              *)

AllUp == mysql = "up" /\ reachable = Other

\* A probe is answered even when nothing answers it.  Once all dependencies are up
\* for good, and no other route takes connections, every client is told so: the
\* queries that timed-out checks have left on the pool are gone at some time.  And
\* a server that was told to stop exits, unless MySQL keeps it waiting for ever.
ProbesRecover ==
  /\ \A p \in Probe :
       /\ []<>(~Waiting(p))
       /\ <>[](server = "up" /\ AllUp /\ "route" \notin ToSet(line)) => <>[](told[p] = "ok")
  /\ []<>(mysql # "stuck") => (server = "closing" ~> server = "exited")
=============================================================================
