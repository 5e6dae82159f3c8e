------------------------------ MODULE LoadRuns ------------------------------
(***************************************************************************)
(* Runs of load: LoadOrchestrator sends START_LOAD and STOP_LOAD over      *)
(* Kafka, LoadWorker executes them and publishes telemetry to Redis,       *)
(* collectResults adds the telemetry up.  allocateWorkers, module          *)
(* WorkerPool, answers any workers that have registered, or none: its      *)
(* registry is behind the workers and nothing is reserved in it.           *)
(*                                                                         *)
(* The commands of a run have the run as key, so every worker reads them   *)
(* in order; commands of different runs are in different partitions and    *)
(* come in any order.  A worker has a consumer group of its own and reads  *)
(* from the end that the topic has when it subscribes.  One worker object  *)
(* has one status, one active run and one stopRequested for all the runs   *)
(* it executes.  Latencies are left out; the loops of one run on one       *)
(* worker are one loop.                                                    *)
(***************************************************************************)
EXTENDS Naturals, FiniteSets, Functions, Sequences

CONSTANTS Worker, Run,
          None,          \* no run
          MaxRequests,   \* bound: requests of one worker for one run
          MaxCrashes     \* bound: worker processes that die

ASSUME LoadAssumption ==
  IsFiniteSet(Worker) /\ None \notin Nat /\ MaxRequests \in Nat /\ MaxCrashes \in Nat

VARIABLES
  proc,     \* the LoadWorker objects
  load,     \* executeLoad, of each worker for each run
  commands, \* load-commands.v1: the commands of each run
  pos,      \* how many of them a worker has read
  result,   \* one call of collectResults
  crashes

lvars == <<proc, load, commands, pos, result, crashes>>

\* `twice' is history: another run was in progress when one started.
NewProc == [at |-> "new", status |-> "IDLE", run |-> None, stop |-> FALSE, twice |-> FALSE]
\* Requests made, and what the telemetry key says of them, None if there is no
\* key.  `gone' is history: the key has expired.
NewLoad == [at |-> "none", made |-> 0, sent |-> None, gone |-> FALSE]
\* The keys listed, and those of them whose values were found.  `exact' is
\* history: the run was over when the keys were listed.
NewResult == [run |-> None, keys |-> {}, found |-> {}, total |-> None, exact |-> FALSE]

LInit ==
  /\ proc = [w \in Worker |-> NewProc]
  /\ load = [w \in Worker |-> [r \in Run |-> NewLoad]]
  /\ commands = [r \in Run |-> << >>]
  /\ pos = [w \in Worker |-> [r \in Run |-> 0]]
  /\ result = NewResult
  /\ crashes = 0

LTypeOK ==
  /\ \A w \in Worker : proc[w].at \in {"new", "up", "stopping", "off", "dead"}
  /\ \A w \in Worker, r \in Run :
       /\ load[w][r].at \in {"none", "on", "final", "over", "lost"}
       /\ pos[w][r] \in 0..Len(commands[r])

Loads(w) == {r \in Run : load[w][r].at \in {"on", "final"}}

-----------------------------------------------------------------------------
(* LoadOrchestrator and KafkaLoadCommander                                 *)

SendCommand(r, command) == commands' = [commands EXCEPT ![r] = Append(@, command)]

StartRun(r) ==
  /\ commands[r] = << >>
  /\ \E workers \in SUBSET Worker :
       SendCommand(r, [type |-> "START_LOAD", workers |-> workers])
  /\ UNCHANGED <<proc, load, pos, result, crashes>>

StopRun(r) ==
  /\ Len(commands[r]) = 1
  /\ SendCommand(r, [type |-> "STOP_LOAD", workers |-> {}])
  /\ UNCHANGED <<proc, load, pos, result, crashes>>

\* The workers that may take a START_LOAD for theirs.
Assigned(command) == IF command.workers = {} THEN Worker ELSE command.workers

\* The connection telemetry is published on, and commands are read.
Connected(w) == proc[w].at \in {"up", "stopping"}

\* A worker's part in a run is over, or can no longer begin: it has read past
\* the START_LOAD, or is dead, or subscribes behind it.
Settled(w, r) ==
  \/ load[w][r].at = "over"
  \/ load[w][r].at = "none" /\ (pos[w][r] > 0 \/ ~Connected(w))

\* collectResults lists the keys of a run and then reads their values.
TelemetryKeys(r) ==
  /\ result.run = None /\ commands[r] # << >>
  /\ result' = [result EXCEPT
       !.run = r,
       !.keys = {w \in Worker : load[w][r].sent # None},
       !.exact = \A w \in Assigned(commands[r][1]) : Settled(w, r)]
  /\ UNCHANGED <<proc, load, commands, pos, crashes>>

\* A key that is gone by now has no value: mget's null is passed over.  The
\* number of the others is the result's allocatedWorkers.
Aggregate ==
  LET found == {w \in result.keys : load[w][result.run].sent # None} IN
  /\ result.run # None /\ result.total = None
  /\ result' = [result EXCEPT
       !.found = found,
       !.total = SumFunction([w \in found |-> load[w][result.run].sent])]
  /\ UNCHANGED <<proc, load, commands, pos, crashes>>

-----------------------------------------------------------------------------
(* LoadWorker: start, stop and death                                       *)

Phase(w, from, to) == proc[w].at = from /\ proc' = [proc EXCEPT ![w].at = to]

\* Commands sent before are not read: fromBeginning is false.  A worker is
\* registered, and may be allocated, before.
Start(w) ==
  /\ Phase(w, "new", "up")
  /\ pos' = [pos EXCEPT ![w] = [r \in Run |-> Len(commands[r])]]
  /\ UNCHANGED <<load, commands, result, crashes>>

StopWorker(w) ==
  /\ proc[w].at = "up"
  /\ proc' = [proc EXCEPT ![w].at = "stopping", ![w].stop = TRUE]
  /\ UNCHANGED <<load, commands, pos, result, crashes>>

\* The consumer is disconnected and the connection to Redis is closed.
Quit(w) == Phase(w, "stopping", "off") /\ UNCHANGED <<load, commands, pos, result, crashes>>

Crash(w) ==
  /\ crashes < MaxCrashes
  /\ proc[w].at \in {"up", "stopping"}
  /\ proc' = [proc EXCEPT ![w] = [NewProc EXCEPT !.at = "dead"]]
  /\ load' = [load EXCEPT ![w] = [r \in Run |->
       IF r \in Loads(w) THEN [@[r] EXCEPT !.at = "lost"] ELSE @[r]]]
  /\ crashes' = crashes + 1
  /\ UNCHANGED <<commands, pos, result>>

-----------------------------------------------------------------------------
(* LoadWorker.handleCommand and executeLoad                                *)

\* What START_LOAD and STOP_LOAD do to the worker's three fields.
Started(p, r, busy) ==
  [p EXCEPT !.run = r, !.status = "BUSY", !.stop = FALSE, !.twice = @ \/ busy]
\* Mutant: only a worker without a run takes STOP_LOAD for its own.
StoppedWhenIdle(p, r) == [p EXCEPT !.stop = @ \/ p.run = None]
Stopped(p, r) == [p EXCEPT !.stop = @ \/ p.run \in {None, r}]

HandleCommand(w, r) ==
  /\ proc[w].at \in {"up", "stopping"}
  /\ pos[w][r] < Len(commands[r])
  /\ pos' = [pos EXCEPT ![w][r] = @ + 1]
  /\ LET command == commands[r][pos[w][r] + 1] IN
     \/ /\ command.type = "START_LOAD" /\ w \in Assigned(command)
        /\ proc' = [proc EXCEPT ![w] = Started(@, r, Loads(w) # {})]
        /\ load' = [load EXCEPT ![w][r].at = "on"]
     \/ /\ command.type = "START_LOAD" /\ w \notin Assigned(command)
        /\ UNCHANGED <<proc, load>>
     \/ /\ command.type = "STOP_LOAD"
        /\ proc' = [proc EXCEPT ![w] = Stopped(@, r)]
        /\ UNCHANGED load
  /\ UNCHANGED <<commands, result, crashes>>

Change(w, r, new) ==
  /\ load' = [load EXCEPT ![w][r] = new]
  /\ UNCHANGED <<commands, pos, result, crashes>>

\* A request of the loops, answered or failed: both are counted.
MakeRequest(w, r) ==
  LET l == load[w][r] IN
  /\ l.at = "on" /\ ~proc[w].stop
  /\ l.made < MaxRequests
  /\ Change(w, r, [l EXCEPT !.made = @ + 1])
  /\ UNCHANGED proc

\* The telemetry timer.
Publish(w, r) ==
  LET l == load[w][r] IN
  /\ l.at = "on" /\ Connected(w) /\ l.sent # l.made
  /\ Change(w, r, [l EXCEPT !.sent = l.made])
  /\ UNCHANGED proc

\* The key lives 300 s from its last SET (EX); while the load goes on, the
\* timer sets it again twice a second.
Expire(w, r) ==
  LET l == load[w][r] IN
  /\ l.sent # None /\ (l.at # "on" \/ ~Connected(w))
  /\ Change(w, r, [l EXCEPT !.sent = None, !.gone = TRUE])
  /\ UNCHANGED proc

\* Mutant: the final telemetry is left to the timer.
FinalUnpublished(w, r) ==
  LET l == load[w][r] IN
  /\ l.at = "on" /\ Connected(w)
  /\ Change(w, r, [l EXCEPT !.at = "final"])
  /\ UNCHANGED proc

\* The loops have ended, by time or by stopRequested; all is published.
FinalTelemetry(w, r) ==
  LET l == load[w][r] IN
  /\ l.at = "on" /\ Connected(w)
  /\ Change(w, r, [l EXCEPT !.at = "final", !.sent = l.made])
  /\ UNCHANGED proc

BecomeIdle(p) == [p EXCEPT !.status = "IDLE", !.run = None]

\* Mutant: the end of a load leaves the worker BUSY.
StayBusy(w, r) ==
  /\ load[w][r].at = "final"
  /\ Change(w, r, [load[w][r] EXCEPT !.at = "over"])
  /\ UNCHANGED proc

FinishLoad(w, r) ==
  /\ load[w][r].at = "final"
  /\ Change(w, r, [load[w][r] EXCEPT !.at = "over"])
  /\ proc' = [proc EXCEPT ![w] = BecomeIdle(@)]

\* The final telemetry fails: handleCommand's catch.
LoadFails(w, r) ==
  LET l == load[w][r] IN
  /\ l.at = "on" /\ proc[w].at # "dead"
  /\ Change(w, r, [l EXCEPT !.at = "lost"])
  /\ proc' = [proc EXCEPT ![w] = BecomeIdle(@)]

-----------------------------------------------------------------------------
Execution(w, r) == FinalTelemetry(w, r) \/ FinishLoad(w, r) \/ LoadFails(w, r)

LNext ==
  \/ \E r \in Run : StartRun(r) \/ StopRun(r) \/ TelemetryKeys(r)
  \/ Aggregate
  \/ \E w \in Worker :
       \/ Start(w) \/ StopWorker(w) \/ Quit(w) \/ Crash(w)
       \/ \E r \in Run : HandleCommand(w, r) \/ MakeRequest(w, r) \/ Publish(w, r)
                           \/ Expire(w, r) \/ Execution(w, r)

LSpec == LInit /\ [][LNext]_lvars

-----------------------------------------------------------------------------
(* Properties                                                              *)

\* Until a worker is given a second run while one is in progress, its status
\* and its active run are those of the load it executes.
TruthfulStatus ==
  \A w \in Worker : ~proc[w].twice =>
    /\ proc[w].status = (IF Loads(w) = {} THEN "IDLE" ELSE "BUSY")
    /\ \A r \in Loads(w) : proc[w].run = r

\* On such a worker a STOP_LOAD that was read stays in force: no START_LOAD of
\* the run can come after it and reset stopRequested.
StopIsObeyed ==
  \A w \in Worker, r \in Run :
    (~proc[w].twice /\ r \in Loads(w) /\ pos[w][r] = 2) => proc[w].stop

\* A result collected when the run was over counts every request of the workers
\* it found, whatever else they were doing meanwhile; and a worker that took
\* part is missing from it only if its telemetry has expired.  So the result is
\* complete as soon as its allocatedWorkers are as many as took part, also when
\* START_LOAD named nobody and whoever read it did.
ResultIsExact ==
  (result.total # None /\ result.exact) =>
    LET part(w) == load[w][result.run] IN
    /\ result.total = SumFunction([w \in result.found |-> part(w).made])
    /\ \A w \in Worker \ result.found : part(w).at = "none" \/ part(w).gone
=============================================================================
