------------------------------- MODULE Outbox -------------------------------
(***************************************************************************)
(* OutboxRelay of packages/execution-leases: services queue events as rows *)
(* of MySQL `outbox_events'; relays, any number of them, send the rows     *)
(* that have no publishedAt to Kafka and then stamp them.  Every awaited   *)
(* command is one action.                                                  *)
(*                                                                         *)
(* The topic is one append-only log, as Kafka keeps it for the events of   *)
(* one aggregate (the message key).  A process uses its relay for one call *)
(* at a time.                                                              *)
(***************************************************************************)
EXTENDS Naturals, Sequences, FiniteSets, SequencesExt

CONSTANTS Event,       \* events that may be queued
          Relay,       \* processes that relay
          Limit,       \* limit of relayPendingEvents
          MaxTime,     \* bound: the clock stops here
          MaxFaults    \* bound: commands that fail and processes that die

ASSUME OutboxAssumption ==
  /\ IsFiniteSet(Event)
  /\ IsFiniteSet(Relay)
  /\ Limit \in Nat \ {0}
  /\ MaxTime \in Nat
  /\ MaxFaults \in Nat

VARIABLES
  status,     \* of each event: see Status
  createdAt,  \* the time queueEvent took before its INSERT
  topic,      \* the Kafka log
  pc,         \* where each relay is in relayPendingEvents
  batch,      \* the selected events it has still to publish
  connected,  \* its `connected' flag
  clock,
  faults,
  earlier     \* history: the events that had a row when e was stamped

relays == <<pc, batch, connected>>
ovars  == <<status, createdAt, topic, pc, batch, connected, clock, faults,
            earlier>>

\* stamped: queueEvent is awaiting the INSERT; pending: publishedAt is NULL.
Status == {"none", "stamped", "pending", "published"}

Pending  == {e \in Event : status[e] = "pending"}
Accepted == {e \in Event : status[e] \in {"pending", "published"}}

OTypeOK ==
  /\ status \in [Event -> Status]
  /\ createdAt \in [Event -> Nat]
  /\ topic \in Seq(Event)
  /\ pc \in [Relay -> {"idle", "select", "send", "mark"}]
  /\ batch \in [Relay -> Seq(Event)]
  /\ \A r \in Relay : /\ Len(batch[r]) <= Limit
                      /\ pc[r] \in {"send", "mark"} => batch[r] # << >>
  /\ connected \in [Relay -> BOOLEAN]
  /\ clock \in Nat
  /\ faults \in Nat
  /\ earlier \in [Event -> SUBSET Event]

OInit ==
  /\ status = [e \in Event |-> "none"]
  /\ createdAt = [e \in Event |-> 0]
  /\ topic = << >>
  /\ pc = [r \in Relay |-> "idle"]
  /\ batch = [r \in Relay |-> << >>]
  /\ connected = [r \in Relay |-> FALSE]
  /\ clock = 0
  /\ faults = 0
  /\ earlier = [e \in Event |-> {}]

-----------------------------------------------------------------------------
(* queueEvent                                                              *)

\* new Date(), up to the INSERT.
Stamp(e) ==
  /\ status[e] = "none"
  /\ status' = [status EXCEPT ![e] = "stamped"]
  /\ createdAt' = [createdAt EXCEPT ![e] = clock]
  /\ earlier' = [earlier EXCEPT ![e] = Accepted]
  /\ UNCHANGED <<topic, relays, clock, faults>>

\* The INSERT, with publishedAt NULL.
Insert(e) ==
  /\ status[e] = "stamped"
  /\ status' = [status EXCEPT ![e] = "pending"]
  /\ UNCHANGED <<createdAt, topic, relays, clock, faults, earlier>>

\* The INSERT fails: queueEvent throws, and trying again makes another stamp.
InsertFails(e) ==
  /\ status[e] = "stamped"
  /\ faults < MaxFaults
  /\ faults' = faults + 1
  /\ status' = [status EXCEPT ![e] = "none"]
  /\ UNCHANGED <<createdAt, topic, relays, clock, earlier>>

-----------------------------------------------------------------------------
(* relayPendingEvents                                                      *)

At(r, from, to) == pc[r] = from /\ pc' = [pc EXCEPT ![r] = to]

\* connect(), by a relay that is not connected yet.
Connect(r) ==
  /\ ~connected[r]
  /\ At(r, "idle", "select")
  /\ connected' = [connected EXCEPT ![r] = TRUE]
  /\ UNCHANGED <<status, createdAt, topic, batch, clock, faults, earlier>>

\* Mutant: ORDER BY is left out.
UnorderedPage(S) ==
  {q \in BoundedSeq(S, Limit) :
     /\ IsInjective(q)
     /\ Len(q) < Limit => S = Range(q)}

\* ORDER BY createdAt LIMIT: the oldest rows of S, in any order among those of
\* one createdAt.
Page(S) ==
  {q \in BoundedSeq(S, Limit) :
     /\ IsInjective(q)
     /\ Len(q) < Limit => S = Range(q)
     /\ \A i, j \in DOMAIN q : i < j => createdAt[q[i]] <= createdAt[q[j]]
     /\ \A i \in DOMAIN q, e \in S \ Range(q) : createdAt[q[i]] <= createdAt[e]}

\* SELECT ... WHERE publishedAt IS NULL.
Select(r) ==
  /\ pc[r] = "select" \/ (pc[r] = "idle" /\ connected[r])
  /\ \E q \in Page(Pending) :
       /\ batch' = [batch EXCEPT ![r] = q]
       /\ pc' = [pc EXCEPT ![r] = IF q = << >> THEN "idle" ELSE "send"]
  /\ UNCHANGED <<status, createdAt, topic, connected, clock, faults, earlier>>

\* producer.send of the next event, acknowledged.
Send(r) ==
  /\ At(r, "send", "mark")
  /\ topic' = Append(topic, Head(batch[r]))
  /\ UNCHANGED <<status, createdAt, batch, connected, clock, faults, earlier>>

\* The broker takes the message but its acknowledgement is lost: the producer
\* (five retries, not idempotent) sends again, or gives up (Fail).
SendUnacked(r) ==
  /\ pc[r] = "send"
  /\ faults < MaxFaults
  /\ faults' = faults + 1
  /\ topic' = Append(topic, Head(batch[r]))
  /\ UNCHANGED <<status, createdAt, relays, clock, earlier>>

\* Mutant: publishedAt is never set.
MarkNothing(r) ==
  /\ At(r, "mark", IF Tail(batch[r]) = << >> THEN "idle" ELSE "send")
  /\ batch' = [batch EXCEPT ![r] = Tail(@)]
  /\ UNCHANGED <<status, createdAt, topic, connected, clock, faults, earlier>>

\* UPDATE publishedAt, then the next event of the batch.
Mark(r) ==
  /\ At(r, "mark", IF Tail(batch[r]) = << >> THEN "idle" ELSE "send")
  /\ status' = [status EXCEPT ![Head(batch[r])] = "published"]
  /\ batch' = [batch EXCEPT ![r] = Tail(@)]
  /\ UNCHANGED <<createdAt, topic, connected, clock, faults, earlier>>

\* disconnect(), between two calls.
Disconnect(r) ==
  /\ pc[r] = "idle"
  /\ connected[r]
  /\ connected' = [connected EXCEPT ![r] = FALSE]
  /\ UNCHANGED <<status, createdAt, topic, pc, batch, clock, faults, earlier>>

-----------------------------------------------------------------------------
(* The environment.                                                        *)

OTick ==
  /\ clock < MaxTime
  /\ clock' = clock + 1
  /\ UNCHANGED <<status, createdAt, topic, relays, faults, earlier>>

\* Mutant: a send that fails is caught, and the loop goes on to the UPDATE.
FailCaught(r) ==
  /\ At(r, "send", "mark")
  /\ faults < MaxFaults
  /\ faults' = faults + 1
  /\ UNCHANGED <<status, createdAt, topic, batch, connected, clock, earlier>>

\* A command fails: the round is over, the rest of the batch is left.
Fail(r) ==
  /\ pc[r] # "idle"
  /\ faults < MaxFaults
  /\ faults' = faults + 1
  /\ pc' = [pc EXCEPT ![r] = "idle"]
  /\ batch' = [batch EXCEPT ![r] = << >>]
  /\ UNCHANGED <<status, createdAt, topic, connected, clock, earlier>>

\* The relay's process dies and starts again.
RelayCrash(r) ==
  /\ faults < MaxFaults
  /\ faults' = faults + 1
  /\ pc' = [pc EXCEPT ![r] = "idle"]
  /\ batch' = [batch EXCEPT ![r] = << >>]
  /\ connected' = [connected EXCEPT ![r] = FALSE]
  /\ UNCHANGED <<status, createdAt, topic, clock, earlier>>

Queue(e) == Stamp(e) \/ Insert(e) \/ InsertFails(e)

Work(r) == Connect(r) \/ Select(r) \/ Send(r) \/ Mark(r)

ONext ==
  \/ \E e \in Event : Queue(e)
  \/ \E r \in Relay : \/ Work(r) \/ SendUnacked(r) \/ Disconnect(r)
                      \/ Fail(r) \/ RelayCrash(r)
  \/ OTick

\* The relays' awaited commands come back, and somebody calls
\* relayPendingEvents again when it has returned.
OFairness == \A r \in Relay : WF_ovars(Work(r))

OSpec == OInit /\ [][ONext]_ovars /\ OFairness

-----------------------------------------------------------------------------
(* Properties.                                                             *)

\* No event is lost: one that is marked as published was taken by the broker;
\* and nothing is sent that has no row.
PublishedIsSent ==
  /\ \A e \in Event : status[e] = "published" => e \in Range(topic)
  /\ Range(topic) \subseteq Accepted

Before(e, f) ==
  \A j \in DOMAIN topic : topic[j] = f => \E i \in 1..(j - 1) : topic[i] = e

\* An event created after another one was stored, and at a later time, is never
\* first sent before it, however many relays send, fail and start again.
CausalOrder ==
  \A f \in Event : \A e \in earlier[f] :
    createdAt[e] < createdAt[f] => Before(e, f)

Copies(e) == Cardinality({i \in DOMAIN topic : topic[i] = e})

\* A second copy of an event has its own cause: another relay, or a fault.
\* One relay without faults sends each event exactly once.
BoundedDuplicates ==
  \A e \in Event : Copies(e) <= Cardinality(Relay) + faults

\* The topic is an at-least-once image of the rows: every row is sent in the
\* end, whatever fails.
Log == INSTANCE AtLeastOnce WITH accepted  <- Accepted,
                                 delivered <- Range(topic)

ImplementsAtLeastOnce == Log!ASpec
=============================================================================
