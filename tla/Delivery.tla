------------------------------ MODULE Delivery ------------------------------
(***************************************************************************)
(* OutboxRelay and InboxConsumer together: the path of an event from its   *)
(* row in `outbox_events' over Kafka to the effect of one consumer.  The   *)
(* two classes share nothing but the topic: the consumer is handed events  *)
(* of the log, any of them and any number of times, because Kafka delivers *)
(* from the last committed offset.                                         *)
(***************************************************************************)
EXTENDS Outbox

CONSTANTS Call,        \* calls of the consumer that may overlap
          MaxFailures  \* bound: failures on the consumer's side

VARIABLES row, at, event, ran, processed, answered, failures

Consumer == INSTANCE Inbox WITH Message <- Event

cvars == <<row, at, event, ran, processed, answered, failures>>
dvars == <<ovars, cvars>>

DInit == OInit /\ Consumer!IInit

\* One step of a relay, of a service that queues events, or of the clock.
RelaySide == ONext /\ UNCHANGED cvars

\* A message of the log is handed to the consumer.
Receive(c) ==
  /\ \E e \in Range(topic) : Consumer!Consume(c, e) \/ Consumer!Skip(c, e)
  /\ UNCHANGED ovars

\* A call of the consumer goes on, or fails.
Process(c) ==
  /\ Consumer!Step(c)
  /\ UNCHANGED ovars

Interrupt(c) ==
  /\ Consumer!Break(c) \/ Consumer!RecordUnacked(c)
  /\ UNCHANGED ovars

DNext == \/ RelaySide
         \/ \E c \in Call : Receive(c) \/ Process(c) \/ Interrupt(c)

\* The consumer's part of what Kafka promises: a message that no call has
\* answered is handed over again, so an event of the log that still has no row
\* is received by some call that is free.
Redeliver(e) ==
  /\ e \in Range(topic)
  /\ \E c \in Call : Consumer!Consume(c, e)
  /\ UNCHANGED ovars

ConsumerFairness ==
  /\ \A c \in Call : WF_dvars(Process(c))
  /\ \A e \in Event : SF_dvars(Redeliver(e))

DFairness ==
  /\ \A r \in Relay : WF_dvars(Work(r) /\ UNCHANGED cvars)
  /\ ConsumerFairness

DSpec == DInit /\ [][DNext]_dvars /\ DFairness

-----------------------------------------------------------------------------
(* Properties.                                                             *)

Effective == {e \in Event : ran[e] >= 1}

\* The effects are an at-least-once image of the outbox: no effect without a
\* stored event, and for every stored event a finished handler in the end,
\* whatever fails on the way.
Path == INSTANCE AtLeastOnce WITH accepted  <- Accepted,
                                  delivered <- Effective

EndToEnd == Path!ASpec
=============================================================================
