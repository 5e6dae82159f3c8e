------------------------------- MODULE Inbox -------------------------------
(***************************************************************************)
(* InboxConsumer of packages/execution-leases, for one consumerName:       *)
(* consumeWithIdempotency looks for the event's row in MySQL               *)
(* `inbox_events', runs the handler if there is none, and then inserts the *)
(* row.  (eventId, consumerName) is a unique key.  Each of the three       *)
(* awaited steps is one action; calls overlap when a message comes twice,  *)
(* or to two processes.                                                    *)
(***************************************************************************)
EXTENDS Naturals, FiniteSets

CONSTANTS Message,      \* messages, by event id
          Call,         \* calls of consumeWithIdempotency that may overlap
          MaxFailures   \* bound: steps that fail and processes that die

ASSUME InboxAssumption ==
  /\ IsFiniteSet(Message)
  /\ IsFiniteSet(Call)
  /\ MaxFailures \in Nat

VARIABLES
  row,        \* the events that have a row
  at,         \* where each call is
  event,      \* the event it is about
  ran,        \* history: how often the handler ran to its end, per event
  processed,  \* history: how often `processed: true' was answered, per event
  answered,   \* history: events for which some call returned
  failures

ivars == <<row, at, event, ran, processed, answered, failures>>

ITypeOK ==
  /\ row \subseteq Message
  /\ at \in [Call -> {"idle", "handle", "insert"}]
  /\ event \in [Call -> Message]
  /\ ran \in [Message -> Nat]
  /\ processed \in [Message -> Nat]
  /\ answered \subseteq Message
  /\ failures \in Nat

IInit ==
  /\ row = {}
  /\ at = [c \in Call |-> "idle"]
  /\ \E e \in Message : event = [c \in Call |-> e]   \* no call yet: any value
  /\ ran = [e \in Message |-> 0]
  /\ processed = [e \in Message |-> 0]
  /\ answered = {}
  /\ failures = 0

-----------------------------------------------------------------------------
(* consumeWithIdempotency                                                  *)

\* Mutant: the row is stored before the handler runs.
ConsumeClaims(c, e) ==
  /\ at[c] = "idle"
  /\ e \notin row
  /\ at' = [at EXCEPT ![c] = "handle"]
  /\ event' = [event EXCEPT ![c] = e]
  /\ row' = row \cup {e}
  /\ UNCHANGED <<ran, processed, answered, failures>>

\* The SELECT finds no row.
Consume(c, e) ==
  /\ at[c] = "idle"
  /\ e \notin row
  /\ at' = [at EXCEPT ![c] = "handle"]
  /\ event' = [event EXCEPT ![c] = e]
  /\ UNCHANGED <<row, ran, processed, answered, failures>>

\* Mutant: an event that is being handled counts as a duplicate.
SkipHandled(c, e) ==
  /\ at[c] = "idle"
  /\ \E d \in Call : at[d] # "idle" /\ event[d] = e
  /\ answered' = answered \cup {e}
  /\ UNCHANGED <<row, at, event, ran, processed, failures>>

\* The SELECT finds a row: the answer is `duplicate: true'.
Skip(c, e) ==
  /\ at[c] = "idle"
  /\ e \in row
  /\ answered' = answered \cup {e}
  /\ UNCHANGED <<row, at, event, ran, processed, failures>>

\* The handler runs to its end.
Handle(c) ==
  /\ at[c] = "handle"
  /\ at' = [at EXCEPT ![c] = "insert"]
  /\ ran' = [ran EXCEPT ![event[c]] = @ + 1]
  /\ UNCHANGED <<row, event, processed, answered, failures>>

\* Mutant: without the unique key every INSERT succeeds.
RecordAgain(c) ==
  /\ at[c] = "insert"
  /\ at' = [at EXCEPT ![c] = "idle"]
  /\ row' = row \cup {event[c]}
  /\ processed' = [processed EXCEPT ![event[c]] = @ + 1]
  /\ answered' = answered \cup {event[c]}
  /\ UNCHANGED <<event, ran, failures>>

\* Mutant: the row is forgotten.
RecordNothing(c) ==
  /\ at[c] = "insert"
  /\ at' = [at EXCEPT ![c] = "idle"]
  /\ UNCHANGED <<row, event, ran, processed, answered, failures>>

\* The INSERT succeeds: the answer is `processed: true'.
Record(c) ==
  /\ at[c] = "insert"
  /\ event[c] \notin row
  /\ at' = [at EXCEPT ![c] = "idle"]
  /\ row' = row \cup {event[c]}
  /\ processed' = [processed EXCEPT ![event[c]] = @ + 1]
  /\ answered' = answered \cup {event[c]}
  /\ UNCHANGED <<event, ran, failures>>

\* The INSERT meets the row of an overlapping call.  The answer is
\* `duplicate: true' if the driver's error reaches the catch clause with its
\* code, and otherwise (a driver that wraps errors) the error is thrown on.
Duplicate(c) ==
  /\ at[c] = "insert"
  /\ event[c] \in row
  /\ at' = [at EXCEPT ![c] = "idle"]
  /\ answered' \in {answered, answered \cup {event[c]}}
  /\ UNCHANGED <<row, event, ran, processed, failures>>

-----------------------------------------------------------------------------
(* The environment.                                                        *)

\* The handler or a command throws, or the process dies.
Break(c) ==
  /\ at[c] # "idle"
  /\ failures < MaxFailures
  /\ failures' = failures + 1
  /\ at' = [at EXCEPT ![c] = "idle"]
  /\ UNCHANGED <<row, event, ran, processed, answered>>

\* The INSERT commits but its answer is lost.
RecordUnacked(c) ==
  /\ at[c] = "insert"
  /\ event[c] \notin row
  /\ failures < MaxFailures
  /\ failures' = failures + 1
  /\ at' = [at EXCEPT ![c] = "idle"]
  /\ row' = row \cup {event[c]}
  /\ UNCHANGED <<event, ran, processed, answered>>

Step(c) == Handle(c) \/ Record(c) \/ Duplicate(c)

INext ==
  \E c \in Call : \/ \E e \in Message : Consume(c, e) \/ Skip(c, e)
                  \/ Step(c) \/ Break(c) \/ RecordUnacked(c)

\* The awaited steps of a call come back.
ISpec == IInit /\ [][INext]_ivars /\ \A c \in Call : WF_ivars(Step(c))

-----------------------------------------------------------------------------
(* Properties.                                                             *)

\* At most one call per event is told that it processed it, whatever overlaps
\* or fails, and only when the row is there.
ProcessedOnce ==
  \A e \in Message : processed[e] <= 1 /\ (processed[e] = 1 => e \in row)

\* Nobody is answered, be it with `processed' or with `duplicate', before the
\* event's handler has run and its row is stored: dropping the message after
\* the answer loses nothing.
AnsweredIsDone ==
  /\ answered \subseteq row
  /\ \A e \in row : ran[e] >= 1

\* Each run of a handler beyond the first has its own cause: an overlapping
\* call, or a failure.  One call at a time and no failure runs it once.
BoundedRuns ==
  \A e \in Message : ran[e] <= Cardinality(Call) + failures

\* What the class promises: the handler's effect happens once per event.
EffectivelyOnce == \A e \in Message : ran[e] <= 1
=============================================================================
