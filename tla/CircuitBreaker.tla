--------------------------- MODULE CircuitBreaker ---------------------------
(***************************************************************************)
(* PureCircuitBreaker of packages/workload-spec and the calls it guards.   *)
(* A call asks canExecute, and if it is admitted records its result at any *)
(* later virtual time, in whatever state the breaker is by then; or it is  *)
(* given up and records none.                                              *)
(***************************************************************************)
EXTENDS Integers, FiniteSets

CONSTANTS Call,
          FailureThreshold, ResetTimeout, SuccessThreshold,
          Horizon    \* bound on the virtual clock

\* What the constructor asks for: it does not check halfOpenSuccessThreshold.
ASSUME BreakerAssumption ==
  /\ FailureThreshold \in Nat \ {0} /\ ResetTimeout \in Nat \ {0}
  /\ SuccessThreshold \in Int /\ Horizon \in Nat

VARIABLES
  breaker,   \* the object: state, failures, successes, openedAt
  clock,
  running,   \* calls that were admitted and have no result yet
  streak,    \* history: failures recorded since a success, a closing or a reset
  tripped,   \* history: when the breaker last opened, if not reset since
  probes     \* history: running calls that HALF_OPEN, as it is now, admitted

breakerVars == <<breaker, clock, running, streak, tripped, probes>>

Closed == [state |-> "CLOSED", failures |-> 0, successes |-> 0, openedAt |-> 0]

BreakerTypeOK ==
  /\ breaker \in [state : {"CLOSED", "OPEN", "HALF_OPEN"}, failures : Nat,
                  successes : Nat, openedAt : Nat]
  /\ clock \in Nat /\ streak \in Nat
  /\ running \subseteq Call /\ probes \subseteq Call
  /\ tripped \in [ever : BOOLEAN, at : Nat]

BreakerInit ==
  /\ breaker = Closed
  /\ clock = 0
  /\ running = {} /\ probes = {}
  /\ streak = 0
  /\ tripped = [ever |-> FALSE, at |-> 0]

-----------------------------------------------------------------------------

Due == clock >= breaker.openedAt + ResetTimeout

\* What canExecute answers.
Admits ==
  \/ breaker.state = "CLOSED"
  \/ breaker.state = "OPEN" /\ Due
  \/ breaker.state = "HALF_OPEN" /\ breaker.successes < SuccessThreshold

CanExecute(c) ==
  /\ c \notin running /\ Admits
  /\ breaker' = IF breaker.state = "OPEN"
                THEN [breaker EXCEPT !.state = "HALF_OPEN", !.successes = 0]
                ELSE breaker
  /\ running' = running \cup {c}
  /\ probes' = IF breaker'.state = "HALF_OPEN" THEN probes \cup {c} ELSE probes
  /\ UNCHANGED <<clock, streak, tripped>>

\* In state OPEN a success changes nothing.
AfterSuccess ==
  CASE breaker.state = "CLOSED" -> [breaker EXCEPT !.failures = 0]
    [] breaker.state = "HALF_OPEN" ->
         IF breaker.successes + 1 >= SuccessThreshold
         THEN [breaker EXCEPT !.state = "CLOSED", !.failures = 0, !.successes = 0]
         ELSE [breaker EXCEPT !.successes = @ + 1]
    [] OTHER -> breaker

RecordSuccess(c) ==
  /\ c \in running
  /\ breaker' = AfterSuccess
  /\ streak' = 0
  /\ running' = running \ {c}
  /\ probes' = IF breaker'.state = "HALF_OPEN" THEN probes \ {c} ELSE {}
  /\ UNCHANGED <<clock, tripped>>

Opened == [breaker EXCEPT !.state = "OPEN", !.openedAt = clock]

\* Mutant: a failure that is recorded in state OPEN starts the timeout anew.
AfterAnyFailure ==
  IF breaker.state = "CLOSED" /\ breaker.failures + 1 < FailureThreshold
  THEN [breaker EXCEPT !.failures = @ + 1]
  ELSE [Opened EXCEPT !.successes = 0]

\* In state OPEN a failure changes nothing.
AfterFailure ==
  CASE breaker.state = "CLOSED" ->
         [(IF breaker.failures + 1 >= FailureThreshold THEN Opened ELSE breaker)
            EXCEPT !.failures = @ + 1]
    [] breaker.state = "HALF_OPEN" -> [Opened EXCEPT !.successes = 0]
    [] OTHER -> breaker

RecordFailure(c) ==
  /\ c \in running
  /\ breaker' = AfterFailure
  /\ streak' = streak + 1
  /\ tripped' = IF breaker.state # "OPEN" /\ AfterFailure.state = "OPEN"
                THEN [ever |-> TRUE, at |-> clock] ELSE tripped
  /\ running' = running \ {c}
  /\ probes' = {}
  /\ UNCHANGED clock

\* The caller forgets the call.
GiveUp(c) ==
  /\ c \in running
  /\ running' = running \ {c} /\ probes' = probes \ {c}
  /\ UNCHANGED <<breaker, clock, streak, tripped>>

ResetBreaker ==
  /\ breaker' = Closed
  /\ streak' = 0
  /\ tripped' = [tripped EXCEPT !.ever = FALSE]
  /\ probes' = {}
  /\ UNCHANGED <<clock, running>>

Elapse ==
  /\ clock < Horizon
  /\ clock' = clock + 1
  /\ UNCHANGED <<breaker, running, streak, tripped, probes>>

BreakerNext ==
  \/ \E c \in Call : CanExecute(c) \/ RecordSuccess(c) \/ RecordFailure(c) \/ GiveUp(c)
  \/ ResetBreaker
  \/ Elapse

BreakerSpec == BreakerInit /\ [][BreakerNext]_breakerVars

-----------------------------------------------------------------------------
(* Properties                                                              *)

\* Whatever results of earlier calls still come in, and in whatever state, a
\* breaker that is OPEN refuses for the timeout that began when it last opened,
\* and no longer, although nobody reports.
RefusesForItsTimeout ==
  breaker.state = "OPEN" =>
    tripped.ever /\ (~Admits <=> clock < tripped.at + ResetTimeout)

\* It opens for FailureThreshold failures without a success in between, or for one
\* after it was HALF_OPEN, and never twice within one timeout.
TripsForACause ==
  breaker'.state = "OPEN" /\ breaker.state # "OPEN" =>
    /\ breaker.state = "CLOSED" => streak' >= FailureThreshold
    /\ tripped.ever => clock >= tripped.at + ResetTimeout

\* Both of these at every step: what canExecute, recordSuccess and recordFailure owe
\* to callers whose results come late.
BreakerKeepsItsWord == [][TripsForACause /\ RefusesForItsTimeout']_breakerVars

\* `In HALF_OPEN, allow probe calls up to threshold': of the calls HALF_OPEN has
\* admitted no more are without a result.  The code compares the successes with
\* the threshold, not the calls, so it admits any number (circuit-breaker.ts).
ProbesAreLimited ==
  breaker.state = "HALF_OPEN" => Cardinality(probes) <= SuccessThreshold
=============================================================================
