--------------------------- MODULE CapacitySearch ---------------------------
(***************************************************************************)
(* runBisectionSearch of packages/capacity-search, and what                *)
(* CapacitySearchEngine answers.  The evaluator is awaited once per        *)
(* candidate and may measure anything, another result for the same rate    *)
(* included: it may be a simulation or a benchmark.  Which component       *)
(* limits the system is left out; the answer names the evaluation it was   *)
(* taken from.                                                             *)
(***************************************************************************)
EXTENDS Integers, SequencesExt

CONSTANTS Search,         \* [min, max, check] of the searches to make
          Tolerance, MaxIterations,
          Gap, MinStep,   \* 100 and 10 in the code, whose rates are larger
          Measured,       \* what the evaluator may answer: [p99, errors]
          Slo             \* [p99, errors]

ASSUME SearchAssumption ==
  /\ \A s \in Search : {s.min, s.max} \subseteq Nat /\ s.min <= s.max /\ s.check \in BOOLEAN
  /\ {Tolerance, MaxIterations, MinStep} \subseteq Nat \ {0} /\ Gap \in Nat

VARIABLES
  search,   \* the options
  phase,    \* where the call is
  steps,    \* the evaluations, in order
  span,     \* [low, high, best] of the bisection or the sweep
  round,    \* iteration
  strange   \* nonMonotonicDetected

searchVars == <<search, phase, steps, span, round, strange>>

SearchInit ==
  /\ search \in Search
  /\ phase = IF search.check /\ search.max > search.min + Gap THEN "probe" ELSE "bisect"
  /\ steps = << >>
  /\ span = [low |-> search.min, high |-> search.max, best |-> search.min]
  /\ round = 0 /\ strange = FALSE

-----------------------------------------------------------------------------

\* Math.round(n / d)
Round(n, d) == (2 * n + d) \div (2 * d)

Passes(m) == m.p99 <= Slo.p99 /\ m.errors <= Slo.errors

Evaluate(rps, m) == steps' = Append(steps, [rps |-> rps, p99 |-> m.p99, errors |-> m.errors])

\* Load is shed: more errors and less latency.
Shed(prev, curr) == curr.errors > prev.errors /\ curr.p99 < prev.p99

-----------------------------------------------------------------------------
(* The coarse check: four probes, then sweep or bisection                  *)

Width == search.max - search.min
ProbePoints == <<search.min, search.min + Round(33 * Width, 100),
                 search.min + Round(66 * Width, 100), search.max>>

NonMonotonic(probes) ==
  \E i \in 2..Len(probes) :
    \/ ~Passes(probes[i - 1]) /\ Passes(probes[i])
    \/ Shed(probes[i - 1], probes[i])

StepSize == LET tenth == Round(Width, 10) IN IF tenth < MinStep THEN MinStep ELSE tenth

Probe(m) ==
  /\ phase = "probe"
  /\ Evaluate(ProbePoints[Len(steps) + 1], m)
  /\ strange' = (Len(steps) = 3 /\ NonMonotonic(steps'))
  /\ phase' = CASE Len(steps) < 3 -> "probe" [] strange' -> "sweep" [] OTHER -> "bisect"
  /\ span' = IF strange' THEN [span EXCEPT !.low = search.min + StepSize] ELSE span
  /\ UNCHANGED <<search, round>>

\* The sweep goes up from the lowest rate to the first that fails.
Sweep(m) ==
  /\ phase = "sweep" /\ span.low <= search.max
  /\ Evaluate(span.low, m)
  /\ IF Passes(m)
     THEN span' = [span EXCEPT !.best = span.low, !.low = @ + StepSize] /\ UNCHANGED phase
     ELSE phase' = "swept" /\ UNCHANGED span
  /\ UNCHANGED <<search, round, strange>>

EndSweep ==
  /\ phase = "sweep" /\ span.low > search.max
  /\ phase' = "swept"
  /\ UNCHANGED <<search, steps, span, round, strange>>

-----------------------------------------------------------------------------
(* Bisection                                                               *)

Wide == span.high - span.low > Tolerance /\ round < MaxIterations

\* Mutant: the best rate is the last one tried.
BestIsTheLast(mid, m) ==
  IF Passes(m) THEN [span EXCEPT !.low = mid, !.best = mid]
  ELSE [span EXCEPT !.high = mid, !.best = mid]

Narrowed(mid, m) ==
  IF Passes(m) THEN [span EXCEPT !.low = mid, !.best = mid] ELSE [span EXCEPT !.high = mid]

Bisect(m) ==
  LET mid == Round(span.low + span.high, 2) IN
  /\ phase = "bisect" /\ Wide
  /\ Evaluate(mid, m)
  /\ span' = Narrowed(mid, m)
  /\ round' = round + 1
  /\ strange' = (strange \/ (steps # << >> /\ mid > Last(steps).rps /\ Shed(Last(steps), m)))
  /\ UNCHANGED <<search, phase>>

EndBisection ==
  /\ phase = "bisect" /\ ~Wide
  /\ phase' = "bisected"
  /\ UNCHANGED <<search, steps, span, round, strange>>

-----------------------------------------------------------------------------
(* CapacitySearchEngine.search                                             *)

Abs(n) == IF n < 0 THEN -n ELSE n

\* detectKneePoint: the points in the order of their rates, which the sort keeps
\* stable; the first inner one of those farthest from the chord of the curve.
KneePoint(points) ==
  LET before(i, j) == \/ points[i].rps < points[j].rps
                      \/ (points[i].rps = points[j].rps /\ i < j)
      lowest(I) == {i \in I : \A j \in I \ {i} : before(i, j)}
      first == CHOOSE i \in lowest(DOMAIN points) : TRUE
      last == CHOOSE i \in DOMAIN points : \A j \in DOMAIN points \ {i} : before(j, i)
      along(i) == points[i].rps - points[first].rps
      above(i) == points[i].p99 - points[first].p99
      distance(i) == Abs(above(i) * along(last) - along(i) * above(last))
      inner == DOMAIN points \ {first, last}
  IN  IF Len(points) < 3 \/ along(last) = 0 \/ above(last) = 0 THEN {}
      ELSE {points[i].rps :
              i \in lowest({i \in inner : \A j \in inner : distance(i) >= distance(j)})}

Result ==
  [maxSustainableRps |-> span.best,
   strategy |-> IF phase = "swept" THEN "ADAPTIVE_SWEEP" ELSE "BISECTION",
   nonMonotonicDetected |-> strange,
   sloSatisfied |-> \E i \in DOMAIN steps : Passes(steps[i]),
   kneeRps |-> KneePoint(steps),
   bottleneckOf |-> IF steps = << >> THEN {} ELSE {Last(steps).rps}]

-----------------------------------------------------------------------------
SearchNext ==
  \/ \E m \in Measured : Probe(m) \/ Sweep(m) \/ Bisect(m)
  \/ EndSweep \/ EndBisection

SearchSpec == SearchInit /\ [][SearchNext]_searchVars

-----------------------------------------------------------------------------
(* Properties                                                              *)

Passed == {s.rps : s \in {s \in ToSet(steps) : Passes(s)}}
Failed == {s.rps : s \in {s \in ToSet(steps) : ~Passes(s)}}

\* The answer is a rate that passed, or the lowest one.  A bisection that was not cut
\* off ends within the tolerance below a rate that failed, or the highest one.  If
\* what was measured is monotonic, no rate that passed is missed by more than the
\* tolerance, or a step of the sweep; and an SLO that nothing satisfied is reported.
AnswerIsMeasured ==
  phase \in {"swept", "bisected"} =>
    LET best == Result.maxSustainableRps IN
    /\ best \in Passed \cup {search.min}
    /\ phase = "bisected" /\ round < MaxIterations =>
         \E rps \in Failed \cup {search.max} : best <= rps /\ rps <= best + Tolerance
    /\ (\A p \in Passed, f \in Failed : p < f) /\ round < MaxIterations =>
         \A p \in Passed : p <= best + (IF phase = "swept" THEN StepSize ELSE Tolerance)
    /\ Result.sloSatisfied = (Passed # {})
    /\ Result.kneeRps \subseteq {steps[i].rps : i \in DOMAIN steps}
=============================================================================
