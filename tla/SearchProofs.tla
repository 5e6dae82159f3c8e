---------------------------- MODULE SearchProofs ----------------------------
(***************************************************************************)
(* Theorems about the two searches that await an evaluator which may       *)
(* answer anything: the capacity search, for any options, tolerance and    *)
(* SLO, and the calibration, for any parameters and losses.                *)
(***************************************************************************)
EXTENDS CapacitySearch, Calibration, SequenceTheorems, TLAPS

-----------------------------------------------------------------------------
(* CAPACITY SEARCH                                                         *)

-----------------------------------------------------------------------------
(* The invariant.                                                          *)

Evaluation ==
  [rps : Nat, p99 : {m.p99 : m \in Measured}, errors : {m.errors : m \in Measured}]

SearchTypeOK ==
  /\ search \in Search
  /\ phase \in {"probe", "sweep", "swept", "bisect", "bisected"}
  /\ steps \in Seq(Evaluation)
  /\ span \in [low : Nat, high : Nat, best : Nat]
  /\ round \in Nat

\* While it probes, nothing is known.
Unprobed == phase = "probe" =>
  /\ Len(steps) <= 3
  /\ span = [low |-> search.min, high |-> search.max, best |-> search.min]

\* A bisection looks between the best rate and one that failed, or the highest.
Bracketed == phase \in {"bisect", "bisected"} =>
  /\ span.low = span.best /\ search.min <= span.low
  /\ span.low <= span.high /\ span.high <= search.max
  /\ span.high \in Failed \cup {search.max}
  /\ phase = "bisected" => ~Wide

\* A sweep is one step above the best rate, and ends above the highest or at one
\* that failed.
SweptSoFar == phase \in {"sweep", "swept"} =>
  /\ span.low = span.best + StepSize /\ search.min <= span.low
  /\ phase = "swept" => span.low > search.max \/ span.low \in Failed

SearchInv ==
  /\ SearchTypeOK
  /\ \A i \in DOMAIN steps : steps[i].rps \in search.min .. search.max
  /\ span.best \in Passed \cup {search.min}
  /\ Unprobed
  /\ Bracketed
  /\ SweptSoFar

-----------------------------------------------------------------------------
(* Rates and evaluations.                                                  *)

LEMMA OptionsAreRates ==
  ASSUME search \in Search
  PROVE  /\ search.min \in Nat /\ search.max \in Nat /\ search.min <= search.max
         /\ Width \in Nat /\ StepSize \in Nat
<1>1. search.min \in Nat /\ search.max \in Nat /\ search.min <= search.max
  BY SearchAssumption
<1>2. Width \in Nat
  BY <1>1 DEF Width
<1>3. Round(Width, 10) \in Nat
  BY <1>2 DEF Round
<1>4. StepSize \in Nat
  BY <1>3, SearchAssumption DEF StepSize
<1>5. QED
  BY <1>1, <1>2, <1>4

LEMMA SameStepSize ==
  ASSUME search' = search
  PROVE  StepSize' = StepSize
<1>1. Width' = Width
  BY DEF Width
<1>2. QED
  BY <1>1 DEF StepSize, Round

\* The four probes are between the lowest and the highest rate.
LEMMA ProbesAreWithin ==
  ASSUME search \in Search, NEW n \in 1 .. 4
  PROVE  ProbePoints[n] \in search.min .. search.max /\ ProbePoints[n] \in Nat
<1>1. search.min \in Nat /\ search.max \in Nat /\ search.max = search.min + Width /\ Width \in Nat
  BY OptionsAreRates DEF Width
<1>2. Round(33 * Width, 100) \in 0 .. Width
  BY <1>1 DEF Round
<1>3. Round(66 * Width, 100) \in 0 .. Width
  BY <1>1 DEF Round
<1>4. n = 1 \/ n = 2 \/ n = 3 \/ n = 4
  OBVIOUS
<1>5. QED
  BY <1>1, <1>2, <1>3, <1>4 DEF ProbePoints

\* A bisection that is wide tries a rate in between.
LEMMA MiddleIsWithin ==
  ASSUME NEW low \in Nat, NEW high \in Nat, low <= high
  PROVE  Round(low + high, 2) \in low .. high
BY DEF Round

\* An evaluation is added to those that passed or to those that failed.
LEMMA EvaluateAdds ==
  ASSUME steps \in Seq(Evaluation), NEW r \in Nat, NEW m \in Measured, Evaluate(r, m)
  PROVE  /\ steps' \in Seq(Evaluation) /\ Len(steps') = Len(steps) + 1
         /\ \A i \in DOMAIN steps' : (i \in DOMAIN steps /\ steps'[i] = steps[i]) \/ steps'[i].rps = r
         /\ Passed \subseteq Passed' /\ Failed \subseteq Failed'
         /\ Passes(m) => r \in Passed'
         /\ ~Passes(m) => r \in Failed'
<1> DEFINE e == [rps |-> r, p99 |-> m.p99, errors |-> m.errors]
<1>1. e \in Evaluation
  BY DEF Evaluation
<1>2. steps' = Append(steps, e)
  BY DEF Evaluate
<1>3. e.rps = r /\ Passes(e) = Passes(m)
  BY DEF Passes
<1> HIDE DEF e
<1>4. /\ steps' \in Seq(Evaluation) /\ Len(steps') = Len(steps) + 1
      /\ DOMAIN steps = 1 .. Len(steps) /\ DOMAIN steps' = 1 .. Len(steps) + 1
      /\ \A i \in DOMAIN steps : steps'[i] = steps[i]
      /\ steps'[Len(steps) + 1] = e
  BY <1>1, <1>2
<1>5. ToSet(steps') = ToSet(steps) \cup {e}
  BY <1>4 DEF ToSet
<1>6. Len(steps) + 1 \in DOMAIN steps'
  BY <1>4
<1>7. \A i \in DOMAIN steps' : (i \in DOMAIN steps /\ steps'[i] = steps[i]) \/ steps'[i].rps = r
  BY <1>3, <1>4
<1>8. /\ Passed' = {s.rps : s \in {s \in ToSet(steps') : Passes(s)}}
      /\ Failed' = {s.rps : s \in {s \in ToSet(steps') : ~Passes(s)}}
  BY DEF Passed, Failed, Passes
<1>9. /\ Passed \subseteq Passed' /\ Failed \subseteq Failed'
      /\ Passes(m) => r \in Passed'
      /\ ~Passes(m) => r \in Failed'
  BY <1>3, <1>5, <1>8 DEF Passed, Failed
<1>10. QED
  BY <1>4, <1>7, <1>9

-----------------------------------------------------------------------------
(* The steps.                                                              *)

LEMMA SearchInitInv == SearchInit => SearchInv
<1> SUFFICES ASSUME SearchInit PROVE SearchInv
  OBVIOUS
<1>1. search \in Search /\ search.min \in Nat /\ search.max \in Nat /\ search.min <= search.max
  BY OptionsAreRates DEF SearchInit
<1>2. Len(steps) = 0 /\ steps \in Seq(Evaluation) /\ DOMAIN steps = {}
  BY DEF SearchInit
<1>3. SearchTypeOK
  BY <1>1, <1>2 DEF SearchInit, SearchTypeOK
<1>4. Unprobed /\ Bracketed /\ SweptSoFar
  BY <1>1, <1>2 DEF SearchInit, Unprobed, Bracketed, SweptSoFar
<1>5. QED
  BY <1>2, <1>3, <1>4 DEF SearchInit, SearchInv

LEMMA ProbeStep ==
  ASSUME SearchInv, NEW m \in Measured, Probe(m)
  PROVE  SearchInv'
<1>0. Len(steps) \in Nat /\ Len(steps) <= 3
  <2>1. steps \in Seq(Evaluation) /\ Len(steps) <= 3
    BY DEF SearchInv, SearchTypeOK, Unprobed, Probe
  <2>2. QED
    BY <2>1
<1>1. /\ phase = "probe" /\ search' = search /\ round' = round
      /\ search \in Search /\ steps \in Seq(Evaluation) /\ round \in Nat
      /\ span = [low |-> search.min, high |-> search.max, best |-> search.min]
      /\ \A i \in DOMAIN steps : steps[i].rps \in search.min .. search.max
  BY DEF SearchInv, SearchTypeOK, Unprobed, Probe
<1>2. /\ search.min \in Nat /\ search.max \in Nat /\ search.min <= search.max
      /\ StepSize' = StepSize /\ StepSize \in Nat
  BY <1>1, OptionsAreRates, SameStepSize
<1>3. PICK r \in search.min .. search.max : r \in Nat /\ Evaluate(r, m)
  <2>1. Len(steps) + 1 \in 1 .. 4
    BY <1>0
  <2>2. /\ ProbePoints[Len(steps) + 1] \in search.min .. search.max
        /\ ProbePoints[Len(steps) + 1] \in Nat
    BY <1>1, <2>1, ProbesAreWithin
  <2>3. Evaluate(ProbePoints[Len(steps) + 1], m)
    BY DEF Probe
  <2>4. QED
    BY <2>2, <2>3
<1>4. /\ steps' \in Seq(Evaluation) /\ Len(steps') = Len(steps) + 1
      /\ \A i \in DOMAIN steps' : steps'[i].rps \in search.min .. search.max
  BY <1>1, <1>3, EvaluateAdds
<1>5. /\ phase' \in {"probe", "sweep", "bisect"}
      /\ (phase' = "probe" => Len(steps) < 3 /\ ~strange')
      /\ (phase' = "sweep" => strange') /\ (phase' = "bisect" => ~strange')
  BY <1>0, <1>1 DEF Probe
<1>6. span' = IF strange' THEN [span EXCEPT !.low = search.min + StepSize] ELSE span
  BY DEF Probe
<1>7. /\ span' \in [low : Nat, high : Nat, best : Nat] /\ span'.best = search.min
      /\ strange' => span'.low = search.min + StepSize
      /\ ~strange' => span' = span
  BY <1>1, <1>2, <1>6
<1>8. SearchTypeOK'
  BY <1>0, <1>1, <1>4, <1>5, <1>7 DEF SearchTypeOK
<1>9. Unprobed' /\ SweptSoFar' /\ Bracketed'
  <2>1. Unprobed'
    BY <1>0, <1>1, <1>4, <1>5, <1>7 DEF Unprobed
  <2>2. SweptSoFar'
    BY <1>1, <1>2, <1>5, <1>7 DEF SweptSoFar
  <2>3. Bracketed'
    BY <1>1, <1>2, <1>5, <1>7 DEF Bracketed
  <2>4. QED
    BY <2>1, <2>2, <2>3
<1>10. QED
  BY <1>1, <1>4, <1>7, <1>8, <1>9 DEF SearchInv

LEMMA SweepStep ==
  ASSUME SearchInv, NEW m \in Measured, Sweep(m)
  PROVE  SearchInv'
<1>1. /\ phase = "sweep" /\ search' = search /\ round' = round
      /\ search \in Search /\ steps \in Seq(Evaluation) /\ round \in Nat
      /\ span \in [low : Nat, high : Nat, best : Nat]
      /\ span.best \in Passed \cup {search.min}
      /\ span.low = span.best + StepSize /\ search.min <= span.low /\ span.low <= search.max
      /\ \A i \in DOMAIN steps : steps[i].rps \in search.min .. search.max
  BY DEF SearchInv, SearchTypeOK, SweptSoFar, Sweep
<1>2. /\ search.min \in Nat /\ search.max \in Nat /\ search.min <= search.max
      /\ StepSize' = StepSize /\ StepSize \in Nat
  BY <1>1, OptionsAreRates, SameStepSize
<1>3. span.low \in search.min .. search.max /\ span.low \in Nat
  BY <1>1, <1>2
<1>4. /\ steps' \in Seq(Evaluation)
      /\ \A i \in DOMAIN steps' : steps'[i].rps \in search.min .. search.max
      /\ Passed \subseteq Passed'
      /\ Passes(m) => span.low \in Passed'
      /\ ~Passes(m) => span.low \in Failed'
  BY <1>1, <1>3, EvaluateAdds DEF Sweep
<1>5. CASE Passes(m)
  <2>1. /\ span' = [span EXCEPT !.best = span.low, !.low = @ + StepSize] /\ phase' = "sweep"
    BY <1>1, <1>5 DEF Sweep
  <2>2. /\ span' \in [low : Nat, high : Nat, best : Nat]
        /\ span'.best = span.low /\ span'.low = span.low + StepSize
    <3>1. span.low + StepSize \in Nat
      BY <1>1, <1>2
    <3>2. span' = [low |-> span.low + StepSize, high |-> span.high, best |-> span.low]
      BY <1>1, <2>1
    <3>3. QED
      BY <1>1, <3>1, <3>2
  <2>3. SearchTypeOK'
    BY <1>1, <1>4, <2>1, <2>2 DEF SearchTypeOK
  <2>4. SweptSoFar'
    BY <1>1, <1>2, <2>1, <2>2 DEF SweptSoFar
  <2>5. Unprobed' /\ Bracketed'
    BY <2>1 DEF Unprobed, Bracketed
  <2>6. QED
    BY <1>1, <1>4, <1>5, <2>2, <2>3, <2>4, <2>5 DEF SearchInv
<1>6. CASE ~Passes(m)
  <2>1. span' = span /\ phase' = "swept"
    BY <1>6 DEF Sweep
  <2>2. SearchTypeOK'
    BY <1>1, <1>4, <2>1 DEF SearchTypeOK
  <2>3. SweptSoFar'
    BY <1>1, <1>2, <1>4, <1>6, <2>1 DEF SweptSoFar
  <2>4. Unprobed' /\ Bracketed'
    BY <2>1 DEF Unprobed, Bracketed
  <2>5. QED
    BY <1>1, <1>4, <2>1, <2>2, <2>3, <2>4 DEF SearchInv
<1>7. QED
  BY <1>5, <1>6

LEMMA EndSweepStep ==
  ASSUME SearchInv, EndSweep
  PROVE  SearchInv'
<1>1. /\ phase = "sweep" /\ phase' = "swept" /\ span.low > search.max
      /\ UNCHANGED <<search, steps, span, round>>
  BY DEF EndSweep
<1>2. Passed' = Passed /\ StepSize' = StepSize
  BY <1>1 DEF Passed, Passes, StepSize, Width
<1>3. SearchTypeOK'
  BY <1>1 DEF SearchInv, SearchTypeOK
<1>4. Unprobed' /\ Bracketed' /\ SweptSoFar'
  BY <1>1, <1>2 DEF SearchInv, Unprobed, Bracketed, SweptSoFar
<1>5. QED
  BY <1>1, <1>2, <1>3, <1>4 DEF SearchInv

LEMMA BisectStep ==
  ASSUME SearchInv, NEW m \in Measured, Bisect(m)
  PROVE  SearchInv'
<1> DEFINE mid == Round(span.low + span.high, 2)
<1>1. /\ phase = "bisect" /\ search' = search /\ round' = round + 1 /\ phase' = "bisect"
      /\ search \in Search /\ steps \in Seq(Evaluation) /\ round \in Nat
      /\ span \in [low : Nat, high : Nat, best : Nat]
      /\ span.best \in Passed \cup {search.min}
      /\ span.low = span.best /\ search.min <= span.low
      /\ span.low <= span.high /\ span.high <= search.max
      /\ span.high \in Failed \cup {search.max}
      /\ \A i \in DOMAIN steps : steps[i].rps \in search.min .. search.max
  BY DEF SearchInv, SearchTypeOK, Bracketed, Bisect
<1>2. search.min \in Nat /\ search.max \in Nat /\ search.min <= search.max
  BY <1>1, OptionsAreRates
<1>3. mid \in span.low .. span.high
  BY <1>1, MiddleIsWithin
<1>4. Evaluate(mid, m) /\ span' = Narrowed(mid, m)
  BY DEF Bisect
<1> HIDE DEF mid
<1>5. mid \in Nat /\ mid \in search.min .. search.max
  BY <1>1, <1>2, <1>3
<1>6. /\ steps' \in Seq(Evaluation)
      /\ \A i \in DOMAIN steps' : steps'[i].rps \in search.min .. search.max
      /\ Passed \subseteq Passed' /\ Failed \subseteq Failed'
      /\ Passes(m) => mid \in Passed'
      /\ ~Passes(m) => mid \in Failed'
  BY <1>1, <1>4, <1>5, EvaluateAdds
<1>7. /\ span' \in [low : Nat, high : Nat, best : Nat]
      /\ Passes(m) => span'.low = mid /\ span'.best = mid /\ span'.high = span.high
      /\ ~Passes(m) => span'.low = span.low /\ span'.best = span.best /\ span'.high = mid
  BY <1>1, <1>4, <1>5 DEF Narrowed
<1>8. SearchTypeOK'
  BY <1>1, <1>6, <1>7 DEF SearchTypeOK
<1>9. span'.best \in Passed' \cup {search.min} /\ span'.high \in Failed' \cup {search.max}
  BY <1>1, <1>6, <1>7
<1>10. Bracketed'
  <2>1. span'.low = span'.best /\ search.min <= span'.low
    BY <1>1, <1>5, <1>7
  <2>2. span'.low <= span'.high /\ span'.high <= search.max
    BY <1>1, <1>3, <1>5, <1>7
  <2>3. QED
    BY <1>1, <1>9, <2>1, <2>2 DEF Bracketed
<1>11. Unprobed' /\ SweptSoFar'
  BY <1>1 DEF Unprobed, SweptSoFar
<1>12. QED
  BY <1>1, <1>6, <1>8, <1>9, <1>10, <1>11 DEF SearchInv

LEMMA EndBisectionStep ==
  ASSUME SearchInv, EndBisection
  PROVE  SearchInv'
<1>1. /\ phase = "bisect" /\ phase' = "bisected" /\ ~Wide
      /\ UNCHANGED <<search, steps, span, round>>
  BY DEF EndBisection
<1>2. Passed' = Passed /\ Failed' = Failed /\ Wide' = Wide
  BY <1>1 DEF Passed, Failed, Passes, Wide
<1>3. SearchTypeOK'
  BY <1>1 DEF SearchInv, SearchTypeOK
<1>4. Unprobed' /\ Bracketed' /\ SweptSoFar'
  BY <1>1, <1>2 DEF SearchInv, Unprobed, Bracketed, SweptSoFar
<1>5. QED
  BY <1>1, <1>2, <1>3, <1>4 DEF SearchInv

LEMMA SearchInvariant == SearchSpec => []SearchInv
<1>1. SearchInv /\ [SearchNext]_searchVars => SearchInv'
  <2> SUFFICES ASSUME SearchInv, [SearchNext]_searchVars PROVE SearchInv'
    OBVIOUS
  <2>1. CASE UNCHANGED searchVars
    <3>1. UNCHANGED <<search, phase, steps, span, round>>
      BY <2>1 DEF searchVars
    <3>2. /\ Passed' = Passed /\ Failed' = Failed /\ Wide' = Wide /\ StepSize' = StepSize
          /\ SearchTypeOK'
      BY <3>1 DEF Passed, Failed, Passes, Wide, StepSize, Width, SearchInv, SearchTypeOK
    <3>3. Unprobed' /\ Bracketed' /\ SweptSoFar'
      BY <3>1, <3>2 DEF SearchInv, Unprobed, Bracketed, SweptSoFar
    <3>4. QED
      BY <3>1, <3>2, <3>3 DEF SearchInv
  <2>2. QED
    BY <2>1, ProbeStep, SweepStep, EndSweepStep, BisectStep, EndBisectionStep DEF SearchNext
<1>2. QED
  BY SearchInitInv, <1>1, PTL DEF SearchSpec

-----------------------------------------------------------------------------
(* What the search answers.                                                *)

\* The knee is one of the rates.
LEMMA KneeIsARate ==
  KneePoint(steps) \subseteq {steps[i].rps : i \in DOMAIN steps}
BY DEF KneePoint

\* The rate a capacity search answers was measured within the SLO, or is the lowest; a
\* bisection ends within the tolerance of a rate that failed, or the highest; when what
\* was measured is monotonic, no rate that passed is missed by more than the tolerance,
\* or a step of the sweep; and the knee is a rate that was measured: runBisectionSearch
\* and detectKneePoint, whatever the evaluator answers and however often.
THEOREM CapacityIsMeasured == SearchSpec => []AnswerIsMeasured
<1>1. SearchInv => AnswerIsMeasured
  <2> SUFFICES ASSUME SearchInv, phase \in {"swept", "bisected"}
               PROVE  /\ span.best \in Passed \cup {search.min}
                      /\ phase = "bisected" /\ round < MaxIterations =>
                           \E rps \in Failed \cup {search.max} :
                             span.best <= rps /\ rps <= span.best + Tolerance
                      /\ (\A p \in Passed, f \in Failed : p < f) /\ round < MaxIterations =>
                           \A p \in Passed :
                             p <= span.best + (IF phase = "swept" THEN StepSize ELSE Tolerance)
                      /\ (\E i \in DOMAIN steps : Passes(steps[i])) = (Passed # {})
                      /\ KneePoint(steps) \subseteq {steps[i].rps : i \in DOMAIN steps}
    BY DEF AnswerIsMeasured, Result
  <2>1. /\ search.min \in Nat /\ search.max \in Nat /\ StepSize \in Nat
        /\ span \in [low : Nat, high : Nat, best : Nat] /\ round \in Nat
        /\ Tolerance \in Nat /\ MaxIterations \in Nat
    BY OptionsAreRates, SearchAssumption DEF SearchInv, SearchTypeOK
  <2>2. \A p \in Passed : p \in Nat /\ p <= search.max
    BY <2>1 DEF SearchInv, Passed, ToSet
  <2>3. CASE phase = "bisected"
    <3>1. /\ span.low = span.best /\ span.low <= span.high /\ span.high <= search.max
          /\ span.high \in Failed \cup {search.max} /\ ~Wide
      BY <2>3 DEF SearchInv, Bracketed
    <3>2. ASSUME round < MaxIterations PROVE span.high <= span.best + Tolerance
      BY <2>1, <3>1, <3>2 DEF Wide
    <3>3. ASSUME round < MaxIterations, \A p \in Passed, f \in Failed : p < f, NEW p \in Passed
          PROVE  p <= span.best + Tolerance
      <4>1. p <= span.high
        BY <2>1, <2>2, <3>1, <3>3
      <4>2. QED
        BY <2>1, <2>2, <3>2, <3>3, <4>1
    <3>4. (\E i \in DOMAIN steps : Passes(steps[i])) = (Passed # {})
      BY DEF Passed, ToSet
    <3>5. span.best \in Passed \cup {search.min}
      BY DEF SearchInv
    <3>6. round < MaxIterations => \E rps \in Failed \cup {search.max} :
                             span.best <= rps /\ rps <= span.best + Tolerance
      BY <3>1, <3>2
    <3>7. QED
      BY <2>3, <3>3, <3>4, <3>5, <3>6, KneeIsARate
  <2>4. CASE phase = "swept"
    <3>1. /\ span.low = span.best + StepSize
          /\ span.low > search.max \/ span.low \in Failed
      BY <2>4 DEF SearchInv, SweptSoFar
    <3>2. ASSUME \A p \in Passed, f \in Failed : p < f, NEW p \in Passed
          PROVE  p <= span.best + StepSize
      BY <2>1, <2>2, <3>1, <3>2
    <3>3. (\E i \in DOMAIN steps : Passes(steps[i])) = (Passed # {})
      BY DEF Passed, ToSet
    <3>4. span.best \in Passed \cup {search.min}
      BY DEF SearchInv
    <3>5. QED
      BY <2>4, <3>2, <3>3, <3>4, KneeIsARate
  <2>5. QED
    BY <2>3, <2>4
<1>2. QED
  BY SearchInvariant, <1>1, PTL

-----------------------------------------------------------------------------
(* CALIBRATION                                                             *)

-----------------------------------------------------------------------------
(* The invariant.                                                          *)

Place == [cycle : Nat, unit : Nat \ {0}, param : Nat, cand : 0 .. 8, from : Int,
          improved : BOOLEAN]

CalibrationTypeOK ==
  /\ stage \in {"initial", "pass", "found", "answered"}
  /\ current \in [DOMAIN Parameter -> Int]
  /\ best \in [loss : Nat, value : Int]
  /\ place \in Place
  /\ least \in [loss : Nat, params : [DOMAIN Parameter -> Int]]

\* In a pass over one parameter the least loss was had with its best value and the
\* others as they are.
Passing == stage = "pass" =>
  /\ place.param \in DOMAIN Parameter
  /\ best.loss = least.loss
  /\ least.params = [current EXCEPT ![place.param] = best.value]
  /\ place.cand = 0 => current[place.param] = best.value

Settling == stage \in {"found", "answered"} =>
  best.loss = least.loss /\ least.params = current

CalibrationInv == CalibrationTypeOK /\ Passing /\ Settling

-----------------------------------------------------------------------------
(* The candidates of a pass.                                               *)

LEMMA MaxOfTwo ==
  ASSUME NEW a \in Int, NEW b \in Int
  PROVE  Max({a, b}) \in Int
<1>1. \E x \in {a, b} : \A y \in {a, b} : x >= y
  <2>1. CASE a >= b
    BY <2>1
  <2>2. CASE b >= a
    BY <2>2
  <2>3. QED
    BY <2>1, <2>2
<1>2. QED
  BY <1>1 DEF Max

LEMMA MinOfTwo ==
  ASSUME NEW a \in Int, NEW b \in Int
  PROVE  Min({a, b}) \in Int
<1>1. \E x \in {a, b} : \A y \in {a, b} : x <= y
  <2>1. CASE a <= b
    BY <2>1
  <2>2. CASE b <= a
    BY <2>2
  <2>3. QED
    BY <2>1, <2>2
<1>2. QED
  BY <1>1 DEF Min

LEMMA ParametersAreIntegers ==
  ASSUME NEW i \in DOMAIN Parameter
  PROVE  /\ Parameter[i].min \in Int /\ Parameter[i].max \in Int
         /\ Parameter[i].start \in Int
<1>1. Parameter \in Seq([min : Int, max : Int, start : Int])
  BY CalibrationAssumption
<1>2. Parameter[i] \in [min : Int, max : Int, start : Int]
  <2>1. i \in 1 .. Len(Parameter)
    BY <1>1
  <2>2. QED
    BY <1>1, <2>1, ElementOfSeq
<1>3. QED
  BY <1>2

\* Whole numbers stay whole in eighths and when they are rounded.
LEMMA CandidateIsInteger ==
  ASSUME CalibrationTypeOK, place.param \in DOMAIN Parameter
  PROVE  Candidate \in Int
<1> DEFINE p == Parameter[place.param]
           u == place.unit
           h == 8 * (p.max - p.min)
           a == p.min * u
           b == place.from * u
           c == p.max * u
           low == Max({a, b - h})
           high == Min({c, b + h})
           exact == low + ((high - low) * place.cand) \div 8
           g == Grain * u
           w == 2 * Grain * u
<1>1. p.min \in Int /\ p.max \in Int
  BY ParametersAreIntegers
<1>2. u \in Nat \ {0} /\ place.cand \in 0 .. 8 /\ place.from \in Int
  BY DEF CalibrationTypeOK, Place
<1>3. Grain \in Nat \ {0}
  BY CalibrationAssumption
<1> HIDE DEF p, u
<1>4. h \in Int /\ a \in Int /\ b \in Int /\ c \in Int
  BY <1>1, <1>2
<1>5. g \in Int /\ w \in Nat \ {0}
  BY <1>2, <1>3
<1> HIDE DEF h, a, b, c, g, w
<1>6. low \in Int /\ high \in Int
  BY <1>4, MaxOfTwo, MinOfTwo
<1> HIDE DEF low, high
<1>7. exact \in Int
  BY <1>2, <1>6
<1> HIDE DEF exact
<1>8. (2 * exact + g) \div w \in Int
  BY <1>5, <1>7
<1>9. Grain * ((2 * exact + g) \div w) \in Int
  BY <1>3, <1>8
<1>10. QED
  BY <1>9 DEF Candidate, p, u, h, a, b, c, low, high, exact, g, w

-----------------------------------------------------------------------------
(* The steps.                                                              *)

LEMMA CalibrationInitInv == CalibrationInit => CalibrationInv
<1> SUFFICES ASSUME CalibrationInit PROVE CalibrationInv
  OBVIOUS
<1>1. current \in [DOMAIN Parameter -> Int]
  BY ParametersAreIntegers DEF CalibrationInit
<1>2. CalibrationTypeOK
  BY <1>1 DEF CalibrationInit, CalibrationTypeOK, Place
<1>3. QED
  BY <1>2 DEF CalibrationInit, CalibrationInv, Passing, Settling

\* A pass begins with the parameters that had the least loss.
LEMMA BeginPassInv ==
  ASSUME CalibrationTypeOK, NEW params \in [DOMAIN Parameter -> Int],
         NEW loss \in Nat, NEW cycle \in Nat, NEW param \in DOMAIN Parameter,
         NEW improved \in BOOLEAN, BeginPass(params, loss, cycle, param, improved),
         least' \in [loss : Nat, params : [DOMAIN Parameter -> Int]],
         least'.loss = loss, least'.params = params
  PROVE  CalibrationInv'
<1>1. /\ stage' = "pass" /\ current' = params
      /\ best' = [loss |-> loss, value |-> params[param]]
      /\ place' = [cycle |-> cycle, param |-> param, cand |-> 0,
                   unit |-> IF cycle = place.cycle THEN place.unit ELSE 2 * place.unit,
                   from |-> params[param], improved |-> improved]
  BY DEF BeginPass
<1>2. (IF cycle = place.cycle THEN place.unit ELSE 2 * place.unit) \in Nat \ {0}
  BY DEF CalibrationTypeOK, Place
<1>3. params[param] \in Int /\ param \in Nat
  <2>1. DOMAIN Parameter = 1 .. Len(Parameter) /\ Len(Parameter) \in Nat
    BY CalibrationAssumption
  <2>2. QED
    BY <2>1
<1>4. place' \in Place
  BY <1>1, <1>2, <1>3 DEF Place
<1>5. CalibrationTypeOK'
  BY <1>1, <1>3, <1>4 DEF CalibrationTypeOK
<1>6. least'.params = [current' EXCEPT ![param] = params[param]]
  BY <1>1
<1>7. Passing'
  BY <1>1, <1>3, <1>6 DEF Passing
<1>8. Settling'
  BY <1>1 DEF Settling
<1>9. QED
  BY <1>5, <1>7, <1>8 DEF CalibrationInv

LEMMA InitialStep ==
  ASSUME CalibrationInv, NEW loss \in Loss, EvaluateInitial(loss)
  PROVE  CalibrationInv'
<1>1. loss \in Nat
  BY CalibrationAssumption
<1>2. /\ current \in [DOMAIN Parameter -> Int] /\ CalibrationTypeOK
      /\ best \in [loss : Nat, value : Int]
  BY DEF CalibrationInv, CalibrationTypeOK
<1>3. least' = [loss |-> loss, params |-> current]
  BY DEF EvaluateInitial
<1>4. /\ least' \in [loss : Nat, params : [DOMAIN Parameter -> Int]]
      /\ least'.loss = loss /\ least'.params = current
  BY <1>1, <1>2, <1>3
<1>5. CASE Parameter = << >> \/ MaxCycles = 0
  <2>1. /\ stage' = "found" /\ best' = [best EXCEPT !.loss = loss]
        /\ current' = current /\ place' = place
    BY <1>5 DEF EvaluateInitial
  <2>2. best' \in [loss : Nat, value : Int] /\ best'.loss = loss
    BY <1>1, <1>2, <2>1
  <2>3. CalibrationTypeOK'
    BY <1>2, <1>4, <2>1, <2>2 DEF CalibrationTypeOK
  <2>4. Passing' /\ Settling'
    BY <1>4, <2>1, <2>2 DEF Passing, Settling
  <2>5. QED
    BY <2>3, <2>4 DEF CalibrationInv
<1>6. CASE ~(Parameter = << >> \/ MaxCycles = 0)
  <2>1. BeginPass(current, loss, 0, 1, FALSE)
    BY <1>6 DEF EvaluateInitial
  <2>2. 1 \in DOMAIN Parameter
    <3>1. Parameter \in Seq([min : Int, max : Int, start : Int]) /\ Parameter # << >>
      BY <1>6, CalibrationAssumption
    <3>2. Len(Parameter) \in Nat /\ Len(Parameter) # 0 /\ DOMAIN Parameter = 1 .. Len(Parameter)
      BY <3>1, EmptySeq
    <3>3. QED
      BY <3>2
  <2>3. QED
    BY <1>1, <1>2, <1>4, <2>1, <2>2, BeginPassInv
<1>7. QED
  BY <1>5, <1>6

\* With the candidate's loss the best value and the least loss move together.
LEMMA BestIsLeast ==
  ASSUME CalibrationInv, stage = "pass", NEW loss \in Loss,
         least' = IF loss < least.loss THEN [loss |-> loss, params |-> Tried] ELSE least
  PROVE  /\ Candidate \in Int
         /\ Best(loss) \in [loss : Nat, value : Int]
         /\ Tried \in [DOMAIN Parameter -> Int]
         /\ least' \in [loss : Nat, params : [DOMAIN Parameter -> Int]]
         /\ least'.loss = Best(loss).loss
         /\ least'.params = [current EXCEPT ![place.param] = Best(loss).value]
<1>1. /\ CalibrationTypeOK /\ place.param \in DOMAIN Parameter /\ best.loss = least.loss
      /\ least.params = [current EXCEPT ![place.param] = best.value]
  BY DEF CalibrationInv, Passing
<1>2. /\ place.param \in DOMAIN Parameter /\ current \in [DOMAIN Parameter -> Int]
      /\ best \in [loss : Nat, value : Int]
      /\ least \in [loss : Nat, params : [DOMAIN Parameter -> Int]]
      /\ loss \in Nat
  BY <1>1, CalibrationAssumption DEF CalibrationTypeOK
<1>4. Candidate \in Int
  BY <1>1, CandidateIsInteger
<1>5. Tried = [current EXCEPT ![place.param] = Candidate]
  BY DEF Tried
<1> HIDE DEF Candidate, Tried
<1>6. Tried \in [DOMAIN Parameter -> Int]
  BY <1>2, <1>4, <1>5
<1>7. CASE loss < least.loss
  <2>1. Best(loss) = [loss |-> loss, value |-> Candidate]
    BY <1>1, <1>7 DEF Best, Better
  <2>2. least' = [loss |-> loss, params |-> Tried]
    BY <1>7
  <2>3. /\ Best(loss) \in [loss : Nat, value : Int]
        /\ Best(loss).value = Candidate /\ Best(loss).loss = loss
    BY <1>2, <1>4, <2>1
  <2>4. /\ least' \in [loss : Nat, params : [DOMAIN Parameter -> Int]]
        /\ least'.loss = loss /\ least'.params = Tried
    BY <1>2, <1>6, <2>2
  <2>5. QED
    BY <1>4, <1>5, <1>6, <2>3, <2>4
<1>8. CASE ~(loss < least.loss)
  <2>1. Best(loss) = best
    BY <1>1, <1>8 DEF Best, Better
  <2>2. least' = least
    BY <1>8
  <2>3. QED
    BY <1>1, <1>2, <1>4, <1>6, <2>1, <2>2
<1>9. QED
  BY <1>7, <1>8

LEMMA CandidateStep ==
  ASSUME CalibrationInv, NEW loss \in Loss, EvaluateCandidate(loss)
  PROVE  CalibrationInv'
<1>1. /\ stage = "pass" /\ CalibrationTypeOK
      /\ least' = IF loss < least.loss THEN [loss |-> loss, params |-> Tried] ELSE least
  BY DEF EvaluateCandidate, CalibrationInv
<1>2. /\ Candidate \in Int
      /\ Best(loss) \in [loss : Nat, value : Int]
      /\ Tried \in [DOMAIN Parameter -> Int]
      /\ least' \in [loss : Nat, params : [DOMAIN Parameter -> Int]]
      /\ least'.loss = Best(loss).loss
      /\ least'.params = [current EXCEPT ![place.param] = Best(loss).value]
  BY <1>1, BestIsLeast
<1>3. /\ place \in Place /\ place.param \in DOMAIN Parameter
      /\ current \in [DOMAIN Parameter -> Int] /\ loss \in Nat
      /\ best \in [loss : Nat, value : Int]
  BY <1>1, CalibrationAssumption DEF CalibrationInv, CalibrationTypeOK, Passing
<1>4. Improved(loss) \in BOOLEAN
  BY <1>3 DEF Improved, Better, Place
<1>5. ASSUME place.cand < 8, current' = Tried, best' = Best(loss), stage' = stage,
             place' = [place EXCEPT !.cand = @ + 1, !.improved = Improved(loss)]
      PROVE  CalibrationInv'
  <2>1. Tried = [current EXCEPT ![place.param] = Candidate]
    BY DEF Tried
  <2>2. place' \in Place /\ place'.param = place.param /\ place'.cand # 0
    <3>1. place.cand + 1 \in 0 .. 8 /\ place.cand + 1 # 0
      BY <1>3, <1>5 DEF Place
    <3>2. place' = [cycle |-> place.cycle, unit |-> place.unit, param |-> place.param,
                    cand |-> place.cand + 1, from |-> place.from, improved |-> Improved(loss)]
      BY <1>3, <1>5 DEF Place
    <3>3. QED
      BY <1>3, <1>4, <3>1, <3>2 DEF Place
  <2>3. CalibrationTypeOK'
    BY <1>1, <1>2, <1>5, <2>2 DEF CalibrationTypeOK
  <2>4. least'.params = [current' EXCEPT ![place.param] = Best(loss).value]
    BY <1>2, <1>3, <1>5, <2>1
  <2>5. Passing'
    BY <1>2, <1>3, <1>5, <2>2, <2>4 DEF Passing
  <2>7. Settling'
    BY <1>1, <1>5 DEF Settling
  <2>8. QED
    BY <2>3, <2>5, <2>7 DEF CalibrationInv
<1>6. ASSUME EndPass(Settled(loss), Best(loss).loss, Improved(loss))
      PROVE  CalibrationInv'
  <2> DEFINE params == Settled(loss)
             least1 == Best(loss).loss
  <2>1. params = [current EXCEPT ![place.param] = Best(loss).value]
    BY DEF Settled
  <2>2. /\ params \in [DOMAIN Parameter -> Int]
        /\ least'.params = params /\ least'.loss = least1 /\ least1 \in Nat
    BY <1>1, <1>2, <1>3, <2>1
  <2> HIDE DEF params, least1
  <2>3. ASSUME place.param < Len(Parameter),
               BeginPass(params, least1, place.cycle, place.param + 1, Improved(loss))
        PROVE  CalibrationInv'
    <3>1. place.param + 1 \in DOMAIN Parameter
      <4>1. DOMAIN Parameter = 1 .. Len(Parameter) /\ Len(Parameter) \in Nat
        BY CalibrationAssumption
      <4>2. QED
        BY <1>3, <2>3, <4>1
    <3>2. place.cycle \in Nat
      BY <1>3 DEF Place
    <3>3. QED
      BY <1>1, <1>2, <1>4, <2>2, <2>3, <3>1, <3>2, BeginPassInv
  <2>4. ASSUME BeginPass(params, least1, place.cycle + 1, 1, FALSE)
        PROVE  CalibrationInv'
    <3>1. 1 \in DOMAIN Parameter
      <4>1. DOMAIN Parameter = 1 .. Len(Parameter) /\ Len(Parameter) \in Nat
        BY CalibrationAssumption
      <4>2. QED
        BY <1>3, <4>1
    <3>2. place.cycle + 1 \in Nat
      BY <1>3 DEF Place
    <3>3. QED
      BY <1>1, <1>2, <2>2, <2>4, <3>1, <3>2, BeginPassInv
  <2>5. ASSUME stage' = "found", current' = params, best' = [best EXCEPT !.loss = least1],
               place' = place
        PROVE  CalibrationInv'
    <3>1. best' \in [loss : Nat, value : Int] /\ best'.loss = least1
      BY <1>3, <2>2, <2>5
    <3>2. CalibrationTypeOK'
      BY <1>2, <1>3, <2>2, <2>5, <3>1 DEF CalibrationTypeOK
    <3>3. Passing' /\ Settling'
      BY <2>2, <2>5, <3>1 DEF Passing, Settling
    <3>4. QED
      BY <3>2, <3>3 DEF CalibrationInv
  <2>6. QED
    BY <1>6, <2>3, <2>4, <2>5 DEF EndPass, params, least1
<1>7. QED
  BY <1>5, <1>6 DEF EvaluateCandidate

LEMMA ClosedLoopStep ==
  ASSUME CalibrationInv, NEW aligned \in BOOLEAN, NEW validated \in BOOLEAN,
         ExecuteClosedLoop(aligned, validated)
  PROVE  CalibrationInv'
BY DEF CalibrationInv, CalibrationTypeOK, Passing, Settling, ExecuteClosedLoop

LEMMA CalibrationInvariant == CalibrationSpec => []CalibrationInv
<1>1. CalibrationInv /\ [CalibrationNext]_calibrationVars => CalibrationInv'
  <2> SUFFICES ASSUME CalibrationInv, [CalibrationNext]_calibrationVars PROVE CalibrationInv'
    OBVIOUS
  <2>1. CASE UNCHANGED calibrationVars
    BY <2>1 DEF calibrationVars, CalibrationInv, CalibrationTypeOK, Passing, Settling
  <2>2. QED
    BY <2>1, InitialStep, CandidateStep, ClosedLoopStep DEF CalibrationNext
<1>2. QED
  BY CalibrationInitInv, <1>1, PTL DEF CalibrationSpec

-----------------------------------------------------------------------------
(* What the calibration keeps.                                             *)

\* Between two passes of runCoordinateDescent and in its answer, the parameters are the
\* ones that had the least loss of all evaluations and the final loss is that loss, for
\* any parameters, limits and starts, any number of cycles and any losses.
THEOREM LeastLossSurvives == CalibrationSpec => []LeastLossIsKept
<1>1. CalibrationInv => LeastLossIsKept
  <2> SUFFICES ASSUME CalibrationInv, place.cand = 0 \/ stage \in {"found", "answered"},
                      stage # "initial"
               PROVE  best.loss = least.loss /\ current = least.params
    BY DEF LeastLossIsKept
  <2>1. CASE stage = "pass"
    <3>1. /\ best.loss = least.loss /\ current[place.param] = best.value
          /\ least.params = [current EXCEPT ![place.param] = best.value]
          /\ current \in [DOMAIN Parameter -> Int]
      BY <2>1 DEF CalibrationInv, CalibrationTypeOK, Passing
    <3>2. QED
      BY <3>1
  <2>2. CASE stage \in {"found", "answered"}
    BY <2>2 DEF CalibrationInv, Settling
  <2>3. QED
    BY <2>1, <2>2 DEF CalibrationInv, CalibrationTypeOK
<1>2. QED
  BY CalibrationInvariant, <1>1, PTL
=============================================================================
