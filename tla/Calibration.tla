---------------------------- MODULE Calibration ----------------------------
(***************************************************************************)
(* runCoordinateDescent of packages/calibration, and the closed loop of    *)
(* CalibrationEngine around it.  The evaluator is awaited once for each    *)
(* candidate: it simulates, compares with the benchmark and answers a      *)
(* loss.  Here it may answer any, for the same parameters another one too. *)
(* Losses are ranks; the values of parameters and their limits, of which   *)
(* nothing is checked, are counted in parts of 1 / Grain.                  *)
(***************************************************************************)
EXTENDS Integers, Sequences, FiniteSetsExt

CONSTANTS Parameter,    \* the parameters in order: [min, max, start]
          Grain,        \* the number of such parts that make 1
          MaxCycles,    \* 5 in the engine
          Tolerable,    \* the losses that are not above the tolerance
          Loss          \* what the evaluator may answer

ASSUME CalibrationAssumption ==
  /\ Parameter \in Seq([min : Int, max : Int, start : Int]) /\ Grain \in Nat \ {0}
  /\ MaxCycles \in Nat /\ Loss \subseteq Nat

VARIABLES
  stage,     \* where the closed loop is
  current,   \* currentParams
  best,      \* bestLoss, and bestValForParam of the pass
  place,     \* cycle, parameter, candidate, curBest, improvedInCycle, and the unit
  least,     \* history: the parameters that had the least loss first, and that loss
  verdict    \* isAligned and modelStatus of the answer

calibrationVars == <<stage, current, best, place, least, verdict>>

CalibrationInit ==
  /\ stage = "initial"
  /\ current = [i \in DOMAIN Parameter |-> Parameter[i].start]
  /\ best = [loss |-> 0, value |-> 0]
  /\ place = [cycle |-> 0, unit |-> 16, param |-> 1, cand |-> 0, from |-> 0,
              improved |-> FALSE]
  /\ least = [loss |-> 0, params |-> current]
  /\ verdict = [aligned |-> FALSE, status |-> "UNCALIBRATED"]

-----------------------------------------------------------------------------
(* A pass tries nine points of an interval around the value it begins with *)
(* for one parameter; the interval is half as wide in every cycle.         *)

\* In units of 1 / (16 * Math.pow(2, cycle)) of a part, which keep the points whole;
\* then Math.round, to a whole number and perhaps out of the limits.
Candidate ==
  LET p == Parameter[place.param]
      unit == place.unit
      half == 8 * (p.max - p.min)
      low == Max({p.min * unit, place.from * unit - half})
      high == Min({p.max * unit, place.from * unit + half})
      exact == low + ((high - low) * place.cand) \div 8
  IN  Grain * ((2 * exact + Grain * unit) \div (2 * Grain * unit))

BeginPass(params, loss, cycle, param, improved) ==
  /\ stage' = "pass"
  /\ current' = params
  /\ best' = [loss |-> loss, value |-> params[param]]
  /\ place' = [cycle |-> cycle, param |-> param, cand |-> 0,
               unit |-> IF cycle = place.cycle THEN place.unit ELSE 2 * place.unit,
               from |-> params[param], improved |-> improved]

\* The end of a pass: the next parameter, the next cycle, or the end.
EndPass(params, loss, improved) ==
  LET good == loss \in Tolerable
      more == place.param < Len(Parameter)
      again == improved /\ place.cycle + 1 < MaxCycles
  IN  \/ ~good /\ more /\ BeginPass(params, loss, place.cycle, place.param + 1, improved)
      \/ ~good /\ ~more /\ again /\ BeginPass(params, loss, place.cycle + 1, 1, FALSE)
      \/ /\ good \/ (~more /\ ~again)
         /\ stage' = "found" /\ current' = params /\ best' = [best EXCEPT !.loss = loss]
         /\ UNCHANGED place

-----------------------------------------------------------------------------

\* The first evaluation; a loss that is tolerable already does not end the search,
\* but there may be nothing to search.
EvaluateInitial(loss) ==
  /\ stage = "initial"
  /\ IF Parameter = << >> \/ MaxCycles = 0
     THEN /\ stage' = "found" /\ best' = [best EXCEPT !.loss = loss]
          /\ UNCHANGED <<current, place>>
     ELSE BeginPass(current, loss, 0, 1, FALSE)
  /\ least' = [loss |-> loss, params |-> current]
  /\ UNCHANGED verdict

Tried == [current EXCEPT ![place.param] = Candidate]
Better(loss) == loss < best.loss
Best(loss) == IF Better(loss) THEN [loss |-> loss, value |-> Candidate] ELSE best
Improved(loss) == place.improved \/ Better(loss)

\* Mutant: the parameter keeps the candidate that was tried last.
SettledAsTried(loss) == Tried
Settled(loss) == [current EXCEPT ![place.param] = Best(loss).value]

EvaluateCandidate(loss) ==
  /\ stage = "pass"
  /\ \/ /\ place.cand < 8
        /\ current' = Tried /\ best' = Best(loss)
        /\ place' = [place EXCEPT !.cand = @ + 1, !.improved = Improved(loss)]
        /\ UNCHANGED stage
     \/ place.cand = 8 /\ EndPass(Settled(loss), Best(loss).loss, Improved(loss))
  /\ least' = IF loss < least.loss THEN [loss |-> loss, params |-> Tried] ELSE least
  /\ UNCHANGED verdict

\* The final simulation is compared with the benchmark and, if there is one, with
\* the benchmark held out for validation, which alone makes a model VALIDATED.
ExecuteClosedLoop(aligned, validated) ==
  /\ stage = "found" /\ stage' = "answered"
  /\ verdict' = [aligned |-> aligned,
                 status |-> CASE validated -> "VALIDATED"
                              [] aligned /\ ~validated -> "CALIBRATED"
                              [] OTHER -> "UNCALIBRATED"]
  /\ UNCHANGED <<current, best, place, least>>

CalibrationNext ==
  \/ \E loss \in Loss : EvaluateInitial(loss) \/ EvaluateCandidate(loss)
  \/ \E aligned, validated \in BOOLEAN : ExecuteClosedLoop(aligned, validated)

CalibrationSpec == CalibrationInit /\ [][CalibrationNext]_calibrationVars

-----------------------------------------------------------------------------
(* Properties                                                              *)

\* Between two passes and in the answer, the parameters are the ones that had the
\* least loss of all evaluations so far and the final loss is that loss: what one
\* pass has gained for one parameter, the passes over the others and the narrower
\* intervals of later cycles do not lose, wherever rounding takes the candidates.
LeastLossIsKept ==
  (place.cand = 0 \/ stage \in {"found", "answered"}) /\ stage # "initial" =>
    best.loss = least.loss /\ current = least.params
=============================================================================
