---------------------------- MODULE ReleaseGate ----------------------------
(***************************************************************************)
(* compute_release_decision of core/domain/release.py: which blockers the  *)
(* evidence of an evaluation program leaves, and the verdict that follows. *)
(*                                                                         *)
(* Evidence is a record: the status of every case, the bound version pair, *)
(* the set of paired trials and the sequence of calibration batches.  A    *)
(* score is a number of hundredths of a point.  The program has a plan.    *)
(***************************************************************************)
EXTENDS Integers, Sequences, FiniteSets, FiniteSetsExt

CONSTANTS
  Cases,
  Slice,           \* the slice of each case
  CriticalSlices,
  Bindings,        \* pairs of a baseline and a candidate version
  NoBinding,
  Scores,          \* scores a candidate may get, in hundredths
  Batches,         \* calibration batches that may be recorded
  MinReps,         \* minimum_repetitions
  MinOverall,      \* minimum_overall_score, in hundredths
  MinSlice,        \* minimum_slice_score, in hundredths
  MaxCritical,     \* max_critical_failures
  MinExamples,     \* minimum_calibration_examples, 0 if no calibration is required
  MinHoldout,      \* minimum_holdout_examples, likewise
  MinAgreement     \* minimum_judge_agreement, in ten-thousandths

ASSUME GateAssumption ==
  /\ IsFiniteSet(Cases) /\ NoBinding \notin Bindings
  /\ Scores \subseteq 0..10000
  /\ {MinReps, MinOverall, MinSlice, MaxCritical, MinExamples, MinHoldout, MinAgreement} \subseteq Nat

CaseStatuses == {"hypothesis", "evidence_backed", "regression"}

Trials == [case : Cases, rep : Nat, binding : Bindings, score : Scores, critical : BOOLEAN]

Runnable(cases) == {c \in DOMAIN cases : cases[c] # "hypothesis"}

\* Trials count for runnable cases and the bound pair only.
Counted(e) == {t \in e.trials : t.case \in Runnable(e.cases) /\ t.binding = e.binding}

Repetitions(e, c) == {t.rep : t \in {u \in Counted(e) : u.case = c}}

\* round(total / n, ...) in the unit of total, halves up.
Rounded(total, n) == (2 * total + n) \div (2 * n)

\* The mean score of a set of trials that is not empty, before any comparison.
Mean(S) == Rounded(MapThenSumSet(LAMBDA t : t.score, S), Cardinality(S))

OfSlice(S, slice) == {t \in S : Slice[t.case] = slice}

\* The examples of the judge that was calibrated last.
CurrentExamples(calibrations) ==
  UNION {calibrations[n].examples :
           n \in {m \in DOMAIN calibrations :
                    calibrations[m].judge = calibrations[Len(calibrations)].judge}}

\* The verdict is SHIP if nothing blocks it.
Clear(e) ==
  LET runs     == Counted(e)
      examples == CurrentExamples(e.calibrations)
      agreed   == {x \in examples : x.agrees}
  IN  /\ DOMAIN e.cases # {}
      /\ Runnable(e.cases) = DOMAIN e.cases
      /\ e.binding # NoBinding
      /\ \A c \in Runnable(e.cases) : Cardinality(Repetitions(e, c)) >= MinReps
      /\ runs # {}
      /\ Cardinality({t \in runs : t.critical}) <= MaxCritical
      /\ Mean(runs) >= MinOverall
      /\ \A s \in CriticalSlices : OfSlice(runs, s) # {} /\ Mean(OfSlice(runs, s)) >= MinSlice
      /\ Cardinality(examples) >= MinExamples
      /\ Cardinality({x \in examples : x.holdout}) >= MinHoldout
      /\ MinExamples > 0 /\ examples # {} =>
           Rounded(10000 * Cardinality(agreed), Cardinality(examples)) >= MinAgreement

Verdict(e) == IF Clear(e) THEN "ship" ELSE "hold"
=============================================================================
