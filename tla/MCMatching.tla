----------------------------- MODULE MCMatching -----------------------------
(***************************************************************************)
(* The two functions under find_os_matches in one run: a behaviour is one  *)
(* call of match_expression or one call of compare_fingerprints, and the   *)
(* variables of the other keep the value IDLE.                             *)
(***************************************************************************)
EXTENDS MCMatchExpression

CONSTANTS
  Observed, References, Weights,       \* CompareFingerprints
  IDLE

VARIABLES
  part,                                \* the function called
  observed, reference, weights,        \* of compare_fingerprints
  group, j, res, compared

compare_vars == <<observed, reference, weights, group, j, res, compared>>

Compare == INSTANCE CompareFingerprints WITH i <- group, result <- compared

(* Neither the formatter nor the shipped database repeats a name.          *)
ASSUME FingerprintAssumption == \A f \in Observed \cup References : Compare!IsFingerprint(f)
ASSUME WeightsAssumption     == \A w \in Weights : Compare!IsTable(w)

(* The fingerprints and tables of the run.                                 *)
CompareData  == INSTANCE MCCompareFingerprints
                  WITH i <- group, result <- compared,
                       Observed <- {}, References <- {}, Weights <- {}
MCObserved   == CompareData!MCObserved
MCReferences == CompareData!MCReferences
MCWeights    == CompareData!MCWeights

ExpressionIdle == /\ question = IDLE /\ i = 0 /\ start = 0 /\ inside_brackets = FALSE
                  /\ matched = FALSE /\ result = RUNNING
CompareIdle    == /\ observed = IDLE /\ reference = IDLE /\ weights = IDLE
                  /\ group = IDLE /\ j = IDLE /\ res = IDLE /\ compared = IDLE

InitPart ==
  \/ part = "match_expression" /\ Init /\ CompareIdle
  \/ part = "compare_fingerprints" /\ Compare!Init /\ ExpressionIdle

NextPart ==
  \/ part = "match_expression" /\ Next /\ UNCHANGED <<part, compare_vars>>
  \/ part = "compare_fingerprints" /\ Compare!Next /\ UNCHANGED <<part, vars>>

SpecPart == InitPart /\ [][NextPart]_<<part, vars, compare_vars>>

-----------------------------------------------------------------------------
(* The score is the share of the points of the common fields.              *)
ScoresCommonFields ==
  part = "compare_fingerprints" => Compare!ScoresCommonFields
=============================================================================
