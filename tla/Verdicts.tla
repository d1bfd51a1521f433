------------------------------- MODULE Verdicts -------------------------------
(***************************************************************************)
(* app/domain/verdicts.py: the confidence gate.                            *)
(***************************************************************************)
EXTENDS Integers

CONSTANT ConfidenceThreshold    \* settings.confidence_threshold

ASSUME ThresholdAssumption == ConfidenceThreshold \in Int

LLMVerdict == {"correct", "incorrect"}
Verdict    == LLMVerdict \cup {"requires_human_review"}

(* route_verdict raises ValueError for any other result.                   *)
InRange(result) == result.confidence \in 0..100

route_verdict(result) ==
    IF result.confidence < ConfidenceThreshold
    THEN "requires_human_review" ELSE result.verdict

can_be_human_reviewed(verdict) == verdict = "requires_human_review"
==============================================================================
