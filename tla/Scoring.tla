------------------------------- MODULE Scoring -------------------------------
(***************************************************************************)
(* app/domain/scoring.py and the mock provider built on it: which concepts *)
(* of a rubric an answer matches, and the verdict and confidence that      *)
(* follow.                                                                 *)
(*                                                                         *)
(* Coverage is a fraction k/n of integers.  The floating-point rounding of *)
(* the base confidence and the hash-derived jitter are choices, so         *)
(* Confidences is the set of what score() may answer.                      *)
(***************************************************************************)
EXTENDS Verdicts, Sequences

(* 3/5, asserted as correct at or above (PASS_COVERAGE)                    *)
Passes(matched, size) == size # 0 /\ 5 * matched >= 3 * size

Spread == 4

Abs(i) == IF i < 0 THEN -i ELSE i
Clamp(i) == IF i < 0 THEN 0 ELSE IF i > 100 THEN 100 ELSE i

(* round() of 55 + 45 * |2k - n| / n: the nearest integers, two at a tie.  *)
Bases(matched, size) ==
    { m \in 55..100 :
        2 * Abs((m - 55) * size - 45 * Abs(2 * matched - size)) <= size }

(* An empty rubric asserts nothing.                                        *)
Confidences(matched, size) ==
    IF size = 0 THEN {0}
    ELSE { Clamp(m + j) : m \in Bases(matched, size), j \in -Spread..Spread }

CoverageAsConfidence(matched, size) ==
    { [verdict    |-> IF Passes(matched, size) THEN "correct" ELSE "incorrect",
       confidence |-> (100 * matched) \div size] }

(* MockEvaluationProvider.evaluate                                         *)
evaluate(matched, size) ==
    { [verdict    |-> IF Passes(matched, size) THEN "correct" ELSE "incorrect",
       confidence |-> c] : c \in Confidences(matched, size) }

----------------------------------------------------------------------------
(* A text is a sequence of words, each with the mark that follows it; a    *)
(* mark on its own has the word "".  normalise splits on everything but    *)
(* letters, digits and "+#.": a full stop stays part of its token, any     *)
(* other mark disappears.                                                  *)
Marks == {"none", "stop", "other"}

normalise(text) ==
    LET kept == SelectSeq(text, LAMBDA p : p.word # "" \/ p.mark = "stop") IN
    [i \in DOMAIN kept |-> <<kept[i].word, kept[i].mark = "stop">>]

(* " needle " in haystack.  A haystack without tokens is two spaces, and   *)
(* so is a needle without tokens.                                          *)
Found(needle, haystack) ==
    IF needle = <<>> THEN haystack = <<>>
    ELSE \E i \in DOMAIN haystack :
            /\ i + Len(needle) - 1 <= Len(haystack)
            /\ SubSeq(haystack, i, i + Len(needle) - 1) = needle

match_concepts(answer, concepts) ==
    [i \in DOMAIN concepts |-> Found(normalise(concepts[i]), normalise(answer))]

Matched(answer, concepts) ==
    Len(SelectSeq(match_concepts(answer, concepts), LAMBDA found : found))

score(answer, concepts) == evaluate(Matched(answer, concepts), Len(concepts))
==============================================================================
