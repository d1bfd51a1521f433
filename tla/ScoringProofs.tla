---------------------------- MODULE ScoringProofs ----------------------------
(***************************************************************************)
(* What the mock provider can answer, for every rubric size and every      *)
(* number of matched concepts.                                             *)
(***************************************************************************)
EXTENDS Scoring, TLAPS

(* Every base lies between 55 and 100, half a point around the exact one.  *)
LEMMA BaseBounds ==
    ASSUME NEW n \in Nat \ {0}, NEW k \in 0..n, NEW m \in Bases(k, n)
    PROVE  /\ m \in 55..100
           /\ 2 * (m - 55) * n <= 90 * Abs(2 * k - n) + n
           /\ 90 * Abs(2 * k - n) <= 2 * (m - 55) * n + n
  <1> DEFINE d == Abs(2 * k - n)
             p == (m - 55) * n
  <1>1. m \in 55..100 /\ 2 * Abs((m - 55) * n - 45 * d) <= n
    BY DEF Bases
  <1>2. d \in Int /\ p \in Int
    BY <1>1 DEF Abs
  <1>3. 2 * Abs(p - 45 * d) <= n
    BY <1>1
  <1> HIDE DEF d, p
  <1>4. 2 * (p - 45 * d) <= n /\ 2 * (45 * d - p) <= n
    BY <1>2, <1>3 DEF Abs
  <1>5. 2 * p <= 90 * d + n /\ 90 * d <= 2 * p + n
    BY <1>2, <1>4
  <1>6. 2 * (m - 55) * n = 2 * p
    BY <1>1 DEF p
  <1> QED
    BY <1>1, <1>5, <1>6 DEF d

(* A confidence is a base with a jitter of at most Spread, cut off at 0    *)
(* and 100.                                                                *)
LEMMA ConfidenceOfBase ==
    ASSUME NEW n \in Nat \ {0}, NEW k \in 0..n, NEW c \in Confidences(k, n)
    PROVE  \E m \in Bases(k, n), j \in -4..4 : c = Clamp(m + j)
  BY DEF Confidences, Spread

(* The confidence of any answer is within 0..100: route_verdict (verdicts. *)
(* py:43) never raises for a result of the mock provider.                  *)
THEOREM ConfidenceInRange ==
    ASSUME NEW n \in Nat, NEW k \in 0..n
    PROVE  \A result \in evaluate(k, n) : InRange(result)
  <1> SUFFICES ASSUME NEW c \in Confidences(k, n) PROVE c \in 0..100
    BY DEF evaluate, InRange
  <1>1. CASE n = 0
    BY <1>1 DEF Confidences
  <1>2. CASE n # 0
    <2>1. PICK m \in Bases(k, n), j \in -4..4 : c = Clamp(m + j)
      BY <1>2, ConfidenceOfBase
    <2>2. m + j \in Int
      BY <1>2, BaseBounds
    <2> QED
      BY <2>1, <2>2 DEF Clamp
  <1> QED
    BY <1>1, <1>2

(* scoring.py:52, "Confidence is certainty, not correctness": an answer    *)
(* that misses k concepts may be scored as one that matches k.             *)
THEOREM CertaintyNotCorrectness ==
    ASSUME NEW n \in Nat, NEW k \in 0..n
    PROVE  Confidences(k, n) = Confidences(n - k, n)
  <1>1. Abs(2 * k - n) = Abs(2 * (n - k) - n)
    BY DEF Abs
  <1>2. Bases(k, n) = Bases(n - k, n)
    BY <1>1 DEF Bases
  <1> QED
    BY <1>2 DEF Confidences

(* scoring.py:53: nothing matched and everything matched are easy calls.   *)
(* They stand under every threshold up to 96.                              *)
THEOREM ExtremesAreDecisive ==
    ASSUME NEW n \in Nat \ {0}, NEW k \in {0, n}, ConfidenceThreshold <= 96
    PROVE  \A result \in evaluate(k, n) : route_verdict(result) = result.verdict
  <1> SUFFICES ASSUME NEW c \in Confidences(k, n) PROVE c \in Int /\ c >= 96
    BY ThresholdAssumption DEF evaluate, route_verdict
  <1>1. k \in 0..n
    OBVIOUS
  <1>2. PICK m \in Bases(k, n), j \in -4..4 : c = Clamp(m + j)
    BY <1>1, ConfidenceOfBase
  <1>3. Abs(2 * k - n) = n
    BY DEF Abs
  <1>4. m \in 55..100 /\ 90 * n <= 2 * (m - 55) * n + n
    BY <1>1, <1>3, BaseBounds
  <1>5. m = 100
    <2>1. SUFFICES ASSUME m - 55 <= 44 PROVE FALSE
      BY <1>4
    <2>2. 2 * (m - 55) * n <= 88 * n
      BY <1>4, <2>1
    <2> QED
      BY <1>4, <2>2
  <1> QED
    BY <1>2, <1>5 DEF Clamp

(* README C6 and scoring.py:83: an answer with a coverage of 0.4 to 0.6,   *)
(* PASS_COVERAGE included, always goes to a human under a threshold of 69  *)
(* or more (the default is 70), whichever verdict the mock asserts.        *)
THEOREM AmbiguityEscalates ==
    ASSUME NEW n \in Nat \ {0}, NEW k \in 0..n, 2 * n <= 5 * k, 5 * k <= 3 * n,
           ConfidenceThreshold >= 69
    PROVE  \A result \in evaluate(k, n) : can_be_human_reviewed(route_verdict(result))
  <1> SUFFICES ASSUME NEW c \in Confidences(k, n) PROVE c \in Int /\ c <= 68
    BY ThresholdAssumption DEF evaluate, route_verdict, can_be_human_reviewed
  <1>1. PICK m \in Bases(k, n), j \in -4..4 : c = Clamp(m + j)
    BY ConfidenceOfBase
  <1>2. m \in 55..100 /\ 2 * (m - 55) * n <= 90 * Abs(2 * k - n) + n
    BY BaseBounds
  <1>3. Abs(2 * k - n) \in Int /\ 5 * Abs(2 * k - n) <= n
    BY DEF Abs
  <1>4. m <= 64
    <2>1. SUFFICES ASSUME m - 55 >= 10 PROVE FALSE
      BY <1>2
    <2>2. 2 * (m - 55) * n >= 20 * n
      BY <1>2, <2>1
    <2> QED
      BY <1>2, <1>3, <2>2
  <1> QED
    BY <1>1, <1>2, <1>4 DEF Clamp

(* A confidence of 70 or more needs a coverage well away from one half.    *)
LEMMA StandingIsDecisive ==
    ASSUME NEW n \in Nat \ {0}, NEW k \in 0..n, NEW c \in Confidences(k, n), c >= 70
    PROVE  21 * n <= 90 * Abs(2 * k - n)
  <1>1. PICK m \in Bases(k, n), j \in -4..4 : c = Clamp(m + j)
    BY ConfidenceOfBase
  <1>2. m \in 55..100 /\ 2 * (m - 55) * n <= 90 * Abs(2 * k - n) + n
    BY BaseBounds
  <1>3. m - 55 >= 11
    BY <1>1, <1>2 DEF Clamp
  <1>4. 2 * (m - 55) * n >= 22 * n
    BY <1>2, <1>3
  <1>5. Abs(2 * k - n) \in Int
    BY DEF Abs
  <1> QED
    BY <1>2, <1>4, <1>5

(* No single concept decides between two verdicts that both stand: in a    *)
(* rubric of four concepts or more, under a threshold of 70 or more, an    *)
(* answer that is asserted incorrect without a concept is not asserted     *)
(* correct with it (with three concepts it can be).                        *)
THEOREM NoConceptFlipsAVerdict ==
    ASSUME NEW n \in Nat, n >= 4, NEW k \in 0..(n - 1), ConfidenceThreshold >= 70,
           NEW without \in evaluate(k, n), NEW with \in evaluate(k + 1, n),
           route_verdict(without) = "incorrect"
    PROVE  route_verdict(with) # "correct"
  <1> SUFFICES ASSUME route_verdict(with) = "correct" PROVE FALSE
    OBVIOUS
  <1> DEFINE d == Abs(2 * k - n)
             e == Abs(2 * (k + 1) - n)
  <1>1. without.confidence \in Confidences(k, n) /\ with.confidence \in Confidences(k + 1, n)
    BY DEF evaluate
  <1>2. /\ ~(without.confidence < ConfidenceThreshold) /\ without.verdict = "incorrect"
        /\ ~(with.confidence < ConfidenceThreshold) /\ with.verdict = "correct"
    BY DEF route_verdict
  <1>3. without.confidence \in 0..100 /\ with.confidence \in 0..100
    BY ConfidenceInRange DEF InRange
  <1>4. without.confidence >= 70 /\ with.confidence >= 70
    BY <1>2, <1>3, ThresholdAssumption
  <1>5. 21 * n <= 90 * d /\ 21 * n <= 90 * e
    BY <1>1, <1>4, StandingIsDecisive
  <1>6. 5 * k < 3 * n /\ 5 * (k + 1) >= 3 * n
    BY <1>2 DEF evaluate, Passes
  <1> QED
    BY <1>5, <1>6 DEF Abs
==============================================================================
