--------------------------- MODULE MCTamperEvidence ---------------------------
EXTENDS TamperEvidence

CONSTANTS t1, c1, c2, x1, x2

MCTenants    == {t1}
MCContent    == {c1, c2}
MCInterviews == {x1, x2}

\* Contents are only compared and stored.
Symmetry == Permutations(MCContent)

\* record() is called for x1; x2 is where a row may be moved to.
RecordedForFirst == \A row \in recorded[t1] : row.interview_id = x1
==============================================================================
