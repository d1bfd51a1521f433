---------------------------- MODULE MCAuditExport ----------------------------
EXTENDS AuditExport, TLC

CONSTANTS t1, t2, c1, c2, x1, x2

MCTenants    == {t1, t2}
MCContent    == {c1, c2}
MCInterviews == {x1, x2}
==============================================================================
