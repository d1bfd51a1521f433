----------------------------- MODULE AuditExport -----------------------------
(***************************************************************************)
(* app/api/routers/audit.py: the two downloads and the standalone verify,  *)
(* running while evaluations are being recorded.  A download runs two      *)
(* queries, the entries and then the chain it verifies; requests that      *)
(* commit between the two are seen by the second query only (READ          *)
(* COMMITTED on PostgreSQL, autocommitted SELECTs on SQLite).              *)
(***************************************************************************)
EXTENDS AuditLog

CONSTANTS FullLog       \* scope of GET /audit-log, which takes no interview

ASSUME FullLogAssumption == FullLog \notin Interviews

VARIABLE export

evars == <<log, export>>

NoExport == [stage |-> "idle"]

Slice(rows, scope) ==
    SelectSeq(rows, LAMBDA row : scope = FullLog \/ row.interview_id = scope)

ExportInit == Init /\ export = NoExport

CommitEntry(t, c, x) == Record(t, c, x) /\ UNCHANGED export

(* entries_for_tenant or entries_for_interview *)
ReadEntries(t, scope) ==
    /\ export.stage # "entries_read"
    /\ export' = [stage |-> "entries_read", tenant |-> t, scope |-> scope,
                  entries |-> Slice(log[t], scope)]
    /\ UNCHANGED log

VerifiesItsSlice ==
    /\ export.stage = "entries_read"
    /\ export' = [stage |-> "answered", tenant |-> export.tenant,
                  scope |-> export.scope, entries |-> export.entries,
                  entry_count |-> Len(export.entries),
                  chain_verification |-> verify_chain(export.entries)]
    /\ UNCHANGED log

(* verify: always over the tenant's whole chain, then the answer *)
ReadVerification ==
    /\ export.stage = "entries_read"
    /\ export' = [stage |-> "answered", tenant |-> export.tenant,
                  scope |-> export.scope, entries |-> export.entries,
                  entry_count |-> Len(export.entries),
                  chain_verification |-> verify_chain(log[export.tenant])]
    /\ UNCHANGED log

VerifiesNewestFirst(t) ==
    LET rows == log[t] IN
    /\ export.stage # "entries_read"
    /\ export' = [stage |-> "verified", tenant |-> t,
                  chain_verification |->
                      verify_chain([i \in 1..Len(rows) |-> rows[Len(rows) + 1 - i]])]
    /\ UNCHANGED log

(* GET /audit-log/verify runs the second query alone. *)
VerifyOnly(t) ==
    /\ export.stage # "entries_read"
    /\ export' = [stage |-> "verified", tenant |-> t,
                  chain_verification |-> verify_chain(log[t])]
    /\ UNCHANGED log

ExportNext ==
    \/ \E t \in Tenants, c \in Content, x \in Interviews : CommitEntry(t, c, x)
    \/ \E t \in Tenants, scope \in Interviews \cup {FullLog} : ReadEntries(t, scope)
    \/ ReadVerification
    \/ \E t \in Tenants : VerifyOnly(t)

ExportSpec == ExportInit /\ [][ExportNext]_evars

----------------------------------------------------------------------------
(* An export is self-describing (schemas.py, AuditLogExport): whatever is  *)
(* recorded between its two queries, its verification is valid, covers     *)
(* every exported row, and the slice misses no row of its scope among the  *)
(* rows that were there when it was read.                                  *)
ExportSelfDescribing ==
    export.stage = "answered" =>
        LET rows == log[export.tenant]
            checked == export.chain_verification.entries_checked IN
        /\ export.chain_verification.valid
        /\ checked <= Len(rows)
        /\ \E n \in 0..checked :
               export.entries = Slice(SubSeq(rows, 1, n), export.scope)

(* Two verifications of a tenant's chain never go backwards: the later one *)
(* covers at least the rows of the earlier one.                            *)
VerificationMonotone ==
    [][ (/\ export.stage \in {"answered", "verified"}
         /\ export'.stage = "verified"
         /\ export'.tenant = export.tenant)
        => /\ export'.chain_verification.valid
           /\ export'.chain_verification.entries_checked
                >= export.chain_verification.entries_checked ]_export
==============================================================================
