------------------------------- MODULE AuditLog -------------------------------
(***************************************************************************)
(* app/services/audit_service.py: what the append-only log promises.       *)
(*                                                                         *)
(* log[t] is the result of entries_for_tenant(t), the committed rows of    *)
(* audit_log with tenant_admin_id = t in seq order.  Record is record()    *)
(* together with the commit of the transaction that called it; the         *)
(* interleaving of several such transactions is EvaluationPipeline, which  *)
(* implements this module.                                                 *)
(***************************************************************************)
EXTENDS HashChain

CONSTANTS Tenants,      \* org_admin ids, each the owner of one chain
          MaxSeq        \* bound on the length of a chain

ASSUME MaxSeqAssumption == MaxSeq \in Nat

VARIABLE log

TypeOK == log \in [Tenants -> Seq(Row)]

Init == log = [t \in Tenants |-> <<>>]

(* _tail: the last row of the tenant; seq and prev_hash derive from it. *)
NextSeq(rows)  == IF rows = <<>> THEN 1 ELSE rows[Len(rows)].seq + 1
NeverLinked(rows) == GENESIS_HASH
PrevHash(rows) == IF rows = <<>> THEN GENESIS_HASH ELSE rows[Len(rows)].entry_hash

NewEntry(rows, content, interview) ==
    [seq          |-> NextSeq(rows),
     content      |-> content,
     interview_id |-> interview,
     prev_hash    |-> PrevHash(rows),
     entry_hash   |-> compute_entry_hash(PrevHash(rows), NextSeq(rows), content)]

(* UNIQUE(tenant_admin_id, seq) and UNIQUE(entry_hash): the flush that     *)
(* inserts the row fails when another row has either of them.              *)
Insertable(t, entry) ==
    /\ \A i \in 1..Len(log[t]) : log[t][i].seq # entry.seq
    /\ \A u \in Tenants : \A i \in 1..Len(log[u]) :
           log[u][i].entry_hash # entry.entry_hash

Record(t, content, interview) ==
    LET entry == NewEntry(log[t], content, interview) IN
    /\ Len(log[t]) < MaxSeq
    /\ log' = [log EXCEPT ![t] = Append(@, entry)]
    /\ Insertable(t, entry)

Next == \E t \in Tenants, c \in Content, x \in Interviews : Record(t, c, x)

Spec == Init /\ [][Next]_log

----------------------------------------------------------------------------
(* verify() over one tenant's chain never reports a break while every row  *)
(* was written by record(): seq is gap-free, each row links to the one     *)
(* before it and each digest is that of its own columns.                   *)
ChainIntact == \A t \in Tenants : verify_chain(log[t]).valid

(* The digest of a row pins the whole history up to it: it spells out the  *)
(* position and the content of every row of the tenant's chain so far.     *)
DigestPinsHistory ==
    \A t \in Tenants : \A n \in 1..Len(log[t]) :
        log[t][n].entry_hash =
            [i \in 1..n |-> <<CHAIN_VERSION, i, log[t][i].content>>]
==============================================================================
