---------------------------- MODULE TamperEvidence ----------------------------
(***************************************************************************)
(* The audit log once the database guard is gone: what verify_chain still  *)
(* tells when rows are updated or removed with the triggers dropped        *)
(* (tests/test_audit_chain.py, "the verifier must actually catch           *)
(* tampering"), while record() goes on appending to what it finds and      *)
(* verify() is called in between.                                          *)
(*                                                                         *)
(* The append-only guard is core/database.py:44-59: two triggers, one that *)
(* aborts every UPDATE of audit_log while it is installed and one that     *)
(* aborts every DELETE.                                                    *)
(***************************************************************************)
EXTENDS AuditLog, SequencesExt

CONSTANTS MaxTampers    \* bound on the number of changes made by hand

ASSUME MaxTampersAssumption == MaxTampers \in Nat

Triggers == {"audit_log_no_update", "audit_log_no_delete"}

VARIABLES guards,       \* the triggers that exist, a subset of Triggers
          recorded,     \* [Tenants -> SUBSET Row]: every row record() wrote
          verified,     \* [Tenants -> Seq(Row)]: the chain as the last
                        \* verify() that answered valid read it
          tampers       \* number of changes made by hand

tvars == <<log, guards, recorded, verified, tampers>>

TamperTypeOK ==
    /\ TypeOK
    /\ guards \subseteq Triggers
    /\ recorded \in [Tenants -> SUBSET Row]
    /\ verified \in [Tenants -> Seq(Row)]
    /\ tampers \in 0..MaxTampers

TamperInit ==
    /\ Init
    /\ guards = Triggers
    /\ recorded = [t \in Tenants |-> {}]
    /\ verified = [t \in Tenants |-> <<>>]
    /\ tampers = 0

RecordEntry(t, c, x) ==
    /\ Record(t, c, x)
    /\ recorded' = [recorded EXCEPT ![t] = @ \cup {NewEntry(log[t], c, x)}]
    /\ UNCHANGED <<guards, verified, tampers>>

(* verify() writes nothing; verified only remembers what it vouched for.   *)
Verify(t) ==
    /\ verify_chain(log[t]).valid
    /\ verified' = [verified EXCEPT ![t] = log[t]]
    /\ UNCHANGED <<log, guards, recorded, tampers>>

(* One statement of DROP_APPEND_ONLY_SQLITE. *)
DropTrigger(g) ==
    /\ g \in guards
    /\ guards' = guards \ {g}
    /\ UNCHANGED <<log, recorded, verified, tampers>>

ByHand(t, rows) ==
    /\ tampers < MaxTampers
    /\ tampers' = tampers + 1
    /\ log' = [log EXCEPT ![t] = rows]
    /\ UNCHANGED <<guards, recorded, verified>>

Update(t, rows) == "audit_log_no_update" \notin guards /\ ByHand(t, rows)

(* UPDATE of a hashed column *)
EditContent(t, i, c) ==
    /\ c # log[t][i].content
    /\ Update(t, [log[t] EXCEPT ![i].content = c])

(* UPDATE of prev_hash to the digest of another row, or to GENESIS_HASH    *)
Relink(t, i, d) ==
    /\ d # log[t][i].prev_hash
    /\ Update(t, [log[t] EXCEPT ![i].prev_hash = d])

(* UPDATE of a hashed column together with the recomputed digest, as in    *)
(* test_verifier_detects_a_rewritten_hash; with the content it has, it is  *)
(* the row's digest alone that is recomputed.                              *)
Rehash(t, i, c) ==
    LET forged == compute_entry_hash(log[t][i].prev_hash, log[t][i].seq, c) IN
    /\ \A u \in Tenants : \A k \in 1..Len(log[u]) : log[u][k].entry_hash # forged
    /\ Update(t, [log[t] EXCEPT ![i] =
                    [log[t][i] EXCEPT !.content = c, !.entry_hash = forged]])

(* UPDATE of seq: the row moves to the place entries_for_tenant reads it   *)
(* at, position j.  UNIQUE(tenant_admin_id, seq) holds.                    *)
Renumber(t, i, n, j) ==
    LET others == RemoveAt(log[t], i) IN
    /\ n # log[t][i].seq
    /\ \A k \in 1..Len(others) : IF k < j THEN others[k].seq < n ELSE others[k].seq > n
    /\ Update(t, InsertAt(others, j, [log[t][i] EXCEPT !.seq = n]))

(* UPDATE of the column that no digest covers *)
MoveToInterview(t, i, x) ==
    /\ x # log[t][i].interview_id
    /\ Update(t, [log[t] EXCEPT ![i].interview_id = x])

(* DELETE of a row *)
DeleteTriggerMissing(t, i) == ByHand(t, RemoveAt(log[t], i))
DeleteRow(t, i) ==
    /\ "audit_log_no_delete" \notin guards
    /\ ByHand(t, RemoveAt(log[t], i))

TamperRow(t, i) ==
    \/ \E c \in Content : EditContent(t, i, c) \/ Rehash(t, i, c)
    \/ \E d \in {GENESIS_HASH} \cup {log[t][j].entry_hash : j \in 1..Len(log[t])} :
          Relink(t, i, d)
    \/ \E n \in 1..MaxSeq : \E j \in 1..Len(log[t]) : Renumber(t, i, n, j)
    \/ \E x \in Interviews : MoveToInterview(t, i, x)
    \/ DeleteRow(t, i)

TamperNext ==
    \/ \E t \in Tenants, c \in Content, x \in Interviews : RecordEntry(t, c, x)
    \/ \E t \in Tenants : Verify(t)
    \/ \E g \in Triggers : DropTrigger(g)
    \/ \E t \in Tenants : \E i \in 1..Len(log[t]) : TamperRow(t, i)

TamperSpec == TamperInit /\ [][TamperNext]_tvars

----------------------------------------------------------------------------
(* database.py:44-59: as long as no UPDATE is possible, every row of the   *)
(* log is one record() wrote, whatever was deleted; and while both         *)
(* triggers exist every chain verifies and no recorded row is missing.     *)
GuardedChainComplete ==
    \A t \in Tenants :
        /\ "audit_log_no_update" \in guards => ToSet(log[t]) \subseteq recorded[t]
        /\ guards = Triggers => /\ verify_chain(log[t]).valid
                                /\ recorded[t] \subseteq ToSet(log[t])

(* The columns the digest covers, and the digest; not interview_id. *)
Hashed(row) ==
    [seq |-> row.seq, content |-> row.content,
     prev_hash |-> row.prev_hash, entry_hash |-> row.entry_hash]

(* A forged row can pass: rehashed as the last of its chain, it does, and  *)
(* so does what is recorded after it.  What no sequence of updates and     *)
(* deletions achieves is to alter the log behind a digest: a row that      *)
(* passes with the digest of a row record() wrote has that row's hashed    *)
(* columns; and where verify() once answered valid, a row that passes with *)
(* a digest of that chain stands at its old place, after the same rows as  *)
(* then.  To forge one row is to give up the digest of every later one.    *)
DigestsVouchForHistory ==
    \A t \in Tenants : \A i \in Passed(log[t]) :
        /\ \A row \in recorded[t] :
              row.entry_hash = log[t][i].entry_hash => Hashed(row) = Hashed(log[t][i])
        /\ \A n \in 1..Len(verified[t]) :
              verified[t][n].entry_hash = log[t][i].entry_hash =>
                 /\ i = n
                 /\ \A k \in 1..n : Hashed(verified[t][k]) = Hashed(log[t][k])

(* Recording on top of a broken chain neither repairs it nor moves the     *)
(* break that is reported.                                                 *)
RecordingNeverRepairs ==
    [][ \A t \in Tenants :
          (~verify_chain(log[t]).valid /\ Len(log'[t]) > Len(log[t]))
             => verify_chain(log'[t]) = verify_chain(log[t]) ]_tvars

==============================================================================
