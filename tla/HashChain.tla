------------------------------ MODULE HashChain ------------------------------
(***************************************************************************)
(* app/domain/hashing.py: the pure part of the compliance log.             *)
(*                                                                         *)
(* SHA-256 is modelled by what the log relies on, that equal digests come  *)
(* from equal material: a digest IS the material it commits to.  The digest*)
(* of an entry is the digest of its predecessor followed by the entry's    *)
(* own envelope, so a digest is a sequence of envelopes and GENESIS_HASH   *)
(* is the empty one.                                                       *)
(*                                                                         *)
(* Content stands for the hashed columns event_type, subject_type,         *)
(* subject_id, actor_id, payload and created_at.  interview_id is a column *)
(* of the row, not part of the digest (hashing.py:66-78).                  *)
(*                                                                         *)
(* In this module and the ones built on it a definition may be preceded by *)
(* a faulty variant with the same parameters (UnlinkedHash, ...), which no *)
(* specification uses: put in its place, it breaks a property.             *)
(***************************************************************************)
EXTENDS Integers, Sequences, FiniteSetsExt

CONSTANTS Content,      \* values of the hashed columns of an entry
          Interviews    \* values of the unhashed column interview_id

CHAIN_VERSION == 1

Envelope == {CHAIN_VERSION} \X Nat \X Content
Digest   == Seq(Envelope)

GENESIS_HASH == <<>>

UnversionedHash(prev_hash, seq, content) == Append(prev_hash, <<seq, content>>)
UnlinkedHash(prev_hash, seq, content) == <<<<CHAIN_VERSION, seq, content>>>>
compute_entry_hash(prev_hash, seq, content) ==
    Append(prev_hash, <<CHAIN_VERSION, seq, content>>)

(* A row of audit_log, as ChainEntry plus the unhashed interview_id. *)
Row == [seq          : Nat,
        content      : Content,
        interview_id : Interviews,
        prev_hash    : Digest,
        entry_hash   : Digest]

----------------------------------------------------------------------------
(* verify_chain walks the rows in seq order and stops at the first break.  *)
(* Before the first break every row is as expected, so at position i the   *)
(* walk expects seq i and the hash of the row at i - 1.                    *)

ExpectedPrev(entries, i) ==
    IF i = 1 THEN GENESIS_HASH ELSE entries[i - 1].entry_hash

SequenceGap(entries, i) == entries[i].seq # i

Relinked(entries, i) == entries[i].prev_hash # ExpectedPrev(entries, i)

ContentNotChecked(entries, i) == FALSE
EditedInPlace(entries, i) ==
    compute_entry_hash(entries[i].prev_hash, entries[i].seq, entries[i].content)
        # entries[i].entry_hash

Breaks(entries) ==
    { i \in 1..Len(entries) : \/ SequenceGap(entries, i)
                              \/ Relinked(entries, i)
                              \/ EditedInPlace(entries, i) }

LastBreak(entries)  == Max(Breaks(entries))
FirstBreak(entries) == Min(Breaks(entries))

Reason(entries, i) ==
    CASE SequenceGap(entries, i) -> "sequence gap"
      [] ~SequenceGap(entries, i) /\ Relinked(entries, i) -> "prev_hash mismatch"
      [] OTHER -> "content mismatch"

(* broken_at_seq is None when the chain is valid; rows have a seq >= 1, so *)
(* 0 stands for None.                                                      *)
verify_chain(entries) ==
    IF Breaks(entries) = {}
    THEN [valid |-> TRUE, entries_checked |-> Len(entries),
          broken_at_seq |-> 0, reason |-> "none"]
    ELSE LET i == FirstBreak(entries) IN
         [valid |-> FALSE, entries_checked |-> i,
          broken_at_seq |-> entries[i].seq, reason |-> Reason(entries, i)]

(* The rows verify_chain passed before it stopped. *)
Passed(entries) ==
    LET result == verify_chain(entries) IN
    IF result.valid THEN 1..Len(entries) ELSE 1..(result.entries_checked - 1)
==============================================================================
