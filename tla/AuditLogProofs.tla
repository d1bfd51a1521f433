---------------------------- MODULE AuditLogProofs ----------------------------
(***************************************************************************)
(* What record() and verify_chain() guarantee for every set of tenants,    *)
(* contents and interviews and every chain length: the invariants of       *)
(* AuditLog, and which changes of a row verify_chain can detect.           *)
(***************************************************************************)
EXTENDS AuditLog, SequenceTheorems, TLAPS

(* The digest function stays within the digests, and equal digests come    *)
(* from equal material.                                                    *)
LEMMA HashType ==
    ASSUME NEW p \in Digest, NEW s \in Nat, NEW c \in Content
    PROVE  compute_entry_hash(p, s, c) \in Digest
  BY DEF compute_entry_hash, Digest, Envelope, CHAIN_VERSION

LEMMA HashInjective ==
    ASSUME NEW p \in Digest, NEW s \in Nat, NEW c \in Content,
           NEW q \in Digest, NEW u \in Nat, NEW d \in Content,
           compute_entry_hash(p, s, c) = compute_entry_hash(q, u, d)
    PROVE  p = q /\ s = u /\ c = d
<1> DEFINE e == <<CHAIN_VERSION, s, c>>
           f == <<CHAIN_VERSION, u, d>>
<1>1. Append(p, e) = Append(q, f)
  BY DEF compute_entry_hash
<1>2. Len(p) = Len(q)
  BY <1>1 DEF Digest
<1>3. e = f
  BY <1>1, <1>2 DEF Digest
<1>4. \A i \in 1..Len(p) : p[i] = q[i]
  BY <1>1, <1>2 DEF Digest
<1>5. p = q
  BY <1>2, <1>4 DEF Digest
<1>6. QED
  BY <1>3, <1>5

----------------------------------------------------------------------------
(* verify_chain passes exactly the chains without a break.                 *)
LEMMA ValidIffNoBreak ==
    ASSUME NEW entries
    PROVE  verify_chain(entries).valid <=> Breaks(entries) = {}
<1>1. CASE Breaks(entries) = {}
  BY <1>1 DEF verify_chain
<1>2. CASE Breaks(entries) # {}
  BY <1>2 DEF verify_chain
<1>3. QED
  BY <1>1, <1>2

(* The same, row by row. *)
LEMMA ValidRows ==
    ASSUME NEW entries
    PROVE  verify_chain(entries).valid <=>
             \A i \in 1..Len(entries) :
                /\ entries[i].seq = i
                /\ entries[i].prev_hash = ExpectedPrev(entries, i)
                /\ compute_entry_hash(entries[i].prev_hash, entries[i].seq,
                                      entries[i].content) = entries[i].entry_hash
<1>1. Breaks(entries) = {} <=>
        \A i \in 1..Len(entries) : ~ \/ SequenceGap(entries, i)
                                      \/ Relinked(entries, i)
                                      \/ EditedInPlace(entries, i)
  BY DEF Breaks
<1>2. QED
  BY <1>1, ValidIffNoBreak DEF SequenceGap, Relinked, EditedInPlace

(* The row record() appends is well-typed. *)
LEMMA NewEntryType ==
    ASSUME NEW rows \in Seq(Row), NEW c \in Content, NEW x \in Interviews
    PROVE  NewEntry(rows, c, x) \in Row
<1>1. NextSeq(rows) \in Nat /\ PrevHash(rows) \in Digest
  <2>1. CASE rows = <<>>
    BY <2>1 DEF NextSeq, PrevHash, GENESIS_HASH, Digest
  <2>2. CASE rows # <<>>
    <3>1. rows[Len(rows)] \in Row
      BY <2>2
    <3>2. QED
      BY <2>2, <3>1 DEF NextSeq, PrevHash, Row
  <2>3. QED
    BY <2>1, <2>2
<1>2. compute_entry_hash(PrevHash(rows), NextSeq(rows), c) \in Digest
  BY <1>1, HashType
<1>3. QED
  BY <1>1, <1>2 DEF NewEntry, Row

(* The rows of every chain are well-typed. *)
THEOREM TypeCorrect == Spec => []TypeOK
<1>1. Init => TypeOK
  BY DEF Init, TypeOK
<1>2. TypeOK /\ [Next]_log => TypeOK'
  <2> SUFFICES ASSUME TypeOK, Next PROVE TypeOK'
    BY DEF TypeOK
  <2>1. PICK t \in Tenants, c \in Content, x \in Interviews : Record(t, c, x)
    BY DEF Next
  <2>2. NewEntry(log[t], c, x) \in Row
    BY NewEntryType DEF TypeOK
  <2>3. QED
    BY <2>1, <2>2 DEF Record, TypeOK
<1>3. QED
  BY <1>1, <1>2, PTL DEF Spec

----------------------------------------------------------------------------
(* Appending the next entry to a chain that verifies gives one that does.  *)
LEMMA AppendKeepsValid ==
    ASSUME NEW rows \in Seq(Row), NEW c \in Content, NEW x \in Interviews,
           verify_chain(rows).valid
    PROVE  verify_chain(Append(rows, NewEntry(rows, c, x))).valid
<1> DEFINE entry == NewEntry(rows, c, x)
           more  == Append(rows, entry)
           n     == Len(rows)
<1>1. entry \in Row
  BY NewEntryType
<1>2. /\ n \in Nat
      /\ Len(more) = n + 1
      /\ \A i \in 1..n : more[i] = rows[i]
      /\ more[n + 1] = entry
  BY <1>1
<1>3. \A i \in 1..n : /\ rows[i].seq = i
                      /\ rows[i].prev_hash = ExpectedPrev(rows, i)
                      /\ compute_entry_hash(rows[i].prev_hash, rows[i].seq,
                                            rows[i].content) = rows[i].entry_hash
  BY ValidRows
<1>4. \A i \in 1..n : ExpectedPrev(more, i) = ExpectedPrev(rows, i)
  BY <1>2 DEF ExpectedPrev
<1>5. entry.seq = n + 1 /\ entry.prev_hash = ExpectedPrev(more, n + 1)
  <2>1. CASE rows = <<>>
    BY <2>1, <1>2 DEF NewEntry, NextSeq, PrevHash, ExpectedPrev
  <2>2. CASE rows # <<>>
    <3>1. n \in 1..n /\ n + 1 # 1
      BY <2>2, <1>2
    <3>2. rows[n].seq = n
      BY <3>1, <1>3
    <3>3. ExpectedPrev(more, n + 1) = rows[n].entry_hash
      BY <3>1, <1>2 DEF ExpectedPrev
    <3>4. QED
      BY <2>2, <3>2, <3>3 DEF NewEntry, NextSeq, PrevHash
  <2>3. QED
    BY <2>1, <2>2
<1>6. compute_entry_hash(entry.prev_hash, entry.seq, entry.content) = entry.entry_hash
  BY DEF NewEntry
<1>7. \A i \in 1..Len(more) :
          /\ more[i].seq = i
          /\ more[i].prev_hash = ExpectedPrev(more, i)
          /\ compute_entry_hash(more[i].prev_hash, more[i].seq,
                                more[i].content) = more[i].entry_hash
  <2> TAKE i \in 1..Len(more)
  <2>1. CASE i \in 1..n
    BY <2>1, <1>2, <1>3, <1>4
  <2>2. CASE i = n + 1
    BY <2>2, <1>2, <1>5, <1>6
  <2>3. QED
    BY <2>1, <2>2, <1>2
<1>8. QED
  BY <1>7, ValidRows

(* A chain written only by record() always verifies, whatever was recorded *)
(* for the other tenants in between.                                       *)
THEOREM ChainAlwaysVerifies == Spec => []ChainIntact
<1>1. Init => ChainIntact
  <2> SUFFICES ASSUME Init, NEW t \in Tenants PROVE verify_chain(log[t]).valid
    BY DEF ChainIntact
  <2>1. log[t] = <<>>
    BY DEF Init
  <2>2. QED
    BY <2>1, ValidRows
<1>2. TypeOK /\ ChainIntact /\ [Next]_log => ChainIntact'
  <2> SUFFICES ASSUME TypeOK, ChainIntact, Next, NEW u \in Tenants
               PROVE  verify_chain(log'[u]).valid
    BY DEF ChainIntact
  <2>1. PICK t \in Tenants, c \in Content, x \in Interviews : Record(t, c, x)
    BY DEF Next
  <2>2. CASE u = t
    <3>1. log'[t] = Append(log[t], NewEntry(log[t], c, x))
      BY <2>1 DEF Record, TypeOK
    <3>2. log[t] \in Seq(Row) /\ verify_chain(log[t]).valid
      BY DEF TypeOK, ChainIntact
    <3>3. QED
      BY <2>2, <3>1, <3>2, AppendKeepsValid
  <2>3. CASE u # t
    <3>1. log'[u] = log[u]
      BY <2>1, <2>3 DEF Record, TypeOK
    <3>2. QED
      BY <3>1 DEF ChainIntact
  <2>4. QED
    BY <2>2, <2>3
<1>3. QED
  BY <1>1, <1>2, TypeCorrect, PTL DEF Spec

(* The digest of every row spells out the whole history before it.         *)
THEOREM DigestsPinHistory == Spec => []DigestPinsHistory
<1> DEFINE Pinned(rows, n) ==
               rows[n].entry_hash =
                   [i \in 1..n |-> <<CHAIN_VERSION, i, rows[i].content>>]
<1>1. Init => DigestPinsHistory
  BY DEF Init, DigestPinsHistory
<1>2. TypeOK /\ ChainIntact /\ DigestPinsHistory /\ [Next]_log => DigestPinsHistory'
  <2> SUFFICES ASSUME TypeOK, ChainIntact, DigestPinsHistory, Next,
                      NEW u \in Tenants, NEW m \in 1..Len(log'[u])
               PROVE  Pinned(log'[u], m)
    BY DEF DigestPinsHistory
  <2>1. PICK t \in Tenants, c \in Content, x \in Interviews : Record(t, c, x)
    BY DEF Next
  <2>2. CASE u # t
    BY <2>1, <2>2 DEF Record, TypeOK, DigestPinsHistory
  <2>3. CASE u = t
    <3> DEFINE rows  == log[t]
               n     == Len(rows)
               entry == NewEntry(rows, c, x)
               more  == Append(rows, entry)
    <3>1. rows \in Seq(Row) /\ entry \in Row /\ n \in Nat
      BY NewEntryType DEF TypeOK
    <3>2. log'[u] = more
      BY <2>1, <2>3 DEF Record, TypeOK
    <3>3. /\ Len(more) = n + 1
          /\ \A i \in 1..n : more[i] = rows[i]
          /\ more[n + 1] = entry
      BY <3>1
    <3>4. CASE m \in 1..n
      <4>1. Pinned(rows, m)
        BY <3>4 DEF DigestPinsHistory
      <4>2. \A i \in 1..m : more[i] = rows[i]
        BY <3>3, <3>4
      <4>3. QED
        BY <3>2, <3>3, <3>4, <4>1, <4>2
    <3>5. CASE m = n + 1
      <4>1. entry.content = c
        BY DEF NewEntry
      <4>2. NextSeq(rows) = n + 1
        <5>1. CASE rows = <<>>
          BY <5>1 DEF NextSeq
        <5>2. CASE rows # <<>>
          <6>1. n \in 1..n
            BY <5>2, <3>1
          <6>2. verify_chain(rows).valid
            BY DEF ChainIntact
          <6>3. rows[n].seq = n
            BY <6>1, <6>2, ValidRows
          <6>4. QED
            BY <5>2, <6>3 DEF NextSeq
        <5>3. QED
          BY <5>1, <5>2
      <4>3. PrevHash(rows) = [i \in 1..n |-> <<CHAIN_VERSION, i, rows[i].content>>]
        <5>1. CASE rows = <<>>
          BY <5>1 DEF PrevHash, GENESIS_HASH
        <5>2. CASE rows # <<>>
          <6>1. n \in 1..n
            BY <5>2, <3>1
          <6>2. Pinned(rows, n)
            BY <6>1 DEF DigestPinsHistory
          <6>3. QED
            BY <5>2, <6>2 DEF PrevHash
        <5>3. QED
          BY <5>1, <5>2
      <4>4. entry.entry_hash = Append(PrevHash(rows), <<CHAIN_VERSION, n + 1, c>>)
        BY <4>2 DEF NewEntry, compute_entry_hash
      <4>5. PrevHash(rows) \in Seq(Envelope) /\ Len(PrevHash(rows)) = n
        <5>1. \A i \in 1..n : rows[i].content \in Content
          <6>1. \A i \in 1..n : rows[i] \in Row
            BY <3>1
          <6>2. QED
            BY <6>1 DEF Row
        <5>2. \A i \in 1..n : <<CHAIN_VERSION, i, rows[i].content>> \in Envelope
          BY <3>1, <5>1 DEF Envelope
        <5>3. QED
          BY <3>1, <4>3, <5>2
      <4>6. Append(PrevHash(rows), <<CHAIN_VERSION, n + 1, c>>)
              = [i \in 1..(n + 1) |-> <<CHAIN_VERSION, i, more[i].content>>]
        <5> DEFINE h == Append(PrevHash(rows), <<CHAIN_VERSION, n + 1, c>>)
        <5>1. <<CHAIN_VERSION, n + 1, c>> \in Envelope
          BY <3>1 DEF Envelope
        <5>2. h \in Seq(Envelope) /\ Len(h) = n + 1
          BY <4>5, <5>1
        <5>3. \A i \in 1..n : h[i] = <<CHAIN_VERSION, i, more[i].content>>
          BY <3>3, <4>3, <4>5, <5>1
        <5>4. h[n + 1] = <<CHAIN_VERSION, n + 1, more[n + 1].content>>
          BY <3>3, <4>1, <4>5, <5>1
        <5>5. \A i \in 1..(n + 1) : h[i] = <<CHAIN_VERSION, i, more[i].content>>
          BY <3>1, <5>3, <5>4
        <5>6. h = [i \in 1..(n + 1) |-> h[i]]
          BY <5>2
        <5> HIDE DEF h
        <5>7. h = [i \in 1..(n + 1) |-> <<CHAIN_VERSION, i, more[i].content>>]
          BY <5>5, <5>6
        <5>8. QED
          BY <5>7 DEF h
      <4>7. QED
        BY <3>2, <3>3, <3>5, <4>4, <4>6
    <3>6. m \in 1..n \/ m = n + 1
      BY <3>1, <3>2, <3>3
    <3>7. QED
      BY <3>4, <3>5, <3>6
  <2>4. QED
    BY <2>2, <2>3
<1>3. QED
  BY <1>1, <1>2, TypeCorrect, ChainAlwaysVerifies, PTL DEF Spec

----------------------------------------------------------------------------
(* What verify_chain detects, of a chain that verified before the change.  *)

(* A row whose hashed columns are edited in place is always detected       *)
(* (README C11).                                                           *)
THEOREM EditedRowIsDetected ==
    ASSUME NEW rows \in Seq(Row), verify_chain(rows).valid,
           NEW i \in 1..Len(rows), NEW c \in Content, c # rows[i].content
    PROVE  ~verify_chain([rows EXCEPT ![i].content = c]).valid
<1> DEFINE edited == [rows EXCEPT ![i].content = c]
<1>1. rows[i] \in Row /\ Len(edited) = Len(rows)
  OBVIOUS
<1>2. /\ edited[i].prev_hash = rows[i].prev_hash
      /\ edited[i].seq = rows[i].seq
      /\ edited[i].entry_hash = rows[i].entry_hash
      /\ edited[i].content = c
  BY <1>1 DEF Row
<1>3. compute_entry_hash(rows[i].prev_hash, rows[i].seq, rows[i].content)
        = rows[i].entry_hash
  BY ValidRows
<1>4. compute_entry_hash(rows[i].prev_hash, rows[i].seq, c) # rows[i].entry_hash
  BY <1>1, <1>3, HashInjective DEF Row
<1>5. i \in 1..Len(edited)
      /\ compute_entry_hash(edited[i].prev_hash, edited[i].seq, edited[i].content)
            # edited[i].entry_hash
  BY <1>1, <1>2, <1>4
<1> HIDE DEF edited
<1>6. ~verify_chain(edited).valid
  BY <1>5, ValidRows
<1>7. QED
  BY <1>6 DEF edited

(* A row removed from the chain is detected exactly when it is not the     *)
(* last one: README C12 holds for every row but the tail.                  *)
THEOREM RemovedRowIsDetectedUnlessLast ==
    ASSUME NEW rows \in Seq(Row), verify_chain(rows).valid,
           NEW i \in 1..Len(rows)
    PROVE  verify_chain(SubSeq(rows, 1, i - 1) \o SubSeq(rows, i + 1, Len(rows))).valid
             <=> i = Len(rows)
<1> DEFINE n      == Len(rows)
           before == SubSeq(rows, 1, i - 1)
           after  == SubSeq(rows, i + 1, n)
           kept   == before \o after
<1>1. /\ before \in Seq(Row) /\ Len(before) = i - 1
      /\ \A j \in 1..(i - 1) : before[j] = rows[j]
  BY SubSeqProperties
<1>2. /\ after \in Seq(Row) /\ Len(after) = n - i
      /\ \A j \in 1..(n - i) : after[j] = rows[i + j]
  BY SubSeqProperties
<1>3. n \in Nat /\ i \in 1..n
  OBVIOUS
<1> HIDE DEF before, after
<1>4. /\ Len(kept) = n - 1
      /\ \A j \in 1..(n - 1) : kept[j] = IF j < i THEN rows[j] ELSE rows[j + 1]
  <2>1. /\ Len(kept) = n - 1
        /\ \A j \in 1..(n - 1) :
              kept[j] = IF j < i THEN before[j] ELSE after[j - (i - 1)]
    <3>1. /\ Len(before \o after) = Len(before) + Len(after)
          /\ \A j \in 1..Len(before) + Len(after) :
                (before \o after)[j] =
                    IF j <= Len(before) THEN before[j] ELSE after[j - Len(before)]
      BY <1>1, <1>2, ConcatProperties
    <3>2. QED
      BY <1>1, <1>2, <1>3, <3>1
  <2>2. \A j \in i..(n - 1) : after[j - (i - 1)] = rows[j + 1]
    BY <1>2, <1>3
  <2>3. QED
    BY <1>1, <1>3, <2>1, <2>2
<1> HIDE DEF kept
<1>5. \A j \in 1..n : rows[j].seq = j
  BY ValidRows
<1>6. CASE i = n
  <2>1. \A j \in 1..(n - 1) : kept[j] = rows[j]
    BY <1>3, <1>4, <1>6
  <2>2. \A j \in 1..(n - 1) : ExpectedPrev(kept, j) = ExpectedPrev(rows, j)
    BY <1>3, <2>1 DEF ExpectedPrev
  <2>3. verify_chain(kept).valid
    BY <1>3, <1>4, <2>1, <2>2, ValidRows
  <2>4. QED
    BY <1>6, <2>3 DEF kept, before, after
<1>7. CASE i # n
  <2>1. i \in 1..(n - 1) /\ kept[i].seq = i + 1
    BY <1>3, <1>4, <1>5, <1>7
  <2>2. ~verify_chain(kept).valid
    BY <1>3, <1>4, <2>1, ValidRows
  <2>3. QED
    BY <1>7, <2>2 DEF kept, before, after
<1>8. QED
  BY <1>6, <1>7

(* A row edited and given the digest of its new content is detected, by    *)
(* the prev_hash of its successor, exactly when it has one (README C13).   *)
THEOREM RehashedRowIsDetectedUnlessLast ==
    ASSUME NEW rows \in Seq(Row), verify_chain(rows).valid,
           NEW i \in 1..Len(rows), NEW c \in Content, c # rows[i].content
    PROVE  verify_chain([rows EXCEPT
                 ![i] = [rows[i] EXCEPT
                           !.content    = c,
                           !.entry_hash = compute_entry_hash(
                               rows[i].prev_hash, rows[i].seq, c)]]).valid
             <=> i = Len(rows)
<1> DEFINE h      == compute_entry_hash(rows[i].prev_hash, rows[i].seq, c)
           row    == [rows[i] EXCEPT !.content = c, !.entry_hash = h]
           forged == [rows EXCEPT ![i] = row]
           n      == Len(rows)
<1>1. rows[i] \in Row /\ n \in Nat /\ i \in 1..n
  OBVIOUS
<1>2. /\ row.prev_hash = rows[i].prev_hash
      /\ row.seq = rows[i].seq
      /\ row.content = c
      /\ row.entry_hash = h
  BY <1>1 DEF Row
<1>3. /\ Len(forged) = n
      /\ \A j \in 1..n : j # i => forged[j] = rows[j]
      /\ forged[i] = row
  <2> HIDE DEF row
  <2> QED OBVIOUS
<1>4. \A j \in 1..n :
         /\ rows[j].seq = j
         /\ rows[j].prev_hash = ExpectedPrev(rows, j)
         /\ compute_entry_hash(rows[j].prev_hash, rows[j].seq,
                               rows[j].content) = rows[j].entry_hash
  BY ValidRows
<1>5. h # rows[i].entry_hash
  <2>1. compute_entry_hash(rows[i].prev_hash, rows[i].seq, rows[i].content)
          = rows[i].entry_hash
    BY <1>4
  <2>2. rows[i].prev_hash \in Digest /\ rows[i].seq \in Nat /\ rows[i].content \in Content
    BY <1>1 DEF Row
  <2>3. QED
    BY <2>1, <2>2, HashInjective
<1>6. h = compute_entry_hash(row.prev_hash, row.seq, row.content)
  BY <1>2
<1> HIDE DEF h, row, forged
<1>7. CASE i = n
  <2>1. \A j \in 1..n : ExpectedPrev(forged, j) = ExpectedPrev(rows, j)
    BY <1>1, <1>3, <1>7 DEF ExpectedPrev
  <2>2. \A j \in 1..n :
           /\ forged[j].seq = j
           /\ forged[j].prev_hash = ExpectedPrev(forged, j)
           /\ compute_entry_hash(forged[j].prev_hash, forged[j].seq,
                                 forged[j].content) = forged[j].entry_hash
    <3> TAKE j \in 1..n
    <3>1. CASE j = i
      BY <3>1, <1>2, <1>3, <1>4, <1>6, <2>1
    <3>2. CASE j # i
      BY <3>2, <1>3, <1>4, <2>1
    <3>3. QED
      BY <3>1, <3>2
  <2>3. verify_chain(forged).valid
    BY <1>3, <2>2, ValidRows
  <2>4. QED
    BY <1>7, <2>3 DEF forged, row, h
<1>8. CASE i # n
  <2>1. /\ i + 1 \in 1..n
        /\ i + 1 # 1
        /\ i + 1 # i
    BY <1>1, <1>8
  <2>2. rows[i + 1].prev_hash = rows[i].entry_hash
    <3>1. ExpectedPrev(rows, i + 1) = rows[i].entry_hash
      BY <1>1, <2>1 DEF ExpectedPrev
    <3>2. QED
      BY <1>4, <2>1, <3>1
  <2>3. ExpectedPrev(forged, i + 1) = h
    BY <1>1, <1>2, <1>3, <2>1 DEF ExpectedPrev
  <2>4. forged[i + 1].prev_hash # ExpectedPrev(forged, i + 1)
    BY <1>3, <1>5, <2>1, <2>2, <2>3
  <2>5. ~verify_chain(forged).valid
    BY <1>3, <2>1, <2>4, ValidRows
  <2>6. QED
    BY <1>8, <2>5 DEF forged, row, h
<1>9. QED
  BY <1>7, <1>8

(* What it cannot detect: interview_id, the column the per-interview export*)
(* selects on (audit_service.py:114-125), is not in the digest, so a row   *)
(* moved to another interview still verifies.                              *)
THEOREM MovedRowIsNotDetected ==
    ASSUME NEW rows \in Seq(Row), verify_chain(rows).valid,
           NEW i \in 1..Len(rows), NEW x \in Interviews
    PROVE  verify_chain([rows EXCEPT ![i].interview_id = x]).valid
<1> DEFINE moved == [rows EXCEPT ![i].interview_id = x]
<1>1. Len(moved) = Len(rows)
  OBVIOUS
<1>2. ASSUME NEW j \in 1..Len(rows)
      PROVE  /\ moved[j].seq = rows[j].seq
             /\ moved[j].content = rows[j].content
             /\ moved[j].prev_hash = rows[j].prev_hash
             /\ moved[j].entry_hash = rows[j].entry_hash
  BY DEF Row
<1>3. ASSUME NEW j \in 1..Len(rows)
      PROVE  ExpectedPrev(moved, j) = ExpectedPrev(rows, j)
  <2>1. CASE j = 1
    BY <2>1 DEF ExpectedPrev
  <2>2. CASE j # 1
    <3>1. j - 1 \in 1..Len(rows)
      BY <2>2
    <3>2. QED
      BY <2>2, <3>1, <1>2 DEF ExpectedPrev
  <2>3. QED
    BY <2>1, <2>2
<1>4. \A j \in 1..Len(rows) :
          /\ rows[j].seq = j
          /\ rows[j].prev_hash = ExpectedPrev(rows, j)
          /\ compute_entry_hash(rows[j].prev_hash, rows[j].seq, rows[j].content)
               = rows[j].entry_hash
  BY ValidRows
<1>5. \A j \in 1..Len(moved) :
          /\ moved[j].seq = j
          /\ moved[j].prev_hash = ExpectedPrev(moved, j)
          /\ compute_entry_hash(moved[j].prev_hash, moved[j].seq, moved[j].content)
               = moved[j].entry_hash
  <2> SUFFICES ASSUME NEW j \in 1..Len(rows)
               PROVE  /\ moved[j].seq = j
                      /\ moved[j].prev_hash = ExpectedPrev(moved, j)
                      /\ compute_entry_hash(moved[j].prev_hash, moved[j].seq,
                                            moved[j].content) = moved[j].entry_hash
    BY <1>1
  <2>1. QED
    BY <1>2, <1>3, <1>4
<1>6. QED
  BY <1>5, ValidRows

(* No column holds the version a row was hashed under, though hashing.py:14*)
(* says "Stored on every entry so historical chains stay verifiable": after*)
(* a bump of CHAIN_VERSION a chain with an older row does not verify, be it*)
(* untouched or not.                                                       *)
THEOREM OlderVersionIsReported ==
    ASSUME NEW rows, NEW i \in 1..Len(rows), NEW version \in Nat,
           rows[i].prev_hash \in Seq(Nat \X Nat \X Content),
           rows[i].seq \in Nat, rows[i].content \in Content,
           rows[i].entry_hash
             = Append(rows[i].prev_hash, <<version, rows[i].seq, rows[i].content>>),
           version # CHAIN_VERSION
    PROVE  ~verify_chain(rows).valid
<1> DEFINE p   == rows[i].prev_hash
           old == <<version, rows[i].seq, rows[i].content>>
           new == <<CHAIN_VERSION, rows[i].seq, rows[i].content>>
<1>1. old # new
  OBVIOUS
<1>2. /\ p \in Seq(Nat \X Nat \X Content)
      /\ old \in Nat \X Nat \X Content
      /\ new \in Nat \X Nat \X Content
  BY DEF CHAIN_VERSION
<1> HIDE DEF old, new, p
<1>3. /\ Append(p, old)[Len(p) + 1] = old
      /\ Append(p, new)[Len(p) + 1] = new
  BY <1>2
<1>4. Append(p, new) # Append(p, old)
  BY <1>1, <1>3
<1>5. compute_entry_hash(rows[i].prev_hash, rows[i].seq, rows[i].content)
        # rows[i].entry_hash
  BY <1>4 DEF compute_entry_hash, p, old, new
<1>6. QED
  BY <1>5, ValidRows
===============================================================================
