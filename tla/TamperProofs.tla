----------------------------- MODULE TamperProofs -----------------------------
(***************************************************************************)
(* What verify_chain still vouches for once the guard is gone, for every   *)
(* length of the chain and any number of changes by hand.                  *)
(***************************************************************************)
EXTENDS TamperEvidence, AuditLogProofs, WellFoundedInduction

(* A non-empty set of naturals has the minimum that Min chooses.           *)
LEMMA MinOfNats ==
    ASSUME NEW B \in SUBSET Nat, B # {}
    PROVE  Min(B) \in B /\ \A y \in B : Min(B) <= y
<1>1. PICK x \in B : \A y \in B : ~ (<<y, x>> \in OpToRel(<, Nat))
  BY NatLessThanWellFounded, WFMin
<1>2. \A y \in B : <<y, x>> \in Nat \X Nat /\ ~(y < x)
  BY <1>1 DEF OpToRel
<1>3. \A y \in B : x <= y
  <2>1. \A n, m \in Nat : ~(m < n) => n <= m
    OBVIOUS
  <2>2. QED
    BY <1>2, <2>1
<1>4. QED
  BY <1>3 DEF Min

(* The rows verify_chain passed are none of its breaks.                    *)
LEMMA PassedIsUnbroken ==
    ASSUME NEW rows \in Seq(Row), NEW i \in Passed(rows)
    PROVE  i \in 1..Len(rows) /\ i \notin Breaks(rows)
<1>1. CASE Breaks(rows) = {}
  BY <1>1 DEF Passed, verify_chain
<1>2. CASE Breaks(rows) # {}
  <2>1. Breaks(rows) \in SUBSET (1..Len(rows)) /\ Len(rows) \in Nat
    BY DEF Breaks
  <2>2. /\ Min(Breaks(rows)) \in Breaks(rows)
        /\ \A j \in Breaks(rows) : Min(Breaks(rows)) <= j
    BY <1>2, <2>1, MinOfNats
  <2>3. i \in 1..(Min(Breaks(rows)) - 1)
    BY <1>2 DEF Passed, verify_chain, FirstBreak
  <2>4. QED
    BY <2>1, <2>2, <2>3
<1>3. QED
  BY <1>1, <1>2

(* RemoveAt removes a row and changes no other.                            *)
LEMMA RemoveAtRows ==
    ASSUME NEW rows \in Seq(Row), NEW i \in 1..Len(rows)
    PROVE  /\ RemoveAt(rows, i) \in Seq(Row)
           /\ Len(RemoveAt(rows, i)) = Len(rows) - 1
           /\ \A j \in 1..Len(RemoveAt(rows, i)) :
                 \E k \in 1..Len(rows) : RemoveAt(rows, i)[j] = rows[k]
<1> DEFINE before == SubSeq(rows, 1, i - 1)
           after  == SubSeq(rows, i + 1, Len(rows))
<1>1. /\ before \in Seq(Row) /\ Len(before) = i - 1
      /\ \A j \in 1..(i - 1) : before[j] = rows[j]
  BY SubSeqProperties
<1>2. /\ after \in Seq(Row) /\ Len(after) = Len(rows) - i
      /\ \A j \in 1..(Len(rows) - i) : after[j] = rows[i + j]
  BY SubSeqProperties
<1>3. RemoveAt(rows, i) = before \o after
  BY DEF RemoveAt
<1> HIDE DEF before, after
<1>4. before \o after \in Seq(Row) /\ Len(before \o after) = Len(rows) - 1
  BY <1>1, <1>2
<1>5. ASSUME NEW j \in 1..(Len(rows) - 1)
      PROVE  \E k \in 1..Len(rows) : (before \o after)[j] = rows[k]
  <2>1. CASE j <= i - 1
    <3>1. (before \o after)[j] = before[j]
      BY <2>1, <1>1, <1>2
    <3>2. j \in 1..(i - 1) /\ j \in 1..Len(rows)
      BY <2>1
    <3>3. QED
      BY <3>1, <3>2, <1>1
  <2>2. CASE j > i - 1
    <3>1. (before \o after)[j] = after[j - (i - 1)]
      BY <2>2, <1>1, <1>2
    <3>2. j - (i - 1) \in 1..(Len(rows) - i) /\ i + (j - (i - 1)) \in 1..Len(rows)
      BY <2>2
    <3>3. after[j - (i - 1)] = rows[i + (j - (i - 1))]
      BY <1>2, <3>2
    <3>4. QED
      BY <3>1, <3>2, <3>3
  <2>3. j <= i - 1 \/ j > i - 1
    OBVIOUS
  <2>4. QED
    BY <2>1, <2>2, <2>3, Zenon
<1>6. QED
  BY <1>3, <1>4, <1>5

(* InsertAt puts one row in and changes no other.                          *)
LEMMA InsertAtRows ==
    ASSUME NEW rows \in Seq(Row), NEW j \in 1..(Len(rows) + 1), NEW row \in Row
    PROVE  InsertAt(rows, j, row) \in Seq(Row) /\ Len(InsertAt(rows, j, row)) = Len(rows) + 1
<1> DEFINE before == SubSeq(rows, 1, j - 1)
           after  == SubSeq(rows, j, Len(rows))
<1>1. before \in Seq(Row) /\ Len(before) = j - 1
  BY SubSeqProperties
<1>2. after \in Seq(Row) /\ Len(after) = Len(rows) - j + 1
  BY SubSeqProperties
<1>3. InsertAt(rows, j, row) = before \o <<row>> \o after
  BY DEF InsertAt
<1> HIDE DEF before, after
<1>4. <<row>> \in Seq(Row) /\ Len(<<row>>) = 1
  OBVIOUS
<1>5. before \o <<row>> \in Seq(Row) /\ Len(before \o <<row>>) = j
  BY <1>1, <1>4
<1>6. /\ (before \o <<row>>) \o after \in Seq(Row)
      /\ Len((before \o <<row>>) \o after) = j + (Len(rows) - j + 1)
  <2> DEFINE start == before \o <<row>>
  <2>1. start \in Seq(Row) /\ Len(start) = j
    BY <1>5
  <2> HIDE DEF start
  <2>2. start \o after \in Seq(Row) /\ Len(start \o after) = j + (Len(rows) - j + 1)
    BY <1>2, <2>1
  <2>3. QED
    BY <2>2 DEF start
<1>7. j + (Len(rows) - j + 1) = Len(rows) + 1
  OBVIOUS
<1>8. QED
  BY <1>3, <1>6, <1>7

----------------------------------------------------------------------------
(* The inductive invariant.  A recorded row has the digest of its own      *)
(* columns, and what verify() answered valid for was unbroken: nothing     *)
(* done to the log later changes either.                                   *)
Authentic(row) ==
    row.entry_hash = compute_entry_hash(row.prev_hash, row.seq, row.content)

TamperInv ==
    /\ TamperTypeOK
    /\ \A t \in Tenants : \A row \in recorded[t] : Authentic(row)
    /\ \A t \in Tenants : verify_chain(verified[t]).valid

LEMMA InvInit == TamperInit => TamperInv
<1> SUFFICES ASSUME TamperInit PROVE TamperInv
  OBVIOUS
<1>1. TamperTypeOK
  BY MaxTampersAssumption DEF TamperInit, Init, TamperTypeOK, TypeOK
<1>2. verify_chain(<<>>).valid
  BY ValidRows
<1>3. QED
  BY <1>1, <1>2 DEF TamperInit, TamperInv

(* What a change by hand may leave: rows, and no more of them than before. *)
LEMMA TamperedRows ==
    ASSUME TamperInv, NEW t \in Tenants, NEW i \in 1..Len(log[t]), TamperRow(t, i)
    PROVE  \E rows \in Seq(Row) : Len(rows) <= Len(log[t]) /\ ByHand(t, rows)
<1>1. /\ log[t] \in Seq(Row) /\ Len(log[t]) \in Nat
      /\ log[t][i] \in Row
  BY DEF TamperInv, TamperTypeOK, TypeOK
<1>2. ASSUME NEW row \in Row, ByHand(t, [log[t] EXCEPT ![i] = row])
      PROVE  \E rows \in Seq(Row) : Len(rows) <= Len(log[t]) /\ ByHand(t, rows)
  <2>1. /\ [log[t] EXCEPT ![i] = row] \in Seq(Row)
        /\ Len([log[t] EXCEPT ![i] = row]) = Len(log[t])
    BY <1>1
  <2>2. QED
    BY <1>1, <1>2, <2>1
<1>3. ASSUME NEW c \in Content, EditContent(t, i, c)
      PROVE  \E rows \in Seq(Row) : Len(rows) <= Len(log[t]) /\ ByHand(t, rows)
  <2>1. [log[t][i] EXCEPT !.content = c] \in Row
    BY <1>1 DEF Row
  <2>2. QED
    BY <1>2, <1>3, <2>1 DEF EditContent, Update
<1>4. ASSUME NEW c \in Content, Rehash(t, i, c)
      PROVE  \E rows \in Seq(Row) : Len(rows) <= Len(log[t]) /\ ByHand(t, rows)
  <2> DEFINE forged == compute_entry_hash(log[t][i].prev_hash, log[t][i].seq, c)
  <2>1. forged \in Digest
    BY <1>1, HashType DEF Row
  <2>2. Update(t, [log[t] EXCEPT ![i] =
                     [log[t][i] EXCEPT !.content = c, !.entry_hash = forged]])
    BY <1>4 DEF Rehash
  <2> HIDE DEF forged
  <2>3. [log[t][i] EXCEPT !.content = c, !.entry_hash = forged] \in Row
    BY <1>1, <2>1 DEF Row
  <2>4. QED
    BY <1>2, <2>2, <2>3 DEF Update
<1>5. ASSUME NEW d \in {GENESIS_HASH} \cup {log[t][j].entry_hash : j \in 1..Len(log[t])},
             Relink(t, i, d)
      PROVE  \E rows \in Seq(Row) : Len(rows) <= Len(log[t]) /\ ByHand(t, rows)
  <2>1. GENESIS_HASH \in Digest
    BY DEF GENESIS_HASH, Digest
  <2>2. \A j \in 1..Len(log[t]) : log[t][j].entry_hash \in Digest
    <3>1. \A j \in 1..Len(log[t]) : log[t][j] \in Row
      BY <1>1
    <3>2. \A row \in Row : row.entry_hash \in Digest
      BY DEF Row
    <3>3. QED
      BY <3>1, <3>2
  <2>3. [log[t][i] EXCEPT !.prev_hash = d] \in Row
    BY <1>1, <2>1, <2>2 DEF Row
  <2>4. QED
    BY <1>2, <1>5, <2>3 DEF Relink, Update
<1>6. ASSUME NEW x \in Interviews, MoveToInterview(t, i, x)
      PROVE  \E rows \in Seq(Row) : Len(rows) <= Len(log[t]) /\ ByHand(t, rows)
  <2>1. [log[t][i] EXCEPT !.interview_id = x] \in Row
    BY <1>1 DEF Row
  <2>2. QED
    BY <1>2, <1>6, <2>1 DEF MoveToInterview, Update
<1>7. ASSUME NEW n \in 1..MaxSeq, NEW j \in 1..Len(log[t]), Renumber(t, i, n, j)
      PROVE  \E rows \in Seq(Row) : Len(rows) <= Len(log[t]) /\ ByHand(t, rows)
  <2> DEFINE others == RemoveAt(log[t], i)
             moved  == [log[t][i] EXCEPT !.seq = n]
  <2>1. others \in Seq(Row) /\ Len(others) = Len(log[t]) - 1
    BY <1>1, RemoveAtRows
  <2>2. moved \in Row
    BY <1>1, MaxSeqAssumption DEF Row
  <2>3. ByHand(t, InsertAt(others, j, moved))
    BY <1>7 DEF Renumber, Update
  <2> HIDE DEF others, moved
  <2>4. j \in 1..(Len(others) + 1)
    BY <1>1, <2>1
  <2>5. /\ InsertAt(others, j, moved) \in Seq(Row)
        /\ Len(InsertAt(others, j, moved)) = Len(others) + 1
    BY <2>1, <2>2, <2>4, InsertAtRows
  <2>6. Len(InsertAt(others, j, moved)) <= Len(log[t])
    BY <1>1, <2>1, <2>5
  <2>7. QED
    BY <2>3, <2>5, <2>6
<1>8. CASE DeleteRow(t, i)
  <2>1. ByHand(t, RemoveAt(log[t], i))
    BY <1>8 DEF DeleteRow
  <2>2. RemoveAt(log[t], i) \in Seq(Row) /\ Len(RemoveAt(log[t], i)) <= Len(log[t])
    BY <1>1, RemoveAtRows
  <2>3. QED
    BY <2>1, <2>2
<1>9. QED
  BY <1>3, <1>4, <1>5, <1>6, <1>7, <1>8 DEF TamperRow

LEMMA NextKeepsInv == TamperInv /\ [TamperNext]_tvars => TamperInv'
<1> SUFFICES ASSUME TamperInv, [TamperNext]_tvars PROVE TamperInv'
  OBVIOUS
<1>1. /\ log \in [Tenants -> Seq(Row)]
      /\ recorded \in [Tenants -> SUBSET Row]
      /\ verified \in [Tenants -> Seq(Row)]
  BY DEF TamperInv, TamperTypeOK, TypeOK
<1>2. CASE \E t \in Tenants, c \in Content, x \in Interviews : RecordEntry(t, c, x)
  <2>1. PICK t \in Tenants, c \in Content, x \in Interviews : RecordEntry(t, c, x)
    BY <1>2
  <2> DEFINE entry == NewEntry(log[t], c, x)
  <2>2. /\ log' = [log EXCEPT ![t] = Append(@, entry)]
        /\ recorded' = [recorded EXCEPT ![t] = @ \cup {entry}]
        /\ UNCHANGED <<guards, verified, tampers>>
    BY <2>1 DEF RecordEntry, Record
  <2>3. entry \in Row /\ Authentic(entry)
    BY <1>1, NewEntryType DEF Authentic, NewEntry
  <2> HIDE DEF entry
  <2>4. TamperTypeOK'
    BY <1>1, <2>2, <2>3 DEF TamperInv, TamperTypeOK, TypeOK
  <2>5. ASSUME NEW u \in Tenants, NEW row \in recorded'[u]
        PROVE  Authentic(row)
    BY <1>1, <2>2, <2>3 DEF TamperInv
  <2>6. QED
    BY <2>2, <2>4, <2>5 DEF TamperInv
<1>3. CASE \E t \in Tenants : Verify(t)
  <2>1. PICK t \in Tenants : Verify(t)
    BY <1>3
  <2>2. TamperTypeOK'
    BY <1>1, <2>1 DEF Verify, TamperInv, TamperTypeOK, TypeOK
  <2>3. ASSUME NEW u \in Tenants PROVE verify_chain(verified'[u]).valid
    <3>1. CASE u = t
      BY <1>1, <2>1, <3>1 DEF Verify
    <3>2. CASE u # t
      BY <1>1, <2>1, <3>2 DEF Verify, TamperInv
    <3>3. QED
      BY <3>1, <3>2
  <2>4. recorded' = recorded
    BY <2>1 DEF Verify
  <2>5. QED
    BY <2>2, <2>3, <2>4 DEF TamperInv
<1>4. CASE \E g \in Triggers : DropTrigger(g)
  <2>1. PICK g \in Triggers : DropTrigger(g)
    BY <1>4
  <2>2. guards' \subseteq Triggers
    BY <2>1 DEF DropTrigger, TamperInv, TamperTypeOK
  <2>3. QED
    BY <2>1, <2>2 DEF DropTrigger, TamperInv, TamperTypeOK, TypeOK
<1>5. CASE \E t \in Tenants : \E i \in 1..Len(log[t]) : TamperRow(t, i)
  <2>1. PICK t \in Tenants, rows \in Seq(Row) : ByHand(t, rows)
    BY <1>5, TamperedRows
  <2>2. TamperTypeOK'
    BY <2>1, MaxTampersAssumption DEF ByHand, TamperInv, TamperTypeOK, TypeOK
  <2>3. QED
    BY <2>1, <2>2 DEF ByHand, TamperInv
<1>6. CASE UNCHANGED tvars
  BY <1>6 DEF tvars, TamperInv, TamperTypeOK, TypeOK
<1>7. QED
  BY <1>2, <1>3, <1>4, <1>5, <1>6 DEF TamperNext

LEMMA InvAlways == TamperSpec => []TamperInv
  BY InvInit, NextKeepsInv, PTL DEF TamperSpec

----------------------------------------------------------------------------
(* Whatever is changed by hand, the log, the triggers and what is          *)
(* remembered of the log keep their types.                                 *)
THEOREM TamperTypeCorrect == TamperSpec => []TamperTypeOK
<1>1. TamperInv => TamperTypeOK
  BY DEF TamperInv
<1>2. QED
  BY <1>1, InvAlways, PTL

(* The rows before a row that passed have passed.                          *)
LEMMA PassedToThere ==
    ASSUME NEW rows \in Seq(Row), NEW i \in Passed(rows), NEW k \in 1..i
    PROVE  k \in 1..Len(rows) /\ k \notin Breaks(rows)
<1>1. k \in Passed(rows)
  <2>1. CASE Breaks(rows) = {}
    <3>1. Passed(rows) = 1..Len(rows)
      BY <2>1 DEF Passed, verify_chain
    <3>2. QED
      BY <3>1
  <2>2. CASE Breaks(rows) # {}
    <3>1. Passed(rows) = 1..(Min(Breaks(rows)) - 1)
      BY <2>2 DEF Passed, verify_chain, FirstBreak
    <3>2. Min(Breaks(rows)) \in 1..Len(rows)
      BY <2>2, MinOfNats DEF Breaks
    <3>3. QED
      BY <3>1, <3>2
  <2>3. QED
    BY <2>1, <2>2
<1>2. QED
  BY <1>1, PassedIsUnbroken

(* A row that is no break is at its seq, follows the digest before it and  *)
(* has the digest of its own columns.                                      *)
LEMMA UnbrokenRow ==
    ASSUME NEW rows \in Seq(Row), NEW k \in 1..Len(rows), k \notin Breaks(rows)
    PROVE  /\ rows[k] \in Row
           /\ rows[k].seq = k
           /\ rows[k].prev_hash = ExpectedPrev(rows, k)
           /\ Authentic(rows[k])
  BY DEF Breaks, SequenceGap, Relinked, EditedInPlace, Authentic

(* Two rows with the digests of their own columns and the same digest have *)
(* the same hashed columns.                                                *)
LEMMA SameDigestSameColumns ==
    ASSUME NEW row \in Row, NEW other \in Row, Authentic(row), Authentic(other),
           row.entry_hash = other.entry_hash
    PROVE  /\ Hashed(row) = Hashed(other)
           /\ row.seq = other.seq /\ row.prev_hash = other.prev_hash
<1>1. compute_entry_hash(row.prev_hash, row.seq, row.content)
        = compute_entry_hash(other.prev_hash, other.seq, other.content)
  BY DEF Authentic
<1>2. /\ row.prev_hash \in Digest /\ row.seq \in Nat /\ row.content \in Content
      /\ other.prev_hash \in Digest /\ other.seq \in Nat /\ other.content \in Content
  BY DEF Row
<1>3. row.prev_hash = other.prev_hash /\ row.seq = other.seq /\ row.content = other.content
  BY <1>1, <1>2, HashInjective
<1>4. QED
  BY <1>3 DEF Hashed

(* Two unbroken chains that agree in one digest agree in every row up to   *)
(* it: the digests before it, from the last to the first, are the same.    *)
LEMMA SameDigestSameHistory ==
    ASSUME NEW a \in Seq(Row), NEW b \in Seq(Row), NEW n \in Nat \ {0},
           \A k \in 1..n : k \in 1..Len(a) /\ k \notin Breaks(a),
           \A k \in 1..n : k \in 1..Len(b) /\ k \notin Breaks(b),
           a[n].entry_hash = b[n].entry_hash
    PROVE  \A k \in 1..n : Hashed(a[k]) = Hashed(b[k])
<1> DEFINE Differ == {d \in 0..(n - 1) : a[n - d].entry_hash # b[n - d].entry_hash}
<1>1. ASSUME NEW k \in 1..n, a[k].entry_hash = b[k].entry_hash
      PROVE  Hashed(a[k]) = Hashed(b[k]) /\ a[k].prev_hash = b[k].prev_hash
  BY <1>1, UnbrokenRow, SameDigestSameColumns
<1>2. ASSUME NEW k \in 1..n, k # 1, a[k].entry_hash = b[k].entry_hash
      PROVE  a[k - 1].entry_hash = b[k - 1].entry_hash
  <2>1. /\ a[k].prev_hash = ExpectedPrev(a, k)
        /\ b[k].prev_hash = ExpectedPrev(b, k)
    BY UnbrokenRow
  <2>2. QED
    BY <1>1, <1>2, <2>1 DEF ExpectedPrev
<1>3. Differ = {}
  <2> SUFFICES ASSUME Differ # {} PROVE FALSE
    OBVIOUS
  <2> DEFINE m == Min(Differ)
  <2>0. Differ \in SUBSET Nat
    OBVIOUS
  <2>1. m \in Differ /\ \A y \in Differ : m <= y
    <3> HIDE DEF Differ
    <3>1. QED
      BY <2>0, MinOfNats
  <2>2. m \in 0..(n - 1) /\ a[n - m].entry_hash # b[n - m].entry_hash
    BY <2>1
  <2> HIDE DEF m
  <2>3. m # 0
    BY <2>2
  <2>4. m - 1 \in 0..(n - 1) /\ m - 1 \notin Differ
    <3>1. m - 1 \in 0..(n - 1) /\ ~(m <= m - 1)
      BY <2>2, <2>3
    <3> HIDE DEF Differ
    <3>2. QED
      BY <2>1, <3>1
  <2>5. a[n - (m - 1)].entry_hash = b[n - (m - 1)].entry_hash
    BY <2>4
  <2>6. n - (m - 1) \in 1..n /\ n - (m - 1) # 1 /\ (n - (m - 1)) - 1 = n - m
    BY <2>2, <2>3
  <2>7. QED
    BY <1>2, <2>2, <2>5, <2>6
<1>4. ASSUME NEW k \in 1..n PROVE a[k].entry_hash = b[k].entry_hash
  <2>1. n - k \in 0..(n - 1) /\ n - (n - k) = k
    OBVIOUS
  <2>2. n - k \notin Differ
    BY <1>3
  <2>3. QED
    BY <2>1, <2>2
<1>5. QED
  BY <1>1, <1>4

(* However many rows are updated, rehashed, renumbered and removed, and    *)
(* however much is recorded in between, a row that passes with a digest    *)
(* record() wrote is that row, and one that passes with a digest verify()  *)
(* once vouched for stands after the same rows as then.                    *)
THEOREM NoHistoryBehindADigest == TamperSpec => []DigestsVouchForHistory
<1>1. TamperInv => DigestsVouchForHistory
  <2> SUFFICES ASSUME TamperInv, NEW t \in Tenants, NEW i \in Passed(log[t])
               PROVE  /\ \A row \in recorded[t] :
                            row.entry_hash = log[t][i].entry_hash
                              => Hashed(row) = Hashed(log[t][i])
                      /\ \A n \in 1..Len(verified[t]) :
                            verified[t][n].entry_hash = log[t][i].entry_hash =>
                               /\ i = n
                               /\ \A k \in 1..n : Hashed(verified[t][k]) = Hashed(log[t][k])
    BY DEF DigestsVouchForHistory
  <2>1. /\ log[t] \in Seq(Row) /\ verified[t] \in Seq(Row)
        /\ recorded[t] \in SUBSET Row
        /\ \A row \in recorded[t] : Authentic(row)
        /\ verify_chain(verified[t]).valid
    BY DEF TamperInv, TamperTypeOK, TypeOK
  <2>2. i \in 1..Len(log[t]) /\ i \notin Breaks(log[t])
    BY <2>1, PassedIsUnbroken
  <2>3. log[t][i] \in Row /\ log[t][i].seq = i /\ Authentic(log[t][i])
    BY <2>1, <2>2, UnbrokenRow
  <2>4. ASSUME NEW row \in recorded[t], row.entry_hash = log[t][i].entry_hash
        PROVE  Hashed(row) = Hashed(log[t][i])
    BY <2>1, <2>3, <2>4, SameDigestSameColumns
  <2>5. ASSUME NEW n \in 1..Len(verified[t]),
               verified[t][n].entry_hash = log[t][i].entry_hash
        PROVE  i = n /\ \A k \in 1..n : Hashed(verified[t][k]) = Hashed(log[t][k])
    <3>1. Breaks(verified[t]) = {}
      BY <2>1, ValidIffNoBreak
    <3>2. verified[t][n] \in Row /\ verified[t][n].seq = n /\ Authentic(verified[t][n])
      BY <2>1, <3>1, UnbrokenRow
    <3>3. i = n
      BY <2>3, <2>5, <3>2, SameDigestSameColumns
    <3>4. n \in Nat \ {0} /\ Len(verified[t]) \in Nat
      BY <2>1
    <3>5. \A k \in 1..n : k \in 1..Len(verified[t]) /\ k \notin Breaks(verified[t])
      BY <3>1, <3>4
    <3>6. \A k \in 1..n : k \in 1..Len(log[t]) /\ k \notin Breaks(log[t])
      BY <2>1, <3>3, PassedToThere
    <3>7. QED
      BY <2>1, <2>5, <3>3, <3>4, <3>5, <3>6, SameDigestSameHistory
  <2>6. QED
    BY <2>4, <2>5
<1>2. QED
  BY <1>1, InvAlways, PTL

----------------------------------------------------------------------------
(* Until a trigger is dropped every chain verifies and holds exactly the   *)
(* rows record() wrote; as long as audit_log_no_update exists, none but    *)
(* those.                                                                  *)
THEOREM GuardedLog == TamperSpec => []GuardedChainComplete
<1>1. TamperInit => GuardedChainComplete
  <2> SUFFICES ASSUME TamperInit, NEW t \in Tenants
               PROVE  verify_chain(log[t]).valid /\ recorded[t] = ToSet(log[t])
    BY DEF GuardedChainComplete
  <2>1. log[t] = <<>> /\ recorded[t] = {}
    BY DEF TamperInit, Init
  <2>2. QED
    BY <2>1, ValidRows DEF ToSet
<1>2. TamperInv /\ GuardedChainComplete /\ [TamperNext]_tvars => GuardedChainComplete'
  <2> SUFFICES ASSUME TamperInv, GuardedChainComplete, [TamperNext]_tvars
               PROVE  GuardedChainComplete'
    OBVIOUS
  <2>1. CASE \E t \in Tenants, c \in Content, x \in Interviews : RecordEntry(t, c, x)
    <3>1. PICK t \in Tenants, c \in Content, x \in Interviews : RecordEntry(t, c, x)
      BY <2>1
    <3> DEFINE entry == NewEntry(log[t], c, x)
    <3>2. /\ log \in [Tenants -> Seq(Row)]
          /\ recorded \in [Tenants -> SUBSET Row]
          /\ entry \in Row
      BY NewEntryType DEF TamperInv, TamperTypeOK, TypeOK
    <3>3. /\ log' = [log EXCEPT ![t] = Append(@, entry)]
          /\ recorded' = [recorded EXCEPT ![t] = @ \cup {entry}]
          /\ guards' = guards
      BY <3>1 DEF RecordEntry, Record
    <3>4. guards = Triggers => verify_chain(Append(log[t], entry)).valid
      BY <3>2, AppendKeepsValid DEF GuardedChainComplete
    <3> HIDE DEF entry
    <3>5. ToSet(Append(log[t], entry)) = ToSet(log[t]) \cup {entry}
      <4>1. /\ log[t] \in Seq(Row) /\ Len(log[t]) \in Nat
            /\ DOMAIN log[t] = 1..Len(log[t])
            /\ DOMAIN Append(log[t], entry) = 1..(Len(log[t]) + 1)
            /\ \A i \in 1..Len(log[t]) : Append(log[t], entry)[i] = log[t][i]
            /\ Append(log[t], entry)[Len(log[t]) + 1] = entry
        BY <3>2
      <4>2. 1..(Len(log[t]) + 1) = (1..Len(log[t])) \cup {Len(log[t]) + 1}
        BY <4>1
      <4>3. QED
        BY <4>1, <4>2, Zenon DEF ToSet
    <3>6. ASSUME NEW u \in Tenants
          PROVE  /\ "audit_log_no_update" \in guards' => ToSet(log'[u]) \subseteq recorded'[u]
                 /\ guards' = Triggers => /\ verify_chain(log'[u]).valid
                                          /\ recorded'[u] \subseteq ToSet(log'[u])
      <4>1. CASE u = t
        <5>1. log'[u] = Append(log[t], entry) /\ recorded'[u] = recorded[t] \cup {entry}
          BY <3>2, <3>3, <4>1
        <5>2. QED
          BY <3>3, <3>4, <3>5, <5>1 DEF GuardedChainComplete
      <4>2. CASE u # t
        <5>1. log'[u] = log[u] /\ recorded'[u] = recorded[u]
          BY <3>2, <3>3, <4>2
        <5>2. QED
          BY <3>3, <5>1 DEF GuardedChainComplete
      <4>3. QED
        BY <4>1, <4>2
    <3>7. QED
      BY <3>6 DEF GuardedChainComplete
  <2>2. CASE \E t \in Tenants : Verify(t)
    BY <2>2 DEF Verify, GuardedChainComplete
  <2>3. CASE \E g \in Triggers : DropTrigger(g)
    <3>1. PICK g \in Triggers : DropTrigger(g)
      BY <2>3
    <3>2. g \notin guards' /\ guards' \subseteq guards
      BY <3>1 DEF DropTrigger
    <3>3. guards' # Triggers
      BY <3>2
    <3>4. log' = log /\ recorded' = recorded
      BY <3>1 DEF DropTrigger
    <3>5. QED
      BY <3>2, <3>3, <3>4 DEF GuardedChainComplete
  <2>4. ASSUME NEW t \in Tenants, NEW rows, Update(t, rows)
        PROVE  GuardedChainComplete'
    <3>1. "audit_log_no_update" \notin guards' /\ guards' # Triggers
      BY <2>4 DEF Update, ByHand, Triggers
    <3>2. QED
      BY <3>1 DEF GuardedChainComplete
  <2>5. ASSUME NEW t \in Tenants, NEW i \in 1..Len(log[t]), DeleteRow(t, i)
        PROVE  GuardedChainComplete'
    <3>1. /\ guards' = guards /\ guards # Triggers /\ recorded' = recorded
          /\ log' = [log EXCEPT ![t] = RemoveAt(log[t], i)]
      BY <2>5 DEF DeleteRow, ByHand, Triggers
    <3>2. log \in [Tenants -> Seq(Row)]
      BY DEF TamperInv, TamperTypeOK, TypeOK
    <3>3. ToSet(RemoveAt(log[t], i)) \subseteq ToSet(log[t])
      <4>1. log[t] \in Seq(Row) /\ RemoveAt(log[t], i) \in Seq(Row)
        BY <3>2, RemoveAtRows
      <4>2. \A j \in 1..Len(RemoveAt(log[t], i)) :
               \E k \in 1..Len(log[t]) : RemoveAt(log[t], i)[j] = log[t][k]
        BY <3>2, RemoveAtRows
      <4>3. /\ DOMAIN log[t] = 1..Len(log[t])
            /\ DOMAIN RemoveAt(log[t], i) = 1..Len(RemoveAt(log[t], i))
        BY <4>1
      <4>4. QED
        BY <4>2, <4>3, Zenon DEF ToSet
    <3>4. ASSUME NEW u \in Tenants, "audit_log_no_update" \in guards
          PROVE  ToSet(log'[u]) \subseteq recorded[u]
      <4>1. ToSet(log[u]) \subseteq recorded[u]
        BY <3>4 DEF GuardedChainComplete
      <4>2. CASE u = t
        <5>1. log'[u] = RemoveAt(log[t], i)
          BY <3>1, <3>2, <4>2
        <5>2. QED
          BY <3>3, <4>1, <4>2, <5>1
      <4>3. CASE u # t
        BY <3>1, <3>2, <4>1, <4>3
      <4>4. QED
        BY <4>2, <4>3
    <3>5. QED
      BY <3>1, <3>4 DEF GuardedChainComplete
  <2>6. CASE \E t \in Tenants : \E i \in 1..Len(log[t]) : TamperRow(t, i)
    <3>1. PICK t \in Tenants : \E i \in 1..Len(log[t]) : TamperRow(t, i)
      BY <2>6
    <3>2. PICK i \in 1..Len(log[t]) : TamperRow(t, i)
      BY <3>1
    <3>3. (\E rows : Update(t, rows)) \/ DeleteRow(t, i)
      BY <3>2 DEF TamperRow, EditContent, Rehash, Relink, Renumber, MoveToInterview
    <3>4. QED
      BY <2>4, <2>5, <3>3
  <2>7. CASE UNCHANGED tvars
    BY <2>7 DEF tvars, GuardedChainComplete
  <2>8. QED
    BY <2>1, <2>2, <2>3, <2>6, <2>7 DEF TamperNext
<1>3. QED
  BY <1>1, <1>2, InvAlways, PTL DEF TamperSpec

----------------------------------------------------------------------------
(* The first break of a chain is that of every longer chain.               *)
LEMMA AppendKeepsBreak ==
    ASSUME NEW rows \in Seq(Row), NEW entry \in Row, ~verify_chain(rows).valid
    PROVE  verify_chain(Append(rows, entry)) = verify_chain(rows)
<1> DEFINE more  == Append(rows, entry)
           n     == Len(rows)
           first == Min(Breaks(rows))
<1>1. /\ n \in Nat /\ Len(more) = n + 1
      /\ \A i \in 1..n : more[i] = rows[i]
  OBVIOUS
<1> HIDE DEF more
<1>2. ASSUME NEW i \in 1..n
      PROVE  /\ SequenceGap(more, i) = SequenceGap(rows, i)
             /\ Relinked(more, i) = Relinked(rows, i)
             /\ EditedInPlace(more, i) = EditedInPlace(rows, i)
  <2>1. more[i] = rows[i]
    BY <1>1
  <2>2. ExpectedPrev(more, i) = ExpectedPrev(rows, i)
    BY <1>1 DEF ExpectedPrev
  <2>3. QED
    BY <2>1, <2>2 DEF SequenceGap, Relinked, EditedInPlace
<1>3. \A i \in 1..n : i \in Breaks(more) <=> i \in Breaks(rows)
  BY <1>1, <1>2 DEF Breaks
<1>4. /\ Breaks(rows) \in SUBSET (1..n) /\ Breaks(rows) # {}
      /\ Breaks(more) \in SUBSET (1..(n + 1))
  BY <1>1, ValidIffNoBreak DEF Breaks
<1>5. first \in Breaks(rows) /\ \A j \in Breaks(rows) : first <= j
  BY <1>1, <1>4, MinOfNats
<1>6. Breaks(more) # {}
  BY <1>3, <1>4
<1>7. /\ Min(Breaks(more)) \in Breaks(more)
      /\ \A j \in Breaks(more) : Min(Breaks(more)) <= j
  BY <1>1, <1>4, <1>6, MinOfNats
<1> HIDE DEF first
<1>8. Min(Breaks(more)) = first
  BY <1>1, <1>3, <1>4, <1>5, <1>7
<1>9. first \in 1..n
  BY <1>4, <1>5
<1>10. more[first] = rows[first] /\ Reason(more, first) = Reason(rows, first)
  BY <1>1, <1>2, <1>9 DEF Reason
<1>11. QED
  BY <1>4, <1>6, <1>8, <1>10 DEF verify_chain, FirstBreak, more, first

(* Recording on top of a broken chain neither repairs it nor moves the     *)
(* break verify_chain reports.                                             *)
THEOREM NeverRepaired == TamperSpec => RecordingNeverRepairs
<1>1. ASSUME TamperInv, TamperNext, NEW t \in Tenants,
             ~verify_chain(log[t]).valid, Len(log'[t]) > Len(log[t])
      PROVE  verify_chain(log'[t]) = verify_chain(log[t])
  <2>1. log \in [Tenants -> Seq(Row)] /\ Len(log[t]) \in Nat
    BY <1>1 DEF TamperInv, TamperTypeOK, TypeOK
  <2>2. CASE \E u \in Tenants, c \in Content, x \in Interviews : RecordEntry(u, c, x)
    <3>1. PICK u \in Tenants, c \in Content, x \in Interviews : RecordEntry(u, c, x)
      BY <2>2
    <3>2. log' = [log EXCEPT ![u] = Append(@, NewEntry(log[u], c, x))]
      BY <3>1 DEF RecordEntry, Record
    <3>3. t = u
      BY <1>1, <2>1, <3>2
    <3>4. log'[t] = Append(log[t], NewEntry(log[t], c, x))
      BY <2>1, <3>2, <3>3
    <3>5. log[t] \in Seq(Row) /\ NewEntry(log[t], c, x) \in Row
      BY <2>1, NewEntryType
    <3>6. QED
      BY <1>1, <3>4, <3>5, AppendKeepsBreak
  <2>3. CASE (\E u \in Tenants : Verify(u)) \/ (\E g \in Triggers : DropTrigger(g))
    BY <1>1, <2>1, <2>3 DEF Verify, DropTrigger
  <2>4. CASE \E u \in Tenants : \E i \in 1..Len(log[u]) : TamperRow(u, i)
    <3>1. PICK u \in Tenants, rows \in Seq(Row) : Len(rows) <= Len(log[u]) /\ ByHand(u, rows)
      BY <1>1, <2>4, TamperedRows
    <3>2. log' = [log EXCEPT ![u] = rows]
      BY <3>1 DEF ByHand
    <3>3. Len(log'[t]) <= Len(log[t])
      BY <2>1, <3>1, <3>2
    <3>4. Len(log'[t]) \in Nat
      BY <2>1, <3>1, <3>2
    <3>5. QED
      BY <1>1, <2>1, <3>3, <3>4
  <2>5. QED
    BY <1>1, <2>2, <2>3, <2>4 DEF TamperNext
<1>2. TamperInv /\ [TamperNext]_tvars =>
        [ \A t \in Tenants :
            (~verify_chain(log[t]).valid /\ Len(log'[t]) > Len(log[t]))
               => verify_chain(log'[t]) = verify_chain(log[t]) ]_tvars
  BY <1>1
<1>3. QED
  BY <1>2, InvAlways, PTL DEF TamperSpec, RecordingNeverRepairs
===============================================================================
