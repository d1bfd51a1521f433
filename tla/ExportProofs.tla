----------------------------- MODULE ExportProofs -----------------------------
(***************************************************************************)
(* What a download of the audit log says of itself, for every number of    *)
(* entries recorded between its two queries.                               *)
(***************************************************************************)
EXTENDS AuditExport, AuditLogProofs

(* Downloads beside the log do not disturb it: the log evolves as AuditLog *)
(* promises.                                                               *)
THEOREM ExportImplementsLog == ExportSpec => Spec
<1>1. ExportInit => Init
  BY DEF ExportInit
<1>2. [ExportNext]_evars => [Next]_log
  BY DEF ExportNext, evars, CommitEntry, ReadEntries, ReadVerification,
         VerifyOnly, Next
<1>3. QED
  BY <1>1, <1>2, PTL DEF ExportSpec, Spec

(* A valid chain is checked to its end.                                    *)
LEMMA ValidChecksAll ==
    ASSUME NEW rows, verify_chain(rows).valid
    PROVE  verify_chain(rows).entries_checked = Len(rows)
<1>1. Breaks(rows) = {}
  BY ValidIffNoBreak
<1>2. QED
  BY <1>1 DEF verify_chain

(* Appending leaves every prefix of the chain as it was.                   *)
LEMMA PrefixKept ==
    ASSUME NEW rows \in Seq(Row), NEW entry \in Row, NEW n \in 0..Len(rows)
    PROVE  SubSeq(Append(rows, entry), 1, n) = SubSeq(rows, 1, n)
<1> DEFINE more == Append(rows, entry)
<1>1. /\ more \in Seq(Row) /\ Len(more) = Len(rows) + 1
      /\ \A i \in 1..Len(rows) : more[i] = rows[i]
      /\ Len(rows) \in Nat /\ n \in Nat /\ n <= Len(rows)
  OBVIOUS
<1> HIDE DEF more
<1>2. SubSeq(more, 1, n) = [i \in 1..n |-> more[i]]
  BY <1>1
<1>3. SubSeq(rows, 1, n) = [i \in 1..n |-> rows[i]]
  BY <1>1
<1>4. \A i \in 1..n : more[i] = rows[i]
  BY <1>1
<1>5. QED
  BY <1>2, <1>3, <1>4 DEF more

----------------------------------------------------------------------------
(* The inductive invariant: what was read is the slice of a prefix of the  *)
(* tenant's chain, no longer than what was verified of it.                 *)
SliceOfPrefix(n) ==
    export.entries = Slice(SubSeq(log[export.tenant], 1, n), export.scope)

ReadIsPrefix ==
    export.stage = "entries_read" =>
        \E n \in 0..Len(log[export.tenant]) : SliceOfPrefix(n)

VerifiedIsPrefix ==
    export.stage \in {"answered", "verified"} =>
        /\ export.chain_verification.valid
        /\ export.chain_verification.entries_checked \in 0..Len(log[export.tenant])

AnswerIsPrefix ==
    export.stage = "answered" =>
        \E n \in 0..export.chain_verification.entries_checked : SliceOfPrefix(n)

ExportInv ==
    /\ export.stage \in {"idle", "entries_read", "answered", "verified"}
    /\ export.stage # "idle" => export.tenant \in Tenants
    /\ ReadIsPrefix
    /\ VerifiedIsPrefix
    /\ AnswerIsPrefix

(* A commit between the queries only makes the chain longer.               *)
LEMMA CommitKeepsInv ==
    ASSUME TypeOK, ExportInv, NEW t \in Tenants, NEW c \in Content,
           NEW x \in Interviews, CommitEntry(t, c, x)
    PROVE  ExportInv'
<1> DEFINE rows == log[export.tenant]
           more == log'[export.tenant]
<1>1. export' = export
  BY DEF CommitEntry
<1>2. CASE export.stage = "idle"
  BY <1>1, <1>2 DEF ExportInv, ReadIsPrefix, VerifiedIsPrefix, AnswerIsPrefix
<1>3. CASE export.stage # "idle"
  <2>1. export.tenant \in Tenants /\ rows \in Seq(Row) /\ Len(rows) \in Nat
    BY <1>3 DEF ExportInv, TypeOK
  <2>2. /\ Len(more) \in Nat /\ Len(rows) <= Len(more)
        /\ \A n \in 0..Len(rows) : SubSeq(more, 1, n) = SubSeq(rows, 1, n)
    <3>1. CASE export.tenant = t
      <4>1. NewEntry(rows, c, x) \in Row
        BY <2>1, NewEntryType
      <4>2. more = Append(rows, NewEntry(rows, c, x))
        BY <3>1 DEF CommitEntry, Record, TypeOK
      <4>3. QED
        BY <2>1, <4>1, <4>2, PrefixKept
    <3>2. CASE export.tenant # t
      <4>1. more = rows
        BY <2>1, <3>2 DEF CommitEntry, Record, TypeOK
      <4>2. QED
        BY <2>1, <4>1
    <3>3. QED
      BY <3>1, <3>2
  <2>3. \A n \in 0..Len(rows) : SliceOfPrefix(n) => SliceOfPrefix(n)'
    BY <1>1, <2>2 DEF SliceOfPrefix
  <2>4. 0..Len(rows) \subseteq 0..Len(more)
    BY <2>1, <2>2
  <2>5. ReadIsPrefix'
    BY <1>1, <2>3, <2>4 DEF ExportInv, ReadIsPrefix
  <2>6. VerifiedIsPrefix'
    BY <1>1, <2>4 DEF ExportInv, VerifiedIsPrefix
  <2>7. AnswerIsPrefix'
    <3> SUFFICES ASSUME export.stage = "answered" PROVE AnswerIsPrefix'
      BY <1>1 DEF AnswerIsPrefix
    <3>1. export.chain_verification.entries_checked \in 0..Len(rows)
      BY DEF ExportInv, VerifiedIsPrefix
    <3>2. PICK n \in 0..export.chain_verification.entries_checked : SliceOfPrefix(n)
      BY DEF ExportInv, AnswerIsPrefix
    <3>3. n \in 0..Len(rows)
      BY <2>1, <3>1, <3>2
    <3>4. QED
      BY <1>1, <2>3, <3>2, <3>3 DEF AnswerIsPrefix
  <2>8. QED
    BY <1>1, <2>5, <2>6, <2>7 DEF ExportInv
<1>4. QED
  BY <1>2, <1>3

LEMMA ExportNextKeepsInv ==
    TypeOK /\ ChainIntact /\ ExportInv /\ [ExportNext]_evars => ExportInv'
<1> SUFFICES ASSUME TypeOK, ChainIntact, ExportInv, [ExportNext]_evars
             PROVE  ExportInv'
  OBVIOUS
<1>1. ASSUME NEW t \in Tenants
      PROVE  /\ log[t] \in Seq(Row) /\ Len(log[t]) \in Nat
             /\ verify_chain(log[t]).valid
             /\ verify_chain(log[t]).entries_checked = Len(log[t])
  BY ValidChecksAll DEF TypeOK, ChainIntact
<1>2. CASE \E t \in Tenants, c \in Content, x \in Interviews : CommitEntry(t, c, x)
  BY <1>2, CommitKeepsInv
<1>3. ASSUME NEW t \in Tenants, NEW scope \in Interviews \cup {FullLog},
             ReadEntries(t, scope)
      PROVE  ExportInv'
  <2>1. /\ export'.stage = "entries_read" /\ export'.tenant = t
        /\ export'.scope = scope /\ export'.entries = Slice(log[t], scope)
        /\ log' = log
    BY <1>3 DEF ReadEntries
  <2>2. SubSeq(log[t], 1, Len(log[t])) = log[t] /\ Len(log[t]) \in 0..Len(log[t])
    BY <1>1
  <2>3. SliceOfPrefix(Len(log[t]))'
    BY <2>1, <2>2 DEF SliceOfPrefix
  <2>4. QED
    BY <2>1, <2>2, <2>3 DEF ExportInv, ReadIsPrefix, VerifiedIsPrefix, AnswerIsPrefix
<1>4. CASE ReadVerification
  <2> DEFINE t == export.tenant
  <2>1. /\ export.stage = "entries_read"
        /\ export'.stage = "answered" /\ export'.tenant = t
        /\ export'.scope = export.scope /\ export'.entries = export.entries
        /\ export'.chain_verification = verify_chain(log[t])
        /\ log' = log
    BY <1>4 DEF ReadVerification
  <2>2. t \in Tenants
    BY <2>1 DEF ExportInv
  <2>3. PICK n \in 0..Len(log[t]) : SliceOfPrefix(n)
    BY <2>1 DEF ExportInv, ReadIsPrefix
  <2>4. SliceOfPrefix(n)'
    BY <2>1, <2>3 DEF SliceOfPrefix
  <2>5. AnswerIsPrefix'
    BY <1>1, <2>1, <2>2, <2>4 DEF AnswerIsPrefix
  <2>6. VerifiedIsPrefix'
    BY <1>1, <2>1, <2>2 DEF VerifiedIsPrefix
  <2>7. QED
    BY <2>1, <2>2, <2>5, <2>6 DEF ExportInv, ReadIsPrefix
<1>5. ASSUME NEW t \in Tenants, VerifyOnly(t)
      PROVE  ExportInv'
  <2>1. /\ export'.stage = "verified" /\ export'.tenant = t
        /\ export'.chain_verification = verify_chain(log[t])
        /\ log' = log
    BY <1>5 DEF VerifyOnly
  <2>2. VerifiedIsPrefix'
    BY <1>1, <2>1 DEF VerifiedIsPrefix
  <2>3. QED
    BY <2>1, <2>2 DEF ExportInv, ReadIsPrefix, AnswerIsPrefix
<1>6. CASE UNCHANGED evars
  BY <1>6 DEF evars, ExportInv, ReadIsPrefix, VerifiedIsPrefix, AnswerIsPrefix,
              SliceOfPrefix
<1>7. QED
  BY <1>2, <1>3, <1>4, <1>5, <1>6 DEF ExportNext

LEMMA ExportInvAlways == ExportSpec => [](TypeOK /\ ChainIntact /\ ExportInv)
<1>1. ExportInit => ExportInv
  BY DEF ExportInit, NoExport, ExportInv, ReadIsPrefix, VerifiedIsPrefix, AnswerIsPrefix
<1>2. QED
  BY <1>1, ExportNextKeepsInv, ExportImplementsLog, TypeCorrect, ChainAlwaysVerifies,
     PTL DEF ExportSpec

----------------------------------------------------------------------------
(* A download is self-describing, whatever is recorded while it runs: its  *)
(* verification is valid and covers every row it exports, and it misses    *)
(* none of its scope among the rows there when it was read.                *)
THEOREM ExportsDescribeThemselves == ExportSpec => []ExportSelfDescribing
<1>1. TypeOK /\ ExportInv => ExportSelfDescribing
  <2> SUFFICES ASSUME TypeOK, ExportInv, export.stage = "answered"
               PROVE  ExportSelfDescribing
    BY DEF ExportSelfDescribing
  <2> DEFINE rows    == log[export.tenant]
             checked == export.chain_verification.entries_checked
  <2>1. export.tenant \in Tenants /\ Len(rows) \in Nat
    BY DEF ExportInv, TypeOK
  <2>2. export.chain_verification.valid /\ checked \in 0..Len(rows)
    BY DEF ExportInv, VerifiedIsPrefix
  <2>3. \E n \in 0..checked : export.entries = Slice(SubSeq(rows, 1, n), export.scope)
    BY DEF ExportInv, AnswerIsPrefix, SliceOfPrefix
  <2>4. checked <= Len(rows)
    BY <2>1, <2>2
  <2>5. QED
    BY <2>2, <2>3, <2>4 DEF ExportSelfDescribing
<1>2. QED
  BY <1>1, ExportInvAlways, PTL

(* A later verification of the same chain covers at least as many rows.    *)
THEOREM VerificationsNeverGoBack == ExportSpec => VerificationMonotone
<1> DEFINE Forward ==
             (/\ export.stage \in {"answered", "verified"}
              /\ export'.stage = "verified"
              /\ export'.tenant = export.tenant)
             => /\ export'.chain_verification.valid
                /\ export'.chain_verification.entries_checked
                     >= export.chain_verification.entries_checked
<1>1. TypeOK /\ ChainIntact /\ ExportInv /\ [ExportNext]_evars => [Forward]_export
  <2> SUFFICES ASSUME TypeOK, ChainIntact, ExportInv, [ExportNext]_evars,
                      export' # export,
                      export.stage \in {"answered", "verified"},
                      export'.stage = "verified",
                      export'.tenant = export.tenant
               PROVE  /\ export'.chain_verification.valid
                      /\ export'.chain_verification.entries_checked
                           >= export.chain_verification.entries_checked
    OBVIOUS
  <2>1. PICK t \in Tenants : VerifyOnly(t)
    BY DEF ExportNext, evars, CommitEntry, ReadEntries, ReadVerification
  <2>2. export'.tenant = t /\ export'.chain_verification = verify_chain(log[t])
    BY <2>1 DEF VerifyOnly
  <2>3. verify_chain(log[t]).valid /\ verify_chain(log[t]).entries_checked = Len(log[t])
    BY ValidChecksAll DEF ChainIntact
  <2>4. export.chain_verification.entries_checked \in 0..Len(log[t])
    BY <2>2 DEF ExportInv, VerifiedIsPrefix
  <2>5. Len(log[t]) \in Nat
    BY DEF TypeOK
  <2>6. QED
    BY <2>2, <2>3, <2>4, <2>5
<1>2. QED
  BY <1>1, ExportInvAlways, PTL DEF ExportSpec, VerificationMonotone
===============================================================================
