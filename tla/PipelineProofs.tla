--------------------------- MODULE PipelineProofs ----------------------------
(* The theorems about EvaluationPipeline: PipelineInv is an inductive       *)
(* invariant, the safety invariants follow from it, no committed row is     *)
(* rewritten, every change of an outcome is explained by an entry, and the  *)
(* pipeline implements AuditLog.                                            *)
EXTENDS PipelineSteps

------------------------------------------------------------------------------
(* The servers' own state                                                   *)

(* The step of a handler touches the servers' own state in these ways only. *)
Served(r) ==
    /\ setting' = setting /\ crashes' = crashes
    /\ writer' = writer \/ TakeWrite(r) \/ FreeWrite(r)
    /\ loop' = loop \/ FreeLoop(r) \/ (r \in Submits /\ TakeLoop(r))
    /\ called' = called \/ (r \in Submits \cup Reevaluates /\ called' = called \cup {r})

(* A handler's step keeps the type of the servers' state.                   *)
LEMMA ServedKeeps ==
    ASSUME ServersTypeOK, NEW r \in Requests, Served(r)
    PROVE  ServersTypeOK'
<1>1. writer' \in Requests \cup {NoOne}
  BY DEF ServersTypeOK, Served, TakeWrite, FreeWrite
<1>2. loop' \in [Workers -> Submits \cup {NoOne}]
  BY DEF ServersTypeOK, Served, TakeLoop, FreeLoop
<1>3. called' \subseteq Submits \cup Reevaluates
  BY DEF ServersTypeOK, Served
<1>4. setting' \in Settings /\ crashes' \in 0..setting'.crashes
  BY DEF ServersTypeOK, Served
<1>5. QED
  BY <1>1, <1>2, <1>3, <1>4 DEF ServersTypeOK

(* The arrival of a request touches the servers' state in no other way.     *)
LEMMA ArriveServes ==
    ASSUME NEW r \in Requests, Arrive(r)
    PROVE  Served(r)
<1>1. PICK s : StartSubmit(r, s) \/ StartReevaluate(r, s) \/ StartReview(r, s)
  BY DEF Arrive
<1>2. CASE StartSubmit(r, s)
  BY <1>2 DEF StartSubmit, Served
<1>3. CASE StartReevaluate(r, s)
  BY <1>3 DEF StartReevaluate, Served
<1>4. CASE StartReview(r, s)
  BY <1>4 DEF StartReview, Served
<1>5. QED
  BY <1>1, <1>2, <1>3, <1>4

(* Nor does a later step of it.                                             *)
LEMMA StepServes ==
    ASSUME DatabaseInv, NEW r \in Requests, Step(r)
    PROVE  Served(r)
<1>1. req[r].pc = "evaluate" => r \in Submits \cup Reevaluates
  BY DEF DatabaseInv, RequestInv, Evaluating, Opened
<1>2. req[r].pc = "read_upload" => r \in Submits
  BY DEF DatabaseInv, RequestInv, Submitting
<1>3. CASE ResumeSubmit(r) \/ InsertResponse(r) \/ RecordFailedCall(r)
           \/ CommitFailedCall(r) \/ SupersedeCurrent(r)
  BY <1>2, <1>3 DEF ResumeSubmit, InsertResponse, RecordFailedCall, CommitFailedCall,
     SupersedeCurrent, Served, Rollback, Commit
<1>4. CASE \/ \E p \in LLMResults : ProviderAnswers(r, p) \/ RoutingRaises(r, p)
           \/ ProviderFails(r)
           \/ EvaluateRaises(r)
  BY <1>1, <1>4 DEF ProviderAnswers, RoutingRaises, ProviderFails, EvaluateRaises,
     Served, Raise
<1>5. CASE \/ InsertEvaluation(r)
           \/ \E h \in HumanVerdicts : InsertReview(r, h)
           \/ ReadTail(r)
           \/ LockTail(r)
           \/ AppendEntry(r)
           \/ CommitRequest(r)
  BY <1>5 DEF InsertEvaluation, InsertReview, ReadTail, LockTail, AppendEntry,
     CommitRequest, Served, Rollback, Raise, Commit
<1>6. CASE CloseSession(r) \/ Respond(r) \/ LockTimeout(r)
  BY <1>6 DEF CloseSession, Respond, LockTimeout, Served, Rollback
<1>7. QED
  BY <1>3, <1>4, <1>5, <1>6 DEF Step

(* A crash keeps the type of the servers' state.                            *)
LEMMA CrashServers ==
    ASSUME ServersTypeOK, NEW w \in Workers, Crash(w)
    PROVE  ServersTypeOK'
<1>1. setting.crashes \in Nat
  BY PipelineAssumption DEF ServersTypeOK, Setting
<1>2. crashes' \in 0..setting'.crashes
  BY <1>1 DEF ServersTypeOK, Crash
<1>3. /\ writer' \in Requests \cup {NoOne}
      /\ loop' \in [Workers -> Submits \cup {NoOne}]
      /\ called' = called /\ setting' = setting
  BY DEF ServersTypeOK, Crash
<1>4. QED
  BY <1>2, <1>3 DEF ServersTypeOK

------------------------------------------------------------------------------
(* What every commit does                                                   *)

(* What a commit does, table by table.                                      *)
LEMMA CommitParts ==
    ASSUME DatabaseInv, NEW r \in Requests, NEW status, Commit(r, Answer(status))
    PROVE  LET x == staged[r].tables IN
           /\ db'.responses = db.responses \cup x.responses
           /\ db'.evaluations = Supersede(db.evaluations, staged[r].superseded) \cup x.evaluations
           /\ db'.reviews = db.reviews \cup x.reviews
           /\ db'.llm_calls = db.llm_calls \cup x.llm_calls
           /\ db'.audit_log = db.audit_log \o x.audit_log
           /\ req'[r] = Answer(status) /\ staged'[r] = NoTransaction
           /\ DOMAIN req' = Requests /\ DOMAIN staged' = Requests
           /\ \A q \in Requests \ {r} : req'[q] = req[q] /\ staged'[q] = staged[q]
<1>1. /\ req' = [req EXCEPT ![r] = Answer(status)]
      /\ staged' = [staged EXCEPT ![r] = NoTransaction]
  BY DEF Commit
<1>2. /\ req'[r] = Answer(status) /\ staged'[r] = NoTransaction
      /\ DOMAIN req' = Requests /\ DOMAIN staged' = Requests
      /\ \A q \in Requests \ {r} : req'[q] = req[q] /\ staged'[q] = staged[q]
  BY <1>1, OneStep
<1>3. QED
  BY <1>2 DEF Commit

(* Concatenation of two logs. *)
LEMMA Concatenated ==
    ASSUME NEW S, NEW s \in Seq(S), NEW t \in Seq(S)
    PROVE  /\ s \o t \in Seq(S)
           /\ \A i \in DOMAIN (s \o t) : \/ i \in DOMAIN s /\ (s \o t)[i] = s[i]
                                         \/ \E j \in DOMAIN t : (s \o t)[i] = t[j]
<1>1. s \o t \in Seq(S)
  OBVIOUS
<1>2. ASSUME NEW i \in DOMAIN (s \o t), i \notin DOMAIN s
      PROVE  \E j \in DOMAIN t : (s \o t)[i] = t[j]
  <2>1. i - Len(s) \in DOMAIN t /\ (s \o t)[i] = t[i - Len(s)]
    BY <1>2
  <2>2. QED
    BY <2>1
<1>3. \A i \in DOMAIN (s \o t) : i \in DOMAIN s => (s \o t)[i] = s[i]
  OBVIOUS
<1>4. QED
  BY <1>1, <1>2, <1>3

(* A commit publishes keys that were taken by its transaction. *)
LEMMA CommitClaims ==
    ASSUME DatabaseInv, NEW r \in Requests, NEW status, Commit(r, Answer(status))
    PROVE  Claims(db') \subseteq Claims(db) \cup Claims(staged[r].tables)
<1> DEFINE x == staged[r].tables
           S == [tenant : Tenants, row : Log!Row]
<1>1. /\ db.evaluations \in SUBSET EvaluationRow
      /\ db.audit_log \in Seq(S) /\ x.audit_log \in Seq(S)
  BY DEF DatabaseInv, TablesInv, IsTables, RequestInv, IsTransaction
<1>2. /\ db'.responses = db.responses \cup x.responses
      /\ db'.evaluations = Supersede(db.evaluations, staged[r].superseded) \cup x.evaluations
      /\ db'.reviews = db.reviews \cup x.reviews
      /\ db'.audit_log = db.audit_log \o x.audit_log
  BY CommitParts
<1>3. \A f \in db'.evaluations : \E e \in db.evaluations \cup x.evaluations : Key(f) = Key(e)
  <2> DEFINE keys == staged[r].superseded
             rows == db.evaluations
  <2>1. rows \in SUBSET EvaluationRow /\ db'.evaluations = Supersede(rows, keys) \cup x.evaluations
    BY <1>1, <1>2
  <2> HIDE DEF keys, rows, x
  <2>2. \A f \in Supersede(rows, keys) : \E e \in rows : Key(f) = Key(e)
    <3>1. \A f \in Supersede(rows, keys) : \E e \in rows : SameRow(e, f)
      BY <2>1, SupersedeRows
    <3>2. QED
      BY <3>1 DEF SameRow, Key
  <2>3. QED
    BY <2>1, <2>2 DEF rows
<1> HIDE DEF S, x
<1>4. \A i \in DOMAIN db'.audit_log :
          \/ i \in DOMAIN db.audit_log /\ db'.audit_log[i] = db.audit_log[i]
          \/ \E j \in DOMAIN x.audit_log : db'.audit_log[i] = x.audit_log[j]
  <2> DEFINE a == db.audit_log
             b == x.audit_log
  <2>1. a \in Seq(S) /\ b \in Seq(S) /\ db'.audit_log = a \o b
    BY <1>1, <1>2
  <2> HIDE DEF a, b
  <2>2. \A i \in DOMAIN (a \o b) : \/ i \in DOMAIN a /\ (a \o b)[i] = a[i]
                                   \/ \E j \in DOMAIN b : (a \o b)[i] = b[j]
    BY <2>1, Concatenated
  <2>3. QED
    BY <2>1, <2>2 DEF a, b
<1>5. ASSUME NEW c \in Claims(db') PROVE c \in Claims(db) \cup Claims(x)
  <2>1. CASE \E row \in db'.responses : c = <<"response", row.slot>>
    BY <1>2, <2>1 DEF Claims
  <2>2. CASE \E e \in db'.evaluations : c = <<"evaluation", Key(e)>>
    BY <1>3, <2>2 DEF Claims
  <2>3. CASE \E v \in db'.reviews : c = <<"review", Key(v)>>
    BY <1>2, <2>3 DEF Claims
  <2>4. CASE \E i \in DOMAIN db'.audit_log :
               c = <<"audit", db'.audit_log[i].tenant, db'.audit_log[i].row.seq>>
    BY <1>4, <2>4 DEF Claims
  <2>5. QED
    BY <1>5, <2>1, <2>2, <2>3, <2>4 DEF Claims
<1>6. QED
  BY <1>5 DEF x

(* What is left to show of a commit is about the tables. *)
LEMMA CommitStep ==
    ASSUME DatabaseInv, NEW r \in Requests, NEW status \in Statuses,
           Commit(r, Answer(status)),
           TablesInv', Grows,
           \A q \in Requests \ {r} : Recorded(q)' <=> Recorded(q),
           status = "ok" => Recorded(r)',
           status \notin {"ok", "lost"} => ~Recorded(r)'
    PROVE  DatabaseInv'
<1>1. /\ req'[r] = Answer(status) /\ staged'[r] = NoTransaction
      /\ DOMAIN req' = Requests /\ DOMAIN staged' = Requests
      /\ \A q \in Requests \ {r} : req'[q] = req[q] /\ staged'[q] = staged[q]
  BY CommitParts
<1>2. RequestInv(r)'
  <2>1. req'[r] = [pc |-> "respond", status |-> status] /\ "respond" \in {"respond", "done"}
    BY <1>1 DEF Answer
  <2>2. QED
    BY <1>1, <2>1, AnswerInv
<1>3. \A q \in Requests : RequestInv(q)'
  <2>1. \A q \in Requests \ {r} : RequestInv(q)'
    BY <1>1, OthersKeep DEF DatabaseInv
  <2>2. QED
    BY <1>2, <2>1
<1>4. KeysAreFree'
  <2>1. Claims(db') \subseteq Claims(db) \cup Claims(staged[r].tables)
    BY CommitClaims
  <2>2. Claims(staged'[r].tables) = {}
    BY <1>1, NoClaims
  <2>3. \A q \in Requests \ {r} :
            /\ Claims(staged[q].tables) \cap Claims(db) = {}
            /\ Claims(staged[q].tables) \cap Claims(staged[r].tables) = {}
            /\ \A p \in Requests \ {q} : Claims(staged[q].tables) \cap Claims(staged[p].tables) = {}
    BY DEF DatabaseInv, KeysAreFree
  <2>4. \A q \in Requests : Claims(staged'[q].tables) \cap Claims(db') = {}
    BY <1>1, <2>1, <2>2, <2>3
  <2>5. \A q \in Requests : \A p \in Requests \ {q} :
            Claims(staged'[q].tables) \cap Claims(staged'[p].tables) = {}
    BY <1>1, <2>2, <2>3
  <2>6. QED
    BY <2>4, <2>5 DEF KeysAreFree
<1>5. QED
  BY <1>1, <1>3, <1>4 DEF DatabaseInv

------------------------------------------------------------------------------
(* The commit of a failed call                                              *)

(* The commit of a failed call writes its response and its row of the       *)
(* ledger: no evaluation, no review and no entry.                           *)
LEMMA FailedCallTables ==
    ASSUME DatabaseInv, NEW r \in Requests, CommitFailedCall(r)
    PROVE  /\ db'.responses = db.responses \cup staged[r].tables.responses
           /\ db'.evaluations = db.evaluations /\ db'.reviews = db.reviews
           /\ db'.llm_calls = db.llm_calls \cup {LedgerRow(r, FALSE)}
           /\ db'.audit_log = db.audit_log
<1> DEFINE R == staged[r].tables.responses
           L == {LedgerRow(r, FALSE)}
<1>1. req[r].pc = "commit_failed_call" /\ Commit(r, Answer("500 ProviderError"))
  BY DEF CommitFailedCall
<1>2. staged[r] = Txn(R, {}, {}, L, NoEntry, {}, staged[r].tail_lock)
  BY <1>1 DEF DatabaseInv, RequestInv, FailedCall, Wrote
<1> HIDE DEF R, L
<1>3. /\ staged[r].tables.evaluations = {} /\ staged[r].tables.reviews = {}
      /\ staged[r].tables.llm_calls = L /\ staged[r].tables.audit_log = NoEntry
      /\ staged[r].superseded = {}
  BY <1>2, TxnParts
<1>4. db.audit_log \o NoEntry = db.audit_log
  <2> DEFINE S == [tenant : Tenants, row : Log!Row]
  <2>1. db.audit_log \in Seq(S)
    BY DEF DatabaseInv, TablesInv, IsTables
  <2> HIDE DEF S
  <2>2. QED
    BY <2>1 DEF NoEntry
<1>5. /\ db'.responses = db.responses \cup staged[r].tables.responses
      /\ db'.evaluations = Supersede(db.evaluations, {}) \cup {}
      /\ db'.reviews = db.reviews \cup {}
      /\ db'.llm_calls = db.llm_calls \cup L
      /\ db'.audit_log = db.audit_log \o NoEntry
  BY <1>1, <1>3, CommitParts
<1>6. QED
  BY <1>4, <1>5, SupersedeNothing DEF L

(* A failed call is on the record as a response and a row of the ledger.   *)
LEMMA CommitFailedCallStep ==
    ASSUME DatabaseInv, NEW r \in Requests, CommitFailedCall(r)
    PROVE  DatabaseInv'
<1> DEFINE R == staged[r].tables.responses
           L == {LedgerRow(r, FALSE)}
<1>1. req[r].pc = "commit_failed_call" /\ Commit(r, Answer("500 ProviderError"))
  BY DEF CommitFailedCall
<1>2. /\ r \in Submits \cup Reevaluates /\ ~Recorded(r)
      /\ staged[r] = Txn(R, {}, {}, L, NoEntry, {}, staged[r].tail_lock)
      /\ R \subseteq [slot : Slots, by : Submits]
  BY <1>1 DEF DatabaseInv, RequestInv, FailedCall, Opened, Wrote, Answering, IsTransaction, IsTables
<1>4. /\ db'.responses = db.responses \cup R
      /\ db'.evaluations = db.evaluations
      /\ db'.reviews = db.reviews
      /\ db'.llm_calls = db.llm_calls \cup L
      /\ db'.audit_log = db.audit_log
  BY FailedCallTables
<1>5. \A q : Recorded(q)' <=> Recorded(q)
  BY <1>4 DEF Recorded
<1>6. \A t : Chain(t)' = Chain(t)
  BY <1>4 DEF Chain
<1>7. Grows
  BY <1>4, <1>6 DEF Grows, SameRow
<1>8. TablesInv'
  <2>1. IsTables(db)'
    <3>1. L \subseteq [by : Submits \cup Reevaluates, succeeded : BOOLEAN]
      BY <1>2 DEF LedgerRow
    <3> HIDE DEF L, R
    <3>2. IsTables(db)
      BY DEF DatabaseInv, TablesInv
    <3>3. R \subseteq [slot : Slots, by : Submits]
      BY <1>2 DEF R
    <3>4. QED
      BY <1>4, <3>1, <3>2, <3>3 DEF IsTables
  <2>2. LedgerMatchesEvaluations'
    <3>1. \A c \in L : ~c.succeeded
      BY DEF LedgerRow
    <3> HIDE DEF L
    <3>2. { d \in db'.llm_calls : d.succeeded } = { d \in db.llm_calls : d.succeeded }
      BY <1>4, <3>1
    <3>3. QED
      BY <1>4, <3>2 DEF DatabaseInv, TablesInv, LedgerMatchesEvaluations
  <2>3. \A s : SlotTaken(db, s) => SlotTaken(db', s)
    BY <1>4 DEF SlotTaken
  <2>4. \A s : Evaluations(s)' = Evaluations(s)
    BY <1>4 DEF Evaluations
  <2>5. KeysAreUnique' /\ VersionsAreGapFree' /\ LatestIsCurrent'
    BY <1>4, <2>4 DEF DatabaseInv, TablesInv, KeysAreUnique, VersionsAreGapFree, LatestIsCurrent
  <2>6. EvaluationsAreGrounded' /\ ReviewsAreGrounded'
    BY <1>4, <2>3 DEF DatabaseInv, TablesInv, EvaluationsAreGrounded, ReviewsAreGrounded, Flagged
  <2>7. RecordMatchesLog'
    BY <1>4 DEF DatabaseInv, TablesInv, RecordMatchesLog
  <2>8. ChainsAreGapFree' /\ ChainsHoldTheLog'
    BY <1>4, <1>6 DEF DatabaseInv, TablesInv, ChainsAreGapFree, ChainsHoldTheLog
  <2>9. OneEntryPerRequest'
    BY <1>4, <1>5 DEF DatabaseInv, TablesInv, OneEntryPerRequest
  <2>10. QED
    BY <2>1, <2>2, <2>5, <2>6, <2>7, <2>8, <2>9 DEF TablesInv
<1>9. QED
  <2>1. "500 ProviderError" \in Statuses
    BY DEF Statuses
  <2>2. QED
    BY <1>1, <1>2, <1>5, <1>7, <1>8, <2>1, CommitStep

------------------------------------------------------------------------------
(* The entry of a commit is the next one                                    *)

(* At the commit the log of the transaction is its entry.                   *)
LEMMA FlushedEntry ==
    ASSUME NEW r \in Requests, HoldsRecord(r), req[r].pc = "commit"
    PROVE  staged[r].tables.audit_log = Entry(r)
<1>1. CASE \E e \in staged[r].tables.evaluations :
              Wrote(r, {e}, {}, {LedgerRow(r, TRUE)}, Entry(r), Replaced(e))
  <2> DEFINE L == {LedgerRow(r, TRUE)}
  <2>1. PICK e \in staged[r].tables.evaluations :
              staged[r] = Txn(staged[r].tables.responses, {e}, {}, L, Entry(r),
                              Replaced(e), staged[r].tail_lock)
    BY <1>1 DEF Wrote
  <2> HIDE DEF L
  <2>2. QED
    BY <2>1, TxnParts
<1>2. CASE \E v \in staged[r].tables.reviews : Wrote(r, {}, {v}, {}, Entry(r), {})
  <2>1. PICK v \in staged[r].tables.reviews :
              staged[r] = Txn(staged[r].tables.responses, {}, {v}, {}, Entry(r),
                              {}, staged[r].tail_lock)
    BY <1>2 DEF Wrote
  <2>2. QED
    BY <2>1, TxnParts
<1>3. QED
  BY <1>1, <1>2 DEF HoldsRecord, Recording

(* UNIQUE(tenant_admin_id, seq) makes sure that the tail an entry was      *)
(* computed from is still the last row when the entry is committed.        *)
LEMMA EntryIsNext ==
    ASSUME DatabaseInv, NEW r \in Requests, req[r].pc = "commit",
           NEW T, T = owner(req[r].slot),
           NEW c, c = req[r].content,
           NEW x, x = InterviewOf[req[r].slot],
           NEW tail, tail = req[r].tail
    PROVE  LET entry == Log!NewEntry(tail, c, x) IN
           /\ T \in Tenants /\ c \in AuditContent /\ x \in Interviews
           /\ staged[r].tables.audit_log = <<[tenant |-> T, row |-> entry]>>
           /\ entry = Log!NewEntry(Chain(T), c, x)
           /\ entry.seq = Len(Chain(T)) + 1
           /\ entry \in Log!Row
<1> DEFINE entry == Log!NewEntry(tail, c, x)
           rows == Chain(T)
           a == [tenant |-> T, row |-> entry]
<1>1. /\ T \in Tenants /\ c \in AuditContent /\ x \in Interviews
      /\ tail \in Seq(Log!Row) /\ HoldsRecord(r)
      /\ tail = <<>> \/ \E k \in 1..Len(rows) : tail = <<rows[k]>>
  <2>1. /\ req[r].slot \in Slots /\ c \in AuditContent /\ T \in Tenants
        /\ HoldsRecord(r) /\ TailIsARow(r) /\ req[r] \in Appending
    BY AtRecording DEF Recording
  <2>2. x \in Interviews
    BY <2>1, PipelineAssumption
  <2>3. tail \in Seq(Log!Row)
    BY <2>1 DEF Appending
  <2>4. QED
    BY <2>1, <2>2, <2>3 DEF TailIsARow, Recording
<1>2. staged[r].tables.audit_log = <<a>>
  BY <1>1, FlushedEntry DEF Entry
<1>3. /\ rows \in Seq(Log!Row) /\ Len(rows) \in Nat
      /\ \A k \in 1..Len(rows) : rows[k] \in Log!Row /\ rows[k].seq = k
  BY <1>1, ChainType DEF DatabaseInv, TablesInv, ChainsAreGapFree
<1>4. \A k \in 1..Len(rows) : entry.seq # k
  <2> SUFFICES ASSUME NEW k \in 1..Len(rows), entry.seq = k PROVE FALSE
    OBVIOUS
  <2>1. PICK i \in DOMAIN db.audit_log :
            db.audit_log[i].tenant = T /\ db.audit_log[i].row = rows[k]
    BY <1>1 DEF DatabaseInv, TablesInv, ChainsHoldTheLog
  <2>2. <<"audit", T, k>> \in Claims(db)
    <3>1. db.audit_log[i].row.seq = k
      BY <1>3, <2>1
    <3>2. QED
      BY <2>1, <3>1 DEF Claims
  <2>3. <<"audit", T, k>> \in Claims(staged[r].tables)
    <3>1. DOMAIN <<a>> = {1} /\ <<a>>[1].tenant = T /\ <<a>>[1].row.seq = k
      <4> HIDE DEF entry
      <4>1. QED
        OBVIOUS
    <3> HIDE DEF a
    <3>2. QED
      BY <1>2, <3>1 DEF Claims
  <2>4. QED
    BY <2>2, <2>3 DEF DatabaseInv, KeysAreFree
<1>5. CASE tail = <<>>
  <2>1. entry.seq = 1
    BY <1>5 DEF Log!NewEntry, Log!NextSeq
  <2>2. Len(rows) = 0
    BY <1>3, <1>4, <2>1
  <2>3. rows = <<>>
    BY <1>3, <2>2
  <2>4. entry = Log!NewEntry(rows, c, x)
    BY <1>5, <2>3
  <2> HIDE DEF rows, entry
  <2>5. entry.seq = Len(rows) + 1 /\ entry \in Log!Row
    BY <1>1, <1>3, <2>1, <2>2, LogEntryType DEF entry
  <2>6. QED
    BY <1>1, <1>2, <2>4, <2>5 DEF rows, entry
<1>6. CASE \E k \in 1..Len(rows) : tail = <<rows[k]>>
  <2>1. PICK k \in 1..Len(rows) : tail = <<rows[k]>>
    BY <1>6
  <2>2. /\ Log!NextSeq(tail) = k + 1 /\ Log!PrevHash(tail) = rows[k].entry_hash
    <3>1. tail # <<>> /\ Len(tail) = 1 /\ tail[1] = rows[k]
      BY <1>1, <2>1
    <3> HIDE DEF rows
    <3>2. QED
      BY <1>3, <2>1, <3>1 DEF Log!NextSeq, Log!PrevHash
  <2>3. entry.seq = k + 1
    BY <2>2 DEF Log!NewEntry
  <2>4. k = Len(rows)
    BY <1>3, <1>4, <2>3
  <2>5. Log!NextSeq(rows) = k + 1 /\ Log!PrevHash(rows) = rows[k].entry_hash
    <3> HIDE DEF rows
    <3>1. rows # <<>>
      BY <1>3, <2>1
    <3>2. QED
      BY <1>3, <2>1, <2>4, <3>1 DEF Log!NextSeq, Log!PrevHash
  <2>6. entry = Log!NewEntry(rows, c, x)
    <3> HIDE DEF rows
    <3>1. QED
      BY <2>2, <2>5 DEF Log!NewEntry
  <2> HIDE DEF rows, entry
  <2>7. entry.seq = Len(rows) + 1 /\ entry \in Log!Row
    BY <1>1, <1>3, <2>3, <2>4, LogEntryType DEF entry
  <2>8. QED
    BY <1>1, <1>2, <2>6, <2>7 DEF rows, entry
<1>7. QED
  BY <1>1, <1>5, <1>6

------------------------------------------------------------------------------
(* The chains after a commit                                                *)

(* A row with the next seq lengthens its tenant's chain and no other one.   *)
LEMMA ChainsGrow ==
    ASSUME TablesInv, NEW T \in Tenants, NEW entry \in Log!Row,
           NEW a, a = [tenant |-> T, row |-> entry],
           db'.audit_log = Append(db.audit_log, a),
           entry.seq = Len(Chain(T)) + 1
    PROVE  /\ Chain(T)' = Append(Chain(T), entry)
           /\ \A t \in Tenants \ {T} : Chain(t)' = Chain(t)
<1> DEFINE S == [tenant : Tenants, row : Log!Row]
<1>1. db.audit_log \in Seq(S) /\ a \in S
  BY DEF TablesInv, IsTables
<1>2. /\ Chain(T) \in Seq(Log!Row) /\ Len(Chain(T)) \in Nat
      /\ \A k \in 1..Len(Chain(T)) : Chain(T)[k].seq = k
  <2>1. Chain(T) \in Seq(Log!Row)
    BY DEF TablesInv, ChainsAreGapFree
  <2>2. QED
    BY <2>1 DEF TablesInv, ChainsAreGapFree
<1>3. \A i \in DOMAIN db.audit_log :
          db.audit_log[i].tenant = T => db.audit_log[i].row.seq < entry.seq
  <2> SUFFICES ASSUME NEW i \in DOMAIN db.audit_log, db.audit_log[i].tenant = T
               PROVE  db.audit_log[i].row.seq < entry.seq
    OBVIOUS
  <2>1. PICK k \in 1..Len(Chain(T)) : Chain(T)[k] = db.audit_log[i].row
    BY DEF TablesInv, ChainsHoldTheLog
  <2>2. QED
    BY <1>2, <2>1
<1>4. \A t : /\ a.tenant # t => ChainOf(Append(db.audit_log, a), t) = ChainOf(db.audit_log, t)
             /\ /\ a.tenant = t
                /\ \A i \in DOMAIN db.audit_log :
                       db.audit_log[i].tenant = t => db.audit_log[i].row.seq < a.row.seq
                => ChainOf(Append(db.audit_log, a), t) = Append(ChainOf(db.audit_log, t), a.row)
  <2> DEFINE log == db.audit_log
  <2>1. log \in Seq([tenant : Tenants, row : Log!Row]) /\ a \in [tenant : Tenants, row : Log!Row]
    BY <1>1
  <2> HIDE DEF log
  <2>2. \A t : /\ a.tenant # t => ChainOf(Append(log, a), t) = ChainOf(log, t)
               /\ /\ a.tenant = t
                  /\ \A i \in DOMAIN log : log[i].tenant = t => log[i].row.seq < a.row.seq
                  => ChainOf(Append(log, a), t) = Append(ChainOf(log, t), a.row)
    BY <2>1, ChainOfAppend
  <2>3. QED
    BY <2>2 DEF log
<1>5. a.tenant = T /\ a.row = entry
  OBVIOUS
<1>6. \A t : Chain(t)' = ChainOf(Append(db.audit_log, a), t) /\ Chain(t) = ChainOf(db.audit_log, t)
  BY DEF Chain
<1>7. QED
  BY <1>3, <1>4, <1>5, <1>6

(* A longer log, chain by chain. *)
LEMMA CommitChains ==
    ASSUME TablesInv, NEW T \in Tenants, NEW entry \in Log!Row,
           NEW a, a = [tenant |-> T, row |-> entry],
           db'.audit_log = Append(db.audit_log, a),
           entry.seq = Len(Chain(T)) + 1,
           T = owner(entry.content.subject[1]),
           entry.entry_hash =
               Log!compute_entry_hash(entry.prev_hash, entry.seq, entry.content)
    PROVE  /\ ChainsAreGapFree' /\ ChainsHoldTheLog'
           /\ \A t \in Tenants : \A k \in 1..Len(Chain(t)) :
                  k \in 1..Len(Chain(t)') /\ Chain(t)'[k] = Chain(t)[k]
<1> DEFINE S == [tenant : Tenants, row : Log!Row]
           rows == Chain(T)
           more == Chain(T)'
           n == Len(rows)
           log == db.audit_log
           new == db'.audit_log
           last == Len(log) + 1
<1>1. /\ Chain(T)' = Append(Chain(T), entry)
      /\ \A t \in Tenants \ {T} : Chain(t)' = Chain(t)
  BY ChainsGrow
<1>2. /\ \A t \in Tenants : Chain(t) \in Seq(Log!Row)
      /\ \A t \in Tenants : \A k \in 1..Len(Chain(t)) : Chain(t)[k].seq = k
  BY DEF TablesInv, ChainsAreGapFree
<1>3. /\ rows \in Seq(Log!Row) /\ more = Append(rows, entry) /\ entry.seq = n + 1
  BY <1>1, <1>2
<1>4. /\ more \in Seq(Log!Row) /\ Len(more) = n + 1 /\ n \in Nat
      /\ more[n + 1] = entry
      /\ \A k \in 1..n : more[k] = rows[k] /\ k \in 1..Len(more)
      /\ n + 1 \in 1..Len(more)
      /\ \A k \in 1..Len(more) : k = n + 1 \/ k \in 1..n
  <2> HIDE DEF rows, more
  <2>1. QED
    BY <1>3, Appended, SeqElements
<1>5. /\ new = Append(log, a) /\ log \in Seq(S) /\ a \in S
  BY DEF TablesInv, IsTables
<1>6. /\ DOMAIN log = 1..Len(log) /\ Len(log) \in Nat
      /\ DOMAIN new = 1..last /\ last \in DOMAIN new
      /\ new[last] = a
      /\ \A i \in DOMAIN log : new[i] = log[i] /\ i \in DOMAIN new
      /\ \A i \in DOMAIN new : i = last \/ i \in DOMAIN log
  <2> HIDE DEF S, log, new
  <2>1. QED
    BY <1>5, Appended, SeqElements
<1>7. \A t \in Tenants : \A k \in 1..Len(Chain(t)) :
          k \in 1..Len(Chain(t)') /\ Chain(t)'[k] = Chain(t)[k]
  <2> TAKE t \in Tenants
  <2>1. CASE t = T
    BY <1>4, <2>1
  <2>2. CASE t # T
    BY <1>1, <2>2
  <2>3. QED
    BY <2>1, <2>2
<1>8. ChainsAreGapFree'
  <2>1. ASSUME NEW t \in Tenants
        PROVE  /\ Chain(t)' \in Seq(Log!Row)
               /\ \A k \in 1..Len(Chain(t)') : Chain(t)'[k].seq = k
    <3>1. CASE t = T
      <4> HIDE DEF more, rows, n
      <4>1. \A k \in 1..n : rows[k].seq = k
        BY <1>2 DEF rows, n
      <4>2. \A k \in 1..Len(more) : more[k].seq = k
        BY <1>3, <1>4, <4>1
      <4>3. QED
        BY <1>4, <3>1, <4>2 DEF more
    <3>2. CASE t # T
      BY <1>1, <1>2, <3>2
    <3>3. QED
      BY <3>1, <3>2
  <2>2. QED
    BY <2>1 DEF ChainsAreGapFree
<1>9. ASSUME NEW i \in DOMAIN new, NEW b, b = new[i]
      PROVE  /\ \E k \in 1..Len(Chain(b.tenant)') : Chain(b.tenant)'[k] = b.row
             /\ b.tenant = owner(b.row.content.subject[1])
             /\ b.row.entry_hash =
                  Log!compute_entry_hash(b.row.prev_hash, b.row.seq, b.row.content)
  <2>1. CASE i = last
    <3>1. b = a
      BY <1>6, <1>9, <2>1
    <3>2. b.tenant = T /\ b.row = entry
      BY <3>1
    <3>3. \E k \in 1..Len(Chain(T)') : Chain(T)'[k] = entry
      BY <1>4
    <3>4. QED
      BY <3>2, <3>3
  <2>2. CASE i \in DOMAIN log
    <3>1. b = log[i]
      BY <1>6, <1>9, <2>2
    <3>2. log[i] \in S
      <4> HIDE DEF log, S
      <4>1. QED
        BY <1>5, <2>2, SeqElements
    <3>3. b.tenant \in Tenants
      BY <3>1, <3>2
    <3>4. /\ \E k \in 1..Len(Chain(b.tenant)) : Chain(b.tenant)[k] = b.row
          /\ b.tenant = owner(b.row.content.subject[1])
          /\ b.row.entry_hash =
               Log!compute_entry_hash(b.row.prev_hash, b.row.seq, b.row.content)
      BY <2>2, <3>1 DEF TablesInv, ChainsHoldTheLog
    <3>5. QED
      BY <1>7, <3>3, <3>4
  <2>3. QED
    BY <1>6, <1>9, <2>1, <2>2
<1>10. ASSUME NEW t \in Tenants, NEW k \in 1..Len(Chain(t)')
       PROVE  \E i \in DOMAIN new : new[i].tenant = t /\ new[i].row = Chain(t)'[k]
  <2>1. CASE t = T /\ k = n + 1
    <3>1. new[last].tenant = T /\ new[last].row = entry
      BY <1>6
    <3>2. QED
      BY <1>4, <1>6, <2>1, <3>1
  <2>2. CASE k \in 1..Len(Chain(t)) /\ Chain(t)'[k] = Chain(t)[k]
    <3>1. PICK i \in DOMAIN log : log[i].tenant = t /\ log[i].row = Chain(t)[k]
      BY <2>2 DEF TablesInv, ChainsHoldTheLog
    <3>2. new[i] = log[i] /\ i \in DOMAIN new
      BY <1>6, <3>1
    <3> HIDE DEF log, new
    <3>3. QED
      BY <2>2, <3>1, <3>2
  <2>3. QED
    <3>1. t = T => k = n + 1 \/ k \in 1..n
      BY <1>4
    <3>2. t # T => Chain(t)' = Chain(t)
      BY <1>1
    <3>3. QED
      BY <1>7, <2>1, <2>2, <3>1, <3>2
<1>11. ChainsHoldTheLog'
  <2>1. \A t : Chain(t)' = ChainOf(new, t)
    BY DEF Chain
  <2>2. \A i \in DOMAIN new : \E b : b = new[i]
    OBVIOUS
  <2>3. \A i \in DOMAIN new :
          /\ \E k \in 1..Len(ChainOf(new, new[i].tenant)) :
                 ChainOf(new, new[i].tenant)[k] = new[i].row
          /\ new[i].tenant = owner(new[i].row.content.subject[1])
          /\ new[i].row.entry_hash =
               Log!compute_entry_hash(new[i].row.prev_hash, new[i].row.seq, new[i].row.content)
    BY <1>9, <2>1, <2>2
  <2>4. QED
    BY <1>10, <2>1, <2>3 DEF ChainsHoldTheLog, Chain
<1>12. QED
  BY <1>7, <1>8, <1>11

------------------------------------------------------------------------------
(* The evaluations after a commit                                           *)

(* The version of an evaluation that can be committed is the next one.     *)
LEMMA VersionIsNext ==
    ASSUME TablesInv, NEW e \in EvaluationRow,
           e.version > 1 => \E f \in db.evaluations : Key(f) = <<e.slot, e.version - 1>>,
           \A f \in db.evaluations : Key(f) # Key(e)
    PROVE  LET rows == Evaluations(e.slot) IN
           /\ IsFiniteSet(rows) /\ Cardinality(rows) \in Nat
           /\ { f.version : f \in rows } = 1..Cardinality(rows)
           /\ e.version = Cardinality(rows) + 1
<1> DEFINE rows == Evaluations(e.slot)
           n == Cardinality(rows)
<1>1. IsFiniteSet(rows) /\ n \in Nat
  <2>1. rows \in SUBSET db.evaluations
    BY DEF Evaluations
  <2>2. IsFiniteSet(rows)
    BY <2>1, FS_Subset DEF TablesInv, EvaluationsAreGrounded
  <2>3. QED
    BY <2>2, FS_CardinalityType
<1>2. { f.version : f \in rows } = 1..n
  BY DEF TablesInv, VersionsAreGapFree, EvaluationRow
<1>3. e.version \in Nat /\ e.version >= 1
  BY DEF EvaluationRow, Versions
<1>4. e.version \notin 1..n
  <2> SUFFICES ASSUME e.version \in 1..n PROVE FALSE
    OBVIOUS
  <2>1. PICK f \in rows : f.version = e.version
    BY <1>2
  <2>2. f \in db.evaluations /\ f.slot = e.slot
    BY DEF Evaluations
  <2>3. QED
    BY <2>1, <2>2 DEF Key
<1>5. e.version > 1 => e.version - 1 \in 1..n
  <2> SUFFICES ASSUME e.version > 1 PROVE e.version - 1 \in 1..n
    OBVIOUS
  <2>1. PICK f \in db.evaluations : Key(f) = <<e.slot, e.version - 1>>
    OBVIOUS
  <2>2. f \in rows /\ f.version = e.version - 1
    BY <2>1 DEF Key, Evaluations
  <2>3. QED
    BY <1>2, <2>2
<1> HIDE DEF rows, n
<1>6. e.version = n + 1
  BY <1>1, <1>3, <1>4, <1>5
<1>7. QED
  BY <1>1, <1>2, <1>6 DEF rows, n

(* The commit of an evaluation with a free key, together with the           *)
(* superseding of the version before, keeps every invariant of the          *)
(* evaluations: no version is skipped, the new one alone is current, and    *)
(* the rows before it are the same but for that.                            *)
LEMMA EvaluationCommitted ==
    ASSUME TablesInv, NEW e \in EvaluationRow,
           db'.evaluations = Supersede(db.evaluations, Replaced(e)) \cup {e},
           db'.reviews = db.reviews,
           e.is_current, e.reason = (e.version > 1),
           e.version > 1 =>
               /\ e.by \in Reevaluates
               /\ \E f \in db.evaluations : Key(f) = <<e.slot, e.version - 1>>,
           \A f \in db.evaluations : Key(f) # Key(e) /\ f.by # e.by,
           \A s : SlotTaken(db, s) => SlotTaken(db', s),
           SlotTaken(db', e.slot)
    PROVE  /\ KeysAreUnique' /\ VersionsAreGapFree' /\ LatestIsCurrent'
           /\ EvaluationsAreGrounded' /\ ReviewsAreGrounded'
           /\ Cardinality(db'.evaluations) = Cardinality(db.evaluations) + 1
           /\ db'.evaluations \subseteq EvaluationRow
           /\ \A f \in db.evaluations : \E g \in db'.evaluations :
                  SameRow(f, g) /\ (g.is_current => f.is_current)
           /\ \A g \in db'.evaluations \ {e} : \E f \in db.evaluations : SameRow(f, g)
<1> DEFINE old  == db.evaluations
           new  == db'.evaluations
           keys == Replaced(e)
           kept == Supersede(old, keys)
<1>1. /\ old \in SUBSET EvaluationRow /\ IsFiniteSet(old)
      /\ \A f, g \in old : Key(f) = Key(g) => f = g
      /\ \A f, g \in old : f.by = g.by => f = g
      /\ new = kept \cup {e}
  BY DEF TablesInv, IsTables, EvaluationsAreGrounded, KeysAreUnique
<1>2. /\ kept \in SUBSET EvaluationRow
      /\ \A f \in old : \E g \in kept :
             SameRow(f, g) /\ g.is_current = (f.is_current /\ Key(f) \notin keys)
      /\ \A g \in kept : \E f \in old :
             SameRow(f, g) /\ g.is_current = (f.is_current /\ Key(f) \notin keys)
  <2> HIDE DEF old, keys
  <2>1. QED
    BY <1>1, SupersedeRows
<1>3. IsFiniteSet(kept) /\ Cardinality(kept) = Cardinality(old)
  <2> HIDE DEF old, keys
  <2>1. QED
    BY <1>1, SupersedeCount
<1>4. \A f, g : SameRow(f, g) => Key(f) = Key(g)
  BY DEF SameRow, Key
<1>5. \A g \in kept : Key(g) # Key(e) /\ g.by # e.by /\ g # e
  <2> HIDE DEF kept, keys
  <2>1. QED
    BY <1>2, <1>4 DEF SameRow
<1>6. \A f, g \in kept : Key(f) = Key(g) => f = g
  <2> SUFFICES ASSUME NEW f \in kept, NEW g \in kept, Key(f) = Key(g)
               PROVE  f = g
    OBVIOUS
  <2> HIDE DEF kept, keys, old
  <2>1. PICK x \in old : SameRow(x, f) /\ f.is_current = (x.is_current /\ Key(x) \notin keys)
    BY <1>2
  <2>2. PICK y \in old : SameRow(y, g) /\ g.is_current = (y.is_current /\ Key(y) \notin keys)
    BY <1>2
  <2>3. x = y
    BY <1>1, <1>4, <2>1, <2>2
  <2>4. f \in EvaluationRow /\ g \in EvaluationRow
    BY <1>2
  <2>5. f.is_current = g.is_current
    BY <2>1, <2>2, <2>3
  <2>6. QED
    BY <2>1, <2>2, <2>3, <2>4, <2>5 DEF SameRow, EvaluationRow
<1>7. \A f, g \in kept : f.by = g.by => f = g
  <2> SUFFICES ASSUME NEW f \in kept, NEW g \in kept, f.by = g.by
               PROVE  f = g
    OBVIOUS
  <2> HIDE DEF kept, keys, old
  <2>1. PICK x \in old : SameRow(x, f)
    BY <1>2
  <2>2. PICK y \in old : SameRow(y, g)
    BY <1>2
  <2>3. x.by = f.by /\ y.by = g.by
    BY <2>1, <2>2 DEF SameRow
  <2>4. Key(f) = Key(g)
    BY <1>1, <1>4, <2>1, <2>2, <2>3
  <2>5. QED
    BY <1>6, <2>4
<1>8. KeysAreUnique'
  <2>1. \A f, g \in new : Key(f) = Key(g) => f = g
    <3> HIDE DEF kept, new
    <3>1. QED
      BY <1>1, <1>5, <1>6
  <2>2. QED
    BY <2>1 DEF TablesInv, KeysAreUnique, Key
<1>9. IsFiniteSet(new) /\ Cardinality(new) = Cardinality(old) + 1
  <2> HIDE DEF kept, new
  <2>1. e \notin kept
    BY <1>5
  <2>2. QED
    BY <1>1, <1>3, <2>1, FS_AddElement
<1> DEFINE s == e.slot
           rows == Evaluations(s)
           n == Cardinality(rows)
<1>10. /\ IsFiniteSet(rows) /\ n \in Nat
       /\ { f.version : f \in rows } = 1..n
       /\ e.version = n + 1
  BY VersionIsNext
<1>11. ASSUME NEW t
       PROVE  LET more == { g \in kept : g.slot = t } IN
              /\ { g.version : g \in more } = { f.version : f \in Evaluations(t) }
              /\ IsFiniteSet(more)
              /\ Cardinality(more) = Cardinality(Evaluations(t))
  <2> DEFINE more == { g \in kept : g.slot = t }
             mine == Evaluations(t)
  <2>1. mine \in SUBSET old
    BY DEF Evaluations
  <2>2. more = Supersede(mine, keys)
    <3>1. \A f \in old : (IF Key(f) \in keys THEN [f EXCEPT !.is_current = FALSE] ELSE f).slot = f.slot
      BY <1>1 DEF EvaluationRow
    <3>2. QED
      BY <3>1 DEF Supersede, Evaluations
  <2>3. IsFiniteSet(mine)
    <3> HIDE DEF mine, old
    <3>1. QED
      BY <1>1, <2>1, FS_Subset
  <2>4. mine \in SUBSET EvaluationRow /\ \A f, g \in mine : Key(f) = Key(g) => f = g
    BY <1>1, <2>1
  <2> HIDE DEF mine, old, keys
  <2>5. IsFiniteSet(Supersede(mine, keys)) /\ Cardinality(Supersede(mine, keys)) = Cardinality(mine)
    BY <2>3, <2>4, SupersedeCount
  <2>6. { g.version : g \in Supersede(mine, keys) } = { f.version : f \in mine }
    <3>1. /\ \A f \in mine : \E g \in Supersede(mine, keys) : SameRow(f, g)
          /\ \A g \in Supersede(mine, keys) : \E f \in mine : SameRow(f, g)
      BY <2>4, SupersedeRows
    <3>2. QED
      BY <3>1 DEF SameRow
  <2> HIDE DEF more
  <2>7. QED
    BY <2>2, <2>5, <2>6 DEF mine, more
<1>12. VersionsAreGapFree'
  <2>1. ASSUME NEW t \in Slots, NEW more, more = { g \in new : g.slot = t }
        PROVE  { g.version : g \in more } = 1..Cardinality(more)
    <3> DEFINE mine == { g \in kept : g.slot = t }
    <3>1. /\ { g.version : g \in mine } = 1..Cardinality(Evaluations(t))
          /\ IsFiniteSet(mine)
          /\ Cardinality(mine) = Cardinality(Evaluations(t))
      BY <1>11 DEF TablesInv, VersionsAreGapFree
    <3>2. CASE t # s
      <4>1. more = mine
        BY <1>1, <2>1, <3>2
      <4> HIDE DEF mine
      <4>2. QED
        BY <3>1, <4>1
    <3>3. CASE t = s
      <4>1. more = mine \cup {e} /\ e \notin mine
        BY <1>1, <1>5, <2>1, <3>3
      <4> HIDE DEF mine
      <4>2. Cardinality(more) = n + 1
        <5>1. Cardinality(mine) = n
          BY <3>1, <3>3
        <5>2. Cardinality(mine \cup {e}) = Cardinality(mine) + 1
          <6> HIDE DEF s, n
          <6>1. QED
            BY <3>1, <4>1, FS_AddElement
        <5>3. QED
          BY <4>1, <5>1, <5>2
      <4>3. { g.version : g \in more } = (1..n) \cup {n + 1}
        BY <1>10, <3>1, <3>3, <4>1
      <4>4. (1..n) \cup {n + 1} = 1..(n + 1)
        BY <1>10
      <4>5. QED
        BY <4>2, <4>3, <4>4
    <3>4. QED
      BY <3>2, <3>3
  <2>2. QED
    BY <2>1 DEF VersionsAreGapFree, Evaluations
<1>13. \A f \in rows : f \in old /\ f.version \in 1..n /\ f.slot = s
  BY <1>10 DEF Evaluations
<1>14. LatestIsCurrent'
  <2>1. ASSUME NEW g \in new
        PROVE  g.is_current <=> \A h \in new : h.slot = g.slot => h.version <= g.version
    <3>1. \A h \in kept : h.slot = s => h.version \in 1..n
      <4> SUFFICES ASSUME NEW h \in kept, h.slot = s
                   PROVE  h.version \in 1..n
        OBVIOUS
      <4>1. PICK f \in old : SameRow(f, h)
        BY <1>2
      <4>2. f \in rows
        BY <4>1 DEF SameRow, Evaluations
      <4>3. QED
        BY <1>13, <4>1, <4>2 DEF SameRow
    <3>2. CASE g = e
      <4>1. \A h \in new : h.slot = g.slot => h.version <= g.version
        <5> HIDE DEF kept, new, n
        <5>1. QED
          BY <1>1, <1>10, <3>1, <3>2
      <4>2. QED
        BY <3>2, <4>1
    <3>3. CASE g # e /\ g.slot = s
      <4>1. g \in kept /\ g.version \in 1..n
        BY <1>1, <3>1, <3>3
      <4>2. ~ (e.version <= g.version)
        BY <1>10, <4>1
      <4>3. PICK f \in old : SameRow(f, g) /\ g.is_current = (f.is_current /\ Key(f) \notin keys)
        BY <1>2, <4>1
      <4>4. f \in rows /\ f.version = g.version
        BY <3>3, <4>3 DEF SameRow, Evaluations
      <4>5. f.is_current => f.version = n
        <5>1. SUFFICES ASSUME f.is_current PROVE f.version = n
          OBVIOUS
        <5>2. \A h \in rows : h.version <= f.version
          <6>1. f.slot = s
            BY <1>13, <4>4
          <6>2. QED
            BY <5>1, <6>1 DEF TablesInv, LatestIsCurrent
        <5>3. f.version \in 1..n
          BY <4>1, <4>4
        <5>4. n \in { h.version : h \in rows }
          BY <1>10, <5>3
        <5>5. n <= f.version
          BY <5>2, <5>4
        <5>6. QED
          BY <1>10, <5>3, <5>5
      <4>6. f.is_current => Key(f) \in keys
        <5>1. SUFFICES ASSUME f.is_current PROVE Key(f) \in keys
          OBVIOUS
        <5>2. f.version = n /\ f.slot = s /\ e.version - 1 = n /\ e.version # 1
          BY <1>10, <1>13, <4>1, <4>4, <4>5, <5>1
        <5>3. QED
          BY <5>2 DEF Key, Replaced
      <4>7. ~g.is_current
        BY <4>3, <4>6
      <4>8. e \in new /\ e.slot = g.slot
        BY <1>1, <3>3
      <4>9. QED
        BY <4>2, <4>7, <4>8
    <3>4. CASE g.slot # s
      <4>1. g \in kept
        BY <1>1, <3>4
      <4>2. PICK f \in old : SameRow(f, g) /\ g.is_current = (f.is_current /\ Key(f) \notin keys)
        BY <1>2, <4>1
      <4>3. f.slot = g.slot /\ f.version = g.version
        BY <4>2 DEF SameRow
      <4>4. Key(f) \notin keys
        BY <3>4, <4>3 DEF Key, Replaced
      <4>5. g.is_current <=> f.is_current
        BY <4>2, <4>4
      <4>6. f.is_current <=> \A h \in Evaluations(f.slot) : h.version <= f.version
        BY DEF TablesInv, LatestIsCurrent
      <4>7. (\A h \in Evaluations(f.slot) : h.version <= f.version)
               <=> \A h \in new : h.slot = g.slot => h.version <= g.version
        <5>1. \A h \in new : h.slot = g.slot => h \in kept
          BY <1>1, <3>4
        <5>2. kept \subseteq new
          BY <1>1
        <5> HIDE DEF new, kept, keys
        <5>3. /\ \A h \in Evaluations(f.slot) : \E k \in new : SameRow(h, k)
              /\ \A k \in new : k.slot = g.slot => \E h \in old : SameRow(h, k)
          BY <1>2, <5>1, <5>2 DEF Evaluations
        <5>4. QED
          BY <4>3, <5>3 DEF SameRow, Evaluations
      <4>8. QED
        BY <4>5, <4>6, <4>7
    <3>5. QED
      BY <3>2, <3>3, <3>4
  <2>2. QED
    BY <2>1 DEF LatestIsCurrent, Evaluations
<1>15. \A g \in new \ {e} : \E f \in old : SameRow(f, g)
  BY <1>1, <1>2
<1>16. EvaluationsAreGrounded'
  <2>1. \A f \in old : /\ SlotTaken(db, f.slot)
                       /\ f.reason = (f.version > 1)
                       /\ f.version > 1 => f.by \in Reevaluates
    BY DEF TablesInv, EvaluationsAreGrounded
  <2>2. \A g \in new : /\ SlotTaken(db', g.slot)
                       /\ g.reason = (g.version > 1)
                       /\ g.version > 1 => g.by \in Reevaluates
    <3> HIDE DEF new, old
    <3>1. QED
      BY <1>15, <2>1 DEF SameRow
  <2>3. \A f, g \in new : f.by = g.by => f = g
    <3> HIDE DEF new, kept
    <3>1. QED
      BY <1>1, <1>5, <1>7
  <2>4. QED
    BY <1>9, <2>2, <2>3 DEF EvaluationsAreGrounded, SlotTaken
<1>17. \A f \in old : \E g \in new : SameRow(f, g) /\ (g.is_current => f.is_current)
  BY <1>1, <1>2
<1>18. ReviewsAreGrounded'
  <2>1. \A t, m : Flagged(t, m) => Flagged(t, m)'
    BY <1>17 DEF Flagged, SameRow
  <2>2. QED
    BY <2>1 DEF TablesInv, ReviewsAreGrounded
<1>19. new \subseteq EvaluationRow
  BY <1>1, <1>2
<1>20. QED
  BY <1>8, <1>9, <1>12, <1>14, <1>15, <1>16, <1>17, <1>18, <1>19

------------------------------------------------------------------------------
(* The log and the record after a commit                                    *)

(* What the log says of an evaluation does not depend on its being current. *)
LEMMA SameContent ==
    ASSUME NEW e, NEW f, SameRow(e, f)
    PROVE  EvaluationContent(e) = EvaluationContent(f) /\ owner(e.slot) = owner(f.slot)
<1>1. Key(e) = Key(f)
  BY DEF SameRow, Key
<1>2. QED
  BY <1>1 DEF SameRow, EvaluationContent

(* The log grows by the description of what was committed with it.         *)
LEMMA LogStillMatches ==
    ASSUME TablesInv, NEW T \in Tenants, NEW entry \in Log!Row,
           NEW a, a = [tenant |-> T, row |-> entry],
           db'.audit_log = Append(db.audit_log, a),
           Cardinality(db'.evaluations) + Cardinality(db'.reviews)
               = Cardinality(db.evaluations) + Cardinality(db.reviews) + 1,
           \/ /\ db'.reviews = db.reviews
              /\ \E e \in db'.evaluations :
                    /\ T = owner(e.slot) /\ entry.content = EvaluationContent(e)
                    /\ \A g \in db'.evaluations \ {e} : \E f \in db.evaluations : SameRow(f, g)
              /\ \A f \in db.evaluations : \E g \in db'.evaluations : SameRow(f, g)
           \/ /\ db'.evaluations = db.evaluations
              /\ \E v \in db'.reviews :
                    /\ T = owner(v.slot) /\ entry.content = ReviewContent(v)
                    /\ db'.reviews = db.reviews \cup {v}
    PROVE  RecordMatchesLog'
<1> DEFINE S == [tenant : Tenants, row : Log!Row]
           about(x, c) == [tenant |-> owner(x.slot), content |-> c]
           described(E, V) == { [tenant |-> owner(e.slot), content |-> EvaluationContent(e)] : e \in E }
                              \cup { [tenant |-> owner(v.slot), content |-> ReviewContent(v)] : v \in V }
           said(b) == [tenant |-> b.tenant, content |-> b.row.content]
           log == db.audit_log
           new == db'.audit_log
           it == [tenant |-> T, content |-> entry.content]
<1>1. log \in Seq(S) /\ a \in S /\ new = Append(log, a)
  BY DEF TablesInv, IsTables
<1>2. /\ ToSet(new) = ToSet(log) \cup {a} /\ Len(new) = Len(log) + 1
  <2> HIDE DEF S, log, new
  <2>1. /\ DOMAIN new = 1..(Len(log) + 1) /\ DOMAIN log = 1..Len(log) /\ Len(log) \in Nat
        /\ \A i \in DOMAIN log : new[i] = log[i]
        /\ new[Len(log) + 1] = a
        /\ Len(new) = Len(log) + 1
    BY <1>1, Appended, SeqElements
  <2>2. QED
    BY <2>1 DEF ToSet
<1>3. /\ { said(b) : b \in ToSet(log) } = described(db.evaluations, db.reviews)
      /\ Len(log) = Cardinality(db.evaluations) + Cardinality(db.reviews)
  BY DEF TablesInv, RecordMatchesLog
<1>4. { said(b) : b \in ToSet(new) } = { said(b) : b \in ToSet(log) } \cup {it}
  <2>1. said(a) = it
    OBVIOUS
  <2> HIDE DEF said, it, new, log
  <2>2. QED
    BY <1>2, <2>1
<1>5. described(db'.evaluations, db'.reviews) = described(db.evaluations, db.reviews) \cup {it}
  <2> DEFINE ofE(e) == [tenant |-> owner(e.slot), content |-> EvaluationContent(e)]
             ofV(v) == [tenant |-> owner(v.slot), content |-> ReviewContent(v)]
  <2>1. \A E, V : described(E, V) = { ofE(e) : e \in E } \cup { ofV(v) : v \in V }
    OBVIOUS
  <2>2. \A e, f : SameRow(e, f) => ofE(e) = ofE(f)
    BY SameContent
  <2>3. CASE \E e \in db'.evaluations :
               /\ db'.reviews = db.reviews
               /\ T = owner(e.slot) /\ entry.content = EvaluationContent(e)
               /\ \A g \in db'.evaluations \ {e} : \E f \in db.evaluations : SameRow(f, g)
               /\ \A f \in db.evaluations : \E g \in db'.evaluations : SameRow(f, g)
    <3>1. PICK e \in db'.evaluations :
               /\ db'.reviews = db.reviews
               /\ T = owner(e.slot) /\ entry.content = EvaluationContent(e)
               /\ \A g \in db'.evaluations \ {e} : \E f \in db.evaluations : SameRow(f, g)
               /\ \A f \in db.evaluations : \E g \in db'.evaluations : SameRow(f, g)
      BY <2>3
    <3>2. ofE(e) = it
      BY <3>1
    <3> HIDE DEF ofE, it
    <3>3. { ofE(g) : g \in db'.evaluations } = { ofE(f) : f \in db.evaluations } \cup {it}
      BY <2>2, <3>1, <3>2
    <3> HIDE DEF described, ofV
    <3>4. QED
      BY <2>1, <3>1, <3>3
  <2>4. CASE \E v \in db'.reviews :
               /\ db'.evaluations = db.evaluations
               /\ T = owner(v.slot) /\ entry.content = ReviewContent(v)
               /\ db'.reviews = db.reviews \cup {v}
    <3>1. PICK v \in db'.reviews :
               /\ db'.evaluations = db.evaluations
               /\ T = owner(v.slot) /\ entry.content = ReviewContent(v)
               /\ db'.reviews = db.reviews \cup {v}
      BY <2>4
    <3>2. ofV(v) = it
      BY <3>1
    <3> HIDE DEF ofV, it
    <3>3. { ofV(g) : g \in db'.reviews } = { ofV(f) : f \in db.reviews } \cup {it}
      BY <3>1, <3>2
    <3> HIDE DEF described, ofE
    <3>4. QED
      BY <2>1, <3>1, <3>3
  <2>5. QED
    BY <2>3, <2>4
<1>6. Len(new) = Cardinality(db'.evaluations) + Cardinality(db'.reviews)
  BY <1>2, <1>3
<1>7. QED
  BY <1>3, <1>4, <1>5, <1>6 DEF RecordMatchesLog, owner, EvaluationContent, ReviewContent, Key

(* One request more is on the record, by one entry more.                   *)
LEMMA OneMoreEntry ==
    ASSUME TablesInv, NEW r \in Requests, ~Recorded(r), Recorded(r)',
           \A q \in Requests \ {r} : Recorded(q)' <=> Recorded(q),
           NEW a \in [tenant : Tenants, row : Log!Row],
           db'.audit_log = Append(db.audit_log, a)
    PROVE  OneEntryPerRequest'
<1> DEFINE S == [tenant : Tenants, row : Log!Row]
           old == { q \in Requests : Recorded(q) }
           new == { q \in Requests : Recorded(q)' }
<1>1. db.audit_log \in Seq(S) /\ a \in S
  BY DEF TablesInv, IsTables
<1>2. Len(db'.audit_log) = Len(db.audit_log) + 1
  <2> HIDE DEF S
  <2>1. QED
    BY <1>1, Appended
<1>3. old \in SUBSET Requests /\ new = old \cup {r} /\ r \notin old
  OBVIOUS
<1>4. Len(db.audit_log) = Cardinality(old)
  BY DEF TablesInv, OneEntryPerRequest
<1> HIDE DEF old, new
<1>5. IsFiniteSet(old)
  BY <1>3, PipelineAssumption, FS_Subset
<1>6. Cardinality(new) = Cardinality(old) + 1
  BY <1>3, <1>5, FS_AddElement
<1>7. QED
  BY <1>2, <1>4, <1>6 DEF new, OneEntryPerRequest

------------------------------------------------------------------------------
(* The commit of an evaluation or a review                                  *)

(* The entry of a commit, whatever it is about.                            *)
LEMMA CommitEntry ==
    ASSUME DatabaseInv, NEW r \in Requests, CommitRequest(r),
           req[r].content.subject[1] = req[r].slot
    PROVE  \E T \in Tenants, entry \in Log!Row, a \in [tenant : Tenants, row : Log!Row] :
               /\ T = owner(req[r].slot) /\ a = [tenant |-> T, row |-> entry]
               /\ entry.content = req[r].content
               /\ entry = Log!NewEntry(Chain(T), req[r].content, InterviewOf[req[r].slot])
               /\ db'.audit_log = Append(db.audit_log, a)
               /\ entry.seq = Len(Chain(T)) + 1
               /\ T = owner(entry.content.subject[1])
               /\ entry.entry_hash =
                      Log!compute_entry_hash(entry.prev_hash, entry.seq, entry.content)
<1> DEFINE T == owner(req[r].slot)
           c == req[r].content
           x == InterviewOf[req[r].slot]
           tail == req[r].tail
           entry == Log!NewEntry(tail, c, x)
           a == [tenant |-> T, row |-> entry]
<1>1. req[r].pc = "commit" /\ Commit(r, Answer("ok"))
  BY DEF CommitRequest
<1>2. /\ T \in Tenants /\ entry \in Log!Row
      /\ staged[r].tables.audit_log = <<a>>
      /\ entry = Log!NewEntry(Chain(T), c, x)
      /\ entry.seq = Len(Chain(T)) + 1
  <2>1. \E t, d, y, u : t = T /\ d = c /\ y = x /\ u = tail
    OBVIOUS
  <2>2. QED
    BY <1>1, <2>1, EntryIsNext
<1>3. /\ entry.content = c
      /\ entry.entry_hash =
             Log!compute_entry_hash(entry.prev_hash, entry.seq, entry.content)
  BY DEF Log!NewEntry
<1>4. c.subject[1] = req[r].slot
  OBVIOUS
<1>5. T = owner(entry.content.subject[1])
  BY <1>3, <1>4
<1> HIDE DEF entry
<1>6. a \in [tenant : Tenants, row : Log!Row] /\ a = [tenant |-> T, row |-> entry]
  BY <1>2
<1> HIDE DEF T, a, c, x, tail
<1>7. db'.audit_log = db.audit_log \o <<a>>
  BY <1>1, <1>2, CommitParts
<1>8. db.audit_log \o <<a>> = Append(db.audit_log, a)
  <2> DEFINE S == [tenant : Tenants, row : Log!Row]
  <2>1. db.audit_log \in Seq(S) /\ a \in S
    BY <1>6 DEF DatabaseInv, TablesInv, IsTables
  <2> HIDE DEF S
  <2>2. QED
    BY <2>1
<1>9. /\ T = owner(req[r].slot)
      /\ a = [tenant |-> T, row |-> entry]
      /\ entry.content = req[r].content
      /\ entry = Log!NewEntry(Chain(T), req[r].content, InterviewOf[req[r].slot])
      /\ db'.audit_log = Append(db.audit_log, a)
      /\ entry.seq = Len(Chain(T)) + 1
      /\ T = owner(entry.content.subject[1])
      /\ entry.entry_hash =
             Log!compute_entry_hash(entry.prev_hash, entry.seq, entry.content)
  BY <1>2, <1>3, <1>5, <1>6, <1>7, <1>8 DEF T, c, x
<1>10. QED
  BY <1>2, <1>6, <1>9

(* The commit of an evaluation: the tables still agree with the log, and    *)
(* its request and no other one came onto the record.                       *)
LEMMA CommitEvaluation ==
    ASSUME DatabaseInv, NEW r \in Requests, CommitRequest(r),
           NEW e, EvaluationStaged(r, e),
           Wrote(r, {e}, {}, {LedgerRow(r, TRUE)}, Entry(r), Replaced(e))
    PROVE  TablesInv' /\ Grows /\ Recorded(r)'
           /\ \A q \in Requests \ {r} : Recorded(q)' <=> Recorded(q)
<1> DEFINE R == staged[r].tables.responses
           L == {LedgerRow(r, TRUE)}
<1>1. req[r].pc = "commit" /\ Commit(r, Answer("ok"))
  BY DEF CommitRequest
<1>2. /\ TablesInv /\ ~Recorded(r)
      /\ R \subseteq [slot : Slots, by : Submits]
      /\ r \in Submits \cup Reevaluates
  BY <1>1 DEF DatabaseInv, RequestInv, Answering, IsTransaction, IsTables, EvaluationStaged, Opened
<1>3. /\ e \in EvaluationRow
      /\ e.slot = req[r].slot /\ e.by = r /\ e.is_current
      /\ e.reason = (e.version > 1)
      /\ e.version > 1 => /\ e.by \in Reevaluates
                          /\ \E f \in db.evaluations : Key(f) = <<e.slot, e.version - 1>>
      /\ req[r].content = EvaluationContent(e)
  BY DEF EvaluationStaged
<1>4. /\ staged[r].tables.evaluations = {e} /\ staged[r].tables.reviews = {}
      /\ staged[r].tables.llm_calls = L
      /\ staged[r].superseded = Replaced(e)
  <2>1. staged[r] = Txn(R, {e}, {}, L, Entry(r), Replaced(e), staged[r].tail_lock)
    BY DEF Wrote
  <2> HIDE DEF R, L
  <2>2. QED
    BY <2>1, TxnParts
<1>5. /\ db'.responses = db.responses \cup R
      /\ db'.evaluations = Supersede(db.evaluations, Replaced(e)) \cup {e}
      /\ db'.reviews = db.reviews
      /\ db'.llm_calls = db.llm_calls \cup L
  <2> HIDE DEF R, L
  <2>1. /\ db'.responses = db.responses \cup staged[r].tables.responses
        /\ db'.evaluations = Supersede(db.evaluations, staged[r].superseded) \cup staged[r].tables.evaluations
        /\ db'.reviews = db.reviews \cup staged[r].tables.reviews
        /\ db'.llm_calls = db.llm_calls \cup staged[r].tables.llm_calls
    BY <1>1, CommitParts
  <2>2. QED
    BY <1>4, <2>1 DEF R
<1> HIDE DEF R, L
<1>6. \A f \in db.evaluations : Key(f) # Key(e) /\ f.by # e.by
  <2>1. <<"evaluation", Key(e)>> \in Claims(staged[r].tables)
    BY <1>4 DEF Claims
  <2>2. \A f \in db.evaluations : <<"evaluation", Key(f)>> \in Claims(db)
    BY DEF Claims
  <2>3. <<"evaluation", Key(e)>> \notin Claims(db)
    BY <2>1 DEF DatabaseInv, KeysAreFree
  <2>4. QED
    BY <1>2, <1>3, <2>2, <2>3 DEF Recorded
<1>7. /\ \A s : SlotTaken(db, s) => SlotTaken(db', s)
      /\ SlotTaken(db', e.slot)
  <2>1. \A s : SlotTaken(db, s) => SlotTaken(db', s)
    BY <1>5 DEF SlotTaken
  <2>2. Opened(r)
    BY DEF EvaluationStaged
  <2>3. CASE R = {[slot |-> req[r].slot, by |-> r]}
    <3> DEFINE row == [slot |-> req[r].slot, by |-> r]
    <3>1. row \in db'.responses /\ row.slot = e.slot
      BY <1>3, <1>5, <2>3
    <3>2. \E x \in db'.responses : x.slot = e.slot
      BY <3>1
    <3>3. QED
      BY <2>1, <3>2 DEF SlotTaken
  <2>4. CASE SlotTaken(db, req[r].slot)
    BY <1>3, <2>1, <2>4
  <2>5. QED
    BY <2>1, <2>2, <2>3, <2>4 DEF Opened, R
<1>8. /\ KeysAreUnique' /\ VersionsAreGapFree' /\ LatestIsCurrent'
      /\ EvaluationsAreGrounded' /\ ReviewsAreGrounded'
      /\ Cardinality(db'.evaluations) = Cardinality(db.evaluations) + 1
      /\ db'.evaluations \subseteq EvaluationRow
      /\ \A f \in db.evaluations : \E g \in db'.evaluations :
             SameRow(f, g) /\ (g.is_current => f.is_current)
      /\ \A g \in db'.evaluations \ {e} : \E f \in db.evaluations : SameRow(f, g)
  BY <1>2, <1>3, <1>5, <1>6, <1>7, EvaluationCommitted
<1>9. req[r].content.subject[1] = req[r].slot
  BY <1>3 DEF EvaluationContent, Key
<1>10. PICK T \in Tenants, entry \in Log!Row, a \in [tenant : Tenants, row : Log!Row] :
           /\ T = owner(req[r].slot) /\ a = [tenant |-> T, row |-> entry]
           /\ entry.content = req[r].content
           /\ db'.audit_log = Append(db.audit_log, a)
           /\ entry.seq = Len(Chain(T)) + 1
           /\ T = owner(entry.content.subject[1])
           /\ entry.entry_hash =
                  Log!compute_entry_hash(entry.prev_hash, entry.seq, entry.content)
  BY <1>9, CommitEntry
<1>11. /\ ChainsAreGapFree' /\ ChainsHoldTheLog'
       /\ \A t \in Tenants : \A k \in 1..Len(Chain(t)) :
              k \in 1..Len(Chain(t)') /\ Chain(t)'[k] = Chain(t)[k]
  BY <1>2, <1>10, CommitChains
<1>12. RecordMatchesLog'
  <2>1. /\ db'.reviews = db.reviews
        /\ \E d \in db'.evaluations :
              /\ T = owner(d.slot) /\ entry.content = EvaluationContent(d)
              /\ \A g \in db'.evaluations \ {d} : \E f \in db.evaluations : SameRow(f, g)
        /\ \A f \in db.evaluations : \E g \in db'.evaluations : SameRow(f, g)
    <3>1. e \in db'.evaluations /\ T = owner(e.slot) /\ entry.content = EvaluationContent(e)
      BY <1>3, <1>5, <1>10
    <3>2. QED
      BY <1>5, <1>8, <3>1
  <2>2. Cardinality(db'.evaluations) + Cardinality(db'.reviews)
               = Cardinality(db.evaluations) + Cardinality(db.reviews) + 1
    <3>1. Cardinality(db.evaluations) \in Nat /\ Cardinality(db.reviews) \in Nat
      BY <1>2, FS_CardinalityType DEF TablesInv, EvaluationsAreGrounded, ReviewsAreGrounded
    <3>2. QED
      BY <1>5, <1>8, <3>1
  <2>3. QED
    BY <1>2, <1>10, <2>1, <2>2, LogStillMatches
<1>13. \A q : Recorded(q)' <=> (Recorded(q) \/ q = r)
  <2>1. e \in db'.evaluations
    BY <1>5
  <2>2. /\ \A f \in db.evaluations : \E g \in db'.evaluations : g.by = f.by
        /\ \A g \in db'.evaluations \ {e} : \E f \in db.evaluations : g.by = f.by
    BY <1>8 DEF SameRow
  <2>3. QED
    BY <1>3, <1>5, <2>1, <2>2 DEF Recorded
<1>14. LedgerMatchesEvaluations'
  <2>1. { c.by : c \in { d \in db.llm_calls : d.succeeded } } = { f.by : f \in db.evaluations }
    BY <1>2 DEF TablesInv, LedgerMatchesEvaluations
  <2>2. \A c : c \in L <=> c = LedgerRow(r, TRUE)
    BY DEF L
  <2>3. LedgerRow(r, TRUE).succeeded = TRUE /\ LedgerRow(r, TRUE).by = r
    BY DEF LedgerRow
  <2>4. { c.by : c \in { d \in db'.llm_calls : d.succeeded } }
            = { c.by : c \in { d \in db.llm_calls : d.succeeded } } \cup {r}
    <3> DEFINE row == LedgerRow(r, TRUE)
    <3>1. db'.llm_calls = db.llm_calls \cup {row} /\ row.succeeded /\ row.by = r
      BY <1>5, <2>3 DEF L
    <3> HIDE DEF row
    <3>2. QED
      BY <3>1
  <2>5. { g.by : g \in db'.evaluations } = { f.by : f \in db.evaluations } \cup {r}
    <3>1. e \in db'.evaluations /\ e.by = r
      BY <1>3, <1>5
    <3>2. QED
      BY <1>8, <3>1 DEF SameRow
  <2>6. QED
    BY <2>1, <2>4, <2>5 DEF LedgerMatchesEvaluations
<1>15. a \in [tenant : Tenants, row : Log!Row]
  BY <1>10
<1>16. OneEntryPerRequest'
  BY <1>2, <1>10, <1>13, <1>15, OneMoreEntry
<1>17. IsTables(db)'
  <2>1. IsTables(db)
    BY <1>2 DEF TablesInv
  <2>2. L \subseteq [by : Submits \cup Reevaluates, succeeded : BOOLEAN]
    BY <1>2 DEF L, LedgerRow
  <2>3. db'.audit_log \in Seq([tenant : Tenants, row : Log!Row])
    BY <1>10, <1>15, <2>1, Appended DEF IsTables
  <2>4. QED
    BY <1>2, <1>5, <1>8, <2>1, <2>2, <2>3 DEF IsTables
<1>18. Grows
  BY <1>5, <1>8, <1>11 DEF Grows
<1>19. QED
  BY <1>8, <1>11, <1>12, <1>13, <1>14, <1>16, <1>17, <1>18 DEF TablesInv

(* The same for the commit of a review.                                     *)
LEMMA CommitReview ==
    ASSUME DatabaseInv, NEW r \in Requests, CommitRequest(r),
           NEW v, ReviewStaged(r, v), Wrote(r, {}, {v}, {}, Entry(r), {}),
           staged[r].tables.responses = {}
    PROVE  TablesInv' /\ Grows /\ Recorded(r)'
           /\ \A q \in Requests \ {r} : Recorded(q)' <=> Recorded(q)
<1> DEFINE R == staged[r].tables.responses
           RowsOfReviews == [slot : Slots, version : Versions, verdict : HumanVerdicts, by : Reviews]
<1>1. req[r].pc = "commit" /\ Commit(r, Answer("ok"))
  BY DEF CommitRequest
<1>2. TablesInv /\ ~Recorded(r)
  BY <1>1 DEF DatabaseInv, RequestInv, Answering
<1>3. /\ v \in RowsOfReviews
      /\ v.slot = req[r].slot /\ v.by = r
      /\ Flagged(v.slot, v.version)
      /\ req[r].content = ReviewContent(v)
  BY DEF ReviewStaged
<1>4. /\ staged[r].tables.evaluations = {} /\ staged[r].tables.reviews = {v}
      /\ staged[r].tables.llm_calls = {} /\ staged[r].tables.responses = {}
      /\ staged[r].superseded = {}
  <2>1. staged[r] = Txn(R, {}, {v}, {}, Entry(r), {}, staged[r].tail_lock)
    BY DEF Wrote
  <2> HIDE DEF R
  <2>2. QED
    BY <2>1, TxnParts
<1>5. /\ db'.responses = db.responses
      /\ db'.evaluations = db.evaluations
      /\ db'.reviews = db.reviews \cup {v}
      /\ db'.llm_calls = db.llm_calls
  <2>1. /\ db'.responses = db.responses \cup staged[r].tables.responses
        /\ db'.evaluations = Supersede(db.evaluations, staged[r].superseded) \cup staged[r].tables.evaluations
        /\ db'.reviews = db.reviews \cup staged[r].tables.reviews
        /\ db'.llm_calls = db.llm_calls \cup staged[r].tables.llm_calls
    BY <1>1, CommitParts
  <2>2. QED
    BY <1>4, <2>1, SupersedeNothing
<1>6. \A w \in db.reviews : Key(w) # Key(v)
  <2>1. <<"review", Key(v)>> \in Claims(staged[r].tables)
    BY <1>4 DEF Claims
  <2>2. \A w \in db.reviews : <<"review", Key(w)>> \in Claims(db)
    BY DEF Claims
  <2>3. <<"review", Key(v)>> \notin Claims(db)
    BY <2>1 DEF DatabaseInv, KeysAreFree
  <2>4. QED
    BY <2>2, <2>3
<1>7. v \notin db.reviews
  BY <1>6
<1>8. /\ IsFiniteSet(db.reviews) /\ IsFiniteSet(db'.reviews)
      /\ Cardinality(db'.reviews) = Cardinality(db.reviews) + 1
  <2>1. IsFiniteSet(db.reviews)
    BY <1>2 DEF TablesInv, ReviewsAreGrounded
  <2>2. QED
    BY <1>5, <1>7, <2>1, FS_AddElement
<1>9. req[r].content.subject[1] = req[r].slot
  BY <1>3 DEF ReviewContent, Key
<1>10. PICK T \in Tenants, entry \in Log!Row, a \in [tenant : Tenants, row : Log!Row] :
           /\ T = owner(req[r].slot) /\ a = [tenant |-> T, row |-> entry]
           /\ entry.content = req[r].content
           /\ db'.audit_log = Append(db.audit_log, a)
           /\ entry.seq = Len(Chain(T)) + 1
           /\ T = owner(entry.content.subject[1])
           /\ entry.entry_hash =
                  Log!compute_entry_hash(entry.prev_hash, entry.seq, entry.content)
  BY <1>9, CommitEntry
<1>11. /\ ChainsAreGapFree' /\ ChainsHoldTheLog'
       /\ \A t \in Tenants : \A k \in 1..Len(Chain(t)) :
              k \in 1..Len(Chain(t)') /\ Chain(t)'[k] = Chain(t)[k]
  BY <1>2, <1>10, CommitChains
<1>12. RecordMatchesLog'
  <2>1. /\ v \in db'.reviews /\ T = owner(v.slot) /\ entry.content = ReviewContent(v)
    BY <1>3, <1>5, <1>10
  <2>2. Cardinality(db'.evaluations) + Cardinality(db'.reviews)
               = Cardinality(db.evaluations) + Cardinality(db.reviews) + 1
    <3>1. Cardinality(db.evaluations) \in Nat /\ Cardinality(db.reviews) \in Nat
      BY <1>2, <1>8, FS_CardinalityType DEF TablesInv, EvaluationsAreGrounded
    <3>2. QED
      BY <1>5, <1>8, <3>1
  <2>3. QED
    BY <1>2, <1>5, <1>10, <2>1, <2>2, LogStillMatches
<1>13. \A q : Recorded(q)' <=> (Recorded(q) \/ q = r)
  BY <1>3, <1>5 DEF Recorded
<1>14. LedgerMatchesEvaluations'
  BY <1>2, <1>5 DEF TablesInv, LedgerMatchesEvaluations
<1>15. a \in [tenant : Tenants, row : Log!Row]
  BY <1>10
<1>16. OneEntryPerRequest'
  BY <1>2, <1>10, <1>13, <1>15, OneMoreEntry
<1>17. IsTables(db)'
  <2>1. IsTables(db)
    BY <1>2 DEF TablesInv
  <2>2. db'.audit_log \in Seq([tenant : Tenants, row : Log!Row])
    BY <1>10, <1>15, <2>1, Appended DEF IsTables
  <2>3. QED
    BY <1>3, <1>5, <2>1, <2>2 DEF IsTables
<1>18. Grows
  BY <1>5, <1>11 DEF Grows, SameRow
<1>19. KeysAreUnique' /\ VersionsAreGapFree' /\ LatestIsCurrent'
  <2>1. \A s : Evaluations(s)' = Evaluations(s)
    BY <1>5 DEF Evaluations
  <2>2. KeysAreUnique'
    BY <1>2, <1>5, <1>6 DEF TablesInv, KeysAreUnique
  <2>3. QED
    BY <1>2, <1>5, <2>1, <2>2 DEF TablesInv, VersionsAreGapFree, LatestIsCurrent
<1>20. EvaluationsAreGrounded'
  BY <1>2, <1>5 DEF TablesInv, EvaluationsAreGrounded, SlotTaken
<1>21. ReviewsAreGrounded'
  BY <1>2, <1>3, <1>5, <1>8 DEF TablesInv, ReviewsAreGrounded, Flagged
<1>22. QED
  BY <1>11, <1>12, <1>13, <1>14, <1>16, <1>17, <1>18, <1>19, <1>20, <1>21 DEF TablesInv

(* The commit of an evaluation or a review keeps the invariant.             *)
LEMMA CommitRequestStep ==
    ASSUME DatabaseInv, NEW r \in Requests, CommitRequest(r)
    PROVE  DatabaseInv'
<1>1. req[r].pc = "commit" /\ Commit(r, Answer("ok")) /\ HoldsRecord(r)
  BY DEF CommitRequest, DatabaseInv, RequestInv
<1>2. /\ TablesInv' /\ Grows /\ Recorded(r)'
      /\ \A q \in Requests \ {r} : Recorded(q)' <=> Recorded(q)
  <2>1. CASE \E e : EvaluationStaged(r, e)
                    /\ Wrote(r, {e}, {}, {LedgerRow(r, TRUE)}, Entry(r), Replaced(e))
    BY <2>1, CommitEvaluation
  <2>2. CASE \E v : /\ ReviewStaged(r, v) /\ Wrote(r, {}, {v}, {}, Entry(r), {})
                    /\ staged[r].tables.responses = {}
    BY <2>2, CommitReview
  <2>3. QED
    BY <1>1, <2>1, <2>2 DEF HoldsRecord, Recording
<1>3. QED
  <2>1. "ok" \in Statuses
    BY DEF Statuses
  <2>2. QED
    BY <1>1, <1>2, <2>1, CommitStep

------------------------------------------------------------------------------
(* The inductive invariant                                                  *)

(* The invariant holds before any request: the tables are empty and no      *)
(* transaction is open.                                                     *)
LEMMA InitInv == Init => PipelineInv
<1> SUFFICES ASSUME Init PROVE PipelineInv
  OBVIOUS
<1>1. /\ DOMAIN req = Requests /\ DOMAIN staged = Requests
      /\ \A r \in Requests : req[r] = Idle /\ staged[r] = NoTransaction
      /\ db = EmptyTables
  BY DEF Init
<1>2. ServersTypeOK
  <2>1. setting \in Settings /\ setting.crashes \in Nat
    BY PipelineAssumption DEF Init, Setting
  <2>2. QED
    BY <2>1 DEF Init, ServersTypeOK
<1>3. /\ db.responses = {} /\ db.evaluations = {} /\ db.reviews = {} /\ db.llm_calls = {}
      /\ db.audit_log = NoEntry
  BY <1>1 DEF EmptyTables, NoEntry
<1>4. \A t : Chain(t) = NoEntry
  <2> TAKE t
  <2> DEFINE mine == { i \in DOMAIN NoEntry : NoEntry[i].tenant = t }
  <2>1. mine = {}
    BY NoEntryType
  <2>2. Cardinality(mine) = 0
    BY <2>1, FS_EmptySet
  <2>3. 1..0 = {}
    OBVIOUS
  <2>4. \A f : [k \in 1..Cardinality(mine) |-> f[k]] = NoEntry
    BY <2>2, <2>3 DEF NoEntry
  <2> DEFINE log == NoEntry
             before(i) == { j \in mine : \/ log[j].row.seq < log[i].row.seq
                                         \/ log[j].row.seq = log[i].row.seq /\ j < i }
             at(k)     == { i \in mine : Cardinality(before(i)) = k - 1 }
             f == [k \in 1..0 |-> log[CHOOSE i \in at(k) : TRUE].row]
  <2>5. ChainOf(NoEntry, t) = [k \in 1..Cardinality(mine) |-> log[CHOOSE i \in at(k) : TRUE].row]
    BY DEF ChainOf
  <2>6. ChainOf(NoEntry, t) = f
    BY <2>2, <2>5
  <2>7. f = NoEntry
    BY <2>3 DEF NoEntry
  <2>8. QED
    BY <1>3, <2>6, <2>7 DEF Chain
<1>5. \A r : ~Recorded(r)
  BY <1>3 DEF Recorded
<1>6. TablesInv
  <2>1. IsTables(db)
    BY <1>1, NoClaims DEF IsTransaction, NoTransaction
  <2>2. \A s : Evaluations(s) = {}
    BY <1>3 DEF Evaluations
  <2>3. Cardinality({}) = 0 /\ IsFiniteSet({}) /\ 1..0 = {}
    BY FS_EmptySet
  <2>4. KeysAreUnique /\ VersionsAreGapFree /\ LatestIsCurrent
    BY <1>3, <2>2, <2>3 DEF KeysAreUnique, VersionsAreGapFree, LatestIsCurrent
  <2>5. EvaluationsAreGrounded /\ ReviewsAreGrounded
    BY <1>3, <2>3 DEF EvaluationsAreGrounded, ReviewsAreGrounded
  <2>6. Len(NoEntry) = 0 /\ ToSet(NoEntry) = {} /\ DOMAIN NoEntry = {}
    BY NoEntryType DEF NoEntry, ToSet
  <2>7. RecordMatchesLog
    BY <1>3, <2>3, <2>6 DEF RecordMatchesLog
  <2>8. LedgerMatchesEvaluations
    BY <1>3 DEF LedgerMatchesEvaluations
  <2>9. ChainsAreGapFree /\ ChainsHoldTheLog
    <3>1. NoEntry \in Seq(Log!Row)
      <4> DEFINE S == Log!Row
      <4>1. <<>> \in Seq(S)
        OBVIOUS
      <4>2. QED
        BY <4>1 DEF NoEntry
    <3>2. 1..Len(NoEntry) = {}
      BY <2>3, <2>6
    <3>3. QED
      BY <1>3, <1>4, <2>6, <3>1, <3>2 DEF ChainsAreGapFree, ChainsHoldTheLog
  <2>10. OneEntryPerRequest
    <3>1. { r \in Requests : Recorded(r) } = {}
      BY <1>5
    <3>2. QED
      BY <1>3, <2>3, <2>6, <3>1 DEF OneEntryPerRequest
  <2>11. QED
    BY <2>1, <2>4, <2>5, <2>7, <2>8, <2>9, <2>10 DEF TablesInv
<1>7. KeysAreFree
  BY <1>1, NoClaims DEF KeysAreFree
<1>8. ASSUME NEW r \in Requests PROVE RequestInv(r)
  <2>1. req[r] = [pc |-> "idle"] /\ req[r].pc = "idle" /\ staged[r] = NoTransaction
    BY <1>1 DEF Idle
  <2>2. req[r] \in RequestType /\ IsTransaction(staged[r])
    BY <2>1, NoClaims DEF RequestType, Idle
  <2>3. /\ Closed(r) /\ Submitting(r) /\ Evaluating(r) /\ FailedCall(r)
        /\ Superseding(r) /\ Reviewing(r) /\ HoldsRecord(r) /\ TailIsARow(r)
    BY <2>1 DEF Closed, Submitting, Evaluating, FailedCall, Superseding, Reviewing,
       HoldsRecord, TailIsARow, Recording
  <2>4. Answering(r)
    BY <1>5, <2>1 DEF Answering
  <2>5. QED
    BY <2>2, <2>3, <2>4 DEF RequestInv
<1>9. QED
  BY <1>1, <1>2, <1>6, <1>7, <1>8 DEF PipelineInv

(* Every step keeps the invariant, one case per action.                     *)
LEMMA NextInv == PipelineInv /\ [Next]_vars => PipelineInv'
<1> SUFFICES ASSUME PipelineInv, [Next]_vars PROVE PipelineInv'
  OBVIOUS
<1>1. DatabaseInv /\ ServersTypeOK
  BY DEF PipelineInv, DatabaseInv
<1>2. ASSUME NEW r \in Requests, Arrive(r) PROVE PipelineInv'
  <2>1. PICK s \in setting.about[r] :
            StartSubmit(r, s) \/ StartReevaluate(r, s) \/ StartReview(r, s)
    BY <1>2 DEF Arrive
  <2>2. s \in Slots
    BY <1>1, PipelineAssumption DEF ServersTypeOK, Setting
  <2>3. DatabaseInv'
    BY <1>1, <2>1, <2>2, StartSubmitStep, StartReevaluateStep, StartReviewStep
  <2>4. ServersTypeOK'
    BY <1>1, <1>2, ArriveServes, ServedKeeps
  <2>5. QED
    BY <2>3, <2>4 DEF PipelineInv, DatabaseInv
<1>3. ASSUME NEW r \in Requests, Step(r) PROVE PipelineInv'
  <2>2. DatabaseInv'
    <3>1. CASE ResumeSubmit(r)
      BY <1>1, <3>1, ResumeSubmitStep
    <3>2. CASE InsertResponse(r)
      BY <1>1, <3>2, InsertResponseStep
    <3>3. CASE \E p \in LLMResults : ProviderAnswers(r, p)
      BY <1>1, <3>3, ProviderAnswersStep
    <3>4. CASE EvaluateRaises(r) \/ \E p \in LLMResults : RoutingRaises(r, p)
      BY <1>1, <3>4, RaisesStep
    <3>5. CASE ProviderFails(r)
      BY <1>1, <3>5, ProviderFailsStep
    <3>6. CASE RecordFailedCall(r)
      BY <1>1, <3>6, RecordFailedCallStep
    <3>7. CASE CommitFailedCall(r)
      BY <1>1, <3>7, CommitFailedCallStep
    <3>8. CASE SupersedeCurrent(r)
      BY <1>1, <3>8, SupersedeCurrentStep
    <3>9. CASE InsertEvaluation(r)
      BY <1>1, <3>9, InsertEvaluationStep
    <3>10. CASE \E h \in HumanVerdicts : InsertReview(r, h)
      BY <1>1, <3>10, InsertReviewStep
    <3>11. CASE ReadTail(r)
      BY <1>1, <3>11, ReadTailStep
    <3>12. CASE LockTail(r)
      BY <1>1, <3>12, LockTailStep
    <3>13. CASE AppendEntry(r)
      BY <1>1, <3>13, AppendEntryStep
    <3>14. CASE CommitRequest(r)
      BY <1>1, <3>14, CommitRequestStep
    <3>15. CASE CloseSession(r)
      BY <1>1, <3>15, CloseSessionStep
    <3>16. CASE Respond(r)
      BY <1>1, <3>16, RespondStep
    <3>17. CASE LockTimeout(r)
      BY <1>1, <3>17, LockTimeoutStep
    <3>18. QED
      BY <1>3, <3>1, <3>2, <3>3, <3>4, <3>5, <3>6, <3>7, <3>8, <3>9, <3>10, <3>11,
         <3>12, <3>13, <3>14, <3>15, <3>16, <3>17 DEF Step
  <2>3. ServersTypeOK'
    BY <1>1, <1>3, StepServes, ServedKeeps
  <2>4. QED
    BY <2>2, <2>3 DEF PipelineInv, DatabaseInv
<1>4. ASSUME NEW w \in Workers, Crash(w) PROVE PipelineInv'
  BY <1>1, <1>4, CrashStep, CrashServers DEF PipelineInv, DatabaseInv
<1>5. CASE UNCHANGED vars
  <2>1. DatabaseInv'
    BY <1>1, <1>5, StutterStep
  <2>2. ServersTypeOK'
    BY <1>1, <1>5 DEF ServersTypeOK, vars
  <2>3. QED
    BY <2>1, <2>2 DEF PipelineInv, DatabaseInv
<1>6. QED
  BY <1>2, <1>3, <1>4, <1>5 DEF Next, Hang, Quiescent

(* The inductive invariant of the pipeline holds in every reachable state,  *)
(* whatever the tenants, the slots, the requests and the workers: the       *)
(* committed tables are consistent with each other and with the chains, the *)
(* keys taken by open transactions are free, and what each handler has read *)
(* and staged is still good for what it is going to commit.                 *)
THEOREM PipelineInvariantHolds == Spec => []PipelineInv
<1>1. QED
  BY InitInv, NextInv, PTL DEF Spec

------------------------------------------------------------------------------
(* The safety invariants, and the history of the tables                     *)

(* Every variable keeps its type: each stage of a handler carries the       *)
(* locals the code has there, and every row of the tables is one the schema *)
(* of src/app/models.py admits.                                             *)
THEOREM TypeCorrect == Spec => []PipelineTypeOK
<1>1. PipelineInv => PipelineTypeOK
  <2> SUFFICES ASSUME PipelineInv PROVE PipelineTypeOK
    OBVIOUS
  <2>1. ASSUME NEW r \in Requests
        PROVE  /\ IsTransaction(staged[r]) /\ req[r].pc \in Stages
               /\ req[r].pc = "done" => req[r].status \in Statuses
    <3>1. req[r] \in RequestType /\ IsTransaction(staged[r])
      BY DEF PipelineInv, RequestInv
    <3>2. QED
      BY <3>1, Shape DEF Answered
  <2>2. QED
    BY <2>1 DEF PipelineInv, PipelineTypeOK, IsTransaction, ServersTypeOK, TablesInv
<1>2. QED
  BY <1>1, PipelineInvariantHolds, PTL

(* EvaluationService supersedes the evaluation it read before the model     *)
(* call and numbers the new one after it; two re-evaluations may read the   *)
(* same one. Whatever the interleaving, the versions of a response are gap- *)
(* free and the last one, and no other, is current.                         *)
THEOREM CurrentVersion == Spec => []CurrentIsLatestVersion
<1>1. PipelineInv => CurrentIsLatestVersion
  <2> SUFFICES ASSUME PipelineInv, NEW s \in Slots, NEW rows, rows = Evaluations(s),
                      NEW current, current = { e \in rows : e.is_current }
               PROVE  /\ { e.version : e \in rows } = 1..Cardinality(rows)
                      /\ current = Latest(rows)
                      /\ Cardinality(current) <= 1
    BY DEF CurrentIsLatestVersion
  <2>1. { e.version : e \in rows } = 1..Cardinality(rows)
    BY DEF PipelineInv, TablesInv, VersionsAreGapFree
  <2>2. current = Latest(rows)
    BY DEF PipelineInv, TablesInv, LatestIsCurrent, Latest, Evaluations
  <2>3. \A e, f \in current : e = f
    <3> SUFFICES ASSUME NEW e \in current, NEW f \in current PROVE e = f
      OBVIOUS
    <3>1. e \in db.evaluations /\ f \in db.evaluations /\ e.slot = f.slot
      BY DEF Evaluations
    <3>2. e.version \in Nat /\ f.version \in Nat
      BY <3>1 DEF PipelineInv, TablesInv, IsTables, EvaluationRow, Versions
    <3>3. e.version <= f.version /\ f.version <= e.version
      BY <2>2 DEF Latest
    <3>4. Key(e) = Key(f)
      BY <3>1, <3>2, <3>3 DEF Key
    <3>5. QED
      BY <3>1, <3>4 DEF PipelineInv, TablesInv, KeysAreUnique
  <2>4. Cardinality(current) <= 1
    <3>1. CASE current = {}
      BY <3>1, FS_EmptySet
    <3>2. CASE current # {}
      <4>1. PICK e : current = {e}
        BY <2>3, <3>2
      <4>2. Cardinality(current) = 1
        BY <4>1, FS_Singleton, Zenon
      <4>3. QED
        BY <4>2
    <3>3. QED
      BY <3>1, <3>2
  <2>5. QED
    BY <2>1, <2>2, <2>4
<1>2. QED
  BY <1>1, PipelineInvariantHolds, PTL

(* AuditService.append runs in the transaction of what it is about: every   *)
(* committed evaluation and review has its entry in its tenant's chain, and *)
(* every entry its row.                                                     *)
THEOREM LogIsTheRecord == Spec => []RecordMatchesLog
<1>1. PipelineInv => RecordMatchesLog
  BY DEF PipelineInv, TablesInv
<1>2. QED
  BY <1>1, PipelineInvariantHolds, PTL

(* Every committed evaluation has the ledger row of the call that produced  *)
(* it, and every row of a successful call its evaluation: the two commit    *)
(* and roll back together.                                                  *)
THEOREM LedgerIsComplete == Spec => []LedgerMatchesEvaluations
<1>1. PipelineInv => LedgerMatchesEvaluations
  BY DEF PipelineInv, TablesInv
<1>2. QED
  BY <1>1, PipelineInvariantHolds, PTL

(* A client that is told ok finds its request on the record, and one that   *)
(* is told of a failure does not, whichever statement failed and whatever   *)
(* others did in between.                                                   *)
THEOREM AnswersAreTrue == Spec => []AnswerMatchesRecord
<1>1. PipelineInv => AnswerMatchesRecord
  BY DEF PipelineInv, RequestInv, Answering, AnswerMatchesRecord, Recorded
<1>2. QED
  BY <1>1, PipelineInvariantHolds, PTL

(* ReviewService looks at the verdict first and inserts afterwards: a       *)
(* committed review is of a version that was flagged, and no version has    *)
(* two of them.                                                             *)
THEOREM OneReviewOfFlagged == Spec => []ReviewsOnlyFlagged
<1>1. PipelineInv => ReviewsOnlyFlagged
  <2> SUFFICES ASSUME PipelineInv, NEW v \in db.reviews
               PROVE  /\ \E e \in db.evaluations :
                            Key(e) = Key(v) /\ can_be_human_reviewed(e.verdict)
                      /\ ReviewsOf(v) = {v}
    BY DEF ReviewsOnlyFlagged
  <2>1. Flagged(v.slot, v.version)
    BY DEF PipelineInv, TablesInv, ReviewsAreGrounded
  <2>2. \E e \in db.evaluations : Key(e) = Key(v) /\ can_be_human_reviewed(e.verdict)
    BY <2>1 DEF Flagged, Key
  <2>3. ReviewsOf(v) = {v}
    BY DEF PipelineInv, TablesInv, KeysAreUnique, ReviewsOf
  <2>4. QED
    BY <2>2, <2>3
<1>2. QED
  BY <1>1, PipelineInvariantHolds, PTL

(* Only the two commits write to the tables.                               *)
LEMMA OnlyCommitsWrite ==
    ASSUME [Next]_vars
    PROVE  \/ db' = db
           \/ \E r \in Requests : CommitFailedCall(r) \/ CommitRequest(r)
<1>1. ASSUME NEW r \in Requests, Arrive(r) PROVE db' = db
  BY <1>1 DEF Arrive, StartSubmit, StartReevaluate, StartReview
<1>2. ASSUME NEW r \in Requests, Step(r)
      PROVE  db' = db \/ CommitFailedCall(r) \/ CommitRequest(r)
  <2>1. CASE ResumeSubmit(r) \/ InsertResponse(r) \/ RecordFailedCall(r)
             \/ SupersedeCurrent(r) \/ ProviderFails(r) \/ EvaluateRaises(r)
             \/ \E p \in LLMResults : ProviderAnswers(r, p) \/ RoutingRaises(r, p)
    BY <2>1 DEF ResumeSubmit, InsertResponse, RecordFailedCall, SupersedeCurrent,
       ProviderFails, EvaluateRaises, ProviderAnswers, RoutingRaises, Rollback, Raise
  <2>2. CASE InsertEvaluation(r) \/ (\E h \in HumanVerdicts : InsertReview(r, h))
             \/ ReadTail(r) \/ LockTail(r) \/ AppendEntry(r)
             \/ CloseSession(r) \/ Respond(r) \/ LockTimeout(r)
    BY <2>2 DEF InsertEvaluation, InsertReview, ReadTail, LockTail, AppendEntry,
       CloseSession, Respond, LockTimeout, Rollback, Raise
  <2>3. QED
    BY <1>2, <2>1, <2>2 DEF Step
<1>3. ASSUME NEW w \in Workers, Crash(w) PROVE db' = db
  BY <1>3 DEF Crash
<1>4. QED
  BY <1>1, <1>2, <1>3 DEF Next, Hang, Quiescent, vars

(* A log is a prefix of what it becomes by concatenation.                   *)
LEMMA LogIsPrefix ==
    ASSUME NEW S, NEW s \in Seq(S), NEW t \in Seq(S)
    PROVE  IsPrefix(s, s \o t)
  BY DEF IsPrefix

(* No step of any handler, and no crash, changes or removes a committed     *)
(* row: the log grows at its end, responses and reviews and ledger rows     *)
(* stay, and of an evaluation nothing but is_current ever changes.          *)
THEOREM NothingIsRewritten == Spec => HistoryIsImmutable
<1> DEFINE Kept == /\ db.responses \subseteq db'.responses
                   /\ db.reviews \subseteq db'.reviews
                   /\ db.llm_calls \subseteq db'.llm_calls
                   /\ IsPrefix(db.audit_log, db'.audit_log)
                   /\ \A e \in db.evaluations :
                         \/ e \in db'.evaluations
                         \/ e.is_current /\ [e EXCEPT !.is_current = FALSE] \in db'.evaluations
<1>1. PipelineInv /\ [Next]_vars => [Kept]_vars
  <2> SUFFICES ASSUME PipelineInv, [Next]_vars PROVE Kept
    OBVIOUS
  <2> DEFINE S == [tenant : Tenants, row : Log!Row]
  <2>1. DatabaseInv /\ db.audit_log \in Seq(S) /\ db.evaluations \subseteq EvaluationRow
    BY DEF PipelineInv, DatabaseInv, TablesInv, IsTables
  <2>2. CASE db' = db
    <3>1. IsPrefix(db.audit_log, db.audit_log)
      <4> HIDE DEF S
      <4>1. QED
        BY <2>1 DEF IsPrefix
    <3>2. QED
      BY <2>2, <3>1
  <2>3. CASE \E r \in Requests : CommitFailedCall(r) \/ CommitRequest(r)
    <3>1. PICK r \in Requests, status \in {"ok", "500 ProviderError"} : Commit(r, Answer(status))
      BY <2>3 DEF CommitFailedCall, CommitRequest
    <3> DEFINE x == staged[r].tables
    <3>2. /\ db'.responses = db.responses \cup x.responses
          /\ db'.evaluations = Supersede(db.evaluations, staged[r].superseded) \cup x.evaluations
          /\ db'.reviews = db.reviews \cup x.reviews
          /\ db'.llm_calls = db.llm_calls \cup x.llm_calls
          /\ db'.audit_log = db.audit_log \o x.audit_log
      BY <2>1, <3>1, CommitParts
    <3>3. IsPrefix(db.audit_log, db'.audit_log)
      <4>1. x.audit_log \in Seq(S)
        BY DEF PipelineInv, RequestInv, IsTransaction, IsTables
      <4> HIDE DEF S, x
      <4>2. IsPrefix(db.audit_log, db.audit_log \o x.audit_log)
        BY <2>1, <4>1, LogIsPrefix
      <4>3. QED
        BY <3>2, <4>2
    <3>4. ASSUME NEW e \in db.evaluations
          PROVE  \/ e \in db'.evaluations
                 \/ e.is_current /\ [e EXCEPT !.is_current = FALSE] \in db'.evaluations
      <4>1. CASE Key(e) \in staged[r].superseded
        <5>1. [e EXCEPT !.is_current = FALSE] \in db'.evaluations
          BY <3>2, <4>1 DEF Supersede
        <5>2. ~e.is_current => [e EXCEPT !.is_current = FALSE] = e
          BY <2>1 DEF EvaluationRow
        <5>3. QED
          BY <5>1, <5>2
      <4>2. CASE Key(e) \notin staged[r].superseded
        BY <3>2, <4>2 DEF Supersede
      <4>3. QED
        BY <4>1, <4>2
    <3>5. QED
      BY <3>2, <3>3, <3>4
  <2>4. QED
    BY <2>2, <2>3, OnlyCommitsWrite
<1>2. QED
  BY <1>1, PipelineInvariantHolds, PTL DEF Spec, HistoryIsImmutable

(* A response that has an evaluation keeps it, and a commit of a request    *)
(* that gives it its first one has written that very slot.                  *)
LEMMA CommitKeepsEvaluated ==
    ASSUME DatabaseInv, NEW r \in Requests, NEW status, Commit(r, Answer(status)),
           NEW s, Evaluations(s) # {}
    PROVE  Evaluations(s)' # {}
<1>1. PICK e \in db.evaluations : e.slot = s
  BY DEF Evaluations
<1>2. e \in EvaluationRow
  BY DEF DatabaseInv, TablesInv, IsTables
<1>3. db'.evaluations = Supersede(db.evaluations, staged[r].superseded) \cup staged[r].tables.evaluations
  BY CommitParts
<1>4. e \in db'.evaluations \/ [e EXCEPT !.is_current = FALSE] \in db'.evaluations
  BY <1>1, <1>3 DEF Supersede
<1>5. [e EXCEPT !.is_current = FALSE].slot = s
  BY <1>1, <1>2 DEF EvaluationRow
<1>6. QED
  BY <1>1, <1>4, <1>5 DEF Evaluations

(* models.py:313: the only way to a response without an evaluation is a     *)
(* submit whose provider call failed, and the ledger says so: the commit of *)
(* the ProviderError path writes both rows, and every other commit that     *)
(* writes a response writes its evaluation.                                 *)
THEOREM MissingVerdictsAreLogged == Spec => []MissingVerdictIsLogged
<1>1. Init => MissingVerdictIsLogged
  BY DEF Init, MissingVerdictIsLogged, EmptyTables
<1>2. PipelineInv /\ MissingVerdictIsLogged /\ [Next]_vars => MissingVerdictIsLogged'
  <2> SUFFICES ASSUME PipelineInv, MissingVerdictIsLogged, [Next]_vars,
                      NEW row \in db'.responses
               PROVE  Evaluations(row.slot)' # {} \/ LedgerRow(row.by, FALSE) \in db'.llm_calls
    BY DEF MissingVerdictIsLogged
  <2>1. DatabaseInv
    BY DEF PipelineInv, DatabaseInv
  <2>2. CASE db' = db
    BY <2>2 DEF MissingVerdictIsLogged, Evaluations
  <2>3. CASE \E r \in Requests : CommitFailedCall(r)
    <3>1. PICK r \in Requests : CommitFailedCall(r)
      BY <2>3
    <3>2. /\ db'.responses = db.responses \cup staged[r].tables.responses
          /\ db'.evaluations = db.evaluations
          /\ db'.llm_calls = db.llm_calls \cup {LedgerRow(r, FALSE)}
      BY <2>1, <3>1, FailedCallTables
    <3>3. CASE row \in db.responses
      BY <3>2, <3>3 DEF MissingVerdictIsLogged, Evaluations
    <3>4. CASE row \in staged[r].tables.responses
      <4>1. Opened(r)
        BY <3>1 DEF PipelineInv, RequestInv, FailedCall, CommitFailedCall
      <4>2. row.by = r
        BY <3>4, <4>1 DEF Opened
      <4>3. QED
        BY <3>2, <4>2
    <3>5. QED
      BY <3>2, <3>3, <3>4
  <2>4. CASE \E r \in Requests : CommitRequest(r)
    <3>1. PICK r \in Requests : CommitRequest(r)
      BY <2>4
    <3>2. req[r].pc = "commit" /\ Commit(r, Answer("ok"))
      BY <3>1 DEF CommitRequest
    <3>3. /\ db'.responses = db.responses \cup staged[r].tables.responses
          /\ db'.evaluations = Supersede(db.evaluations, staged[r].superseded) \cup staged[r].tables.evaluations
          /\ db'.llm_calls = db.llm_calls \cup staged[r].tables.llm_calls
      BY <2>1, <3>2, CommitParts
    <3>4. CASE row \in db.responses
      <4>1. CASE Evaluations(row.slot) # {}
        BY <2>1, <3>2, <4>1, CommitKeepsEvaluated
      <4>2. CASE LedgerRow(row.by, FALSE) \in db.llm_calls
        BY <3>3, <4>2
      <4>3. QED
        BY <3>4, <4>1, <4>2 DEF MissingVerdictIsLogged
    <3>5. CASE row \in staged[r].tables.responses
      <4>1. PICK e \in staged[r].tables.evaluations : EvaluationStaged(r, e)
        BY <3>2, <3>5 DEF PipelineInv, RequestInv, HoldsRecord, Recording
      <4>2. row.slot = req[r].slot /\ e.slot = req[r].slot
        BY <3>5, <4>1 DEF EvaluationStaged, Opened
      <4>3. e \in db'.evaluations
        BY <3>3
      <4>4. QED
        BY <4>2, <4>3 DEF Evaluations
    <3>6. QED
      BY <3>3, <3>4, <3>5
  <2>5. QED
    BY <2>2, <2>3, <2>4, OnlyCommitsWrite
<1>3. QED
  BY <1>1, <1>2, PipelineInvariantHolds, PTL DEF Spec

------------------------------------------------------------------------------
(* Outcomes                                                                 *)

(* The row a commit appends is not in the log yet.                         *)
LEMMA EntryIsNew ==
    ASSUME TablesInv, NEW T, NEW entry, NEW a, a = [tenant |-> T, row |-> entry],
           T \in Tenants, entry.seq = Len(Chain(T)) + 1
    PROVE  a \notin ToSet(db.audit_log)
<1> SUFFICES ASSUME a \in ToSet(db.audit_log) PROVE FALSE
  OBVIOUS
<1>1. PICK i \in DOMAIN db.audit_log : db.audit_log[i] = a
  BY DEF ToSet
<1>2. a.tenant = T /\ a.row = entry
  OBVIOUS
<1>3. PICK k \in 1..Len(Chain(T)) : Chain(T)[k] = entry
  BY <1>1, <1>2 DEF TablesInv, ChainsHoldTheLog
<1>4. Chain(T)[k].seq = k /\ Len(Chain(T)) \in Nat
  BY DEF TablesInv, ChainsAreGapFree
<1>5. QED
  BY <1>3, <1>4

(* The entry of a commit is about the response of its request.              *)
LEMMA RecordedSubject ==
    ASSUME DatabaseInv, NEW r \in Requests, CommitRequest(r)
    PROVE  req[r].content.subject[1] = req[r].slot
<1>1. req[r].pc = "commit" /\ HoldsRecord(r)
  BY DEF CommitRequest, DatabaseInv, RequestInv
<1>2. \/ \E e : req[r].content = EvaluationContent(e) /\ e.slot = req[r].slot
      \/ \E v : req[r].content = ReviewContent(v) /\ v.slot = req[r].slot
  BY <1>1 DEF HoldsRecord, Recording, EvaluationStaged, ReviewStaged
<1>3. \A e : EvaluationContent(e).subject[1] = e.slot
  BY DEF EvaluationContent, Key
<1>4. \A v : ReviewContent(v).subject[1] = v.slot
  BY DEF ReviewContent, Key
<1>5. QED
  BY <1>2, <1>3, <1>4

(* A commit is about one response, and leaves the outcome of the others.   *)
LEMMA OtherOutcomesKeep ==
    ASSUME DatabaseInv, NEW r \in Requests, CommitRequest(r),
           NEW s, s # req[r].slot
    PROVE  Outcome(s)' = Outcome(s)
<1>1. req[r].pc = "commit" /\ Commit(r, Answer("ok")) /\ HoldsRecord(r)
  BY DEF CommitRequest, DatabaseInv, RequestInv
<1>2. /\ db'.evaluations = Supersede(db.evaluations, staged[r].superseded) \cup staged[r].tables.evaluations
      /\ db'.reviews = db.reviews \cup staged[r].tables.reviews
  BY <1>1, CommitParts
<1>3. /\ \A e \in staged[r].tables.evaluations : e.slot # s
      /\ \A v \in staged[r].tables.reviews : v.slot # s
      /\ \A e \in Evaluations(s) : Key(e) \notin staged[r].superseded
  <2>1. CASE \E e : EvaluationStaged(r, e)
                    /\ Wrote(r, {e}, {}, {LedgerRow(r, TRUE)}, Entry(r), Replaced(e))
    <3>1. PICK e : EvaluationStaged(r, e)
                   /\ Wrote(r, {e}, {}, {LedgerRow(r, TRUE)}, Entry(r), Replaced(e))
      BY <2>1
    <3> DEFINE L == {LedgerRow(r, TRUE)}
               R == staged[r].tables.responses
    <3>2. staged[r] = Txn(R, {e}, {}, L, Entry(r), Replaced(e), staged[r].tail_lock)
      BY <3>1 DEF Wrote
    <3> HIDE DEF L, R
    <3>3. /\ staged[r].tables.evaluations = {e} /\ staged[r].tables.reviews = {}
          /\ staged[r].superseded = Replaced(e)
      BY <3>2, TxnParts
    <3>4. e.slot = req[r].slot
      BY <3>1 DEF EvaluationStaged
    <3>5. \A f \in Evaluations(s) : Key(f) \notin Replaced(e)
      BY <3>4 DEF Evaluations, Key, Replaced
    <3>6. QED
      BY <3>3, <3>4, <3>5
  <2>2. CASE \E v : ReviewStaged(r, v) /\ Wrote(r, {}, {v}, {}, Entry(r), {})
    <3>1. PICK v : ReviewStaged(r, v) /\ Wrote(r, {}, {v}, {}, Entry(r), {})
      BY <2>2
    <3> DEFINE R == staged[r].tables.responses
    <3>2. staged[r] = Txn(R, {}, {v}, {}, Entry(r), {}, staged[r].tail_lock)
      BY <3>1 DEF Wrote
    <3> HIDE DEF R
    <3>3. /\ staged[r].tables.evaluations = {} /\ staged[r].tables.reviews = {v}
          /\ staged[r].superseded = {}
      BY <3>2, TxnParts
    <3>4. v.slot = req[r].slot
      BY <3>1 DEF ReviewStaged
    <3>5. QED
      BY <3>3, <3>4
  <2>3. QED
    BY <1>1, <2>1, <2>2 DEF HoldsRecord, Recording
<1>4. Evaluations(s)' = Evaluations(s)
  <2>1. db.evaluations \in SUBSET EvaluationRow
    BY DEF DatabaseInv, TablesInv, IsTables
  <2>2. \A e \in db.evaluations : [e EXCEPT !.is_current = FALSE].slot = e.slot
    BY <2>1 DEF EvaluationRow
  <2> DEFINE keys == staged[r].superseded
             kept == Supersede(db.evaluations, keys)
  <2>3. \A e \in kept : e.slot = s => e \in db.evaluations
    <3> SUFFICES ASSUME NEW e \in kept, e.slot = s PROVE e \in db.evaluations
      OBVIOUS
    <3>1. PICK f \in db.evaluations :
              e = IF Key(f) \in keys THEN [f EXCEPT !.is_current = FALSE] ELSE f
      BY DEF Supersede
    <3>2. f.slot = s
      BY <2>2, <3>1
    <3>3. Key(f) \notin keys
      BY <1>3, <3>2 DEF Evaluations
    <3>4. QED
      BY <3>1, <3>3
  <2>4. \A e \in db.evaluations : e.slot = s => e \in kept
    <3> SUFFICES ASSUME NEW e \in db.evaluations, e.slot = s PROVE e \in kept
      OBVIOUS
    <3>1. Key(e) \notin keys
      BY <1>3 DEF Evaluations
    <3>2. QED
      BY <3>1 DEF Supersede
  <2> HIDE DEF keys
  <2>5. QED
    BY <1>2, <1>3, <2>3, <2>4 DEF Evaluations, keys
<1>5. \A e \in Evaluations(s) : ReviewsOf(e)' = ReviewsOf(e)
  <2> SUFFICES ASSUME NEW e \in Evaluations(s)
               PROVE  { v \in db'.reviews : Key(v) = Key(e) } = ReviewsOf(e)
    BY DEF ReviewsOf
  <2>1. e.slot = s
    BY DEF Evaluations
  <2>2. \A v \in staged[r].tables.reviews : Key(v) # Key(e)
    BY <1>3, <2>1 DEF Key
  <2>3. QED
    BY <1>2, <2>2 DEF ReviewsOf
<1>6. QED
  BY <1>4, <1>5 DEF Outcome

(* The final verdict of a response, which the endpoints derive from the     *)
(* current evaluation and its review, changes only in a step that appends   *)
(* an entry about this response to the log.                                 *)
THEOREM OutcomesAreExplained == Spec => OutcomeChangesAreAudited
<1> DEFINE Explained ==
            \A s \in Slots :
                Outcome(s)' # Outcome(s) =>
                    \E a \in ToSet(db'.audit_log) \ ToSet(db.audit_log) :
                        a.row.content.subject[1] = s
<1>1. PipelineInv /\ [Next]_vars => [Explained]_vars
  <2> SUFFICES ASSUME PipelineInv, [Next]_vars,
                      NEW s \in Slots, Outcome(s)' # Outcome(s)
               PROVE  \E a \in ToSet(db'.audit_log) \ ToSet(db.audit_log) :
                          a.row.content.subject[1] = s
    OBVIOUS
  <2>1. DatabaseInv
    BY DEF PipelineInv, DatabaseInv
  <2>2. CASE db'.evaluations = db.evaluations /\ db'.reviews = db.reviews
    BY <2>2 DEF Outcome, Evaluations, ReviewsOf
  <2>3. CASE \E r \in Requests : CommitFailedCall(r)
    <3>1. PICK r \in Requests : CommitFailedCall(r)
      BY <2>3
    <3>2. db'.evaluations = db.evaluations /\ db'.reviews = db.reviews
      BY <2>1, <3>1, FailedCallTables
    <3>3. QED
      BY <2>2, <3>2
  <2>4. CASE \E r \in Requests : CommitRequest(r)
    <3>1. PICK r \in Requests : CommitRequest(r)
      BY <2>4
    <3>2. s = req[r].slot
      BY <2>1, <3>1, OtherOutcomesKeep
    <3>3. req[r].content.subject[1] = req[r].slot
      BY <2>1, <3>1, RecordedSubject
    <3>4. PICK T \in Tenants, entry \in Log!Row, a \in [tenant : Tenants, row : Log!Row] :
              /\ a = [tenant |-> T, row |-> entry]
              /\ entry.content = req[r].content
              /\ db'.audit_log = Append(db.audit_log, a)
              /\ entry.seq = Len(Chain(T)) + 1
      BY <2>1, <3>1, <3>3, CommitEntry
    <3>5. a \notin ToSet(db.audit_log)
      BY <2>1, <3>4, EntryIsNew DEF DatabaseInv
    <3>6. a \in ToSet(db'.audit_log)
      <4> DEFINE S == [tenant : Tenants, row : Log!Row]
                 log == db.audit_log
      <4>1. log \in Seq(S) /\ a \in S /\ db'.audit_log = Append(log, a)
        BY <2>1, <3>4 DEF DatabaseInv, TablesInv, IsTables
      <4> HIDE DEF S, log
      <4>2. /\ DOMAIN Append(log, a) = 1..(Len(log) + 1) /\ Len(log) \in Nat
            /\ Append(log, a)[Len(log) + 1] = a
        BY <4>1, Appended, SeqElements
      <4>3. QED
        BY <4>1, <4>2 DEF ToSet
    <3>7. a.row.content.subject[1] = s
      BY <3>2, <3>3, <3>4
    <3>8. QED
      BY <3>5, <3>6, <3>7
  <2>5. QED
    BY <2>2, <2>3, <2>4, OnlyCommitsWrite
<1>2. QED
  BY <1>1, PipelineInvariantHolds, PTL DEF Spec, OutcomeChangesAreAudited

------------------------------------------------------------------------------
(* Refinement of the audit log                                              *)

(* No chain is longer than the log it is a part of.                        *)
LEMMA ChainFits ==
    ASSUME TablesInv, NEW t
    PROVE  Len(Chain(t)) \in Nat /\ Len(Chain(t)) <= Len(db.audit_log)
<1> DEFINE S == [tenant : Tenants, row : Log!Row]
           log == db.audit_log
           mine == { i \in DOMAIN log : log[i].tenant = t }
           n == Cardinality(mine)
<1>1. log \in Seq(S)
  BY DEF TablesInv, IsTables
<1> HIDE DEF S
<1>2. DOMAIN log = 1..Len(log) /\ Len(log) \in Nat
  BY <1>1, SeqElements
<1>3. IsFiniteSet(1..Len(log)) /\ Cardinality(1..Len(log)) = Len(log)
  BY <1>2, IntervalFrom1
<1>4. mine \in SUBSET (1..Len(log))
  BY <1>2
<1>5. n \in Nat /\ n <= Len(log)
  <2> HIDE DEF mine
  <2>1. QED
    BY <1>3, <1>4, FS_Subset, FS_CardinalityType
<1> DEFINE of(l)        == { i \in DOMAIN l : l[i].tenant = t }
           before(l, i) == { j \in of(l) : \/ l[j].row.seq < l[i].row.seq
                                           \/ l[j].row.seq = l[i].row.seq /\ j < i }
           at(l, k)     == { i \in of(l) : Cardinality(before(l, i)) = k - 1 }
           pick(R)      == CHOOSE i \in R : TRUE
           row(k)       == log[pick(at(log, k))].row
<1>6. Chain(t) = [k \in 1..n |-> row(k)]
  <2>1. \A l : ChainOf(l, t) = [k \in 1..Cardinality(of(l)) |-> l[pick(at(l, k))].row]
    BY DEF ChainOf
  <2>2. of(log) = mine
    OBVIOUS
  <2> HIDE DEF of, at, pick, mine, log
  <2>3. ChainOf(log, t) = [k \in 1..n |-> row(k)]
    BY <2>1, <2>2
  <2>4. QED
    BY <2>3 DEF Chain, log
<1> HIDE DEF row, n
<1>7. Len([k \in 1..n |-> row(k)]) = n
  BY <1>5
<1>8. QED
  BY <1>5, <1>6, <1>7

(* UNIQUE(entry_hash) holds across tenants: equal digests are digests of   *)
(* the same content at the same position, and what an entry is about tells *)
(* whose chain it is in.                                                   *)
LEMMA DigestIsNew ==
    ASSUME TablesInv, NEW T \in Tenants, NEW entry \in Log!Row,
           entry.seq = Len(Chain(T)) + 1,
           T = owner(entry.content.subject[1]),
           entry.entry_hash =
               Log!compute_entry_hash(entry.prev_hash, entry.seq, entry.content),
           NEW u \in Tenants, NEW i \in 1..Len(Chain(u))
    PROVE  Chain(u)[i].entry_hash # entry.entry_hash
<1> SUFFICES ASSUME NEW b, b = Chain(u)[i], b.entry_hash = entry.entry_hash
             PROVE  FALSE
  OBVIOUS
<1>1. /\ Chain(u) \in Seq(Log!Row) /\ b \in Log!Row /\ b.seq = i
      /\ Len(Chain(T)) \in Nat
  <2>1. Chain(u) \in Seq(Log!Row)
    BY DEF TablesInv, ChainsAreGapFree
  <2>2. QED
    BY <2>1, ChainFits DEF TablesInv, ChainsAreGapFree
<1>2. PICK j \in DOMAIN db.audit_log :
          db.audit_log[j].tenant = u /\ db.audit_log[j].row = b
  BY DEF TablesInv, ChainsHoldTheLog
<1>3. /\ u = owner(b.content.subject[1])
      /\ b.entry_hash = Log!compute_entry_hash(b.prev_hash, b.seq, b.content)
  BY <1>2 DEF TablesInv, ChainsHoldTheLog
<1>4. b.seq = entry.seq /\ b.content = entry.content
  <2> DEFINE p == b.prev_hash
             q == entry.prev_hash
             d == <<Log!CHAIN_VERSION, b.seq, b.content>>
             f == <<Log!CHAIN_VERSION, entry.seq, entry.content>>
  <2>1. p \in Seq(Log!Envelope) /\ q \in Seq(Log!Envelope)
    BY <1>1 DEF Log!Row, Log!Digest
  <2>2. Append(p, d) = Append(q, f)
    BY <1>3 DEF Log!compute_entry_hash
  <2>3. d = f
    <3> HIDE DEF p, q, d, f
    <3>1. /\ Len(Append(p, d)) = Len(p) + 1 /\ Len(Append(q, f)) = Len(q) + 1
          /\ Append(p, d)[Len(p) + 1] = d /\ Append(q, f)[Len(q) + 1] = f
          /\ Len(p) \in Nat /\ Len(q) \in Nat
      BY <2>1
    <3>2. Len(p) = Len(q)
      BY <2>2, <3>1
    <3>3. QED
      BY <2>2, <3>1, <3>2
  <2>4. QED
    BY <2>3
<1>5. u = T
  BY <1>3, <1>4
<1>6. i = Len(Chain(T)) + 1 /\ i \in 1..Len(Chain(T))
  BY <1>1, <1>4, <1>5
<1>7. QED
  BY <1>1, <1>6

(* There is room for the entry of a request that is not on the record yet. *)
LEMMA RoomInChain ==
    ASSUME TablesInv, NEW r \in Requests, ~Recorded(r), NEW t
    PROVE  Len(Chain(t)) < Cardinality(Requests)
<1> DEFINE S == { q \in Requests : Recorded(q) }
<1>1. Len(Chain(t)) \in Nat /\ Len(Chain(t)) <= Cardinality(S)
  BY ChainFits DEF TablesInv, OneEntryPerRequest
<1>2. S \in SUBSET (Requests \ {r})
  OBVIOUS
<1> HIDE DEF S
<1>3. /\ IsFiniteSet(Requests \ {r})
      /\ Cardinality(Requests \ {r}) = Cardinality(Requests) - 1
      /\ Cardinality(Requests) \in Nat
  BY PipelineAssumption, FS_RemoveElement, FS_CardinalityType
<1>4. IsFiniteSet(S) /\ Cardinality(S) <= Cardinality(Requests \ {r})
  BY <1>2, <1>3, FS_Subset
<1>5. Cardinality(S) \in Nat
  BY <1>4, FS_CardinalityType
<1>6. QED
  BY <1>1, <1>3, <1>4, <1>5

(* Every commit of an evaluation or a review is one step of the abstract    *)
(* audit log: its entry goes to the end of one chain, with the next number, *)
(* the digest before it and a digest no row of any tenant has.              *)
LEMMA CommitIsRecord ==
    ASSUME DatabaseInv, NEW r \in Requests, CommitRequest(r)
    PROVE  Log!Next
<1> DEFINE chains == [t \in Tenants |-> Chain(t)]
           c == req[r].content
           x == InterviewOf[req[r].slot]
<1>1. /\ TablesInv /\ ~Recorded(r) /\ req[r].pc = "commit"
  BY DEF DatabaseInv, RequestInv, Answering, CommitRequest
<1>2. req[r].content.subject[1] = req[r].slot
  BY RecordedSubject
<1>3. PICK T \in Tenants, entry \in Log!Row, a \in [tenant : Tenants, row : Log!Row] :
           /\ T = owner(req[r].slot) /\ a = [tenant |-> T, row |-> entry]
           /\ entry = Log!NewEntry(Chain(T), c, x)
           /\ db'.audit_log = Append(db.audit_log, a)
           /\ entry.seq = Len(Chain(T)) + 1
           /\ T = owner(entry.content.subject[1])
           /\ entry.entry_hash =
                  Log!compute_entry_hash(entry.prev_hash, entry.seq, entry.content)
  BY <1>2, CommitEntry
<1>4. c \in AuditContent /\ x \in Interviews
  <2>1. req[r].slot \in Slots /\ c \in AuditContent
    BY <1>1, AtRecording DEF Recording
  <2>2. QED
    BY <2>1, PipelineAssumption
<1>5. /\ Chain(T)' = Append(Chain(T), entry)
      /\ \A t \in Tenants \ {T} : Chain(t)' = Chain(t)
  BY <1>1, <1>3, ChainsGrow
<1>6. Len(chains[T]) < Cardinality(Requests)
  BY <1>1, RoomInChain
<1>7. chains' = [chains EXCEPT ![T] = Append(chains[T], entry)]
  <2>1. chains' = [t \in Tenants |-> Chain(t)']
    OBVIOUS
  <2>2. QED
    BY <1>5, <2>1
<1>8. Log!Insertable(T, entry)
  <2>1. \A i \in 1..Len(chains[T]) : chains[T][i].seq # entry.seq
    <3>1. \A i \in 1..Len(Chain(T)) : Chain(T)[i].seq = i
      BY <1>1 DEF TablesInv, ChainsAreGapFree
    <3>2. Len(Chain(T)) \in Nat
      BY <1>1, ChainFits
    <3>3. chains[T] = Chain(T)
      OBVIOUS
    <3> HIDE DEF chains
    <3>4. entry.seq = Len(Chain(T)) + 1
      BY <1>3
    <3>5. \A i \in 1..Len(Chain(T)) : i # Len(Chain(T)) + 1
      BY <3>2
    <3>6. QED
      BY <3>1, <3>3, <3>4, <3>5
  <2>2. \A u \in Tenants : \A i \in 1..Len(chains[u]) :
            chains[u][i].entry_hash # entry.entry_hash
    BY <1>1, <1>3, DigestIsNew
  <2>3. QED
    BY <2>1, <2>2 DEF Log!Insertable
<1>9. entry = Log!NewEntry(chains[T], c, x)
  BY <1>3
<1>10. Log!Record(T, c, x)
  BY <1>6, <1>7, <1>8, <1>9 DEF Log!Record
<1>11. QED
  BY <1>4, <1>10 DEF Log!Next

(* The pipeline implements the audit log of AuditLog: the tables, the       *)
(* transactions, the locks, the model calls and the crashes refine the one  *)
(* action that appends an entry to one tenant's chain. It is                *)
(* UNIQUE(tenant_admin_id, seq) that makes this true without a lock on an   *)
(* empty chain: the tail an entry was computed from is still the last row   *)
(* when the entry is committed.                                             *)
THEOREM ImplementsAuditLog == Spec => AuditLogSpec
<1> DEFINE chains == [t \in Tenants |-> Chain(t)]
<1>1. Init => Log!Init
  <2> SUFFICES ASSUME Init PROVE Log!Init
    OBVIOUS
  <2>1. PipelineInv /\ db.audit_log = <<>>
    BY InitInv DEF Init, EmptyTables
  <2>2. \A t \in Tenants : Chain(t) = <<>>
    <3> TAKE t \in Tenants
    <3>1. Len(Chain(t)) \in Nat /\ Len(Chain(t)) <= 0 /\ Chain(t) \in Seq(Log!Row)
      BY <2>1, ChainFits DEF PipelineInv, TablesInv, ChainsAreGapFree
    <3>2. QED
      BY <3>1
  <2>3. QED
    BY <2>2 DEF Log!Init
<1>2. PipelineInv /\ [Next]_vars => [Log!Next]_chains
  <2> SUFFICES ASSUME PipelineInv, [Next]_vars
               PROVE  Log!Next \/ chains' = chains
    OBVIOUS
  <2>1. DatabaseInv
    BY DEF PipelineInv, DatabaseInv
  <2>2. CASE db'.audit_log = db.audit_log
    BY <2>2 DEF Chain
  <2>3. CASE \E r \in Requests : CommitFailedCall(r)
    BY <2>1, <2>2, <2>3, FailedCallTables
  <2>4. CASE \E r \in Requests : CommitRequest(r)
    BY <2>1, <2>4, CommitIsRecord
  <2>5. QED
    BY <2>2, <2>3, <2>4, OnlyCommitsWrite
<1>3. QED
  BY <1>1, <1>2, PipelineInvariantHolds, PTL DEF Spec, AuditLogSpec, Log!Spec

------------------------------------------------------------------------------
(* What the pipeline inherits from the audit log                            *)

LogProofs == INSTANCE AuditLogProofs WITH Content <- AuditContent,
                                          MaxSeq  <- Cardinality(Requests),
                                          log     <- [t \in Tenants |-> Chain(t)]

(* The chains of the pipeline are an instance of the audit log that         *)
(* AuditLogProofs is about, with no chain longer than the number of         *)
(* requests.                                                                *)
LEMMA InheritsFromTheLog ==
    /\ Cardinality(Requests) \in Nat
    /\ Spec => LogProofs!Spec
<1> DEFINE chains == [t \in Tenants |-> Chain(t)]
<1>1. Cardinality(Requests) \in Nat
  BY PipelineAssumption, FS_CardinalityType
<1>2. Log!Init => LogProofs!Init
  BY DEF Log!Init, LogProofs!Init
<1>3. [Log!Next]_chains => [LogProofs!Next]_chains
  BY DEF Log!Next, LogProofs!Next, Log!Record, LogProofs!Record,
         Log!Insertable, LogProofs!Insertable, Log!NewEntry, LogProofs!NewEntry,
         Log!NextSeq, LogProofs!NextSeq, Log!PrevHash, LogProofs!PrevHash,
         Log!GENESIS_HASH, LogProofs!GENESIS_HASH, Log!compute_entry_hash,
         LogProofs!compute_entry_hash, Log!CHAIN_VERSION, LogProofs!CHAIN_VERSION
<1>4. Spec => LogProofs!Spec
  BY <1>2, <1>3, ImplementsAuditLog, PTL DEF AuditLogSpec, Log!Spec, LogProofs!Spec
<1>5. QED
  BY <1>1, <1>4

(* verify_chain accepts the chain of every tenant in every reachable state  *)
(* of the pipeline: the theorem of the abstract log, carried over by the    *)
(* refinement.                                                              *)
THEOREM EveryChainVerifies == Spec => []Log!ChainIntact
<1>1. LogProofs!Spec => []LogProofs!ChainIntact
  BY InheritsFromTheLog, LogProofs!ChainAlwaysVerifies
<1>2. LogProofs!ChainIntact => Log!ChainIntact
  BY DEF Log!ChainIntact, LogProofs!ChainIntact, Log!verify_chain,
         LogProofs!verify_chain, Log!Breaks, LogProofs!Breaks, Log!SequenceGap,
         LogProofs!SequenceGap, Log!Relinked, LogProofs!Relinked,
         Log!EditedInPlace, LogProofs!EditedInPlace, Log!ExpectedPrev,
         LogProofs!ExpectedPrev, Log!GENESIS_HASH, LogProofs!GENESIS_HASH,
         Log!compute_entry_hash, LogProofs!compute_entry_hash,
         Log!CHAIN_VERSION, LogProofs!CHAIN_VERSION
<1>3. QED
  BY <1>1, <1>2, InheritsFromTheLog, PTL

(* The entry_hash of every row in the chain of every tenant spells out the  *)
(* contents of all rows up to it, in every reachable state of the pipeline: *)
(* who knows the last digest knows the history.                             *)
THEOREM TailPinsHistory == Spec => []Log!DigestPinsHistory
<1>1. LogProofs!Spec => []LogProofs!DigestPinsHistory
  BY InheritsFromTheLog, LogProofs!DigestsPinHistory
<1>2. LogProofs!DigestPinsHistory => Log!DigestPinsHistory
  BY DEF Log!DigestPinsHistory, LogProofs!DigestPinsHistory,
         Log!CHAIN_VERSION, LogProofs!CHAIN_VERSION
<1>3. QED
  BY <1>1, <1>2, InheritsFromTheLog, PTL
==============================================================================
