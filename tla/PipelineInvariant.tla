-------------------------- MODULE PipelineInvariant --------------------------
(***************************************************************************)
(* The inductive invariant of EvaluationPipeline.  It has three parts: the *)
(* committed rows agree with each other and with the chains (TablesInv),   *)
(* the unique keys taken by open transactions are free (KeysAreFree), and  *)
(* what each handler has read and staged is still good for what it is      *)
(* going to commit (RequestInv).  The run "pipeline" checks PipelineInv;   *)
(* PipelineSteps and PipelineProofs prove it.                              *)
(***************************************************************************)
EXTENDS EvaluationPipeline

(* The unique keys the rows of x take, one per constraint of models.py.    *)
Claims(x) ==
    { <<"response", row.slot>> : row \in x.responses }
    \cup { <<"evaluation", Key(e)>> : e \in x.evaluations }
    \cup { <<"review", Key(v)>> : v \in x.reviews }
    \cup { <<"audit", x.audit_log[i].tenant, x.audit_log[i].row.seq>> :
             i \in DOMAIN x.audit_log }

(* A key an open transaction has taken is in no committed row and in no    *)
(* other open transaction: committing is always possible.                  *)
KeysAreFree ==
    \A r \in Requests :
        /\ Claims(staged[r].tables) \cap Claims(db) = {}
        /\ \A q \in Requests \ {r} :
              Claims(staged[r].tables) \cap Claims(staged[q].tables) = {}

(* A request is on the record once its evaluation or review is committed.  *)
Recorded(r) == \E row \in db.evaluations \cup db.reviews : row.by = r

----------------------------------------------------------------------------
(* The committed rows *)

(* UNIQUE(response_id, version) and unique evaluation_id.                  *)
KeysAreUnique ==
    /\ \A e, f \in db.evaluations : Key(e) = Key(f) => e = f
    /\ \A v, w \in db.reviews : Key(v) = Key(w) => v = w

(* The versions of a response are 1, 2, ... and its last one is current.   *)
VersionsAreGapFree ==
    \A s \in Slots :
        { e.version : e \in Evaluations(s) } = 1..Cardinality(Evaluations(s))

LatestIsCurrent ==
    \A e \in db.evaluations :
        e.is_current <=> \A f \in Evaluations(e.slot) : f.version <= e.version

(* What is recorded of an evaluation: its response is there, nobody wrote  *)
(* two of them, and only a re-evaluation writes a version above 1.         *)
EvaluationsAreGrounded ==
    /\ IsFiniteSet(db.evaluations)
    /\ \A e \in db.evaluations : /\ SlotTaken(db, e.slot)
                                 /\ e.reason = (e.version > 1)
                                 /\ e.version > 1 => e.by \in Reevaluates
    /\ \A e, f \in db.evaluations : e.by = f.by => e = f

(* A review is of a version that was flagged, which none stops being.      *)
Flagged(s, n) ==
    \E e \in db.evaluations :
        e.slot = s /\ e.version = n /\ can_be_human_reviewed(e.verdict)

ReviewsAreGrounded ==
    /\ IsFiniteSet(db.reviews)
    /\ \A v \in db.reviews : Flagged(v.slot, v.version)

(* Each chain is gap-free, holds the tenant's rows of the log and no other *)
(* row, and a row belongs to the owner of what it is about.                *)
ChainsAreGapFree ==
    \A t \in Tenants :
        /\ Chain(t) \in Seq(Log!Row)
        /\ \A k \in 1..Len(Chain(t)) : Chain(t)[k].seq = k

ChainsHoldTheLog ==
    /\ \A i \in DOMAIN db.audit_log :
          LET a == db.audit_log[i] IN
          /\ \E k \in 1..Len(Chain(a.tenant)) : Chain(a.tenant)[k] = a.row
          /\ a.tenant = owner(a.row.content.subject[1])
          /\ a.row.entry_hash =
               Log!compute_entry_hash(a.row.prev_hash, a.row.seq, a.row.content)
    /\ \A t \in Tenants : \A k \in 1..Len(Chain(t)) :
          \E i \in DOMAIN db.audit_log :
              db.audit_log[i].tenant = t /\ db.audit_log[i].row = Chain(t)[k]

(* The requests on the record are as many as the entries: what bounds the  *)
(* chains.                                                                 *)
OneEntryPerRequest ==
    Len(db.audit_log) = Cardinality({ r \in Requests : Recorded(r) })

TablesInv ==
    /\ IsTables(db)
    /\ KeysAreUnique
    /\ VersionsAreGapFree
    /\ LatestIsCurrent
    /\ EvaluationsAreGrounded
    /\ ReviewsAreGrounded
    /\ RecordMatchesLog
    /\ LedgerMatchesEvaluations
    /\ ChainsAreGapFree
    /\ ChainsHoldTheLog
    /\ OneEntryPerRequest

----------------------------------------------------------------------------
(* One request *)

(* The results route_verdict accepts, and the local variables a handler    *)
(* has at each stage.                                                      *)
Results == { p \in LLMResults : InRange(p) }

Handling  == [pc : {"read_upload", "insert_response", "evaluate",
                    "record_failed_call", "commit_failed_call"},
              slot : Slots, seen : SUBSET EvaluationRow]
Evaluated == [pc : {"supersede", "insert_evaluation"},
              slot : Slots, result : Results, previous : SUBSET EvaluationRow]
Reviewed  == [pc : {"insert_review"}, slot : Slots, version : Versions]
Auditing  == [pc : {"read_tail"}, slot : Slots, content : AuditContent]
Appending == [pc : {"lock_tail", "append_entry", "commit"},
              slot : Slots, content : AuditContent, tail : Seq(Log!Row)]
Answered  == [pc : {"close", "respond", "done"}, status : Statuses]

RequestType ==
    {Idle} \cup Handling \cup Evaluated \cup Reviewed \cup Auditing \cup Appending
        \cup Answered

(* An open transaction with these rows and locks.                          *)
Txn(responses, evaluations, reviews, llm_calls, audit_log, superseded, tail_lock) ==
    [tables |-> [responses |-> responses, evaluations |-> evaluations,
                 reviews |-> reviews, llm_calls |-> llm_calls,
                 audit_log |-> audit_log],
     superseded |-> superseded, tail_lock |-> tail_lock]

NoEntry == <<>>

(* A submit has inserted the response it evaluates, a re-evaluation found  *)
(* it committed.                                                           *)
Opened(r) ==
    LET responses == staged[r].tables.responses IN
    \/ r \in Submits /\ responses = {[slot |-> req[r].slot, by |-> r]}
    \/ r \in Reevaluates /\ responses = {} /\ SlotTaken(db, req[r].slot)

(* Besides that response, the transaction of r has written nothing but     *)
(* these rows.                                                             *)
Wrote(r, evaluations, reviews, llm_calls, audit_log, superseded) ==
    staged[r] = Txn(staged[r].tables.responses, evaluations, reviews, llm_calls,
                    audit_log, superseded, staged[r].tail_lock)

(* Before its first write and after its end a request has no transaction.  *)
Closed(r) ==
    req[r].pc \in {"idle", "read_upload", "insert_response", "insert_review",
                   "respond", "done"}
        => staged[r] = NoTransaction

(* A new response has no evaluations to read.                              *)
Submitting(r) ==
    req[r].pc \in {"read_upload", "insert_response"} =>
        r \in Submits /\ req[r].seen = {}

(* An evaluation read earlier is still there, and if it was superseded     *)
(* then it still is.                                                       *)
Evaluating(r) ==
    /\ req[r].pc \in {"evaluate", "record_failed_call"} =>
          Opened(r) /\ Wrote(r, {}, {}, {}, NoEntry, {})
    /\ req[r].pc = "evaluate" =>
          \A f \in req[r].seen : \E e \in db.evaluations :
              Key(e) = Key(f) /\ (e.is_current => f.is_current)

(* What the ProviderError path commits: the response and the failed call.  *)
FailedCall(r) ==
    req[r].pc = "commit_failed_call" =>
        Opened(r) /\ Wrote(r, {}, {}, {LedgerRow(r, FALSE)}, NoEntry, {})

(* Of the latest evaluation it read, the request will write the successor: *)
(* nothing when there was none, else one row that is still in the table.   *)
Superseding(r) ==
    req[r].pc \in {"supersede", "insert_evaluation"} =>
        /\ Opened(r)
        /\ Wrote(r, {}, {}, {}, NoEntry,
                 IF req[r].pc = "supersede" THEN {}
                 ELSE { Key(e) : e \in req[r].previous })
        /\ \/ req[r].previous = {}
           \/ \E p \in req[r].previous : /\ req[r].previous = {p}
                                         /\ p.slot = req[r].slot
                                         /\ \E e \in db.evaluations : Key(e) = Key(p)

(* The verdict was tested when the review was accepted, and is still so.   *)
Reviewing(r) ==
    req[r].pc = "insert_review" =>
        r \in Reviews /\ Flagged(req[r].slot, req[r].version)

(* AuditService.record, up to the commit.                                  *)
Recording == {"read_tail", "lock_tail", "append_entry", "commit"}

(* The evaluation e of request r, and the version it supersedes. *)
EvaluationStaged(r, e) ==
    /\ Opened(r)
    /\ e \in EvaluationRow
    /\ e.slot = req[r].slot /\ e.by = r /\ e.is_current
    /\ e.reason = (e.version > 1) /\ e.verdict = route_verdict(e.result)
    /\ e.version > 1 => /\ r \in Reevaluates
                        /\ \E f \in db.evaluations : Key(f) = <<e.slot, e.version - 1>>
    /\ req[r].content = EvaluationContent(e)

(* The key of the version e supersedes.                                    *)
Replaced(e) == IF e.version = 1 THEN {} ELSE {<<e.slot, e.version - 1>>}

(* The review v of request r, of a version that was flagged.               *)
ReviewStaged(r, v) ==
    /\ v \in [slot : Slots, version : Versions, verdict : HumanVerdicts, by : Reviews]
    /\ v.slot = req[r].slot /\ v.by = r
    /\ Flagged(v.slot, v.version)
    /\ req[r].content = ReviewContent(v)

(* What is in audit_log of the open transaction: the entry, once flushed.  *)
Entry(r) ==
    IF req[r].pc = "commit"
    THEN <<[tenant |-> owner(req[r].slot),
            row |-> Log!NewEntry(req[r].tail, req[r].content, InterviewOf[req[r].slot])]>>
    ELSE NoEntry

(* While it is being audited, a request holds in its transaction the very  *)
(* row the entry will describe: an evaluation with its row of the ledger   *)
(* and the supersession, or a review.                                      *)
HoldsRecord(r) ==
    req[r].pc \in Recording =>
        \/ \E e \in staged[r].tables.evaluations :
              /\ EvaluationStaged(r, e)
              /\ Wrote(r, {e}, {}, {LedgerRow(r, TRUE)}, Entry(r), Replaced(e))
        \/ \E v \in staged[r].tables.reviews :
              /\ ReviewStaged(r, v)
              /\ Wrote(r, {}, {v}, {}, Entry(r), {})
              /\ staged[r].tables.responses = {}

(* The tail is a row of the chain, its last one when it was read.          *)
TailIsARow(r) ==
    req[r].pc \in Recording \ {"read_tail"} =>
        \/ req[r].tail = <<>>
        \/ LET rows == Chain(owner(req[r].slot)) IN
           \E k \in 1..Len(rows) : req[r].tail = <<rows[k]>>

IsTransaction(x) ==
    /\ IsTables(x.tables)
    /\ x.superseded \subseteq Slots \X Versions
    /\ x.tail_lock \subseteq Log!Row

(* A handler that has not answered is not on the record, and the answer    *)
(* says whether the request is.                                            *)
Answering(r) ==
    /\ req[r].pc \notin {"respond", "done"} => ~Recorded(r)
    /\ req[r].pc = "close" => req[r].status \notin {"ok", "lost"}
    /\ req[r].pc \in {"respond", "done"} =>
          /\ req[r].status = "ok" => Recorded(r)
          /\ req[r].status \notin {"ok", "lost"} => ~Recorded(r)

RequestInv(r) ==
    /\ req[r] \in RequestType
    /\ IsTransaction(staged[r])
    /\ Closed(r)
    /\ Submitting(r)
    /\ Evaluating(r)
    /\ FailedCall(r)
    /\ Superseding(r)
    /\ Reviewing(r)
    /\ HoldsRecord(r)
    /\ TailIsARow(r)
    /\ Answering(r)

----------------------------------------------------------------------------
(* The server processes, and everything together *)

ServersTypeOK ==
    /\ writer \in Requests \cup {NoOne}
    /\ called \subseteq Submits \cup Reevaluates
    /\ loop \in [Workers -> Submits \cup {NoOne}]
    /\ setting \in Settings
    /\ crashes \in 0..setting.crashes

(* In every state the rows agree with each other and with the chains, no   *)
(* open transaction stands in the way of another or of a committed row,    *)
(* and every handler still knows the truth about what it is committing:    *)
(* the evaluation it supersedes is a row of the table, the one it reviews  *)
(* is flagged, the tail it read is a row of its tenant's chain, and it is  *)
(* on the record exactly when it may say so.  (evaluation_service.py:50,   *)
(* review_service.py:61 and audit_service.py:32)                           *)
PipelineInv ==
    /\ DOMAIN req = Requests /\ DOMAIN staged = Requests
    /\ ServersTypeOK
    /\ TablesInv
    /\ KeysAreFree
    /\ \A r \in Requests : RequestInv(r)
==============================================================================
