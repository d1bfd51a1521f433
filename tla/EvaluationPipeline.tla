-------------------------- MODULE EvaluationPipeline --------------------------
(***************************************************************************)
(* The write paths of the platform, run concurrently: a candidate submits  *)
(* a response (candidate.py submit_response), an org_admin re-evaluates it *)
(* (interviews.py reevaluate_response) or records a human review           *)
(* (submit_human_review), each request in its own session and transaction, *)
(* on SQLite or on PostgreSQL (READ COMMITTED), in one or several worker   *)
(* processes, each with one event loop.                                    *)
(*                                                                         *)
(* One action per database statement that another request can observe or   *)
(* block.  What a transaction has written so far is in staged[r]; Commit   *)
(* moves it to the tables in db.  A slot is a (question, candidate) pair,  *)
(* the key of a response; an evaluation is identified by its slot and      *)
(* version, the key of its UNIQUE constraint.                              *)
(***************************************************************************)
EXTENDS Verdicts, Sequences, FiniteSets, SequencesExt

CONSTANTS
    Submits, Reevaluates, Reviews,  \* the requests of each kind that arrive
    Interviews,
    Slots,                 \* (question, candidate) pairs
    InterviewOf,           \* [Slots -> Interviews]
    Tenants,
    OwnerOf,               \* [Interviews -> Tenants], owner_admin_id
    LLMResults,            \* results of the provider: [verdict, confidence]
    HumanVerdicts,         \* subset of {"correct", "incorrect"}
    Workers,               \* server processes
    MaxCrashes,            \* bound on the crashes of server processes
    Settings               \* deployments and workloads, see Setting

Requests == Submits \cup Reevaluates \cup Reviews

(* A deployment and what is asked of it: the database; whether its role    *)
(* may still UPDATE audit_log after apply_append_only_guards revoked it,   *)
(* as a superuser may; how often a process dies; the process that serves   *)
(* each request, and the responses a request may be about, none when it    *)
(* never arrives.                                                          *)
Setting == [backend    : {"sqlite", "postgresql"},
            may_update : BOOLEAN,
            crashes    : 0..MaxCrashes,
            worker     : [Requests -> Workers],
            about      : [Requests -> SUBSET Slots]]

ASSUME PipelineAssumption ==
    /\ IsFiniteSet(Requests)
    /\ InterviewOf \in [Slots -> Interviews]
    /\ OwnerOf \in [Interviews -> Tenants]
    /\ \A p \in LLMResults : p.verdict \in LLMVerdict /\ p.confidence \in Int
    /\ HumanVerdicts \subseteq LLMVerdict
    /\ MaxCrashes \in Nat
    /\ Settings \subseteq Setting

VARIABLES
    db,         \* the committed rows of each table
    staged,     \* [Requests -> what the open transaction has written]
    req,        \* [Requests -> where the handler is and what it has read]
    writer,     \* holder of SQLite's write lock
    loop,       \* [Workers -> the coroutine its event loop is running]
    called,     \* requests whose provider call has been made
    setting,    \* the deployment, fixed
    crashes

vars == <<db, staged, req, writer, loop, called, setting, crashes>>

NoOne == "no one"

----------------------------------------------------------------------------
(* Tables *)

(* audit_log is in the order of its primary key, the other tables have no  *)
(* order that matters.                                                     *)
EmptyTables == [responses |-> {}, evaluations |-> {}, reviews |-> {},
                llm_calls |-> {}, audit_log |-> <<>>]

(* An open transaction also knows the rows it locked: the evaluations it   *)
(* superseded and, on PostgreSQL, the audit row it selected FOR UPDATE.    *)
NoTransaction == [tables |-> EmptyTables, superseded |-> {}, tail_lock |-> {}]

Evaluations(s) == { e \in db.evaluations : e.slot = s }

Key(e) == <<e.slot, e.version>>

ReviewsOf(e) == { v \in db.reviews : Key(v) = Key(e) }

(* ORDER BY version DESC LIMIT 1, as a set of at most one row *)
Latest(rows) == { e \in rows : \A f \in rows : f.version <= e.version }

owner(s) == OwnerOf[InterviewOf[s]]

(* entries_for_tenant: the tenant's rows of a log, ORDER BY seq.  A row is  *)
(* at k when k - 1 rows come before it; UNIQUE(tenant_admin_id, seq) leaves *)
(* no tie to break.                                                        *)
ChainOf(log, t) ==
    LET mine      == { i \in DOMAIN log : log[i].tenant = t }
        before(i) == { j \in mine : \/ log[j].row.seq < log[i].row.seq
                                    \/ log[j].row.seq = log[i].row.seq /\ j < i }
        at(k)     == { i \in mine : Cardinality(before(i)) = k - 1 } IN
    [k \in 1..Cardinality(mine) |-> log[CHOOSE i \in at(k) : TRUE].row]

Chain(t) == ChainOf(db.audit_log, t)

(* _tail: the sequence of the tenant's last audit row, or none *)
CommittedTail(t) == LET rows == Chain(t) IN
            IF rows = <<>> THEN <<>> ELSE <<rows[Len(rows)]>>

EvaluationContent(e) ==
    [event   |-> IF e.version = 1 THEN "evaluation.created"
                                  ELSE "evaluation.reevaluated",
     subject |-> Key(e),
     payload |-> [result |-> e.result, verdict |-> e.verdict, reason |-> e.reason]]

ReviewContent(v) ==
    [event |-> "human_review.recorded", subject |-> Key(v), payload |-> v.verdict]

(* Each re-evaluation adds at most one version to a first one.             *)
Versions == 1..(1 + Cardinality(Reevaluates))

(* Only a version above 1 carries the reason of a re-evaluation.           *)
AuditContent ==
    { EvaluationContent([slot |-> s, version |-> n, result |-> p,
                         verdict |-> route_verdict(p), reason |-> n > 1]) :
        s \in Slots, n \in Versions, p \in { q \in LLMResults : InRange(q) } }
    \cup
    { ReviewContent([slot |-> s, version |-> n, verdict |-> h]) :
        s \in Slots, n \in Versions, h \in HumanVerdicts }

Log == INSTANCE AuditLog WITH Content <- AuditContent,
                              MaxSeq  <- Cardinality(Requests),
                              log     <- [t \in Tenants |-> Chain(t)]

----------------------------------------------------------------------------
(* Transactions *)

(* Requests whose handler is running. *)
InFlight == { r \in Requests : req[r].pc \notin {"idle", "done"} }

Worker(r) == setting.worker[r]

Idle       == [pc |-> "idle"]
Answer(st) == [pc |-> "respond", status |-> st]
Done(st)   == [pc |-> "done", status |-> st]

Goto(r, pc) == req' = [req EXCEPT ![r].pc = pc]

(* What a coroutine does between two awaits, and every hand-over to or from*)
(* the thread pool, needs the event loop of the process.                   *)
LoopFree(r) == loop[Worker(r)] = NoOne
TakeLoop(r) == loop' = [loop EXCEPT ![Worker(r)] = r]
FreeLoop(r) == loop' = [w \in Workers |-> IF loop[w] = r THEN NoOne ELSE loop[w]]

(* SQLite: the first write of a transaction takes the database's write     *)
(* lock, held until commit or rollback.  PostgreSQL locks rows.            *)
CanWrite(r)  == setting.backend = "sqlite" => writer \in {NoOne, r}
TakeWrite(r) == writer' = IF setting.backend = "sqlite" THEN r ELSE writer
FreeWrite(r) == writer' = IF writer = r THEN NoOne ELSE writer

(* UNIQUE(question_id, candidate_id), UNIQUE(response_id, version), unique  *)
(* evaluation_id and UNIQUE(tenant_admin_id, seq), on the rows of x         *)
SlotTaken(x, s)     == \E row \in x.responses : row.slot = s
NoVersionConstraint(x, e) == FALSE
VersionTaken(x, e)  == \E f \in x.evaluations : Key(f) = Key(e)
NoReviewConstraint(x, v) == FALSE
ReviewTaken(x, v)   == \E w \in x.reviews : Key(w) = Key(v)
SeqTakenInInterview(x, s, seq) ==
    \E a \in ToSet(x.audit_log) :
        a.row.interview_id = InterviewOf[s] /\ a.row.seq = seq
SeqTaken(x, s, seq) ==
    \E a \in ToSet(x.audit_log) : a.tenant = owner(s) /\ a.row.seq = seq

CommittedRowsOnly(r) == {}

(* A unique key inserted by another open transaction: PostgreSQL waits for *)
(* that transaction to end before it decides.                              *)
StagedByOthers(r) == { staged[q].tables : q \in Requests \ {r} }

Stage(r, table, row) ==
    staged' = [staged EXCEPT ![r].tables[table] = @ \cup {row}]

SwallowedFailure(r, status) ==
    /\ staged' = [staged EXCEPT ![r] = NoTransaction]
    /\ FreeWrite(r)
    /\ FreeLoop(r)
    /\ req' = [req EXCEPT ![r] = Answer("ok")]
    /\ UNCHANGED db

LeftOpen(r, status) ==
    /\ req' = [req EXCEPT ![r] = Answer(status)]
    /\ FreeLoop(r)
    /\ UNCHANGED <<db, staged, writer>>

LedgerInItsOwnTransaction(r, status) ==
    /\ db' = [db EXCEPT !.llm_calls = @ \cup staged[r].tables.llm_calls]
    /\ staged' = [staged EXCEPT ![r] = NoTransaction]
    /\ FreeWrite(r)
    /\ FreeLoop(r)
    /\ req' = [req EXCEPT ![r] = Answer(status)]

(* A failed flush rolls its transaction back at once; a session that is    *)
(* closed rolls back what it did not commit.                               *)
Rollback(r, status) ==
    /\ staged' = [staged EXCEPT ![r] = NoTransaction]
    /\ FreeWrite(r)
    /\ FreeLoop(r)
    /\ req' = [req EXCEPT ![r] = Answer(status)]
    /\ UNCHANGED db

(* Any other exception leaves the handler with the transaction still open; *)
(* get_db will close the session.                                          *)
Raise(r, status) ==
    /\ req' = [req EXCEPT ![r] = [pc |-> "close", status |-> status]]
    /\ FreeLoop(r)
    /\ UNCHANGED <<db, staged, writer>>

DeleteSuperseded(rows, keys) == { e \in rows : Key(e) \notin keys }

(* is_current = False on the rows that were superseded                     *)
Supersede(rows, keys) ==
    { IF Key(e) \in keys THEN [e EXCEPT !.is_current = FALSE] ELSE e : e \in rows }

Commit(r, next) ==
    LET mine == staged[r].tables IN
    /\ db' = [ responses   |-> db.responses \cup mine.responses,
               evaluations |-> Supersede(db.evaluations, staged[r].superseded)
                                   \cup mine.evaluations,
               reviews     |-> db.reviews \cup mine.reviews,
               llm_calls   |-> db.llm_calls \cup mine.llm_calls,
               audit_log   |-> db.audit_log \o mine.audit_log ]
    /\ staged' = [staged EXCEPT ![r] = NoTransaction]
    /\ FreeWrite(r)
    /\ req' = [req EXCEPT ![r] = next]

----------------------------------------------------------------------------
(* submit_response is a coroutine: it runs on the event loop of its process*)
(* up to its answer, except while it awaits audio.read() of an upload that *)
(* was spooled to disk.  The other handlers run in the thread pool.        *)

(* get_existing_response; a new answer that is text or a small upload goes *)
(* straight on to its insert.                                              *)
StartSubmit(r, s) ==
    /\ r \in Submits /\ req[r].pc = "idle"
    /\ LoopFree(r)
    /\ \/ /\ SlotTaken(db, s)
          /\ req' = [req EXCEPT ![r] = Answer("409")]
          /\ UNCHANGED loop
       \/ /\ ~SlotTaken(db, s)
          /\ req' = [req EXCEPT ![r] = Answer("422")]
          /\ UNCHANGED loop
       \/ /\ ~SlotTaken(db, s)
          /\ req' = [req EXCEPT ![r] = [pc |-> "insert_response", slot |-> s, seen |-> {}]]
          /\ TakeLoop(r)
       \/ /\ ~SlotTaken(db, s)
          /\ req' = [req EXCEPT ![r] = [pc |-> "read_upload", slot |-> s, seen |-> {}]]
          /\ UNCHANGED loop
    /\ UNCHANGED <<db, staged, writer, called, setting, crashes>>

ResumeSubmit(r) ==
    /\ req[r].pc = "read_upload"
    /\ LoopFree(r)
    /\ TakeLoop(r)
    /\ Goto(r, "insert_response")
    /\ UNCHANGED <<db, staged, writer, called, setting, crashes>>

(* db.add(response); db.flush(), under UNIQUE(question_id, candidate_id)   *)
InsertResponse(r) ==
    LET s == req[r].slot IN
    /\ req[r].pc = "insert_response"
    /\ CanWrite(r)
    /\ \A x \in StagedByOthers(r) : ~SlotTaken(x, s)
    /\ IF SlotTaken(db, s)
       THEN Rollback(r, "500 IntegrityError")
       ELSE /\ Stage(r, "responses", [slot |-> s, by |-> r])
            /\ TakeWrite(r)
            /\ Goto(r, "evaluate")
            /\ UNCHANGED <<db, loop>>
    /\ UNCHANGED <<called, setting, crashes>>

(* reevaluate_response: the response is loaded with its evaluations, which *)
(* stay in the session's identity map as they were (seen).                 *)
StartReevaluate(r, s) ==
    /\ r \in Reevaluates /\ req[r].pc = "idle"
    /\ LoopFree(r)
    /\ req' = [req EXCEPT ![r] =
                  IF SlotTaken(db, s)
                  THEN [pc |-> "evaluate", slot |-> s, seen |-> Evaluations(s)]
                  ELSE Answer("404")]
    /\ UNCHANGED <<db, staged, writer, loop, called, setting, crashes>>

----------------------------------------------------------------------------
(* EvaluationService.evaluate_response *)

(* provider.evaluate returns a result; _supersede_current then reads the   *)
(* latest version.  A row already in the identity map keeps the attributes *)
(* it was loaded with.                                                     *)
ProviderAnswers(r, result) ==
    LET s        == req[r].slot
        read(e)  == IF \E f \in req[r].seen : Key(f) = Key(e)
                    THEN CHOOSE f \in req[r].seen : Key(f) = Key(e) ELSE e
        previous == { read(e) : e \in Latest(Evaluations(s)) } IN
    /\ req[r].pc = "evaluate"
    /\ InRange(result)
    /\ req' = [req EXCEPT ![r] =
                  [pc |-> IF \E e \in previous : e.is_current
                          THEN "supersede" ELSE "insert_evaluation",
                   slot |-> s, result |-> result, previous |-> previous]]
    /\ called' = called \cup {r}
    /\ UNCHANGED <<db, staged, writer, loop, setting, crashes>>

(* The provider answered, and its answer is refused: building the result   *)
(* (base.py:42) and route_verdict both raise ValueError for it.            *)
RoutingRaises(r, result) ==
    /\ req[r].pc = "evaluate"
    /\ ~InRange(result)
    /\ Raise(r, "500 exception")
    /\ called' = called \cup {r}
    /\ UNCHANGED <<setting, crashes>>

(* ProviderError: the failed call is to be logged.                         *)
ProviderFails(r) ==
    /\ req[r].pc = "evaluate"
    /\ Goto(r, "record_failed_call")
    /\ called' = called \cup {r}
    /\ UNCHANGED <<db, staged, writer, loop, setting, crashes>>

(* Any other exception, such as the ValueError for a provider name that is *)
(* not registered.                                                         *)
EvaluateRaises(r) ==
    /\ req[r].pc = "evaluate"
    /\ Raise(r, "500 exception")
    /\ UNCHANGED <<called, setting, crashes>>

(* _record_call, _record_failed_call                                       *)
LedgerRow(r, succeeded) == [by |-> r, succeeded |-> succeeded]

FailedCallUnrecorded(r) ==
    /\ req[r].pc = "record_failed_call"
    /\ CanWrite(r)
    /\ TakeWrite(r)
    /\ Goto(r, "commit_failed_call")
    /\ UNCHANGED <<staged, db, loop, called, setting, crashes>>

(* _record_failed_call, then commit before the error is raised again       *)
RecordFailedCall(r) ==
    /\ req[r].pc = "record_failed_call"
    /\ CanWrite(r)
    /\ Stage(r, "llm_calls", LedgerRow(r, FALSE))
    /\ TakeWrite(r)
    /\ Goto(r, "commit_failed_call")
    /\ UNCHANGED <<db, loop, called, setting, crashes>>

CommitFailedCall(r) ==
    /\ req[r].pc = "commit_failed_call"
    /\ Commit(r, Answer("500 ProviderError"))
    /\ FreeLoop(r)
    /\ UNCHANGED <<called, setting, crashes>>

(* latest.is_current = False; flush.  PostgreSQL waits for the row lock of *)
(* another transaction that is superseding the same row.                   *)
SupersedeCurrent(r) ==
    LET keys == { Key(e) : e \in req[r].previous } IN
    /\ req[r].pc = "supersede"
    /\ CanWrite(r)
    /\ \A q \in Requests \ {r} : staged[q].superseded \cap keys = {}
    /\ staged' = [staged EXCEPT ![r].superseded = keys]
    /\ TakeWrite(r)
    /\ Goto(r, "insert_evaluation")
    /\ UNCHANGED <<db, loop, called, setting, crashes>>

VersionsFromZero(r) ==
    LET previous == req[r].previous
        version  == IF previous = {} THEN 0
                    ELSE (CHOOSE e \in previous : TRUE).version + 1 IN
    [slot |-> req[r].slot, version |-> version, is_current |-> TRUE,
     result |-> req[r].result, verdict |-> route_verdict(req[r].result),
     reason |-> r \in Reevaluates /\ version > 1, by |-> r]

NewEvaluation(r) ==
    LET previous == req[r].previous
        version  == IF previous = {} THEN 1
                    ELSE (CHOOSE e \in previous : TRUE).version + 1 IN
    [slot |-> req[r].slot, version |-> version, is_current |-> TRUE,
     result |-> req[r].result, verdict |-> route_verdict(req[r].result),
     reason |-> r \in Reevaluates /\ version > 1, by |-> r]

EvaluationCommittedFirst(r) ==
    LET e == NewEvaluation(r) IN
    /\ req[r].pc = "insert_evaluation"
    /\ CanWrite(r)
    /\ ~VersionTaken(db, e)
    /\ db' = [db EXCEPT !.evaluations = Supersede(@, staged[r].superseded) \cup {e}]
    /\ staged' = [staged EXCEPT ![r] = NoTransaction]
    /\ FreeWrite(r)
    /\ req' = [req EXCEPT ![r] = [pc |-> "read_tail", slot |-> e.slot,
                                  content |-> EvaluationContent(e)]]
    /\ UNCHANGED <<loop, called, setting, crashes>>

(* The evaluation and its llm_calls row, flushed under                     *)
(* UNIQUE(response_id, version).                                           *)
InsertEvaluation(r) ==
    LET e == NewEvaluation(r) IN
    /\ req[r].pc = "insert_evaluation"
    /\ CanWrite(r)
    /\ \A x \in StagedByOthers(r) : ~VersionTaken(x, e)
    /\ IF VersionTaken(db, e)
       THEN Rollback(r, "500 IntegrityError")
       ELSE /\ staged' = [staged EXCEPT
                  ![r].tables.evaluations = {e},
                  ![r].tables.llm_calls   = {LedgerRow(r, TRUE)}]
            /\ TakeWrite(r)
            /\ req' = [req EXCEPT ![r] = [pc |-> "read_tail", slot |-> e.slot,
                                          content |-> EvaluationContent(e)]]
            /\ UNCHANGED <<db, loop>>
    /\ UNCHANGED <<called, setting, crashes>>

----------------------------------------------------------------------------
(* ReviewService.record_review *)

(* get_evaluation_for_admin loads the evaluation and its review; both      *)
(* preconditions are tested on what was loaded.                            *)
StartReview(r, s) ==
    /\ r \in Reviews /\ req[r].pc = "idle"
    /\ LoopFree(r)
    /\ \/ /\ Evaluations(s) = {}
          /\ req' = [req EXCEPT ![r] = Answer("404")]
       \/ \E e \in Evaluations(s) :
             req' = [req EXCEPT ![r] =
                        IF can_be_human_reviewed(e.verdict) /\ ReviewsOf(e) = {}
                        THEN [pc |-> "insert_review", slot |-> s, version |-> e.version]
                        ELSE Answer("409")]
    /\ UNCHANGED <<db, staged, writer, loop, called, setting, crashes>>

UnauditedReview(r, verdict) ==
    /\ req[r].pc = "insert_review"
    /\ CanWrite(r)
    /\ Stage(r, "reviews", [slot |-> req[r].slot, version |-> req[r].version,
                            verdict |-> verdict, by |-> r])
    /\ TakeWrite(r)
    /\ Goto(r, "commit")
    /\ UNCHANGED <<db, loop, called, setting, crashes>>

(* db.add(review); db.flush(), under the unique evaluation_id              *)
InsertReview(r, verdict) ==
    LET v == [slot |-> req[r].slot, version |-> req[r].version,
              verdict |-> verdict, by |-> r] IN
    /\ req[r].pc = "insert_review"
    /\ CanWrite(r)
    /\ \A x \in StagedByOthers(r) : ~ReviewTaken(x, v)
    /\ IF ReviewTaken(db, v)
       THEN Rollback(r, "500 IntegrityError")
       ELSE /\ Stage(r, "reviews", v)
            /\ TakeWrite(r)
            /\ req' = [req EXCEPT ![r] = [pc |-> "read_tail", slot |-> v.slot,
                                          content |-> ReviewContent(v)]]
            /\ UNCHANGED <<db, loop>>
    /\ UNCHANGED <<called, setting, crashes>>

----------------------------------------------------------------------------
(* AuditService.record *)

(* _tail: the statement's snapshot of the last row.  On PostgreSQL the     *)
(* FOR UPDATE needs the privilege to UPDATE audit_log, and then waits for  *)
(* the lock on that row, if there is one.                                  *)
ReadTail(r) ==
    LET tail == CommittedTail(owner(req[r].slot))
        locks == setting.backend = "postgresql" IN
    /\ req[r].pc = "read_tail"
    /\ IF locks /\ ~setting.may_update
       THEN Raise(r, "500 permission denied")
       ELSE /\ req' = [req EXCEPT ![r] =
                  [pc |-> IF locks /\ tail # <<>> THEN "lock_tail" ELSE "append_entry",
                   slot |-> req[r].slot, content |-> req[r].content, tail |-> tail]]
            /\ UNCHANGED <<db, staged, writer, loop>>
    /\ UNCHANGED <<called, setting, crashes>>

(* The lock is granted on the row of the snapshot, which is append-only    *)
(* and so still the same row when its previous holder has committed.       *)
LockTail(r) ==
    LET rows == ToSet(req[r].tail) IN
    /\ req[r].pc = "lock_tail"
    /\ \A q \in Requests \ {r} : staged[q].tail_lock \cap rows = {}
    /\ staged' = [staged EXCEPT ![r].tail_lock = rows]
    /\ Goto(r, "append_entry")
    /\ UNCHANGED <<db, writer, loop, called, setting, crashes>>

(* The entry is flushed under UNIQUE(tenant_admin_id, seq).                *)
AppendEntry(r) ==
    LET s     == req[r].slot
        entry == Log!NewEntry(req[r].tail, req[r].content, InterviewOf[s]) IN
    /\ req[r].pc = "append_entry"
    /\ \A x \in StagedByOthers(r) : ~SeqTaken(x, s, entry.seq)
    /\ IF SeqTaken(db, s, entry.seq)
       THEN Rollback(r, "500 IntegrityError")
       ELSE /\ staged' = [staged EXCEPT ![r].tables.audit_log =
                            <<[tenant |-> owner(s), row |-> entry]>>]
            /\ Goto(r, "commit")
            /\ UNCHANGED <<db, writer, loop>>
    /\ UNCHANGED <<called, setting, crashes>>

(* The refresh after the commit reads back the row just committed; nothing *)
(* that makes a statement fail here (a lock, a key, a privilege) touches a *)
(* read of one's own row.                                                  *)
CommitRequest(r) ==
    /\ req[r].pc = "commit"
    /\ Commit(r, Answer("ok"))
    /\ FreeLoop(r)
    /\ UNCHANGED <<called, setting, crashes>>

----------------------------------------------------------------------------
(* The loop hands the close of a session to a thread and sends the answer. *)
CloseSession(r) ==
    /\ req[r].pc = "close"
    /\ LoopFree(r)
    /\ Rollback(r, req[r].status)
    /\ UNCHANGED <<called, setting, crashes>>

Respond(r) ==
    /\ req[r].pc = "respond"
    /\ LoopFree(r)
    /\ req' = [req EXCEPT ![r] = Done(req[r].status)]
    /\ UNCHANGED <<db, staged, writer, loop, called, setting, crashes>>

(* SQLite's busy timeout: a first write that finds the lock taken gives up *)
(* with "database is locked".                                              *)
LockTimeout(r) ==
    /\ req[r].pc \in {"insert_response", "record_failed_call", "supersede",
                      "insert_evaluation", "insert_review"}
    /\ ~CanWrite(r)
    /\ Rollback(r, "500 locked")
    /\ UNCHANGED <<called, setting, crashes>>

(* A server process stops: its open transactions are rolled back, nobody   *)
(* it was serving is answered.                                             *)
Crash(w) ==
    LET lost == { r \in InFlight : Worker(r) = w } IN
    /\ crashes < setting.crashes
    /\ crashes' = crashes + 1
    /\ lost # {}
    /\ req' = [r \in Requests |-> IF r \in lost THEN Done("lost") ELSE req[r]]
    /\ staged' = [r \in Requests |-> IF r \in lost THEN NoTransaction ELSE staged[r]]
    /\ writer' = IF writer \in lost THEN NoOne ELSE writer
    /\ loop' = [loop EXCEPT ![w] = NoOne]
    /\ UNCHANGED <<db, called, setting>>

(* A submit waits on its event loop for a unique key whose holder, another *)
(* submit of the same process, has failed and needs that loop to close its *)
(* session.  PostgreSQL sets no limit to the wait.                         *)
SelfBlocked(r) ==
    /\ setting.backend = "postgresql"
    /\ req[r].pc = "insert_response"
    /\ \E q \in Submits \ {r} : /\ Worker(q) = Worker(r)
                                /\ req[q].pc = "close"
                                /\ SlotTaken(staged[q].tables, req[r].slot)

Hang(r) == SelfBlocked(r) /\ UNCHANGED vars

(* Every request has ended. *)
Quiescent ==
    /\ \A r \in Requests : req[r].pc = "done" \/ setting.about[r] = {}
    /\ UNCHANGED vars

Init ==
    /\ setting \in Settings
    /\ db = EmptyTables
    /\ staged = [r \in Requests |-> NoTransaction]
    /\ req = [r \in Requests |-> Idle]
    /\ writer = NoOne
    /\ loop = [w \in Workers |-> NoOne]
    /\ called = {}
    /\ crashes = 0

Arrive(r) == \E s \in setting.about[r] : \/ StartSubmit(r, s)
                                        \/ StartReevaluate(r, s)
                                        \/ StartReview(r, s)

(* The steps a running handler takes by itself. *)
Step(r) ==
    \/ ResumeSubmit(r)
    \/ InsertResponse(r)
    \/ \E p \in LLMResults : ProviderAnswers(r, p) \/ RoutingRaises(r, p)
    \/ ProviderFails(r)
    \/ EvaluateRaises(r)
    \/ RecordFailedCall(r)
    \/ CommitFailedCall(r)
    \/ SupersedeCurrent(r)
    \/ InsertEvaluation(r)
    \/ \E h \in HumanVerdicts : InsertReview(r, h)
    \/ ReadTail(r)
    \/ LockTail(r)
    \/ AppendEntry(r)
    \/ CommitRequest(r)
    \/ CloseSession(r)
    \/ Respond(r)
    \/ LockTimeout(r)

Next == \/ \E r \in Requests : Arrive(r) \/ Step(r)
        \/ \E w \in Workers : Crash(w)
        \/ \E r \in Submits : Hang(r)
        \/ Quiescent

Spec == Init /\ [][Next]_vars

(* Some running handler that can go on is scheduled, and the provider call *)
(* returns: the threads and the event loops are the server's own and the   *)
(* provider is a function (providers/mock.py).  Nothing makes a request    *)
(* arrive or a crash happen.                                               *)
FairSpec == Spec /\ WF_vars(\E r \in Requests : Step(r))

----------------------------------------------------------------------------
(* The shape of every variable.                                            *)
Stages == {"idle", "read_upload", "insert_response", "evaluate",
           "record_failed_call", "commit_failed_call", "supersede",
           "insert_evaluation", "insert_review", "read_tail", "lock_tail",
           "append_entry", "commit", "close", "respond", "done"}

Statuses == {"ok", "404", "409", "422", "500 IntegrityError", "500 ProviderError",
             "500 exception", "500 permission denied", "500 locked", "lost"}

EvaluationRow ==
    [slot : Slots, version : Versions, is_current : BOOLEAN,
     result : { p \in LLMResults : InRange(p) }, verdict : Verdict,
     reason : BOOLEAN, by : Submits \cup Reevaluates]

IsTables(x) ==
    /\ x.responses \subseteq [slot : Slots, by : Submits]
    /\ x.evaluations \subseteq EvaluationRow
    /\ x.reviews \subseteq [slot : Slots, version : Versions,
                            verdict : HumanVerdicts, by : Reviews]
    /\ x.llm_calls \subseteq [by : Submits \cup Reevaluates, succeeded : BOOLEAN]
    /\ x.audit_log \in Seq([tenant : Tenants, row : Log!Row])

PipelineTypeOK ==
    /\ IsTables(db)
    /\ \A r \in Requests :
          /\ IsTables(staged[r].tables)
          /\ staged[r].superseded \subseteq Slots \X Versions
          /\ staged[r].tail_lock \subseteq Log!Row
          /\ req[r].pc \in Stages
          /\ req[r].pc = "done" => req[r].status \in Statuses
    /\ writer \in Requests \cup {NoOne}
    /\ called \subseteq Submits \cup Reevaluates
    /\ loop \in [Workers -> Submits \cup {NoOne}]
    /\ setting \in Settings
    /\ crashes \in 0..setting.crashes

(* models.py:204-207: the versions of a response are 1, 2, ..., exactly    *)
(* one is current and it is the highest, whatever re-evaluations race,     *)
(* roll back or crash.                                                     *)
CurrentIsLatestVersion ==
    \A s \in Slots :
        LET rows == Evaluations(s)
            current == { e \in rows : e.is_current } IN
        /\ { e.version : e \in rows } = 1..Cardinality(rows)
        /\ current = Latest(rows)
        /\ Cardinality(current) <= 1

(* evaluation_service.py:8, "there's no window where the log and the       *)
(* record disagree": the audit log describes exactly the committed         *)
(* evaluations and reviews, each once, with the values of its row, in the  *)
(* chain of the interview's owner.                                         *)
RecordMatchesLog ==
    LET described ==
            { [tenant |-> owner(e.slot), content |-> EvaluationContent(e)] :
                e \in db.evaluations }
            \cup { [tenant |-> owner(v.slot), content |-> ReviewContent(v)] :
                v \in db.reviews } IN
    /\ { [tenant |-> a.tenant, content |-> a.row.content] : a \in ToSet(db.audit_log) }
         = described
    /\ Len(db.audit_log)
         = Cardinality(db.evaluations) + Cardinality(db.reviews)

(* D-7: a human verdict exists only for a flagged evaluation, and at most  *)
(* one for each, also when two reviews were accepted at the same time.     *)
ReviewsOnlyFlagged ==
    \A v \in db.reviews :
        /\ \E e \in db.evaluations :
              Key(e) = Key(v) /\ can_be_human_reviewed(e.verdict)
        /\ ReviewsOf(v) = {v}

(* A request answered with success is on the record and no other is: a     *)
(* 404, 409, 422 or 500 leaves no evaluation and no review behind.         *)
AnswerMatchesRecord ==
    \A r \in Requests :
        LET recorded == \E row \in db.evaluations \cup db.reviews : row.by = r IN
        req[r].pc = "done" =>
            /\ req[r].status = "ok" => recorded
            /\ req[r].status \notin {"ok", "lost"} => ~recorded

(* README C18: each evaluation has its row in the cost ledger, which       *)
(* commits and rolls back with it.                                         *)
LedgerMatchesEvaluations ==
    { c.by : c \in { d \in db.llm_calls : d.succeeded } }
        = { e.by : e \in db.evaluations }

(* models.py:313, "a failed call that produced no evaluation still lands   *)
(* here": a response without any evaluation has, in the ledger, the failed *)
(* call of the request that submitted it.  Nothing else leaves one behind. *)
MissingVerdictIsLogged ==
    \A row \in db.responses :
        Evaluations(row.slot) # {} \/ LedgerRow(row.by, FALSE) \in db.llm_calls

(* models.py:206, 276 and 352: no step changes a committed row, except     *)
(* that an evaluation stops being current.                                 *)
HistoryIsImmutable ==
    [][ /\ db.responses \subseteq db'.responses
        /\ db.reviews \subseteq db'.reviews
        /\ db.llm_calls \subseteq db'.llm_calls
        /\ IsPrefix(db.audit_log, db'.audit_log)
        /\ \A e \in db.evaluations :
              \/ e \in db'.evaluations
              \/ e.is_current /\ [e EXCEPT !.is_current = FALSE] \in db'.evaluations
      ]_vars

(* The verdict a candidate is shown: that of the current evaluation, or of *)
(* its human review (models.py:187 and 268).                               *)
Outcome(s) ==
    { IF ReviewsOf(e) = {} THEN e.verdict
      ELSE (CHOOSE v \in ReviewsOf(e) : TRUE).verdict :
        e \in { f \in Evaluations(s) : f.is_current } }

(* A candidate's outcome never changes without an audit entry about that   *)
(* response in the same commit.                                            *)
OutcomeChangesAreAudited ==
    [][ \A s \in Slots :
          Outcome(s)' # Outcome(s) =>
              \E a \in ToSet(db'.audit_log) \ ToSet(db.audit_log) : a.row.content.subject[1] = s
      ]_vars

(* The audit log of the concurrent transactions implements AuditLog: each  *)
(* commit appends one entry to one tenant's chain or leaves them all alone.*)
AuditLogSpec == Log!Spec

(* Every request that has arrived is answered, unless its process dies:    *)
(* again and again nobody is being served, so nobody is served for ever.   *)
(* The one exception is a process whose event loop waits for itself, see   *)
(* SelfBlocked; no other order of locks, keys and failures stops anyone.   *)
EveryRequestEnds == []<>(InFlight = {} \/ \E r \in Submits : SelfBlocked(r))

----------------------------------------------------------------------------
(* Statements of the repository that the code does not keep; each has its  *)
(* own run.                                                                *)

(* candidate.py:65, evaluation "in the same transaction as the response    *)
(* and its audit entry": a committed response has an evaluation.           *)
ResponseHasEvaluation ==
    \A row \in db.responses : Evaluations(row.slot) # {}

(* interviews.py:203, "409 when the evaluation [...] has already been      *)
(* reviewed".                                                              *)
SecondReviewIsConflict ==
    \A r \in Reviews :
        req[r].pc = "done" => req[r].status # "500 IntegrityError"

(* models.py:310, "one row per provider call".                             *)
OneRowPerProviderCall ==
    \A r \in called :
        req[r].pc = "done" /\ req[r].status # "lost"
            => \E c \in db.llm_calls : c.by = r

(* interviews.py:165: the reason of a re-evaluation is on the record.      *)
ReasonIsOnRecord ==
    \A e \in db.evaluations : e.by \in Reevaluates => e.reason
==============================================================================
