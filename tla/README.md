# Formal model of the interview evaluation platform

TLA+ models, TLC runs and TLAPS proofs for the code under `src/`: a FastAPI
service in which org_admins set up interviews, candidates answer, an LLM
provider evaluates each answer, low-confidence verdicts go to a human, and
every evaluation and review lands in an append-only, hash-chained audit log.
Every definition is translated from the code; `PROJECT.json` ("map") gives the
lines of each.

## 1. Inventory

| Part | Source | State it keeps | Operations | What makes it correct |
|---|---|---|---|---|
| Hash chain | `app/domain/hashing.py` | none (pure) | `compute_entry_hash`, `verify_chain` | equal digests mean equal history, also after changes by hand; the first break is found and stays found |
| Audit service | `app/services/audit_service.py` | `audit_log` rows, one chain per org_admin | `record`, `_tail`, `entries_for_*`, `verify` | gap-free, linked, never forked by concurrent transactions |
| Export endpoints | `app/api/routers/audit.py` | none | two downloads, one verification | an export agrees with the verification it carries |
| Append-only guard | `app/core/database.py` | triggers, privileges | install, drop | no row changes while one trigger is installed, none disappears while the other is |
| Evaluation service | `app/services/evaluation_service.py` | `evaluations`, `llm_calls` | `evaluate_response` | versions 1..n, exactly the last current; record and log commit together |
| Review service | `app/services/review_service.py` | `human_reviews` | `record_review`, `pending_for_admin` | only flagged evaluations, at most one review each |
| Verdict routing | `app/domain/verdicts.py` | none | `route_verdict`, `can_be_human_reviewed`, `final_verdict` | strict threshold, refusal outside 0..100 |
| Candidate endpoints | `app/api/routers/candidate.py` | `responses` | `submit_response`, reads | one response per question and candidate |
| Org-admin endpoints | `app/api/routers/interviews.py` | `interviews`, `questions`, `interview_assignments` | create, assign, re-evaluate, review, lists | every row within one tenant |
| Scoped queries, caller | `app/repositories.py`, `app/api/deps.py` | none | every scoped read | a caller reaches its own tenant only |
| Registration, login | `app/api/routers/auth.py` | `users` | `register`, `login` | a candidate belongs to one org_admin |
| Provider, scoring | `app/providers/`, `app/domain/scoring.py` | none | `evaluate`, `match_concepts`, `score` | confidence in 0..100, lowest at coverage 1/2; ambiguity reaches a human |
| Bring-up | `demo.sh`, `scripts/init_db.py`, `scripts/seed.py` | the schema, triggers, demo rows | create, drop, check, seed, serve | an interrupted run leaves a state the next run repairs; nothing is duplicated or, in production, lost |
| Audio storage | `app/services/storage.py` | files | `store_audio` | a response's file is there before its row |

How they interact: a router opens one session per request (`get_db`), loads
rows through `repositories.py`, and calls a service; the services call
`AuditService.record` in the same session and commit once. Requests share
nothing but the database. `submit_response` is `async` and runs on the event
loop of its process; all other handlers run in the thread pool, and need the loop
for starting, answering and closing their session. The bring-up scripts write
the same tables through their own sessions, beside a server that may be up.

What is hard: requests read rows, wait (for an upload, the provider, a lock)
and write by what they read; SQLite serialises writers by one lock with a
busy timeout, PostgreSQL waits on row locks and unique keys; a failure on any
statement rolls back everything since the last commit, and one path
(`ProviderError`) commits on its way out; the audit log must stay verifiable
through all of it, and say what it can about changes made behind its back.
`PROJECT.json` ("hazards") lists these by line.

## 2. Modules

```
HashChain            pure: digests, rows, verify_chain
  AuditLog           abstract log: one Record action per committed entry
    AuditExport      + a two-query export running beside it
    ExportProofs     theorems about AuditExport
    TamperEvidence   + the guard, and changes made by hand without it
    AuditLogProofs   theorems about AuditLog and verify_chain
    TamperProofs     theorems about TamperEvidence
Verdicts             pure: the confidence gate
  EvaluationPipeline the concurrent requests, statement by statement;
                     implements AuditLog (AuditLogSpec)
    PipelineInvariant its inductive invariant, definitions only
      PipelineSteps  every step but the commits, and a crash, keeps it
      PipelineProofs the commits keep it; theorems, refinement of AuditLog
  Scoring            pure: concept matching, confidence, mock provider
    ScoringProofs    theorems about Scoring and the gate
    BringUp          demo.sh, init_db and seed, interruptible, beside a server
      BringUpProofs  theorems about BringUp
Tenancy              who reaches which row, every request one step
TenancyProofs        theorems about Tenancy
MC*.tla, *.cfg       instances for TLC
```

**HashChain.** A digest is modelled by the material it commits to: a sequence
of envelopes `<<version, seq, content>>`, the genesis value being the empty
one. That is collision resistance, the only thing the log relies on.
`Content` stands for all hashed columns; `interview_id` is kept apart because
it is a column of the row and not part of the digest.

**AuditLog.** `log[t]` is the committed chain of tenant `t` in seq order.
`Record` is `record()` and the commit of its caller. `MaxSeq` bounds chains
for TLC; the theorems hold for every bound.

**AuditExport.** `export` is the progress of one request: `ReadEntries` and
`ReadVerification` are its two queries, between which others commit.

**TamperEvidence.** `guards` holds the triggers that exist: `audit_log_no_update`
aborts every `UPDATE`, `audit_log_no_delete` every `DELETE`, and each is dropped
by a statement of its own. Two history variables remember every row `record()`
wrote (`recorded`) and the chain as the last valid `verify()` read it
(`verified`). The statements the triggers abort are `DeleteRow` and one action
per column or group of columns of an `UPDATE`:

| Statement | Action |
|---|---|
| a hashed column | `EditContent` |
| `prev_hash`, to the digest of any row or the genesis value | `Relink` |
| a hashed column together with the recomputed `entry_hash`, as in `tests/test_audit_chain.py:221` | `Rehash` |
| `seq`, which moves the row to where the sorted query reads it | `Renumber` |
| `interview_id`, which no digest covers | `MoveToInterview` |

A longer forgery, such as recomputing every digest from a row to the end, is a
sequence of these.

**EvaluationPipeline.** One action per statement that others can see or be
blocked by:

| Code | Action |
|---|---|
| existing-response test, 409 | `StartSubmit` |
| `db.add(response); db.flush()` | `InsertResponse` |
| load response with evaluations | `StartReevaluate` |
| provider answers, `_supersede_current` reads | `ProviderAnswers` |
| the result or `route_verdict` raises `ValueError` | `RoutingRaises` |
| `ProviderError`: log the call, commit, raise | `ProviderFails`, `RecordFailedCall`, `CommitFailedCall` |
| any other exception | `EvaluateRaises` |
| `is_current = False; flush` | `SupersedeCurrent` |
| evaluation and ledger row flushed | `InsertEvaluation` |
| load evaluation, both review preconditions | `StartReview` |
| `db.add(review); flush` | `InsertReview` |
| `_tail` query, `FOR UPDATE` granted | `ReadTail`, `LockTail` |
| audit entry flushed | `AppendEntry` |
| `db.commit()`, answer sent | `CommitRequest`, `Respond` |
| `audio.read()` of a spooled upload | `ResumeSubmit` |
| exception, then `get_db`'s `db.close()` | `Raise`, `CloseSession` |
| SQLite `database is locked` | `LockTimeout` |
| a server process stops | `Crash` |

`db` holds the committed tables, `staged[r]` what the open transaction of `r`
has written and locked, `req[r]` where the handler is and what it has read.
What a session loaded stays as loaded (`seen`: SQLAlchemy's identity map with
`expire_on_commit=False`). Transactions are READ COMMITTED on PostgreSQL and
autocommitted reads before the first write on SQLite.

`loop[w]` is the coroutine the event loop of process `w` is running:
`submit_response` takes it (`TakeLoop`) and keeps it until it answers or
raises, because everything after `await audio.read()` is synchronous. Handlers
in the thread pool need the loop free to start, to close a session after an
exception and to answer. `setting` is chosen at the start and says which
database is used, whether its role may still `UPDATE` `audit_log` (on
PostgreSQL `apply_append_only_guards` revokes that from everyone but a
superuser, and `_tail`'s `FOR UPDATE` needs it), how often a process dies, which
process serves a request and what each request is about.

**PipelineInvariant.** The invariant is in a module of its own so that the run
`pipeline` checks the very definition `PipelineSteps` and `PipelineProofs` prove.

**Scoring.** Coverage is a fraction of integers. The rounding of a float at a tie
and the hash-derived jitter are choices, so `Confidences(k, n)` is the set of
what an answer matching `k` of `n` concepts may be given. A text is a sequence of
words with the mark after each, which is all `normalise` tells apart.

**BringUp.** `job` is the command that is running and the phases it has left;
`tables`, `indexes` and `triggers` are the schema; `db` and `staged` hold one row
per thing a property distinguishes (the two demo interviews of a seed are one
row, a submission's response, evaluation, ledger row and audit entry one each).

| Code | Action |
|---|---|
| `demo.sh`, `init_db`, `seed` started with their options | `Start` |
| the refusal in production | `Refuse` |
| each `DROP TRIGGER`, each `DROP TABLE` (or its failure) | `DropTrigger`, `DropTable`, `DropDone` |
| `create_all`: each table, then its unique index | `CreateTable`, `CreateIndex` |
| each `CREATE TRIGGER IF NOT EXISTS` | `CreateTrigger`, `CreateDone` |
| `--if-empty`, `_already_seeded` | `Check` |
| users, interviews, questions, assignments flushed | `SeedSetup` |
| each `_submit`, committed by `evaluate_response` | `SeedSubmit`, `SeedDone` |
| `exec uvicorn`, which fails when a server holds the port; its end | `Serve`, `StopServing` |
| an interrupt or crash at any of these points | `Kill` |
| visitors of the running API | `CreateInterview`, `SubmitResponse` |

On SQLite the driver opens no transaction for DDL, so every CREATE and DROP is
durable by itself, whatever `engine.begin()` suggests. `torn` remembers the
tables whose creation was cut off before their unique index.

**Tenancy.** The tables as sets of rows, one action per writing request, the
queries of `repositories.py` as operators of the same names. Requests are
atomic here; `ScopesOnlyGrow` checks why that is enough for the scope tests:
nothing they read is ever updated or deleted.

In several modules a definition follows a faulty variant of itself
(`NoVersionConstraint` before `VersionTaken`, ...). No specification uses the
variants: `PROJECT.json` ("mutants") names, for each checked property, one that
breaks it when put in place of the definition, which shows that the property
depends on that code.

## 3. Runs

| Run | Instance | Shows |
|---|---|---|
| `audit_export` | 2 tenants, 2 contents, 2 interviews, 3 entries per chain | chains verify and pin their history; an export is covered by its verification, whatever is recorded between its two queries |
| `tamper` | 1 tenant, 2 contents, 3 entries, 3 changes by hand, a second interview to move rows to (270,000 states, up to symmetry) | both triggers keep the log complete and valid, the one against `UPDATE` alone keeps every row one that was recorded; no change by hand alters history behind a digest that still passes; recording on a broken chain neither repairs it nor moves the break |
| `pipeline` | up to 2 submits, 2 re-evaluations and 2 reviews of one or two responses, 2 processes, SQLite and PostgreSQL, 1 crash (11 settings, 105,000 states) | versions, log, ledger and answers agree with the record; a response without evaluation has its failed call in the ledger; the invariant the proofs use holds; `AuditLog` is implemented; every request ends |
| `tenancy` | 3 users, 2 interviews, 2 questions, 2 versions | no row is shown in two tenants; none is stranded |
| `bringup` | 4 commands, 2 copies of the demo, 1 visit, development and production (200,000 states) | the schema ends up complete and guarded, a checked seed never duplicates, demo.sh fails only for a visitor's answer or a port that is taken, a reset with no visitor in its way fails only at users, with nothing else left, or at a port that is taken, with the schema complete, production loses nothing |
| `reset_rebuilds` | as `bringup` | violated: a reset of a seeded database fails at `DROP TABLE users` |
| `seed_atomic` | as `bringup` | violated: an interrupted seed leaves its interviews and submissions |
| `tamper_lost_row` | as `tamper`, without symmetry and constraint | violated: the last row can be removed unnoticed |
| `submit_atomic` | the SQLite settings of `pipeline` | violated: a provider failure commits a response without evaluation |
| `second_review` | 1 submit, 2 reviews, SQLite | violated: the second of two simultaneous reviews gets a 500, not a 409 |
| `call_ledger` | the SQLite settings of `pipeline` | violated: a rolled back request leaves no ledger row for its provider call |
| `reevaluation_reason` | the SQLite settings of `pipeline` | violated: the reason is dropped when version 1 is created by a re-evaluation |

The violation runs state what a comment or the repository's README says and
the code does not do; `PROJECT.json` ("findings") quotes both sides.

**Bounds.** Every race in this code is between two requests over one row: a
slot, a latest version, a flagged evaluation or a chain's tail. Two requests
of a kind over one response, and two responses over one chain, contain each
such pair; the third and fourth request of an instance supply the state the
pair races over, or a bystander. The provider's results are one that stands
at exactly the threshold (70), one just below it (69) and one that is no
confidence (101). `AllSettings` of `MCEvaluationPipeline` lists the settings:
for each database a response submitted and re-evaluated twice, re-evaluated and
reviewed, or submitted twice and re-evaluated; and on PostgreSQL two
re-evaluations and a review at once, two reviews, two responses of one tenant,
the revoked privilege, and two submits on one event loop. A crash takes one of
the two processes with every request it serves, at any point; requests that
have not arrived go on after it. Chains of 3 rows have a first, a last and
inner rows, which is all `verify_chain` tells apart; in `tamper` three
changes by hand forge a chain of two rows completely (rehash the first, relink and
rehash the second) or leave the third row behind. There the constraint
`RecordedForFirst` has `record()` called for one interview only: that column takes
part in no digest and in no test of the verifier. In `tenancy` three users
give two org_admins and a candidate, or one org_admin with two candidates; each
org_admin can own an interview. What the bounds leave open there is closed by
the proofs of `TenancyProofs`.

In `bringup` three commands suffice for an interrupted one, one that meets what
it left and one that repairs it; the fourth follows a failed reset. Two copies
are one more than a checked seed may make. A visitor answers the fourth
question of the seed or creates an interview: one visit makes the seed find a
table it did not fill, or an answer it did not give.

`MCBringUp` also has TLC evaluate four assumptions about `Scoring`: the
confidences printed by a real seed are among those allowed; on every answer of up
to three words and marks, a concept of up to two words is found exactly when its
words stand next to each other, unless a full stop is involved; a full stop hides
the concept it follows; and a concept without a word is found only in an answer
without a token.

**Symmetry** is used in `tenancy`, where ids are interchangeable, and in `tamper`,
where contents are; neither checks liveness.

**Fairness.** `FairSpec` assumes that some running handler that can take a step
takes one (`WF_vars(\E r : Step(r))`): the threads and the event loops are the
server's own and the provider is a function call that returns or raises. That
is less than fairness of each handler, and enough, because every handler is a
finite sequence of steps. Nothing is assumed of clients (arrivals) or of crashes.
On SQLite either the wait or the busy timeout may come first.

`EveryRequestEnds` says that again and again nobody is being served. Its one
exception is `SelfBlocked`, which the code does not exclude: on PostgreSQL a
submit that holds the event loop of its process waits, inside its insert, for the
unique key of another submit of the same process that has raised and needs that
loop to close its session. The disjunct is as narrow as that; any other cycle of
locks, keys, loops and failures would violate the property.

**Deadlock** is checked in every pipeline run and in `audit_export`: when all
requests are done only `Quiescent` is left (and `Hang` in the state just
described), so a state in which requests wait for each other would be reported.
`tamper` and `tenancy` stop at their bounds by construction (all rows written, no
id left) and do not check it, nor do the runs of `BringUp`, whose operator and
visitors may stop at any time.

## 4. Proofs

`AuditLogProofs` holds for every set of tenants, contents and interviews and
every length. It assumes nothing but `MaxSeq \in Nat`, and the model's reading
of SHA-256.

- `TypeCorrect`, `ChainAlwaysVerifies`: `TypeOK` and `ChainIntact` are inductive
  together. `ValidRows` turns `verify_chain(rows).valid`, a minimum over a set,
  into a statement about each row; `AppendKeepsValid` shows that `NewEntry`
  extends a valid chain by a valid row.
- `DigestsPinHistory` follows by the same induction over steps, given
  `ChainIntact`: the new digest is the old one with one envelope more.
- `EditedRowIsDetected`, `RemovedRowIsDetectedUnlessLast` and
  `RehashedRowIsDetectedUnlessLast` are the README's claims C11, C12 and C13
  with their exact conditions. The last two are equivalences: they also say
  what is not detected.
- `MovedRowIsNotDetected`: changing `interview_id` is never detected.
- `OlderVersionIsReported`: a row hashed under another `CHAIN_VERSION` makes its
  chain invalid. hashing.py:14 says the version is stored on every entry "so
  historical chains stay verifiable"; no column of `audit_log` holds it.

`TamperProofs` proves every property of the `tamper` run for any number of
changes by hand and any length of the chains; it assumes in addition that
`MaxTampers` is a natural number.

- `TamperInv` is the strengthening. It says of the log itself no more than its
  type, because a change by hand may leave any rows. It says that every row
  `record()` wrote had the digest of its own columns, and that what `verify()`
  accepted was a valid chain. `TamperTypeCorrect` is its typing part.
- `NoHistoryBehindADigest`: a row that passes has the digest of its own columns
  (`UnbrokenRow`), so with the digest of a recorded row it has the hashed columns
  of that row (`SameDigestSameColumns`). Two unbroken chains that agree in one
  digest agree in the one before it, and so in every row up to it
  (`SameDigestSameHistory`). It does not say that a row which passes was ever
  recorded: a row forged with its digest recomputed passes as the last row, and
  so does a whole chain rehashed to its end. Forging a row means that no later
  digest is one that was vouched for; only somebody who kept one can tell.
- `GuardedLog`: while both triggers exist only record() changes the log, and
  `AppendKeepsValid` applies; while the one against `UPDATE` does, rows can only be
  recorded or removed.
- `NeverRepaired`: appending changes no earlier row, so the first break and its
  reason stay (`AppendKeepsBreak`).

`ExportProofs` proves every property of the `audit_export` run for any number of
commits between the two queries, under `MaxSeqAssumption` alone.

- `ExportImplementsLog`: beside downloads the log is still that of `AuditLog`, so
  `TypeCorrect` and `ChainAlwaysVerifies` carry over.
- `ExportInv` is the strengthening: what the first query read is the slice of a
  prefix of the chain, and after the second query that prefix is no longer than
  what was verified. A commit only extends the chain (`PrefixKept`).
- `ExportsDescribeThemselves` and `VerificationsNeverGoBack` follow.

`ScoringProofs` is about every rubric size and number of matched concepts, every
rounding and jitter the code may produce, and every threshold within the stated
limits. It assumes that the threshold is an integer.

- `ConfidenceInRange`: `route_verdict` never raises for the mock provider.
- `CertaintyNotCorrectness`, `ExtremesAreDecisive`, `AmbiguityEscalates`: the
  claims of scoring.py:52-54 and of README C5 and C6, with their exact ranges.
  In particular a coverage of exactly `PASS_COVERAGE` is asserted correct and
  still goes to a human.
- `NoConceptFlipsAVerdict`: from four concepts on no single concept turns a
  standing `incorrect` into a standing `correct`; `StandingIsDecisive` bounds the
  coverage of a verdict that stands away from one half, on either side.

`PipelineSteps` and `PipelineProofs` prove every invariant and action property of
the `pipeline` run and the refinement, for every finite set of requests, any
slots, interviews, tenants, processes, settings and crashes, both databases, and
every result a provider may return. They assume `PipelineAssumption` (in
particular that the requests are finitely many, without which counting entries
and evaluations means nothing, and that verdicts are those of the code) and an
integer threshold. Each leaf of the argument is about one statement of a handler.

- `PipelineInv` is the inductive invariant, proved by `PipelineInvariantHolds`.
  No property of the run is inductive by itself: whether a commit keeps the
  record in order depends on what its handler read several statements earlier
  and has written meanwhile. So the invariant has three parts.
  `TablesInv`: the committed rows agree with each other and with the chains.
  `KeysAreFree`: a unique key that an open transaction has taken is in no
  committed row and in no other transaction, hence a commit never collides.
  `RequestInv`: at each statement the open transaction holds exactly the rows
  the handler has flushed (`Wrote`, `HoldsRecord`), an evaluation it read is
  still there and, once superseded, stays so (`Evaluating`), the version it
  supersedes is the one before its own, the verdict it reviews is still flagged
  (`Reviewing`), and the tail it read is a row of its tenant's chain
  (`TailIsARow`), although not always the last.
- `OthersKeep` and `QuietStep` are the frame: what a step of one request does to
  the knowledge of the others. Only commits and a crash need more. Commits of an
  evaluation, of a review and of a failed call have a lemma each for every part
  of `TablesInv` they disturb.
- `CurrentVersion`, `LogIsTheRecord`, `LedgerIsComplete`, `AnswersAreTrue`,
  `OneReviewOfFlagged` and `TypeCorrect` follow from the invariant.
  `NothingIsRewritten` and `OutcomesAreExplained` are about a step: the
  supersession that commits is that of an evaluation which is there, and what it
  changes for the candidate is the subject of the entry in the same transaction.
- `MissingVerdictsAreLogged` says what is left of candidate.py:65 (section 5): a
  commit that writes a response writes its evaluation or its failed call.
- `ImplementsAuditLog`: a commit that carries an entry maps to `Record`, every
  other step to a stutter. The entry's number is free (`KeysAreFree`), chains are
  gap-free, and the tail is a row of the chain; so the tail is the *last* row at
  the commit, even where `FOR UPDATE` found no row to lock (the first entry of a
  tenant) or waited and was granted a row that is no longer the last: such an entry
  does not get into `audit_log`. This is what UNIQUE(tenant_admin_id, seq) is for. The subject of an
  entry determines its tenant, and a request is on the record at most once, which
  bounds the chains.
- `EveryChainVerifies` and `TailPinsHistory` carry `ChainAlwaysVerifies` and
  `DigestsPinHistory` of the abstract log over to the concurrent requests.

`BringUpProofs` is about any number of commands, interrupts, copies and visits,
under `BringUpAssumption` and an integer threshold.

- `ProductionKeepsAll` needs no invariant: the two actions that take something
  away are behind the refusal of init_db.py:43.
- `CheckedSeedIsIdempotent` rests on `CopyInv`: while a checked seed has not begun
  there is no copy, although visitors may have created interviews since the test.
- `BuiltSchemaIsGuarded` and `DemoFailsBesideAServerOnly` rest on `SchemaInv`. Every table
  with a unique index is indexed, torn, or still to be indexed by the running
  command, and a command has a "create" left to do (`Todos`, `TodoFacts`) or has
  the whole schema behind it (`PastCreate`). That is why the seed of demo.sh finds
  the tables it writes to after any interrupt, and why demo.sh has nothing left to
  fail at but a visitor's answer and the port.
- `BringUpTypeCorrect` and `SeedShowsEveryDisposition` rest on `BringUpInv`, which
  adds what the seed has done so far (`SeedOK`): the copies are numbered without a
  gap, the rows that set a copy up are in the open transaction until the first
  submission commits, and after that each submission made is on the record with a
  verdict the router may give it. The invariant was checked with TLC on the
  instance of `bringup` before it was proved.
- `OnlyUsersOrThePortStopABuild` says what a command that creates the schema has
  failed at, when no visitor was in its way, and what it leaves. Either that is the
  DROP of users, and users alone is left: it is created first and dropped last
  (`OnlyUsersLeft`). Or it is a port that a server holds (demo.sh:144), and the
  whole schema is there: past "create" the seed finds every table.
- `SeedShowsEveryDisposition` is stated for thresholds from 60 to 96 (the default
  is 70), the range in which it holds whatever the jitter: the answers that match
  half of their rubric score below 60, those that match nothing or everything at
  least 96 (`SeedScores`).

`TenancyProofs` proves every property of the `tenancy` run for any number of
users, interviews, questions and versions, assuming `TenancyAssumption` (the
verdicts are the three of the code, at least one version is allowed).

- `TenancyInv` is the strengthening: ids are unique, every tenant is an
  org_admin who is its own tenant, every question has its interview and every
  interview its org_admin, and a candidate who is assigned or has answered is of
  the interview's tenant. The isolation of two callers is not inductive without
  it: it holds of a row because of how the rows it refers to were made.
- `Frames` and the `...Writers` lemmas say which requests touch which table, so
  each part of the invariant is shown for its own writers only. For the audit
  log they are `Submit`, `Reevaluate` and `SubmitReview`, which share
  `RecordedBy`: one entry, on the chain of the response's tenant.
- `Isolation`: `OneTenant` says that a row belongs to at most one tenant,
  `ViewInTenant` that whatever a caller is shown belongs to its own.
- `Reachability` uses that the interview of a response is unique
  (`ResponseInTenant`); `ChainIsTheOwners` is a part of the invariant;
  `ChecksStayTrue` follows from `RowsStay` without it.

Only model-checked: `EveryRequestEnds`, and that nothing deadlocks: liveness under
fairness and ENABLED are beyond the provers. That `match_concepts` finds phrases
is evaluated over bounded texts only, because it is an induction over data. The
statements the code does not keep (section 5) are refuted by runs.

## 5. Where the code differs from what it says

Each is a violation run, quoted with its lines in `PROJECT.json` ("findings"):
the lost last row (`tamper_lost_row`), the response committed without its
evaluation (`submit_atomic`), the 500 for a second review (`second_review`), the
missing ledger row (`call_ledger`), the dropped reason (`reevaluation_reason`),
the reset that fails (`reset_rebuilds`), the seed that is not one transaction
(`seed_atomic`). Met while modelling and listed as hazards: the event loop that
waits for itself, the revoked `UPDATE` privilege, the unique index an interrupted
`create_all` never gets back, the answer that seed.py:93 calls 5/5 and that
matches 4, and `--if-empty`, whose help speaks of evaluations and whose test is on
interviews.

## 6. Not modelled

- Password hashing, tokens and their expiry, wire formats and validation beyond
  the 422 of a submit: no state that another request can observe.
- Audio files (`storage.py`): written before the response, never deleted and read
  only through the path in a row; a file that no row names is possible and
  harmless to everything modelled.
- Registration in two steps: the e-mail test and the insert race only for the
  unique index.
- Changes of `audit_log` by hand other than `UPDATE` and `DELETE` within one chain:
  no trigger forbids an `INSERT`, and a row can be given to another tenant.
- `db.refresh` after a commit (a read of the row just written), and database errors
  other than a lock, a unique key, a privilege and a crash. In `BringUp`,
  `_already_seeded` takes any `SQLAlchemyError` for an empty database; the model has
  the one that occurs there, a missing table.
- `--host` and `--port` of demo.sh: every server listens on the default port.
- A bump of `CHAIN_VERSION` between two runs of the program, except for
  `OlderVersionIsReported`.
- Bring-up on PostgreSQL, where DDL is transactional; two commands at once; the
  refusals of demo.sh and seed.py that stop before the first statement
  (`DATABASE_URL` elsewhere, contradictory options); installing Python packages.
- Prices, latencies, prompts, explanations and canonical JSON (part of `Content`).
- `readme_claims.py` and `escalation_artifact.py`: a parser of a README table and
  a script that draws one recorded request; they are not part of the system.

## 7. Plan

1. Done: all modules of section 2, the runs of section 3, the proofs of
   section 4.
2. Done: the invariant of `EvaluationPipeline`, its consequences and the
   refinement of `AuditLog`; the remaining invariants of `BringUp`.
3. Left: the exact condition under which an interrupted seed leaves a copy, as a
   theorem beside the run `seed_atomic`; the safety part of `EveryRequestEnds`, that no two
   requests wait for each other's keys.
