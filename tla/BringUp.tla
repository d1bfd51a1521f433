------------------------------- MODULE BringUp -------------------------------
(***************************************************************************)
(* Building, seeding and serving the SQLite database: demo.sh,             *)
(* scripts/init_db.py and scripts/seed.py, run by an operator in any order *)
(* and interrupted anywhere, beside a server that is already up.           *)
(*                                                                         *)
(* A command is a sequence of phases, one process each, and ends at the    *)
(* first that fails (set -e, check=True).  One action per durable step:    *)
(* the sqlite3 driver opens a transaction for INSERT, UPDATE and DELETE    *)
(* only, so engine.begin() does not cover the DDL and every CREATE and     *)
(* DROP is durable by itself.                                              *)
(***************************************************************************)
EXTENDS Scoring, FiniteSets, SequencesExt

CONSTANTS Environments,     \* values of settings.environment
          MaxCopies,        \* bound on the copies of the demo interviews
          MaxCommands,      \* bound on the commands the operator runs
          MaxVisits,        \* bound on what visitors of the server do
          Visited           \* the questions of a copy that they answer

ASSUME BringUpAssumption ==
    /\ Environments \subseteq {"development", "test", "production"}
    /\ MaxCopies \in Nat \ {0}
    /\ MaxCommands \in Nat
    /\ MaxVisits \in Nat
    /\ Visited \subseteq Nat

(* The order of Base.metadata.create_all, referenced tables first;         *)
(* drop_all goes the other way.                                            *)
CreateOrder == <<"users", "interviews", "audit_log", "questions",
                 "interview_assignments", "responses", "evaluations",
                 "human_reviews", "llm_calls">>
Tables == ToSet(CreateOrder)

(* Two unique columns are indexes, created after their table: users.email  *)
(* and human_reviews.evaluation_id.                                        *)
Indexed == {"users", "human_reviews"}

Triggers == <<"audit_log_no_update", "audit_log_no_delete">>

VARIABLES
    environment,    \* settings.environment, fixed
    tables,         \* the tables that exist
    indexes,        \* the tables of Indexed whose unique index exists
    triggers,       \* the triggers that exist
    db,             \* [Tables -> committed rows]
    staged,         \* [Tables -> rows of the seed's open transaction]
    job,            \* the command that is running and what it has left to do
    last,           \* how the last command ended, when none is running
    serving,        \* the API is up
    torn,           \* tables whose creation was interrupted
    runs,           \* number of commands started
    visits

vars == <<environment, tables, indexes, triggers, db, staged, job, last,
          serving, torn, runs, visits>>
schema  == <<tables, indexes, triggers, torn>>
data    == <<db, staged>>
command == <<job, last>>
world   == <<environment, serving, runs, visits>>

NoRows == [t \in Tables |-> {}]
NoEnd  == [cmd |-> "none", phase |-> "none", outcome |-> "done", copy |-> 0]
NoJob  == [cmd |-> "none", todo |-> <<>>, checked |-> FALSE, copy |-> 0, submitted |-> 0]

Commands ==
    [demo          |-> <<"create", "check", "seed", "serve">>,
     demo_reset    |-> <<"drop", "create", "check", "seed", "serve">>,
     init_db       |-> <<"create">>,
     init_db_drop  |-> <<"drop", "create">>,
     seed          |-> <<"seed">>,
     seed_if_empty |-> <<"check", "seed">>,
     seed_reset    |-> <<"drop", "create", "seed">>,
     uvicorn       |-> <<"serve">>]

Phase == IF job.todo = <<>> THEN "none" ELSE Head(job.todo)

End(outcome) ==
    /\ last' = [cmd |-> job.cmd, phase |-> Phase, outcome |-> outcome, copy |-> job.copy]
    /\ job' = NoJob

(* A phase has ended well. *)
Advance ==
    IF Len(job.todo) = 1 THEN End("done")
    ELSE job' = [job EXCEPT !.todo = Tail(@)] /\ UNCHANGED last

----------------------------------------------------------------------------
(* The rows of the seed.  An interview row is <<copy, checked>>: the copy  *)
(* of the two demo interviews, and whether --if-empty asked for it; a      *)
(* visitor's interview is copy 0.  A submission is <<copy, number>>.       *)

(* What the answers of the seed match of their rubrics.  The first misses  *)
(* "same result", which its text ends a sentence with.                     *)
SeedAnswers == <<[matched |-> 4, size |-> 5], [matched |-> 0, size |-> 5],
                 [matched |-> 2, size |-> 4], [matched |-> 2, size |-> 4],
                 [matched |-> 4, size |-> 4], [matched |-> 4, size |-> 4]>>
Submissions == DOMAIN SeedAnswers

Copies == { row[1] : row \in db["interviews"] } \ {0}

Setup(copy, checked) ==
    [t \in Tables |->
        CASE t = "users" -> {"admins", "candidates"}
          [] t \in {"interviews", "questions", "interview_assignments"}
               -> {<<copy, checked>>}
          [] OTHER -> {}]

(* A response with its evaluation, ledger row and audit entry. *)
Submission(copy, i, verdict) ==
    [t \in Tables |->
        CASE t \in {"responses", "llm_calls", "audit_log"} -> {<<copy, i>>}
          [] t = "evaluations" -> {<<copy, i, verdict>>}
          [] OTHER -> {}]

(* human_reviews is the one table no submission writes to. *)
CanSubmit == Tables \ {"human_reviews"} \subseteq tables

Answered(copy, i) == <<copy, i>> \in db["responses"]

Insert(rows) == db' = [t \in Tables |-> db[t] \cup rows[t]]

SeedVerdicts(i) == { route_verdict(result) :
                       result \in evaluate(SeedAnswers[i].matched, SeedAnswers[i].size) }

----------------------------------------------------------------------------
(* init_db.py *)

(* The refusal comes before anything is dropped. *)
Refuse ==
    /\ Phase = "drop"
    /\ environment = "production"
    /\ End("refused")
    /\ UNCHANGED <<schema, data, world>>

MayDrop == Phase = "drop" /\ environment # "production"

GuardsDroppedBeforeTheRefusal ==
    /\ Phase = "drop"
    /\ triggers # {}
    /\ LET first == SelectInSeq(Triggers, LAMBDA g : g \in triggers) IN
       triggers' = triggers \ {Triggers[first]}
    /\ UNCHANGED <<tables, indexes, torn, data, world, command>>

DropTrigger ==
    /\ MayDrop
    /\ triggers # {}
    /\ LET first == SelectInSeq(Triggers, LAMBDA g : g \in triggers) IN
       triggers' = triggers \ {Triggers[first]}
    /\ UNCHANGED <<tables, indexes, torn, data, world, command>>

FirstTable == CreateOrder[SelectInSeq(CreateOrder, LAMBDA t : t \in tables)]

LastTable == CreateOrder[SelectLastInSeq(CreateOrder, LAMBDA t : t \in tables)]

GuardsIgnored == TRUE

(* "The append-only triggers reference audit_log and must go first." *)
GuardsGone == triggers = {}

(* SQLite refuses to drop users while a candidate's row refers to another  *)
(* row of the table (ondelete RESTRICT).                                   *)
DropTable ==
    /\ MayDrop
    /\ GuardsGone
    /\ tables # {}
    /\ IF LastTable = "users" /\ "candidates" \in db["users"]
       THEN End("failed") /\ UNCHANGED <<tables, indexes, torn, db>>
       ELSE /\ tables' = tables \ {LastTable}
            /\ indexes' = indexes \ {LastTable}
            /\ torn' = torn \ {LastTable}
            /\ db' = [db EXCEPT ![LastTable] = {}]
            /\ UNCHANGED <<command>>
    /\ UNCHANGED <<triggers, staged, world>>

DropDone ==
    /\ MayDrop
    /\ GuardsGone /\ tables = {}
    /\ Advance
    /\ UNCHANGED <<schema, data, world>>

(* A table created by this run still lacks its index. *)
Unindexed == (Indexed \cap tables) \ (indexes \cup torn)

MissingTables == Tables \ tables

CreateOverExisting ==
    /\ Phase = "create"
    /\ Unindexed = {} /\ MissingTables # {}
    /\ IF tables # {} THEN End("failed") /\ UNCHANGED tables
       ELSE tables' = Tables /\ UNCHANGED <<command>>
    /\ UNCHANGED <<indexes, triggers, torn, data, world>>

(* checkfirst: a table that exists is skipped, with its indexes. *)
CreateTable ==
    /\ Phase = "create"
    /\ Unindexed = {}
    /\ \E i \in DOMAIN CreateOrder :
          /\ CreateOrder[i] \in MissingTables
          /\ \A j \in 1..(i - 1) : CreateOrder[j] \notin MissingTables
          /\ tables' = tables \cup {CreateOrder[i]}
    /\ UNCHANGED <<indexes, triggers, torn, data, world, command>>

CreateIndex ==
    /\ Phase = "create"
    /\ Unindexed # {}
    /\ indexes' = indexes \cup Unindexed
    /\ UNCHANGED <<tables, triggers, torn, data, world, command>>

GuardsOnAnEmptyLogOnly ==
    { g \in ToSet(Triggers) \ triggers : db["audit_log"] = {} }

(* CREATE TRIGGER IF NOT EXISTS, in order *)
MissingTriggers == ToSet(Triggers) \ triggers

CreateTrigger ==
    /\ Phase = "create"
    /\ Unindexed = {} /\ MissingTables = {}
    /\ \E i \in DOMAIN Triggers :
          /\ Triggers[i] \in MissingTriggers
          /\ \A j \in 1..(i - 1) : Triggers[j] \notin MissingTriggers
          /\ triggers' = triggers \cup {Triggers[i]}
    /\ UNCHANGED <<tables, indexes, torn, data, world, command>>

CreateDone ==
    /\ Phase = "create"
    /\ Unindexed = {} /\ MissingTables = {} /\ MissingTriggers = {}
    /\ Advance
    /\ UNCHANGED <<schema, data, world>>

----------------------------------------------------------------------------
(* seed.py *)

SeededByEvaluations == "evaluations" \in tables /\ db["evaluations"] # {}

(* _already_seeded: a query that fails holds nothing to find.  The one     *)
(* error in reach here is the missing table; seed.py:144 treats every      *)
(* SQLAlchemyError like it.                                                *)
AlreadySeeded == "interviews" \in tables /\ db["interviews"] # {}

(* --if-empty: the phase that seeds is skipped. *)
Check ==
    /\ Phase = "check"
    /\ IF ~AlreadySeeded
       THEN job' = [job EXCEPT !.todo = Tail(@), !.checked = TRUE] /\ UNCHANGED last
       ELSE IF Len(job.todo) = 2 THEN End("done")
       ELSE job' = [job EXCEPT !.todo = Tail(Tail(@))] /\ UNCHANGED last
    /\ UNCHANGED <<schema, data, world>>

Abandon(outcome) == End(outcome) /\ staged' = NoRows

(* Users are reused by e-mail; interviews and assignments are always new.  *)
SeedSetup ==
    LET copy == 1 + Max(Copies \cup {0}) IN
    /\ Phase = "seed"
    /\ job.copy = 0
    /\ IF {"users", "interviews", "questions", "interview_assignments"} \subseteq tables
       THEN /\ staged' = Setup(copy, job.checked)
            /\ job' = [job EXCEPT !.copy = copy]
            /\ UNCHANGED last
       ELSE Abandon("failed")
    /\ UNCHANGED <<schema, db, world>>

(* _submit: evaluate_response commits, and with it whatever the session    *)
(* has written so far; a visitor may have answered first.                  *)
SeedSubmit ==
    LET i == job.submitted + 1 IN
    /\ Phase = "seed"
    /\ job.copy # 0
    /\ i \in Submissions
    /\ IF ~CanSubmit THEN Abandon("failed") /\ UNCHANGED db
       ELSE IF Answered(job.copy, i) THEN Abandon("overtaken") /\ UNCHANGED db
       ELSE /\ \E verdict \in SeedVerdicts(i) :
                  LET new == Submission(job.copy, i, verdict) IN
                  Insert([t \in Tables |-> staged[t] \cup new[t]])
            /\ staged' = NoRows
            /\ job' = [job EXCEPT !.submitted = i]
            /\ UNCHANGED last
    /\ UNCHANGED <<schema, world>>

SeedDone ==
    /\ Phase = "seed"
    /\ job.submitted = Len(SeedAnswers)
    /\ Advance
    /\ UNCHANGED <<schema, data, world>>

----------------------------------------------------------------------------
(* The operator and the visitors *)

Start(cmd) ==
    /\ job = NoJob
    /\ "seed" \in ToSet(Commands[cmd]) => Cardinality(Copies) < MaxCopies
    /\ job' = [NoJob EXCEPT !.cmd = cmd, !.todo = Commands[cmd]]
    /\ last' = NoEnd
    /\ runs < MaxCommands
    /\ runs' = runs + 1
    /\ UNCHANGED <<environment, schema, serving, data, visits>>

(* exec uvicorn, on the default port: it exits with an error when a server *)
(* listens there already.                                                  *)
Serve ==
    /\ Phase = "serve"
    /\ IF serving THEN End("port_taken") /\ UNCHANGED serving
       ELSE serving' = TRUE /\ Advance
    /\ UNCHANGED <<environment, schema, runs, data, visits>>

StopServing ==
    /\ serving
    /\ serving' = FALSE
    /\ UNCHANGED <<environment, schema, runs, data, visits, command>>

(* The operator interrupts the command, or it crashes. *)
Kill ==
    /\ job # NoJob
    /\ torn' = torn \cup Unindexed
    /\ Abandon("killed")
    /\ UNCHANGED <<tables, indexes, triggers, db, world>>

(* A request of the API; the write lock of a seed in progress keeps it out.*)
Visit(rows) ==
    /\ serving
    /\ staged = NoRows
    /\ visits < MaxVisits
    /\ visits' = visits + 1
    /\ Insert(rows)
    /\ UNCHANGED <<environment, schema, staged, serving, runs, command>>

CreateInterview ==
    /\ {"users", "interviews", "questions"} \subseteq tables
    /\ Visit([NoRows EXCEPT !["users"] = {"visitor"},
                            !["interviews"] = {<<0, FALSE>>},
                            !["questions"] = {<<0, FALSE>>}])

SubmitResponse(copy, i) ==
    /\ CanSubmit
    /\ copy \in { row[1] : row \in db["interview_assignments"] }
    /\ ~Answered(copy, i)
    /\ \E verdict \in Verdict : Visit(Submission(copy, i, verdict))

----------------------------------------------------------------------------
Init ==
    /\ environment \in Environments
    /\ tables = {} /\ indexes = {} /\ triggers = {} /\ torn = {}
    /\ db = NoRows /\ staged = NoRows
    /\ job = NoJob
    /\ last = NoEnd
    /\ serving = FALSE
    /\ runs = 0
    /\ visits = 0

InitDb == \/ Refuse \/ DropTrigger \/ DropTable \/ DropDone
          \/ CreateTable \/ CreateIndex \/ CreateTrigger \/ CreateDone

Seed == Check \/ SeedSetup \/ SeedSubmit \/ SeedDone

Next ==
    \/ \E cmd \in DOMAIN Commands : Start(cmd)
    \/ InitDb
    \/ Seed
    \/ Serve
    \/ StopServing
    \/ Kill
    \/ CreateInterview
    \/ \E copy \in 1..MaxCopies, i \in Visited : SubmitResponse(copy, i)

Spec == Init /\ [][Next]_vars

----------------------------------------------------------------------------
(* The shape of every variable.                                            *)
Outcomes == {"done", "refused", "failed", "overtaken", "port_taken", "killed"}

SeededRow == (0..MaxCopies) \X BOOLEAN
Answer    == (1..MaxCopies) \X (Submissions \cup Visited)

RowsOf(t) ==
    CASE t = "users" -> {"admins", "candidates", "visitor"}
      [] t \in {"interviews", "questions", "interview_assignments"} -> SeededRow
      [] t = "evaluations" -> (1..MaxCopies) \X (Submissions \cup Visited) \X Verdict
      [] OTHER -> Answer

BringUpTypeOK ==
    /\ environment \in Environments
    /\ tables \subseteq Tables
    /\ indexes \subseteq Indexed \cap tables
    /\ torn \subseteq Indexed \cap tables
    /\ triggers \subseteq ToSet(Triggers)
    /\ triggers # {} => "audit_log" \in tables
    /\ \A t \in Tables : /\ db[t] \cup staged[t] \subseteq RowsOf(t)
                         /\ db[t] # {} => t \in tables
    /\ job = NoJob \/ /\ job.cmd \in DOMAIN Commands
                      /\ IsSuffix(job.todo, Commands[job.cmd])
                      /\ job.copy \in 0..MaxCopies
                      /\ job.submitted \in 0..Len(SeedAnswers)
    /\ last.outcome \in Outcomes
    /\ serving \in BOOLEAN
    /\ runs \in 0..MaxCommands
    /\ visits \in 0..MaxVisits

Built(cmd, todo) == cmd # "none" /\ "create" \in ToSet(Commands[cmd]) \ ToSet(todo)

(* init_db.py:3-6, the guards are "the part a plain `create_all` would     *)
(* miss": once a command has got past creating the schema, every table and *)
(* both triggers exist, whatever was interrupted before.  The unique       *)
(* indexes of users.email and human_reviews.evaluation_id exist as well,   *)
(* except on a table whose creation an earlier command did not survive:    *)
(* no later run adds those.                                                *)
ReadyIsGuarded ==
    (\/ Built(job.cmd, job.todo)
     \/ job = NoJob /\ last.outcome = "done" /\ Built(last.cmd, <<>>))
    => /\ tables = Tables
       /\ triggers = ToSet(Triggers)
       /\ indexes = Indexed \ torn

(* seed.py:134-145: however often a seed that was asked to check first is  *)
(* interrupted and run again, it adds at most one copy of the demo         *)
(* interviews, and none to a database that has one.                        *)
OneCheckedCopy ==
    \A row \in db["interviews"] : row[2] => row[1] = 1

(* README C5 and C6: a seed that ran to its end has recorded all six       *)
(* submissions, and every disposition of the router is among them.         *)
CompletedSeedCoversRouter ==
    job.submitted = Len(SeedAnswers) =>
        /\ \A i \in Submissions : /\ Answered(job.copy, i)
                                  /\ <<job.copy, i>> \in db["audit_log"]
        /\ { row[3] : row \in { e \in db["evaluations"] : e[1] = job.copy } } = Verdict

(* demo.sh:12, "Re-running is safe": demo.sh brings up the API from any    *)
(* state that interrupted and failed commands leave behind.  It exits with *)
(* an error only when a visitor answers a question before the seed does,   *)
(* or at its end, when a server holds the port already.                    *)
RerunSucceeds ==
    last.cmd = "demo" => last.outcome \in {"done", "killed", "overtaken", "port_taken"}

(* init_db.py:51-57 and demo.sh:144: when no visitor is in its way, two    *)
(* things make a command fail that creates the schema.  One is the DROP of *)
(* users, for the candidates in it, and then nothing else is left: every   *)
(* other table went before it, the log with its guards.  The other is a    *)
(* server that holds the port, and then the whole schema is there.         *)
FailedResetLeavesUsers ==
    (last.outcome \in {"failed", "port_taken"} /\ Built(last.cmd, <<>>)) =>
        \/ /\ last.phase = "drop"
           /\ tables = {"users"} /\ "candidates" \in db["users"]
           /\ triggers = {}
        \/ /\ last.phase = "serve"
           /\ tables = Tables /\ triggers = ToSet(Triggers)

(* init_db.py:43: nothing an operator or a visitor does in production      *)
(* takes away a row, a table or a guard.                                   *)
ProductionLosesNothing ==
    [][ environment = "production" =>
          /\ tables \subseteq tables' /\ indexes \subseteq indexes'
          /\ triggers \subseteq triggers'
          /\ \A t \in Tables : db[t] \subseteq db'[t]
      ]_vars

----------------------------------------------------------------------------
(* Statements of the repository that the code does not keep; each has its  *)
(* own run.                                                                *)

(* demo.sh:20, "rebuild the schema from scratch before seeding", and       *)
(* init_db.py:33, "drop all tables first": a reset does not fail before it *)
(* serves.                                                                 *)
ResetRebuilds ==
    "drop" \in ToSet((Commands @@ [none |-> <<>>])[last.cmd]) => last.outcome # "failed"

(* seed.py:264-265, "an interrupt rolls the whole thing back and leaves    *)
(* nothing to re-detect".                                                  *)
InterruptLeavesNothing ==
    (last.phase = "seed" /\ last.outcome = "killed") => last.copy \notin Copies
==============================================================================
