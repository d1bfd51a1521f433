---------------------------- MODULE BringUpProofs ----------------------------
(***************************************************************************)
(* Bringing the database up, for every number of commands, interrupts,     *)
(* copies and visits.                                                      *)
(***************************************************************************)
EXTENDS BringUp, FiniteSetTheorems, TLAPS

(* The refusal of production comes before the first DROP, and nothing else *)
(* takes a row, a table, an index or a trigger away.                       *)
THEOREM ProductionKeepsAll == Spec => ProductionLosesNothing
<1> DEFINE Kept ==
             environment = "production" =>
               /\ tables \subseteq tables' /\ indexes \subseteq indexes'
               /\ triggers \subseteq triggers'
               /\ \A t \in Tables : db[t] \subseteq db'[t]
<1>1. ASSUME Next PROVE Kept
  <2>1. ASSUME UNCHANGED <<tables, indexes, triggers, db>> PROVE Kept
    BY <2>1
  <2>2. ASSUME NEW rows, UNCHANGED <<tables, indexes, triggers>>, Insert(rows)
        PROVE  Kept
    BY <2>2 DEF Insert
  <2>3. CASE InitDb
    <3>1. CASE Refuse \/ DropDone \/ CreateDone
      BY <3>1, <2>1 DEF Refuse, DropDone, CreateDone, schema, data
    <3>2. CASE DropTrigger \/ DropTable
      BY <3>2 DEF DropTrigger, DropTable, MayDrop
    <3>3. CASE CreateTable \/ CreateIndex \/ CreateTrigger
      BY <3>3 DEF CreateTable, CreateIndex, CreateTrigger, data
    <3>4. QED
      BY <2>3, <3>1, <3>2, <3>3 DEF InitDb
  <2>4. CASE Seed
    <3>1. CASE Check \/ SeedSetup \/ SeedDone
      BY <3>1, <2>1 DEF Check, SeedSetup, SeedDone, schema, data
    <3>2. CASE SeedSubmit
      BY <3>2, <2>1, <2>2 DEF SeedSubmit, schema
    <3>3. QED
      BY <2>4, <3>1, <3>2 DEF Seed
  <2>5. CASE (\E cmd \in DOMAIN Commands : Start(cmd)) \/ Serve \/ StopServing \/ Kill
    BY <2>5, <2>1 DEF Start, Serve, StopServing, Kill, schema, data
  <2>6. CASE CreateInterview \/ \E copy \in 1..MaxCopies, i \in Visited : SubmitResponse(copy, i)
    BY <2>6, <2>2 DEF CreateInterview, SubmitResponse, Visit, schema
  <2>7. QED
    BY <1>1, <2>3, <2>4, <2>5, <2>6 DEF Next
<1>2. [Next]_vars => [Kept]_vars
  BY <1>1
<1>3. QED
  BY <1>2, PTL DEF Spec, ProductionLosesNothing

----------------------------------------------------------------------------
(* The inductive invariant of the checked copy.  While a checked seed has  *)
(* not begun there is no copy: whatever visitors add is their own.         *)
IsJob ==
    job = [cmd |-> job.cmd, todo |-> job.todo, checked |-> job.checked,
           copy |-> job.copy, submitted |-> job.submitted]

FirstIfChecked(rows) == \A row \in rows : row[2] => row[1] = 1

CopyInv ==
    /\ IsJob
    /\ db = [t \in Tables |-> db[t]]
    /\ "interviews" \notin tables => db["interviews"] = {}
    /\ FirstIfChecked(db["interviews"]) /\ FirstIfChecked(staged["interviews"])
    /\ job.checked /\ job.copy = 0 => Copies = {}

LEMMA TableNames ==
    {"users", "interviews", "questions", "interview_assignments", "human_reviews"}
        \subseteq Tables
<1>1. /\ CreateOrder[1] = "users" /\ CreateOrder[2] = "interviews"
      /\ CreateOrder[4] = "questions" /\ CreateOrder[5] = "interview_assignments"
      /\ CreateOrder[8] = "human_reviews"
      /\ {1, 2, 4, 5, 8} \subseteq DOMAIN CreateOrder
  BY DEF CreateOrder
<1>2. QED
  BY <1>1 DEF Tables, ToSet

(* A command that ends or passes on to its next phase.                     *)
LEMMA JobSteps ==
    ASSUME CopyInv
    PROVE  /\ \A outcome : End(outcome) => IsJob' /\ ~job'.checked
           /\ Advance => /\ IsJob'
                         /\ job'.checked => job'.checked = job.checked /\ job'.copy = job.copy
<1>1. ASSUME NEW outcome, End(outcome) PROVE IsJob' /\ ~job'.checked
  BY <1>1 DEF End, NoJob, IsJob
<1>2. ASSUME Advance
      PROVE  /\ IsJob'
             /\ job'.checked => job'.checked = job.checked /\ job'.copy = job.copy
  <2>1. CASE End("done")
    BY <1>1, <2>1
  <2>2. CASE job' = [job EXCEPT !.todo = Tail(@)]
    BY <2>2 DEF CopyInv, IsJob
  <2>3. QED
    BY <1>2, <2>1, <2>2 DEF Advance
<1>3. QED
  BY <1>1, <1>2

(* A step that only moves a command on, or builds tables, keeps it.        *)
LEMMA CommandKeepsCopyInv ==
    ASSUME CopyInv, UNCHANGED db, staged' \in {staged, NoRows},
           tables \subseteq tables', IsJob',
           job'.checked => job'.checked = job.checked /\ job'.copy = job.copy
    PROVE  CopyInv'
<1>1. FirstIfChecked(NoRows["interviews"])
  BY TableNames DEF FirstIfChecked, NoRows
<1>2. QED
  BY <1>1 DEF CopyInv, FirstIfChecked, Copies

LEMMA CopyInvInit == Init => CopyInv
  BY TableNames DEF Init, CopyInv, IsJob, NoJob, NoRows, FirstIfChecked

LEMMA InitDbKeepsCopyInv == CopyInv /\ InitDb => CopyInv'
<1> SUFFICES ASSUME CopyInv, InitDb PROVE CopyInv'
  OBVIOUS
<1>1. CASE Refuse
  BY <1>1, JobSteps, CommandKeepsCopyInv DEF Refuse, data, schema
<1>2. CASE DropDone \/ CreateDone
  BY <1>2, JobSteps, CommandKeepsCopyInv DEF DropDone, CreateDone, data, schema
<1>3. CASE DropTrigger \/ CreateTable \/ CreateIndex \/ CreateTrigger
  <2>1. /\ UNCHANGED <<db, staged, job>> /\ tables \subseteq tables'
    BY <1>3 DEF DropTrigger, CreateTable, CreateIndex, CreateTrigger, data, command
  <2>2. IsJob'
    BY <2>1 DEF CopyInv, IsJob
  <2>3. QED
    BY <2>1, <2>2, CommandKeepsCopyInv
<1>4. CASE DropTable
  <2>1. CASE \E outcome : End(outcome) /\ UNCHANGED <<tables, db, staged>>
    BY <2>1, JobSteps, CommandKeepsCopyInv
  <2>2. CASE /\ tables' = tables \ {LastTable}
             /\ db' = [db EXCEPT ![LastTable] = {}]
             /\ UNCHANGED <<staged, job>>
    <3>1. \/ db'["interviews"] = {}
          \/ db'["interviews"] = db["interviews"]
             /\ ("interviews" \in tables' <=> "interviews" \in tables)
      BY <2>2, TableNames DEF CopyInv
    <3>2. db' = [t \in Tables |-> db'[t]]
      BY <2>2 DEF CopyInv
    <3>3. QED
      BY <2>2, <3>1, <3>2 DEF CopyInv, IsJob, FirstIfChecked, Copies
  <2>3. QED
    BY <1>4, <2>1, <2>2 DEF DropTable, command
<1>5. QED
  BY <1>1, <1>2, <1>3, <1>4 DEF InitDb

LEMMA SeedKeepsCopyInv == CopyInv /\ Seed => CopyInv'
<1> SUFFICES ASSUME CopyInv, Seed PROVE CopyInv'
  OBVIOUS
<1>1. CASE Check
  <2>1. UNCHANGED <<tables, db, staged>>
    BY <1>1 DEF Check, schema, data
  <2>2. CASE ~AlreadySeeded /\ job' = [job EXCEPT !.todo = Tail(@), !.checked = TRUE]
    <3>1. db["interviews"] = {}
      BY <2>2 DEF AlreadySeeded, CopyInv
    <3>2. Copies = {}
      BY <3>1 DEF Copies
    <3>3. IsJob'
      BY <2>2 DEF CopyInv, IsJob
    <3>4. QED
      BY <2>1, <3>2, <3>3 DEF CopyInv, FirstIfChecked, Copies
  <2>3. CASE End("done")
    BY <2>1, <2>3, JobSteps, CommandKeepsCopyInv
  <2>4. CASE job' = [job EXCEPT !.todo = Tail(Tail(@))]
    <3>1. IsJob' /\ job'.checked = job.checked /\ job'.copy = job.copy
      BY <2>4 DEF CopyInv, IsJob
    <3>2. QED
      BY <2>1, <3>1, CommandKeepsCopyInv
  <2>5. QED
    BY <1>1, <2>2, <2>3, <2>4 DEF Check
<1>2. CASE SeedSetup
  <2> DEFINE copy == 1 + Max(Copies \cup {0})
  <2>1. UNCHANGED <<tables, db>> /\ job.copy = 0
    BY <1>2 DEF SeedSetup, schema
  <2>2. CASE staged' = Setup(copy, job.checked) /\ job' = [job EXCEPT !.copy = copy]
    <3>1. job.checked => Copies = {}
      BY <2>1 DEF CopyInv
    <3>2. ASSUME job.checked PROVE copy = 1
      <4>1. Copies \cup {0} = {0}
        BY <3>1, <3>2
      <4>2. Max({0}) = 0
        BY DEF Max
      <4>3. QED
        BY <4>1, <4>2
    <3> HIDE DEF copy
    <3>3. staged'["interviews"] = {<<copy, job.checked>>}
      BY <2>2, TableNames DEF Setup
    <3>4. FirstIfChecked(staged'["interviews"])
      BY <3>2, <3>3 DEF FirstIfChecked
    <3>5. IsJob' /\ job'.checked = job.checked
      BY <2>2 DEF CopyInv, IsJob
    <3>6. QED
      BY <2>1, <3>1, <3>4, <3>5 DEF CopyInv, FirstIfChecked, Copies
  <2>3. CASE Abandon("failed")
    BY <2>1, <2>3, JobSteps, CommandKeepsCopyInv DEF Abandon
  <2>4. QED
    BY <1>2, <2>2, <2>3 DEF SeedSetup
<1>3. CASE SeedSubmit
  <2>1. UNCHANGED tables /\ job.copy # 0
    BY <1>3 DEF SeedSubmit, schema
  <2>2. CASE \E outcome : Abandon(outcome) /\ UNCHANGED db
    BY <2>1, <2>2, JobSteps, CommandKeepsCopyInv DEF Abandon
  <2>3. CASE /\ CanSubmit /\ staged' = NoRows
             /\ job' = [job EXCEPT !.submitted = job.submitted + 1]
             /\ \E verdict : LET new == Submission(job.copy, job.submitted + 1, verdict) IN
                             Insert([t \in Tables |-> staged[t] \cup new[t]])
    <3>1. /\ db'["interviews"] = db["interviews"] \cup staged["interviews"]
          /\ db' = [t \in Tables |-> db'[t]]
      BY <2>3, TableNames DEF Insert, Submission
    <3>2. "interviews" \in tables'
      BY <2>1, <2>3, TableNames DEF CanSubmit
    <3>3. IsJob' /\ job'.copy = job.copy
      BY <2>3 DEF CopyInv, IsJob
    <3>4. staged'["interviews"] = {}
      BY <2>3, TableNames DEF NoRows
    <3>5. QED
      BY <2>1, <3>1, <3>2, <3>3, <3>4 DEF CopyInv, FirstIfChecked
  <2>4. QED
    BY <1>3, <2>2, <2>3 DEF SeedSubmit
<1>4. CASE SeedDone
  BY <1>4, JobSteps, CommandKeepsCopyInv DEF SeedDone, schema, data
<1>5. QED
  BY <1>1, <1>2, <1>3, <1>4 DEF Seed

LEMMA VisitKeepsCopyInv ==
    ASSUME CopyInv, NEW rows, Visit(rows), "interviews" \in tables,
           rows["interviews"] \subseteq {<<0, FALSE>>}
    PROVE  CopyInv'
<1>1. UNCHANGED <<tables, staged, job>> /\ Insert(rows)
  BY DEF Visit, schema, command
<1>2. /\ db'["interviews"] = db["interviews"] \cup rows["interviews"]
      /\ db' = [t \in Tables |-> db'[t]]
  BY <1>1, TableNames DEF Insert
<1>3. \A row \in rows["interviews"] : row[1] = 0 /\ ~row[2]
  <2>1. <<0, FALSE>>[1] = 0 /\ ~(<<0, FALSE>>[2])
    OBVIOUS
  <2>2. QED
    BY <2>1
<1>4. FirstIfChecked(db'["interviews"])
  BY <1>2, <1>3 DEF CopyInv, FirstIfChecked
<1>5. Copies = {} => Copies' = {}
  BY <1>2, <1>3 DEF Copies
<1>6. QED
  BY <1>1, <1>2, <1>4, <1>5 DEF CopyInv, IsJob, FirstIfChecked

LEMMA NextKeepsCopyInv == CopyInv /\ [Next]_vars => CopyInv'
<1> SUFFICES ASSUME CopyInv, [Next]_vars PROVE CopyInv'
  OBVIOUS
<1>1. CASE \E cmd \in DOMAIN Commands : Start(cmd)
  <2>1. UNCHANGED <<tables, db, staged>>
    BY <1>1 DEF Start, schema, data
  <2>2. IsJob' /\ ~job'.checked
    BY <1>1 DEF Start, NoJob, IsJob
  <2>3. QED
    BY <2>1, <2>2, CommandKeepsCopyInv
<1>2. CASE InitDb \/ Seed
  BY <1>2, InitDbKeepsCopyInv, SeedKeepsCopyInv
<1>3. CASE Serve
  <2>1. UNCHANGED <<tables, db, staged>> /\ (Advance \/ End("port_taken"))
    BY <1>3 DEF Serve, schema, data
  <2>2. QED
    BY <2>1, JobSteps, CommandKeepsCopyInv
<1>4. CASE StopServing \/ UNCHANGED vars
  <2>1. UNCHANGED <<tables, db, staged, job>>
    BY <1>4 DEF StopServing, vars, schema, data, command
  <2>2. QED
    BY <2>1, CommandKeepsCopyInv DEF CopyInv, IsJob
<1>5. CASE Kill
  BY <1>5, JobSteps, CommandKeepsCopyInv DEF Kill, Abandon
<1>6. CASE CreateInterview
  <2>1. [NoRows EXCEPT !["users"] = {"visitor"},
                       !["interviews"] = {<<0, FALSE>>},
                       !["questions"] = {<<0, FALSE>>}]["interviews"] = {<<0, FALSE>>}
    BY TableNames DEF NoRows
  <2>2. QED
    BY <1>6, <2>1, VisitKeepsCopyInv DEF CreateInterview
<1>7. CASE \E copy \in 1..MaxCopies, i \in Visited : SubmitResponse(copy, i)
  <2>1. PICK copy \in 1..MaxCopies, i \in Visited, verdict \in Verdict :
           CanSubmit /\ Visit(Submission(copy, i, verdict))
    BY <1>7 DEF SubmitResponse
  <2>2. Submission(copy, i, verdict)["interviews"] = {} /\ "interviews" \in tables
    BY <2>1, TableNames DEF Submission, CanSubmit
  <2>3. QED
    BY <2>1, <2>2, VisitKeepsCopyInv
<1>8. QED
  BY <1>1, <1>2, <1>3, <1>4, <1>5, <1>6, <1>7 DEF Next

(* seed --if-empty and demo.sh add at most one copy of the demo interviews,*)
(* however often they are interrupted and run again, and whatever visitors *)
(* create meanwhile.                                                       *)
THEOREM CheckedSeedIsIdempotent == Spec => []OneCheckedCopy
<1>1. CopyInv => OneCheckedCopy
  BY DEF CopyInv, FirstIfChecked, OneCheckedCopy
<1>2. QED
  BY <1>1, CopyInvInit, NextKeepsCopyInv, PTL DEF Spec

----------------------------------------------------------------------------
(* What a command may have left to do, and what is read off it: the        *)
(* phases "drop" and "create" are followed, or are, a "create"; all other  *)
(* phases come after it.                                                   *)
Todos ==
    { <<"drop", "create", "check", "seed", "serve">>,
      <<"create", "check", "seed", "serve">>, <<"check", "seed", "serve">>,
      <<"seed", "serve">>, <<"serve">>,
      <<"drop", "create", "seed">>, <<"create", "seed">>, <<"seed">>,
      <<"drop", "create">>, <<"create">>, <<"check", "seed">> }

LEMMA TodoFacts ==
    ASSUME NEW todo \in Todos
    PROVE  /\ todo # <<>> /\ Len(todo) \in Nat
           /\ "create" \in ToSet(todo) <=> Head(todo) \in {"drop", "create"}
           /\ "drop" \in ToSet(todo) <=> Head(todo) = "drop"
           /\ Len(todo) # 1 =>
                 /\ Tail(todo) \in Todos
                 /\ Head(todo) = "drop" <=> Head(Tail(todo)) = "create"
                 /\ Head(Tail(todo)) # "drop"
           /\ (Head(todo) = "check" /\ Len(todo) # 2) => Tail(Tail(todo)) = <<"serve">>
           /\ Head(todo) = "check" => Len(todo) # 1
           /\ Len(todo) = 1 => Head(todo) # "drop"
<1>1. CASE todo = <<"drop", "create", "check", "seed", "serve">>
  BY <1>1 DEF Todos, ToSet
<1>2. CASE todo = <<"create", "check", "seed", "serve">>
  BY <1>2 DEF Todos, ToSet
<1>3. CASE todo = <<"check", "seed", "serve">>
  BY <1>3 DEF Todos, ToSet
<1>4. CASE todo = <<"seed", "serve">>
  BY <1>4 DEF Todos, ToSet
<1>5. CASE todo = <<"serve">>
  BY <1>5 DEF Todos, ToSet
<1>6. CASE todo = <<"drop", "create", "seed">>
  BY <1>6 DEF Todos, ToSet
<1>7. CASE todo = <<"create", "seed">>
  BY <1>7 DEF Todos, ToSet
<1>8. CASE todo = <<"seed">>
  BY <1>8 DEF Todos, ToSet
<1>9. CASE todo = <<"drop", "create">>
  BY <1>9 DEF Todos, ToSet
<1>10. CASE todo = <<"create">>
  BY <1>10 DEF Todos, ToSet
<1>11. CASE todo = <<"check", "seed">>
  BY <1>11 DEF Todos, ToSet
<1>12. QED
  BY <1>1, <1>2, <1>3, <1>4, <1>5, <1>6, <1>7, <1>8, <1>9, <1>10, <1>11 DEF Todos

LEMMA CommandFacts ==
    /\ \A cmd \in DOMAIN Commands : cmd # "none" /\ Commands[cmd] \in Todos
    /\ "drop" \notin ToSet(Commands["demo"]) /\ "create" \in ToSet(Commands["demo"])
<1>1. \A cmd \in DOMAIN Commands : cmd # "none" /\ Commands[cmd] \in Todos
  BY DEF Commands, Todos
<1>2. Commands["demo"] = <<"create", "check", "seed", "serve">>
  BY DEF Commands
<1>3. QED
  BY <1>1, <1>2, TodoFacts DEF Todos

(* The inductive invariant of the schema.  An index that no run will add   *)
(* is torn, so a table is indexed, torn or still to be indexed by this run.*)
Ready == tables = Tables /\ triggers = ToSet(Triggers) /\ indexes = Indexed \ torn

SchemaOK ==
    /\ tables \subseteq Tables
    /\ triggers \subseteq ToSet(Triggers)
    /\ indexes \subseteq Indexed \cap tables
    /\ torn \subseteq (Indexed \cap tables) \ indexes

JobOK ==
    job # NoJob => /\ job.cmd \in DOMAIN Commands
                   /\ job.todo \in Todos
                   /\ job.cmd = "demo" => "drop" \notin ToSet(job.todo)

SchemaInv == SchemaOK /\ IsJob /\ JobOK /\ ReadyIsGuarded /\ RerunSucceeds

LEMMA SchemaInvInit == Init => SchemaInv
  BY DEF Init, SchemaInv, SchemaOK, IsJob, JobOK, ReadyIsGuarded, RerunSucceeds,
         NoJob, NoEnd, Built

(* Past "create" the schema is ready.                                      *)
LEMMA PastCreate ==
    ASSUME SchemaInv, job # NoJob, "create" \in ToSet(Commands[job.cmd]),
           Phase \notin {"drop", "create"}
    PROVE  Ready
<1>1. job.todo \in Todos /\ job.cmd # "none"
  BY CommandFacts DEF SchemaInv, JobOK
<1>2. Phase = Head(job.todo)
  BY <1>1, TodoFacts DEF Phase
<1>3. "create" \notin ToSet(job.todo)
  BY <1>1, <1>2, TodoFacts
<1>4. QED
  BY <1>1, <1>3 DEF SchemaInv, ReadyIsGuarded, Built, Ready

LEMMA EndKeepsSchemaInv ==
    ASSUME SchemaInv, SchemaOK', job # NoJob, NEW outcome, End(outcome),
           outcome = "done" =>
             UNCHANGED schema /\ ("create" \in ToSet(Commands[job.cmd]) => Ready),
           job.cmd = "demo" => outcome \in {"done", "killed", "overtaken", "port_taken"}
    PROVE  SchemaInv'
<1>1. /\ job' = NoJob
      /\ last'.cmd = job.cmd /\ last'.outcome = outcome
  BY DEF End
<1>2. IsJob' /\ JobOK' /\ RerunSucceeds'
  BY <1>1 DEF IsJob, NoJob, JobOK, RerunSucceeds
<1>3. ReadyIsGuarded'
  <2>1. job'.cmd = "none"
    BY <1>1 DEF NoJob
  <2>2. ASSUME outcome = "done", Built(job.cmd, <<>>)
        PROVE  Ready /\ Ready'
    BY <2>2 DEF Built, Ready, schema
  <2>3. QED
    BY <1>1, <2>1, <2>2 DEF ReadyIsGuarded, Built, Ready
<1>4. QED
  BY <1>2, <1>3 DEF SchemaInv

LEMMA AdvanceKeepsSchemaInv ==
    ASSUME SchemaInv, UNCHANGED schema, job # NoJob, Advance,
           Phase = "create" => Ready
    PROVE  SchemaInv'
<1>1. job.todo \in Todos /\ job.cmd \in DOMAIN Commands /\ job.cmd # "none"
  BY CommandFacts DEF SchemaInv, JobOK
<1>2. Phase = Head(job.todo)
  BY <1>1, TodoFacts DEF Phase
<1>3. SchemaOK'
  BY DEF SchemaInv, SchemaOK, schema
<1>4. ASSUME "create" \in ToSet(Commands[job.cmd]), Phase # "drop" PROVE Ready
  BY <1>4, PastCreate
<1>5. CASE Len(job.todo) = 1
  <2>1. End("done") /\ Phase # "drop"
    BY <1>1, <1>2, <1>5, TodoFacts DEF Advance
  <2>2. QED
    BY <1>3, <1>4, <2>1, EndKeepsSchemaInv
<1>6. CASE Len(job.todo) # 1
  <2>1. job' = [job EXCEPT !.todo = Tail(@)] /\ UNCHANGED last
    BY <1>6 DEF Advance
  <2>2. IsJob' /\ job'.cmd = job.cmd /\ job'.todo = Tail(job.todo)
    BY <2>1 DEF SchemaInv, IsJob
  <2>3. job' # NoJob
    BY <1>1, <2>2 DEF NoJob
  <2>4. /\ Tail(job.todo) \in Todos
        /\ Head(Tail(job.todo)) # "drop"
        /\ Phase = "drop" => Head(Tail(job.todo)) = "create"
    BY <1>1, <1>2, <1>6, TodoFacts
  <2>5. JobOK'
    BY <1>1, <2>2, <2>4, TodoFacts DEF JobOK
  <2>6. ReadyIsGuarded'
    <3> SUFFICES ASSUME Built(job.cmd, Tail(job.todo)) PROVE Ready'
      BY <2>2, <2>3 DEF ReadyIsGuarded, Ready
    <3>1. Phase # "drop"
      BY <2>4, TodoFacts DEF Built
    <3>2. QED
      BY <1>4, <3>1 DEF Built, Ready, schema
  <2>7. RerunSucceeds'
    BY <2>1 DEF SchemaInv, RerunSucceeds
  <2>8. QED
    BY <1>3, <2>2, <2>5, <2>6, <2>7 DEF SchemaInv
<1>7. QED
  BY <1>5, <1>6

(* A step within a phase that leaves the schema alone.                     *)
LEMMA StayKeepsSchemaInv ==
    ASSUME SchemaInv, UNCHANGED <<schema, last>>, IsJob',
           job'.cmd = job.cmd, job'.todo = job.todo, job = NoJob <=> job' = NoJob
    PROVE  SchemaInv'
  BY DEF SchemaInv, SchemaOK, JobOK, ReadyIsGuarded, RerunSucceeds, schema

(* A step that builds or drops part of it.                                 *)
LEMMA BuildKeepsSchemaInv ==
    ASSUME SchemaInv, SchemaOK', UNCHANGED command, Phase \in {"drop", "create"}
    PROVE  SchemaInv'
<1>1. job # NoJob
  BY DEF Phase, NoJob
<1>2. "create" \in ToSet(job.todo)
  BY <1>1, TodoFacts DEF SchemaInv, JobOK, Phase
<1>3. QED
  BY <1>1, <1>2 DEF SchemaInv, IsJob, JobOK, ReadyIsGuarded, RerunSucceeds, Built, command

LEMMA InitDbKeepsSchemaInv == SchemaInv /\ InitDb => SchemaInv'
<1> SUFFICES ASSUME SchemaInv, InitDb PROVE SchemaInv'
  OBVIOUS
<1>1. Phase \in {"drop", "create"} /\ job # NoJob
  <2>1. Phase \in {"drop", "create"}
    BY DEF InitDb, Refuse, DropTrigger, DropTable, DropDone, MayDrop,
           CreateTable, CreateIndex, CreateTrigger, CreateDone
  <2>2. QED
    BY <2>1 DEF Phase, NoJob
<1>2. Phase = "drop" => job.cmd # "demo"
  BY <1>1, TodoFacts DEF SchemaInv, JobOK, Phase
<1>3. CASE Refuse
  <2>1. SchemaOK' /\ Phase = "drop" /\ End("refused")
    BY <1>3 DEF Refuse, SchemaInv, SchemaOK, schema
  <2>2. QED
    BY <1>1, <1>2, <2>1, EndKeepsSchemaInv
<1>4. CASE DropTrigger
  <2>1. SchemaOK' /\ UNCHANGED command
    BY <1>4 DEF DropTrigger, SchemaInv, SchemaOK
  <2>2. QED
    BY <1>1, <2>1, BuildKeepsSchemaInv
<1>5. CASE DropTable
  <2>1. SchemaOK' /\ Phase = "drop"
    BY <1>5 DEF DropTable, MayDrop, SchemaInv, SchemaOK
  <2>2. CASE End("failed")
    BY <1>1, <1>2, <2>1, <2>2, EndKeepsSchemaInv
  <2>3. CASE UNCHANGED command
    BY <1>1, <2>1, <2>3, BuildKeepsSchemaInv
  <2>4. QED
    BY <1>5, <2>2, <2>3 DEF DropTable
<1>6. CASE DropDone
  <2>1. UNCHANGED schema /\ Advance /\ Phase # "create"
    BY <1>6 DEF DropDone, MayDrop
  <2>2. QED
    BY <1>1, <2>1, AdvanceKeepsSchemaInv
<1>7. CASE CreateTable \/ CreateIndex \/ CreateTrigger
  <2>1. SchemaOK'
    <3>1. CASE CreateTable
      BY <3>1 DEF CreateTable, MissingTables, SchemaInv, SchemaOK
    <3>2. CASE CreateIndex
      BY <3>2 DEF CreateIndex, Unindexed, SchemaInv, SchemaOK
    <3>3. CASE CreateTrigger
      BY <3>3 DEF CreateTrigger, MissingTriggers, SchemaInv, SchemaOK
    <3>4. QED
      BY <1>7, <3>1, <3>2, <3>3
  <2>2. UNCHANGED command
    BY <1>7 DEF CreateTable, CreateIndex, CreateTrigger
  <2>3. QED
    BY <1>1, <2>1, <2>2, BuildKeepsSchemaInv
<1>8. CASE CreateDone
  <2>1. UNCHANGED schema /\ Advance
    BY <1>8 DEF CreateDone
  <2>2. tables = Tables /\ triggers = ToSet(Triggers)
    BY <1>8 DEF CreateDone, MissingTables, MissingTriggers, SchemaInv, SchemaOK
  <2>3. Indexed \subseteq Tables
    BY TableNames DEF Indexed
  <2>4. indexes = Indexed \ torn
    BY <1>8, <2>2, <2>3 DEF CreateDone, Unindexed, SchemaInv, SchemaOK
  <2>5. QED
    BY <1>1, <2>1, <2>2, <2>4, AdvanceKeepsSchemaInv DEF Ready
<1>9. QED
  BY <1>3, <1>4, <1>5, <1>6, <1>7, <1>8 DEF InitDb

LEMMA SeedKeepsSchemaInv == SchemaInv /\ Seed => SchemaInv'
<1> SUFFICES ASSUME SchemaInv, Seed PROVE SchemaInv'
  OBVIOUS
<1>1. UNCHANGED schema /\ Phase \in {"check", "seed"}
  BY DEF Seed, Check, SeedSetup, SeedSubmit, SeedDone
<1>2. /\ job # NoJob /\ job.todo \in Todos /\ job.cmd \in DOMAIN Commands
      /\ job.cmd # "none" /\ Phase = Head(job.todo)
  <2>1. job # NoJob
    BY <1>1 DEF Phase, NoJob
  <2>2. QED
    BY <2>1, CommandFacts, TodoFacts DEF SchemaInv, JobOK, Phase
<1>3. SchemaOK'
  BY <1>1 DEF SchemaInv, SchemaOK, schema
<1>4. "create" \in ToSet(Commands[job.cmd]) => Ready
  BY <1>1, <1>2, PastCreate
<1>5. job.cmd = "demo" => tables = Tables
  BY <1>4, CommandFacts DEF Ready
<1>6. ASSUME UNCHANGED last, IsJob', job'.cmd = job.cmd, job'.todo \in Todos,
             Head(job'.todo) # "drop"
      PROVE  SchemaInv'
  <2>1. JobOK' /\ job' # NoJob
    BY <1>2, <1>6, TodoFacts DEF JobOK, NoJob
  <2>2. ReadyIsGuarded'
    BY <1>1, <1>4, <1>6, <2>1 DEF ReadyIsGuarded, Built, Ready, schema
  <2>3. RerunSucceeds'
    BY <1>6 DEF SchemaInv, RerunSucceeds
  <2>4. QED
    BY <1>3, <1>6, <2>1, <2>2, <2>3 DEF SchemaInv
<1>7. CASE Check
  <2>0. Phase = "check" /\ Len(job.todo) # 1
    BY <1>2, <1>7, TodoFacts DEF Check
  <2>1. CASE job' = [job EXCEPT !.todo = Tail(@), !.checked = TRUE] /\ UNCHANGED last
    <3>1. IsJob' /\ job'.cmd = job.cmd /\ job'.todo = Tail(job.todo)
      BY <2>1 DEF SchemaInv, IsJob
    <3>2. Tail(job.todo) \in Todos /\ Head(Tail(job.todo)) # "drop"
      BY <1>2, <2>0, TodoFacts
    <3>3. QED
      BY <1>6, <2>1, <3>1, <3>2
  <2>2. CASE End("done")
    BY <1>1, <1>2, <1>3, <1>4, <2>2, EndKeepsSchemaInv
  <2>3. CASE /\ Len(job.todo) # 2 /\ UNCHANGED last
             /\ job' = [job EXCEPT !.todo = Tail(Tail(@))]
    <3>1. IsJob' /\ job'.cmd = job.cmd /\ job'.todo = Tail(Tail(job.todo))
      BY <2>3 DEF SchemaInv, IsJob
    <3>2. job'.todo = <<"serve">>
      BY <1>2, <2>0, <2>3, <3>1, TodoFacts
    <3>3. job'.todo \in Todos /\ Head(job'.todo) # "drop"
      BY <3>2 DEF Todos
    <3>4. QED
      BY <1>6, <2>3, <3>1, <3>3
  <2>4. QED
    BY <1>7, <2>1, <2>2, <2>3 DEF Check
<1>8. CASE SeedSetup
  <2>1. CASE \E copy : job' = [job EXCEPT !.copy = copy] /\ UNCHANGED last
    <3>1. IsJob' /\ job'.cmd = job.cmd /\ job'.todo = job.todo
      BY <2>1 DEF SchemaInv, IsJob
    <3>2. QED
      BY <1>1, <1>2, <1>6, <2>1, <3>1
  <2>2. CASE /\ End("failed")
             /\ ~({"users", "interviews", "questions", "interview_assignments"} \subseteq tables)
    <3>1. job.cmd # "demo"
      BY <1>5, <2>2, TableNames
    <3>2. QED
      BY <1>2, <1>3, <2>2, <3>1, EndKeepsSchemaInv
  <2>3. QED
    BY <1>8, <2>1, <2>2 DEF SeedSetup, Abandon
<1>9. CASE SeedSubmit
  <2>1. CASE \E i : job' = [job EXCEPT !.submitted = i] /\ UNCHANGED last
    <3>1. IsJob' /\ job'.cmd = job.cmd /\ job'.todo = job.todo
      BY <2>1 DEF SchemaInv, IsJob
    <3>2. QED
      BY <1>1, <1>2, <1>6, <2>1, <3>1
  <2>2. CASE End("failed") /\ ~CanSubmit
    <3>1. job.cmd # "demo"
      BY <1>5, <2>2 DEF CanSubmit
    <3>2. QED
      BY <1>2, <1>3, <2>2, <3>1, EndKeepsSchemaInv
  <2>3. CASE End("overtaken")
    BY <1>2, <1>3, <2>3, EndKeepsSchemaInv
  <2>4. QED
    BY <1>9, <2>1, <2>2, <2>3 DEF SeedSubmit, Abandon
<1>10. CASE SeedDone
  BY <1>1, <1>2, <1>10, AdvanceKeepsSchemaInv DEF SeedDone
<1>11. QED
  BY <1>7, <1>8, <1>9, <1>10 DEF Seed

LEMMA NextKeepsSchemaInv == SchemaInv /\ [Next]_vars => SchemaInv'
<1> SUFFICES ASSUME SchemaInv, [Next]_vars PROVE SchemaInv'
  OBVIOUS
<1>1. ASSUME NEW cmd \in DOMAIN Commands, Start(cmd) PROVE SchemaInv'
  <2>1. /\ job'.cmd = cmd /\ job'.todo = Commands[cmd] /\ IsJob'
        /\ last'.cmd = "none" /\ UNCHANGED schema
    BY <1>1 DEF Start, NoJob, NoEnd, IsJob
  <2>2. cmd # "none" /\ Commands[cmd] \in Todos
    BY CommandFacts
  <2>3. JobOK' /\ job' # NoJob
    BY <2>1, <2>2, CommandFacts DEF JobOK, NoJob
  <2>4. ReadyIsGuarded'
    BY <2>1, <2>3 DEF ReadyIsGuarded, Built
  <2>5. QED
    BY <2>1, <2>3, <2>4 DEF SchemaInv, SchemaOK, RerunSucceeds, schema
<1>2. CASE InitDb \/ Seed
  BY <1>2, InitDbKeepsSchemaInv, SeedKeepsSchemaInv
<1>3. CASE Serve
  <2>1. /\ UNCHANGED schema /\ Phase # "create" /\ job # NoJob
        /\ Advance \/ End("port_taken")
    BY <1>3 DEF Serve, Phase, NoJob
  <2>2. CASE Advance
    BY <2>1, <2>2, AdvanceKeepsSchemaInv
  <2>3. CASE End("port_taken")
    <3>1. SchemaOK'
      BY <2>1 DEF SchemaInv, SchemaOK, schema
    <3>2. QED
      BY <2>1, <2>3, <3>1, EndKeepsSchemaInv
  <2>4. QED
    BY <2>1, <2>2, <2>3
<1>4. CASE StopServing \/ UNCHANGED vars
  <2>1. UNCHANGED <<schema, job, last>>
    BY <1>4 DEF StopServing, vars, schema, command
  <2>2. QED
    BY <2>1, StayKeepsSchemaInv DEF SchemaInv, IsJob
<1>5. CASE Kill
  <2>1. SchemaOK'
    BY <1>5 DEF Kill, Unindexed, SchemaInv, SchemaOK
  <2>2. QED
    BY <1>5, <2>1, EndKeepsSchemaInv DEF Kill, Abandon
<1>6. CASE CreateInterview \/ \E copy \in 1..MaxCopies, i \in Visited : SubmitResponse(copy, i)
  <2>1. UNCHANGED <<schema, job, last>>
    BY <1>6 DEF CreateInterview, SubmitResponse, Visit, schema, command
  <2>2. QED
    BY <2>1, StayKeepsSchemaInv DEF SchemaInv, IsJob
<1>7. QED
  BY <1>1, <1>2, <1>3, <1>4, <1>5, <1>6 DEF Next

(* Whatever was interrupted before, a command that got past the schema has *)
(* every table, both triggers, and every unique index that is not torn.    *)
THEOREM BuiltSchemaIsGuarded == Spec => []ReadyIsGuarded
<1>1. SchemaInv => ReadyIsGuarded
  BY DEF SchemaInv
<1>2. QED
  BY <1>1, SchemaInvInit, NextKeepsSchemaInv, PTL DEF Spec

(* demo.sh builds and seeds from every state that earlier commands leave   *)
(* behind; it exits with an error only for a visitor's answer or a port    *)
(* that is taken.                                                          *)
THEOREM DemoFailsBesideAServerOnly == Spec => []RerunSucceeds
<1>1. SchemaInv => RerunSucceeds
  BY DEF SchemaInv
<1>2. QED
  BY <1>1, SchemaInvInit, NextKeepsSchemaInv, PTL DEF Spec

(***************************************************************************)
(* The rows                                                                *)
(***************************************************************************)
ShapeOK ==
    /\ environment \in Environments
    /\ serving \in BOOLEAN
    /\ runs \in 0..MaxCommands
    /\ visits \in 0..MaxVisits
    /\ last.outcome \in Outcomes

(* A row is of its table's type, its table exists, and while audit_log     *)
(* does not exist neither do its guards.                                   *)
RowsOK ==
    /\ \A t \in Tables : db[t] \subseteq RowsOf(t) /\ (db[t] # {} => t \in tables)
    /\ triggers # {} => "audit_log" \in tables

(* The submission i of the seed is recorded with a verdict of the router.  *)
OnRecord(i) ==
    /\ Answered(job.copy, i)
    /\ <<job.copy, i>> \in db["audit_log"]
    /\ \E verdict \in SeedVerdicts(i) : <<job.copy, i, verdict>> \in db["evaluations"]

(* The copies are numbered without a gap, and there is room for the one a  *)
(* command is going to add.  The rows that set it up wait in the open      *)
(* transaction until the first submission commits them; then each          *)
(* submission is on the record, until the last.                            *)
SeedOK ==
    /\ \E n \in 0..MaxCopies :
          /\ Copies = 1..n
          /\ job.copy = 0 /\ "seed" \in ToSet(job.todo) => n < MaxCopies
          /\ job.copy # 0 /\ job.submitted = 0 => job.copy = n + 1
    /\ job.copy \in 0..MaxCopies /\ job.checked \in BOOLEAN
    /\ job.submitted \in 0..Len(SeedAnswers)
    /\ job.copy = 0 => job.submitted = 0
    /\ job.copy # 0 => \/ job.todo \in {<<"seed">>, <<"seed", "serve">>}
                       \/ job.todo = <<"serve">> /\ job.submitted = Len(SeedAnswers)
    /\ staged = IF job.copy # 0 /\ job.submitted = 0
                THEN Setup(job.copy, job.checked) ELSE NoRows
    /\ \A i \in 1..job.submitted : OnRecord(i)

TodoOK == job # NoJob => IsSuffix(job.todo, Commands[job.cmd])

BringUpInv == CopyInv /\ SchemaInv /\ ShapeOK /\ RowsOK /\ SeedOK /\ TodoOK

(* What is left of a command's phases after one of them.                   *)
LEMMA TailIsSuffix ==
    ASSUME NEW S, NEW s \in Seq(S), NEW t \in Seq(S), s # <<>>, IsSuffix(s, t)
    PROVE  IsSuffix(Tail(s), t)
<1> DEFINE a == Reverse(s)
           b == Reverse(t)
           c == Reverse(Tail(s))
<1>1. /\ a \in Seq(S) /\ Len(a) = Len(s) /\ b \in Seq(S) /\ Len(b) = Len(t)
      /\ \A i \in 1..Len(s) : a[i] = s[(Len(s) - i) + 1]
  BY DEF Reverse
<1>2. /\ c \in Seq(S) /\ Len(c) = Len(s) - 1 /\ Len(s) \in Nat \ {0}
      /\ \A i \in 1..(Len(s) - 1) : c[i] = s[(Len(s) - i) + 1]
  BY DEF Reverse
<1>3. Len(a) <= Len(b) /\ SubSeq(a, 1, Len(a)) = SubSeq(b, 1, Len(a))
  BY DEF IsSuffix, IsPrefix
<1> HIDE DEF a, b, c
<1>4. \A i \in 1..Len(c) : i \in 1..Len(s) /\ c[i] = a[i]
  BY <1>1, <1>2
<1>5. \A i \in 1..Len(a) : a[i] = b[i]
  BY <1>1, <1>3
<1>6. \A i \in 1..Len(c) : c[i] = b[i]
  BY <1>1, <1>2, <1>4, <1>5
<1>7. SubSeq(c, 1, Len(c)) = SubSeq(b, 1, Len(c))
  BY <1>1, <1>2, <1>3, <1>6
<1>8. QED
  BY <1>1, <1>2, <1>3, <1>7 DEF IsSuffix, IsPrefix, b, c

(* The phases of a command; explicit, for sequences of them are typed.     *)
Phases == {"drop", "create", "check", "seed", "serve"}

(* What a command may have left to do is a nonempty sequence of phases.    *)
LEMMA TodosAreSequences == Todos \subseteq Seq(Phases) /\ <<>> \notin Todos
  BY DEF Todos, Phases

(* How a step moves the command that runs.                                 *)
LEMMA JobMoves ==
    ASSUME [Next]_vars
    PROVE  \/ job' \in {NoJob, job}
           \/ \E cmd \in DOMAIN Commands :
                 job' = [NoJob EXCEPT !.cmd = cmd, !.todo = Commands[cmd]]
           \/ /\ job # NoJob
              /\ \/ \E n : job' = [job EXCEPT !.copy = n] \/ job' = [job EXCEPT !.submitted = n]
                 \/ job' = [job EXCEPT !.todo = Tail(@)]
                 \/ job' = [job EXCEPT !.todo = Tail(@), !.checked = TRUE]
                 \/ /\ Phase = "check" /\ Len(job.todo) # 2
                    /\ job' = [job EXCEPT !.todo = Tail(Tail(@))]
<1>1. CASE InitDb
  <2>1. Phase # "none"
    BY <1>1 DEF InitDb, Refuse, DropTrigger, DropTable, DropDone, CreateTable, CreateIndex,
              CreateTrigger, CreateDone, MayDrop
  <2>2. job # NoJob
    BY <2>1 DEF Phase, NoJob
  <2>3. QED
    BY <1>1, <2>2 DEF InitDb, Refuse, DropTrigger, DropTable, DropDone, CreateTable,
              CreateIndex, CreateTrigger, CreateDone, command, Advance, End
<1>2. CASE Seed
  <2>1. job # NoJob
    BY <1>2 DEF Seed, Check, SeedSetup, SeedSubmit, SeedDone, Phase, NoJob
  <2>2. QED
    BY <1>2, <2>1 DEF Seed, Check, SeedSetup, SeedSubmit, SeedDone, Abandon, Advance, End
<1>3. CASE \E cmd \in DOMAIN Commands : Start(cmd)
  BY <1>3 DEF Start
<1>4. CASE Serve
  <2>1. job # NoJob
    BY <1>4 DEF Serve, Phase, NoJob
  <2>2. QED
    BY <1>4, <2>1 DEF Serve, Advance, End
<1>5. CASE StopServing \/ Kill
  BY <1>5 DEF StopServing, Kill, Abandon, End, command
<1>6. CASE CreateInterview \/ \E copy \in 1..MaxCopies, i \in Visited : SubmitResponse(copy, i)
  BY <1>6 DEF CreateInterview, SubmitResponse, Visit, command
<1>7. CASE UNCHANGED vars
  BY <1>7 DEF vars
<1>8. QED
  BY <1>1, <1>2, <1>3, <1>4, <1>5, <1>6, <1>7 DEF Next

(* A command goes through its phases in their order.                       *)
LEMMA NextKeepsTodoOK ==
    ASSUME SchemaInv, TodoOK, [Next]_vars
    PROVE  TodoOK'
<1>1. job # NoJob => job.cmd \in DOMAIN Commands /\ job.todo \in Todos
  BY DEF SchemaInv, JobOK
<1>2. \A cmd \in DOMAIN Commands : Commands[cmd] \in Todos
  BY CommandFacts
<1>3. ASSUME job # NoJob PROVE IsSuffix(Tail(job.todo), Commands[job.cmd])
  BY <1>1, <1>2, <1>3, TailIsSuffix, TodosAreSequences DEF TodoOK
<1>4. CASE job' \in {NoJob, job}
  BY <1>4 DEF TodoOK
<1>5. CASE \E cmd \in DOMAIN Commands :
              job' = [NoJob EXCEPT !.cmd = cmd, !.todo = Commands[cmd]]
  <2>1. PICK cmd \in DOMAIN Commands : job'.cmd = cmd /\ job'.todo = Commands[cmd]
    BY <1>5 DEF NoJob
  <2>2. IsSuffix(Commands[cmd], Commands[cmd])
    <3>1. Reverse(Commands[cmd]) \in Seq(Phases)
      BY <1>2, TodosAreSequences DEF Reverse
    <3>2. QED
      BY <3>1 DEF IsSuffix, IsPrefix
  <2>3. QED
    BY <2>1, <2>2 DEF TodoOK
<1>6. CASE /\ job # NoJob
           /\ \E n : job' = [job EXCEPT !.copy = n] \/ job' = [job EXCEPT !.submitted = n]
  <2>1. job'.cmd = job.cmd /\ job'.todo = job.todo
    BY <1>6 DEF SchemaInv, IsJob
  <2>2. QED
    BY <1>6, <2>1 DEF TodoOK
<1>7. CASE /\ job # NoJob
           /\ \/ job' = [job EXCEPT !.todo = Tail(@)]
              \/ job' = [job EXCEPT !.todo = Tail(@), !.checked = TRUE]
  <2>1. job'.cmd = job.cmd /\ job'.todo = Tail(job.todo)
    BY <1>7 DEF SchemaInv, IsJob
  <2>2. job # NoJob
    BY <1>7
  <2>3. IsSuffix(Tail(job.todo), Commands[job.cmd])
    BY <1>3, <2>2
  <2>4. QED
    BY <2>1, <2>3 DEF TodoOK
<1>8. CASE /\ job # NoJob /\ Phase = "check" /\ Len(job.todo) # 2
           /\ job' = [job EXCEPT !.todo = Tail(Tail(@))]
  <2>1. job'.cmd = job.cmd /\ job'.todo = Tail(Tail(job.todo))
    BY <1>8 DEF SchemaInv, IsJob
  <2>2. Tail(job.todo) \in Todos
    BY <1>1, <1>8, TodoFacts DEF Phase
  <2>3. IsSuffix(Tail(Tail(job.todo)), Commands[job.cmd])
    BY <1>1, <1>2, <1>3, <1>8, <2>2, TailIsSuffix, TodosAreSequences
  <2>4. QED
    BY <2>1, <2>3 DEF TodoOK
<1>9. QED
  BY <1>4, <1>5, <1>6, <1>7, <1>8, JobMoves

(* The counters and the answers stay within their bounds.                  *)
LEMMA NextKeepsShapeOK ==
    ASSUME ShapeOK, [Next]_vars
    PROVE  ShapeOK'
<1>1. /\ \A outcome \in Outcomes : End(outcome) => last'.outcome \in Outcomes
      /\ Advance => last' = last \/ last'.outcome \in Outcomes
      /\ {"done", "refused", "failed", "overtaken", "port_taken", "killed"} = Outcomes
  BY DEF End, Advance, Outcomes
<1>2. /\ environment' = environment /\ serving' \in BOOLEAN
      /\ runs' = runs \/ (runs < MaxCommands /\ runs' = runs + 1)
      /\ visits' = visits \/ (visits < MaxVisits /\ visits' = visits + 1)
      /\ last' = last \/ last' = NoEnd \/ last'.outcome \in Outcomes
  <2>1. CASE InitDb
    <3>1. UNCHANGED world
      BY <2>1 DEF InitDb, Refuse, DropTrigger, DropTable, DropDone, CreateTable,
                  CreateIndex, CreateTrigger, CreateDone
    <3>2. last' = last \/ (\E outcome \in Outcomes : End(outcome)) \/ Advance
      BY <1>1, <2>1 DEF InitDb, Refuse, DropTrigger, DropTable, DropDone, CreateTable,
                        CreateIndex, CreateTrigger, CreateDone, command
    <3>3. QED
      BY <1>1, <3>1, <3>2 DEF world, ShapeOK
  <2>2. CASE Seed
    <3>1. UNCHANGED world
      BY <2>2 DEF Seed, Check, SeedSetup, SeedSubmit, SeedDone
    <3>2. last' = last \/ (\E outcome \in Outcomes : End(outcome)) \/ Advance
      BY <1>1, <2>2 DEF Seed, Check, SeedSetup, SeedSubmit, SeedDone, Abandon
    <3>3. QED
      BY <1>1, <3>1, <3>2 DEF world, ShapeOK
  <2>3. CASE \E cmd \in DOMAIN Commands : Start(cmd)
    BY <2>3 DEF Start, ShapeOK
  <2>4. CASE Serve \/ StopServing \/ Kill
    <3>1. CASE Serve
      <4>1. Advance \/ End("port_taken")
        BY <3>1 DEF Serve
      <4>2. last' = last \/ last'.outcome \in Outcomes
        BY <1>1, <4>1
      <4>3. QED
        BY <3>1, <4>2 DEF Serve, ShapeOK
    <3>2. CASE StopServing \/ Kill
      BY <1>1, <3>2 DEF StopServing, Kill, Abandon, world, command, ShapeOK
    <3>3. QED
      BY <2>4, <3>1, <3>2
  <2>5. CASE CreateInterview \/ \E copy \in 1..MaxCopies, i \in Visited : SubmitResponse(copy, i)
    BY <2>5 DEF CreateInterview, SubmitResponse, Visit, command, ShapeOK
  <2>6. CASE UNCHANGED vars
    BY <2>6 DEF vars, ShapeOK
  <2>7. QED
    BY <2>1, <2>2, <2>3, <2>4, <2>5, <2>6 DEF Next
<1>3. runs' \in 0..MaxCommands /\ visits' \in 0..MaxVisits
  BY <1>2, BringUpAssumption DEF ShapeOK
<1>4. last'.outcome \in Outcomes
  BY <1>2 DEF ShapeOK, NoEnd, Outcomes
<1>5. QED
  BY <1>2, <1>3, <1>4 DEF ShapeOK

(* The rows of a copy, and of a submission, are of their tables' types.    *)
LEMMA SetupRows ==
    ASSUME NEW copy \in 1..MaxCopies, NEW checked \in BOOLEAN, NEW t \in Tables
    PROVE  /\ Setup(copy, checked)[t] \subseteq RowsOf(t)
           /\ Setup(copy, checked)[t] # {} =>
                  t \in {"users", "interviews", "questions", "interview_assignments"}
<1>1. CASE t = "users"
  BY <1>1 DEF Setup, RowsOf
<1>2. CASE t \in {"interviews", "questions", "interview_assignments"}
  <2>1. <<copy, checked>> \in SeededRow
    BY BringUpAssumption DEF SeededRow
  <2>2. QED
    BY <1>2, <2>1 DEF Setup, RowsOf
<1>3. CASE t \notin {"users", "interviews", "questions", "interview_assignments"}
  BY <1>3 DEF Setup
<1>4. QED
  BY <1>1, <1>2, <1>3

(* The same for a submission, of the seed or of a visitor.                 *)
LEMMA SubmissionRows ==
    ASSUME NEW copy \in 1..MaxCopies, NEW i \in Submissions \cup Visited,
           NEW verdict \in Verdict, NEW t \in Tables
    PROVE  /\ Submission(copy, i, verdict)[t] \subseteq RowsOf(t)
           /\ Submission(copy, i, verdict)[t] # {} =>
                  t \in {"responses", "llm_calls", "audit_log", "evaluations"}
<1>1. CASE t \in {"responses", "llm_calls", "audit_log"}
  <2>1. RowsOf(t) = Answer /\ Submission(copy, i, verdict)[t] = {<<copy, i>>}
    BY <1>1 DEF RowsOf, Submission
  <2>2. QED
    BY <1>1, <2>1 DEF Answer
<1>2. CASE t = "evaluations"
  BY <1>2 DEF Submission, RowsOf
<1>3. CASE t \notin {"responses", "llm_calls", "audit_log", "evaluations"}
  BY <1>3 DEF Submission
<1>4. QED
  BY <1>1, <1>2, <1>3

(* An insert of rows of the right types into tables that exist.            *)
LEMMA InsertKeepsRowsOK ==
    ASSUME RowsOK, NEW rows, Insert(rows), UNCHANGED <<tables, triggers>>,
           \A t \in Tables : rows[t] \subseteq RowsOf(t) /\ (rows[t] # {} => t \in tables)
    PROVE  RowsOK'
<1>1. \A t \in Tables : db'[t] = db[t] \cup rows[t]
  BY DEF Insert
<1>2. ASSUME NEW t \in Tables PROVE db'[t] \subseteq RowsOf(t) /\ (db'[t] # {} => t \in tables')
  BY <1>1, <1>2 DEF RowsOK
<1>3. QED
  BY <1>2 DEF RowsOK, RowsOf, Answer, SeededRow

(* A step that writes no row and takes no table.                           *)
LEMMA SchemaKeepsRowsOK ==
    ASSUME RowsOK, UNCHANGED db, tables \subseteq tables',
           triggers' \subseteq triggers \/ "audit_log" \in tables'
    PROVE  RowsOK'
  BY DEF RowsOK, RowsOf, Answer, SeededRow

(* The tables a submission writes to.                                      *)
LEMMA RowNames == {"responses", "evaluations", "audit_log", "llm_calls"} \subseteq Tables
<1>1. /\ CreateOrder[3] = "audit_log" /\ CreateOrder[6] = "responses"
      /\ CreateOrder[7] = "evaluations" /\ CreateOrder[9] = "llm_calls"
      /\ {3, 6, 7, 9} \subseteq DOMAIN CreateOrder
  BY DEF CreateOrder
<1>2. QED
  BY <1>1 DEF Tables, ToSet

(* A command that is not in its seed, or no longer.                        *)
LEMMA IdleKeepsSeedOK ==
    ASSUME SeedOK, UNCHANGED db, staged' = NoRows,
           job'.copy = 0, job'.submitted = 0, job'.checked \in BOOLEAN,
           "seed" \in ToSet(job'.todo) => job.copy = 0 /\ "seed" \in ToSet(job.todo)
    PROVE  SeedOK'
<1>1. PICK n \in 0..MaxCopies :
          /\ Copies = 1..n
          /\ job.copy = 0 /\ "seed" \in ToSet(job.todo) => n < MaxCopies
  BY DEF SeedOK
<1>2. Copies' = 1..n /\ ("seed" \in ToSet(job'.todo) => n < MaxCopies)
  BY <1>1 DEF Copies
<1>3. \A i \in 1..job'.submitted : OnRecord(i)'
  OBVIOUS
<1>4. job'.copy \in 0..MaxCopies /\ job'.submitted \in 0..Len(SeedAnswers)
  BY BringUpAssumption DEF SeedAnswers
<1>5. QED
  BY <1>2, <1>3, <1>4 DEF SeedOK

(* Others only add to the rows of the submissions.                         *)
LEMMA SameKeepsSeedOK ==
    ASSUME SeedOK, UNCHANGED <<job, staged>>, Copies' = Copies,
           \A t \in {"responses", "evaluations", "audit_log"} : db[t] \subseteq db'[t]
    PROVE  SeedOK'
<1>1. \A i \in 1..job.submitted : OnRecord(i) => OnRecord(i)'
  BY DEF OnRecord, Answered
<1>2. QED
  BY <1>1 DEF SeedOK

(* While a copy is being added the seed is running, or has ended.          *)
LEMMA BeforeSeed ==
    ASSUME SeedOK, job.copy # 0
    PROVE  Phase \in {"seed", "serve"}
<1>1. CASE job.todo = <<"seed">>
  BY <1>1 DEF Phase
<1>2. CASE job.todo = <<"seed", "serve">>
  BY <1>2 DEF Phase
<1>3. CASE job.todo = <<"serve">>
  BY <1>3 DEF Phase
<1>4. QED
  BY <1>1, <1>2, <1>3 DEF SeedOK

(* A command that ends, or is killed, leaves no transaction open.          *)
LEMMA EndKeepsSeedOK ==
    ASSUME SeedOK, UNCHANGED db, staged' = NoRows, NEW outcome, End(outcome)
    PROVE  SeedOK'
<1>1. /\ job'.copy = 0 /\ job'.submitted = 0 /\ job'.checked \in BOOLEAN
      /\ "seed" \notin ToSet(job'.todo)
  BY DEF End, NoJob, ToSet
<1>2. QED
  BY <1>1, IdleKeepsSeedOK

(* Passing on to the next phase drops the first one.                       *)
LEMMA TailsPhases ==
    ASSUME NEW s \in Seq(Phases), s # <<>>
    PROVE  /\ ToSet(Tail(s)) \subseteq ToSet(s) /\ Tail(s) \in Seq(Phases)
           /\ Len(Tail(s)) = Len(s) - 1 /\ Len(s) \in Nat
<1>1. \A i \in 1..(Len(s) - 1) : Tail(s)[i] = s[i + 1] /\ i + 1 \in 1..Len(s)
  OBVIOUS
<1>2. DOMAIN Tail(s) = 1..(Len(s) - 1) /\ DOMAIN s = 1..Len(s) /\ Len(s) \in Nat
  OBVIOUS
<1>3. ToSet(Tail(s)) \subseteq ToSet(s)
  BY <1>1, <1>2 DEF ToSet
<1>4. QED
  BY <1>3

(* A phase that ends well before the seed has begun.                       *)
LEMMA AdvanceKeepsSeedOK ==
    ASSUME SchemaInv, SeedOK, UNCHANGED <<db, staged>>, Advance, job # NoJob,
           job.copy = 0
    PROVE  SeedOK'
<1>1. job.todo \in Seq(Phases) /\ job.todo # <<>> /\ staged = NoRows
  BY TodosAreSequences DEF SchemaInv, JobOK, SeedOK
<1>2. CASE End("done")
  BY <1>1, <1>2, EndKeepsSeedOK
<1>3. CASE job' = [job EXCEPT !.todo = Tail(@)]
  <2>1. /\ job'.todo = Tail(job.todo) /\ job'.copy = job.copy
        /\ job'.checked = job.checked /\ job'.submitted = job.submitted
    BY <1>3 DEF SchemaInv, IsJob
  <2>2. job'.copy = 0 /\ job'.submitted = 0 /\ job'.checked \in BOOLEAN
    BY <2>1 DEF SeedOK
  <2>3. "seed" \in ToSet(job'.todo) => "seed" \in ToSet(job.todo)
    BY <1>1, <2>1, TailsPhases
  <2>4. QED
    BY <1>1, <2>2, <2>3, IdleKeepsSeedOK
<1>4. QED
  BY <1>2, <1>3 DEF Advance

(* A command that seeds starts only while there is room for a copy.        *)
LEMMA StartKeepsSeedOK ==
    ASSUME SeedOK, NEW cmd \in DOMAIN Commands, Start(cmd)
    PROVE  SeedOK'
<1>1. PICK n \in 0..MaxCopies : Copies = 1..n
  BY DEF SeedOK
<1>2. Cardinality(Copies) = n
  <2>1. n \in Nat
    BY BringUpAssumption
  <2>2. Cardinality(1..n) = IF 1 > n THEN 0 ELSE n - 1 + 1
    BY <2>1, FS_Interval
  <2>3. QED
    BY <1>1, <2>1, <2>2
<1>3. /\ job = NoJob /\ UNCHANGED <<db, staged>>
      /\ "seed" \in ToSet(Commands[cmd]) => n < MaxCopies
      /\ job' = [NoJob EXCEPT !.cmd = cmd, !.todo = Commands[cmd]]
  BY <1>2 DEF Start, data
<1>4. /\ job'.copy = 0 /\ job'.submitted = 0 /\ job'.checked = FALSE
      /\ job'.todo = Commands[cmd]
  BY <1>3 DEF NoJob
<1>5. staged' = NoRows
  BY <1>3 DEF SeedOK, NoJob
<1>6. Copies' = 1..n
  BY <1>1, <1>3 DEF Copies
<1>7. \A i \in 1..job'.submitted : OnRecord(i)'
  BY <1>4
<1>8. job'.copy \in 0..MaxCopies /\ job'.submitted \in 0..Len(SeedAnswers)
  BY <1>4, BringUpAssumption DEF SeedAnswers
<1>9. QED
  BY <1>3, <1>4, <1>5, <1>6, <1>7, <1>8 DEF SeedOK

(* What the seed has in its transaction: a copy, before its first commit.  *)
LEMMA StagedRows ==
    ASSUME SeedOK, NEW t \in Tables
    PROVE  /\ staged[t] \subseteq RowsOf(t)
           /\ staged[t] # {} => t \in {"users", "interviews", "questions", "interview_assignments"}
<1>1. CASE job.copy # 0 /\ job.submitted = 0
  <2>1. job.copy \in 1..MaxCopies /\ job.checked \in BOOLEAN
    BY <1>1, BringUpAssumption DEF SeedOK
  <2>2. QED
    BY <1>1, <2>1, SetupRows DEF SeedOK
<1>2. CASE ~(job.copy # 0 /\ job.submitted = 0)
  BY <1>2 DEF SeedOK, NoRows
<1>3. QED
  BY <1>1, <1>2

(* init_db touches no row but those of a table it drops, and no seed of    *)
(* the same command is under way.                                          *)
LEMMA InitDbKeepsRows ==
    ASSUME BringUpInv, InitDb
    PROVE  RowsOK' /\ SeedOK'
<1>1. Phase \in {"drop", "create"} /\ job # NoJob
  <2>1. Phase \in {"drop", "create"}
    BY DEF InitDb, Refuse, DropTrigger, DropTable, DropDone, MayDrop,
           CreateTable, CreateIndex, CreateTrigger, CreateDone
  <2>2. QED
    BY <2>1 DEF Phase, NoJob
<1>2. job.copy = 0 /\ staged = NoRows
  BY <1>1, BeforeSeed DEF BringUpInv, SeedOK
<1>3. CASE Refuse
  BY <1>2, <1>3, EndKeepsSeedOK, SchemaKeepsRowsOK DEF Refuse, BringUpInv, data, schema
<1>4. CASE DropDone \/ CreateDone
  BY <1>1, <1>2, <1>4, AdvanceKeepsSeedOK, SchemaKeepsRowsOK
     DEF DropDone, CreateDone, BringUpInv, data, schema
<1>5. CASE DropTrigger \/ CreateTable \/ CreateIndex \/ CreateTrigger
  <2>1. UNCHANGED <<db, staged, job>> /\ tables \subseteq tables'
    BY <1>5 DEF DropTrigger, CreateTable, CreateIndex, CreateTrigger, data, command
  <2>2. triggers' \subseteq triggers \/ "audit_log" \in tables'
    BY <1>5, RowNames DEF DropTrigger, CreateTable, CreateIndex, CreateTrigger, MissingTables
  <2>3. Copies' = Copies
    BY <2>1 DEF Copies
  <2>4. SeedOK'
    BY <2>1, <2>3, SameKeepsSeedOK DEF BringUpInv
  <2>5. QED
    BY <2>1, <2>2, <2>4, SchemaKeepsRowsOK DEF BringUpInv
<1>6. CASE DropTable
  <2>1. CASE End("failed") /\ UNCHANGED <<tables, db, triggers, staged>>
    BY <1>2, <2>1, EndKeepsSeedOK, SchemaKeepsRowsOK DEF BringUpInv
  <2>2. CASE /\ tables' = tables \ {LastTable}
             /\ db' = [db EXCEPT ![LastTable] = {}]
             /\ UNCHANGED <<staged, job, triggers>>
    <3>1. \A t \in Tables : db'[t] = IF t = LastTable THEN {} ELSE db[t]
      BY <2>2 DEF BringUpInv, CopyInv
    <3>2. triggers = {}
      BY <1>6 DEF DropTable, GuardsGone
    <3>3. RowsOK'
      <4>1. ASSUME NEW t \in Tables PROVE db'[t] \subseteq RowsOf(t) /\ (db'[t] # {} => t \in tables')
        BY <2>2, <3>1, <4>1 DEF BringUpInv, RowsOK
      <4>2. QED
        BY <2>2, <3>2, <4>1 DEF RowsOK, RowsOf, Answer, SeededRow
    <3>4. Copies' = Copies \/ Copies' = {}
      BY <3>1, TableNames DEF Copies
    <3>5. PICK n \in 0..MaxCopies :
              /\ Copies = 1..n
              /\ job.copy = 0 /\ "seed" \in ToSet(job.todo) => n < MaxCopies
      BY DEF BringUpInv, SeedOK
    <3>6. \E m \in 0..MaxCopies :
              /\ Copies' = 1..m
              /\ "seed" \in ToSet(job.todo) => m < MaxCopies
      <4>1. CASE Copies' = Copies
        BY <1>2, <3>5, <4>1
      <4>2. CASE Copies' = {}
        <5>1. 0 \in 0..MaxCopies /\ 1..0 = {} /\ 0 < MaxCopies
          BY BringUpAssumption
        <5>2. QED
          BY <4>2, <5>1
      <4>3. QED
        BY <3>4, <4>1, <4>2
    <3>7. \A i \in 1..job.submitted : OnRecord(i)'
      BY <1>2 DEF BringUpInv, SeedOK
    <3>8. SeedOK'
      BY <1>2, <2>2, <3>6, <3>7 DEF BringUpInv, SeedOK
    <3>9. QED
      BY <3>3, <3>8
  <2>3. QED
    BY <1>6, <2>1, <2>2 DEF DropTable, world, command
<1>7. QED
  BY <1>3, <1>4, <1>5, <1>6 DEF InitDb

(* Whatever visitors do, they add to the rows, and to no copy.             *)
LEMMA VisitKeepsRows ==
    ASSUME BringUpInv, NEW rows, Visit(rows),
           \A t \in Tables : rows[t] \subseteq RowsOf(t) /\ (rows[t] # {} => t \in tables),
           \A row \in rows["interviews"] : row[1] = 0
    PROVE  RowsOK' /\ SeedOK'
<1>1. Insert(rows) /\ UNCHANGED <<tables, triggers, job, staged>>
  BY DEF Visit, schema, command
<1>2. RowsOK'
  BY <1>1, InsertKeepsRowsOK DEF BringUpInv
<1>3. \A t \in Tables : db'[t] = db[t] \cup rows[t]
  BY <1>1 DEF Insert
<1>4. Copies' = Copies
  BY <1>3, TableNames DEF Copies
<1>5. SeedOK'
  BY <1>1, <1>3, <1>4, RowNames, SameKeepsSeedOK DEF BringUpInv
<1>6. QED
  BY <1>2, <1>5

(* The mock provider and the router answer a verdict of the schema.        *)
LEMMA SeedVerdictType == \A i \in Submissions : SeedVerdicts(i) \subseteq Verdict
<1>1. \A matched, size : \A result \in evaluate(matched, size) : result.verdict \in LLMVerdict
  BY DEF evaluate, LLMVerdict
<1>2. QED
  BY <1>1 DEF SeedVerdicts, route_verdict, Verdict

(* The next copy is the one after the last.                                *)
LEMMA NextCopy ==
    ASSUME NEW n \in Nat, Copies = 1..n
    PROVE  Max(Copies \cup {0}) = n
<1>1. n \in Copies \cup {0} /\ \A y \in Copies \cup {0} : n >= y
  OBVIOUS
<1>2. \A x \in Copies \cup {0} : (\A y \in Copies \cup {0} : x >= y) => x = n
  BY <1>1
<1>3. QED
  BY <1>1, <1>2 DEF Max

(* --if-empty passes on to the seed, or skips it.                          *)
LEMMA CheckKeepsRows ==
    ASSUME BringUpInv, Check
    PROVE  RowsOK' /\ SeedOK'
<1>1. Phase = "check" /\ UNCHANGED <<db, staged, tables, triggers>> /\ job # NoJob
  BY DEF Check, schema, data, Phase, NoJob
<1>2. RowsOK'
  BY <1>1, SchemaKeepsRowsOK DEF BringUpInv
<1>3. job.copy = 0 /\ staged = NoRows
  BY <1>1, BeforeSeed DEF BringUpInv, SeedOK
<1>4. job.todo \in Seq(Phases) /\ job.todo # <<>> /\ job.todo \in Todos
  BY <1>1, TodosAreSequences DEF BringUpInv, SchemaInv, JobOK
<1>5. CASE End("done")
  BY <1>1, <1>2, <1>3, <1>5, EndKeepsSeedOK DEF BringUpInv
<1>6. CASE job' = [job EXCEPT !.todo = Tail(@), !.checked = TRUE]
  <2>1. /\ job'.todo = Tail(job.todo) /\ job'.copy = job.copy
        /\ job'.checked = TRUE /\ job'.submitted = job.submitted
    BY <1>6 DEF BringUpInv, SchemaInv, IsJob
  <2>2. job'.copy = 0 /\ job'.submitted = 0 /\ job'.checked \in BOOLEAN
    BY <1>3, <2>1 DEF BringUpInv, SeedOK
  <2>3. "seed" \in ToSet(job'.todo) => "seed" \in ToSet(job.todo)
    BY <1>4, <2>1, TailsPhases
  <2>4. SeedOK'
    BY <1>1, <1>3, <2>2, <2>3, IdleKeepsSeedOK DEF BringUpInv
  <2>5. QED
    BY <1>2, <2>4
<1>7. CASE /\ Len(job.todo) # 2
           /\ job' = [job EXCEPT !.todo = Tail(Tail(@))]
  <2>1. /\ job'.todo = Tail(Tail(job.todo)) /\ job'.copy = job.copy
        /\ job'.checked = job.checked /\ job'.submitted = job.submitted
    BY <1>7 DEF BringUpInv, SchemaInv, IsJob
  <2>2. job'.copy = 0 /\ job'.submitted = 0 /\ job'.checked \in BOOLEAN
    BY <1>3, <2>1 DEF BringUpInv, SeedOK
  <2>3. job'.todo = <<"serve">>
    BY <1>1, <1>4, <1>7, <2>1, TodoFacts DEF Phase
  <2>4. "seed" \notin ToSet(job'.todo)
    BY <2>3 DEF ToSet
  <2>5. SeedOK'
    BY <1>1, <1>3, <2>2, <2>4, IdleKeepsSeedOK DEF BringUpInv
  <2>6. QED
    BY <1>2, <2>5
<1>8. QED
  BY <1>5, <1>6, <1>7 DEF Check

(* The seed writes the next copy into its open transaction.                *)
LEMMA SeedSetupKeepsRows ==
    ASSUME BringUpInv, SeedSetup
    PROVE  RowsOK' /\ SeedOK'
<1> DEFINE copy == 1 + Max(Copies \cup {0})
<1>1. /\ Phase = "seed" /\ job.copy = 0 /\ UNCHANGED <<db, tables, triggers>> /\ job # NoJob
  BY DEF SeedSetup, schema, Phase, NoJob
<1>2. RowsOK'
  BY <1>1, SchemaKeepsRowsOK DEF BringUpInv
<1>3. CASE Abandon("failed")
  BY <1>1, <1>2, <1>3, EndKeepsSeedOK DEF Abandon, BringUpInv
<1>4. CASE staged' = Setup(copy, job.checked) /\ job' = [job EXCEPT !.copy = copy]
  <2>1. PICK n \in 0..MaxCopies :
            /\ Copies = 1..n
            /\ job.copy = 0 /\ "seed" \in ToSet(job.todo) => n < MaxCopies
    BY DEF BringUpInv, SeedOK
  <2>2. job.todo \in {<<"seed">>, <<"seed", "serve">>}
    <3>1. job.todo \in Todos
      BY <1>1 DEF BringUpInv, SchemaInv, JobOK
    <3>2. Head(job.todo) = "seed"
      BY <1>1 DEF Phase
    <3>3. QED
      BY <3>1, <3>2 DEF Todos
  <2>3. "seed" \in ToSet(job.todo)
    BY <2>2 DEF ToSet
  <2>4. n \in Nat /\ copy = n + 1 /\ copy \in 1..MaxCopies
    <3>1. n \in Nat /\ n < MaxCopies /\ MaxCopies \in Nat
      BY <1>1, <2>1, <2>3, BringUpAssumption
    <3>2. Max(Copies \cup {0}) = n
      BY <2>1, <3>1, NextCopy
    <3>3. QED
      BY <3>1, <3>2
  <2> HIDE DEF copy
  <2>5. /\ job'.copy = copy /\ job'.todo = job.todo
        /\ job'.checked = job.checked /\ job'.submitted = job.submitted
    BY <1>4 DEF BringUpInv, SchemaInv, IsJob
  <2>6. job'.submitted = 0 /\ job.checked \in BOOLEAN
    BY <1>1, <2>5 DEF BringUpInv, SeedOK
  <2>7. Copies' = 1..n
    BY <1>1, <2>1 DEF Copies
  <2>8. \A i \in 1..job'.submitted : OnRecord(i)'
    BY <2>6
  <2>9. job'.copy # 0 /\ job'.copy \in 0..MaxCopies /\ job'.submitted \in 0..Len(SeedAnswers)
    BY <2>4, <2>5, <2>6 DEF SeedAnswers
  <2>10. staged' = Setup(job'.copy, job'.checked)
    BY <1>4, <2>5
  <2>11. SeedOK'
    BY <2>1, <2>2, <2>4, <2>5, <2>6, <2>7, <2>8, <2>9, <2>10 DEF SeedOK
  <2>12. QED
    BY <1>2, <2>11
<1>5. QED
  BY <1>3, <1>4 DEF SeedSetup

(* The copies of one more interview row.                                   *)
LEMMA OneMoreRow ==
    ASSUME NEW S, NEW c, NEW d
    PROVE  { row[1] : row \in S \cup {<<c, d>>} } = { row[1] : row \in S } \cup {c}
<1>1. <<c, d>>[1] = c
  OBVIOUS
<1>2. ASSUME NEW x PROVE x \in { row[1] : row \in S \cup {<<c, d>>} }
                         <=> x \in { row[1] : row \in S } \cup {c}
  BY <1>1
<1>3. QED
  BY <1>2

(* The first submission commits the copy with itself, and each one puts    *)
(* itself on the record.                                                   *)
LEMMA SeedSubmitKeepsRows ==
    ASSUME BringUpInv, SeedSubmit
    PROVE  RowsOK' /\ SeedOK'
<1> DEFINE i == job.submitted + 1
<1>1. /\ Phase = "seed" /\ job.copy # 0 /\ i \in Submissions
      /\ UNCHANGED <<tables, triggers>> /\ job # NoJob
  BY DEF SeedSubmit, schema, Phase, NoJob
<1>2. CASE \E outcome : Abandon(outcome) /\ UNCHANGED db
  <2>1. RowsOK'
    BY <1>1, <1>2, SchemaKeepsRowsOK DEF BringUpInv
  <2>2. QED
    BY <1>2, <2>1, EndKeepsSeedOK DEF Abandon, BringUpInv
<1>3. ASSUME NEW verdict \in SeedVerdicts(i), CanSubmit, staged' = NoRows,
             job' = [job EXCEPT !.submitted = i],
             LET new == Submission(job.copy, i, verdict) IN
             Insert([t \in Tables |-> staged[t] \cup new[t]])
      PROVE  RowsOK' /\ SeedOK'
  <2> DEFINE new  == Submission(job.copy, i, verdict)
             rows == [t \in Tables |-> staged[t] \cup new[t]]
  <2>1. /\ job.copy \in 1..MaxCopies /\ verdict \in Verdict
        /\ job.submitted \in 0..Len(SeedAnswers) /\ i \in 1..Len(SeedAnswers)
        /\ i \in Submissions
    BY <1>1, SeedVerdictType, BringUpAssumption DEF BringUpInv, SeedOK, Submissions, SeedAnswers
  <2>2. /\ job'.submitted = i /\ job'.todo = job.todo
        /\ job'.copy = job.copy /\ job'.checked = job.checked
    BY <1>3 DEF BringUpInv, SchemaInv, IsJob
  <2>3. /\ <<job.copy, i>> \in new["responses"] /\ <<job.copy, i>> \in new["audit_log"]
        /\ <<job.copy, i, verdict>> \in new["evaluations"]
        /\ new["interviews"] = {}
    BY RowNames, TableNames DEF Submission
  <2>4. ASSUME NEW t \in Tables
        PROVE  /\ new[t] \subseteq RowsOf(t)
               /\ new[t] # {} => t \in {"responses", "llm_calls", "audit_log", "evaluations"}
    BY <2>1, <2>4, SubmissionRows
  <2> HIDE DEF new, i
  <2>5. Insert(rows)
    BY <1>3 DEF new
  <2>6. \A t \in Tables : rows[t] \subseteq RowsOf(t) /\ (rows[t] # {} => t \in tables)
    <3> SUFFICES ASSUME NEW t \in Tables
                 PROVE  rows[t] \subseteq RowsOf(t) /\ (rows[t] # {} => t \in tables)
      OBVIOUS
    <3>1. /\ staged[t] \subseteq RowsOf(t)
          /\ staged[t] # {} => t \in {"users", "interviews", "questions", "interview_assignments"}
      BY StagedRows DEF BringUpInv
    <3>2. t # "human_reviews" => t \in tables
      BY <1>3 DEF CanSubmit
    <3>3. rows[t] = staged[t] \cup new[t]
      OBVIOUS
    <3>4. QED
      BY <2>4, <3>1, <3>2, <3>3
  <2>7. RowsOK'
    <3> HIDE DEF rows
    <3>1. QED
      BY <1>1, <2>5, <2>6, InsertKeepsRowsOK DEF BringUpInv
  <2>8. \A t \in Tables : db'[t] = (db[t] \cup staged[t]) \cup new[t]
    BY <2>5 DEF Insert
  <2>9. PICK n \in 0..MaxCopies :
            /\ Copies = 1..n
            /\ job.copy # 0 /\ job.submitted = 0 => job.copy = n + 1
    BY DEF BringUpInv, SeedOK
  <2>10. \E m \in 0..MaxCopies : Copies' = 1..m
    <3>1. db'["interviews"] = db["interviews"] \cup staged["interviews"]
      BY <2>3, <2>8, TableNames
    <3>2. CASE job.submitted = 0
      <4>1. staged["interviews"] = {<<job.copy, job.checked>>}
        BY <1>1, <3>2, TableNames DEF BringUpInv, SeedOK, Setup
      <4>2. Copies' = Copies \cup {job.copy}
        <5>1. db'["interviews"] = db["interviews"] \cup {<<job.copy, job.checked>>}
          BY <3>1, <4>1
        <5>2. { row[1] : row \in db'["interviews"] }
                = { row[1] : row \in db["interviews"] } \cup {job.copy}
          BY <5>1, OneMoreRow
        <5>3. QED
          BY <1>1, <5>2 DEF Copies
      <4>3. job.copy = n + 1 /\ n \in Nat
        BY <1>1, <2>9, <3>2, BringUpAssumption
      <4>4. Copies' = 1..(n + 1)
        BY <2>9, <4>2, <4>3
      <4>5. QED
        BY <2>1, <4>3, <4>4, BringUpAssumption
    <3>3. CASE job.submitted # 0
      <4>1. staged["interviews"] = {}
        BY <3>3, TableNames DEF BringUpInv, SeedOK, NoRows
      <4>2. Copies' = Copies
        BY <3>1, <4>1 DEF Copies
      <4>3. QED
        BY <2>9, <4>2
    <3>4. QED
      BY <3>2, <3>3
  <2>11. ASSUME NEW k \in 1..i PROVE OnRecord(k)'
    <3>1. \A t \in {"responses", "evaluations", "audit_log"} :
              db[t] \subseteq db'[t] /\ new[t] \subseteq db'[t]
      BY <2>8, RowNames
    <3>2. CASE k = i
      BY <1>3, <2>2, <2>3, <3>1, <3>2 DEF OnRecord, Answered
    <3>3. CASE k # i
      <4>1. k \in 1..job.submitted
        BY <2>1, <3>3 DEF i
      <4>2. OnRecord(k)
        BY <4>1 DEF BringUpInv, SeedOK
      <4>3. QED
        BY <2>2, <3>1, <4>2 DEF OnRecord, Answered
    <3>4. QED
      BY <3>2, <3>3
  <2>12. job.todo \in {<<"seed">>, <<"seed", "serve">>}
    <3>1. job.todo # <<"serve">>
      BY <1>1 DEF Phase
    <3>2. QED
      BY <1>1, <3>1 DEF BringUpInv, SeedOK
  <2>13. i # 0 /\ i \in 0..Len(SeedAnswers)
    BY <2>1 DEF i
  <2>14. job.copy \in 0..MaxCopies /\ job.checked \in BOOLEAN
    BY DEF BringUpInv, SeedOK
  <2>15. SeedOK'
    BY <1>1, <1>3, <2>2, <2>10, <2>11, <2>12, <2>13, <2>14 DEF SeedOK
  <2>16. QED
    BY <2>7, <2>15
<1>4. QED
  BY <1>2, <1>3 DEF SeedSubmit

(* A seed ends only when every submission is on the record.                *)
LEMMA SeedDoneKeepsRows ==
    ASSUME BringUpInv, SeedDone
    PROVE  RowsOK' /\ SeedOK'
<1>1. /\ Phase = "seed" /\ UNCHANGED <<tables, triggers, db, staged>> /\ Advance
      /\ job.submitted = Len(SeedAnswers) /\ job # NoJob
  BY DEF SeedDone, schema, data, Phase, NoJob
<1>2. RowsOK'
  BY <1>1, SchemaKeepsRowsOK DEF BringUpInv
<1>3. Len(SeedAnswers) = 6
  BY DEF SeedAnswers
<1>4. job.copy # 0 /\ staged = NoRows
  BY <1>1, <1>3 DEF BringUpInv, SeedOK
<1>5. job.todo \in {<<"seed">>, <<"seed", "serve">>}
  <2>1. job.todo # <<"serve">>
    BY <1>1 DEF Phase
  <2>2. QED
    BY <1>4, <2>1 DEF BringUpInv, SeedOK
<1>6. CASE End("done")
  BY <1>1, <1>2, <1>4, <1>6, EndKeepsSeedOK DEF BringUpInv
<1>7. CASE Len(job.todo) # 1 /\ job' = [job EXCEPT !.todo = Tail(@)]
  <2>1. /\ job'.todo = Tail(job.todo) /\ job'.copy = job.copy
        /\ job'.checked = job.checked /\ job'.submitted = job.submitted
    BY <1>7 DEF BringUpInv, SchemaInv, IsJob
  <2>2. job'.todo = <<"serve">>
    <3>1. ASSUME job.todo = <<"seed">> PROVE FALSE
      <4>1. Len(<<"seed">>) = 1
        OBVIOUS
      <4>2. QED
        BY <1>7, <3>1, <4>1
    <3>2. job.todo = <<"seed", "serve">>
      BY <1>5, <3>1
    <3>3. QED
      BY <2>1, <3>2
  <2>3. Copies' = Copies
    BY <1>1 DEF Copies
  <2>4. \A k \in 1..job.submitted : OnRecord(k) => OnRecord(k)'
    BY <1>1, <2>1 DEF OnRecord, Answered
  <2>5. SeedOK'
    BY <1>1, <1>3, <1>4, <2>1, <2>2, <2>3, <2>4 DEF BringUpInv, SeedOK
  <2>6. QED
    BY <1>2, <2>5
<1>8. QED
  BY <1>1, <1>6, <1>7 DEF Advance

(* Serving comes after the seed, and writes nothing.                       *)
LEMMA ServeKeepsRows ==
    ASSUME BringUpInv, Serve
    PROVE  RowsOK' /\ SeedOK'
<1>1. /\ Phase = "serve" /\ UNCHANGED <<tables, triggers, db, staged>> /\ job # NoJob
      /\ Advance \/ End("port_taken")
  BY DEF Serve, schema, data, Phase, NoJob
<1>2. RowsOK'
  BY <1>1, SchemaKeepsRowsOK DEF BringUpInv
<1>3. CASE job.copy = 0
  <2>1. staged' = NoRows
    BY <1>1, <1>3 DEF BringUpInv, SeedOK
  <2>2. QED
    BY <1>1, <1>2, <1>3, <2>1, AdvanceKeepsSeedOK, EndKeepsSeedOK DEF BringUpInv
<1>4. CASE job.copy # 0
  <2>1. job.todo \notin {<<"seed">>, <<"seed", "serve">>}
    BY <1>1 DEF Phase
  <2>2. job.todo = <<"serve">> /\ job.submitted = Len(SeedAnswers)
    BY <1>4, <2>1 DEF BringUpInv, SeedOK
  <2>3. Len(job.todo) = 1 /\ Len(SeedAnswers) = 6
    BY <2>2 DEF SeedAnswers
  <2>4. (End("done") \/ End("port_taken")) /\ staged' = NoRows
    BY <1>1, <1>4, <2>2, <2>3 DEF Advance, BringUpInv, SeedOK
  <2>5. QED
    BY <1>1, <1>2, <2>4, EndKeepsSeedOK DEF BringUpInv
<1>5. QED
  BY <1>3, <1>4

(* A database file that does not exist yet.                                *)
LEMMA BringUpInvInit == Init => BringUpInv
<1> SUFFICES ASSUME Init PROVE BringUpInv
  OBVIOUS
<1>1. ShapeOK
  <2>1. 0 \in 0..MaxCommands /\ 0 \in 0..MaxVisits
    BY BringUpAssumption
  <2>2. last.outcome \in Outcomes
    BY DEF Init, NoEnd, Outcomes
  <2>3. environment \in Environments /\ serving = FALSE /\ runs = 0 /\ visits = 0
    BY DEF Init
  <2>4. QED
    BY <2>1, <2>2, <2>3 DEF ShapeOK
<1>2. RowsOK
  BY DEF Init, RowsOK, NoRows
<1>3. SeedOK
  <2>1. Copies = 1..0
    BY TableNames DEF Init, Copies, NoRows
  <2>2. 0 \in 0..MaxCopies /\ 0 < MaxCopies /\ 0 \in 0..Len(SeedAnswers)
    BY BringUpAssumption DEF SeedAnswers
  <2>3. /\ job.copy = 0 /\ job.submitted = 0 /\ job.checked = FALSE
        /\ staged = NoRows
    BY DEF Init, NoJob
  <2>4. \A i \in 1..job.submitted : OnRecord(i)
    BY <2>3
  <2>5. \E n \in 0..MaxCopies :
           /\ Copies = 1..n
           /\ job.copy = 0 /\ "seed" \in ToSet(job.todo) => n < MaxCopies
           /\ job.copy # 0 /\ job.submitted = 0 => job.copy = n + 1
    BY <2>1, <2>2, <2>3
  <2>6. staged = IF job.copy # 0 /\ job.submitted = 0
                 THEN Setup(job.copy, job.checked) ELSE NoRows
    BY <2>3
  <2>7. QED
    BY <2>2, <2>3, <2>4, <2>5, <2>6 DEF SeedOK
<1>4. TodoOK
  BY DEF Init, TodoOK
<1>5. QED
  BY <1>1, <1>2, <1>3, <1>4, CopyInvInit, SchemaInvInit DEF BringUpInv

(* Every step of an operator, of a visitor or of a crash keeps the rows in *)
(* order.                                                                  *)
LEMMA NextKeepsBringUpInv == BringUpInv /\ [Next]_vars => BringUpInv'
<1> SUFFICES ASSUME BringUpInv, [Next]_vars PROVE BringUpInv'
  OBVIOUS
<1>1. CopyInv' /\ SchemaInv' /\ ShapeOK' /\ TodoOK'
  BY NextKeepsCopyInv, NextKeepsSchemaInv, NextKeepsShapeOK, NextKeepsTodoOK DEF BringUpInv
<1>2. CASE \E cmd \in DOMAIN Commands : Start(cmd)
  <2>1. UNCHANGED <<db, tables, triggers>>
    BY <1>2 DEF Start, schema, data
  <2>2. QED
    BY <1>1, <1>2, <2>1, StartKeepsSeedOK, SchemaKeepsRowsOK DEF BringUpInv
<1>3. CASE InitDb
  BY <1>1, <1>3, InitDbKeepsRows DEF BringUpInv
<1>4. CASE Seed
  BY <1>1, <1>4, CheckKeepsRows, SeedSetupKeepsRows, SeedSubmitKeepsRows, SeedDoneKeepsRows
     DEF Seed, BringUpInv
<1>5. CASE Serve
  BY <1>1, <1>5, ServeKeepsRows DEF BringUpInv
<1>6. CASE StopServing \/ UNCHANGED vars
  <2>1. UNCHANGED <<db, tables, triggers, staged, job>>
    BY <1>6 DEF StopServing, schema, data, command, vars
  <2>2. RowsOK' /\ SeedOK'
    BY <2>1, SchemaKeepsRowsOK, SameKeepsSeedOK DEF BringUpInv, Copies
  <2>3. QED
    BY <1>1, <2>2 DEF BringUpInv
<1>7. CASE Kill
  <2>1. RowsOK' /\ SeedOK'
    BY <1>7, EndKeepsSeedOK, SchemaKeepsRowsOK DEF Kill, Abandon, BringUpInv
  <2>2. QED
    BY <1>1, <2>1 DEF BringUpInv
<1>8. CASE CreateInterview
  <2> DEFINE rows == [NoRows EXCEPT !["users"] = {"visitor"},
                                    !["interviews"] = {<<0, FALSE>>},
                                    !["questions"] = {<<0, FALSE>>}]
  <2>1. Visit(rows) /\ {"users", "interviews", "questions"} \subseteq tables
    BY <1>8 DEF CreateInterview
  <2>2. ASSUME NEW t \in Tables
        PROVE  rows[t] \subseteq RowsOf(t) /\ (rows[t] # {} => t \in tables)
    <3>1. CASE t = "users"
      BY <2>1, <3>1, TableNames DEF NoRows, RowsOf
    <3>2. CASE t \in {"interviews", "questions"}
      <4>1. <<0, FALSE>> \in SeededRow /\ RowsOf(t) = SeededRow
        <5>1. 0 \in 0..MaxCopies
          BY BringUpAssumption
        <5>2. RowsOf(t) = SeededRow
          BY <3>2 DEF RowsOf
        <5>3. QED
          BY <5>1, <5>2 DEF SeededRow
      <4>2. QED
        BY <2>1, <3>2, <4>1, TableNames DEF NoRows
    <3>3. CASE t \notin {"users", "interviews", "questions"}
      BY <3>3, TableNames DEF NoRows
    <3>4. QED
      BY <3>1, <3>2, <3>3
  <2>3. \A row \in rows["interviews"] : row[1] = 0
    <3>1. rows["interviews"] = {<<0, FALSE>>} /\ <<0, FALSE>>[1] = 0
      BY TableNames DEF NoRows
    <3>2. QED
      BY <3>1
  <2> HIDE DEF rows
  <2>4. QED
    BY <1>1, <2>1, <2>2, <2>3, VisitKeepsRows DEF BringUpInv
<1>9. CASE \E copy \in 1..MaxCopies, i \in Visited : SubmitResponse(copy, i)
  <2>1. PICK copy \in 1..MaxCopies, i \in Visited, verdict \in Verdict :
           CanSubmit /\ Visit(Submission(copy, i, verdict))
    BY <1>9 DEF SubmitResponse
  <2> DEFINE rows == Submission(copy, i, verdict)
  <2>2. rows["interviews"] = {}
    BY TableNames DEF Submission
  <2>3. ASSUME NEW t \in Tables
        PROVE  rows[t] \subseteq RowsOf(t) /\ (rows[t] # {} => t \in tables)
    <3>1. /\ rows[t] \subseteq RowsOf(t)
          /\ rows[t] # {} => t \in {"responses", "llm_calls", "audit_log", "evaluations"}
      BY SubmissionRows
    <3>2. t # "human_reviews" => t \in tables
      BY <2>1 DEF CanSubmit
    <3> HIDE DEF rows
    <3>3. QED
      BY <3>1, <3>2
  <2> HIDE DEF rows
  <2>4. Visit(rows)
    BY <2>1 DEF rows
  <2>5. QED
    BY <1>1, <2>2, <2>3, <2>4, VisitKeepsRows DEF BringUpInv
<1>10. QED
  BY <1>2, <1>3, <1>4, <1>5, <1>6, <1>7, <1>8, <1>9 DEF Next

(* The invariant of the rows holds whatever is run, killed or visited.     *)
LEMMA BringUpInvHolds == Spec => []BringUpInv
  BY BringUpInvInit, NextKeepsBringUpInv, PTL DEF Spec

(* Whatever is started, killed and visited, the rows are those of the      *)
(* schema, none is in a table that does not exist, and no trigger is       *)
(* without its audit_log.                                                  *)
THEOREM BringUpTypeCorrect == Spec => []BringUpTypeOK
<1>1. BringUpInv => BringUpTypeOK
  <2> SUFFICES ASSUME BringUpInv PROVE BringUpTypeOK
    OBVIOUS
  <2>1. \A t \in Tables : db[t] \cup staged[t] \subseteq RowsOf(t)
    BY StagedRows DEF BringUpInv, RowsOK
  <2>2. job # NoJob => /\ job.cmd \in DOMAIN Commands
                       /\ IsSuffix(job.todo, Commands[job.cmd])
                       /\ job.copy \in 0..MaxCopies
                       /\ job.submitted \in 0..Len(SeedAnswers)
    BY DEF BringUpInv, SchemaInv, JobOK, TodoOK, SeedOK
  <2>3. /\ tables \subseteq Tables /\ triggers \subseteq ToSet(Triggers)
        /\ indexes \subseteq Indexed \cap tables /\ torn \subseteq Indexed \cap tables
    BY DEF BringUpInv, SchemaInv, SchemaOK
  <2>4. QED
    BY <2>1, <2>2, <2>3 DEF BringUpInv, RowsOK, ShapeOK, BringUpTypeOK
<1>2. QED
  BY <1>1, BringUpInvHolds, PTL

(* A confidence of the mock provider is within 4 of its base: the second   *)
(* answer of the seed matches nothing and scores at least 96, the third    *)
(* matches half and scores below 60, the fifth matches all of its rubric.  *)
LEMMA SeedScores ==
    ASSUME ConfidenceThreshold \in 60..96
    PROVE  /\ \A verdict \in SeedVerdicts(2) : verdict = "incorrect"
           /\ \A verdict \in SeedVerdicts(3) : verdict = "requires_human_review"
           /\ \A verdict \in SeedVerdicts(5) : verdict = "correct"
<1>1. ASSUME NEW r \in evaluate(0, 5) PROVE r.verdict = "incorrect" /\ r.confidence \in Int /\ r.confidence >= 96
  <2>1. \A m \in Bases(0, 5) : m \in Int /\ m >= 100
    BY DEF Bases, Abs
  <2>2. \A c \in Confidences(0, 5) : c \in Int /\ c >= 96
    BY <2>1 DEF Confidences, Clamp, Spread
  <2>3. ~Passes(0, 5)
    BY DEF Passes
  <2>4. QED
    BY <2>2, <2>3 DEF evaluate
<1>2. ASSUME NEW r \in evaluate(2, 4) PROVE r.confidence \in Int /\ r.confidence < 60
  <2>1. \A m \in Bases(2, 4) : m \in Int /\ m <= 55
    BY DEF Bases, Abs
  <2>2. \A c \in Confidences(2, 4) : c \in Int /\ c < 60
    BY <2>1 DEF Confidences, Clamp, Spread
  <2>3. QED
    BY <2>2 DEF evaluate
<1>3. ASSUME NEW r \in evaluate(4, 4) PROVE r.verdict = "correct" /\ r.confidence \in Int /\ r.confidence >= 96
  <2>1. \A m \in Bases(4, 4) : m \in Int /\ m >= 100
    BY DEF Bases, Abs
  <2>2. \A c \in Confidences(4, 4) : c \in Int /\ c >= 96
    BY <2>1 DEF Confidences, Clamp, Spread
  <2>3. Passes(4, 4)
    BY DEF Passes
  <2>4. QED
    BY <2>2, <2>3 DEF evaluate
<1>4. /\ SeedAnswers[2].matched = 0 /\ SeedAnswers[2].size = 5
      /\ SeedAnswers[3].matched = 2 /\ SeedAnswers[3].size = 4
      /\ SeedAnswers[5].matched = 4 /\ SeedAnswers[5].size = 4
  BY DEF SeedAnswers
<1>5. \A verdict \in SeedVerdicts(2) : verdict = "incorrect"
  <2> SUFFICES ASSUME NEW r \in evaluate(0, 5) PROVE route_verdict(r) = "incorrect"
    BY <1>4 DEF SeedVerdicts
  <2>1. ~(r.confidence < ConfidenceThreshold)
    BY <1>1
  <2>2. QED
    BY <1>1, <2>1 DEF route_verdict
<1>6. \A verdict \in SeedVerdicts(3) : verdict = "requires_human_review"
  <2> SUFFICES ASSUME NEW r \in evaluate(2, 4) PROVE route_verdict(r) = "requires_human_review"
    BY <1>4 DEF SeedVerdicts
  <2>1. r.confidence < ConfidenceThreshold
    BY <1>2
  <2>2. QED
    BY <1>2, <2>1 DEF route_verdict
<1>7. \A verdict \in SeedVerdicts(5) : verdict = "correct"
  <2> SUFFICES ASSUME NEW r \in evaluate(4, 4) PROVE route_verdict(r) = "correct"
    BY <1>4 DEF SeedVerdicts
  <2>1. ~(r.confidence < ConfidenceThreshold)
    BY <1>3
  <2>2. QED
    BY <1>3, <2>1 DEF route_verdict
<1>8. QED
  BY <1>5, <1>6, <1>7

(* README C5 and C6: a seed that ran to its end has every submission, and  *)
(* its audit entry, on the record, and each disposition of the router      *)
(* among its evaluations: for every confidence threshold from 60 to 96, 70 *)
(* by default, whatever the jitter of the scores, and whoever else         *)
(* answered, interrupted or seeded before.                                 *)
THEOREM SeedShowsEveryDisposition ==
    ConfidenceThreshold \in 60..96 => (Spec => []CompletedSeedCoversRouter)
<1> SUFFICES ASSUME ConfidenceThreshold \in 60..96 PROVE Spec => []CompletedSeedCoversRouter
  OBVIOUS
<1>1. BringUpInv => CompletedSeedCoversRouter
  <2> SUFFICES ASSUME BringUpInv, job.submitted = Len(SeedAnswers) PROVE CompletedSeedCoversRouter
    BY DEF CompletedSeedCoversRouter
  <2> DEFINE mine == { e \in db["evaluations"] : e[1] = job.copy }
  <2>1. Len(SeedAnswers) = 6 /\ Submissions = 1..6
    BY DEF SeedAnswers, Submissions
  <2>2. \A i \in 1..6 : OnRecord(i)
    BY <2>1 DEF BringUpInv, SeedOK
  <2>3. { row[3] : row \in mine } \subseteq Verdict
    <3>1. RowsOf("evaluations") = (1..MaxCopies) \X (Submissions \cup Visited) \X Verdict
      BY DEF RowsOf
    <3>2. \A row \in db["evaluations"] : row[3] \in Verdict
      BY <3>1, RowNames DEF BringUpInv, RowsOK
    <3>3. QED
      BY <3>2
  <2>4. ASSUME NEW i \in 1..6, NEW verdict \in SeedVerdicts(i),
               <<job.copy, i, verdict>> \in db["evaluations"]
        PROVE  verdict \in { row[3] : row \in mine }
    <3>1. <<job.copy, i, verdict>> \in mine /\ <<job.copy, i, verdict>>[3] = verdict
      BY <2>4
    <3>2. QED
      BY <3>1
  <2>5. Verdict \subseteq { row[3] : row \in mine }
    <3> HIDE DEF mine
    <3>1. ASSUME NEW i \in 1..6
          PROVE  \E verdict \in SeedVerdicts(i) : verdict \in { row[3] : row \in mine }
      <4>1. PICK verdict \in SeedVerdicts(i) :
               <<job.copy, i, verdict>> \in db["evaluations"]
        BY <2>2 DEF OnRecord
      <4>2. QED
        BY <2>4, <4>1
    <3>2. /\ \E verdict \in SeedVerdicts(2) : verdict \in { row[3] : row \in mine }
          /\ \E verdict \in SeedVerdicts(3) : verdict \in { row[3] : row \in mine }
          /\ \E verdict \in SeedVerdicts(5) : verdict \in { row[3] : row \in mine }
      BY <3>1
    <3>3. QED
      BY <3>2, SeedScores DEF Verdict, LLMVerdict
  <2>6. QED
    BY <2>1, <2>2, <2>3, <2>5 DEF OnRecord, CompletedSeedCoversRouter
<1>2. QED
  BY <1>1, BringUpInvHolds, PTL

(***************************************************************************)
(* A reset that fails                                                      *)
(***************************************************************************)
(* How a command may end in failure: while one runs nothing is said of the *)
(* last, and only an End says more.                                        *)
ResetInv == (job # NoJob => last = NoEnd) /\ FailedResetLeavesUsers

(* At first no command has ended.                                          *)
LEMMA ResetInvInit == Init => ResetInv
  BY DEF Init, ResetInv, FailedResetLeavesUsers, NoEnd, NoJob

(* The seed of a command that creates the schema finds all its tables.     *)
LEMMA SeedFindsTables ==
    ASSUME SchemaInv, Phase = "seed", "create" \in ToSet(Commands[job.cmd])
    PROVE  tables = Tables
<1>1. job # NoJob
  BY DEF Phase, NoJob
<1>2. QED
  BY <1>1, PastCreate DEF Ready

(* drop_all goes the other way than create_all, so users, which every      *)
(* other table refers to, is the last to go.                               *)
LEMMA OnlyUsersLeft ==
    ASSUME tables \subseteq Tables, tables # {}, LastTable = "users"
    PROVE  tables = {"users"}
<1> DEFINE I == { i \in 1..Len(CreateOrder) : CreateOrder[i] \in tables }
<1>1. /\ Len(CreateOrder) = 9 /\ DOMAIN CreateOrder = 1..9
      /\ CreateOrder[1] = "users"
      /\ \A i \in 2..9 : CreateOrder[i] # "users"
  BY DEF CreateOrder
<1>2. I # {} /\ I \subseteq 1..9
  BY <1>1 DEF Tables, ToSet
<1>3. LastTable = CreateOrder[Max(I)]
  BY <1>2 DEF LastTable, SelectLastInSeq
<1>4. Max(I) \in I /\ \A i \in I : i <= Max(I)
  <2> HIDE DEF I
  <2>1. \E m \in I : \A i \in I : i <= m
    <3>1. CASE I \cap 7..9 # {}
      BY <1>2, <3>1
    <3>2. CASE I \cap 7..9 = {} /\ I \cap 4..6 # {}
      BY <1>2, <3>2
    <3>3. CASE I \cap 7..9 = {} /\ I \cap 4..6 = {} /\ I \cap 1..3 # {}
      BY <1>2, <3>3
    <3>4. \A i \in I : i \in 1..3 \cup 4..6 \cup 7..9
      BY <1>2
    <3>5. QED
      BY <1>2, <3>1, <3>2, <3>3, <3>4
  <2>2. QED
    BY <1>2, <2>1 DEF Max
<1>5. I \subseteq {1}
  <2>1. Max(I) = 1
    BY <1>1, <1>2, <1>3, <1>4
  <2> HIDE DEF I
  <2>2. QED
    BY <1>2, <1>4, <2>1
<1>6. \A t \in tables : t = "users"
  <2>1. \A t \in tables : \E i \in I : CreateOrder[i] = t
    BY <1>1 DEF Tables, ToSet
  <2>2. QED
    BY <1>1, <1>5, <2>1
<1>7. QED
  BY <1>6

(* A command that ends otherwise than in failure, or passes on.            *)
LEMMA EndKeepsResetInv ==
    ASSUME ResetInv, job # NoJob,
           \/ \E outcome : End(outcome) /\ outcome \notin {"failed", "port_taken"}
           \/ UNCHANGED last
    PROVE  ResetInv'
<1>1. CASE \E outcome : End(outcome) /\ outcome \notin {"failed", "port_taken"}
  BY <1>1 DEF End, ResetInv, FailedResetLeavesUsers
<1>2. CASE UNCHANGED last
  <2>1. last' = NoEnd
    BY <1>2 DEF ResetInv
  <2>2. QED
    BY <2>1 DEF ResetInv, FailedResetLeavesUsers, NoEnd
<1>3. QED
  BY <1>1, <1>2

(* A step of the server: whatever it adds, it takes nothing away.          *)
LEMMA OthersKeepResetInv ==
    ASSUME ResetInv, UNCHANGED <<tables, triggers, job, last>>,
           db["users"] \subseteq db'["users"]
    PROVE  ResetInv'
  BY DEF ResetInv, FailedResetLeavesUsers

(* Of all steps only DropTable, SeedSetup, SeedSubmit and Serve end in     *)
(* failure.                                                                *)
LEMMA NextKeepsResetInv == SchemaInv /\ ResetInv /\ [Next]_vars => ResetInv'
<1> SUFFICES ASSUME SchemaInv, ResetInv, [Next]_vars PROVE ResetInv'
  OBVIOUS
<1>1. CASE \E cmd \in DOMAIN Commands : Start(cmd)
  <2>1. last' = NoEnd
    BY <1>1 DEF Start
  <2>2. QED
    BY <2>1 DEF ResetInv, FailedResetLeavesUsers, NoEnd
<1>2. ASSUME Phase # "none" PROVE job # NoJob
  BY <1>2 DEF Phase, NoJob
<1>3. ASSUME Advance PROVE UNCHANGED last \/ \E outcome : End(outcome) /\ outcome \notin {"failed", "port_taken"}
  <2>1. UNCHANGED last \/ End("done")
    BY <1>3 DEF Advance
  <2>2. QED
    BY <2>1
<1>4. CASE InitDb
  <2>1. job # NoJob
    BY <1>2, <1>4 DEF InitDb, Refuse, DropTrigger, DropTable, DropDone, MayDrop,
       CreateTable, CreateIndex, CreateTrigger, CreateDone
  <2>2. CASE Refuse
    BY <2>1, <2>2, EndKeepsResetInv DEF Refuse
  <2>3. CASE DropDone \/ CreateDone
    BY <1>3, <2>1, <2>3, EndKeepsResetInv DEF DropDone, CreateDone
  <2>4. CASE DropTrigger \/ CreateTable \/ CreateIndex \/ CreateTrigger
    BY <2>1, <2>4, EndKeepsResetInv DEF DropTrigger, CreateTable, CreateIndex, CreateTrigger, command
  <2>5. CASE DropTable
    <3>1. CASE UNCHANGED command
      BY <2>1, <3>1, EndKeepsResetInv DEF command
    <3>2. CASE /\ LastTable = "users" /\ "candidates" \in db["users"]
               /\ End("failed") /\ UNCHANGED <<tables, db>>
      <4>1. Phase = "drop" /\ triggers' = {} /\ tables # {}
        BY <2>5 DEF DropTable, MayDrop, GuardsGone
      <4>2. tables = {"users"}
        BY <3>2, <4>1, OnlyUsersLeft DEF SchemaInv, SchemaOK
      <4>3. last'.phase = "drop" /\ job' = NoJob
        BY <3>2, <4>1 DEF End
      <4>4. QED
        BY <3>2, <4>1, <4>2, <4>3 DEF ResetInv, FailedResetLeavesUsers
    <3>3. QED
      BY <2>5, <3>1, <3>2 DEF DropTable
  <2>6. QED
    BY <1>4, <2>2, <2>3, <2>4, <2>5 DEF InitDb
<1>5. CASE Seed
  <2>1. job # NoJob
    BY <1>2, <1>5 DEF Seed, Check, SeedSetup, SeedSubmit, SeedDone
  <2>2. CASE Check
    <3>1. UNCHANGED last \/ End("done")
      BY <2>2 DEF Check
    <3>2. QED
      BY <2>1, <3>1, EndKeepsResetInv
  <2>3. CASE SeedDone
    BY <1>3, <2>1, <2>3, EndKeepsResetInv DEF SeedDone
  <2>4. CASE SeedSetup \/ SeedSubmit
    <3>1. CASE UNCHANGED last \/ End("overtaken")
      BY <2>1, <3>1, EndKeepsResetInv
    <3>2. CASE End("failed") /\ tables # Tables
      <4>1. Phase = "seed"
        BY <2>4 DEF SeedSetup, SeedSubmit
      <4>2. ~Built(job.cmd, <<>>)
        BY <3>2, <4>1, SeedFindsTables DEF Built
      <4>3. last'.cmd = job.cmd /\ job' = NoJob
        BY <3>2 DEF End
      <4>4. QED
        BY <4>2, <4>3 DEF ResetInv, FailedResetLeavesUsers, Built
    <3>3. QED
      <4>1. CASE SeedSetup
        BY <3>1, <3>2, <4>1, TableNames DEF SeedSetup, Abandon
      <4>2. CASE SeedSubmit
        BY <3>1, <3>2, <4>2 DEF SeedSubmit, Abandon, CanSubmit
      <4>3. QED
        BY <2>4, <4>1, <4>2
  <2>5. QED
    BY <1>5, <2>2, <2>3, <2>4 DEF Seed
<1>6. CASE Serve
  <2>1. Phase = "serve" /\ job # NoJob /\ UNCHANGED schema
    BY <1>2, <1>6 DEF Serve, schema
  <2>2. CASE Advance
    BY <1>3, <2>1, <2>2, EndKeepsResetInv
  <2>3. CASE End("port_taken")
    <3>1. last'.phase = "serve" /\ last'.cmd = job.cmd /\ job' = NoJob
      BY <2>1, <2>3 DEF End
    <3>2. Built(job.cmd, <<>>) => tables' = Tables /\ triggers' = ToSet(Triggers)
      BY <2>1, PastCreate DEF Built, Ready, schema
    <3>3. QED
      BY <3>1, <3>2 DEF ResetInv, FailedResetLeavesUsers, Built
  <2>4. QED
    BY <1>6, <2>2, <2>3 DEF Serve
<1>7. CASE Kill
  BY <1>7, EndKeepsResetInv DEF Kill, Abandon
<1>8. CASE StopServing \/ UNCHANGED vars
  BY <1>8, OthersKeepResetInv DEF StopServing, vars, schema, data, command
<1>9. CASE CreateInterview \/ \E copy \in 1..MaxCopies, i \in Visited : SubmitResponse(copy, i)
  <2>1. PICK rows : Visit(rows)
    BY <1>9 DEF CreateInterview, SubmitResponse
  <2>2. db["users"] \subseteq db'["users"]
    BY <2>1, TableNames DEF Visit, Insert
  <2>3. QED
    BY <2>1, <2>2, OthersKeepResetInv DEF Visit, schema, command
<1>10. QED
  BY <1>1, <1>4, <1>5, <1>6, <1>7, <1>8, <1>9 DEF Next

(* init_db.py:51-57 and demo.sh:144: whatever was interrupted, failed or    *)
(* created before, a command that creates the schema fails at the DROP of   *)
(* users, which leaves users alone, or at a port that is taken, which       *)
(* leaves the whole schema, or not at all.                                  *)
THEOREM OnlyUsersOrThePortStopABuild == Spec => []FailedResetLeavesUsers
<1>1. ResetInv => FailedResetLeavesUsers
  BY DEF ResetInv
<1>2. QED
  BY <1>1, ResetInvInit, NextKeepsResetInv, SchemaInvInit, NextKeepsSchemaInv, PTL DEF Spec
==============================================================================
