---------------------------- MODULE PipelineSteps ----------------------------
(* Every step of a handler but the commits, and the crash of a worker, keep *)
(* PipelineInv. The first sections are about the operators the model is     *)
(* built from; OthersKeep and QuietStep are the frame: they reduce a step   *)
(* of one request to what it does to its own request and to the keys it     *)
(* takes.                                                                   *)
EXTENDS PipelineInvariant, FiniteSetTheorems, TLAPS

------------------------------------------------------------------------------
(* Sequences, and the chain of a longer log                                 *)

(* 1..n has n elements.                                                     *)
LEMMA IntervalFrom1 ==
    ASSUME NEW n \in Nat
    PROVE  IsFiniteSet(1..n) /\ Cardinality(1..n) = n
<1>1. 1 \in Int /\ n \in Int
  OBVIOUS
<1>2. IsFiniteSet(1..n) /\ Cardinality(1..n) = IF 1 > n THEN 0 ELSE n-1+1
  BY <1>1, FS_Interval
<1>3. QED
  BY <1>2

(* What a sequence over S is.                                               *)
LEMMA SeqElements ==
    ASSUME NEW S, NEW s \in Seq(S)
    PROVE  /\ Len(s) \in Nat /\ DOMAIN s = 1..Len(s)
           /\ \A i \in DOMAIN s : s[i] \in S
  OBVIOUS

(* What Append returns.                                                     *)
LEMMA Appended ==
    ASSUME NEW S, NEW s \in Seq(S), NEW x \in S
    PROVE  /\ Append(s, x) \in Seq(S) /\ Len(Append(s, x)) = Len(s) + 1
           /\ DOMAIN Append(s, x) = 1..(Len(s) + 1)
           /\ \A i \in DOMAIN s : Append(s, x)[i] = s[i]
           /\ Append(s, x)[Len(s) + 1] = x
  OBVIOUS

(* Appending a row to the table leaves the chains of other tenants alone,   *)
(* and lengthens the chain of its own tenant by that row if its seq is      *)
(* above the ones before. The argument: every rank of the ORDER BY is taken *)
(* by exactly one row.                                                      *)
LEMMA ChainOfAppend ==
    ASSUME NEW log \in Seq([tenant : Tenants, row : Log!Row]),
           NEW a \in [tenant : Tenants, row : Log!Row], NEW t
    PROVE  /\ a.tenant # t => ChainOf(Append(log, a), t) = ChainOf(log, t)
           /\ /\ a.tenant = t
              /\ \A i \in DOMAIN log : log[i].tenant = t => log[i].row.seq < a.row.seq
              => ChainOf(Append(log, a), t) = Append(ChainOf(log, t), a.row)
<1> DEFINE more == Append(log, a)
           last == Len(log) + 1
           mine(l)      == { i \in DOMAIN l : l[i].tenant = t }
           before(l, i) == { j \in mine(l) : \/ l[j].row.seq < l[i].row.seq
                                             \/ l[j].row.seq = l[i].row.seq /\ j < i }
           at(l, k)     == { i \in mine(l) : Cardinality(before(l, i)) = k - 1 }
           pick(S)      == CHOOSE i \in S : TRUE
           n            == Cardinality(mine(log))
<1>1. \A l : ChainOf(l, t) = [k \in 1..Cardinality(mine(l)) |-> l[pick(at(l, k))].row]
  BY DEF ChainOf
<1>2. /\ DOMAIN log = 1..Len(log) /\ Len(log) \in Nat
      /\ DOMAIN more = 1..last
      /\ \A i \in DOMAIN log : more[i] = log[i] /\ log[i].row.seq \in Nat /\ i < last /\ i # last
      /\ more[last] = a /\ a.row.seq \in Nat
  <2>1. \A b \in [tenant : Tenants, row : Log!Row] : b.row.seq \in Nat
    BY DEF Log!Row
  <2> DEFINE Rows == [tenant : Tenants, row : Log!Row]
  <2>2. \A b \in Rows : b.row.seq \in Nat
    BY <2>1
  <2>3. log \in Seq(Rows) /\ a \in Rows
    OBVIOUS
  <2> HIDE DEF Rows
  <2>4. QED
    BY <2>2, <2>3, SeqElements, Appended
<1>3. IsFiniteSet(mine(log)) /\ n \in Nat
  <2>1. IsFiniteSet(1..Len(log))
    BY <1>2, IntervalFrom1
  <2>2. mine(log) \in SUBSET (1..Len(log))
    BY <1>2
  <2>3. QED
    BY <2>1, <2>2, FS_Subset, FS_CardinalityType
<1>4. \A i \in mine(log) : /\ IsFiniteSet(before(log, i))
                           /\ Cardinality(before(log, i)) \in 0..(n - 1)
  <2> TAKE i \in mine(log)
  <2>1. before(log, i) \in SUBSET (mine(log) \ {i})
    BY <1>2
  <2>2. IsFiniteSet(mine(log) \ {i}) /\ Cardinality(mine(log) \ {i}) = n - 1
    BY <1>3, FS_RemoveElement
  <2> HIDE DEF before, mine, n
  <2>3. /\ IsFiniteSet(before(log, i))
        /\ Cardinality(before(log, i)) <= n - 1
    BY <2>1, <2>2, FS_Subset
  <2>4. QED
    BY <2>3, <1>3, FS_CardinalityType
<1>5. \A i, j \in mine(log) :
          i # j => Cardinality(before(log, i)) # Cardinality(before(log, j))
  <2>1. \A i, j \in mine(log) :
            i \in before(log, j) => Cardinality(before(log, i)) < Cardinality(before(log, j))
    <3> SUFFICES ASSUME NEW i \in mine(log), NEW j \in mine(log), i \in before(log, j)
                 PROVE  Cardinality(before(log, i)) < Cardinality(before(log, j))
      OBVIOUS
    <3>1. before(log, i) \cup {i} \in SUBSET before(log, j)
      BY <1>2
    <3>2. i \notin before(log, i)
      BY <1>2
    <3> HIDE DEF before, mine, n
    <3>3. Cardinality(before(log, i) \cup {i}) = Cardinality(before(log, i)) + 1
      BY <3>2, <1>4, FS_AddElement
    <3>4. Cardinality(before(log, i) \cup {i}) <= Cardinality(before(log, j))
      BY <3>1, <1>4, FS_Subset
    <3>5. QED
      BY <3>3, <3>4, <1>4
  <2>2. \A i, j \in mine(log) : i # j => i \in before(log, j) \/ j \in before(log, i)
    BY <1>2
  <2> HIDE DEF before, mine, n
  <2>3. QED
    BY <2>1, <2>2, <1>4
<1>6. \A k \in 1..n : at(log, k) # {}
  <2> SUFFICES ASSUME NEW k \in 1..n, at(log, k) = {} PROVE FALSE
    OBVIOUS
  <2> DEFINE f == [i \in mine(log) |-> Cardinality(before(log, i)) + 1]
             T == (1..n) \ {k}
  <2>1. IsFiniteSet(1..n) /\ Cardinality(1..n) = n
    BY <1>3, IntervalFrom1
  <2>2. IsFiniteSet(T) /\ Cardinality(T) = n - 1
    <3> HIDE DEF mine, n
    <3>1. QED
      BY <1>3, <2>1, FS_RemoveElement
  <2>3. \A i \in mine(log) : Cardinality(before(log, i)) # k - 1
    OBVIOUS
  <2> HIDE DEF before, mine, at
  <2>4. f \in [mine(log) -> T]
    BY <1>3, <1>4, <2>3
  <2> HIDE DEF f, T, n
  <2>5. Cardinality(T) < Cardinality(mine(log))
    BY <1>3, <2>2 DEF n
  <2>6. \E i, j \in mine(log) : i # j /\ f[i] = f[j]
    BY <1>3, <2>2, <2>4, <2>5, FS_PigeonHole
  <2>7. QED
    BY <2>6, <1>4, <1>5 DEF f
<1>7. \A k \in 1..n : /\ pick(at(log, k)) \in at(log, k)
                      /\ more[pick(at(log, k))] = log[pick(at(log, k))]
  <2> SUFFICES ASSUME NEW k \in 1..n
               PROVE  /\ pick(at(log, k)) \in at(log, k)
                      /\ more[pick(at(log, k))] = log[pick(at(log, k))]
    OBVIOUS
  <2> HIDE DEF at
  <2>1. pick(at(log, k)) \in at(log, k)
    BY <1>6
  <2> HIDE DEF pick
  <2>2. at(log, k) \subseteq DOMAIN log
    BY DEF at
  <2>3. QED
    BY <1>2, <2>1, <2>2
<1>8. CASE a.tenant # t
  <2>1. mine(more) = mine(log)
    BY <1>2, <1>8
  <2>2. \A i \in mine(log) : before(more, i) = before(log, i)
    BY <1>2, <2>1
  <2>3. \A k : at(more, k) = at(log, k)
    <3> HIDE DEF before, mine
    <3>1. QED
      BY <2>1, <2>2
  <2> HIDE DEF before, mine, at, pick, more
  <2>4. ChainOf(more, t) = ChainOf(log, t)
    <3>1. ChainOf(more, t) = [k \in 1..n |-> more[pick(at(log, k))].row]
      BY <1>1, <2>1, <2>3 DEF n
    <3>2. ChainOf(log, t) = [k \in 1..n |-> log[pick(at(log, k))].row]
      BY <1>1 DEF n
    <3> HIDE DEF n
    <3>3. QED
      BY <1>7, <3>1, <3>2
  <2>5. QED
    BY <2>4, <1>8 DEF more
<1>9. CASE /\ a.tenant = t
           /\ \A i \in DOMAIN log : log[i].tenant = t => log[i].row.seq < a.row.seq
  <2>1. mine(more) = mine(log) \cup {last} /\ last \notin mine(log)
    BY <1>2, <1>9
  <2>2. \A i \in mine(log) : before(more, i) = before(log, i)
    BY <1>2, <1>9, <2>1
  <2>3. before(more, last) = mine(log)
    BY <1>2, <1>9, <2>1
  <2>4. Cardinality(mine(more)) = n + 1
    <3> HIDE DEF mine, last, more
    <3>1. QED
      BY <1>3, <2>1, FS_AddElement DEF n
  <2>5. \A k \in 1..n : at(more, k) = at(log, k)
    <3> HIDE DEF before, mine, last, more
    <3>1. QED
      BY <1>3, <2>1, <2>2, <2>3 DEF n
  <2>6. at(more, n + 1) = {last}
    <3> HIDE DEF before, mine, last, more
    <3>1. QED
      BY <1>3, <1>4, <2>1, <2>2, <2>3 DEF n
  <2>7. pick(at(more, n + 1)) = last
    <3> HIDE DEF at
    <3>1. QED
      BY <2>6
  <2> HIDE DEF before, mine, at, pick, n, last, more
  <2>8. ChainOf(log, t) = [k \in 1..n |-> log[pick(at(log, k))].row]
    BY <1>1 DEF n
  <2>9. ChainOf(more, t) = [k \in 1..(n + 1) |-> more[pick(at(more, k))].row]
    BY <1>1, <2>4
  <2>10. \A k \in 1..n : more[pick(at(more, k))].row = log[pick(at(log, k))].row
    BY <1>7, <2>5
  <2>11. more[pick(at(more, n + 1))].row = a.row
    BY <1>2, <2>7
  <2>12. ChainOf(more, t) = Append(ChainOf(log, t), a.row)
    <3> DEFINE g == [k \in 1..n |-> log[pick(at(log, k))].row]
    <3>1. g \in Seq({ g[k] : k \in 1..n }) /\ Len(g) = n
      BY <1>3
    <3>2. QED
      BY <1>3, <2>8, <2>9, <2>10, <2>11, <3>1
  <2>13. QED
    BY <1>9, <2>12 DEF more
<1>10. QED
  BY <1>8, <1>9

------------------------------------------------------------------------------
(* Superseded evaluations                                                   *)

(* f is e, but for being current. *)
SameRow(e, f) ==
    /\ f.slot = e.slot /\ f.version = e.version
    /\ f.result = e.result /\ f.verdict = e.verdict
    /\ f.reason = e.reason /\ f.by = e.by

(* UPDATE ... SET is_current = false changes is_current of the named rows   *)
(* and nothing else.                                                        *)
LEMMA SupersedeRows ==
    ASSUME NEW rows \in SUBSET EvaluationRow, NEW keys
    PROVE  /\ Supersede(rows, keys) \in SUBSET EvaluationRow
           /\ \A e \in rows : \E f \in Supersede(rows, keys) :
                  /\ SameRow(e, f)
                  /\ f.is_current = (e.is_current /\ Key(e) \notin keys)
           /\ \A f \in Supersede(rows, keys) : \E e \in rows :
                  /\ SameRow(e, f)
                  /\ f.is_current = (e.is_current /\ Key(e) \notin keys)
<1> DEFINE new(e) == IF Key(e) \in keys THEN [e EXCEPT !.is_current = FALSE] ELSE e
<1>1. Supersede(rows, keys) = { new(e) : e \in rows }
  BY DEF Supersede
<1>2. \A e \in EvaluationRow : /\ new(e) \in EvaluationRow
                               /\ SameRow(e, new(e))
                               /\ new(e).is_current = (e.is_current /\ Key(e) \notin keys)
  <2> TAKE e \in EvaluationRow
  <2>1. CASE Key(e) \in keys
    BY <2>1 DEF EvaluationRow, SameRow
  <2>2. CASE Key(e) \notin keys
    BY <2>2 DEF EvaluationRow, SameRow
  <2>3. QED
    BY <2>1, <2>2
<1> HIDE DEF new
<1>3. QED
  BY <1>1, <1>2

(* Superseding no row changes no row.                                       *)
LEMMA SupersedeNothing ==
    ASSUME NEW rows
    PROVE  Supersede(rows, {}) = rows
  BY DEF Supersede

(* Superseding neither merges nor loses rows, as no two of them have one    *)
(* key.                                                                     *)
LEMMA SupersedeCount ==
    ASSUME NEW rows \in SUBSET EvaluationRow, IsFiniteSet(rows), NEW keys,
           \A e, f \in rows : Key(e) = Key(f) => e = f
    PROVE  /\ IsFiniteSet(Supersede(rows, keys))
           /\ Cardinality(Supersede(rows, keys)) = Cardinality(rows)
<1> DEFINE new(e) == IF Key(e) \in keys THEN [e EXCEPT !.is_current = FALSE] ELSE e
           T == Supersede(rows, keys)
           g == [e \in rows |-> new(e)]
<1>1. T = { new(e) : e \in rows }
  BY DEF Supersede
<1>2. \A e \in rows : Key(new(e)) = Key(e)
  BY DEF EvaluationRow, Key
<1> HIDE DEF new, T
<1>3. g \in Bijection(rows, T)
  <2>1. g \in [rows -> T] /\ \A f \in T : \E e \in rows : g[e] = f
    BY <1>1
  <2>2. \A e, f \in rows : g[e] = g[f] => e = f
    BY <1>2
  <2> HIDE DEF g
  <2>3. QED
    BY <2>1, <2>2 DEF Bijection, Injection, Surjection, IsInjective
<1>4. ExistsBijection(rows, T)
  BY <1>3 DEF ExistsBijection
<1>5. QED
  BY <1>4, FS_Bijection DEF T

(* A re-evaluation that is not on the record yet leaves room for one more  *)
(* version.                                                                *)
LEMMA RoomForVersion ==
    ASSUME NEW n \in Nat \ {0}, NEW by, NEW r \in Reevaluates,
           \A k \in 2..n : by[k] \in Reevaluates \ {r},
           \A j, k \in 2..n : by[j] = by[k] => j = k
    PROVE  n + 1 \in Versions
<1>1. IsFiniteSet(Reevaluates)
  BY PipelineAssumption, FS_Subset DEF Requests
<1>2. /\ IsFiniteSet(Reevaluates \ {r})
      /\ Cardinality(Reevaluates \ {r}) = Cardinality(Reevaluates) - 1
  BY <1>1, FS_RemoveElement
<1>3. Cardinality(Reevaluates) \in Nat
  BY <1>1, FS_CardinalityType
<1> DEFINE f == [k \in 2..n |-> by[k]]
           S == 2..n
           T == Reevaluates \ {r}
<1>4. f \in Injection(S, T)
  BY DEF Injection, IsInjective
<1>5. Cardinality(S) = n - 1
  <2>1. 2 \in Int /\ n \in Int
    OBVIOUS
  <2>2. Cardinality(2..n) = IF 2 > n THEN 0 ELSE n - 2 + 1
    BY <2>1, FS_Interval
  <2>3. QED
    BY <2>2
<1> HIDE DEF f, S, T
<1>6. Cardinality(S) <= Cardinality(T)
  BY <1>2, <1>4, FS_Injection DEF T
<1>7. QED
  BY <1>2, <1>3, <1>5, <1>6 DEF T, Versions

------------------------------------------------------------------------------
(* What a step of one request leaves of another                             *)

(* What a step of one request does to the tables, as the others see it.    *)
Grows ==
    /\ db.responses \subseteq db'.responses
    /\ \A e \in db.evaluations : \E f \in db'.evaluations :
           SameRow(e, f) /\ (f.is_current => e.is_current)
    /\ \A t \in Tenants : \A k \in 1..Len(Chain(t)) :
           k \in 1..Len(Chain(t)') /\ Chain(t)'[k] = Chain(t)[k]

(* A step that leaves the tables alone only adds to them.                   *)
LEMMA UnchangedGrows == db' = db => Grows
  BY DEF Grows, SameRow, Chain

(* The stage of a request tells its fields. *)
LEMMA Shape ==
    ASSUME NEW x \in RequestType
    PROVE  /\ x.pc \in Stages
           /\ x.pc = "idle" => x = Idle
           /\ x.pc \in {"read_upload", "insert_response", "evaluate",
                       "record_failed_call", "commit_failed_call"} => x \in Handling
           /\ x.pc \in {"supersede", "insert_evaluation"} => x \in Evaluated
           /\ x.pc = "insert_review" => x \in Reviewed
           /\ x.pc = "read_tail" => x \in Auditing
           /\ x.pc \in {"lock_tail", "append_entry", "commit"} => x \in Appending
           /\ x.pc \in {"close", "respond", "done"} => x \in Answered
  BY DEF RequestType, Idle, Handling, Evaluated, Reviewed, Auditing, Appending,
         Answered, Stages

(* Every slot belongs to a tenant.                                          *)
LEMMA OwnerType == ASSUME NEW s \in Slots PROVE owner(s) \in Tenants
  BY PipelineAssumption DEF owner

(* A request that is about to write its audit entry knows the slot and the  *)
(* content of it.                                                           *)
LEMMA SlotType ==
    ASSUME NEW x \in RequestType, x.pc \in Recording
    PROVE  x.slot \in Slots /\ x.content \in AuditContent
  BY Shape DEF Recording, Auditing, Appending

(* What holds of a request goes on to hold when others move: nothing it has *)
(* read or staged can become false by rows being added or superseded.       *)
LEMMA OthersKeep ==
    ASSUME NEW q \in Requests, req'[q] = req[q], staged'[q] = staged[q],
           RequestInv(q), Grows, Recorded(q)' <=> Recorded(q)
    PROVE  RequestInv(q)'
<1>1. \A s : SlotTaken(db, s) => SlotTaken(db', s)
  BY DEF Grows, SlotTaken
<1>2. Opened(q) => Opened(q)'
  BY <1>1 DEF Opened
<1>3. \A k : (\E e \in db.evaluations : Key(e) = k) => (\E e \in db'.evaluations : Key(e) = k)
  BY DEF Grows, SameRow, Key
<1>4. \A s, n : Flagged(s, n) => Flagged(s, n)'
  BY DEF Grows, SameRow, Flagged
<1>5. (req[q] \in RequestType)' /\ IsTransaction(staged[q])'
  BY DEF RequestInv
<1>6. Closed(q)' /\ Submitting(q)'
  BY DEF RequestInv, Closed, Submitting
<1>7. Evaluating(q)'
  <2>1. Evaluating(q)
    BY DEF RequestInv
  <2>2. ASSUME req'[q].pc = "evaluate", NEW f \in req'[q].seen
        PROVE  \E e \in db'.evaluations : Key(e) = Key(f) /\ (e.is_current => f.is_current)
    <3>1. PICK e \in db.evaluations : Key(e) = Key(f) /\ (e.is_current => f.is_current)
      BY <2>1, <2>2 DEF Evaluating
    <3>2. PICK d \in db'.evaluations : SameRow(e, d) /\ (d.is_current => e.is_current)
      BY <3>1 DEF Grows
    <3>3. QED
      BY <3>1, <3>2 DEF SameRow, Key
  <2>3. QED
    BY <1>2, <2>1, <2>2 DEF Evaluating, Wrote
<1>8. FailedCall(q)'
  BY <1>2 DEF RequestInv, FailedCall, Wrote
<1>9. Superseding(q)'
  BY <1>2, <1>3 DEF RequestInv, Superseding, Wrote
<1>10. Reviewing(q)'
  BY <1>4 DEF RequestInv, Reviewing
<1>11. HoldsRecord(q)'
  <2>1. \A e : EvaluationStaged(q, e) => EvaluationStaged(q, e)'
    BY <1>2, <1>3 DEF EvaluationStaged
  <2>2. \A v : ReviewStaged(q, v) => ReviewStaged(q, v)'
    BY <1>4 DEF ReviewStaged
  <2>3. Entry(q)' = Entry(q)
    BY DEF Entry
  <2>4. QED
    BY <2>1, <2>2, <2>3 DEF RequestInv, HoldsRecord, Wrote
<1>12. TailIsARow(q)'
  <2> SUFFICES ASSUME req[q].pc \in Recording \ {"read_tail"}
               PROVE  \/ req[q].tail = <<>>
                      \/ \E k \in 1..Len(Chain(owner(req[q].slot))') :
                            req[q].tail = <<Chain(owner(req[q].slot))'[k]>>
    BY DEF TailIsARow, owner, Chain
  <2>1. owner(req[q].slot) \in Tenants
    BY SlotType, OwnerType DEF RequestInv
  <2>2. TailIsARow(q)
    BY DEF RequestInv
  <2>3. QED
    BY <2>1, <2>2 DEF TailIsARow, Grows
<1>13. Answering(q)'
  BY DEF RequestInv, Answering
<1>14. QED
  BY <1>5, <1>6, <1>7, <1>8, <1>9, <1>10, <1>11, <1>12, <1>13 DEF RequestInv

------------------------------------------------------------------------------
(* Steps that leave the tables alone                                        *)

DatabaseInv ==
    /\ DOMAIN req = Requests /\ DOMAIN staged = Requests
    /\ TablesInv
    /\ KeysAreFree
    /\ \A r \in Requests : RequestInv(r)

(* The invariant of the tables is about the tables only.                    *)
LEMMA TablesUnchanged ==
    ASSUME TablesInv, db' = db
    PROVE  TablesInv'
<1>1. \A t : Chain(t)' = Chain(t)
  BY DEF Chain
<1>2. \A s : Evaluations(s)' = Evaluations(s)
  BY DEF Evaluations
<1>3. \A s, n : Flagged(s, n)' <=> Flagged(s, n)
  BY DEF Flagged
<1>4. OneEntryPerRequest'
  <2>1. \A r : Recorded(r)' <=> Recorded(r)
    BY DEF Recorded
  <2>2. QED
    BY <2>1 DEF TablesInv, OneEntryPerRequest
<1>5. ChainsAreGapFree' /\ ChainsHoldTheLog'
  BY <1>1 DEF TablesInv, ChainsAreGapFree, ChainsHoldTheLog
<1>6. /\ IsTables(db)' /\ KeysAreUnique'
      /\ RecordMatchesLog' /\ LedgerMatchesEvaluations'
  BY DEF TablesInv, KeysAreUnique, RecordMatchesLog, LedgerMatchesEvaluations
<1>7. VersionsAreGapFree' /\ LatestIsCurrent'
  BY <1>2 DEF TablesInv, VersionsAreGapFree, LatestIsCurrent
<1>8. EvaluationsAreGrounded' /\ ReviewsAreGrounded'
  BY <1>3 DEF TablesInv, EvaluationsAreGrounded, ReviewsAreGrounded
<1>9. QED
  BY <1>4, <1>5, <1>6, <1>7, <1>8 DEF TablesInv

(* A step of one request that leaves the tables alone: what it must        *)
(* establish is about its own request and the keys it takes.               *)
LEMMA QuietStep ==
    ASSUME DatabaseInv, db' = db, NEW r \in Requests,
           DOMAIN req' = Requests, DOMAIN staged' = Requests,
           \A q \in Requests \ {r} : req'[q] = req[q] /\ staged'[q] = staged[q],
           RequestInv(r)',
           NEW taken,
           Claims(staged'[r].tables) \subseteq Claims(staged[r].tables) \cup taken,
           taken \cap Claims(db) = {},
           \A q \in Requests \ {r} : taken \cap Claims(staged[q].tables) = {}
    PROVE  DatabaseInv'
<1>1. TablesInv'
  BY TablesUnchanged DEF DatabaseInv
<1>2. KeysAreFree'
  <2>1. \A q, p \in Requests : p # q =>
            /\ Claims(staged[q].tables) \cap Claims(db) = {}
            /\ Claims(staged[q].tables) \cap Claims(staged[p].tables) = {}
    BY DEF DatabaseInv, KeysAreFree
  <2>2. Claims(staged'[r].tables) \cap Claims(db') = {}
    BY DEF DatabaseInv, KeysAreFree
  <2>3. \A q \in Requests \ {r} :
            Claims(staged'[r].tables) \cap Claims(staged'[q].tables) = {}
    BY <2>1
  <2>4. \A q \in Requests : Claims(staged'[q].tables) \cap Claims(db') = {}
    BY <2>2 DEF DatabaseInv, KeysAreFree
  <2>5. \A q, p \in Requests : p # q =>
            Claims(staged'[q].tables) \cap Claims(staged'[p].tables) = {}
    BY <2>1, <2>3
  <2>6. QED
    BY <2>4, <2>5 DEF KeysAreFree
<1>3. \A q \in Requests : RequestInv(q)'
  <2>1. \A q : Recorded(q)' <=> Recorded(q)
    BY DEF Recorded
  <2>2. \A q \in Requests \ {r} : RequestInv(q)'
    BY <2>1, OthersKeep, UnchangedGrows DEF DatabaseInv
  <2>3. QED
    BY <2>2
<1>4. QED
  BY <1>1, <1>2, <1>3 DEF DatabaseInv

(* The same for a step that takes no key. *)
LEMMA KeylessStep ==
    ASSUME DatabaseInv, db' = db, NEW r \in Requests,
           DOMAIN req' = Requests, DOMAIN staged' = Requests,
           \A q \in Requests \ {r} : req'[q] = req[q] /\ staged'[q] = staged[q],
           RequestInv(r)',
           Claims(staged'[r].tables) \subseteq Claims(staged[r].tables)
    PROVE  DatabaseInv'
<1> DEFINE taken == {}
<1>1. /\ Claims(staged'[r].tables) \subseteq Claims(staged[r].tables) \cup taken
      /\ taken \cap Claims(db) = {}
      /\ \A q \in Requests \ {r} : taken \cap Claims(staged[q].tables) = {}
  OBVIOUS
<1> HIDE DEF taken
<1>2. QED
  BY <1>1, QuietStep

------------------------------------------------------------------------------
(* Steps that end a request                                                 *)

(* Empty tables take no key, and neither does a request without a           *)
(* transaction.                                                             *)
LEMMA NoClaims ==
    Claims(EmptyTables) = {} /\ Claims(NoTransaction.tables) = {} /\ IsTransaction(NoTransaction)
<1>1. Claims(EmptyTables) = {} /\ NoTransaction.tables = EmptyTables
  BY DEF Claims, EmptyTables, NoTransaction
<1>2. IsTables(EmptyTables)
  <2> DEFINE S == [tenant : Tenants, row : Log!Row]
  <2>1. <<>> \in Seq(S)
    OBVIOUS
  <2>2. QED
    BY <2>1 DEF EmptyTables, IsTables
<1>3. QED
  BY <1>1, <1>2 DEF NoTransaction, IsTransaction

(* A step that assigns the handler's place and its transaction, as the      *)
(* other requests see it.                                                   *)
LEMMA OneStep ==
    ASSUME DatabaseInv, NEW r \in Requests, NEW x, NEW y,
           req' = [req EXCEPT ![r] = x], staged' = [staged EXCEPT ![r] = y]
    PROVE  /\ req'[r] = x /\ staged'[r] = y
           /\ DOMAIN req' = Requests /\ DOMAIN staged' = Requests
           /\ \A q \in Requests \ {r} : req'[q] = req[q] /\ staged'[q] = staged[q]
  BY DEF DatabaseInv

(* The same for a step that leaves every transaction alone.                 *)
LEMMA OneRequestStep ==
    ASSUME DatabaseInv, NEW r \in Requests, NEW x,
           req' = [req EXCEPT ![r] = x], staged' = staged
    PROVE  /\ req'[r] = x
           /\ DOMAIN req' = Requests /\ DOMAIN staged' = Requests
           /\ \A q \in Requests \ {r} : req'[q] = req[q] /\ staged'[q] = staged[q]
  BY DEF DatabaseInv

(* A request that ends without a transaction. *)
LEMMA AnswerInv ==
    ASSUME NEW r \in Requests, NEW status \in Statuses, NEW pc \in {"respond", "done"},
           req'[r] = [pc |-> pc, status |-> status], staged'[r] = NoTransaction,
           status = "ok" => Recorded(r)',
           status \notin {"ok", "lost"} => ~Recorded(r)'
    PROVE  RequestInv(r)'
<1>1. (req[r] \in RequestType)'
  BY DEF RequestType, Answered
<1>2. IsTransaction(staged[r])'
  BY NoClaims
<1>3. /\ Closed(r)' /\ Submitting(r)' /\ Evaluating(r)' /\ FailedCall(r)'
      /\ Superseding(r)' /\ Reviewing(r)' /\ HoldsRecord(r)' /\ TailIsARow(r)'
  BY DEF Closed, Submitting, Evaluating, FailedCall, Superseding, Reviewing,
         HoldsRecord, TailIsARow, Recording
<1>4. Answering(r)'
  BY DEF Answering
<1>5. QED
  BY <1>1, <1>2, <1>3, <1>4 DEF RequestInv

(* A rollback keeps the invariant: it gives back every key its transaction  *)
(* took.                                                                    *)
LEMMA RollbackStep ==
    ASSUME DatabaseInv, NEW r \in Requests, NEW status \in Statuses,
           status # "ok", ~Recorded(r), Rollback(r, status)
    PROVE  DatabaseInv'
<1>1. /\ req' = [req EXCEPT ![r] = Answer(status)]
      /\ staged' = [staged EXCEPT ![r] = NoTransaction]
      /\ db' = db
  BY DEF Rollback
<1>2. /\ req'[r] = Answer(status) /\ staged'[r] = NoTransaction
      /\ DOMAIN req' = Requests /\ DOMAIN staged' = Requests
      /\ \A q \in Requests \ {r} : req'[q] = req[q] /\ staged'[q] = staged[q]
  BY <1>1, OneStep
<1>3. ~Recorded(r)'
  BY <1>1 DEF Recorded
<1>4. RequestInv(r)'
  BY <1>2, <1>3, AnswerInv DEF Answer
<1>5. Claims(staged'[r].tables) = {}
  BY <1>2, NoClaims
<1>6. QED
  BY <1>1, <1>2, <1>4, <1>5, KeylessStep

(* An exception that goes to the session's exit keeps the invariant: the    *)
(* transaction is rolled back there, before the answer.                     *)
LEMMA RaiseStep ==
    ASSUME DatabaseInv, NEW r \in Requests, NEW status \in Statuses,
           status \notin {"ok", "lost"}, ~Recorded(r), Raise(r, status)
    PROVE  DatabaseInv'
<1> DEFINE x == [pc |-> "close", status |-> status]
<1>1. req' = [req EXCEPT ![r] = x] /\ staged' = staged /\ db' = db
  BY DEF Raise
<1>2. /\ req'[r] = x
      /\ DOMAIN req' = Requests /\ DOMAIN staged' = Requests
      /\ \A q \in Requests \ {r} : req'[q] = req[q] /\ staged'[q] = staged[q]
  BY <1>1, OneRequestStep
<1>3. RequestInv(r)'
  <2>1. (req[r] \in RequestType)'
    BY <1>2 DEF RequestType, Answered
  <2>2. IsTransaction(staged[r])'
    BY <1>1 DEF DatabaseInv, RequestInv
  <2>3. /\ Closed(r)' /\ Submitting(r)' /\ Evaluating(r)' /\ FailedCall(r)'
        /\ Superseding(r)' /\ Reviewing(r)' /\ HoldsRecord(r)' /\ TailIsARow(r)'
    BY <1>2 DEF Closed, Submitting, Evaluating, FailedCall, Superseding, Reviewing,
           HoldsRecord, TailIsARow, Recording
  <2>4. Answering(r)'
    BY <1>1, <1>2 DEF Answering, Recorded
  <2>5. QED
    BY <2>1, <2>2, <2>3, <2>4 DEF RequestInv
<1>4. Claims(staged'[r].tables) = Claims(staged[r].tables)
  BY <1>1
<1>5. QED
  BY <1>1, <1>2, <1>3, <1>4, KeylessStep

------------------------------------------------------------------------------
(* Submitting a response                                                    *)

(* A handler that has not answered yet is not on the record, before and     *)
(* after a step that leaves the tables alone.                               *)
LEMMA StillUnrecorded ==
    ASSUME DatabaseInv, NEW r \in Requests, req[r].pc \notin {"respond", "done"}, db' = db
    PROVE  ~Recorded(r) /\ ~Recorded(r)'
  BY DEF DatabaseInv, RequestInv, Answering, Recorded

(* An answer before anything was written. *)
LEMMA RefusedStep ==
    ASSUME DatabaseInv, NEW r \in Requests, NEW status \in Statuses, status # "ok",
           req[r].pc = "idle", req' = [req EXCEPT ![r] = Answer(status)],
           UNCHANGED <<db, staged>>
    PROVE  DatabaseInv'
<1>1. /\ req'[r] = Answer(status)
      /\ DOMAIN req' = Requests /\ DOMAIN staged' = Requests
      /\ \A q \in Requests \ {r} : req'[q] = req[q] /\ staged'[q] = staged[q]
  BY OneRequestStep
<1>2. staged'[r] = NoTransaction
  BY DEF DatabaseInv, RequestInv, Closed
<1>3. RequestInv(r)'
  BY <1>1, <1>2, AnswerInv, StillUnrecorded DEF Answer
<1>4. Claims(staged'[r].tables) \subseteq Claims(staged[r].tables)
  OBVIOUS
<1>5. QED
  BY <1>1, <1>3, <1>4, KeylessStep

(* A request that goes on with its upload, or with its insert.             *)
LEMMA SubmittingStep ==
    ASSUME DatabaseInv, NEW r \in Submits, NEW s \in Slots,
           NEW pc \in {"read_upload", "insert_response"},
           req[r].pc \in {"idle", "read_upload"},
           req' = [req EXCEPT ![r] = [pc |-> pc, slot |-> s, seen |-> {}]],
           UNCHANGED <<db, staged>>
    PROVE  DatabaseInv'
<1> DEFINE x == [pc |-> pc, slot |-> s, seen |-> {}]
<1>0. r \in Requests
  BY DEF Requests
<1>1. /\ req'[r] = x
      /\ DOMAIN req' = Requests /\ DOMAIN staged' = Requests
      /\ \A q \in Requests \ {r} : req'[q] = req[q] /\ staged'[q] = staged[q]
  BY <1>0, OneRequestStep
<1>2. staged'[r] = NoTransaction
  BY <1>0 DEF DatabaseInv, RequestInv, Closed
<1>3. RequestInv(r)'
  <2>1. (req[r] \in RequestType)'
    BY <1>1 DEF RequestType, Handling
  <2>2. IsTransaction(staged[r])'
    BY <1>2, NoClaims
  <2>3. /\ Closed(r)' /\ Submitting(r)' /\ Evaluating(r)' /\ FailedCall(r)'
        /\ Superseding(r)' /\ Reviewing(r)' /\ HoldsRecord(r)' /\ TailIsARow(r)'
    BY <1>1, <1>2 DEF Closed, Submitting, Evaluating, FailedCall, Superseding, Reviewing,
           HoldsRecord, TailIsARow, Recording
  <2>4. Answering(r)'
    BY <1>0, <1>1, StillUnrecorded DEF Answering
  <2>5. QED
    BY <2>1, <2>2, <2>3, <2>4 DEF RequestInv
<1>4. Claims(staged'[r].tables) \subseteq Claims(staged[r].tables)
  OBVIOUS
<1>5. QED
  BY <1>0, <1>1, <1>3, <1>4, KeylessStep

(* Arrival of a submit keeps the invariant.                                 *)
LEMMA StartSubmitStep ==
    ASSUME DatabaseInv, NEW r \in Requests, NEW s \in Slots, StartSubmit(r, s)
    PROVE  DatabaseInv'
<1>1. /\ r \in Submits /\ req[r].pc = "idle" /\ UNCHANGED <<db, staged>>
      /\ \/ req' = [req EXCEPT ![r] = Answer("409")]
         \/ req' = [req EXCEPT ![r] = Answer("422")]
         \/ req' = [req EXCEPT ![r] = [pc |-> "insert_response", slot |-> s, seen |-> {}]]
         \/ req' = [req EXCEPT ![r] = [pc |-> "read_upload", slot |-> s, seen |-> {}]]
  BY DEF StartSubmit
<1>2. CASE req' = [req EXCEPT ![r] = Answer("409")] \/ req' = [req EXCEPT ![r] = Answer("422")]
  BY <1>1, <1>2, RefusedStep DEF Statuses
<1>3. CASE req' = [req EXCEPT ![r] = [pc |-> "insert_response", slot |-> s, seen |-> {}]]
  <2> DEFINE pc == "insert_response"
  <2>1. /\ pc \in {"read_upload", "insert_response"}
        /\ req' = [req EXCEPT ![r] = [pc |-> pc, slot |-> s, seen |-> {}]]
    BY <1>3
  <2> HIDE DEF pc
  <2>2. QED
    BY <1>1, <2>1, SubmittingStep
<1>4. CASE req' = [req EXCEPT ![r] = [pc |-> "read_upload", slot |-> s, seen |-> {}]]
  <2> DEFINE pc == "read_upload"
  <2>1. /\ pc \in {"read_upload", "insert_response"}
        /\ req' = [req EXCEPT ![r] = [pc |-> pc, slot |-> s, seen |-> {}]]
    BY <1>4
  <2> HIDE DEF pc
  <2>2. QED
    BY <1>1, <2>1, SubmittingStep
<1>5. QED
  BY <1>1, <1>2, <1>3, <1>4

(* Goto keeps what the request has read. *)
LEMMA GotoHandling ==
    ASSUME NEW r \in Requests, DOMAIN req = Requests, req[r] \in Handling, NEW pc, Goto(r, pc)
    PROVE  req' = [req EXCEPT ![r] = [pc |-> pc, slot |-> req[r].slot, seen |-> req[r].seen]]
<1>1. [req[r] EXCEPT !.pc = pc] = [pc |-> pc, slot |-> req[r].slot, seen |-> req[r].seen]
  BY DEF Handling
<1>2. QED
  BY <1>1 DEF Goto

(* Return from reading the upload keeps the invariant.                      *)
LEMMA ResumeSubmitStep ==
    ASSUME DatabaseInv, NEW r \in Requests, ResumeSubmit(r)
    PROVE  DatabaseInv'
<1>1. req[r].pc = "read_upload" /\ Goto(r, "insert_response") /\ UNCHANGED <<db, staged>>
  BY DEF ResumeSubmit
<1>2. req[r] \in RequestType /\ Submitting(r) /\ DOMAIN req = Requests
  BY DEF DatabaseInv, RequestInv
<1>3. req[r] \in Handling /\ r \in Submits /\ req[r].seen = {}
  BY <1>1, <1>2, Shape DEF Submitting
<1>4. req' = [req EXCEPT ![r] = [pc |-> "insert_response", slot |-> req[r].slot, seen |-> {}]]
  BY <1>1, <1>2, <1>3, GotoHandling
<1>5. req[r].slot \in Slots
  BY <1>3 DEF Handling
<1> DEFINE pc == "insert_response"
<1>6. pc \in {"read_upload", "insert_response"}
      /\ req' = [req EXCEPT ![r] = [pc |-> pc, slot |-> req[r].slot, seen |-> {}]]
  BY <1>4
<1> HIDE DEF pc
<1>7. QED
  BY <1>1, <1>3, <1>5, <1>6, SubmittingStep

------------------------------------------------------------------------------
(* What a transaction has staged, and the insert of a response              *)

(* A key is claimed exactly when the unique index would find it taken.      *)
LEMMA ClaimsMean ==
    ASSUME NEW x
    PROVE  /\ \A s : <<"response", s>> \in Claims(x) <=> SlotTaken(x, s)
           /\ \A e : <<"evaluation", Key(e)>> \in Claims(x) <=> VersionTaken(x, e)
           /\ \A v : <<"review", Key(v)>> \in Claims(x) <=> ReviewTaken(x, v)
           /\ \A t, n : <<"audit", t, n>> \in Claims(x) <=>
                  \E i \in DOMAIN x.audit_log :
                      x.audit_log[i].tenant = t /\ x.audit_log[i].row.seq = n
<1>1. \A s : <<"response", s>> \in Claims(x) <=> SlotTaken(x, s)
  BY DEF Claims, SlotTaken
<1>2. \A e : <<"evaluation", Key(e)>> \in Claims(x) <=> VersionTaken(x, e)
  BY DEF Claims, VersionTaken
<1>3. \A v : <<"review", Key(v)>> \in Claims(x) <=> ReviewTaken(x, v)
  BY DEF Claims, ReviewTaken
<1>4. \A t, n : <<"audit", t, n>> \in Claims(x) <=>
          \E i \in DOMAIN x.audit_log :
              x.audit_log[i].tenant = t /\ x.audit_log[i].row.seq = n
  BY DEF Claims
<1>5. QED
  BY <1>1, <1>2, <1>3, <1>4

(* The keys of a transaction, table by table.                               *)
LEMMA TxnClaims ==
    ASSUME NEW R, NEW E, NEW V, NEW L, NEW A, NEW S, NEW K
    PROVE  Claims(Txn(R, E, V, L, A, S, K).tables) =
               { <<"response", row.slot>> : row \in R }
               \cup { <<"evaluation", Key(e)>> : e \in E }
               \cup { <<"review", Key(v)>> : v \in V }
               \cup { <<"audit", A[i].tenant, A[i].row.seq>> : i \in DOMAIN A }
  BY DEF Claims, Txn

(* The type of a transaction, table by table.                               *)
LEMMA TxnType ==
    ASSUME NEW R, NEW E, NEW V, NEW L, NEW A, NEW S, NEW K
    PROVE  IsTransaction(Txn(R, E, V, L, A, S, K)) <=>
               /\ R \subseteq [slot : Slots, by : Submits]
               /\ E \subseteq EvaluationRow
               /\ V \subseteq [slot : Slots, version : Versions,
                              verdict : HumanVerdicts, by : Reviews]
               /\ L \subseteq [by : Submits \cup Reevaluates, succeeded : BOOLEAN]
               /\ A \in Seq([tenant : Tenants, row : Log!Row])
               /\ S \subseteq Slots \X Versions
               /\ K \subseteq Log!Row
  BY DEF IsTransaction, IsTables, Txn

(* A transaction without an audit entry has an empty log.                   *)
LEMMA NoEntryType ==
    NoEntry \in Seq([tenant : Tenants, row : Log!Row]) /\ DOMAIN NoEntry = {}
<1> DEFINE S == [tenant : Tenants, row : Log!Row]
<1>1. <<>> \in Seq(S)
  OBVIOUS
<1>2. QED
  BY <1>1 DEF NoEntry

(* A request without a transaction has staged nothing.                      *)
LEMMA NoTxn == NoTransaction = Txn({}, {}, {}, {}, NoEntry, {}, {})
  BY DEF NoTransaction, Txn, EmptyTables, NoEntry

(* The parts of a transaction.                                              *)
LEMMA TxnParts ==
    ASSUME NEW R, NEW E, NEW V, NEW L, NEW A, NEW S, NEW K
    PROVE  LET x == Txn(R, E, V, L, A, S, K) IN
           /\ x.tables.responses = R /\ x.tables.evaluations = E /\ x.tables.reviews = V
           /\ x.tables.llm_calls = L /\ x.tables.audit_log = A
           /\ x.superseded = S /\ x.tail_lock = K
  BY DEF Txn

(* session.add of a response adds the row to the transaction and changes    *)
(* nothing else of it.                                                      *)
LEMMA StageResponse ==
    ASSUME NEW r \in Requests, DOMAIN staged = Requests,
           NEW R, NEW E, NEW V, NEW L, NEW A, NEW S, NEW K,
           staged[r] = Txn(R, E, V, L, A, S, K), NEW row, Stage(r, "responses", row)
    PROVE  staged' = [staged EXCEPT ![r] = Txn(R \cup {row}, E, V, L, A, S, K)]
<1> DEFINE T(m) == [responses |-> m, evaluations |-> E, reviews |-> V, llm_calls |-> L, audit_log |-> A]
           X(t) == [tables |-> t, superseded |-> S, tail_lock |-> K]
           more == R \cup {row}
<1>1. [T(R) EXCEPT !["responses"] = @ \cup {row}] = T(more)
  OBVIOUS
<1>2. staged[r] = X(T(R)) /\ Txn(R \cup {row}, E, V, L, A, S, K) = X(T(more))
  BY DEF Txn
<1> HIDE DEF T, more
<1>3. [X(T(R)) EXCEPT !.tables["responses"] = @ \cup {row}] = X(T(more))
  BY <1>1
<1> HIDE DEF X
<1>4. [staged[r] EXCEPT !.tables["responses"] = @ \cup {row}] = X(T(more))
  BY <1>2, <1>3
<1>5. QED
  BY <1>2, <1>4 DEF Stage

(* The same for a review.                                                   *)
LEMMA StageReview ==
    ASSUME NEW r \in Requests, DOMAIN staged = Requests,
           NEW R, NEW E, NEW V, NEW L, NEW A, NEW S, NEW K,
           staged[r] = Txn(R, E, V, L, A, S, K), NEW row, Stage(r, "reviews", row)
    PROVE  staged' = [staged EXCEPT ![r] = Txn(R, E, V \cup {row}, L, A, S, K)]
<1> DEFINE T(m) == [responses |-> R, evaluations |-> E, reviews |-> m, llm_calls |-> L, audit_log |-> A]
           X(t) == [tables |-> t, superseded |-> S, tail_lock |-> K]
           more == V \cup {row}
<1>1. [T(V) EXCEPT !["reviews"] = @ \cup {row}] = T(more)
  OBVIOUS
<1>2. staged[r] = X(T(V)) /\ Txn(R, E, V \cup {row}, L, A, S, K) = X(T(more))
  BY DEF Txn
<1> HIDE DEF T, more
<1>3. [X(T(V)) EXCEPT !.tables["reviews"] = @ \cup {row}] = X(T(more))
  BY <1>1
<1> HIDE DEF X
<1>4. [staged[r] EXCEPT !.tables["reviews"] = @ \cup {row}] = X(T(more))
  BY <1>2, <1>3
<1>5. QED
  BY <1>2, <1>4 DEF Stage

(* The same for a row of the ledger of model calls.                         *)
LEMMA StageCall ==
    ASSUME NEW r \in Requests, DOMAIN staged = Requests,
           NEW R, NEW E, NEW V, NEW L, NEW A, NEW S, NEW K,
           staged[r] = Txn(R, E, V, L, A, S, K), NEW row, Stage(r, "llm_calls", row)
    PROVE  staged' = [staged EXCEPT ![r] = Txn(R, E, V, L \cup {row}, A, S, K)]
<1> DEFINE T(m) == [responses |-> R, evaluations |-> E, reviews |-> V, llm_calls |-> m, audit_log |-> A]
           X(t) == [tables |-> t, superseded |-> S, tail_lock |-> K]
           more == L \cup {row}
<1>1. [T(L) EXCEPT !["llm_calls"] = @ \cup {row}] = T(more)
  OBVIOUS
<1>2. staged[r] = X(T(L)) /\ Txn(R, E, V, L \cup {row}, A, S, K) = X(T(more))
  BY DEF Txn
<1> HIDE DEF T, more
<1>3. [X(T(L)) EXCEPT !.tables["llm_calls"] = @ \cup {row}] = X(T(more))
  BY <1>1
<1> HIDE DEF X
<1>4. [staged[r] EXCEPT !.tables["llm_calls"] = @ \cup {row}] = X(T(more))
  BY <1>2, <1>3
<1>5. QED
  BY <1>2, <1>4 DEF Stage

(* The other rows and the locks claim nothing.                             *)
LEMMA SameClaims ==
    ASSUME NEW R, NEW E, NEW V, NEW L, NEW A, NEW S, NEW K, NEW M, NEW T, NEW J
    PROVE  Claims(Txn(R, E, V, L, A, S, K).tables) = Claims(Txn(R, E, V, M, A, T, J).tables)
  BY DEF Txn, Claims

(* A transaction that has only inserted a response takes the response's     *)
(* key.                                                                     *)
LEMMA ResponseClaims ==
    ASSUME NEW R, NEW L, NEW S, NEW K
    PROVE  Claims(Txn(R, {}, {}, L, NoEntry, S, K).tables) = { <<"response", row.slot>> : row \in R }
<1> DEFINE x == Txn(R, {}, {}, L, NoEntry, S, K).tables
<1>1. /\ x.responses = R /\ x.evaluations = {} /\ x.reviews = {}
      /\ x.audit_log = NoEntry
  BY TxnParts
<1>2. DOMAIN NoEntry = {}
  BY NoEntryType
<1> HIDE DEF x
<1>3. Claims(x) = { <<"response", row.slot>> : row \in R }
  BY <1>1, <1>2 DEF Claims
<1>4. QED
  BY <1>3 DEF x

(* The INSERT of the response keeps the invariant: its key is free, or the  *)
(* insert fails and the request is answered without a transaction.          *)
LEMMA InsertResponseStep ==
    ASSUME DatabaseInv, NEW r \in Requests, InsertResponse(r)
    PROVE  DatabaseInv'
<1> DEFINE s == req[r].slot
           row == [slot |-> s, by |-> r]
           x == [pc |-> "evaluate", slot |-> s, seen |-> req[r].seen]
           y == Txn({row}, {}, {}, {}, NoEntry, {}, {})
<1>1. /\ req[r].pc = "insert_response"
      /\ \A q \in Requests \ {r} : ~SlotTaken(staged[q].tables, s)
  BY DEF InsertResponse, StagedByOthers
<1>2. r \in Submits /\ req[r] \in Handling /\ req[r].seen = {}
      /\ DOMAIN req = Requests /\ DOMAIN staged = Requests
      /\ staged[r] = NoTransaction
  BY <1>1, Shape DEF DatabaseInv, RequestInv, Submitting, Closed
<1>3. s \in Slots /\ req[r].seen \in SUBSET EvaluationRow
  BY <1>2 DEF Handling
<1>4. CASE SlotTaken(db, s)
  <2>1. Rollback(r, "500 IntegrityError")
    BY <1>4 DEF InsertResponse
  <2>2. QED
    BY <1>1, <2>1, RollbackStep, StillUnrecorded DEF Rollback, Statuses
<1>5. CASE ~SlotTaken(db, s)
  <2>1. Stage(r, "responses", row) /\ Goto(r, "evaluate") /\ db' = db
    BY <1>5 DEF InsertResponse
  <2>2. req' = [req EXCEPT ![r] = x]
    BY <1>2, <2>1, GotoHandling
  <2>3. staged' = [staged EXCEPT ![r] = y]
    <3>1. {} \cup {row} = {row}
      OBVIOUS
    <3> HIDE DEF row
    <3>2. staged' = [staged EXCEPT ![r] = Txn({} \cup {row}, {}, {}, {}, NoEntry, {}, {})]
      BY <1>2, <2>1, NoTxn, StageResponse
    <3>3. QED
      BY <3>1, <3>2
  <2> HIDE DEF x, y, row, s
  <2>4. /\ req'[r] = x /\ staged'[r] = y
        /\ DOMAIN req' = Requests /\ DOMAIN staged' = Requests
        /\ \A q \in Requests \ {r} : req'[q] = req[q] /\ staged'[q] = staged[q]
    BY <2>2, <2>3, OneStep
  <2>5. RequestInv(r)'
    <3>1. (req[r] \in RequestType)'
      BY <1>3, <2>4 DEF RequestType, Handling, x, s
    <3>2. IsTransaction(staged[r])'
      <4>1. {row} \in SUBSET [slot : Slots, by : Submits]
        BY <1>2, <1>3 DEF row
      <4>2. IsTransaction(y)
        BY <4>1, TxnType, NoEntryType DEF y
      <4>3. QED
        BY <2>4, <4>2
    <3>3. Opened(r)' /\ Wrote(r, {}, {}, {}, NoEntry, {})'
      BY <1>2, <2>4, TxnParts DEF Opened, Wrote, row, x, y, s
    <3>4. Evaluating(r)'
      <4>1. req'[r].pc = "evaluate" /\ req'[r].seen = {}
        BY <1>2, <2>4 DEF x
      <4>2. QED
        BY <3>3, <4>1 DEF Evaluating
    <3>5. /\ Closed(r)' /\ Submitting(r)' /\ FailedCall(r)'
          /\ Superseding(r)' /\ Reviewing(r)' /\ HoldsRecord(r)' /\ TailIsARow(r)'
      BY <2>4 DEF x, Closed, Submitting, FailedCall, Superseding, Reviewing,
             HoldsRecord, TailIsARow, Recording
    <3>6. Answering(r)'
      BY <1>1, <2>1, <2>4, StillUnrecorded DEF Answering, x
    <3>7. QED
      BY <3>1, <3>2, <3>4, <3>5, <3>6 DEF RequestInv
  <2> DEFINE taken == {<<"response", s>>}
  <2>6. Claims(staged'[r].tables) \subseteq Claims(staged[r].tables) \cup taken
    BY <2>4, TxnClaims, NoEntryType DEF y, row
  <2>7. taken \cap Claims(db) = {} /\ \A q \in Requests \ {r} : taken \cap Claims(staged[q].tables) = {}
    BY <1>1, <1>5, ClaimsMean DEF s
  <2> HIDE DEF taken
  <2>8. QED
    BY <2>1, <2>4, <2>5, <2>6, <2>7, QuietStep
<1>6. QED
  BY <1>4, <1>5

------------------------------------------------------------------------------
(* Calling the model, and failing to                                        *)

(* The type of the committed evaluations.                                   *)
LEMMA EvaluationsType ==
    ASSUME DatabaseInv
    PROVE  db.evaluations \in SUBSET EvaluationRow
  BY DEF DatabaseInv, TablesInv, IsTables

(* Arrival of a re-evaluation keeps the invariant: what it reads of the     *)
(* evaluations is there.                                                    *)
LEMMA StartReevaluateStep ==
    ASSUME DatabaseInv, NEW r \in Requests, NEW s \in Slots, StartReevaluate(r, s)
    PROVE  DatabaseInv'
<1> DEFINE x == [pc |-> "evaluate", slot |-> s, seen |-> Evaluations(s)]
<1>1. r \in Reevaluates /\ req[r].pc = "idle" /\ UNCHANGED <<db, staged>>
  BY DEF StartReevaluate
<1>2. CASE ~SlotTaken(db, s)
  <2>1. req' = [req EXCEPT ![r] = Answer("404")]
    BY <1>2 DEF StartReevaluate
  <2>2. QED
    BY <1>1, <2>1, RefusedStep DEF Statuses
<1>3. CASE SlotTaken(db, s)
  <2>1. req' = [req EXCEPT ![r] = x]
    BY <1>3 DEF StartReevaluate
  <2>2. /\ req'[r] = x
        /\ DOMAIN req' = Requests /\ DOMAIN staged' = Requests
        /\ \A q \in Requests \ {r} : req'[q] = req[q] /\ staged'[q] = staged[q]
    BY <1>1, <2>1, OneRequestStep
  <2>3. staged'[r] = NoTransaction
    BY <1>1 DEF DatabaseInv, RequestInv, Closed
  <2>4. Evaluations(s) \in SUBSET EvaluationRow
    BY EvaluationsType DEF Evaluations
  <2>5. RequestInv(r)'
    <3>1. (req[r] \in RequestType)'
      BY <2>2, <2>4 DEF RequestType, Handling
    <3>2. IsTransaction(staged[r])'
      BY <2>3, NoClaims
    <3>3. Opened(r)' /\ Wrote(r, {}, {}, {}, NoEntry, {})'
      BY <1>1, <1>3, <2>2, <2>3, NoTxn, TxnParts DEF Opened, Wrote
    <3>4. Evaluating(r)'
      <4>1. req'[r].pc = "evaluate" /\ req'[r].seen = Evaluations(s)
        BY <2>2
      <4>2. \A f \in Evaluations(s) : \E e \in db'.evaluations :
                Key(e) = Key(f) /\ (e.is_current => f.is_current)
        BY <1>1 DEF Evaluations
      <4>3. QED
        BY <3>3, <4>1, <4>2 DEF Evaluating
    <3>5. /\ Closed(r)' /\ Submitting(r)' /\ FailedCall(r)'
          /\ Superseding(r)' /\ Reviewing(r)' /\ HoldsRecord(r)' /\ TailIsARow(r)'
      BY <2>2 DEF Closed, Submitting, FailedCall, Superseding, Reviewing,
             HoldsRecord, TailIsARow, Recording
    <3>6. Answering(r)'
      BY <1>1, <2>2, StillUnrecorded DEF Answering
    <3>7. QED
      BY <3>1, <3>2, <3>4, <3>5, <3>6 DEF RequestInv
  <2>6. Claims(staged'[r].tables) \subseteq Claims(staged[r].tables)
    BY <1>1
  <2>7. QED
    BY <1>1, <2>2, <2>5, <2>6, KeylessStep
<1>4. QED
  BY <1>2, <1>3

(* What a request at "evaluate" has. *)
LEMMA AtEvaluate ==
    ASSUME DatabaseInv, NEW r \in Requests, req[r].pc \in {"evaluate", "record_failed_call"}
    PROVE  /\ req[r] \in Handling /\ req[r].slot \in Slots /\ req[r].seen \in SUBSET EvaluationRow
           /\ IsTransaction(staged[r])
           /\ Opened(r) /\ Wrote(r, {}, {}, {}, NoEntry, {})
           /\ r \in Submits \cup Reevaluates
           /\ ~Recorded(r)
<1>1. req[r] \in Handling
  BY Shape DEF DatabaseInv, RequestInv
<1>2. QED
  BY <1>1 DEF DatabaseInv, RequestInv, Evaluating, Handling, Opened, Answering

(* An exception of the provider that is not a provider error, and one of    *)
(* the routing, keep the invariant.                                         *)
LEMMA RaisesStep ==
    ASSUME DatabaseInv, NEW r \in Requests,
           EvaluateRaises(r) \/ \E p \in LLMResults : RoutingRaises(r, p)
    PROVE  DatabaseInv'
<1>1. req[r].pc = "evaluate" /\ Raise(r, "500 exception")
  BY DEF EvaluateRaises, RoutingRaises
<1>2. QED
  BY <1>1, AtEvaluate, RaiseStep DEF Statuses

(* A provider error keeps the invariant: the failed call is still to be     *)
(* recorded.                                                                *)
LEMMA ProviderFailsStep ==
    ASSUME DatabaseInv, NEW r \in Requests, ProviderFails(r)
    PROVE  DatabaseInv'
<1> DEFINE x == [pc |-> "record_failed_call", slot |-> req[r].slot, seen |-> req[r].seen]
<1>1. req[r].pc = "evaluate" /\ Goto(r, "record_failed_call") /\ UNCHANGED <<db, staged>>
  BY DEF ProviderFails
<1>2. req' = [req EXCEPT ![r] = x]
  BY <1>1, AtEvaluate, GotoHandling DEF DatabaseInv
<1>3. /\ req'[r] = x
      /\ DOMAIN req' = Requests /\ DOMAIN staged' = Requests
      /\ \A q \in Requests \ {r} : req'[q] = req[q] /\ staged'[q] = staged[q]
  BY <1>1, <1>2, OneRequestStep
<1>4. RequestInv(r)'
  <2>1. (req[r] \in RequestType)'
    BY <1>1, <1>3, AtEvaluate DEF RequestType, Handling
  <2>2. IsTransaction(staged[r])'
    BY <1>1, AtEvaluate
  <2>3. Opened(r)' /\ Wrote(r, {}, {}, {}, NoEntry, {})'
    BY <1>1, <1>3, AtEvaluate DEF Opened, Wrote
  <2>4. /\ Closed(r)' /\ Submitting(r)' /\ Evaluating(r)' /\ FailedCall(r)'
        /\ Superseding(r)' /\ Reviewing(r)' /\ HoldsRecord(r)' /\ TailIsARow(r)'
    BY <1>3, <2>3 DEF Closed, Submitting, Evaluating, FailedCall, Superseding, Reviewing,
           HoldsRecord, TailIsARow, Recording
  <2>5. Answering(r)'
    BY <1>1, <1>3, StillUnrecorded DEF Answering
  <2>6. QED
    BY <2>1, <2>2, <2>4, <2>5 DEF RequestInv
<1>5. Claims(staged'[r].tables) \subseteq Claims(staged[r].tables)
  BY <1>1
<1>6. QED
  BY <1>1, <1>3, <1>4, <1>5, KeylessStep

(* The ledger row of a failed call keeps the invariant.                     *)
LEMMA RecordFailedCallStep ==
    ASSUME DatabaseInv, NEW r \in Requests, RecordFailedCall(r)
    PROVE  DatabaseInv'
<1> DEFINE x == [pc |-> "commit_failed_call", slot |-> req[r].slot, seen |-> req[r].seen]
           R == staged[r].tables.responses
           K == staged[r].tail_lock
           y == Txn(R, {}, {}, {LedgerRow(r, FALSE)}, NoEntry, {}, K)
<1>1. /\ req[r].pc = "record_failed_call" /\ db' = db
      /\ Goto(r, "commit_failed_call") /\ Stage(r, "llm_calls", LedgerRow(r, FALSE))
  BY DEF RecordFailedCall
<1>2. req' = [req EXCEPT ![r] = x]
  BY <1>1, AtEvaluate, GotoHandling DEF DatabaseInv
<1>3. staged[r] = Txn(R, {}, {}, {}, NoEntry, {}, K)
  BY <1>1, AtEvaluate DEF Wrote
<1> HIDE DEF R, K
<1>4. staged' = [staged EXCEPT ![r] = y]
  <2> DEFINE row == LedgerRow(r, FALSE)
  <2>1. {} \cup {row} = {row}
    OBVIOUS
  <2> HIDE DEF row
  <2>2. staged' = [staged EXCEPT ![r] = Txn(R, {}, {}, {} \cup {row}, NoEntry, {}, K)]
    <3>1. Stage(r, "llm_calls", row) /\ DOMAIN staged = Requests
      BY <1>1 DEF row, DatabaseInv
    <3>2. QED
      BY <1>3, <3>1, StageCall
  <2>3. QED
    BY <2>1, <2>2 DEF row
<1> HIDE DEF x, y
<1>5. /\ req'[r] = x /\ staged'[r] = y
      /\ DOMAIN req' = Requests /\ DOMAIN staged' = Requests
      /\ \A q \in Requests \ {r} : req'[q] = req[q] /\ staged'[q] = staged[q]
  BY <1>2, <1>4, OneStep
<1>6. RequestInv(r)'
  <2>1. (req[r] \in RequestType)'
    BY <1>1, <1>5, AtEvaluate DEF RequestType, Handling, x
  <2>2. IsTransaction(staged[r])'
    <3>1. R \subseteq [slot : Slots, by : Submits] /\ K \subseteq Log!Row
      BY <1>1, AtEvaluate DEF IsTransaction, IsTables, R, K
    <3>2. {LedgerRow(r, FALSE)} \subseteq [by : Submits \cup Reevaluates, succeeded : BOOLEAN]
      BY <1>1, AtEvaluate DEF LedgerRow
    <3>3. IsTransaction(y)
      BY <3>1, <3>2, TxnType, NoEntryType DEF y
    <3>4. QED
      BY <1>5, <3>3
  <2>3. staged'[r].tables.responses = R /\ staged'[r].tail_lock = K
    BY <1>5, TxnParts DEF y
  <2>4. Opened(r)' /\ Wrote(r, {}, {}, {LedgerRow(r, FALSE)}, NoEntry, {})'
    <3>1. Opened(r)'
      BY <1>1, <1>5, <2>3, AtEvaluate DEF Opened, x, R
    <3>2. QED
      BY <1>5, <2>3, <3>1 DEF Wrote, y
  <2>5. /\ Closed(r)' /\ Submitting(r)' /\ Evaluating(r)' /\ FailedCall(r)'
        /\ Superseding(r)' /\ Reviewing(r)' /\ HoldsRecord(r)' /\ TailIsARow(r)'
    BY <1>5, <2>4 DEF x, Closed, Submitting, Evaluating, FailedCall, Superseding, Reviewing,
           HoldsRecord, TailIsARow, Recording
  <2>6. Answering(r)'
    BY <1>1, <1>5, StillUnrecorded DEF Answering, x
  <2>7. QED
    BY <2>1, <2>2, <2>5, <2>6 DEF RequestInv
<1>7. Claims(staged'[r].tables) \subseteq Claims(staged[r].tables)
  BY <1>3, <1>5, SameClaims DEF y
<1>8. QED
  BY <1>1, <1>5, <1>6, <1>7, KeylessStep

------------------------------------------------------------------------------
(* The model's answer, and superseding                                      *)

(* The model's answer keeps the invariant: the evaluation to supersede is   *)
(* the one read before the call, and it is still a row of the table.        *)
LEMMA ProviderAnswersStep ==
    ASSUME DatabaseInv, NEW r \in Requests, NEW p \in LLMResults, ProviderAnswers(r, p)
    PROVE  DatabaseInv'
<1> DEFINE s        == req[r].slot
           seen     == req[r].seen
           read(e)  == IF \E f \in seen : Key(f) = Key(e)
                       THEN CHOOSE f \in seen : Key(f) = Key(e) ELSE e
           previous == { read(e) : e \in Latest(Evaluations(s)) }
           pc       == IF \E e \in previous : e.is_current
                       THEN "supersede" ELSE "insert_evaluation"
           x        == [pc |-> pc, slot |-> s, result |-> p, previous |-> previous]
<1>1. /\ req[r].pc = "evaluate" /\ p \in Results /\ UNCHANGED <<db, staged>>
      /\ req' = [req EXCEPT ![r] = x]
  BY DEF ProviderAnswers, Results
<1>2. /\ s \in Slots /\ seen \in SUBSET EvaluationRow
      /\ IsTransaction(staged[r])
      /\ Opened(r) /\ Wrote(r, {}, {}, {}, NoEntry, {})
  BY <1>1, AtEvaluate
<1>3. \A e, d \in db.evaluations : Key(e) = Key(d) => e = d
  BY DEF DatabaseInv, TablesInv, KeysAreUnique
<1>4. \A e \in db.evaluations : /\ read(e) \in EvaluationRow /\ Key(read(e)) = Key(e)
                                /\ e.is_current => read(e).is_current
  <2> SUFFICES ASSUME NEW e \in db.evaluations
               PROVE  /\ read(e) \in EvaluationRow /\ Key(read(e)) = Key(e)
                      /\ e.is_current => read(e).is_current
    OBVIOUS
  <2>1. CASE \E f \in seen : Key(f) = Key(e)
    <3>1. read(e) \in seen /\ Key(read(e)) = Key(e)
      BY <2>1
    <3> HIDE DEF read
    <3>2. \E d \in db.evaluations : Key(d) = Key(read(e)) /\ (d.is_current => read(e).is_current)
      BY <1>1, <3>1 DEF DatabaseInv, RequestInv, Evaluating
    <3>3. QED
      BY <1>2, <1>3, <3>1, <3>2
  <2>2. CASE ~ \E f \in seen : Key(f) = Key(e)
    BY <2>2, EvaluationsType
  <2>3. QED
    BY <2>1, <2>2
<1>5. \A e, d \in Latest(Evaluations(s)) : e = d
  <2> SUFFICES ASSUME NEW e \in Latest(Evaluations(s)), NEW d \in Latest(Evaluations(s))
               PROVE  e = d
    OBVIOUS
  <2>1. /\ e \in db.evaluations /\ d \in db.evaluations
        /\ e.slot = s /\ d.slot = s /\ e.version <= d.version /\ d.version <= e.version
    BY DEF Latest, Evaluations
  <2>2. e.version \in Int /\ d.version \in Int
    BY <2>1, EvaluationsType DEF EvaluationRow, Versions
  <2>3. Key(e) = Key(d)
    BY <2>1, <2>2 DEF Key
  <2>4. QED
    BY <1>3, <2>1, <2>3
<1>6. \A e \in Latest(Evaluations(s)) : e \in db.evaluations /\ e.slot = s /\ e.is_current
  BY DEF Latest, Evaluations, DatabaseInv, TablesInv, LatestIsCurrent
<1> HIDE DEF read
<1>7. /\ previous \in SUBSET EvaluationRow
      /\ previous = {} => pc = "insert_evaluation"
      /\ previous # {} => pc = "supersede"
      /\ \/ previous = {}
         \/ \E d \in previous : /\ previous = {d} /\ d.slot = s
                                /\ \E e \in db.evaluations : Key(e) = Key(d)
  <2>1. CASE Latest(Evaluations(s)) = {}
    BY <2>1
  <2>2. CASE Latest(Evaluations(s)) # {}
    <3>1. PICK e \in Latest(Evaluations(s)) : TRUE
      BY <2>2
    <3>2. Latest(Evaluations(s)) = {e}
      BY <1>5, <3>1
    <3>3. previous = {read(e)}
      BY <3>2
    <3> HIDE DEF previous
    <3>4. e \in db.evaluations /\ e.slot = s /\ e.is_current
      BY <1>6, <3>1
    <3>5. read(e) \in EvaluationRow /\ read(e).is_current /\ Key(read(e)) = Key(e)
      BY <1>4, <3>4
    <3>6. read(e).slot = s
      BY <3>4, <3>5 DEF Key
    <3>7. QED
      BY <3>3, <3>4, <3>5, <3>6
  <2>3. QED
    BY <2>1, <2>2
<1> HIDE DEF previous, pc
<1>8. /\ req'[r] = x
      /\ DOMAIN req' = Requests /\ DOMAIN staged' = Requests
      /\ \A q \in Requests \ {r} : req'[q] = req[q] /\ staged'[q] = staged[q]
  BY <1>1, OneRequestStep
<1>9. pc \in {"supersede", "insert_evaluation"}
  BY DEF pc
<1>10. RequestInv(r)'
  <2>1. (req[r] \in RequestType)'
    BY <1>1, <1>2, <1>7, <1>8, <1>9 DEF RequestType, Evaluated
  <2>2. IsTransaction(staged[r])'
    BY <1>1, <1>2
  <2>3. Superseding(r)'
    <3>1. Opened(r)'
      BY <1>1, <1>2, <1>8 DEF Opened
    <3>2. Wrote(r, {}, {}, {}, NoEntry, {})'
      BY <1>1, <1>2 DEF Wrote
    <3>3. (IF req'[r].pc = "supersede" THEN {} ELSE { Key(e) : e \in req'[r].previous }) = {}
      BY <1>7, <1>8
    <3>4. Wrote(r, {}, {}, {}, NoEntry,
                IF req[r].pc = "supersede" THEN {} ELSE { Key(e) : e \in req[r].previous })'
      BY <3>2, <3>3
    <3>5. req'[r].previous = previous /\ req'[r].slot = s
      BY <1>8
    <3>6. QED
      BY <1>1, <1>7, <3>1, <3>4, <3>5 DEF Superseding
  <2>4. /\ Closed(r)' /\ Submitting(r)' /\ Evaluating(r)' /\ FailedCall(r)'
        /\ Reviewing(r)' /\ HoldsRecord(r)' /\ TailIsARow(r)'
    BY <1>8, <1>9 DEF Closed, Submitting, Evaluating, FailedCall, Reviewing,
           HoldsRecord, TailIsARow, Recording
  <2>5. Answering(r)'
    BY <1>1, <1>8, <1>9, StillUnrecorded DEF Answering
  <2>6. QED
    BY <2>1, <2>2, <2>3, <2>4, <2>5 DEF RequestInv
<1>11. Claims(staged'[r].tables) \subseteq Claims(staged[r].tables)
  BY <1>1
<1>12. QED
  BY <1>1, <1>8, <1>10, <1>11, KeylessStep

(* What a request at "supersede" or "insert_evaluation" has. *)
LEMMA AtSuperseding ==
    ASSUME DatabaseInv, NEW r \in Requests, req[r].pc \in {"supersede", "insert_evaluation"}
    PROVE  /\ req[r] \in Evaluated /\ req[r].slot \in Slots /\ req[r].result \in Results
           /\ req[r].previous \in SUBSET EvaluationRow
           /\ IsTransaction(staged[r])
           /\ Superseding(r)
           /\ r \in Submits \cup Reevaluates
           /\ ~Recorded(r)
<1>1. req[r] \in Evaluated
  BY Shape DEF DatabaseInv, RequestInv
<1>2. QED
  BY <1>1 DEF DatabaseInv, RequestInv, Superseding, Evaluated, Opened, Answering

(* Superseding the evaluation that was read keeps the invariant: the update *)
(* is staged, not yet visible.                                              *)
LEMMA SupersedeCurrentStep ==
    ASSUME DatabaseInv, NEW r \in Requests, SupersedeCurrent(r)
    PROVE  DatabaseInv'
<1> DEFINE x == [pc |-> "insert_evaluation", slot |-> req[r].slot,
                 result |-> req[r].result, previous |-> req[r].previous]
           keys == { Key(e) : e \in req[r].previous }
           R == staged[r].tables.responses
           K == staged[r].tail_lock
           y == Txn(R, {}, {}, {}, NoEntry, keys, K)
<1>1. /\ req[r].pc = "supersede" /\ db' = db
      /\ Goto(r, "insert_evaluation")
      /\ staged' = [staged EXCEPT ![r].superseded = keys]
  BY DEF SupersedeCurrent
<1>2. req[r] \in Evaluated /\ DOMAIN req = Requests /\ DOMAIN staged = Requests
  BY <1>1, AtSuperseding DEF DatabaseInv
<1>3. req' = [req EXCEPT ![r] = x]
  <2>1. [req[r] EXCEPT !.pc = "insert_evaluation"] = x
    BY <1>2 DEF Evaluated
  <2>2. QED
    BY <1>1, <2>1 DEF Goto
<1>4. staged[r] = Txn(R, {}, {}, {}, NoEntry, {}, K)
  BY <1>1, AtSuperseding DEF Superseding, Wrote
<1> HIDE DEF R, K, keys
<1>5. staged' = [staged EXCEPT ![r] = y]
  <2>1. staged' = [staged EXCEPT ![r].superseded = keys]
    BY <1>1
  <2>2. staged' = [staged EXCEPT ![r] = Txn(R, {}, {}, {}, NoEntry, keys, K)]
    <3>1. [Txn(R, {}, {}, {}, NoEntry, {}, K) EXCEPT !.superseded = keys]
            = Txn(R, {}, {}, {}, NoEntry, keys, K)
      BY DEF Txn
    <3>2. [staged[r] EXCEPT !.superseded = keys] = Txn(R, {}, {}, {}, NoEntry, keys, K)
      BY <1>4, <3>1
    <3>3. QED
      BY <2>1, <3>2
  <2>3. QED
    BY <2>2
<1> HIDE DEF x, y
<1>6. /\ req'[r] = x /\ staged'[r] = y
      /\ DOMAIN req' = Requests /\ DOMAIN staged' = Requests
      /\ \A q \in Requests \ {r} : req'[q] = req[q] /\ staged'[q] = staged[q]
  BY <1>3, <1>5, OneStep
<1>7. RequestInv(r)'
  <2>1. (req[r] \in RequestType)'
    BY <1>1, <1>6, AtSuperseding DEF RequestType, Evaluated, x
  <2>2. IsTransaction(staged[r])'
    <3>1. R \subseteq [slot : Slots, by : Submits] /\ K \subseteq Log!Row
      BY <1>1, AtSuperseding DEF IsTransaction, IsTables, R, K
    <3>2. keys \subseteq Slots \X Versions
      BY <1>1, AtSuperseding DEF keys, Key, EvaluationRow
    <3>3. IsTransaction(y)
      BY <3>1, <3>2, TxnType, NoEntryType DEF y
    <3>4. QED
      BY <1>6, <3>3
  <2>3. staged'[r].tables.responses = R /\ staged'[r].tail_lock = K
    BY <1>6, TxnParts DEF y
  <2>4. Superseding(r)'
    <3>0. Opened(r)
      BY <1>1, AtSuperseding DEF Superseding
    <3>1. Opened(r)'
      <4>1. req'[r].slot = req[r].slot
        BY <1>6 DEF x
      <4>2. QED
        BY <1>1, <2>3, <3>0, <4>1 DEF Opened, R
    <3>2. req'[r].pc = "insert_evaluation" /\ req'[r].previous = req[r].previous
          /\ req'[r].slot = req[r].slot
      BY <1>6 DEF x
    <3>3. (IF req'[r].pc = "supersede" THEN {} ELSE { Key(e) : e \in req'[r].previous }) = keys
      BY <3>2 DEF keys
    <3>4. Wrote(r, {}, {}, {}, NoEntry,
                IF req[r].pc = "supersede" THEN {} ELSE { Key(e) : e \in req[r].previous })'
      BY <1>6, <2>3, <3>3 DEF Wrote, y
    <3>5. \/ req[r].previous = {}
          \/ \E p \in req[r].previous : /\ req[r].previous = {p} /\ p.slot = req[r].slot
                                        /\ \E e \in db.evaluations : Key(e) = Key(p)
      BY <1>1, AtSuperseding DEF Superseding
    <3>6. QED
      BY <1>1, <3>1, <3>2, <3>4, <3>5 DEF Superseding
  <2>5. /\ Closed(r)' /\ Submitting(r)' /\ Evaluating(r)' /\ FailedCall(r)'
        /\ Reviewing(r)' /\ HoldsRecord(r)' /\ TailIsARow(r)'
    BY <1>6 DEF x, Closed, Submitting, Evaluating, FailedCall, Reviewing,
           HoldsRecord, TailIsARow, Recording
  <2>6. Answering(r)'
    BY <1>1, <1>6, StillUnrecorded DEF Answering, x
  <2>7. QED
    BY <2>1, <2>2, <2>4, <2>5, <2>6 DEF RequestInv
<1>8. Claims(staged'[r].tables) \subseteq Claims(staged[r].tables)
  BY <1>4, <1>6, SameClaims DEF y
<1>9. QED
  BY <1>1, <1>6, <1>7, <1>8, KeylessStep

------------------------------------------------------------------------------
(* The next version                                                         *)

(* A slot has finitely many evaluations.                                    *)
LEMMA EvaluationsFinite ==
    ASSUME DatabaseInv, NEW s
    PROVE  IsFiniteSet(Evaluations(s)) /\ Cardinality(Evaluations(s)) \in Nat
<1>1. IsFiniteSet(db.evaluations)
  BY DEF DatabaseInv, TablesInv, EvaluationsAreGrounded
<1>2. Evaluations(s) \in SUBSET db.evaluations
  BY DEF Evaluations
<1>3. QED
  BY <1>1, <1>2, FS_Subset, FS_CardinalityType

(* A version that is not taken follows the last one, and it is the r that  *)
(* writes it that makes room for it.                                       *)
LEMMA NextVersion ==
    ASSUME DatabaseInv, NEW r \in Reevaluates, ~Recorded(r),
           NEW d \in db.evaluations,
           ~ \E f \in db.evaluations : Key(f) = <<d.slot, d.version + 1>>
    PROVE  /\ d.version + 1 \in Versions
           /\ d.version = Cardinality(Evaluations(d.slot))
<1> DEFINE s     == d.slot
           n     == Cardinality(Evaluations(s))
           at(k) == CHOOSE f \in Evaluations(s) : f.version = k
           by    == [k \in 2..n |-> at(k).by]
<1>1. /\ d \in EvaluationRow /\ s \in Slots /\ d \in Evaluations(s)
      /\ d.version \in Nat
  BY EvaluationsType DEF EvaluationRow, Evaluations, Versions
<1>2. n \in Nat
  BY EvaluationsFinite
<1>3. { f.version : f \in Evaluations(s) } = 1..n
  BY <1>1 DEF DatabaseInv, TablesInv, VersionsAreGapFree
<1>4. d.version \in 1..n
  BY <1>1, <1>3
<1>5. d.version + 1 \notin 1..n
  BY <1>1, <1>3 DEF Evaluations, Key
<1>6. d.version = n
  BY <1>2, <1>4, <1>5
<1>7. \A k \in 2..n : at(k) \in Evaluations(s) /\ at(k).version = k
  <2> SUFFICES ASSUME NEW k \in 2..n
               PROVE  at(k) \in Evaluations(s) /\ at(k).version = k
    OBVIOUS
  <2>1. k \in 1..n
    BY <1>2
  <2>2. \E f \in Evaluations(s) : f.version = k
    BY <1>3, <2>1
  <2>3. QED
    BY <2>2
<1> HIDE DEF at, n
<1>8. \A k \in 2..n : by[k] = at(k).by /\ at(k) \in db.evaluations
  BY <1>7 DEF Evaluations
<1>9. \A k \in 2..n : by[k] \in Reevaluates \ {r}
  <2> TAKE k \in 2..n
  <2>1. at(k) \in db.evaluations /\ at(k).version > 1 /\ by[k] = at(k).by
    BY <1>2, <1>7, <1>8
  <2>2. at(k).by \in Reevaluates
    BY <2>1 DEF DatabaseInv, TablesInv, EvaluationsAreGrounded
  <2>3. at(k).by # r
    BY <2>1 DEF Recorded
  <2>4. QED
    BY <2>1, <2>2, <2>3
<1>10. \A j, k \in 2..n : by[j] = by[k] => j = k
  <2> SUFFICES ASSUME NEW j \in 2..n, NEW k \in 2..n, by[j] = by[k] PROVE j = k
    OBVIOUS
  <2>1. at(j) = at(k)
    BY <1>8 DEF DatabaseInv, TablesInv, EvaluationsAreGrounded
  <2>2. QED
    BY <1>7, <2>1
<1> HIDE DEF by
<1>11. n + 1 \in Versions
  <2>1. n \in Nat \ {0}
    BY <1>2, <1>4
  <2>2. QED
    BY <1>9, <1>10, <2>1, RoomForVersion
<1>12. QED
  BY <1>6, <1>11 DEF n

(* What the audit entry says of an evaluation is content an entry may have. *)
LEMMA ContentOfEvaluation ==
    ASSUME NEW e \in EvaluationRow, e.reason = (e.version > 1), e.verdict = route_verdict(e.result)
    PROVE  EvaluationContent(e) \in AuditContent
<1> DEFINE s == e.slot
           n == e.version
           p == e.result
           d == [slot |-> s, version |-> n, result |-> p,
                 verdict |-> route_verdict(p), reason |-> n > 1]
<1>1. s \in Slots /\ n \in Versions /\ p \in { q \in LLMResults : InRange(q) }
  BY DEF EvaluationRow
<1>2. EvaluationContent(e) = EvaluationContent(d)
  BY DEF EvaluationContent, Key
<1>3. EvaluationContent(d) \in AuditContent
  BY <1>1 DEF AuditContent
<1>4. QED
  BY <1>2, <1>3

(* What the audit entry says of a review is content an entry may have.      *)
LEMMA ContentOfReview ==
    ASSUME NEW v \in [slot : Slots, version : Versions, verdict : HumanVerdicts, by : Reviews]
    PROVE  ReviewContent(v) \in AuditContent
<1> DEFINE s == v.slot
           n == v.version
           h == v.verdict
           d == [slot |-> s, version |-> n, verdict |-> h]
<1>1. s \in Slots /\ n \in Versions /\ h \in HumanVerdicts
  OBVIOUS
<1>2. ReviewContent(v) = ReviewContent(d)
  BY DEF ReviewContent, Key
<1>3. ReviewContent(d) \in AuditContent
  BY <1>1 DEF AuditContent
<1>4. QED
  BY <1>2, <1>3

(* The routing returns one of the verdicts.                                 *)
LEMMA RoutedVerdict == ASSUME NEW p \in Results PROVE route_verdict(p) \in Verdict
  BY PipelineAssumption DEF Results, route_verdict, Verdict

(* 1 is a version, whatever the number of re-evaluations.                   *)
LEMMA OneIsAVersion == 1 \in Versions
<1>1. IsFiniteSet(Reevaluates)
  BY PipelineAssumption, FS_Subset DEF Requests
<1>2. QED
  BY <1>1, FS_CardinalityType DEF Versions

(* The evaluation a request is about to insert, when its version is free.  *)
LEMMA NewEvaluationFacts ==
    ASSUME DatabaseInv, NEW r \in Requests, req[r].pc = "insert_evaluation",
           ~VersionTaken(db, NewEvaluation(r))
    PROVE  LET e == NewEvaluation(r) IN
           /\ e \in EvaluationRow
           /\ e.slot = req[r].slot /\ e.by = r /\ e.is_current
           /\ e.reason = (e.version > 1) /\ e.verdict = route_verdict(e.result)
           /\ e.version > 1 => /\ r \in Reevaluates
                               /\ \E f \in db.evaluations : Key(f) = <<e.slot, e.version - 1>>
           /\ { Key(p) : p \in req[r].previous } = Replaced(e)
<1> DEFINE e == NewEvaluation(r)
           s == req[r].slot
           previous == req[r].previous
           result   == req[r].result
<1>1. /\ s \in Slots /\ result \in Results /\ previous \in SUBSET EvaluationRow
      /\ r \in Submits \cup Reevaluates /\ Superseding(r) /\ ~Recorded(r)
  BY AtSuperseding
<1>2. route_verdict(result) \in Verdict
  BY <1>1, RoutedVerdict
<1>3. /\ e.slot = s /\ e.by = r /\ e.is_current /\ e.result = result
      /\ e.verdict = route_verdict(result)
      /\ e.reason = (r \in Reevaluates /\ e.version > 1)
      /\ e.version = IF previous = {} THEN 1
                     ELSE (CHOOSE p \in previous : TRUE).version + 1
  BY DEF NewEvaluation
<1>4. ASSUME NEW v, e.version = v
      PROVE  e = [slot |-> s, version |-> v, is_current |-> TRUE, result |-> result,
                  verdict |-> route_verdict(result),
                  reason |-> r \in Reevaluates /\ v > 1, by |-> r]
  BY <1>4 DEF NewEvaluation
<1>5. ASSUME e.version \in Versions PROVE e \in EvaluationRow
  <2> DEFINE v == e.version
             reason == r \in Reevaluates /\ v > 1
             verdict == route_verdict(result)
  <2>1. e = [slot |-> s, version |-> v, is_current |-> TRUE, result |-> result,
             verdict |-> verdict, reason |-> reason, by |-> r]
    BY <1>4
  <2>2. reason \in BOOLEAN
    OBVIOUS
  <2> HIDE DEF v, reason, e, verdict
  <2>3. v \in Versions /\ verdict \in Verdict
    BY <1>2, <1>5 DEF v, verdict
  <2>4. QED
    BY <1>1, <2>1, <2>2, <2>3 DEF EvaluationRow, Results
<1> HIDE DEF e
<1>6. CASE previous = {}
  <2>1. e.version = 1
    BY <1>3, <1>6
  <2>2. e \in EvaluationRow
    BY <1>5, <2>1, OneIsAVersion
  <2>3. Replaced(e) = {} /\ { Key(p) : p \in previous } = {}
    BY <1>6, <2>1 DEF Replaced
  <2>4. e.reason = (e.version > 1)
    BY <1>3, <2>1
  <2>5. QED
    BY <1>3, <2>1, <2>2, <2>3, <2>4 DEF e
<1>7. CASE previous # {}
  <2>1. PICK p \in previous : previous = {p} /\ p.slot = s /\ \E d \in db.evaluations : Key(d) = Key(p)
    BY <1>1, <1>7 DEF Superseding
  <2>2. PICK d \in db.evaluations : Key(d) = Key(p)
    BY <2>1
  <2>3. e.version = d.version + 1 /\ d.slot = s /\ p.version = d.version
    BY <1>3, <2>1, <2>2 DEF Key
  <2>4. r \in Reevaluates
    <3>1. SlotTaken(db, s)
      BY <2>2, <2>3 DEF DatabaseInv, TablesInv, EvaluationsAreGrounded
    <3>2. ~ (<<"response", s>> \in Claims(staged[r].tables))
      BY <3>1, ClaimsMean DEF DatabaseInv, KeysAreFree
    <3>3. ~ \E row \in staged[r].tables.responses : row.slot = s
      BY <3>2, ClaimsMean DEF SlotTaken
    <3>4. staged[r].tables.responses # {[slot |-> s, by |-> r]}
      <4> DEFINE row == [slot |-> s, by |-> r]
      <4>1. row.slot = s
        OBVIOUS
      <4> HIDE DEF row
      <4>2. staged[r].tables.responses # {row}
        BY <3>3, <4>1
      <4>3. QED
        BY <4>2 DEF row
    <3>5. QED
      BY <1>1, <3>4 DEF Superseding, Opened
  <2>5. ~ \E f \in db.evaluations : Key(f) = <<d.slot, d.version + 1>>
    BY <1>3, <2>3 DEF VersionTaken, Key, e
  <2>6. d.version + 1 \in Versions
    BY <1>1, <2>4, <2>5, NextVersion
  <2>7. d.version \in Versions
    BY EvaluationsType DEF EvaluationRow
  <2>8. e.version > 1 /\ e.version # 1 /\ e.version - 1 = d.version
    BY <2>3, <2>7 DEF Versions
  <2>9. e \in EvaluationRow
    BY <1>5, <2>3, <2>6
  <2>10. { Key(q) : q \in previous } = Replaced(e)
    <3>1. { Key(q) : q \in previous } = {<<s, d.version>>}
      BY <2>1, <2>3 DEF Key
    <3>2. QED
      BY <1>3, <2>8, <3>1 DEF Replaced
  <2>11. \E f \in db.evaluations : Key(f) = <<e.slot, e.version - 1>>
    BY <1>3, <2>3, <2>8 DEF Key
  <2>12. e.reason = (e.version > 1)
    BY <1>3, <2>4
  <2>13. QED
    BY <1>3, <2>4, <2>9, <2>10, <2>11, <2>12 DEF e
<1>8. QED
  BY <1>6, <1>7

------------------------------------------------------------------------------
(* The inserts of an evaluation and of a review                             *)

(* The INSERT of the evaluation keeps the invariant: its version is free    *)
(* and follows the one it supersedes, or the insert fails under the unique  *)
(* key and everything is rolled back.                                       *)
LEMMA InsertEvaluationStep ==
    ASSUME DatabaseInv, NEW r \in Requests, InsertEvaluation(r)
    PROVE  DatabaseInv'
<1>0. SUFFICES ASSUME NEW e, e = NewEvaluation(r),
                     NEW R, R = staged[r].tables.responses,
                     NEW K, K = staged[r].tail_lock,
                     NEW S, S = { Key(p) : p \in req[r].previous }
             PROVE  DatabaseInv'
  OBVIOUS
<1> DEFINE x == [pc |-> "read_tail", slot |-> e.slot, content |-> EvaluationContent(e)]
           L == {LedgerRow(r, TRUE)}
           y == Txn(R, {e}, {}, L, NoEntry, S, K)
<1>1. /\ req[r].pc = "insert_evaluation"
      /\ \A q \in Requests \ {r} : ~VersionTaken(staged[q].tables, e)
  BY <1>0 DEF InsertEvaluation, StagedByOthers
<1>2. CASE VersionTaken(db, e)
  <2>1. Rollback(r, "500 IntegrityError")
    BY <1>0, <1>2 DEF InsertEvaluation
  <2>2. QED
    BY <1>1, <2>1, RollbackStep, AtSuperseding DEF Statuses
<1>3. CASE ~VersionTaken(db, e)
  <2>1. /\ db' = db /\ req' = [req EXCEPT ![r] = x]
        /\ staged' = [staged EXCEPT ![r].tables.evaluations = {e}, ![r].tables.llm_calls = L]
    BY <1>0, <1>3 DEF InsertEvaluation
  <2>2. /\ e \in EvaluationRow
        /\ e.slot = req[r].slot /\ e.by = r /\ e.is_current
        /\ e.reason = (e.version > 1) /\ e.verdict = route_verdict(e.result)
        /\ e.version > 1 => /\ r \in Reevaluates
                            /\ \E f \in db.evaluations : Key(f) = <<e.slot, e.version - 1>>
        /\ S = Replaced(e)
    BY <1>0, <1>1, <1>3, NewEvaluationFacts
  <2>3. r \in Submits \cup Reevaluates /\ IsTransaction(staged[r]) /\ Superseding(r)
        /\ DOMAIN staged = Requests
    BY <1>1, AtSuperseding DEF DatabaseInv
  <2>4. staged[r] = Txn(R, {}, {}, {}, NoEntry, S, K)
    BY <1>0, <1>1, <2>3 DEF Superseding, Wrote
  <2> HIDE DEF L
  <2>5. staged' = [staged EXCEPT ![r] = y]
    <3>1. [Txn(R, {}, {}, {}, NoEntry, S, K) EXCEPT !.tables.evaluations = {e}]
            = Txn(R, {e}, {}, {}, NoEntry, S, K)
      BY DEF Txn
    <3>2. [Txn(R, {e}, {}, {}, NoEntry, S, K) EXCEPT !.tables.llm_calls = L]
            = Txn(R, {e}, {}, L, NoEntry, S, K)
      BY DEF Txn
    <3> DEFINE mid == [staged EXCEPT ![r].tables.evaluations = {e}]
    <3>3. mid[r] = Txn(R, {e}, {}, {}, NoEntry, S, K) /\ DOMAIN mid = Requests
      BY <2>3, <2>4, <3>1
    <3>4. staged' = [mid EXCEPT ![r].tables.llm_calls = L]
      BY <2>1
    <3>5. \A q \in Requests : q # r => mid[q] = staged[q]
      BY <2>3
    <3> HIDE DEF mid
    <3>6. staged' = [mid EXCEPT ![r] = y]
      BY <3>2, <3>3, <3>4
    <3>7. QED
      BY <2>3, <3>3, <3>5, <3>6
  <2> HIDE DEF x, y
  <2>6. /\ req'[r] = x /\ staged'[r] = y
        /\ DOMAIN req' = Requests /\ DOMAIN staged' = Requests
        /\ \A q \in Requests \ {r} : req'[q] = req[q] /\ staged'[q] = staged[q]
    BY <2>1, <2>5, OneStep
  <2>7. req'[r].pc = "read_tail" /\ req'[r].slot = e.slot /\ req'[r].content = EvaluationContent(e)
    BY <2>6 DEF x
  <2>8. /\ staged'[r].tables.responses = R /\ staged'[r].tail_lock = K
        /\ staged'[r].tables.evaluations = {e}
    BY <2>6, TxnParts DEF y
  <2>9. RequestInv(r)'
    <3>1. (req[r] \in RequestType)'
      <4>1. EvaluationContent(e) \in AuditContent
        BY <2>2, ContentOfEvaluation
      <4>2. e.slot \in Slots
        BY <1>1, <2>2, AtSuperseding
      <4>3. QED
        BY <2>6, <4>1, <4>2 DEF RequestType, Auditing, x
    <3>2. IsTransaction(staged[r])'
      <4>1. R \subseteq [slot : Slots, by : Submits] /\ K \subseteq Log!Row
            /\ S \subseteq Slots \X Versions
        BY <2>3, <2>4, TxnType
      <4>2. L \subseteq [by : Submits \cup Reevaluates, succeeded : BOOLEAN]
        BY <2>3 DEF LedgerRow, L
      <4>3. IsTransaction(y)
        <5>1. {e} \subseteq EvaluationRow
          BY <2>2
        <5>2. IsTransaction(Txn(R, {e}, {}, L, NoEntry, S, K))
          BY <4>1, <4>2, <5>1, TxnType, NoEntryType
        <5>3. QED
          BY <5>2 DEF y
      <4>4. QED
        BY <2>6, <4>3
    <3>3. Opened(r)'
      BY <1>0, <1>1, <2>1, <2>2, <2>3, <2>7, <2>8 DEF Opened, Superseding
    <3>4. HoldsRecord(r)'
      <4>1. EvaluationStaged(r, e)'
        BY <2>1, <2>2, <2>7, <3>3 DEF EvaluationStaged
      <4>2. Entry(r)' = NoEntry
        BY <2>7 DEF Entry
      <4>3. Wrote(r, {e}, {}, {LedgerRow(r, TRUE)}, Entry(r), Replaced(e))'
        BY <2>2, <2>6, <2>8, <4>2 DEF Wrote, y, L
      <4>4. \E d \in staged'[r].tables.evaluations :
                /\ EvaluationStaged(r, d)'
                /\ Wrote(r, {d}, {}, {LedgerRow(r, TRUE)}, Entry(r), Replaced(d))'
        BY <2>8, <4>1, <4>3
      <4>5. QED
        BY <4>4 DEF HoldsRecord
    <3>5. /\ Closed(r)' /\ Submitting(r)' /\ Evaluating(r)' /\ FailedCall(r)'
          /\ Superseding(r)' /\ Reviewing(r)' /\ TailIsARow(r)'
      BY <2>7 DEF Closed, Submitting, Evaluating, FailedCall, Superseding, Reviewing,
             TailIsARow, Recording
    <3>6. Answering(r)'
      BY <1>1, <2>1, <2>7, StillUnrecorded DEF Answering
    <3>7. QED
      BY <3>1, <3>2, <3>4, <3>5, <3>6 DEF RequestInv
  <2> DEFINE taken == {<<"evaluation", Key(e)>>}
  <2>10. Claims(staged'[r].tables) \subseteq Claims(staged[r].tables) \cup taken
    <3>1. Claims(staged[r].tables) = { <<"response", row.slot>> : row \in R }
      <4>1. Claims(Txn(R, {}, {}, {}, NoEntry, S, K).tables)
              = { <<"response", row.slot>> : row \in R }
        BY ResponseClaims
      <4>2. QED
        BY <2>4, <4>1
    <3>2. Claims(staged'[r].tables) = { <<"response", row.slot>> : row \in R } \cup taken
      BY <2>6, TxnClaims, NoEntryType DEF y
    <3>3. QED
      BY <3>1, <3>2
  <2>11. taken \cap Claims(db) = {} /\ \A q \in Requests \ {r} : taken \cap Claims(staged[q].tables) = {}
    BY <1>1, <1>3, ClaimsMean
  <2> HIDE DEF taken
  <2>12. QED
    BY <2>1, <2>6, <2>9, <2>10, <2>11, QuietStep
<1>4. QED
  BY <1>2, <1>3

(* Arrival of a review keeps the invariant: the evaluation it is for is     *)
(* flagged, or it is refused.                                               *)
LEMMA StartReviewStep ==
    ASSUME DatabaseInv, NEW r \in Requests, NEW s \in Slots, StartReview(r, s)
    PROVE  DatabaseInv'
<1>1. r \in Reviews /\ req[r].pc = "idle" /\ UNCHANGED <<db, staged>>
  BY DEF StartReview
<1>2. CASE req' = [req EXCEPT ![r] = Answer("404")] \/ req' = [req EXCEPT ![r] = Answer("409")]
  BY <1>1, <1>2, RefusedStep DEF Statuses
<1>3. ASSUME NEW e \in Evaluations(s), can_be_human_reviewed(e.verdict),
             req' = [req EXCEPT ![r] = [pc |-> "insert_review", slot |-> s, version |-> e.version]]
      PROVE  DatabaseInv'
  <2> DEFINE x == [pc |-> "insert_review", slot |-> s, version |-> e.version]
  <2>1. /\ req'[r] = x
        /\ DOMAIN req' = Requests /\ DOMAIN staged' = Requests
        /\ \A q \in Requests \ {r} : req'[q] = req[q] /\ staged'[q] = staged[q]
    BY <1>1, <1>3, OneRequestStep
  <2>2. staged'[r] = NoTransaction
    BY <1>1 DEF DatabaseInv, RequestInv, Closed
  <2>3. RequestInv(r)'
    <3>1. e \in EvaluationRow /\ e \in db.evaluations /\ e.slot = s
      BY <1>3, EvaluationsType DEF Evaluations
    <3>2. (req[r] \in RequestType)'
      BY <2>1, <3>1 DEF RequestType, Reviewed, EvaluationRow
    <3>3. IsTransaction(staged[r])'
      BY <2>2, NoClaims
    <3>4. Reviewing(r)'
      BY <1>1, <1>3, <2>1, <3>1 DEF Reviewing, Flagged
    <3>5. /\ Closed(r)' /\ Submitting(r)' /\ Evaluating(r)' /\ FailedCall(r)'
          /\ Superseding(r)' /\ HoldsRecord(r)' /\ TailIsARow(r)'
      BY <2>1, <2>2 DEF Closed, Submitting, Evaluating, FailedCall, Superseding,
             HoldsRecord, TailIsARow, Recording
    <3>6. Answering(r)'
      BY <1>1, <2>1, StillUnrecorded DEF Answering
    <3>7. QED
      BY <3>2, <3>3, <3>4, <3>5, <3>6 DEF RequestInv
  <2>4. Claims(staged'[r].tables) \subseteq Claims(staged[r].tables)
    BY <1>1
  <2>5. QED
    BY <1>1, <2>1, <2>3, <2>4, KeylessStep
<1>4. QED
  BY <1>2, <1>3 DEF StartReview

(* The INSERT of the review keeps the invariant: no one reviewed that       *)
(* version before, or the insert fails.                                     *)
LEMMA InsertReviewStep ==
    ASSUME DatabaseInv, NEW r \in Requests, NEW h \in HumanVerdicts, InsertReview(r, h)
    PROVE  DatabaseInv'
<1>0. SUFFICES ASSUME NEW v, v = [slot |-> req[r].slot, version |-> req[r].version,
                                 verdict |-> h, by |-> r]
             PROVE  DatabaseInv'
  OBVIOUS
<1> DEFINE x == [pc |-> "read_tail", slot |-> v.slot, content |-> ReviewContent(v)]
           y == Txn({}, {}, {v}, {}, NoEntry, {}, {})
<1>1. /\ req[r].pc = "insert_review"
      /\ \A q \in Requests \ {r} : ~ReviewTaken(staged[q].tables, v)
  BY <1>0 DEF InsertReview, StagedByOthers
<1>2. CASE ReviewTaken(db, v)
  <2>1. Rollback(r, "500 IntegrityError")
    BY <1>0, <1>2 DEF InsertReview
  <2>2. ~Recorded(r)
    BY <1>1 DEF DatabaseInv, RequestInv, Answering
  <2>3. QED
    BY <2>1, <2>2, RollbackStep DEF Statuses
<1>3. CASE ~ReviewTaken(db, v)
  <2>1. /\ db' = db /\ req' = [req EXCEPT ![r] = x]
        /\ Stage(r, "reviews", v)
    BY <1>0, <1>3 DEF InsertReview
  <2>2. /\ req[r] \in Reviewed /\ r \in Reviews /\ Flagged(req[r].slot, req[r].version)
        /\ staged[r] = NoTransaction /\ DOMAIN staged = Requests
    BY <1>1, Shape DEF DatabaseInv, RequestInv, Reviewing, Closed
  <2>3. /\ v \in [slot : Slots, version : Versions, verdict : HumanVerdicts, by : Reviews]
        /\ v.slot = req[r].slot /\ v.by = r /\ Flagged(v.slot, v.version)
    BY <1>0, <2>2 DEF Reviewed
  <2>4. staged' = [staged EXCEPT ![r] = y]
    <3>1. {} \cup {v} = {v}
      OBVIOUS
    <3>2. staged' = [staged EXCEPT ![r] = Txn({}, {}, {} \cup {v}, {}, NoEntry, {}, {})]
      BY <2>1, <2>2, NoTxn, StageReview
    <3>3. QED
      BY <3>1, <3>2
  <2> HIDE DEF x, y
  <2>5. /\ req'[r] = x /\ staged'[r] = y
        /\ DOMAIN req' = Requests /\ DOMAIN staged' = Requests
        /\ \A q \in Requests \ {r} : req'[q] = req[q] /\ staged'[q] = staged[q]
    BY <2>1, <2>4, OneStep
  <2>6. req'[r].pc = "read_tail" /\ req'[r].slot = v.slot /\ req'[r].content = ReviewContent(v)
    BY <2>5 DEF x
  <2>7. /\ staged'[r].tables.responses = {} /\ staged'[r].tail_lock = {}
        /\ staged'[r].tables.reviews = {v}
    BY <2>5, TxnParts DEF y
  <2>8. RequestInv(r)'
    <3>1. (req[r] \in RequestType)'
      <4>1. ReviewContent(v) \in AuditContent
        BY <2>3, ContentOfReview
      <4>2. QED
        BY <2>3, <2>5, <4>1 DEF RequestType, Auditing, x
    <3>2. IsTransaction(staged[r])'
      <4>1. IsTransaction(y)
        <5>1. {v} \subseteq [slot : Slots, version : Versions, verdict : HumanVerdicts,
                             by : Reviews]
          BY <2>3
        <5>2. IsTransaction(Txn({}, {}, {v}, {}, NoEntry, {}, {}))
          BY <5>1, TxnType, NoEntryType
        <5>3. QED
          BY <5>2 DEF y
      <4>2. QED
        BY <2>5, <4>1
    <3>3. HoldsRecord(r)'
      <4>1. ReviewStaged(r, v)'
        BY <2>1, <2>3, <2>6 DEF ReviewStaged, Flagged
      <4>2. Entry(r)' = NoEntry
        BY <2>6 DEF Entry
      <4>3. Wrote(r, {}, {v}, {}, Entry(r), {})'
        BY <2>5, <2>7, <4>2 DEF Wrote, y
      <4>4. \E w \in staged'[r].tables.reviews :
                ReviewStaged(r, w)' /\ Wrote(r, {}, {w}, {}, Entry(r), {})'
        BY <2>7, <4>1, <4>3
      <4>5. QED
        BY <2>7, <4>4 DEF HoldsRecord
    <3>4. /\ Closed(r)' /\ Submitting(r)' /\ Evaluating(r)' /\ FailedCall(r)'
          /\ Superseding(r)' /\ Reviewing(r)' /\ TailIsARow(r)'
      BY <2>6 DEF Closed, Submitting, Evaluating, FailedCall, Superseding, Reviewing,
             TailIsARow, Recording
    <3>5. Answering(r)'
      BY <1>1, <2>1, <2>6, StillUnrecorded DEF Answering
    <3>6. QED
      BY <3>1, <3>2, <3>3, <3>4, <3>5 DEF RequestInv
  <2> DEFINE taken == {<<"review", Key(v)>>}
  <2>9. Claims(staged'[r].tables) \subseteq Claims(staged[r].tables) \cup taken
    BY <2>5, TxnClaims, NoEntryType DEF y
  <2>10. taken \cap Claims(db) = {} /\ \A q \in Requests \ {r} : taken \cap Claims(staged[q].tables) = {}
    BY <1>1, <1>3, ClaimsMean
  <2> HIDE DEF taken
  <2>11. QED
    BY <2>1, <2>5, <2>8, <2>9, <2>10, QuietStep
<1>4. QED
  BY <1>2, <1>3

------------------------------------------------------------------------------
(* The entry of a transaction                                               *)

(* An entry computed from a tail is a row of the log.                       *)
LEMMA LogEntryType ==
    ASSUME NEW rows \in Seq(Log!Row), NEW c \in AuditContent, NEW x \in Interviews
    PROVE  Log!NewEntry(rows, c, x) \in Log!Row
<1>1. Log!NextSeq(rows) \in Nat /\ Log!PrevHash(rows) \in Log!Digest
  <2>1. CASE rows = <<>>
    BY <2>1 DEF Log!NextSeq, Log!PrevHash, Log!GENESIS_HASH, Log!Digest
  <2>2. CASE rows # <<>>
    <3>1. rows[Len(rows)] \in Log!Row
      BY <2>2
    <3>2. QED
      BY <2>2, <3>1 DEF Log!NextSeq, Log!PrevHash, Log!Row
  <2>3. QED
    BY <2>1, <2>2
<1>2. Log!compute_entry_hash(Log!PrevHash(rows), Log!NextSeq(rows), c) \in Log!Digest
  BY <1>1 DEF Log!compute_entry_hash, Log!Digest, Log!Envelope, Log!CHAIN_VERSION
<1>3. QED
  BY <1>1, <1>2 DEF Log!NewEntry, Log!Row

(* A log of one row.                                                        *)
LEMMA OneRowLog ==
    ASSUME NEW t \in Tenants, NEW row \in Log!Row
    PROVE  /\ <<[tenant |-> t, row |-> row]>> \in Seq([tenant : Tenants, row : Log!Row])
           /\ DOMAIN <<[tenant |-> t, row |-> row]>> = {1}
           /\ <<[tenant |-> t, row |-> row]>>[1] = [tenant |-> t, row |-> row]
<1> DEFINE S == [tenant : Tenants, row : Log!Row]
           a == [tenant |-> t, row |-> row]
<1>1. a \in S
  OBVIOUS
<1> HIDE DEF S, a
<1>2. <<a>> \in Seq(S) /\ DOMAIN <<a>> = {1} /\ <<a>>[1] = a
  BY <1>1
<1>3. QED
  BY <1>2 DEF S, a

(* The tail that ORDER BY seq DESC LIMIT 1 returns is a row of the chain,   *)
(* or none.                                                                 *)
LEMMA LastRow ==
    ASSUME NEW rows \in Seq(Log!Row), NEW tail,
           tail = IF rows = <<>> THEN <<>> ELSE <<rows[Len(rows)]>>
    PROVE  /\ tail \in Seq(Log!Row)
           /\ tail = <<>> \/ \E k \in 1..Len(rows) : tail = <<rows[k]>>
<1>1. CASE rows = <<>>
  BY <1>1
<1>2. CASE rows # <<>>
  <2>1. Len(rows) \in 1..Len(rows) /\ rows[Len(rows)] \in Log!Row
    BY <1>2
  <2>2. QED
    BY <1>2, <2>1
<1>3. QED
  BY <1>1, <1>2

(* What a request has that is about to append its entry. *)
LEMMA AtRecording ==
    ASSUME DatabaseInv, NEW r \in Requests, req[r].pc \in Recording
    PROVE  /\ req[r].slot \in Slots /\ req[r].content \in AuditContent
           /\ owner(req[r].slot) \in Tenants
           /\ IsTransaction(staged[r]) /\ HoldsRecord(r) /\ TailIsARow(r)
           /\ ~Recorded(r) /\ DOMAIN staged = Requests /\ DOMAIN req = Requests
           /\ req[r].pc = "read_tail" => req[r] \in Auditing
           /\ req[r].pc # "read_tail" => req[r] \in Appending
<1>1. req[r].slot \in Slots /\ req[r].content \in AuditContent
  BY SlotType DEF DatabaseInv, RequestInv
<1>2. /\ req[r].pc = "read_tail" => req[r] \in Auditing
      /\ req[r].pc # "read_tail" => req[r] \in Appending
  BY Shape DEF DatabaseInv, RequestInv, Recording
<1>3. QED
  BY <1>1, <1>2, OwnerType DEF DatabaseInv, RequestInv, Answering, Recording

(* Until the entry is flushed, the transaction has no row of the log.       *)
LEMMA BeforeEntry ==
    ASSUME NEW r \in Requests, HoldsRecord(r), req[r].pc \in Recording \ {"commit"}
    PROVE  LET x == staged[r].tables IN
           staged[r] = Txn(x.responses, x.evaluations, x.reviews, x.llm_calls, NoEntry,
                           staged[r].superseded, staged[r].tail_lock)
<1>1. Entry(r) = NoEntry
  BY DEF Entry
<1>2. CASE \E e \in staged[r].tables.evaluations :
              Wrote(r, {e}, {}, {LedgerRow(r, TRUE)}, Entry(r), Replaced(e))
  <2>1. PICK e : Wrote(r, {e}, {}, {LedgerRow(r, TRUE)}, Entry(r), Replaced(e))
    BY <1>2
  <2>2. staged[r] = Txn(staged[r].tables.responses, {e}, {}, {LedgerRow(r, TRUE)}, NoEntry,
                        Replaced(e), staged[r].tail_lock)
    BY <1>1, <2>1 DEF Wrote
  <2>3. /\ staged[r].tables.evaluations = {e} /\ staged[r].tables.reviews = {}
        /\ staged[r].tables.llm_calls = {LedgerRow(r, TRUE)}
        /\ staged[r].superseded = Replaced(e)
    <3> DEFINE L == {LedgerRow(r, TRUE)}
    <3> HIDE DEF L
    <3>1. staged[r] = Txn(staged[r].tables.responses, {e}, {}, L, NoEntry,
                          Replaced(e), staged[r].tail_lock)
      BY <2>2 DEF L
    <3>2. /\ staged[r].tables.evaluations = {e} /\ staged[r].tables.reviews = {}
          /\ staged[r].tables.llm_calls = L /\ staged[r].superseded = Replaced(e)
      BY <3>1, TxnParts
    <3>3. QED
      BY <3>2 DEF L
  <2>4. QED
    BY <2>2, <2>3
<1>3. CASE \E v \in staged[r].tables.reviews : Wrote(r, {}, {v}, {}, Entry(r), {})
  <2>1. PICK v : Wrote(r, {}, {v}, {}, Entry(r), {})
    BY <1>3
  <2>2. staged[r] = Txn(staged[r].tables.responses, {}, {v}, {}, NoEntry, {}, staged[r].tail_lock)
    BY <1>1, <2>1 DEF Wrote
  <2>3. /\ staged[r].tables.evaluations = {} /\ staged[r].tables.reviews = {v}
        /\ staged[r].tables.llm_calls = {} /\ staged[r].superseded = {}
    BY <2>2, TxnParts
  <2>4. QED
    BY <2>2, <2>3
<1>4. QED
  BY <1>2, <1>3 DEF HoldsRecord

(* Reading the tail, locking it and flushing the entry leave what is to be *)
(* recorded alone.                                                         *)
LEMMA HoldsOn ==
    ASSUME NEW r \in Requests, HoldsRecord(r), db' = db,
           req[r].pc \in Recording \ {"commit"},
           req'[r].slot = req[r].slot, req'[r].content = req[r].content,
           NEW J, LET x == staged[r].tables IN
                  staged'[r] = Txn(x.responses, x.evaluations, x.reviews, x.llm_calls,
                                   Entry(r)', staged[r].superseded, J)
    PROVE  HoldsRecord(r)'
<1>1. Entry(r) = NoEntry
  BY DEF Entry
<1>2. /\ staged'[r].tables.responses = staged[r].tables.responses
      /\ staged'[r].tables.evaluations = staged[r].tables.evaluations
      /\ staged'[r].tables.reviews = staged[r].tables.reviews
      /\ staged'[r].tail_lock = J
  BY TxnParts
<1>3. CASE \E e \in staged[r].tables.evaluations :
              /\ EvaluationStaged(r, e)
              /\ Wrote(r, {e}, {}, {LedgerRow(r, TRUE)}, Entry(r), Replaced(e))
  <2>1. PICK e \in staged[r].tables.evaluations :
              /\ EvaluationStaged(r, e)
              /\ Wrote(r, {e}, {}, {LedgerRow(r, TRUE)}, Entry(r), Replaced(e))
    BY <1>3
  <2>2. /\ staged[r].tables.evaluations = {e} /\ staged[r].tables.reviews = {}
        /\ staged[r].tables.llm_calls = {LedgerRow(r, TRUE)}
        /\ staged[r].superseded = Replaced(e)
    <3> DEFINE L == {LedgerRow(r, TRUE)}
    <3> HIDE DEF L
    <3>1. staged[r] = Txn(staged[r].tables.responses, {e}, {}, L, NoEntry,
                          Replaced(e), staged[r].tail_lock)
      BY <1>1, <2>1 DEF Wrote, L
    <3>2. /\ staged[r].tables.evaluations = {e} /\ staged[r].tables.reviews = {}
          /\ staged[r].tables.llm_calls = L /\ staged[r].superseded = Replaced(e)
      BY <3>1, TxnParts
    <3>3. QED
      BY <3>2 DEF L
  <2>3. Wrote(r, {e}, {}, {LedgerRow(r, TRUE)}, Entry(r), Replaced(e))'
    BY <1>2, <2>2 DEF Wrote
  <2>4. EvaluationStaged(r, e)'
    BY <1>2, <2>1 DEF EvaluationStaged, Opened
  <2>5. QED
    BY <1>2, <2>1, <2>3, <2>4 DEF HoldsRecord
<1>4. CASE \E v \in staged[r].tables.reviews :
              /\ ReviewStaged(r, v)
              /\ Wrote(r, {}, {v}, {}, Entry(r), {})
              /\ staged[r].tables.responses = {}
  <2>1. PICK v \in staged[r].tables.reviews :
              /\ ReviewStaged(r, v)
              /\ Wrote(r, {}, {v}, {}, Entry(r), {})
              /\ staged[r].tables.responses = {}
    BY <1>4
  <2>2. /\ staged[r].tables.evaluations = {} /\ staged[r].tables.reviews = {v}
        /\ staged[r].tables.llm_calls = {} /\ staged[r].superseded = {}
    <3>1. staged[r] = Txn(staged[r].tables.responses, {}, {v}, {}, NoEntry, {}, staged[r].tail_lock)
      BY <1>1, <2>1 DEF Wrote
    <3>2. QED
      BY <3>1, TxnParts
  <2>3. Wrote(r, {}, {v}, {}, Entry(r), {})'
    BY <1>2, <2>2 DEF Wrote
  <2>4. ReviewStaged(r, v)'
    BY <2>1 DEF ReviewStaged, Flagged
  <2>5. QED
    BY <1>2, <2>1, <2>3, <2>4 DEF HoldsRecord
<1>5. QED
  BY <1>3, <1>4 DEF HoldsRecord

------------------------------------------------------------------------------
(* Appending to the log                                                     *)

(* A tenant's chain is a sequence of rows.                                  *)
LEMMA ChainType ==
    ASSUME DatabaseInv, NEW t \in Tenants
    PROVE  Chain(t) \in Seq(Log!Row)
  BY DEF DatabaseInv, TablesInv, ChainsAreGapFree

(* Reading the tail keeps the invariant.                                    *)
LEMMA ReadTailStep ==
    ASSUME DatabaseInv, NEW r \in Requests, ReadTail(r)
    PROVE  DatabaseInv'
<1>1. req[r].pc = "read_tail"
  BY DEF ReadTail
<1>2. CASE Raise(r, "500 permission denied")
  BY <1>1, <1>2, AtRecording, RaiseStep DEF Recording, Statuses
<1>3. ASSUME NEW pc \in {"lock_tail", "append_entry"}, NEW tail,
             tail = CommittedTail(owner(req[r].slot)),
             req' = [req EXCEPT ![r] = [pc |-> pc, slot |-> req[r].slot,
                                        content |-> req[r].content, tail |-> tail]],
             UNCHANGED <<db, staged>>
      PROVE  DatabaseInv'
  <2> DEFINE x == [pc |-> pc, slot |-> req[r].slot, content |-> req[r].content, tail |-> tail]
             rows == Chain(owner(req[r].slot))
  <2>1. /\ req[r].slot \in Slots /\ req[r].content \in AuditContent
        /\ IsTransaction(staged[r]) /\ HoldsRecord(r)
        /\ rows \in Seq(Log!Row)
    BY <1>1, AtRecording, ChainType DEF Recording
  <2>2. /\ tail \in Seq(Log!Row)
        /\ tail = <<>> \/ \E k \in 1..Len(rows) : tail = <<rows[k]>>
    <3>1. tail = IF rows = <<>> THEN <<>> ELSE <<rows[Len(rows)]>>
      BY <1>3 DEF CommittedTail
    <3>2. rows \in Seq(Log!Row)
      BY <2>1
    <3> HIDE DEF rows
    <3>3. QED
      BY <3>1, <3>2, LastRow
  <2>3. /\ req'[r] = x
        /\ DOMAIN req' = Requests /\ DOMAIN staged' = Requests
        /\ \A q \in Requests \ {r} : req'[q] = req[q] /\ staged'[q] = staged[q]
    BY <1>3, OneRequestStep
  <2>4. /\ req'[r].pc = pc /\ req'[r].slot = req[r].slot /\ req'[r].content = req[r].content
        /\ req'[r].tail = tail
    BY <2>3
  <2>5. RequestInv(r)'
    <3>1. (req[r] \in RequestType)'
      BY <2>1, <2>2, <2>3 DEF RequestType, Appending
    <3>2. IsTransaction(staged[r])'
      BY <1>3, <2>1
    <3>3. HoldsRecord(r)'
      <4>1. Entry(r)' = NoEntry
        BY <2>4 DEF Entry
      <4>2. req[r].pc \in Recording \ {"commit"}
        BY <1>1 DEF Recording
      <4> DEFINE y == staged[r].tables
      <4>3. staged'[r] = Txn(y.responses, y.evaluations, y.reviews, y.llm_calls, Entry(r)',
                             staged[r].superseded, staged[r].tail_lock)
        BY <1>3, <2>1, <4>1, <4>2, BeforeEntry
      <4>4. QED
        BY <1>3, <2>1, <2>4, <4>2, <4>3, HoldsOn
    <3>4. TailIsARow(r)'
      BY <1>3, <2>2, <2>4 DEF TailIsARow, Chain, owner
    <3>5. /\ Closed(r)' /\ Submitting(r)' /\ Evaluating(r)' /\ FailedCall(r)'
          /\ Superseding(r)' /\ Reviewing(r)'
      BY <2>4 DEF Closed, Submitting, Evaluating, FailedCall, Superseding, Reviewing
    <3>6. Answering(r)'
      BY <1>1, <1>3, <2>4, StillUnrecorded DEF Answering
    <3>7. QED
      BY <3>1, <3>2, <3>3, <3>4, <3>5, <3>6 DEF RequestInv
  <2>6. Claims(staged'[r].tables) \subseteq Claims(staged[r].tables)
    BY <1>3
  <2>7. QED
    BY <1>3, <2>3, <2>5, <2>6, KeylessStep
<1>4. QED
  <2>1. ASSUME NEW tail, tail = CommittedTail(owner(req[r].slot)),
               NEW pc, pc = (IF setting.backend = "postgresql" /\ tail # <<>>
                             THEN "lock_tail" ELSE "append_entry"),
               req' = [req EXCEPT ![r] = [pc |-> pc, slot |-> req[r].slot,
                                        content |-> req[r].content, tail |-> tail]],
               UNCHANGED <<db, staged>>
        PROVE  DatabaseInv'
    BY <1>3, <2>1
  <2>2. QED
    BY <1>2, <2>1 DEF ReadTail

(* Locking the tail keeps the invariant.                                    *)
LEMMA LockTailStep ==
    ASSUME DatabaseInv, NEW r \in Requests, LockTail(r)
    PROVE  DatabaseInv'
<1>0. SUFFICES ASSUME NEW J, J = ToSet(req[r].tail),
                      NEW x, x = [pc |-> "append_entry", slot |-> req[r].slot,
                                  content |-> req[r].content, tail |-> req[r].tail]
               PROVE  DatabaseInv'
  OBVIOUS
<1>1. /\ req[r].pc = "lock_tail" /\ db' = db
      /\ staged' = [staged EXCEPT ![r].tail_lock = J]
      /\ Goto(r, "append_entry")
  BY <1>0 DEF LockTail
<1>2. /\ req[r] \in Appending /\ DOMAIN req = Requests /\ DOMAIN staged = Requests
      /\ IsTransaction(staged[r]) /\ HoldsRecord(r) /\ TailIsARow(r)
  BY <1>1, AtRecording DEF Recording
<1>3. req' = [req EXCEPT ![r] = x]
  <2>1. [req[r] EXCEPT !.pc = "append_entry"] = x
    BY <1>0, <1>2 DEF Appending
  <2>2. QED
    BY <1>1, <2>1 DEF Goto
<1>4. req[r].pc \in Recording \ {"commit"}
  BY <1>1 DEF Recording
<1>5. SUFFICES ASSUME NEW R, NEW E, NEW V, NEW L, NEW S, NEW K,
                      LET t == staged[r].tables IN
                      /\ R = t.responses /\ E = t.evaluations /\ V = t.reviews
                      /\ L = t.llm_calls /\ S = staged[r].superseded
                      /\ K = staged[r].tail_lock
               PROVE  DatabaseInv'
  OBVIOUS
<1>6. staged[r] = Txn(R, E, V, L, NoEntry, S, K)
  BY <1>2, <1>4, <1>5, BeforeEntry
<1> DEFINE y == Txn(R, E, V, L, NoEntry, S, J)
<1>7. staged' = [staged EXCEPT ![r] = y]
  <2>1. [Txn(R, E, V, L, NoEntry, S, K) EXCEPT !.tail_lock = J] = y
    BY DEF Txn
  <2>2. [staged[r] EXCEPT !.tail_lock = J] = y
    BY <1>6, <2>1
  <2>3. QED
    BY <1>1, <2>2
<1> HIDE DEF y
<1>8. /\ req'[r] = x /\ staged'[r] = y
      /\ DOMAIN req' = Requests /\ DOMAIN staged' = Requests
      /\ \A q \in Requests \ {r} : req'[q] = req[q] /\ staged'[q] = staged[q]
  BY <1>3, <1>7, OneStep
<1>9. /\ req'[r].pc = "append_entry" /\ req'[r].slot = req[r].slot
      /\ req'[r].content = req[r].content /\ req'[r].tail = req[r].tail
  BY <1>0, <1>8
<1>10. RequestInv(r)'
  <2>1. (req[r] \in RequestType)'
    BY <1>0, <1>2, <1>8 DEF RequestType, Appending
  <2>2. IsTransaction(staged[r])'
    <3>1. J \in SUBSET Log!Row
      BY <1>0, <1>2 DEF Appending, ToSet
    <3>2. IsTransaction(y)
      BY <1>2, <1>6, <3>1, TxnType DEF y
    <3>3. QED
      BY <1>8, <3>2
  <2>3. HoldsRecord(r)'
    <3>1. Entry(r)' = NoEntry
      BY <1>9 DEF Entry
    <3>2. LET t == staged[r].tables IN
          staged'[r] = Txn(t.responses, t.evaluations, t.reviews, t.llm_calls, Entry(r)',
                           staged[r].superseded, J)
      BY <1>5, <1>8, <3>1 DEF y
    <3>3. QED
      BY <1>1, <1>2, <1>4, <1>9, <3>2, HoldsOn
  <2>4. TailIsARow(r)'
    BY <1>1, <1>2, <1>9 DEF TailIsARow, Chain, Recording
  <2>5. /\ Closed(r)' /\ Submitting(r)' /\ Evaluating(r)' /\ FailedCall(r)'
        /\ Superseding(r)' /\ Reviewing(r)'
    BY <1>9 DEF Closed, Submitting, Evaluating, FailedCall, Superseding, Reviewing
  <2>6. Answering(r)'
    BY <1>1, <1>9, StillUnrecorded DEF Answering
  <2>7. QED
    BY <2>1, <2>2, <2>3, <2>4, <2>5, <2>6 DEF RequestInv
<1>11. Claims(staged'[r].tables) \subseteq Claims(staged[r].tables)
  BY <1>6, <1>8, SameClaims DEF y
<1>12. QED
  BY <1>1, <1>8, <1>10, <1>11, KeylessStep

(* Flushing the entry keeps the invariant: its (tenant, seq) is free, or    *)
(* the flush fails under the unique key and everything is rolled back.      *)
LEMMA AppendEntryStep ==
    ASSUME DatabaseInv, NEW r \in Requests, AppendEntry(r)
    PROVE  DatabaseInv'
<1>0. SUFFICES ASSUME NEW s, s = req[r].slot,
                      NEW entry, entry = Log!NewEntry(req[r].tail, req[r].content, InterviewOf[s]),
                      NEW A, A = <<[tenant |-> owner(s), row |-> entry]>>,
                      NEW x, x = [pc |-> "commit", slot |-> req[r].slot,
                                  content |-> req[r].content, tail |-> req[r].tail]
               PROVE  DatabaseInv'
  OBVIOUS
<1>1. /\ req[r].pc = "append_entry"
      /\ \A q \in Requests \ {r} : ~SeqTaken(staged[q].tables, s, entry.seq)
  BY <1>0 DEF AppendEntry, StagedByOthers
<1>2. /\ req[r] \in Appending /\ DOMAIN req = Requests /\ DOMAIN staged = Requests
      /\ IsTransaction(staged[r]) /\ HoldsRecord(r) /\ TailIsARow(r)
      /\ ~Recorded(r) /\ s \in Slots /\ owner(s) \in Tenants
  BY <1>0, <1>1, AtRecording DEF Recording
<1>3. CASE SeqTaken(db, s, entry.seq)
  <2>1. Rollback(r, "500 IntegrityError")
    BY <1>0, <1>3 DEF AppendEntry
  <2>2. QED
    BY <1>2, <2>1, RollbackStep DEF Statuses
<1>4. CASE ~SeqTaken(db, s, entry.seq)
  <2>1. /\ db' = db /\ Goto(r, "commit")
        /\ staged' = [staged EXCEPT ![r].tables.audit_log = A]
    BY <1>0, <1>4 DEF AppendEntry
  <2>2. req' = [req EXCEPT ![r] = x]
    <3>1. [req[r] EXCEPT !.pc = "commit"] = x
      BY <1>0, <1>2 DEF Appending
    <3>2. QED
      BY <2>1, <3>1 DEF Goto
  <2>3. req[r].pc \in Recording \ {"commit"}
    BY <1>1 DEF Recording
  <2>4. SUFFICES ASSUME NEW R, NEW E, NEW V, NEW L, NEW S, NEW K,
                        LET t == staged[r].tables IN
                        /\ R = t.responses /\ E = t.evaluations /\ V = t.reviews
                        /\ L = t.llm_calls /\ S = staged[r].superseded
                        /\ K = staged[r].tail_lock
                 PROVE  DatabaseInv'
    OBVIOUS
  <2>5. staged[r] = Txn(R, E, V, L, NoEntry, S, K)
    BY <1>2, <2>3, <2>4, BeforeEntry
  <2> DEFINE y == Txn(R, E, V, L, A, S, K)
  <2>6. staged' = [staged EXCEPT ![r] = y]
    <3>1. [Txn(R, E, V, L, NoEntry, S, K) EXCEPT !.tables.audit_log = A] = y
      BY DEF Txn
    <3>2. [staged[r] EXCEPT !.tables.audit_log = A] = y
      BY <2>5, <3>1
    <3>3. QED
      BY <2>1, <3>2
  <2> HIDE DEF y
  <2>7. /\ req'[r] = x /\ staged'[r] = y
        /\ DOMAIN req' = Requests /\ DOMAIN staged' = Requests
        /\ \A q \in Requests \ {r} : req'[q] = req[q] /\ staged'[q] = staged[q]
    BY <2>2, <2>6, OneStep
  <2>8. /\ req'[r].pc = "commit" /\ req'[r].slot = req[r].slot
        /\ req'[r].content = req[r].content /\ req'[r].tail = req[r].tail
    BY <1>0, <2>7
  <2>9. entry \in Log!Row
    <3>1. /\ req[r].tail \in Seq(Log!Row) /\ req[r].content \in AuditContent
          /\ InterviewOf[s] \in Interviews
      BY <1>2, PipelineAssumption DEF Appending
    <3>2. QED
      BY <1>0, <3>1, LogEntryType
  <2>10. /\ A \in Seq([tenant : Tenants, row : Log!Row])
         /\ DOMAIN A = {1} /\ A[1] = [tenant |-> owner(s), row |-> entry]
    BY <1>0, <1>2, <2>9, OneRowLog
  <2>11. RequestInv(r)'
    <3>1. (req[r] \in RequestType)'
      BY <1>0, <1>2, <2>7 DEF RequestType, Appending
    <3>2. IsTransaction(staged[r])'
      <4>1. /\ IsTransaction(Txn(R, E, V, L, NoEntry, S, K))
        BY <1>2, <2>5
      <4>2. IsTransaction(Txn(R, E, V, L, A, S, K))
        BY <2>10, <4>1, TxnType
      <4>3. QED
        BY <2>7, <4>2 DEF y
    <3>3. HoldsRecord(r)'
      <4>1. Entry(r)' = A
        BY <1>0, <2>8 DEF Entry, owner
      <4>2. LET t == staged[r].tables IN
            staged'[r] = Txn(t.responses, t.evaluations, t.reviews, t.llm_calls, Entry(r)',
                             staged[r].superseded, K)
        BY <2>4, <2>7, <4>1 DEF y
      <4>3. QED
        BY <2>1, <1>2, <2>3, <2>8, <4>2, HoldsOn
    <3>4. TailIsARow(r)'
      BY <1>1, <2>1, <1>2, <2>8 DEF TailIsARow, Chain, Recording
    <3>5. /\ Closed(r)' /\ Submitting(r)' /\ Evaluating(r)' /\ FailedCall(r)'
          /\ Superseding(r)' /\ Reviewing(r)'
      BY <2>8 DEF Closed, Submitting, Evaluating, FailedCall, Superseding, Reviewing
    <3>6. Answering(r)'
      BY <1>1, <2>1, <2>8, StillUnrecorded DEF Answering
    <3>7. QED
      BY <3>1, <3>2, <3>3, <3>4, <3>5, <3>6 DEF RequestInv
  <2> DEFINE taken == {<<"audit", owner(s), entry.seq>>}
  <2>12. Claims(staged'[r].tables) \subseteq Claims(staged[r].tables) \cup taken
    <3> DEFINE z == Txn(R, E, V, L, NoEntry, S, K)
    <3>a. /\ y.tables.responses = z.tables.responses
          /\ y.tables.evaluations = z.tables.evaluations
          /\ y.tables.reviews = z.tables.reviews
          /\ y.tables.audit_log = A
      BY TxnParts DEF y
    <3>b. taken = {<<"audit", y.tables.audit_log[i].tenant, y.tables.audit_log[i].row.seq>> : i \in DOMAIN y.tables.audit_log}
      BY <3>a, <2>10
    <3>1. Claims(y.tables) \subseteq Claims(z.tables) \cup taken
      <4> HIDE DEF z, taken
      <4>1. QED
        BY <3>a, <3>b DEF Claims
    <3>2. QED
      BY <2>5, <2>7, <3>1
  <2>13. taken \cap Claims(db) = {} /\ \A q \in Requests \ {r} : taken \cap Claims(staged[q].tables) = {}
    <3>1. \A X \in {db} \cup { staged[q].tables : q \in Requests \ {r} } :
              ~ \E i \in DOMAIN X.audit_log :
                  X.audit_log[i].tenant = owner(s) /\ X.audit_log[i].row.seq = entry.seq
      <4>1. \A X \in {db} \cup { staged[q].tables : q \in Requests \ {r} } :
                ~SeqTaken(X, s, entry.seq) /\ X.audit_log \in Seq([tenant : Tenants, row : Log!Row])
        BY <1>1, <1>4 DEF DatabaseInv, TablesInv, RequestInv, IsTransaction, IsTables
      <4>2. QED
        BY <4>1 DEF SeqTaken, ToSet
    <3>2. QED
      BY <3>1, ClaimsMean
  <2> HIDE DEF taken
  <2>14. QED
    BY <2>1, <2>7, <2>11, <2>12, <2>13, QuietStep
<1>5. QED
  BY <1>3, <1>4

------------------------------------------------------------------------------
(* Answers, timeouts and crashes                                            *)

(* Sending the answer keeps the invariant.                                  *)
LEMMA RespondStep ==
    ASSUME DatabaseInv, NEW r \in Requests, Respond(r)
    PROVE  DatabaseInv'
<1> DEFINE status == req[r].status
<1>1. req[r].pc = "respond" /\ UNCHANGED <<db, staged>>
      /\ req' = [req EXCEPT ![r] = Done(status)]
  BY DEF Respond
<1>2. /\ status \in Statuses /\ staged[r] = NoTransaction
      /\ status = "ok" => Recorded(r)
      /\ status \notin {"ok", "lost"} => ~Recorded(r)
  <2>1. req[r] \in Answered
    BY <1>1, Shape DEF DatabaseInv, RequestInv
  <2>2. QED
    BY <1>1, <2>1 DEF DatabaseInv, RequestInv, Answered, Answering, Closed
<1>3. /\ req'[r] = Done(status)
      /\ DOMAIN req' = Requests /\ DOMAIN staged' = Requests
      /\ \A q \in Requests \ {r} : req'[q] = req[q] /\ staged'[q] = staged[q]
  BY <1>1, OneRequestStep
<1>4. Recorded(r)' <=> Recorded(r)
  BY <1>1 DEF Recorded
<1>5. RequestInv(r)'
  <2>1. SUFFICES ASSUME NEW st, st = status
                 PROVE  RequestInv(r)'
    OBVIOUS
  <2>2. /\ st \in Statuses /\ req'[r] = [pc |-> "done", status |-> st]
        /\ staged'[r] = NoTransaction
        /\ st = "ok" => Recorded(r)'
        /\ st \notin {"ok", "lost"} => ~Recorded(r)'
    BY <1>1, <1>2, <1>3, <1>4, <2>1 DEF Done
  <2>3. QED
    BY <2>2, AnswerInv
<1>6. QED
  BY <1>1, <1>3, <1>5, KeylessStep

(* The rollback at the session's exit keeps the invariant.                  *)
LEMMA CloseSessionStep ==
    ASSUME DatabaseInv, NEW r \in Requests, CloseSession(r)
    PROVE  DatabaseInv'
<1>1. req[r].pc = "close" /\ Rollback(r, req[r].status)
  BY DEF CloseSession
<1>2. req[r].status \in Statuses /\ req[r].status # "ok" /\ ~Recorded(r)
  <2>1. req[r] \in Answered
    BY <1>1, Shape DEF DatabaseInv, RequestInv
  <2>2. QED
    BY <1>1, <2>1 DEF DatabaseInv, RequestInv, Answered, Answering
<1>3. SUFFICES ASSUME NEW st, st = req[r].status
               PROVE  DatabaseInv'
  OBVIOUS
<1>4. st \in Statuses /\ st # "ok" /\ Rollback(r, st)
  BY <1>1, <1>2, <1>3
<1>5. QED
  BY <1>2, <1>4, RollbackStep

(* A lock timeout keeps the invariant.                                      *)
LEMMA LockTimeoutStep ==
    ASSUME DatabaseInv, NEW r \in Requests, LockTimeout(r)
    PROVE  DatabaseInv'
<1>1. ~Recorded(r) /\ Rollback(r, "500 locked")
  BY DEF LockTimeout, DatabaseInv, RequestInv, Answering
<1>2. QED
  BY <1>1, RollbackStep DEF Statuses

(* The crash of a worker keeps the invariant: the transactions of its       *)
(* requests are gone, and so is the answer.                                 *)
LEMMA CrashStep ==
    ASSUME DatabaseInv, NEW w \in Workers, Crash(w)
    PROVE  DatabaseInv'
<1>0. SUFFICES ASSUME NEW lost, lost = { r \in InFlight : Worker(r) = w }
               PROVE  DatabaseInv'
  OBVIOUS
<1>1. /\ req' = [r \in Requests |-> IF r \in lost THEN Done("lost") ELSE req[r]]
      /\ staged' = [r \in Requests |-> IF r \in lost THEN NoTransaction ELSE staged[r]]
      /\ db' = db
  BY <1>0 DEF Crash
<1>2. DOMAIN req' = Requests /\ DOMAIN staged' = Requests
  BY <1>1
<1>3. \A q \in Requests : Recorded(q)' <=> Recorded(q)
  BY <1>1 DEF Recorded
<1>4. ASSUME NEW q \in Requests PROVE RequestInv(q)'
  <2>1. CASE q \in lost
    <3>1. req'[q] = [pc |-> "done", status |-> "lost"] /\ staged'[q] = NoTransaction
      BY <1>1, <2>1 DEF Done
    <3>2. "lost" \in Statuses /\ "done" \in {"respond", "done"}
      BY DEF Statuses
    <3>3. QED
      BY <3>1, <3>2, AnswerInv
  <2>2. CASE q \notin lost
    <3>1. req'[q] = req[q] /\ staged'[q] = staged[q]
      BY <1>1, <2>2
    <3>2. QED
      BY <1>1, <1>3, <3>1, OthersKeep, UnchangedGrows DEF DatabaseInv
  <2>3. QED
    BY <2>1, <2>2
<1>5. \A q \in Requests : Claims(staged'[q].tables) \subseteq Claims(staged[q].tables)
  BY <1>1, NoClaims
<1>6. KeysAreFree'
  BY <1>1, <1>5 DEF DatabaseInv, KeysAreFree
<1>7. TablesInv'
  BY <1>1, TablesUnchanged DEF DatabaseInv
<1>8. QED
  BY <1>2, <1>4, <1>6, <1>7 DEF DatabaseInv

(* A stuttering step keeps the invariant.                                   *)
LEMMA StutterStep ==
    ASSUME DatabaseInv, UNCHANGED vars
    PROVE  DatabaseInv'
<1>1. db' = db /\ req' = req /\ staged' = staged
  BY DEF vars
<1>2. \A q \in Requests : Recorded(q)' <=> Recorded(q)
  BY <1>1 DEF Recorded
<1>3. \A q \in Requests : RequestInv(q)'
  BY <1>1, <1>2, OthersKeep, UnchangedGrows DEF DatabaseInv
<1>4. KeysAreFree'
  BY <1>1 DEF DatabaseInv, KeysAreFree
<1>5. TablesInv'
  BY <1>1, TablesUnchanged DEF DatabaseInv
<1>6. QED
  BY <1>1, <1>3, <1>4, <1>5 DEF DatabaseInv
==============================================================================
