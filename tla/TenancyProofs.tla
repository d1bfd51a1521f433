---------------------------- MODULE TenancyProofs ----------------------------
(***************************************************************************)
(* Tenancy for every set of users, interviews and questions: the rows form *)
(* a forest under the org_admins (TenancyInv), from which isolation, the   *)
(* content of the chains and the reach of the queues follow.               *)
(***************************************************************************)
EXTENDS Tenancy, FiniteSetTheorems, TLAPS

(* Ids are unique, and every tenant is an org_admin who is its own tenant. *)
UsersOK ==
    /\ users \subseteq User
    /\ \A u, v \in users : u.id = v.id => u = v
    /\ \A u \in users : u.role = "org_admin" => u.tenant_admin_id = u.id
    /\ \A u \in users : \E a \in users :
          a.id = u.tenant_admin_id /\ a.role = "org_admin"

InterviewsOK ==
    /\ interviews \subseteq Interview
    /\ \A x, y \in interviews : x.id = y.id => x = y
    /\ \A x \in interviews : \E a \in users :
          a.id = x.owner_admin_id /\ a.role = "org_admin"

QuestionsOK ==
    /\ questions \subseteq Question
    /\ \A q, s \in questions : q.id = s.id => q = s
    /\ \A q \in questions : \E x \in interviews : x.id = q.interview_id

(* An assigned candidate and the interview are of one tenant. *)
AssignmentsOK ==
    \A a \in assignments : \E x \in interviews, k \in users :
        /\ a = [interview_id |-> x.id, candidate_id |-> k.id]
        /\ k.role = "candidate"
        /\ k.tenant_admin_id = x.owner_admin_id

(* So are the candidate who answered and the interview of the question.    *)
ResponsesOK ==
    \A r \in responses : \E q \in questions, x \in interviews, k \in users :
        /\ r = [question_id |-> q.id, candidate_id |-> k.id]
        /\ x.id = q.interview_id
        /\ k.role = "candidate"
        /\ k.tenant_admin_id = x.owner_admin_id

(* There are finitely many evaluations: versions are counted.              *)
RecordsOK ==
    /\ evaluations \subseteq Evaluation /\ reviews \subseteq Review
    /\ audit_log \subseteq Entry
    /\ IsFiniteSet(evaluations)
    /\ \A e \in evaluations \cup reviews : e.response \in responses

TenancyInv ==
    /\ UsersOK /\ InterviewsOK /\ QuestionsOK /\ AssignmentsOK
    /\ ResponsesOK /\ RecordsOK /\ ChainBelongsToTenant

----------------------------------------------------------------------------
(* What each request leaves alone. *)
LEMMA Frames ==
    /\ \A u : RegisterAdmin(u) \/ (\E a : RegisterCandidate(u, a)) =>
          UNCHANGED <<interviews, questions, assignments, responses, evaluations,
                      reviews, audit_log>>
    /\ \A p, i, qs : CreateInterview(p, i, qs) =>
          UNCHANGED <<users, assignments, responses, evaluations, reviews, audit_log>>
    /\ \A p, i, k : Assign(p, i, k) =>
          UNCHANGED <<users, interviews, questions, responses, evaluations,
                      reviews, audit_log>>
    /\ \A p, i, q : SubmitUnscored(p, i, q) =>
          UNCHANGED <<users, interviews, questions, assignments, evaluations,
                      reviews, audit_log>>
    /\ \A p, i, q, v : Submit(p, i, q, v) =>
          UNCHANGED <<users, interviews, questions, assignments, reviews>>
    /\ \A p, r, v : Reevaluate(p, r, v) =>
          UNCHANGED <<users, interviews, questions, assignments, responses, reviews>>
    /\ \A p, e : SubmitReview(p, e) =>
          UNCHANGED <<users, interviews, questions, assignments, responses, evaluations>>
<1>1. \A u : RegisterAdmin(u) \/ (\E a : RegisterCandidate(u, a)) =>
          UNCHANGED <<interviews, questions, assignments, responses, evaluations,
                      reviews, audit_log>>
  BY DEF RegisterAdmin, RegisterCandidate
<1>2. \A p, i, qs : CreateInterview(p, i, qs) =>
          UNCHANGED <<users, assignments, responses, evaluations, reviews, audit_log>>
  BY DEF CreateInterview
<1>3. \A p, i, k : Assign(p, i, k) =>
          UNCHANGED <<users, interviews, questions, responses, evaluations,
                      reviews, audit_log>>
  BY DEF Assign
<1>4. \A p, i, q : SubmitUnscored(p, i, q) =>
          UNCHANGED <<users, interviews, questions, assignments, evaluations,
                      reviews, audit_log>>
  BY DEF SubmitUnscored
<1>5. \A p, i, q, v : Submit(p, i, q, v) =>
          UNCHANGED <<users, interviews, questions, assignments, reviews>>
  <2> SUFFICES ASSUME NEW p, NEW i, NEW q, NEW v, Submit(p, i, q, v)
               PROVE  UNCHANGED <<users, interviews, questions, assignments, reviews>>
    OBVIOUS
  <2>1. PICK x : EvaluateResponse([question_id |-> q, candidate_id |-> p.id],
                                  ChainOfSubmit(p, x), p.id, v)
    BY DEF Submit
  <2>2. QED
    BY <2>1 DEF EvaluateResponse
<1>6. \A p, r, v : Reevaluate(p, r, v) =>
          UNCHANGED <<users, interviews, questions, assignments, responses, reviews>>
  BY DEF Reevaluate, EvaluateResponse
<1>7. \A p, e : SubmitReview(p, e) =>
          UNCHANGED <<users, interviews, questions, assignments, responses, evaluations>>
  BY DEF SubmitReview
<1>8. QED
  BY <1>1, <1>2, <1>3, <1>4, <1>5, <1>6, <1>7

(* Which requests write which table. *)
LEMMA UsersWriters ==
    ASSUME [TenancyNext]_tvars
    PROVE  \/ users' = users
           \/ \E u \in Users : RegisterAdmin(u)
           \/ \E u, admin \in Users : RegisterCandidate(u, admin)
  BY Frames DEF TenancyNext, tvars

LEMMA SetupWriters ==
    ASSUME [TenancyNext]_tvars
    PROVE  \/ interviews' = interviews /\ questions' = questions
           \/ \E p \in users, i \in Interviews, qs \in (SUBSET Questions) \ {{}} :
                CreateInterview(p, i, qs)
  BY Frames DEF TenancyNext, tvars

LEMMA AssignmentsWriters ==
    ASSUME [TenancyNext]_tvars
    PROVE  \/ assignments' = assignments
           \/ \E p \in users, i \in Interviews, k \in Users : Assign(p, i, k)
  BY Frames DEF TenancyNext, tvars

LEMMA ResponsesWriters ==
    ASSUME [TenancyNext]_tvars
    PROVE  \/ responses' = responses
           \/ \E p \in users, i \in Interviews, q \in Questions :
                /\ Answerable(p, i, q)
                /\ responses' = responses
                       \cup {[question_id |-> q, candidate_id |-> p.id]}
  BY Frames DEF TenancyNext, tvars, Submit, SubmitUnscored

LEMMA RecordWriters ==
    ASSUME [TenancyNext]_tvars
    PROVE  \/ UNCHANGED <<evaluations, reviews, audit_log>>
           \/ \E p \in users, i \in Interviews, q \in Questions, v \in Verdicts :
                Submit(p, i, q, v)
           \/ \E p \in users, r \in responses, v \in Verdicts : Reevaluate(p, r, v)
           \/ \E p \in users, e \in evaluations : SubmitReview(p, e)
  BY Frames DEF TenancyNext, tvars

(* No request removes a row; evaluations only stop being current. *)
LEMMA RowsStay ==
    ASSUME [TenancyNext]_tvars
    PROVE  /\ users \subseteq users' /\ interviews \subseteq interviews'
           /\ questions \subseteq questions' /\ assignments \subseteq assignments'
           /\ responses \subseteq responses' /\ audit_log \subseteq audit_log'
<1>1. users \subseteq users'
  BY UsersWriters DEF RegisterAdmin, RegisterCandidate
<1>2. interviews \subseteq interviews' /\ questions \subseteq questions'
  BY SetupWriters DEF CreateInterview
<1>3. assignments \subseteq assignments'
  BY AssignmentsWriters DEF Assign
<1>4. responses \subseteq responses'
  BY ResponsesWriters
<1>5. audit_log \subseteq audit_log'
  <2>1. \A p, i, q, v : Submit(p, i, q, v) => audit_log \subseteq audit_log'
    BY DEF Submit, EvaluateResponse
  <2>2. \A p, r, v : Reevaluate(p, r, v) => audit_log \subseteq audit_log'
    BY DEF Reevaluate, EvaluateResponse
  <2>3. \A p, e : SubmitReview(p, e) => audit_log \subseteq audit_log'
    BY DEF SubmitReview
  <2>4. QED
    BY <2>1, <2>2, <2>3, RecordWriters
<1>6. QED
  BY <1>1, <1>2, <1>3, <1>4, <1>5

----------------------------------------------------------------------------
(* The invariant is inductive, one table at a time. *)
LEMMA UsersStep ==
    ASSUME UsersOK, [TenancyNext]_tvars
    PROVE  UsersOK'
<1>1. CASE users' = users
  BY <1>1 DEF UsersOK
<1>2. ASSUME NEW u \in Users, RegisterAdmin(u)
      PROVE  UsersOK'
  <2> DEFINE new == [id |-> u, role |-> "org_admin", tenant_admin_id |-> u]
  <2>1. new \in User /\ new.id = u /\ new.role = "org_admin" /\ new.tenant_admin_id = u
    BY DEF User
  <2>2. users' = users \cup {new} /\ \A x \in users : x.id # u
    BY <1>2 DEF RegisterAdmin
  <2> HIDE DEF new
  <2>3. QED
    BY <2>1, <2>2 DEF UsersOK
<1>3. ASSUME NEW u \in Users, NEW admin \in Users, RegisterCandidate(u, admin)
      PROVE  UsersOK'
  <2> DEFINE new == [id |-> u, role |-> "candidate", tenant_admin_id |-> admin]
  <2>1. new \in User /\ new.id = u /\ new.role = "candidate" /\ new.tenant_admin_id = admin
    BY DEF User
  <2>2. /\ users' = users \cup {new} /\ \A x \in users : x.id # u
        /\ \E x \in users : x.id = admin /\ x.role = "org_admin"
    BY <1>3 DEF RegisterCandidate
  <2> HIDE DEF new
  <2>3. QED
    BY <2>1, <2>2 DEF UsersOK
<1>4. QED
  BY <1>1, <1>2, <1>3, UsersWriters

LEMMA SetupStep ==
    ASSUME UsersOK, InterviewsOK, QuestionsOK, [TenancyNext]_tvars
    PROVE  InterviewsOK' /\ QuestionsOK'
<1>1. users \subseteq users'
  BY RowsStay
<1>2. CASE interviews' = interviews /\ questions' = questions
  BY <1>1, <1>2 DEF InterviewsOK, QuestionsOK
<1>3. ASSUME NEW p \in users, NEW i \in Interviews, NEW qs \in SUBSET Questions,
             CreateInterview(p, i, qs)
      PROVE  InterviewsOK' /\ QuestionsOK'
  <2> DEFINE new  == [id |-> i, owner_admin_id |-> p.id]
             news == { [id |-> q, interview_id |-> i] : q \in qs }
  <2>1. new \in Interview /\ new.id = i /\ new.owner_admin_id = p.id
    BY DEF Interview, UsersOK, User
  <2>2. \A q \in news : /\ q \in Question /\ q.id \in qs /\ q.interview_id = i
    BY DEF Question
  <2>3. \A q, s \in news : q.id = s.id => q = s
    OBVIOUS
  <2>4. /\ p.role = "org_admin"
        /\ \A x \in interviews : x.id # i
        /\ \A x \in questions : x.id \notin qs
        /\ interviews' = interviews \cup {new}
        /\ questions' = questions \cup news
    BY <1>3 DEF CreateInterview
  <2> HIDE DEF new, news
  <2>5. InterviewsOK'
    BY <1>1, <2>1, <2>4 DEF InterviewsOK
  <2>6. QuestionsOK'
    BY <2>1, <2>2, <2>3, <2>4 DEF QuestionsOK
  <2>7. QED
    BY <2>5, <2>6
<1>4. QED
  BY <1>2, <1>3, SetupWriters

LEMMA AssignmentsStep ==
    ASSUME UsersOK, InterviewsOK, AssignmentsOK, [TenancyNext]_tvars
    PROVE  AssignmentsOK'
<1>1. users \subseteq users' /\ interviews \subseteq interviews'
  BY RowsStay
<1>2. CASE assignments' = assignments
  BY <1>1, <1>2 DEF AssignmentsOK
<1>3. ASSUME NEW p \in users, NEW i \in Interviews, NEW k \in Users, Assign(p, i, k)
      PROVE  AssignmentsOK'
  <2>1. PICK x \in interviews : x.id = i /\ x.owner_admin_id = p.id
    BY <1>3 DEF Assign, get_interview_for_admin, list_interviews_for_admin
  <2>2. PICK u \in users : u.id = k /\ u.role = "candidate" /\ u.tenant_admin_id = p.id
    BY <1>3 DEF Assign, get_candidate_for_admin
  <2>3. assignments' = assignments \cup {[interview_id |-> i, candidate_id |-> k]}
    BY <1>3 DEF Assign
  <2>4. QED
    BY <1>1, <2>1, <2>2, <2>3 DEF AssignmentsOK
<1>4. QED
  BY <1>2, <1>3, AssignmentsWriters

(* What the scope checks of submit_response establish. *)
LEMMA AnswerableInTenant ==
    ASSUME UsersOK, InterviewsOK, QuestionsOK, AssignmentsOK,
           NEW p \in users, NEW i, NEW q, Answerable(p, i, q)
    PROVE  \E x \in interviews, s \in questions :
              /\ get_interview_for_candidate(i, p.id) = {x}
              /\ x.id = i
              /\ s.id = q
              /\ s.interview_id = i
              /\ p.role = "candidate"
              /\ p.tenant_admin_id = x.owner_admin_id
<1>1. PICK x \in interviews :
           x.id = i /\ [interview_id |-> x.id, candidate_id |-> p.id] \in assignments
  BY DEF Answerable, get_interview_for_candidate, list_interviews_for_candidate
<1>2. PICK s \in questions : s.id = q /\ s.interview_id = i
  BY DEF Answerable, get_question_in_interview
<1>3. get_interview_for_candidate(i, p.id) = {x}
  BY <1>1 DEF get_interview_for_candidate, list_interviews_for_candidate, InterviewsOK
<1>4. p.tenant_admin_id = x.owner_admin_id
  <2>1. PICK y \in interviews, k \in users :
             /\ [interview_id |-> x.id, candidate_id |-> p.id]
                  = [interview_id |-> y.id, candidate_id |-> k.id]
             /\ k.tenant_admin_id = y.owner_admin_id
    BY <1>1 DEF AssignmentsOK
  <2>2. x.id = y.id /\ p.id = k.id
    BY <2>1
  <2>3. QED
    BY <2>1, <2>2 DEF InterviewsOK, UsersOK
<1>5. QED
  BY <1>1, <1>2, <1>3, <1>4 DEF Answerable

LEMMA ResponsesStep ==
    ASSUME UsersOK, InterviewsOK, QuestionsOK, AssignmentsOK, ResponsesOK,
           [TenancyNext]_tvars
    PROVE  ResponsesOK'
<1>1. users \subseteq users' /\ interviews \subseteq interviews' /\ questions \subseteq questions'
  BY RowsStay
<1>2. CASE responses' = responses
  BY <1>1, <1>2 DEF ResponsesOK
<1>3. ASSUME NEW p \in users, NEW i \in Interviews, NEW q \in Questions,
             Answerable(p, i, q),
             responses' = responses \cup {[question_id |-> q, candidate_id |-> p.id]}
      PROVE  ResponsesOK'
  <2>1. PICK x \in interviews, s \in questions :
             /\ x.id = i /\ s.id = q /\ s.interview_id = i /\ p.role = "candidate"
             /\ p.tenant_admin_id = x.owner_admin_id
    BY <1>3, AnswerableInTenant
  <2>2. QED
    BY <1>1, <1>3, <2>1 DEF ResponsesOK
<1>4. QED
  BY <1>2, <1>3, ResponsesWriters

(* A response in the reach of an org_admin is of that tenant: the interview*)
(* it belongs to is unique, and its candidate and org_admin agree on it.   *)
LEMMA InterviewIsUnique ==
    ASSUME InterviewsOK, QuestionsOK, NEW r,
           NEW x \in InterviewsOf(r), NEW y \in InterviewsOf(r)
    PROVE  x = y
  BY DEF InterviewsOf, InterviewsOK, QuestionsOK

LEMMA ResponseInTenant ==
    ASSUME UsersOK, InterviewsOK, QuestionsOK, ResponsesOK, NEW r \in responses
    PROVE  /\ r \in Response
           /\ \E x \in interviews, s \in questions, k \in users :
                /\ InterviewsOf(r) = {x}
                /\ s.id = r.question_id /\ s.interview_id = x.id
                /\ k.id = r.candidate_id /\ k.role = "candidate"
                /\ k.tenant_admin_id = x.owner_admin_id
<1>1. PICK s \in questions, x \in interviews, k \in users :
           /\ r = [question_id |-> s.id, candidate_id |-> k.id]
           /\ x.id = s.interview_id
           /\ k.role = "candidate"
           /\ k.tenant_admin_id = x.owner_admin_id
  BY DEF ResponsesOK
<1>2. s.id \in Questions /\ k.id \in Users
  BY DEF QuestionsOK, Question, UsersOK, User
<1>3. r.question_id = s.id /\ r.candidate_id = k.id /\ r \in Response
  BY <1>1, <1>2 DEF Response
<1>4. x \in InterviewsOf(r)
  BY <1>1, <1>3 DEF InterviewsOf
<1>5. InterviewsOf(r) = {x}
  BY <1>4, InterviewIsUnique
<1>6. QED
  BY <1>1, <1>3, <1>5

(* What evaluate_response writes. *)
LEMMA EvaluationWritten ==
    ASSUME RecordsOK, QuestionsOK, NEW r \in Response, NEW t \in Users, NEW a \in Users,
           NEW v \in Verdicts, NEW s \in questions, s.id = r.question_id,
           EvaluateResponse(r, t, a, v)
    PROVE  \E entry \in Entry :
              /\ audit_log' = audit_log \cup {entry}
              /\ entry.response = r /\ entry.tenant_admin_id = t /\ entry.actor_id = a
              /\ entry.interview_id = s.interview_id
              /\ evaluations' \subseteq Evaluation /\ IsFiniteSet(evaluations')
              /\ \A e \in evaluations' :
                    \/ e.response = r /\ e.version = entry.version
                    \/ \E f \in evaluations :
                          e.response = f.response /\ e.version = f.version
<1> DEFINE previous == evaluations_of({r})
           n        == Cardinality(previous) + 1
           old      == { [e EXCEPT !.is_current = FALSE] : e \in previous }
           new      == [response |-> r, version |-> n, is_current |-> TRUE, verdict |-> v]
           entry    == [tenant_admin_id |-> t, interview_id |-> s.interview_id,
                        actor_id |-> a, event |-> "evaluation",
                        response |-> r, version |-> n]
<1>1. previous \subseteq evaluations /\ IsFiniteSet(previous)
  BY FS_Subset DEF RecordsOK, evaluations_of
<1>2. n \in 1..MaxVersions
  <2>1. Cardinality(previous) \in Nat
    BY <1>1, FS_CardinalityType
  <2>2. n <= MaxVersions
    BY DEF EvaluateResponse
  <2>3. QED
    BY <2>1, <2>2, TenancyAssumption
<1>3. s.interview_id = (CHOOSE q \in questions : q.id = r.question_id).interview_id
  BY DEF QuestionsOK
<1>4. /\ evaluations' = (evaluations \ previous) \cup old \cup {new}
      /\ audit_log' = audit_log \cup {entry}
  BY <1>3 DEF EvaluateResponse
<1>5. entry \in Entry /\ new \in Evaluation
  BY <1>2 DEF Entry, Evaluation, QuestionsOK, Question
<1>6. \A e \in old : /\ e \in Evaluation
                     /\ \E f \in evaluations : e.response = f.response /\ e.version = f.version
  BY <1>1 DEF RecordsOK, Evaluation
<1>7. IsFiniteSet(evaluations')
  <2>1. IsFiniteSet(old)
    <3> DEFINE demote == [e \in previous |-> [e EXCEPT !.is_current = FALSE]]
    <3>1. demote \in Surjection(previous, old)
      BY DEF Surjection
    <3>2. QED
      BY <1>1, <3>1, FS_Surjection
  <2>2. IsFiniteSet(evaluations \ previous)
    BY FS_Difference DEF RecordsOK
  <2>3. IsFiniteSet({new})
    BY FS_Singleton
  <2>4. QED
    BY <1>4, <2>1, <2>2, <2>3, FS_Union
<1>8. /\ new.response = r /\ new.version = n
      /\ entry.response = r /\ entry.version = n /\ entry.tenant_admin_id = t
      /\ entry.actor_id = a /\ entry.interview_id = s.interview_id
  OBVIOUS
<1> HIDE DEF new, old, entry, n, previous
<1>9. QED
  BY <1>4, <1>5, <1>6, <1>7, <1>8 DEF RecordsOK

(* Every request that writes an evaluation or a review writes one entry, on*)
(* the chain of the response's tenant, that describes it.                  *)
RecordedBy(entry) ==
    /\ audit_log' = audit_log \cup {entry}
    /\ [id |-> entry.interview_id, owner_admin_id |-> entry.tenant_admin_id]
          \in InterviewsOf(entry.response)
    /\ \E u \in users : u.id = entry.actor_id
                         /\ u.tenant_admin_id = entry.tenant_admin_id
    /\ entry.response \in responses'
    /\ evaluations' \subseteq Evaluation /\ IsFiniteSet(evaluations')
    /\ reviews' \subseteq Review
    /\ \A e \in evaluations' \cup reviews' :
          \/ e.response = entry.response /\ e.version = entry.version
          \/ \E f \in evaluations \cup reviews :
                e.response = f.response /\ e.version = f.version

RecordedStep == \E entry \in Entry : RecordedBy(entry)

LEMMA InterviewRecord ==
    ASSUME NEW x \in Interview
    PROVE  x = [id |-> x.id, owner_admin_id |-> x.owner_admin_id]
  BY DEF Interview

LEMMA SubmitRecords ==
    ASSUME TenancyInv, NEW p \in users, NEW i \in Interviews, NEW q \in Questions,
           NEW v \in Verdicts, Submit(p, i, q, v)
    PROVE  RecordedStep
<1> DEFINE r == [question_id |-> q, candidate_id |-> p.id]
<1>1. PICK x \in interviews, s \in questions :
           /\ get_interview_for_candidate(i, p.id) = {x}
           /\ x.id = i /\ s.id = q /\ s.interview_id = i
           /\ p.tenant_admin_id = x.owner_admin_id
  BY AnswerableInTenant DEF TenancyInv, Submit
<1>2. EvaluateResponse(r, x.owner_admin_id, p.id, v)
  BY <1>1 DEF Submit, ChainOfSubmit
<1>3. r \in Response /\ r.question_id = s.id /\ r \in responses' /\ reviews' = reviews
  BY <1>1, <1>2 DEF Response, TenancyInv, UsersOK, User, Submit, EvaluateResponse
<1>4. x.owner_admin_id \in Users /\ p.id \in Users /\ x \in Interview
  BY DEF TenancyInv, InterviewsOK, Interview, UsersOK, User
<1>5. [id |-> s.interview_id, owner_admin_id |-> x.owner_admin_id] \in InterviewsOf(r)
  BY <1>1, <1>3, <1>4, InterviewRecord DEF InterviewsOf
<1> HIDE DEF r
<1>6. PICK entry \in Entry :
           /\ audit_log' = audit_log \cup {entry}
           /\ entry.response = r /\ entry.tenant_admin_id = x.owner_admin_id
           /\ entry.actor_id = p.id /\ entry.interview_id = s.interview_id
           /\ evaluations' \subseteq Evaluation /\ IsFiniteSet(evaluations')
           /\ \A e \in evaluations' :
                 \/ e.response = r /\ e.version = entry.version
                 \/ \E f \in evaluations :
                       e.response = f.response /\ e.version = f.version
  BY <1>2, <1>3, <1>4, EvaluationWritten DEF TenancyInv
<1>7. reviews \subseteq Review
  BY DEF TenancyInv, RecordsOK
<1>8. \A e \in evaluations' \cup reviews' :
          \/ e.response = entry.response /\ e.version = entry.version
          \/ \E f \in evaluations \cup reviews :
                e.response = f.response /\ e.version = f.version
  BY <1>3, <1>6
<1>9. [id |-> entry.interview_id, owner_admin_id |-> entry.tenant_admin_id]
        \in InterviewsOf(entry.response)
  BY <1>5, <1>6
<1>10. RecordedBy(entry)
  BY <1>1, <1>3, <1>6, <1>7, <1>8, <1>9 DEF RecordedBy
<1>11. QED
  BY <1>10 DEF RecordedStep

LEMMA ReevaluateRecords ==
    ASSUME TenancyInv, NEW p \in users, NEW r \in responses, NEW v \in Verdicts,
           Reevaluate(p, r, v)
    PROVE  RecordedStep
<1>1. PICK x \in interviews, s \in questions :
           InterviewsOf(r) = {x} /\ s.id = r.question_id /\ s.interview_id = x.id
  BY ResponseInTenant DEF TenancyInv
<1>2. x.owner_admin_id = p.id /\ p.tenant_admin_id = p.id
  BY <1>1 DEF Reevaluate, responses_for_admin, TenancyInv, UsersOK
<1>3. EvaluateResponse(r, p.tenant_admin_id, p.id, v)
  BY DEF Reevaluate
<1>4. p.id \in Users /\ r \in Response /\ x \in Interview
  BY ResponseInTenant DEF TenancyInv, UsersOK, User, InterviewsOK
<1>5. [id |-> s.interview_id, owner_admin_id |-> p.id] \in InterviewsOf(r)
  BY <1>1, <1>2, <1>4, InterviewRecord
<1>6. PICK entry \in Entry :
           /\ audit_log' = audit_log \cup {entry}
           /\ entry.response = r /\ entry.tenant_admin_id = p.id
           /\ entry.actor_id = p.id /\ entry.interview_id = s.interview_id
           /\ evaluations' \subseteq Evaluation /\ IsFiniteSet(evaluations')
           /\ \A e \in evaluations' :
                 \/ e.response = r /\ e.version = entry.version
                 \/ \E f \in evaluations :
                       e.response = f.response /\ e.version = f.version
  BY <1>1, <1>2, <1>3, <1>4, EvaluationWritten DEF TenancyInv
<1>7. r \in responses' /\ reviews' = reviews
  BY DEF Reevaluate, EvaluateResponse
<1>8. reviews \subseteq Review
  BY DEF TenancyInv, RecordsOK
<1>9. RecordedBy(entry)
  BY <1>2, <1>5, <1>6, <1>7, <1>8 DEF RecordedBy
<1>10. QED
  BY <1>9 DEF RecordedStep

LEMMA ReviewRecords ==
    ASSUME TenancyInv, NEW p \in users, NEW e \in evaluations, SubmitReview(p, e)
    PROVE  RecordedStep
<1>1. e.response \in responses /\ e \in Evaluation
  BY DEF TenancyInv, RecordsOK
<1>2. PICK x \in interviews : InterviewsOf(e.response) = {x}
  BY <1>1, ResponseInTenant DEF TenancyInv
<1>3. x.owner_admin_id = p.id /\ p.tenant_admin_id = p.id
  BY <1>2 DEF SubmitReview, evaluations_for_admin, evaluations_of, responses_for_admin,
     TenancyInv, UsersOK
<1>4. p.id \in Users /\ x \in Interview
  BY DEF TenancyInv, UsersOK, User, InterviewsOK
<1> DEFINE entry == [tenant_admin_id |-> p.tenant_admin_id, interview_id |-> x.id,
                     actor_id |-> p.id, event |-> "human_review",
                     response |-> e.response, version |-> e.version]
           new   == [response |-> e.response, version |-> e.version, reviewer_id |-> p.id]
<1>5. /\ audit_log' = audit_log \cup {entry}
      /\ reviews' = reviews \cup {new}
      /\ evaluations' = evaluations /\ responses' = responses
  BY <1>2 DEF SubmitReview
<1>6. entry \in Entry /\ new \in Review
  BY <1>1, <1>3, <1>4 DEF Entry, Review, Evaluation, Interview
<1>7. /\ entry.response = e.response /\ entry.version = e.version
      /\ entry.tenant_admin_id = p.id /\ entry.actor_id = p.id /\ entry.interview_id = x.id
      /\ new.response = e.response /\ new.version = e.version
  BY <1>3
<1>8. [id |-> x.id, owner_admin_id |-> p.id] \in InterviewsOf(e.response)
  BY <1>2, <1>3, <1>4, InterviewRecord
<1> HIDE DEF entry, new
<1>9. RecordedBy(entry)
  BY <1>1, <1>3, <1>5, <1>6, <1>7, <1>8 DEF RecordedBy, TenancyInv, RecordsOK
<1>10. QED
  BY <1>6, <1>9 DEF RecordedStep

LEMMA RecordsStep ==
    ASSUME TenancyInv, [TenancyNext]_tvars
    PROVE  RecordsOK' /\ ChainBelongsToTenant'
<1>1. /\ users \subseteq users' /\ interviews \subseteq interviews'
      /\ questions \subseteq questions' /\ responses \subseteq responses'
  BY RowsStay
<1>2. \A r : InterviewsOf(r) \subseteq InterviewsOf(r)'
  BY <1>1 DEF InterviewsOf
<1>3. CASE UNCHANGED <<evaluations, reviews, audit_log>>
  BY <1>1, <1>2, <1>3 DEF TenancyInv, RecordsOK, ChainBelongsToTenant
<1>4. CASE RecordedStep
  <2>1. PICK entry \in Entry : RecordedBy(entry)
    BY <1>4 DEF RecordedStep
  <2>2. RecordsOK'
    BY <1>1, <2>1 DEF RecordedBy, TenancyInv, RecordsOK
  <2>3. ChainBelongsToTenant'
    BY <1>1, <1>2, <2>1 DEF RecordedBy, TenancyInv, ChainBelongsToTenant
  <2>4. QED
    BY <2>2, <2>3
<1>5. QED
  BY <1>3, <1>4, RecordWriters, SubmitRecords, ReevaluateRecords, ReviewRecords

LEMMA InductiveStep ==
    ASSUME TenancyInv, [TenancyNext]_tvars
    PROVE  TenancyInv'
  BY UsersStep, SetupStep, AssignmentsStep, ResponsesStep, RecordsStep DEF TenancyInv

LEMMA Initially == TenancyInit => TenancyInv
  BY FS_EmptySet DEF TenancyInit, TenancyInv, UsersOK, InterviewsOK, QuestionsOK,
     AssignmentsOK, ResponsesOK, RecordsOK, ChainBelongsToTenant

THEOREM Invariance == TenancySpec => []TenancyInv
<1>1. TenancyInit => TenancyInv
  BY Initially
<1>2. TenancyInv /\ [TenancyNext]_tvars => TenancyInv'
  BY InductiveStep
<1>3. QED
  BY <1>1, <1>2, PTL DEF TenancySpec

----------------------------------------------------------------------------
(* Every row is well-formed: in particular the entries of a chain always   *)
(* name a user, an interview and a version that a request could name.      *)
THEOREM TypeCorrect == TenancySpec => []TenancyTypeOK
<1>1. TenancyInv => TenancyTypeOK
  <2> SUFFICES ASSUME TenancyInv PROVE TenancyTypeOK
    OBVIOUS
  <2>1. assignments \subseteq Assignment
    BY DEF TenancyInv, AssignmentsOK, Assignment, InterviewsOK, Interview, UsersOK, User
  <2>2. responses \subseteq Response
    BY ResponseInTenant DEF TenancyInv
  <2>3. QED
    BY <2>1, <2>2 DEF TenancyTypeOK, TenancyInv, UsersOK, InterviewsOK, QuestionsOK, RecordsOK
<1>2. QED
  BY <1>1, Invariance, PTL

(* Every audit entry is on the chain of the tenant that owns the response, *)
(* and every evaluation and review has one, whoever called.                *)
THEOREM ChainIsTheOwners == TenancySpec => []ChainBelongsToTenant
<1>1. TenancyInv => ChainBelongsToTenant
  BY DEF TenancyInv
<1>2. QED
  BY <1>1, Invariance, PTL

----------------------------------------------------------------------------
(* The tenant of a response, and of a row tagged with its table. *)
OfTenant(r, t) == \E x \in InterviewsOf(r) : x.owner_admin_id = t

InTenant(w, t) ==
    \/ \E x \in interviews : w = <<"interview", x>> /\ x.owner_admin_id = t
    \/ \E r \in responses : w = <<"response", r>> /\ OfTenant(r, t)
    \/ \E e \in evaluations : w = <<"evaluation", e>> /\ OfTenant(e.response, t)
    \/ \E v \in reviews : w = <<"review", v>> /\ OfTenant(v.response, t)
    \/ \E a \in audit_log : w = <<"entry", a>> /\ a.tenant_admin_id = t

LEMMA OneTenant ==
    ASSUME InterviewsOK, QuestionsOK, NEW w, NEW t, NEW u, InTenant(w, t), InTenant(w, u)
    PROVE  t = u
<1>1. \A r : OfTenant(r, t) /\ OfTenant(r, u) => t = u
  BY InterviewIsUnique DEF OfTenant
<1>2. QED
  BY <1>1 DEF InTenant

(* A candidate's own responses and assignments are of its own tenant. *)
LEMMA CandidateInTenant ==
    ASSUME TenancyInv, NEW p \in users
    PROVE  /\ \A r \in responses_for_candidate(p.id) : OfTenant(r, p.tenant_admin_id)
           /\ \A x \in list_interviews_for_candidate(p.id) :
                 x.owner_admin_id = p.tenant_admin_id
<1>1. ASSUME NEW r \in responses_for_candidate(p.id)
      PROVE  OfTenant(r, p.tenant_admin_id)
  <2>1. r \in responses /\ r.candidate_id = p.id
    BY DEF responses_for_candidate
  <2>2. PICK x \in interviews, k \in users :
             /\ InterviewsOf(r) = {x} /\ k.id = r.candidate_id
             /\ k.tenant_admin_id = x.owner_admin_id
    BY <2>1, ResponseInTenant DEF TenancyInv
  <2>3. k = p
    BY <2>1, <2>2 DEF TenancyInv, UsersOK
  <2>4. QED
    BY <2>2, <2>3 DEF OfTenant
<1>2. ASSUME NEW x \in list_interviews_for_candidate(p.id)
      PROVE  x.owner_admin_id = p.tenant_admin_id
  <2>1. x \in interviews /\ [interview_id |-> x.id, candidate_id |-> p.id] \in assignments
    BY DEF list_interviews_for_candidate
  <2>2. PICK y \in interviews, k \in users :
             /\ [interview_id |-> x.id, candidate_id |-> p.id]
                  = [interview_id |-> y.id, candidate_id |-> k.id]
             /\ k.tenant_admin_id = y.owner_admin_id
    BY <2>1 DEF TenancyInv, AssignmentsOK
  <2>3. x.id = y.id /\ p.id = k.id
    BY <2>2
  <2>4. QED
    BY <2>1, <2>2, <2>3 DEF TenancyInv, InterviewsOK, UsersOK
<1>3. QED
  BY <1>1, <1>2

LEMMA ViewInTenant ==
    ASSUME TenancyInv, NEW p \in users, NEW w \in View(p)
    PROVE  InTenant(w, p.tenant_admin_id)
<1>1. CASE p.role = "org_admin"
  <2>1. p.tenant_admin_id = p.id
    BY <1>1 DEF TenancyInv, UsersOK
  <2>2. w \in AdminView(p)
    BY <1>1 DEF View
  <2>3. QED
    BY <2>1, <2>2 DEF AdminView, Tagged, InTenant, OfTenant, list_interviews_for_admin,
       responses_for_admin, evaluations_for_admin, evaluations_of, reviews_of,
       entries_for_tenant
<1>2. CASE p.role # "org_admin"
  <2>1. w \in CandidateView(p)
    BY <1>2 DEF View
  <2>2. QED
    BY <2>1, CandidateInTenant DEF CandidateView, Tagged, InTenant, evaluations_of,
       reviews_of, responses_for_candidate, list_interviews_for_candidate
<1>3. QED
  BY <1>1, <1>2

(* No row is shown in two tenants, and a candidate is shown nothing that   *)
(* its org_admin is not: every query of repositories.py that reads for a   *)
(* caller stays in the caller's tenant (README C14).                       *)
THEOREM Isolation == TenancySpec => []TenantsIsolated
<1>1. ASSUME TenancyInv
      PROVE  TenantsIsolated
  <2>1. ASSUME NEW p \in users, NEW o \in users, p.tenant_admin_id # o.tenant_admin_id
        PROVE  View(p) \cap View(o) = {}
    <3>1. ASSUME NEW w \in View(p), w \in View(o)
          PROVE  FALSE
      <4>1. InTenant(w, p.tenant_admin_id) /\ InTenant(w, o.tenant_admin_id)
        BY <3>1, <1>1, ViewInTenant
      <4>2. QED
        BY <4>1, <2>1, <1>1, OneTenant DEF TenancyInv
    <3>2. QED
      BY <3>1
  <2>2. ASSUME NEW p \in users, NEW o \in users,
               p.role = "candidate", o.id = p.tenant_admin_id
        PROVE  View(p) \subseteq View(o)
    <3>1. o.role = "org_admin"
      BY <1>1, <2>2 DEF TenancyInv, UsersOK
    <3>2. View(p) = CandidateView(p) /\ View(o) = AdminView(o)
      BY <2>2, <3>1 DEF View
    <3>3. responses_for_candidate(p.id) \subseteq responses_for_admin(o.id)
      BY <1>1, <2>2, CandidateInTenant DEF OfTenant, responses_for_candidate,
         responses_for_admin
    <3>4. list_interviews_for_candidate(p.id) \subseteq list_interviews_for_admin(o.id)
      BY <1>1, <2>2, CandidateInTenant DEF list_interviews_for_candidate,
         list_interviews_for_admin
    <3>5. evaluations_of(responses_for_candidate(p.id)) \subseteq evaluations_for_admin(o.id)
      BY <3>3 DEF evaluations_of, evaluations_for_admin
    <3>6. QED
      BY <3>2, <3>3, <3>4, <3>5 DEF CandidateView, AdminView, Tagged
  <2>3. QED
    BY <2>1, <2>2 DEF TenantsIsolated
<1>2. QED
  BY <1>1, Invariance, PTL

----------------------------------------------------------------------------
(* Nothing is stranded: every response has its candidate and exactly one   *)
(* org_admin, who alone finds it in the review queue while it waits there. *)
THEOREM Reachability == TenancySpec => []NothingStranded
<1>1. ASSUME TenancyInv
      PROVE  NothingStranded
  <2>1. ASSUME NEW r \in responses
        PROVE  \E a \in users :
                  { u \in users : u.role = "org_admin" /\ r \in responses_for_admin(u.id) }
                     = {a}
    <3>1. PICK x \in interviews : InterviewsOf(r) = {x}
      BY <1>1, ResponseInTenant DEF TenancyInv
    <3>2. PICK a \in users : a.id = x.owner_admin_id /\ a.role = "org_admin"
      BY <1>1 DEF TenancyInv, InterviewsOK
    <3>3. \A u \in users : r \in responses_for_admin(u.id) <=> u = a
      BY <1>1, <3>1, <3>2 DEF responses_for_admin, TenancyInv, UsersOK
    <3>4. QED
      BY <3>2, <3>3
  <2>2. \A r \in responses : \E u \in users : u.id = r.candidate_id /\ u.role = "candidate"
    BY <1>1, ResponseInTenant DEF TenancyInv
  <2>3. ASSUME NEW r \in responses
        PROVE  Cardinality({ u \in users : u.role = "org_admin"
                                            /\ r \in responses_for_admin(u.id) }) = 1
    BY <2>1, FS_Singleton
  <2>4. ASSUME NEW e \in evaluations, e.is_current,
               e.verdict = "requires_human_review", reviews_of(e) = {}
        PROVE  Cardinality({ u \in users : u.role = "org_admin"
                                            /\ e \in pending_for_admin(u.id) }) = 1
    <3>1. e.response \in responses
      BY <1>1 DEF TenancyInv, RecordsOK
    <3>2. \A u \in users :
             e \in pending_for_admin(u.id) <=> e.response \in responses_for_admin(u.id)
      BY <2>4 DEF pending_for_admin, evaluations_for_admin, evaluations_of
    <3>3. { u \in users : u.role = "org_admin" /\ e \in pending_for_admin(u.id) }
            = { u \in users : u.role = "org_admin"
                               /\ e.response \in responses_for_admin(u.id) }
      BY <3>2
    <3>4. QED
      BY <2>3, <3>1, <3>3
  <2>5. QED
    BY <2>2, <2>3, <2>4 DEF NothingStranded
<1>2. QED
  BY <1>1, Invariance, PTL

(* A scope check made at the start of a request still holds at its commit. *)
THEOREM ChecksStayTrue == TenancySpec => ScopesOnlyGrow
<1> DEFINE Grow ==
        \A p \in users :
          /\ p \in users'
          /\ list_interviews_for_admin(p.id) \subseteq list_interviews_for_admin(p.id)'
          /\ list_interviews_for_candidate(p.id)
                \subseteq list_interviews_for_candidate(p.id)'
          /\ responses_for_admin(p.id) \subseteq responses_for_admin(p.id)'
          /\ entries_for_tenant(p.tenant_admin_id)
                \subseteq entries_for_tenant(p.tenant_admin_id)'
<1>1. ASSUME [TenancyNext]_tvars
      PROVE  Grow
  BY <1>1, RowsStay DEF list_interviews_for_admin, list_interviews_for_candidate,
     responses_for_admin, InterviewsOf, entries_for_tenant
<1>2. [TenancyNext]_tvars => [Grow]_tvars
  BY <1>1
<1>3. QED
  BY <1>2, PTL DEF TenancySpec, ScopesOnlyGrow
=============================================================================
