------------------------------- MODULE Tenancy -------------------------------
(***************************************************************************)
(* Who reaches which row: registration (routers/auth.py), interview setup  *)
(* (routers/interviews.py), answering (routers/candidate.py), and the      *)
(* scoped queries of repositories.py through which every one of them goes. *)
(* A definition may be preceded by a faulty variant of it, as in HashChain.*)
(*                                                                         *)
(* A request is one step.  What its scope checks read, users, owners,      *)
(* questions and assignments, is never updated or deleted, so a check that *)
(* passed stays true until the request commits (ScopesOnlyGrow); the races *)
(* on the rows that do change are those of EvaluationPipeline.  A caller is*)
(* the row of users its token names: get_principal requires the claims to  *)
(* equal the row's.                                                        *)
(***************************************************************************)
EXTENDS Integers, FiniteSets

CONSTANTS Users, Interviews, Questions,     \* ids
          Verdicts,                         \* values of Evaluation.verdict
          MaxVersions                       \* bound on re-evaluations

ASSUME TenancyAssumption ==
    /\ Verdicts \subseteq {"correct", "incorrect", "requires_human_review"}
    /\ MaxVersions \in Nat \ {0}

VARIABLES users, interviews, questions, assignments,    \* sets of rows
          responses, evaluations, reviews, audit_log

tvars == <<users, interviews, questions, assignments,
           responses, evaluations, reviews, audit_log>>

User       == [id : Users, role : {"org_admin", "candidate"}, tenant_admin_id : Users]
Interview  == [id : Interviews, owner_admin_id : Users]
Question   == [id : Questions, interview_id : Interviews]
Assignment == [interview_id : Interviews, candidate_id : Users]
Response   == [question_id : Questions, candidate_id : Users]
Evaluation == [response : Response, version : 1..MaxVersions,
               is_current : BOOLEAN, verdict : Verdicts]
Review     == [response : Response, version : 1..MaxVersions, reviewer_id : Users]
Entry      == [tenant_admin_id : Users, interview_id : Interviews, actor_id : Users,
               event : {"evaluation", "human_review"},
               response : Response, version : 1..MaxVersions]

TenancyTypeOK ==
    /\ users       \subseteq User
    /\ interviews  \subseteq Interview
    /\ questions   \subseteq Question
    /\ assignments \subseteq Assignment
    /\ responses   \subseteq Response
    /\ evaluations \subseteq Evaluation
    /\ reviews     \subseteq Review
    /\ audit_log   \subseteq Entry

TenancyInit ==
    /\ users = {} /\ interviews = {} /\ questions = {} /\ assignments = {}
    /\ responses = {} /\ evaluations = {} /\ reviews = {} /\ audit_log = {}

----------------------------------------------------------------------------
(* repositories.py: each query as the set of rows it returns               *)

AnyTenantsCandidate(k, a) == { u \in users : u.id = k /\ u.role = "candidate" }

get_candidate_for_admin(k, a) ==
    { u \in users : u.id = k /\ u.role = "candidate" /\ u.tenant_admin_id = a }

list_interviews_for_admin(a) == { x \in interviews : x.owner_admin_id = a }

get_interview_for_admin(i, a) == { x \in list_interviews_for_admin(a) : x.id = i }

list_interviews_for_candidate(k) ==
    { x \in interviews :
        [interview_id |-> x.id, candidate_id |-> k] \in assignments }

get_interview_for_candidate(i, k) ==
    { x \in list_interviews_for_candidate(k) : x.id = i }

get_question_in_interview(q, i) ==
    { x \in questions : x.id = q /\ x.interview_id = i }

get_existing_response(q, k) ==
    { r \in responses : r.question_id = q /\ r.candidate_id = k }

(* JOIN questions, JOIN interviews: the interviews the response belongs to *)
InterviewsOf(r) ==
    { x \in interviews : \E q \in questions :
        q.id = r.question_id /\ q.interview_id = x.id }

responses_for_admin(a) ==
    { r \in responses : \E x \in InterviewsOf(r) : x.owner_admin_id = a }

responses_for_candidate(k) == { r \in responses : r.candidate_id = k }

evaluations_of(rows) == { e \in evaluations : e.response \in rows }

(* get_evaluation_for_admin, over every evaluation_id                      *)
evaluations_for_admin(a) == evaluations_of(responses_for_admin(a))

reviews_of(e) == { v \in reviews : v.response = e.response /\ v.version = e.version }

PendingPerResponse(a) ==
    { e \in evaluations_for_admin(a) :
        /\ e.is_current
        /\ e.verdict = "requires_human_review"
        /\ \A v \in reviews : v.response # e.response }

pending_for_admin(a) ==
    { e \in evaluations_for_admin(a) :
        /\ e.is_current
        /\ e.verdict = "requires_human_review"
        /\ reviews_of(e) = {} }

entries_for_tenant(t) == { a \in audit_log : a.tenant_admin_id = t }

----------------------------------------------------------------------------
AdminWithoutTenant(u) ==
    /\ \A x \in users : x.id # u
    /\ users' = users \cup {[id |-> u, role |-> "org_admin", tenant_admin_id |-> "none"]}
    /\ UNCHANGED <<interviews, questions, assignments, responses, evaluations,
                   reviews, audit_log>>

(* register: an org_admin becomes its own tenant, a candidate names the    *)
(* org_admin whose tenant it joins.                                        *)
RegisterAdmin(u) ==
    /\ \A x \in users : x.id # u
    /\ users' = users \cup {[id |-> u, role |-> "org_admin", tenant_admin_id |-> u]}
    /\ UNCHANGED <<interviews, questions, assignments, responses, evaluations,
                   reviews, audit_log>>

RegisterCandidate(u, admin) ==
    /\ \A x \in users : x.id # u
    /\ \E x \in users : x.id = admin /\ x.role = "org_admin"
    /\ users' = users \cup {[id |-> u, role |-> "candidate", tenant_admin_id |-> admin]}
    /\ UNCHANGED <<interviews, questions, assignments, responses, evaluations,
                   reviews, audit_log>>

(* create_interview: the interview and its questions in one commit         *)
CreateInterview(p, i, qs) ==
    /\ p.role = "org_admin"
    /\ \A x \in interviews : x.id # i
    /\ \A x \in questions : x.id \notin qs
    /\ interviews' = interviews \cup {[id |-> i, owner_admin_id |-> p.id]}
    /\ questions' = questions \cup { [id |-> q, interview_id |-> i] : q \in qs }
    /\ UNCHANGED <<users, assignments, responses, evaluations, reviews, audit_log>>

Reassign(p, i, k) ==
    /\ p.role = "org_admin"
    /\ get_interview_for_admin(i, p.id) # {}
    /\ get_candidate_for_admin(k, p.id) # {}
    /\ assignments' = { a \in assignments : a.interview_id # i }
                          \cup {[interview_id |-> i, candidate_id |-> k]}
    /\ UNCHANGED <<users, interviews, questions, responses, evaluations,
                   reviews, audit_log>>

(* assign_candidate: 404 unless both are the caller's, 409 when repeated   *)
Assign(p, i, k) ==
    LET row == [interview_id |-> i, candidate_id |-> k] IN
    /\ p.role = "org_admin"
    /\ get_interview_for_admin(i, p.id) # {}
    /\ get_candidate_for_admin(k, p.id) # {}
    /\ row \notin assignments
    /\ assignments' = assignments \cup {row}
    /\ UNCHANGED <<users, interviews, questions, responses, evaluations,
                   reviews, audit_log>>

(* evaluate_response: the next version, current instead of the others, and *)
(* its entry in the tenant's chain                                         *)
EvaluateResponse(r, tenant, actor, verdict) ==
    LET previous == evaluations_of({r})
        version  == Cardinality(previous) + 1
        question == CHOOSE q \in questions : q.id = r.question_id IN
    /\ version <= MaxVersions
    /\ evaluations' = (evaluations \ previous)
           \cup { [e EXCEPT !.is_current = FALSE] : e \in previous }
           \cup {[response |-> r, version |-> version, is_current |-> TRUE,
                  verdict |-> verdict]}
    /\ audit_log' = audit_log \cup
           {[tenant_admin_id |-> tenant, interview_id |-> question.interview_id,
             actor_id |-> actor, event |-> "evaluation",
             response |-> r, version |-> version]}
    /\ UNCHANGED <<users, interviews, questions, assignments, reviews>>

(* submit_response: the tenant is the interview's owner, not the caller    *)
ChainOfCaller(p, x) == p.id
ChainOfSubmit(p, x) == x.owner_admin_id

Answerable(p, i, q) ==
    /\ p.role = "candidate"
    /\ get_interview_for_candidate(i, p.id) # {}
    /\ get_question_in_interview(q, i) # {}
    /\ get_existing_response(q, p.id) = {}

Submit(p, i, q, verdict) ==
    LET r == [question_id |-> q, candidate_id |-> p.id] IN
    /\ Answerable(p, i, q)
    /\ responses' = responses \cup {r}
    /\ \E x \in get_interview_for_candidate(i, p.id) :
          EvaluateResponse(r, ChainOfSubmit(p, x), p.id, verdict)

(* The provider failed: the response is committed without an evaluation.   *)
SubmitUnscored(p, i, q) ==
    /\ Answerable(p, i, q)
    /\ responses' = responses \cup {[question_id |-> q, candidate_id |-> p.id]}
    /\ UNCHANGED <<users, interviews, questions, assignments, evaluations,
                   reviews, audit_log>>

(* reevaluate_response                                                     *)
Reevaluate(p, r, verdict) ==
    /\ p.role = "org_admin"
    /\ r \in responses_for_admin(p.id)
    /\ EvaluateResponse(r, p.tenant_admin_id, p.id, verdict)
    /\ UNCHANGED responses

(* submit_human_review: 409 unless flagged and not yet reviewed            *)
SubmitReview(p, e) ==
    /\ p.role = "org_admin"
    /\ e \in evaluations_for_admin(p.id)
    /\ e.verdict = "requires_human_review"
    /\ reviews_of(e) = {}
    /\ reviews' = reviews \cup {[response |-> e.response, version |-> e.version,
                                 reviewer_id |-> p.id]}
    /\ \E x \in InterviewsOf(e.response) :
          audit_log' = audit_log \cup
              {[tenant_admin_id |-> p.tenant_admin_id, interview_id |-> x.id,
                actor_id |-> p.id, event |-> "human_review",
                response |-> e.response, version |-> e.version]}
    /\ UNCHANGED <<users, interviews, questions, assignments, responses, evaluations>>

TenancyNext ==
    \/ \E u \in Users : RegisterAdmin(u)
    \/ \E u, admin \in Users : RegisterCandidate(u, admin)
    \/ \E p \in users :
          \/ \E i \in Interviews, qs \in (SUBSET Questions) \ {{}} :
                CreateInterview(p, i, qs)
          \/ \E i \in Interviews, k \in Users : Assign(p, i, k)
          \/ \E i \in Interviews, q \in Questions :
                \/ SubmitUnscored(p, i, q)
                \/ \E v \in Verdicts : Submit(p, i, q, v)
          \/ \E r \in responses, v \in Verdicts : Reevaluate(p, r, v)
          \/ \E e \in evaluations : SubmitReview(p, e)

TenancySpec == TenancyInit /\ [][TenancyNext]_tvars

----------------------------------------------------------------------------
(* Everything a caller can be shown, tagged with its table.                *)
Tagged(table, rows) == { <<table, row>> : row \in rows }

AdminView(p) ==
    LET rs == responses_for_admin(p.id) IN
    Tagged("interview", list_interviews_for_admin(p.id))
    \cup Tagged("response", rs)
    \cup Tagged("evaluation", evaluations_for_admin(p.id))
    \cup Tagged("review", UNION { reviews_of(e) : e \in evaluations_for_admin(p.id) })
    \cup Tagged("entry", entries_for_tenant(p.tenant_admin_id))

CandidateView(p) ==
    LET current == { e \in evaluations_of(responses_for_candidate(p.id)) : e.is_current } IN
    Tagged("interview", list_interviews_for_candidate(p.id))
    \cup Tagged("response", responses_for_candidate(p.id))
    \cup Tagged("evaluation", current)
    \cup Tagged("review", UNION { reviews_of(e) : e \in current })

View(p) == IF p.role = "org_admin" THEN AdminView(p) ELSE CandidateView(p)

(* README C14: no row is shown in two tenants.  Callers of different       *)
(* tenants see nothing in common, and a candidate sees nothing its own     *)
(* org_admin does not.                                                     *)
TenantsIsolated ==
    \A p, o \in users :
        /\ p.tenant_admin_id # o.tenant_admin_id => View(p) \cap View(o) = {}
        /\ (p.role = "candidate" /\ o.id = p.tenant_admin_id) => View(p) \subseteq View(o)

(* The chain of a tenant is about that tenant only: every entry is on the  *)
(* owner's chain, under the response's own interview, written by someone   *)
(* of that tenant, and nothing evaluated or reviewed is missing from it.   *)
ChainBelongsToTenant ==
    /\ \A a \in audit_log :
          /\ [id |-> a.interview_id, owner_admin_id |-> a.tenant_admin_id]
                \in InterviewsOf(a.response)
          /\ \E u \in users : u.id = a.actor_id /\ u.tenant_admin_id = a.tenant_admin_id
    /\ \A e \in evaluations \cup reviews :
          \E a \in audit_log : a.response = e.response /\ a.version = e.version

(* Nothing is stranded: every response is shown to its candidate and to    *)
(* exactly one org_admin, and every evaluation that waits for a human is   *)
(* in exactly one queue, that of an org_admin who may review it.           *)
NothingStranded ==
    /\ \A r \in responses :
          /\ \E u \in users : u.id = r.candidate_id /\ u.role = "candidate"
          /\ Cardinality({ u \in users : u.role = "org_admin"
                                          /\ r \in responses_for_admin(u.id) }) = 1
    /\ \A e \in evaluations :
          (e.is_current /\ e.verdict = "requires_human_review" /\ reviews_of(e) = {})
             => Cardinality({ u \in users : u.role = "org_admin"
                                            /\ e \in pending_for_admin(u.id) }) = 1

(* What a request was allowed to reach stays reachable: a scope check made *)
(* at the start of a request is still true at its commit.                  *)
ScopesOnlyGrow ==
    [][ \A p \in users :
          /\ p \in users'
          /\ list_interviews_for_admin(p.id) \subseteq list_interviews_for_admin(p.id)'
          /\ list_interviews_for_candidate(p.id)
                \subseteq list_interviews_for_candidate(p.id)'
          /\ responses_for_admin(p.id) \subseteq responses_for_admin(p.id)'
          /\ entries_for_tenant(p.tenant_admin_id)
                \subseteq entries_for_tenant(p.tenant_admin_id)'
      ]_tvars
=============================================================================
