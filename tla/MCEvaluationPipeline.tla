------------------------- MODULE MCEvaluationPipeline -------------------------
EXTENDS PipelineInvariant

CONSTANTS sub1, sub2, re1, re2, rev1, rev2, s1, s2, x1, x2, t1, w1, w2

MCInterviewOf == [s \in Slots |-> IF s = s1 THEN x1 ELSE x2]
MCOwnerOf     == [x \in Interviews |-> t1]

(* One result that stands, one below the threshold of 70 and one that is   *)
(* not a confidence.                                                       *)
MCLLMResults == { [verdict |-> "correct",   confidence |-> 70],
                  [verdict |-> "incorrect", confidence |-> 69],
                  [verdict |-> "correct",   confidence |-> 101] }

(* sub2 is served by the second process, all the others by the first.      *)
TwoProcesses == [r \in Requests |-> IF r = sub2 THEN w2 ELSE w1]
OneProcess   == [r \in Requests |-> w1]

Deployment(backend, may_update, crashing, worker, arriving, slots) ==
    [backend |-> backend, may_update |-> may_update, crashes |-> crashing,
     worker |-> worker,
     about |-> [r \in Requests |-> IF r \in arriving THEN slots ELSE {}]]

(* A response is submitted and re-evaluated twice, re-evaluated and        *)
(* reviewed, or submitted twice and re-evaluated, and a process dies.      *)
OneResponse(backend) ==
    { Deployment(backend, TRUE, 1, TwoProcesses, {sub1, re1, re2}, {s1}),
      Deployment(backend, TRUE, 1, TwoProcesses, {sub1, re1, rev1}, {s1}),
      Deployment(backend, TRUE, 1, TwoProcesses, {sub1, sub2, re1}, {s1}) }

(* Two re-evaluations and a review of it at once.                          *)
Everything ==
    Deployment("postgresql", TRUE, 0, TwoProcesses, {sub1, re1, re2, rev1}, {s1})

(* Two reviews of one response, and the answers of two interviews.         *)
TwoReviews(backend) ==
    Deployment(backend, TRUE, 1, TwoProcesses, {sub1, rev1, rev2}, {s1})
TwoResponses ==
    Deployment("postgresql", TRUE, 0, TwoProcesses, {sub1, sub2, rev1}, {s1, s2})

(* The role has lost its UPDATE privilege: nothing can be recorded.        *)
Revoked ==
    Deployment("postgresql", FALSE, 1, TwoProcesses, {sub1, sub2, rev1}, {s1})

(* Both submits on one event loop.                                         *)
OneLoop == Deployment("postgresql", TRUE, 1, OneProcess, {sub1, sub2, rev1}, {s1})

AllSettings == OneResponse("sqlite") \cup OneResponse("postgresql")
                 \cup {Everything, TwoReviews("postgresql"), TwoResponses, Revoked, OneLoop}

SQLiteOnly       == OneResponse("sqlite")
TwoReviewsSQLite == {TwoReviews("sqlite")}
==============================================================================
