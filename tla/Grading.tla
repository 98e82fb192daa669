------------------------------- MODULE Grading --------------------------------
(***************************************************************************)
(* The submissions of one student to one experiment                        *)
(* (backend/internal/service/experiment_submission_service.go,             *)
(* experiment_grading_service.go and the submission table of               *)
(* repository/experiment_repository.go).                                   *)
(*                                                                         *)
(* Three parties write a submission: the request that stored it, the       *)
(* goroutine that grades it, and teachers.  Each writes every column from  *)
(* the copy it has, and replaces the check results by those of its copy:   *)
(* the old ones are marked as deleted, which keeps their ids.              *)
(***************************************************************************)
EXTENDS Naturals, Sequences, FiniteSets

CONSTANTS
    Students,       \* the student's requests that may be in flight at once
    Teachers,       \* grading requests that may be in flight at once
    Scores,         \* what teachers give
    AutoScore, Unset, \* what the checkpoints give, and no score
    MaxSubmissions, MaxGrades, MaxGradingFaults   \* bounds

ASSUME GradingAssumption ==
    /\ {MaxSubmissions, MaxGrades, MaxGradingFaults} \subseteq Nat
    /\ Students \cap Teachers = {}
    /\ AutoScore # Unset /\ AutoScore \notin Scores /\ Unset \notin Scores

VARIABLES
    experiment,  \* auto_grade, and whether its blueprint has checkpoints
    rows,        \* submissions
    results,     \* submission_check_results of each
    request,     \* the requests of the student and of the teachers
    grader,      \* autoGradeSubmission of each submission
    grades, gradingFaults,
    \* observers, read by no guard
    verdict,     \* the last score a teacher was told to be stored
    mixed,       \* submissions with two writers at once
    lost,        \* submissions whose grader was cut off
    crossed,     \* two submissions were under way at once
    refused      \* submissions whose grade was refused while the database worked

gradingObservers == <<verdict, mixed, lost, crossed, refused>>
gradingVars ==
    <<experiment, rows, results, request, grader, grades, gradingFaults, gradingObservers>>

Score == Scores \cup {AutoScore, Unset}
Submission == [attempt : Nat, status : {"pending", "grading", "graded"},
               score : Score, auto : Score, manual : Score]
NewSubmission(n) == [attempt |-> n, status |-> "pending",
              score |-> Unset, auto |-> Unset, manual |-> Unset]

\* What a writer has read; loaded: its copy has check results with ids.
Idle == [at |-> "idle", sub |-> 0, copy |-> NewSubmission(0), loaded |-> FALSE]
Grader(at, row) == [at |-> at, copy |-> row]

GradingInit ==
    /\ experiment \in [autoGrade : BOOLEAN, checkpoints : BOOLEAN]
    /\ rows = <<>> /\ results = <<>> /\ grader = <<>>
    /\ request = [r \in Students \cup Teachers |-> Idle]
    /\ grades = 0 /\ gradingFaults = 0
    /\ verdict = <<>>
    /\ mixed = {} /\ lost = {} /\ crossed = FALSE /\ refused = {}

-----------------------------------------------------------------------------
RequestAt(r, place) == request[r].at = place
Copy(r) == request[r].copy
Finish(r) == request' = [request EXCEPT ![r] = Idle]

\* Somebody else is to write submission i.
Grading(i) == grader[i].at \in {"due", "evaluating"}
Written(i, r) == Grading(i) \/ \E q \in DOMAIN request \ {r} : request[q].sub = i

(* SubmissionRepository.Update of a copy without check results.            *)
Buried(i) == [results EXCEPT ![i] = IF @ = "live" THEN "deleted" ELSE @]
UpdateSubmission(i, row) == rows' = [rows EXCEPT ![i] = row] /\ results' = Buried(i)

-----------------------------------------------------------------------------
(* SubmitExperiment, until the attempts are counted.                       *)
SubmitExperiment(r) ==
    /\ RequestAt(r, "idle")
    /\ Len(rows) < MaxSubmissions
    /\ request' = [request EXCEPT ![r] =
           [Idle EXCEPT !.at = "counted", !.copy = NewSubmission(Len(rows) + 1)]]
    /\ crossed' = (crossed \/ \E q \in Students : RequestAt(q, "counted"))
    /\ UNCHANGED <<experiment, rows, results, grader, grades, gradingFaults,
                   verdict, mixed, lost, refused>>

InsertSubmission(r) ==
    /\ RequestAt(r, "counted")
    /\ Len(rows) < MaxSubmissions
    /\ rows' = Append(rows, Copy(r))
    /\ results' = Append(results, "none")
    /\ grader' = Append(grader, Grader("none", NewSubmission(0)))
    /\ verdict' = Append(verdict, Unset)
    /\ request' = IF experiment.autoGrade
                  THEN [request EXCEPT ![r].at = "marking", ![r].sub = Len(rows) + 1]
                  ELSE [request EXCEPT ![r] = Idle]
    /\ UNCHANGED <<experiment, grades, gradingFaults, mixed, lost, crossed,
                   refused>>

\* Mutant: the status is written, and no grader started.
MarkWithoutGrader(r) ==
    /\ RequestAt(r, "marking")
    /\ UpdateSubmission(request[r].sub, [Copy(r) EXCEPT !.status = "grading"])
    /\ Finish(r)
    /\ UNCHANGED <<experiment, grader, grades, gradingFaults, gradingObservers>>

(* The row as it was created, in status grading, and the grader starts.    *)
MarkGrading(r) ==
    /\ RequestAt(r, "marking")
    /\ LET i == request[r].sub
       IN  /\ UpdateSubmission(i, [Copy(r) EXCEPT !.status = "grading"])
           /\ grader' = [grader EXCEPT ![i].at = "due"]
    /\ Finish(r)
    /\ UNCHANGED <<experiment, grades, gradingFaults, gradingObservers>>

-----------------------------------------------------------------------------
(* AutoGradeSubmission: the copy, the checkpoints, the whole row.          *)
GraderReads(i) ==
    /\ grader[i].at = "due"
    /\ grader' = [grader EXCEPT ![i] = Grader("evaluating", rows[i])]
    /\ UNCHANGED <<experiment, rows, results, request, grades, gradingFaults,
                   gradingObservers>>

Graded(row, points) == [row EXCEPT !.score = points, !.status = "graded"]

GraderWrites(i) ==
    /\ grader[i].at = "evaluating"
    /\ rows' = [rows EXCEPT ![i] = [Graded(grader[i].copy, AutoScore) EXCEPT !.auto = AutoScore]]
    /\ results' = IF experiment.checkpoints THEN [results EXCEPT ![i] = "live"] ELSE Buried(i)
    /\ grader' = [grader EXCEPT ![i] = Grader("done", NewSubmission(0))]
    /\ UNCHANGED <<experiment, request, grades, gradingFaults,
                   gradingObservers>>

-----------------------------------------------------------------------------
(* GradeSubmission: the row with its check results.                        *)
GradeSubmission(t, i) ==
    /\ RequestAt(t, "idle")
    /\ grades < MaxGrades /\ grades' = grades + 1
    /\ request' = [request EXCEPT ![t] =
           [at |-> "grading", sub |-> i, copy |-> rows[i], loaded |-> results[i] = "live"]]
    /\ mixed' = IF Written(i, t) THEN mixed \cup {i} ELSE mixed
    /\ UNCHANGED <<experiment, rows, results, grader, gradingFaults, verdict,
                   lost, crossed, refused>>

\* Mutant: the manual score is stored, and the score is not.
ManualOnly(t) ==
    /\ RequestAt(t, "grading") /\ ~request[t].loaded
    /\ \E s \in Scores :
        /\ UpdateSubmission(request[t].sub, [Copy(t) EXCEPT !.manual = s, !.status = "graded"])
        /\ verdict' = [verdict EXCEPT ![request[t].sub] = s]
    /\ Finish(t)
    /\ UNCHANGED <<experiment, grader, grades, gradingFaults, mixed, lost,
                   crossed, refused>>

GradeWrites(t) ==
    /\ RequestAt(t, "grading") /\ ~request[t].loaded
    /\ \E s \in Scores :
        /\ UpdateSubmission(request[t].sub, [Graded(Copy(t), s) EXCEPT !.manual = s])
        /\ verdict' = [verdict EXCEPT ![request[t].sub] = s]
    /\ Finish(t)
    /\ UNCHANGED <<experiment, grader, grades, gradingFaults, mixed, lost,
                   crossed, refused>>

(* The check results of the copy are inserted again under their ids, which *)
(* the rows marked as deleted still have: the transaction is rolled back.  *)
GradeRefused(t) ==
    /\ RequestAt(t, "grading") /\ request[t].loaded
    /\ refused' = refused \cup {request[t].sub}
    /\ Finish(t)
    /\ UNCHANGED <<experiment, rows, results, grader, grades, gradingFaults,
                   verdict, mixed, lost, crossed>>

-----------------------------------------------------------------------------
GradingFault == gradingFaults < MaxGradingFaults /\ gradingFaults' = gradingFaults + 1

(* A statement fails, or the client hangs up.                              *)
RequestFails(r) ==
    /\ ~RequestAt(r, "idle")
    /\ GradingFault
    /\ Finish(r)
    /\ UNCHANGED <<experiment, rows, results, grader, grades, gradingObservers>>

CutOff(S) ==
    /\ grader' = [i \in DOMAIN grader |->
           IF i \in S THEN Grader("done", NewSubmission(0)) ELSE grader[i]]
    /\ lost' = lost \cup S

(* A statement of the grader fails, or its five minutes are over: the      *)
(* context that cut off the checkpoints cuts off the update, too.          *)
GraderFails(i) ==
    /\ Grading(i)
    /\ GradingFault
    /\ CutOff({i})
    /\ UNCHANGED <<experiment, rows, results, request, grades, verdict,
                   mixed, crossed, refused>>

GradingCrash ==
    /\ GradingFault
    /\ CutOff({i \in DOMAIN grader : Grading(i)})
    /\ request' = [r \in DOMAIN request |-> Idle]
    /\ UNCHANGED <<experiment, rows, results, grades, verdict, mixed,
                   crossed, refused>>

GraderStep(i) == GraderReads(i) \/ GraderWrites(i)

GradingNext ==
    \/ \E r \in Students : SubmitExperiment(r) \/ InsertSubmission(r) \/ MarkGrading(r)
    \/ \E i \in DOMAIN rows : GraderStep(i) \/ GraderFails(i)
    \/ \E t \in Teachers :
        \/ \E i \in DOMAIN rows : GradeSubmission(t, i)
        \/ GradeWrites(t) \/ GradeRefused(t)
    \/ \E r \in Students \cup Teachers : RequestFails(r)
    \/ GradingCrash

GradingSpec == GradingInit /\ [][GradingNext]_gradingVars

(* A grader goes on: its checkpoints end with its context.                 *)
GradingFairness ==
    \A i \in 1 .. MaxSubmissions : WF_gradingVars(i \in DOMAIN rows /\ GraderStep(i))

-----------------------------------------------------------------------------
(* Type correctness.                                                       *)
GradingTypeOK ==
    /\ experiment \in [autoGrade : BOOLEAN, checkpoints : BOOLEAN]
    /\ rows \in Seq(Submission) /\ Len(rows) <= MaxSubmissions
    /\ results \in Seq({"none", "live", "deleted"}) /\ Len(results) = Len(rows)
    /\ grader \in Seq([at : {"none", "due", "evaluating", "done"}, copy : Submission])
    /\ Len(grader) = Len(rows)
    /\ request \in [Students \cup Teachers ->
           [at : {"idle", "counted", "marking", "grading"}, sub : 0 .. Len(rows),
            copy : Submission, loaded : BOOLEAN]]
    /\ grades \in 0 .. MaxGrades /\ gradingFaults \in 0 .. MaxGradingFaults
    /\ verdict \in Seq(Scores \cup {Unset}) /\ Len(verdict) = Len(rows)
    /\ mixed \cup lost \cup refused \subseteq DOMAIN rows
    /\ crossed \in BOOLEAN

(* Attempts are numbered in their order, unless two submissions were under *)
(* way at once.  A score a teacher was told to be stored is the score, and *)
(* the automatic one is kept beside it, unless two parties had the         *)
(* submission in hand at once -- the grader counts from the submission on. *)
(* A grade is only refused once checkpoints were graded.                   *)
SubmissionsSound ==
    /\ crossed \/ \A i \in DOMAIN rows : rows[i].attempt = i
    /\ \A i \in DOMAIN rows \ mixed :
        /\ verdict[i] # Unset =>
             rows[i].status = "graded" /\ rows[i].manual = verdict[i] /\ rows[i].score = verdict[i]
        /\ grader[i].at = "done" /\ i \notin lost => rows[i].auto = AutoScore
    /\ \A i \in refused : experiment.checkpoints /\ grader[i].at = "done"

(* Automatic grading ends with a grade, unless the grader was cut off:     *)
(* nobody starts another one.                                              *)
GradingSettles ==
    \A i \in 1 .. MaxSubmissions :
        i \in DOMAIN rows /\ rows[i].status = "grading" ~>
            i \in lost \/ (i \in DOMAIN rows /\ rows[i].status = "graded")

(* Grading.tsx: teachers correct automatic grades.  They cannot, when the  *)
(* experiment has checkpoints.                                             *)
VerdictsTaken == refused = {}
=============================================================================
