---------------------------- MODULE MCExperiments ----------------------------
(***************************************************************************)
(* The environments of experiments and the submissions to them, which      *)
(* share nothing: `scene` says which of the two moves in a behaviour.  In  *)
(* the other no fair step can be taken, since there is no environment, or  *)
(* no submission.  The definitions of EnvLifecycle are used under their    *)
(* own names.                                                              *)
(***************************************************************************)
EXTENDS EnvLifecycle, Grading

VARIABLE scene

MCVars == <<scene, vars, gradingVars>>

MCInit ==
    /\ scene \in {"environments", "grading"}
    /\ Init /\ GradingInit
    /\ scene = "environments" => ~experiment.autoGrade /\ ~experiment.checkpoints

InEnvironments == scene = "environments" /\ UNCHANGED <<scene, gradingVars>>
InGrading == scene = "grading" /\ UNCHANGED <<scene, vars>>

MCNext ==
    \/ \E o \in Requests, u \in Users, x \in Experiments : Admit(o, u, x) /\ InEnvironments
    \/ \E o \in Requests, e \in Envs : Stop(o, e) /\ InEnvironments
    \/ \E o \in Requests, e \in Envs : Pause(o, e) /\ InEnvironments
    \/ \E o \in Requests, e \in Envs : Resume(o, e) /\ InEnvironments
    \/ \E o \in Requests, e \in Envs : Extend(o, e) /\ InEnvironments
    \/ \E o \in Requests, e \in Envs : Snapshot(o, e) /\ InEnvironments
    \/ \E o \in Requests, e \in Envs : Poll(o, e) /\ InEnvironments
    \/ \E o \in Actors : OpStep(o) /\ InEnvironments
    \/ \E o \in Actors : Abandon(o) /\ InEnvironments
    \/ \E e \in Envs : CleanupNext(e) /\ InEnvironments
    \/ \E e \in Envs : Expire(e) /\ InEnvironments
    \/ CleanupExpired /\ InEnvironments
    \/ \E e \in Envs, i \in Instances : PodRuns(e, i) /\ InEnvironments
    \/ \E e \in Envs, i \in Instances : PodDies(e, i) /\ InEnvironments
    \/ \E e \in Envs, i \in Instances : PodGone(e, i) /\ InEnvironments
    \/ SyncAll /\ InEnvironments
    \/ Crash /\ InEnvironments
    \/ \E r \in Students : SubmitExperiment(r) /\ InGrading
    \/ \E r \in Students : InsertSubmission(r) /\ InGrading
    \/ \E r \in Students : MarkGrading(r) /\ InGrading
    \/ \E i \in DOMAIN rows : GraderReads(i) /\ InGrading
    \/ \E i \in DOMAIN rows : GraderWrites(i) /\ InGrading
    \/ \E i \in DOMAIN rows : GraderFails(i) /\ InGrading
    \/ \E t \in Teachers, i \in DOMAIN rows : GradeSubmission(t, i) /\ InGrading
    \/ \E t \in Teachers : GradeWrites(t) /\ InGrading
    \/ \E t \in Teachers : GradeRefused(t) /\ InGrading
    \/ \E r \in Students \cup Teachers : RequestFails(r) /\ InGrading
    \/ GradingCrash /\ InGrading

MCSpec == MCInit /\ [][MCNext]_MCVars /\ Fairness /\ GradingFairness

-----------------------------------------------------------------------------
(* Type correctness of the two.                                            *)
PartsTyped == IF scene = "grading" THEN GradingTypeOK ELSE TypeOK
=============================================================================
