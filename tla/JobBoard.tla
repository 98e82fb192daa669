------------------------------ MODULE JobBoard -------------------------------
(***************************************************************************)
(* What the task queue promises its callers: a job is worked on by one     *)
(* executor at a time, an executor that is lost gives the job back, at     *)
(* most MaxTries failed attempts are made before the job is dropped, and a *)
(* job that is done or dropped stays so.  The promise is void for a job    *)
(* whose executor was presumed lost while it was not ("contested").        *)
(***************************************************************************)
EXTENDS Naturals

CONSTANTS Jobs, Executors, Nobody, MaxTries

VARIABLES job, executor, tries

vars == <<job, executor, tries>>

Init ==
    /\ job = [j \in Jobs |-> "absent"]
    /\ executor = [j \in Jobs |-> Nobody]
    /\ tries = [j \in Jobs |-> 0]

Post(j) ==
    /\ job[j] = "absent"
    /\ job' = [job EXCEPT ![j] = "open"]
    /\ UNCHANGED <<executor, tries>>

Take(e, j) ==
    /\ job[j] = "open"
    /\ job' = [job EXCEPT ![j] = "taken"]
    /\ executor' = [executor EXCEPT ![j] = e]
    /\ UNCHANGED tries

Finish(j, result) ==
    /\ job[j] = "taken" /\ executor[j] # Nobody
    /\ job' = [job EXCEPT ![j] = result]
    /\ executor' = [executor EXCEPT ![j] = Nobody]

Succeed(j) == Finish(j, "done") /\ UNCHANGED tries

Drop(j) == Finish(j, "dropped") /\ UNCHANGED tries

Fail(j) ==
    /\ Finish(j, "open")
    /\ tries[j] + 1 < MaxTries
    /\ tries' = [tries EXCEPT ![j] = @ + 1]

\* Some executors disappear, without a word.
Lose(S) ==
    /\ \A j \in S : executor[j] # Nobody
    /\ executor' = [j \in Jobs |-> IF j \in S THEN Nobody ELSE executor[j]]
    /\ UNCHANGED <<job, tries>>

\* Jobs S whose executor is presumed lost are opened again.
Reopen(S) ==
    /\ S # {} /\ \A j \in S : job[j] = "taken" \/ job[j] = "contested"
    /\ job' = [j \in Jobs |->
                  IF j \notin S THEN job[j]
                  ELSE IF executor[j] = Nobody /\ job[j] = "taken"
                  THEN "open" ELSE "contested"]
    /\ executor' = [j \in Jobs |-> IF job'[j] = "contested" THEN Nobody ELSE executor[j]]
    /\ tries' = [j \in Jobs |-> IF job'[j] = "contested" THEN 0 ELSE tries[j]]

Remove(j) ==
    /\ job[j] \in {"done", "dropped"}
    /\ job' = [job EXCEPT ![j] = "removed"]
    /\ UNCHANGED <<executor, tries>>

Next ==
    \/ \E j \in Jobs :
        \/ Post(j) \/ Succeed(j) \/ Drop(j) \/ Fail(j) \/ Remove(j)
        \/ \E e \in Executors : Take(e, j)
    \/ \E S \in SUBSET Jobs : Lose(S) \/ Reopen(S)

Spec == Init /\ [][Next]_vars
=============================================================================
