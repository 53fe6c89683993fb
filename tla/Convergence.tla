---------------------------- MODULE Convergence ----------------------------
(***************************************************************************)
(* Convergence after an approved execution, runtime/convergence.py, with   *)
(* its part of the run journal: passes find gaps, a repair task per gap is *)
(* registered, executed and reviewed, and the next pass looks again.  The  *)
(* process may die at any await; the next one starts from the journal, and *)
(* numbers its passes and repair tasks from the beginning again.           *)
(*                                                                         *)
(* As run_plan_execution calls it: every task of the plan is COMPLETED,    *)
(* the review has approved, and no evidence provider is given, so that a   *)
(* criterion is judged by what results and reviews validate.               *)
(***************************************************************************)
EXTENDS Naturals, Sequences, FiniteSets, SequencesExt, Enumeration

CONSTANTS
    Tasks,           \* the tasks of the plan, in order
    Mutating,        \* those that are not read only
    Criteria,        \* its validation criteria, in order
    Evidence,        \* bound: what a result or a review says of the criteria
    MaxPasses,       \* max_passes
    MaxRepairs,      \* bound: gaps of one pass
    MaxProcesses     \* bound: processes that work on the run

Task == {Tasks[i] : i \in 1..Len(Tasks)}
Criterion == {Criteria[i] : i \in 1..Len(Criteria)}
Verdict == {"none", "passed", "failed", "not_run"}

ConvergenceAssumption ==
    /\ Tasks \in Seq(Task) /\ Tasks # <<>> /\ Mutating \subseteq Task
    /\ Criteria \in Seq(Criterion)
    /\ Evidence \subseteq [Criterion -> Verdict]
    /\ MaxPasses \in Nat /\ MaxRepairs \in Nat /\ MaxProcesses \in Nat

VARIABLES
    phase,           \* where the process is
    process,         \* processes so far
    pass,
    states,          \* combined_states
    review,          \* the latest one
    blocked,         \* the analysis has blockers
    repairs,         \* the repair tasks of this pass
    ended,           \* what has become of them
    history,         \* how many there were in each pass before
    found,           \* what the results of the plan's tasks say: durable
    spec,            \* the journal: specification and status of every repair,
    result           \*   and what a completed one was for and said

run == <<pass, states, review, blocked, repairs, ended, history>>
journal == <<found, spec, result>>
vars == <<phase, process, run, journal>>

Default == LET mutating == Select(Tasks, {i \in DOMAIN Tasks : Tasks[i] \in Mutating})
           IN  Last(IF mutating = <<>> THEN Tasks ELSE mutating)

Silent == [k \in Criterion |-> "none"]
Approved(evidence) == [targets |-> <<>>, evidence |-> evidence]

(* A task identifier: one of the plan's, or CONV-Ppp-iii.                   *)
Plain(t) == <<0, t>>
RepairId == (1..MaxPasses) \X (1..MaxRepairs)

Gap(category, target, text) ==
    [category |-> category, target |-> target, text |-> text]
NoTarget == Plain("none")
NoGap == Gap("none", NoTarget, <<"none", {}>>)
Unregistered == [gap |-> NoGap, status |-> "unknown"]
NoResult == [gap |-> NoGap, evidence |-> Silent]

Init ==
    /\ phase = "ended" /\ process = 0
    /\ pass = 0 /\ states = <<>> /\ review = Approved(Silent) /\ blocked = FALSE
    /\ repairs = <<>> /\ ended = <<>> /\ history = <<>>
    /\ found = <<>>
    /\ spec = [id \in RepairId |-> Unregistered]
    /\ result = [id \in RepairId |-> NoResult]

-----------------------------------------------------------------------------
(* Gaps *)

(* A validation of a result outranks one of the reviewer, and a failed one  *)
(* those that passed beside it.                                             *)
Applicable(k) ==
    LET structured == {states[i].evidence[k] : i \in 1..Len(states)} \ {"none"}
    IN  IF structured # {} THEN structured ELSE {review.evidence[k]} \ {"none"}

Satisfied(k) == "passed" \in Applicable(k) /\ "failed" \notin Applicable(k)

Reason(k) == IF "failed" \in Applicable(k) THEN Applicable(k) \cap {"failed", "passed"}
             ELSE IF Applicable(k) = {} THEN {} ELSE {"not_run"}

Incomplete(s) == s.status # "COMPLETED"

Gaps ==
    LET incomplete == Select(states, {i \in DOMAIN states : Incomplete(states[i])})
        unsatisfied == Select(Criteria, {i \in DOMAIN Criteria : ~Satisfied(Criteria[i])})
        message == <<"none", {}>>
    IN  (IF blocked THEN <<Gap("analyze", NoTarget, message)>> ELSE <<>>)
        \o [i \in DOMAIN incomplete |->
              Gap("task", incomplete[i].id, <<incomplete[i].status, {}>>)]
        \o [i \in DOMAIN review.targets |-> Gap("review", review.targets[i], message)]
        \o [i \in DOMAIN unsatisfied |->
              Gap("acceptance", NoTarget, <<unsatisfied[i], Reason(unsatisfied[i])>>)]

(* A gap of no task of the plan, also one of an earlier repair, goes to the *)
(* last task that changes something.                                        *)
Source(gap) ==
    IF \E t \in Task : gap.target = Plain(t) THEN gap.target[2] ELSE Default

Id(i) == <<pass + 1, i>>

-----------------------------------------------------------------------------
(* A process: what the scheduler, the review and the analysis hand over.    *)

Interrupted == \E id \in RepairId :
    spec[id].status = "running" /\ Source(spec[id].gap) \in Mutating

Begin ==
    /\ phase = "ended" /\ process < MaxProcesses /\ ~Interrupted
    /\ phase' = "evaluating" /\ process' = process + 1 /\ pass' = 0
    /\ IF found = <<>>
       THEN \E evidence \in [1..Len(Tasks) -> Evidence] : found' = evidence
       ELSE UNCHANGED found
    /\ states' = [i \in 1..Len(Tasks) |->
          [id |-> Plain(Tasks[i]), status |-> "COMPLETED", evidence |-> found'[i]]]
    /\ \E evidence \in Evidence : review' = Approved(evidence)
    /\ blocked' \in BOOLEAN
    /\ repairs' = <<>> /\ ended' = <<>> /\ history' = <<>>
    /\ UNCHANGED <<spec, result>>

(* A registered task is never registered as another one.                    *)
(* Faulty variant: whatever is known under that identifier will do.         *)
AnyTask(gaps) == TRUE

SameTasks(gaps) ==
    \A i \in DOMAIN gaps :
        spec[Id(i)].status # "unknown" => spec[Id(i)].gap = gaps[i]

(* A completed result in the journal when this process began seeds its task.*)
Seed(gaps) ==
    [i \in DOMAIN gaps |->
        IF spec[Id(i)].status = "completed"
        THEN [id |-> Id(i), status |-> "COMPLETED", evidence |-> result[Id(i)].evidence]
        ELSE [id |-> Id(i), status |-> "READY", evidence |-> Silent]]

Evaluate ==
    /\ phase = "evaluating" /\ DOMAIN Gaps \subseteq 1..MaxRepairs
    /\ IF Gaps = <<>> \/ blocked \/ pass >= MaxPasses \/ ~SameTasks(Gaps)
       THEN /\ phase' = IF Gaps = <<>> THEN "converged" ELSE "ended"
            /\ UNCHANGED <<repairs, ended, spec>>
       ELSE /\ phase' = "repairing"
            /\ repairs' = Gaps
            /\ spec' = [id \in RepairId |->
                  IF id[1] = pass + 1 /\ id[2] \in DOMAIN Gaps /\ spec[id].status = "unknown"
                  THEN [gap |-> Gaps[id[2]], status |-> "pending"] ELSE spec[id]]
            /\ ended' = Seed(Gaps)
    /\ UNCHANGED <<process, pass, states, review, blocked, history, found, result>>

(* They have no dependencies; one after the other is order enough.          *)
StartRepair ==
    /\ phase = "repairing"
    /\ \E i \in DOMAIN ended :
          /\ ended[i].status = "READY"
          /\ \A j \in 1..(i - 1) : ended[j].status \notin {"READY", "RUNNING"}
          /\ ended' = [ended EXCEPT ![i].status = "RUNNING"]
          /\ spec' = [spec EXCEPT ![Id(i)].status = "running"]
    /\ UNCHANGED <<phase, process, pass, states, review, blocked, repairs, history,
                   found, result>>

EndRepair ==
    /\ phase = "repairing"
    /\ \E i \in DOMAIN ended :
          /\ ended[i].status = "RUNNING"
          /\ \E status \in {"COMPLETED", "FAILED"},
                evidence \in Evidence \cup {Silent} :
                /\ status = "COMPLETED" <=> evidence # Silent
                /\ ended' = [ended EXCEPT ![i].status = status, ![i].evidence = evidence]
                /\ spec' = [spec EXCEPT ![Id(i)].status =
                               IF status = "COMPLETED" THEN "completed" ELSE "failed"]
                /\ result' = IF status = "COMPLETED"
                             THEN [result EXCEPT ![Id(i)] =
                                      [gap |-> repairs[i], evidence |-> evidence]]
                             ELSE result
    /\ UNCHANGED <<phase, process, pass, states, review, blocked, repairs, history,
                   found>>

(* Faulty variant: only what completed is kept.                             *)
CompletedRepairs == Select(ended, {i \in DOMAIN ended : ended[i].status = "COMPLETED"})

EndedRepairs == ended

(* The states of originals that were repaired go, the repairs' own come.    *)
Combine ==
    LET repaired == {Source(repairs[i]) : i \in
                        {j \in DOMAIN ended : ended[j].status = "COMPLETED"}}
        kept == {i \in DOMAIN states : \A t \in repaired : states[i].id # Plain(t)}
    IN  Select(states, kept) \o EndedRepairs

ReviewRepairs ==
    /\ phase = "repairing"
    /\ \A i \in DOMAIN ended : ended[i].status \notin {"READY", "RUNNING"}
    /\ states' = Combine
    /\ \E evidence \in Evidence,
          targets \in {<<>>, <<Plain(Tasks[1])>>, <<Id(1)>>} :
          review' = [targets |-> targets, evidence |-> evidence]
    /\ pass' = pass + 1
    /\ phase' = "evaluating"
    /\ repairs' = <<>> /\ ended' = <<>> /\ history' = Append(history, Len(ended))
    /\ UNCHANGED <<process, blocked, journal>>

(* A reviewer that fails, a cancellation, the death of the process.         *)
Crash ==
    /\ phase \in {"evaluating", "repairing"}
    /\ phase' = "ended"
    /\ UNCHANGED <<process, run, journal>>

(* A completed run may be resumed too.                                      *)
Finish ==
    /\ phase = "converged" /\ process < MaxProcesses
    /\ phase' = "ended"
    /\ UNCHANGED <<process, run, journal>>

Next ==
    \/ Begin \/ Evaluate \/ StartRepair \/ EndRepair \/ ReviewRepairs
    \/ Crash \/ Finish

Spec == Init /\ [][Next]_vars

-----------------------------------------------------------------------------
TypeOK ==
    /\ phase \in {"ended", "evaluating", "repairing", "converged"}
    /\ process \in 0..MaxProcesses /\ pass \in 0..MaxPasses /\ blocked \in BOOLEAN
    /\ \A s \in Range(states) \cup Range(ended) :
          /\ s.id \in RepairId \cup {Plain(t) : t \in Task}
          /\ s.status \in {"READY", "RUNNING", "COMPLETED", "FAILED"}
          /\ s.evidence \in Evidence \cup {Silent}
    /\ review.evidence \in Evidence \cup {Silent}
    /\ Len(repairs) = Len(ended) /\ Len(history) = pass
    /\ found = <<>> \/ found \in [1..Len(Tasks) -> Evidence]
    /\ \A id \in RepairId :
          /\ spec[id].status \in {"unknown", "pending", "running", "completed", "failed"}
          /\ result[id].evidence \in Evidence \cup {Silent}

(* What a process takes over from the journal for a repair was done for the *)
(* very gap that it repairs: identifiers start from CONV-P01-001 in every   *)
(* process, but gaps are found anew, with another review.                   *)
(* (register_tasks compares what is durable with what is asked for.)        *)
SeedsFitTheirGap ==
    phase = "repairing" =>
        \A i \in DOMAIN ended :
            ended[i].status = "COMPLETED" => result[Id(i)].gap = repairs[i]

(* A run that has converged has completed every repair it began, although   *)
(* another one may have closed the gap of one that failed; it keeps a       *)
(* result of, or for, every task; and none of what it keeps speaks against  *)
(* a criterion.                                                             *)
(* (evaluate, run: what failed stays among the states.)                     *)
ConvergedIsWhole ==
    phase = "converged" =>
        /\ \A p \in DOMAIN history : \A i \in 1..history[p] :
              \E s \in Range(states) : s.id = <<p, i>> /\ s.status = "COMPLETED"
        /\ \A t \in Task :
              \E s \in Range(states) :
                  \/ s.id = Plain(t)
                  \/ s.id \in RepairId /\ Source(spec[s.id].gap) = t
        /\ \A s \in Range(states), k \in Criterion : s.evidence[k] # "failed"

=============================================================================
