--------------------------- MODULE PlanExecution ---------------------------
(***************************************************************************)
(* The execution of one approved plan: run_plan_execution and its          *)
(* execute_task (AgenteGlobalCore.py) over the run journal                 *)
(* (runtime/run_journal.py), with operator cancellation, process crashes   *)
(* and /resume.                                                            *)
(*                                                                         *)
(* A process runs scheduler passes, one per round of the repair loop.  A   *)
(* pass is made of the steps of TaskLifecycle, which DAGScheduler is shown *)
(* to implement.  The journal file is what survives the process: every     *)
(* call of the journal is one atomic replacement of that file.             *)
(*                                                                         *)
(* place is where the process is: "idle" (no process works on the run),    *)
(* "pass" (in scheduler.run), "record" (in record_scheduler_result, one    *)
(* write per task), "review" (awaiting the reviewer).                      *)
(*                                                                         *)
(* The journal keeps apart BLOCKED, FAILED_FINAL and CANCELLED; recovery   *)
(* does not, and the three are "CLOSED" here.  A task it calls COMPLETED   *)
(* always has a result.                                                    *)
(***************************************************************************)
EXTENDS FiniteSets, TaskTable

CONSTANTS
    Idempotent,       \* tasks whose metadata says so
    MaxConcurrency,
    MaxRepairs,       \* max_repairs
    MaxResumes        \* bound: how often the operator resumes the run

ASSUME ExecutionAssumption ==
    /\ IsFiniteSet(Task)
    /\ Idempotent \subseteq Task
    /\ MaxConcurrency \in Nat \ {0}
    /\ MaxRepairs \in 0..10
    /\ MaxResumes \in Nat

VARIABLES
    plan,
    runStatus,        \* journal: status of the run, "none" before create_run
    task,             \* journal: status and side-effect state of each task
    place, round,     \* where the process is, repair_attempt
    phase, tries,     \* the scheduler's table of the current pass
    answer,           \* what the executor of an active task returned
    targets,          \* repair_targets
    unrecorded,       \* tasks record_scheduler_result has yet to write
    resumed,          \* how often the run was resumed
    terminalResume,   \* the process resumed a run with nothing left to do
    stale,            \* durable results computed from a superseded result
    refused,          \* durable results the AFTER_TASK hook refused
    interrupted       \* effects cut short: executing when the process ended

durable == <<runStatus, task>>
memory  == <<place, round, phase, tries, answer, targets, unrecorded>>
history == <<resumed, terminalResume, stale, refused, interrupted>>
vars == <<plan, runStatus, task, place, round, phase, tries, answer, targets,
          unrecorded, resumed, terminalResume, stale, refused, interrupted>>

Pass == INSTANCE TaskLifecycle WITH stopping <- FALSE

-----------------------------------------------------------------------------
(* The journal *)

TaskStatus == {"PENDING", "RUNNING", "COMPLETED", "FAILED_RETRYABLE", "CLOSED"}
Effect     == {"none", "in_progress", "completed", "ambiguous"}
RunStatus  == {"none", "pending", "running", "completed", "failed", "cancelled",
               "review_required"}

Write(t, status, effect) ==
    task' = [task EXCEPT ![t] = [status |-> status, effect |-> effect]]

Mutating(t) == t \notin plan.readOnly

(* What may be repeated without asking: it reads only, or says so itself.   *)
Repeatable(t) == ~Mutating(t) \/ t \in Idempotent

(* recovery_state                                                           *)
(* Faulty variant: the results of reading tasks are not worth keeping.      *)
CompletedMutations == { t \in Task : task[t].status = "COMPLETED" /\ Mutating(t) }

CompletedTasks == { t \in Task : task[t].status = "COMPLETED" }

(* Faulty variant: trusts the side-effect state, which a crash never wrote. *)
AmbiguousTasks ==
    { t \in Task : /\ task[t].status = "RUNNING"
                   /\ task[t].effect = "ambiguous"
                   /\ ~Repeatable(t) }

ReviewTasks == { t \in Task : task[t].status = "RUNNING" /\ ~Repeatable(t) }

RetryTasks ==
    { t \in Task : \/ task[t].status \in {"PENDING", "FAILED_RETRYABLE"}
                   \/ task[t].status = "RUNNING" /\ Repeatable(t) }

Disposition ==
    IF ReviewTasks # {} THEN "review_required"
    ELSE IF RetryTasks # {} THEN "resumable" ELSE "terminal"

-----------------------------------------------------------------------------
(* Passes *)

(* repair_closure: the requested tasks and all that depends on them.        *)
(* Faulty variant: only what was asked for.                                 *)
RepairRequested(requested) == requested

RepairClosure(requested) ==
    requested \cup { t \in Task : Ancestors(plan, t) \cap requested # {} }

BeginPass(number, seeds) ==
    /\ place' = "pass"
    /\ round' = number
    /\ phase' = [t \in Task |-> IF t \in seeds THEN "succeeded" ELSE "waiting"]
    /\ tries' = [t \in Task |-> 0]
    /\ answer' = [t \in Task |-> "none"]
    /\ unrecorded' = {}

(* The process is gone, or has returned to the operator.                    *)
Leave ==
    /\ place' = "idle"
    /\ round' = 0
    /\ phase' = [t \in Task |-> "waiting"]
    /\ tries' = [t \in Task |-> 0]
    /\ answer' = [t \in Task |-> "none"]
    /\ targets' = Task
    /\ unrecorded' = {}
    /\ terminalResume' = FALSE
    /\ interrupted' = interrupted \cup
          { t \in Task : phase[t] = "active" /\ answer[t] = "none" /\ ~Repeatable(t) }

InPass == place = "pass"

(* Faulty variant: a task that was never run does not count as settled.     *)
PassExecuted == \A t \in Task : phase[t] \in {"succeeded", "failed", "withdrawn"}

PassOver == \A t \in Task : phase[t] \notin {"waiting", "active"}

(* Faulty variant: only tasks that ran can have failed.                     *)
FailedExecutions == { t \in Task : phase[t] = "failed" }

Failed == { t \in Task : phase[t] # "succeeded" }

-----------------------------------------------------------------------------

Init ==
    /\ plan \in ValidPlans
    /\ runStatus = "none"
    /\ task = [t \in Task |-> [status |-> "PENDING", effect |-> "none"]]
    /\ place = "idle"
    /\ round = 0
    /\ phase = [t \in Task |-> "waiting"]
    /\ tries = [t \in Task |-> 0]
    /\ answer = [t \in Task |-> "none"]
    /\ targets = Task
    /\ unrecorded = {}
    /\ resumed = 0
    /\ terminalResume = FALSE
    /\ stale = {}
    /\ refused = {}
    /\ interrupted = {}

(* create_run, then the first pass with no seeds.                           *)
CreateRun ==
    /\ place = "idle"
    /\ runStatus = "none"
    /\ runStatus' = "pending"
    /\ BeginPass(0, {})
    /\ UNCHANGED <<plan, task, targets, history>>

(* prepare_resume refuses: interrupted work would be repeated blindly.      *)
ResumeRefused ==
    /\ place = "idle"
    /\ runStatus # "none"
    /\ resumed < MaxResumes
    /\ Disposition = "review_required"
    /\ runStatus' = "review_required"
    /\ resumed' = resumed + 1
    /\ UNCHANGED <<plan, task, memory, terminalResume, stale, refused, interrupted>>

(* prepare_resume accepts; completed tasks seed the first pass.  A terminal *)
(* run is left as it is in the journal, and executed all the same.          *)
Resume ==
    /\ place = "idle"
    /\ runStatus # "none"
    /\ resumed < MaxResumes
    /\ Disposition # "review_required"
    /\ task' = [t \in Task |->
                  IF t \in RetryTasks
                  THEN [status |-> "PENDING", effect |-> "none"] ELSE task[t]]
    /\ runStatus' = IF Disposition = "terminal" THEN runStatus ELSE "running"
    /\ terminalResume' = (Disposition = "terminal")
    /\ resumed' = resumed + 1
    /\ BeginPass(0, CompletedTasks)
    /\ UNCHANGED <<plan, targets, stale, refused, interrupted>>

-----------------------------------------------------------------------------
(* One task of a pass *)

(* The scheduler starts the task and execute_task publishes it.             *)
StartTask(t) ==
    /\ InPass
    /\ Pass!Start(t)
    /\ Write(t, "RUNNING", "in_progress")
    /\ runStatus' = "running"
    /\ UNCHANGED <<plan, place, round, answer, targets, unrecorded, history>>

(* A result is persisted before the scheduler sees it.                      *)
Returned(t, result) ==
    /\ InPass
    /\ phase[t] = "active"
    /\ answer[t] = "none"
    /\ answer' = [answer EXCEPT ![t] = result]
    /\ refused' = refused \ {t}
    /\ UNCHANGED <<plan, place, round, phase, tries, targets, unrecorded, resumed,
                   terminalResume, interrupted>>

ReturnsCompleted(t) ==
    /\ Returned(t, "completed")
    /\ Write(t, "COMPLETED", "completed")
    /\ stale' = (stale \ {t}) \cup { u \in CompletedTasks : t \in plan.deps[u] }
    /\ UNCHANGED runStatus

AfterFailure(t) == IF Mutating(t) THEN "ambiguous" ELSE "none"

ReturnsRetryable(t) ==
    /\ Returned(t, "retryable")
    /\ Write(t, "FAILED_RETRYABLE", AfterFailure(t))
    /\ UNCHANGED <<runStatus, stale>>

ReturnsFinal(t) ==
    /\ Returned(t, "final")
    /\ Write(t, "CLOSED", AfterFailure(t))
    /\ UNCHANGED <<runStatus, stale>>

(* The body raises, or is cancelled (by the task's timeout, or by itself):  *)
(* only the run's status is written, the task stays RUNNING in the journal. *)
ReturnsNothing(t) ==
    /\ \/ Returned(t, "raised") /\ runStatus' = "failed"
       \/ Returned(t, "timeout") /\ runStatus' = "cancelled"
       \/ Returned(t, "cancelled") /\ runStatus' = "cancelled"
    /\ UNCHANGED <<task, stale>>

(* The scheduler settles an answered task.                                  *)
Settle(t) ==
    /\ InPass
    /\ answer[t] # "none"
    /\ answer' = [answer EXCEPT ![t] = "none"]
    /\ UNCHANGED <<plan, place, round, targets, unrecorded, durable, resumed,
                   terminalResume, stale, interrupted>>

SettleAccepted(t) ==
    /\ Settle(t)
    /\ UNCHANGED refused
    /\ \/ answer[t] = "completed" /\ Pass!End(t, "succeeded")
       \/ answer[t] \in {"retryable", "timeout"} /\ Pass!Retry(t)
       \/ /\ answer[t] \in {"retryable", "timeout"}
          /\ tries[t] > plan.maxRetries[t]
          /\ Pass!End(t, "failed")
       \/ answer[t] \in {"final", "raised"} /\ Pass!End(t, "failed")
       \/ answer[t] = "cancelled" /\ Pass!End(t, "withdrawn")

(* The AFTER_TASK hook refuses it: a failure, and no retry.                 *)
SettleRefused(t) ==
    /\ Settle(t)
    /\ answer[t] # "cancelled"
    /\ Pass!End(t, "failed")
    /\ refused' = IF answer[t] = "completed" THEN refused \cup {t} ELSE refused

(* The BEFORE_TASK hook refuses the task, or it is doomed.                  *)
GiveUp(t) ==
    /\ InPass
    /\ Pass!Refuse(t) \/ Pass!Skip(t)
    /\ UNCHANGED <<plan, place, round, answer, targets, unrecorded, durable, history>>

-----------------------------------------------------------------------------
(* After the pass *)

EndPass ==
    /\ InPass
    /\ PassOver
    /\ place' = "record"
    /\ unrecorded' = Task
    /\ UNCHANGED <<plan, durable, round, phase, tries, answer, targets, history>>

(* record_scheduler_result, one task at a time.                             *)
RecordNext(t) ==
    /\ place = "record"
    /\ IsFirst(t, unrecorded)
    /\ unrecorded' = unrecorded \ {t}
    /\ IF phase[t] = "succeeded"
       THEN Write(t, "COMPLETED", "completed")
       ELSE Write(t, "CLOSED", task[t].effect)
    /\ UNCHANGED <<plan, runStatus, place, round, phase, tries, answer, targets,
                   history>>

EndRecord ==
    /\ place = "record"
    /\ unrecorded = {}
    /\ place' = "review"
    /\ UNCHANGED <<plan, durable, round, phase, tries, answer, targets, unrecorded,
                   history>>

Finish(verdict) ==
    /\ runStatus' = verdict
    /\ Leave
    /\ UNCHANGED <<plan, task, resumed, stale, refused>>

(* A worker asked for a larger scope: the run is put aside before review.   *)
ScopeExpansion ==
    /\ place = "record"
    /\ unrecorded = {}
    /\ Finish("cancelled")

ReviewFails == place = "review" /\ Finish("failed")

(* An approval counts only when every task completed.                       *)
Approve ==
    /\ place = "review"
    /\ Failed = {}
    /\ Finish("completed")

(* A rejection names tasks; failed ones are added to them, and an approval  *)
(* of a pass with failed tasks is turned into a rejection naming these.     *)
Rejected(requested) ==
    /\ place = "review"
    /\ requested # {}
    /\ Failed \subseteq requested

(* The loop runs max_repairs + 1 times.  Faulty variant: once more.         *)
MayRepairOnceMore == round <= MaxRepairs

MayRepair == round < MaxRepairs

Repair(requested) ==
    /\ Rejected(requested)
    /\ MayRepair
    /\ targets' = RepairClosure(requested)
    /\ BeginPass(round + 1, Task \ (targets' \cup Failed))
    /\ UNCHANGED <<plan, durable, history>>

RepairExhausted(requested) ==
    /\ Rejected(requested)
    /\ ~MayRepair
    /\ Finish("failed")

-----------------------------------------------------------------------------
(* What ends a process early *)

(* Ctrl+C reaches scheduler.run: its executors are cancelled and the run is *)
(* marked; nothing is recorded of the tasks.                                *)
CancelRun == InPass /\ Finish("cancelled")

(* scheduler.run raises (a hook with another exception than HookError) or a *)
(* write of the journal fails in record_scheduler_result: the run is failed *)
(* and nothing more is recorded.  The handler stops no executor, nor does   *)
(* the scheduler's after a second Ctrl+C; those still at work then, which   *)
(* write to the journal later, are left out.                                *)
FailRun ==
    /\ place \in {"pass", "record"}
    /\ \A t \in Task : phase[t] = "active" => answer[t] # "none"
    /\ Finish("failed")

(* The process dies, or is cancelled where nothing catches it.              *)
Crash == place # "idle" /\ Finish(runStatus)

-----------------------------------------------------------------------------

ProcessStep ==
    \/ EndPass \/ EndRecord \/ ScopeExpansion \/ ReviewFails \/ Approve
    \/ \E t \in Task :
          \/ StartTask(t) \/ GiveUp(t)
          \/ ReturnsCompleted(t) \/ ReturnsRetryable(t) \/ ReturnsFinal(t)
          \/ ReturnsNothing(t) \/ SettleAccepted(t) \/ SettleRefused(t)
          \/ RecordNext(t)
    \/ \E requested \in SUBSET Task : Repair(requested) \/ RepairExhausted(requested)

Next == CreateRun \/ Resume \/ ResumeRefused \/ ProcessStep \/ CancelRun \/ FailRun \/ Crash

Spec == Init /\ [][Next]_vars

(* Executors have a timeout and the reviewer a bounded number of requests;  *)
(* the operator need not resume, cancel or crash anything.                  *)
FairSpec == Spec /\ WF_vars(ProcessStep)

-----------------------------------------------------------------------------
(* Properties *)

TypeOK ==
    /\ plan \in ValidPlans
    /\ runStatus \in RunStatus
    /\ task \in [Task -> [status : TaskStatus, effect : Effect]]
    /\ place \in {"idle", "pass", "record", "review"}
    /\ round \in 0..MaxRepairs
    /\ phase \in [Task -> Pass!Phase]
    /\ tries \in [Task -> Nat]
    /\ answer \in [Task -> {"none", "completed", "retryable", "final", "raised",
                            "timeout", "cancelled"}]
    /\ targets \subseteq Task
    /\ unrecorded \subseteq Task
    /\ resumed \in 0..MaxResumes
    /\ terminalResume \in BOOLEAN
    /\ stale \subseteq Task
    /\ refused \subseteq Task
    /\ interrupted \subseteq Task

(* Completed work is repeated only by a repair round that asked for it:     *)
(* mark_task_started never has to refuse a replay, in the first process or  *)
(* after any crash and resume.                                              *)
NoReplay ==
    [][\A t \in Task :
          /\ phase[t] = "waiting"
          /\ phase'[t] = "active"
          /\ task[t].status = "COMPLETED"
          => round > 0 /\ t \in targets]_vars

(* A run becomes completed only with every task completed in the journal,   *)
(* whatever the reviewer decided and however often the run was resumed.     *)
CompletedRunIsWhole ==
    [][runStatus # "completed" /\ runStatus' = "completed"
          => \A t \in Task : task[t].status = "COMPLETED"]_vars

(* Without a crash or a resume in between, no approved run holds a result   *)
(* computed from a dependency's result that a repair has since replaced.    *)
FreshWithoutResume ==
    runStatus = "completed" /\ resumed = 0 => stale = {}

(* An effect that was cut short by a crash or a cancellation, and may not   *)
(* be repeated, keeps the run out of every process from then on.            *)
InterruptedEffectWaits == interrupted # {} => place = "idle"

(* Every process gives the run back.                                        *)
ProcessEnds == place # "idle" ~> place = "idle"

(* "Keep its durable terminal state stable across repeated /resume calls".  *)
TerminalRunStaysStable == [][terminalResume => UNCHANGED durable]_vars

(* "Resume exige revalidação das tasks com efeito externo ambíguo": no task *)
(* a resumed run will execute has an unrepeatable effect in doubt.          *)
AmbiguousEffectsReviewed ==
    [][\A t \in Task :
          /\ place = "idle"
          /\ place' = "pass"
          /\ phase'[t] = "waiting"
          /\ task[t].effect \in {"in_progress", "ambiguous"}
          => Repeatable(t)]_vars

(* "dependentes serão incluídos deterministicamente pelo runtime": no       *)
(* approved run holds a result computed from a superseded one.              *)
ApprovedResultsAreFresh == runStatus = "completed" => stale = {}

(* "fail-closed blocking and validation semantics": no process starts from  *)
(* a result that the AFTER_TASK hook refused.                               *)
RefusedResultsNotSeeded ==
    [][place = "idle" /\ place' = "pass"
          => \A t \in refused : phase'[t] # "succeeded"]_vars

=============================================================================
