---------------------------- MODULE DAGScheduler ----------------------------
(***************************************************************************)
(* One pass of the DAG scheduler, runtime/scheduler.py (DAGScheduler.run). *)
(*                                                                         *)
(* The scheduler is a coroutine.  It gives up the event loop only where it *)
(* awaits: an event emission after a state transition, a BEFORE_TASK or    *)
(* AFTER_TASK hook, asyncio.wait over the running futures, asyncio.gather  *)
(* in the cancellation handler.  The variable  suspended  is TRUE in the   *)
(* states where it may be parked at such an await; executors finish and an *)
(* operator's cancellation arrives only there.  Every other step is the    *)
(* code between two awaits, one iteration of a loop at a time.             *)
(*                                                                         *)
(* pc is the place in run():                                               *)
(*   "opening"   the emissions before the try block                        *)
(*   "promote"   the loop that re-examines every task                      *)
(*   "start"     the loop that starts ready tasks                          *)
(*   "before"    awaiting the BEFORE_TASK hook of  current                 *)
(*   "spawn"     current is RUNNING, its coroutine is not created yet      *)
(*   "wait"      asyncio.wait(running)                                     *)
(*   "complete"  the loop over the futures that were found done            *)
(*   "after"     awaiting the AFTER_TASK hook of  current                  *)
(*   "deadlock"  the loop that blocks the unresolved tasks                 *)
(*   "gather"    the cancellation handler waits for the executors          *)
(*   "drain"     the same, after a second cancellation                     *)
(*   "sweep"     the cancellation handler marks the unfinished tasks       *)
(*   "done", "cancelled"   run() returned, or raised after its handler     *)
(*   "aborted"   run() raised without completing the handler               *)
(***************************************************************************)
EXTENDS FiniteSets, TaskTable

CONSTANTS
    MaxConcurrency,
    MaxCancels,      \* bound: how often an operator cancels one run
    NoTask

ASSUME SchedulerAssumption ==
    /\ NoTask \notin Task
    /\ IsFiniteSet(Task)
    /\ MaxConcurrency \in Nat \ {0}
    /\ MaxCancels \in Nat

VARIABLES
    plan,             \* the task table of this pass
    status,           \* _states[t].status
    attempt,          \* _states[t].attempt
    reason,           \* _states[t].reason, by kind
    resourceBlocked,  \* _resource_blocked
    leases,           \* _locks
    running,          \* the tasks whose future is in the dict  running
    future,           \* what became of the coroutine of each task
    pc, todo, current,
    suspended,        \* parked at an await
    cancels

taskVars == <<status, attempt, reason>>
vars == <<plan, status, attempt, reason, resourceBlocked, leases, running,
          future, pc, todo, current, suspended, cancels>>

-----------------------------------------------------------------------------
(* Vocabulary *)

Status == {"PENDING", "READY", "RUNNING", "COMPLETED", "BLOCKED",
           "FAILED_RETRYABLE", "FAILED_FINAL", "CANCELLED"}

Terminal == {"COMPLETED", "BLOCKED", "FAILED_FINAL", "CANCELLED"}

Reason == {"none", "seeded", "dependencies_completed", "dependency_failed",
           "retry_scheduled", "resource_recheck", "resource_conflict",
           "hook_blocked", "resources_acquired", "executor_cancelled",
           "executor_blocked", "retryable_failure", "final_failure",
           "scheduler_cancelled", "scheduler_deadlock"}

(* What a finished future holds.  "unusable" stands for an exception of the *)
(* executor, a payload that is no AgentResult, or the result of another     *)
(* task; "interrupted" for CancelledError.                                  *)
Outcome == {"completed", "blocked", "cancelled", "retryable", "failed",
            "unusable", "interrupted"}

AllowedTransitions ==
    [ PENDING          |-> {"READY", "BLOCKED", "CANCELLED"},
      READY            |-> {"RUNNING", "BLOCKED", "CANCELLED"},
      RUNNING          |-> {"COMPLETED", "FAILED_RETRYABLE", "FAILED_FINAL",
                            "BLOCKED", "CANCELLED"},
      BLOCKED          |-> {"BLOCKED", "READY", "CANCELLED"},
      FAILED_RETRYABLE |-> {"READY", "FAILED_FINAL", "CANCELLED"},
      COMPLETED        |-> {},
      FAILED_FINAL     |-> {},
      CANCELLED        |-> {} ]

Ended == {"done", "cancelled", "aborted"}
Handling == {"gather", "drain", "sweep"}

-----------------------------------------------------------------------------
(* State functions *)

Lock(t) == Wanted(plan, t)

(* Faulty variant: a dependency that has not failed is good enough.         *)
NoDependencyFailed(t) ==
    \A d \in plan.deps[t] : status[d] \notin {"BLOCKED", "FAILED_FINAL", "CANCELLED"}

DependenciesCompleted(t) == \A d \in plan.deps[t] : status[d] = "COMPLETED"

(* Faulty variant: a dependency put aside for a resource counts as failed.  *)
BlockedDependencies(t) ==
    { d \in plan.deps[t] : status[d] \in {"BLOCKED", "FAILED_FINAL", "CANCELLED"} }

FailedDependencies(t) ==
    { d \in plan.deps[t] : /\ status[d] \in {"BLOCKED", "FAILED_FINAL", "CANCELLED"}
                           /\ d \notin resourceBlocked }

(* Faulty variants: the resource-blocked set is forgotten; so is COMPLETED. *)
FinalByStatus(t) == status[t] \in Terminal

FinalUnlessCompleted(t) ==
    status[t] \in {"BLOCKED", "FAILED_FINAL", "CANCELLED"} /\ t \notin resourceBlocked

Final(t) == status[t] \in Terminal /\ t \notin resourceBlocked

First(t) == IsFirst(t, todo)

Finished(t) == future[t] \in Outcome

(* Faulty variants: the futures are not awaited; a failure is not noticed.  *)
NobodyAwaited == TRUE

AllCompleted == \A t \in running : future[t] = "completed"

AllFinished == \A t \in running : Finished(t)

(* Attempts are counted from one.                                           *)
MayRetry(t) == attempt[t] <= plan.maxRetries[t]

(* _transition: the table changes, then the event is awaited.               *)
Move(t, s, why) ==
    /\ status' = [status EXCEPT ![t] = s]
    /\ reason' = [reason EXCEPT ![t] = why]

GoTo(place, parked) == pc' = place /\ suspended' = parked

-----------------------------------------------------------------------------
(* __init__ accepts any set of completed results as seeds. *)

Init ==
    /\ plan \in ValidPlans
    /\ \E seeded \in SUBSET Task :
          /\ status = [t \in Task |-> IF t \in seeded THEN "COMPLETED" ELSE "PENDING"]
          /\ reason = [t \in Task |-> IF t \in seeded THEN "seeded" ELSE "none"]
    /\ attempt = [t \in Task |-> 0]
    /\ resourceBlocked = {}
    /\ leases = {}
    /\ running = {}
    /\ future = [t \in Task |-> "none"]
    /\ pc = "opening"
    /\ todo = {}
    /\ current = NoTask
    /\ suspended = TRUE
    /\ cancels = 0

BeginPass ==
    /\ \/ pc = "opening"
       \/ pc = "complete" /\ todo = {}
    /\ todo' = Task
    /\ GoTo("promote", FALSE)
    /\ UNCHANGED <<plan, taskVars, resourceBlocked, leases, running, future,
                   current, cancels>>

-----------------------------------------------------------------------------
(* One iteration of the loop over all tasks, lines 452-480 *)

Examine(t) ==
    /\ pc = "promote"
    /\ First(t)
    /\ todo' = todo \ {t}
    /\ UNCHANGED <<plan, attempt, leases, running, future, pc, current, cancels>>

PromoteFinal(t) ==
    /\ Examine(t)
    /\ Final(t)
    /\ suspended' = FALSE
    /\ UNCHANGED <<status, reason, resourceBlocked>>

Blockable(t) ==
    \/ status[t] \in {"PENDING", "READY"}
    \/ status[t] = "BLOCKED" /\ t \in resourceBlocked

PromoteBlock(t) ==
    /\ Examine(t)
    /\ ~Final(t)
    /\ FailedDependencies(t) # {}
    /\ resourceBlocked' = resourceBlocked \ {t}
    /\ IF Blockable(t)
       THEN Move(t, "BLOCKED", "dependency_failed") /\ suspended' = TRUE
       ELSE suspended' = FALSE /\ UNCHANGED <<status, reason>>

PromoteRetry(t) ==
    /\ Examine(t)
    /\ status[t] = "FAILED_RETRYABLE"
    /\ FailedDependencies(t) = {}
    /\ Move(t, "READY", "retry_scheduled")
    /\ suspended' = TRUE
    /\ UNCHANGED resourceBlocked

PromoteReady(t) ==
    /\ Examine(t)
    /\ status[t] = "PENDING"
    /\ FailedDependencies(t) = {}
    /\ DependenciesCompleted(t)
    /\ Move(t, "READY", "dependencies_completed")
    /\ suspended' = TRUE
    /\ UNCHANGED resourceBlocked

PromoteRecheck(t) ==
    /\ Examine(t)
    /\ status[t] = "BLOCKED"
    /\ t \in resourceBlocked
    /\ FailedDependencies(t) = {}
    /\ resourceBlocked' = resourceBlocked \ {t}
    /\ Move(t, "READY", "resource_recheck")
    /\ suspended' = TRUE

PromoteLeave(t) ==
    /\ Examine(t)
    /\ \/ status[t] \in {"READY", "RUNNING"}
       \/ status[t] = "PENDING" /\ ~DependenciesCompleted(t)
    /\ FailedDependencies(t) = {}
    /\ suspended' = FALSE
    /\ UNCHANGED <<status, reason, resourceBlocked>>

-----------------------------------------------------------------------------
(* Starting tasks, lines 482-527.  The code's counter  slots  is            *)
(* MaxConcurrency minus the size of  running  all along the loop.           *)

BeginStarting ==
    /\ pc = "promote"
    /\ todo = {}
    /\ todo' = { t \in Task : status[t] = "READY" }
    /\ GoTo("start", FALSE)
    /\ UNCHANGED <<plan, taskVars, resourceBlocked, leases, running, future,
                   current, cancels>>

SlotFree == Cardinality(running) < MaxConcurrency

StartBlocked(t) ==
    /\ pc = "start"
    /\ First(t)
    /\ SlotFree
    /\ ~CanAcquire(leases, Lock(t))
    /\ todo' = todo \ {t}
    /\ resourceBlocked' = resourceBlocked \cup {t}
    /\ Move(t, "BLOCKED", "resource_conflict")
    /\ suspended' = TRUE
    /\ UNCHANGED <<plan, attempt, leases, running, future, pc, current, cancels>>

StartAcquire(t) ==
    /\ pc = "start"
    /\ First(t)
    /\ SlotFree
    /\ CanAcquire(leases, Lock(t))
    /\ todo' = todo \ {t}
    /\ leases' = Acquire(leases, Lock(t))
    /\ current' = t
    /\ GoTo("before", TRUE)
    /\ UNCHANGED <<plan, taskVars, resourceBlocked, running, future, cancels>>

HookAllowsStart ==
    /\ pc = "before"
    /\ Move(current, "RUNNING", "resources_acquired")
    /\ attempt' = [attempt EXCEPT ![current] = @ + 1]
    /\ GoTo("spawn", TRUE)
    /\ UNCHANGED <<plan, resourceBlocked, leases, running, future, todo, current,
                   cancels>>

HookRefusesStart ==
    /\ pc = "before"
    /\ leases' = Release(leases, current)
    /\ Move(current, "BLOCKED", "hook_blocked")
    /\ current' = NoTask
    /\ GoTo("start", TRUE)
    /\ UNCHANGED <<plan, attempt, resourceBlocked, running, future, todo, cancels>>

Spawn ==
    /\ pc = "spawn"
    /\ future' = [future EXCEPT ![current] = "pending"]
    /\ running' = running \cup {current}
    /\ current' = NoTask
    /\ GoTo("start", FALSE)
    /\ UNCHANGED <<plan, taskVars, resourceBlocked, leases, todo, cancels>>

(* The loop is over: wait for an executor, return, or block what is left.   *)
EndStarting ==
    /\ pc = "start"
    /\ todo = {} \/ ~SlotFree
    /\ UNCHANGED <<plan, taskVars, resourceBlocked, leases, running, future,
                   current, cancels>>
    /\ \/ /\ running # {}
          /\ todo' = {}
          /\ GoTo("wait", TRUE)
       \/ /\ running = {}
          /\ \A t \in Task : status[t] \in Terminal
          /\ todo' = {}
          /\ GoTo("done", TRUE)
       \/ /\ running = {}
          /\ \E t \in Task : status[t] \notin Terminal
          /\ todo' = { t \in Task : status[t] \notin Terminal }
          /\ GoTo("deadlock", FALSE)

DeadlockBlock(t) ==
    /\ pc = "deadlock"
    /\ First(t)
    /\ todo' = todo \ {t}
    /\ Move(t, "BLOCKED", "scheduler_deadlock")
    /\ suspended' = TRUE
    /\ UNCHANGED <<plan, attempt, resourceBlocked, leases, running, future, pc,
                   current, cancels>>

EndDeadlock ==
    /\ pc = "deadlock"
    /\ todo = {}
    /\ GoTo("done", TRUE)
    /\ UNCHANGED <<plan, taskVars, resourceBlocked, leases, running, future,
                   todo, current, cancels>>

-----------------------------------------------------------------------------
(* Executors.  They run on the scheduler's event loop, so a future changes  *)
(* only while the scheduler is parked, or once run() is over.               *)

ExecutorMayFinish(t) ==
    /\ future[t] = "pending"
    /\ suspended

ExecutorReturns(t) ==
    /\ ExecutorMayFinish(t)
    /\ \E o \in Outcome : future' = [future EXCEPT ![t] = o]
    /\ UNCHANGED <<plan, taskVars, resourceBlocked, leases, running, pc, todo,
                   current, suspended, cancels>>

(* _execute_with_timeout turns the timeout into a retryable failure.        *)
ExecutorTimesOut(t) ==
    /\ ExecutorMayFinish(t)
    /\ future' = [future EXCEPT ![t] = "retryable"]
    /\ UNCHANGED <<plan, taskVars, resourceBlocked, leases, running, pc, todo,
                   current, suspended, cancels>>

-----------------------------------------------------------------------------
(* Completions, lines 529-534 and _complete_running_task *)

(* asyncio.wait resumes with every future that is done by then; those that  *)
(* finish later wait for the next round.                                    *)
Wake ==
    /\ pc = "wait"
    /\ \E t \in running : Finished(t)
    /\ todo' = { t \in running : Finished(t) }
    /\ GoTo("complete", FALSE)
    /\ UNCHANGED <<plan, taskVars, resourceBlocked, leases, running, future,
                   current, cancels>>

(* Faulty variant: it is not noted whose result is being looked at.         *)
CompleteAnonymously(t) ==
    /\ pc = "complete"
    /\ First(t)
    /\ todo' = todo \ {t}
    /\ running' = running \ {t}
    /\ leases' = Release(leases, t)
    /\ GoTo("after", TRUE)
    /\ UNCHANGED <<plan, taskVars, resourceBlocked, future, current, cancels>>

CompleteNext(t) ==
    /\ pc = "complete"
    /\ First(t)
    /\ todo' = todo \ {t}
    /\ running' = running \ {t}
    /\ leases' = Release(leases, t)
    /\ current' = t
    /\ GoTo("after", TRUE)
    /\ UNCHANGED <<plan, taskVars, resourceBlocked, future, cancels>>

(* The transition that follows a result.                                    *)
Settle(t, result) ==
    \/ result = "completed" /\ Move(t, "COMPLETED", "none")
    \/ result = "cancelled" /\ Move(t, "CANCELLED", "executor_cancelled")
    \/ result = "interrupted" /\ Move(t, "CANCELLED", "scheduler_cancelled")
    \/ result = "blocked" /\ Move(t, "BLOCKED", "executor_blocked")
    \/ /\ result = "retryable"
       /\ MayRetry(t)
       /\ Move(t, "FAILED_RETRYABLE", "retryable_failure")
    \/ /\ \/ result \in {"failed", "unusable"}
          \/ result = "retryable" /\ ~MayRetry(t)
       /\ Move(t, "FAILED_FINAL", "final_failure")

AfterHookReturns ==
    /\ pc = "after"
    /\ future' = [future EXCEPT ![current] = "none"]
    /\ current' = NoTask
    /\ GoTo("complete", TRUE)
    /\ UNCHANGED <<plan, attempt, resourceBlocked, leases, running, todo, cancels>>

HookAcceptsResult == AfterHookReturns /\ Settle(current, future[current])

(* A refused result becomes a failure that is not retried; an interrupted   *)
(* task stays cancelled whatever the hook says.                             *)
HookRefusesResult ==
    /\ AfterHookReturns
    /\ Settle(current, IF future[current] = "interrupted"
                       THEN "interrupted" ELSE "failed")

-----------------------------------------------------------------------------
(* The ways out other than the end of the loop *)

(* A hook may raise something that is not a HookError: nothing handles it.  *)
HookRaises ==
    /\ pc \in {"before", "after"}
    /\ GoTo("aborted", TRUE)
    /\ UNCHANGED <<plan, taskVars, resourceBlocked, leases, running, future,
                   todo, current, cancels>>

(* Cancelled before the try block: run() raises and touches nothing.        *)
CancelOpening ==
    /\ pc = "opening"
    /\ GoTo("aborted", TRUE)

(* Cancelled inside it: the handler cancels the futures and awaits them.    *)
CancelPass ==
    /\ pc \notin {"opening"} \cup Handling \cup Ended
    /\ GoTo("gather", TRUE)

(* A second cancellation reaches the handler itself: gather still waits for *)
(* the executors, then raises; an emission raises at once.                  *)
CancelHandler ==
    \/ pc = "gather" /\ running # {} /\ GoTo("drain", TRUE)
    \/ pc = "sweep" /\ GoTo("aborted", TRUE)

Cancel ==
    /\ suspended
    /\ cancels < MaxCancels
    /\ cancels' = cancels + 1
    /\ CancelOpening \/ CancelPass \/ CancelHandler
    /\ UNCHANGED <<plan, taskVars, resourceBlocked, leases, running, future,
                   todo, current>>

Gathered ==
    /\ pc = "gather"
    /\ AllFinished
    /\ leases' = {}
    /\ todo' = Task
    /\ GoTo("sweep", FALSE)
    /\ UNCHANGED <<plan, taskVars, resourceBlocked, running, future, current, cancels>>

Drained ==
    /\ pc = "drain"
    /\ AllFinished
    /\ GoTo("aborted", TRUE)
    /\ UNCHANGED <<plan, taskVars, resourceBlocked, leases, running, future,
                   todo, current, cancels>>

Sweep(t) ==
    /\ pc = "sweep"
    /\ First(t)
    /\ todo' = todo \ {t}
    /\ IF Final(t)
       THEN suspended' = FALSE /\ UNCHANGED <<status, reason>>
       ELSE Move(t, "CANCELLED", "scheduler_cancelled") /\ suspended' = TRUE
    /\ UNCHANGED <<plan, attempt, resourceBlocked, leases, running, future, pc,
                   current, cancels>>

EndSweep ==
    /\ pc = "sweep"
    /\ todo = {}
    /\ resourceBlocked' = {}
    /\ GoTo("cancelled", TRUE)
    /\ UNCHANGED <<plan, taskVars, leases, running, future, todo, current, cancels>>

-----------------------------------------------------------------------------
(* Specification *)

Promote(t) ==
    \/ PromoteFinal(t) \/ PromoteBlock(t) \/ PromoteRetry(t)
    \/ PromoteReady(t) \/ PromoteRecheck(t) \/ PromoteLeave(t)

SchedulerStep ==
    \/ BeginPass \/ BeginStarting \/ EndStarting \/ EndDeadlock
    \/ HookAllowsStart \/ HookRefusesStart \/ Spawn
    \/ Wake \/ HookAcceptsResult \/ HookRefusesResult \/ HookRaises
    \/ Gathered \/ Drained \/ EndSweep
    \/ \E t \in Task :
          \/ Promote(t) \/ StartBlocked(t) \/ StartAcquire(t)
          \/ DeadlockBlock(t) \/ CompleteNext(t) \/ Sweep(t)

ExecutorStep(t) == ExecutorReturns(t) \/ ExecutorTimesOut(t)

Next ==
    \/ SchedulerStep
    \/ \E t \in Task : ExecutorStep(t)
    \/ Cancel

Spec == Init /\ [][Next]_vars

(* The event loop keeps running a coroutine that can proceed, and the       *)
(* timeout of every task ends its executor; nobody has to cancel.           *)
FairSpec ==
    /\ Spec
    /\ WF_vars(SchedulerStep)
    /\ \A t \in Task : WF_vars(ExecutorStep(t))

-----------------------------------------------------------------------------
(* Properties *)

Executing == { t \in Task : future[t] = "pending" }

TypeOK ==
    /\ plan \in ValidPlans
    /\ status \in [Task -> Status]
    /\ attempt \in [Task -> Nat]
    /\ reason \in [Task -> Reason]
    /\ resourceBlocked \subseteq Task
    /\ leases \subseteq Lease
    /\ running \subseteq Task
    /\ future \in [Task -> {"none", "pending"} \cup Outcome]
    /\ pc \in {"opening", "promote", "start", "before", "spawn", "wait",
               "complete", "after", "deadlock"} \cup Handling \cup Ended
    /\ todo \subseteq Task
    /\ current \in IF pc \in {"before", "spawn", "after"}
                   THEN Task ELSE Task \cup {NoTask}
    /\ suspended \in BOOLEAN
    /\ cancels \in 0..MaxCancels

(* Two executors never run at the same time with clashing resources: not    *)
(* across retries, not while the cancellation handler waits for executors,  *)
(* not when run() has been left by an exception.                            *)
ExclusiveExecution ==
    \A t, u \in Executing : t # u => ~Clash(plan, t, u)

(* Why ExclusiveExecution holds: each executor owns the lease of its task,   *)
(* the leases in force never conflict, and a lease is given up only by a    *)
(* task that is not executing.                                              *)
LockDiscipline ==
    /\ \A l \in leases : l = Lock(l.task)
    /\ \A l, m \in leases : l # m => ~Conflict(l, m)
    /\ \A t \in Executing :
          t \in running /\ status[t] = "RUNNING" /\ Lock(t) \in leases
    /\ pc \in {"start", "before", "spawn"} => \A t \in todo : status[t] = "READY"
    /\ pc \in {"complete", "after"} => \A t \in todo : Finished(t)
    /\ pc \in {"before", "spawn", "after"} => current \notin todo
    /\ pc = "before" => status[current] = "READY" /\ Lock(current) \in leases
    /\ pc = "spawn" => status[current] = "RUNNING" /\ Lock(current) \in leases
    /\ pc = "after" => Finished(current)
    /\ pc = "deadlock" => running = {}
    /\ pc \in {"sweep", "done", "cancelled"} => Executing = {}

(* An executor runs only over completed dependencies, and they are still    *)
(* completed when it ends.                                                  *)
DependenciesHold == \A t \in Executing : DependenciesCompleted(t)

(* While the scheduler waits, exactly the tasks it waits for own leases,    *)
(* and a run that ends through its loop or its handler leaves none behind.  *)
NoLeaseLeak ==
    /\ pc = "wait" => { l.task : l \in leases } = running
    /\ pc \in {"done", "cancelled"} => leases = {}

(* A task put aside for a resource is put aside for somebody: whenever the  *)
(* scheduler sleeps, a clashing task is running and will wake it.  It never *)
(* stays aside when run() ends (its BLOCKED counts as terminal at line 536).*)
ResourceBlockIsTemporary ==
    /\ pc = "wait" =>
          \A t \in resourceBlocked : \E u \in running : Clash(plan, t, u)
    /\ pc \in {"done", "cancelled"} => resourceBlocked = {}

(* When the loop ends by itself, every task completed, came to a bad end of *)
(* its own, or depends on a task that did not complete.                     *)
NoTaskAbandoned ==
    pc = "done" =>
        \A t \in Task :
            \/ status[t] = "COMPLETED"
            \/ reason[t] \in {"executor_blocked", "executor_cancelled",
                              "scheduler_cancelled", "final_failure", "hook_blocked"}
            \/ \E d \in plan.deps[t] : status[d] # "COMPLETED"

(* A run whose cancellation handler finished has no executor left and no    *)
(* task undecided, wherever the cancellation struck.                        *)
CancelledRunIsQuiet ==
    pc = "cancelled" =>
        /\ Executing = {}
        /\ \A t \in Task : status[t] \in Terminal

(* _transition never raises TaskTransitionError.                            *)
LegalTransitions ==
    [][\A t \in Task : status'[t] # status[t]
          => status'[t] \in AllowedTransitions[status[t]]]_vars

(* run() comes to an end: no deadlock between tasks that wait for each      *)
(* other's resources, no endless recheck or retry.                          *)
Termination == <>(pc \in Ended)

-----------------------------------------------------------------------------
(* The pass implements the lifecycle promise. *)

PhaseOf(t) ==
    IF status[t] \in {"PENDING", "READY", "FAILED_RETRYABLE"} THEN "waiting"
    ELSE IF status[t] = "RUNNING" THEN "active"
    ELSE IF status[t] = "COMPLETED" THEN "succeeded"
    ELSE IF status[t] = "BLOCKED" /\ t \in resourceBlocked THEN "waiting"
    ELSE IF reason[t] = "hook_blocked" THEN "refused"
    ELSE IF reason[t] \in {"dependency_failed", "scheduler_deadlock"} THEN "skipped"
    ELSE IF reason[t] = "scheduler_cancelled" THEN "withdrawn"
    ELSE "failed"

Lifecycle == INSTANCE TaskLifecycle
    WITH phase    <- [t \in Task |-> PhaseOf(t)],
         tries    <- attempt,
         stopping <- cancels > 0

(* Every step of the scheduler is a step of TaskLifecycle or changes        *)
(* nothing of it.                                                           *)
ImplementsLifecycle == Lifecycle!Spec

=============================================================================
