------------------------- MODULE DAGSchedulerProofs -------------------------
(***************************************************************************)
(* Theorems about the DAG scheduler, for every task table, every number of *)
(* tasks, every concurrency and any number of cancellations.  First the    *)
(* types and the lock discipline.  Then what a pass does to its tasks: it  *)
(* implements TaskLifecycle, and ends without forgetting a task, a lease   *)
(* or a resource conflict.                                                 *)
(*                                                                         *)
(* The second part rests on one inductive invariant, Books.  The scheduler *)
(* checks hardly anything twice: it relies, across its awaits, on what     *)
(* earlier loops left behind in the statuses, leases, dict of futures and  *)
(* set of blocked tasks.  Each book says how two of these agree, place by  *)
(* place.                                                                  *)
(***************************************************************************)
EXTENDS DAGScheduler, FiniteSetTheorems, TLAPS

-----------------------------------------------------------------------------
(* The lock operators *)

(* Conflict does not depend on who holds and who asks.                      *)
LEMMA ConflictSymmetric ==
    ASSUME NEW l \in Lease, NEW m \in Lease
    PROVE  Conflict(l, m) <=> Conflict(m, l)
BY DEF Conflict, Lease

(* The lease a task asks for is a lease, in its own name.                   *)
LEMMA LockType ==
    ASSUME plan \in ValidPlans, NEW t \in Task
    PROVE  Lock(t) \in Lease /\ Lock(t).task = t
<1>1. /\ plan.reads[t] \in SUBSET Name
      /\ plan.writes[t] \in SUBSET Name
  BY PlansAssumption DEF ValidPlans
<1>2. WriteSet(plan, t) \in SUBSET Name
  BY <1>1, GlobalAssumption DEF WriteSet
<1>3. /\ Normalized(plan.reads[t]) \subseteq Name
      /\ Normalized(WriteSet(plan, t)) \subseteq Name
  BY <1>1, <1>2, GlobalAssumption DEF Normalized
<1> QED
  BY <1>3 DEF Lock, Wanted, LeaseFor, Lease

(* Tasks whose plan lets them touch the same thing ask for leases that      *)
(* conflict: splitting reads from writes loses no clash.                    *)
LEMMA ClashIsConflict ==
    ASSUME NEW t \in Task, NEW u \in Task, Clash(plan, t, u)
    PROVE  Conflict(Lock(t), Lock(u))
BY DEF Clash, Changes, Touches, Conflict, Lock, Wanted, LeaseFor

-----------------------------------------------------------------------------
(* Type correctness *)

LEMMA InitType == Init => TypeOK
<1> SUFFICES ASSUME Init PROVE TypeOK
  OBVIOUS
<1>1. status \in [Task -> Status] /\ reason \in [Task -> Reason]
  BY DEF Init, Status, Reason
<1>2. cancels \in 0..MaxCancels /\ attempt \in [Task -> Nat]
  BY SchedulerAssumption DEF Init
<1> QED
  BY <1>1, <1>2 DEF Init, TypeOK, Handling, Ended, Lease

LEMMA MoveType ==
    ASSUME TypeOK, NEW t \in Task, NEW s \in Status, NEW why \in Reason,
           Move(t, s, why)
    PROVE  status' \in [Task -> Status] /\ reason' \in [Task -> Reason]
BY DEF TypeOK, Move

LEMMA PromoteType ==
    ASSUME TypeOK, NEW t \in Task, Promote(t)
    PROVE  TypeOK'
<1>1. /\ Examine(t)
      /\ resourceBlocked' \subseteq resourceBlocked
      /\ suspended' \in BOOLEAN
  BY DEF Promote, PromoteFinal, PromoteBlock, PromoteRetry, PromoteReady,
         PromoteRecheck, PromoteLeave, TypeOK
<1>2. \/ UNCHANGED <<status, reason>>
      \/ \E s \in Status, why \in Reason : Move(t, s, why)
  BY DEF Promote, PromoteFinal, PromoteBlock, PromoteRetry, PromoteReady,
         PromoteRecheck, PromoteLeave, Status, Reason
<1>3. status' \in [Task -> Status] /\ reason' \in [Task -> Reason]
  BY <1>2, MoveType DEF TypeOK
<1> QED
  BY <1>1, <1>3 DEF TypeOK, Examine

LEMMA SettleType ==
    ASSUME TypeOK, NEW t \in Task, NEW result, Settle(t, result)
    PROVE  status' \in [Task -> Status] /\ reason' \in [Task -> Reason]
<1>1. \E s \in Status, why \in Reason : Move(t, s, why)
  BY DEF Settle, Status, Reason
<1> QED
  BY <1>1, MoveType

LEMMA NextType == TypeOK /\ [Next]_vars => TypeOK'
<1> SUFFICES ASSUME TypeOK, [Next]_vars PROVE TypeOK'
  OBVIOUS
<1> USE DEF GoTo, taskVars
<1>1. ASSUME NEW t \in Task, Promote(t) PROVE TypeOK'
  BY <1>1, PromoteType
<1>2. CASE BeginPass \/ BeginStarting \/ EndStarting \/ EndDeadlock
  BY <1>2 DEF TypeOK, BeginPass, BeginStarting, EndStarting, EndDeadlock,
              Handling, Ended
<1>3. ASSUME NEW t \in Task, StartBlocked(t) PROVE TypeOK'
  BY <1>3, MoveType DEF TypeOK, StartBlocked, Status, Reason
<1>4. ASSUME NEW t \in Task, StartAcquire(t) PROVE TypeOK'
  BY <1>4, LockType DEF TypeOK, StartAcquire, Acquire
<1>5. CASE HookAllowsStart
  <2>1. current \in Task /\ attempt' \in [Task -> Nat]
    BY <1>5 DEF TypeOK, HookAllowsStart
  <2> QED
    BY <1>5, <2>1, MoveType DEF TypeOK, HookAllowsStart, Status, Reason
<1>6. CASE HookRefusesStart
  BY <1>6, MoveType DEF TypeOK, HookRefusesStart, Release, Status, Reason
<1>7. CASE Spawn
  BY <1>7 DEF TypeOK, Spawn
<1>8. ASSUME NEW t \in Task, DeadlockBlock(t) PROVE TypeOK'
  BY <1>8, MoveType DEF TypeOK, DeadlockBlock, Status, Reason
<1>9. ASSUME NEW t \in Task, ExecutorStep(t) PROVE TypeOK'
  BY <1>9 DEF TypeOK, ExecutorStep, ExecutorReturns, ExecutorTimesOut, Outcome
<1>10. CASE Wake
  BY <1>10 DEF TypeOK, Wake
<1>11. ASSUME NEW t \in Task, CompleteNext(t) PROVE TypeOK'
  BY <1>11 DEF TypeOK, CompleteNext, Release
<1>12. CASE HookAcceptsResult \/ HookRefusesResult
  <2>1. current \in Task
    BY <1>12 DEF TypeOK, HookAcceptsResult, HookRefusesResult, AfterHookReturns
  <2>2. status' \in [Task -> Status] /\ reason' \in [Task -> Reason]
    BY <1>12, <2>1, SettleType DEF HookAcceptsResult, HookRefusesResult
  <2> QED
    BY <1>12, <2>1, <2>2
    DEF TypeOK, HookAcceptsResult, HookRefusesResult, AfterHookReturns
<1>13. CASE HookRaises
  BY <1>13 DEF TypeOK, HookRaises, Ended
<1>14. CASE Cancel
  <2>1. cancels' \in 0..MaxCancels
    BY <1>14, SchedulerAssumption DEF TypeOK, Cancel
  <2>2. pc' \in {"aborted", "gather", "drain"} /\ suspended' = TRUE
    BY <1>14 DEF Cancel, CancelOpening, CancelPass, CancelHandler
  <2>3. UNCHANGED <<plan, taskVars, resourceBlocked, leases, running, future,
                    todo, current>>
    BY <1>14 DEF Cancel
  <2> QED
    BY <2>1, <2>2, <2>3 DEF TypeOK, Handling, Ended
<1>15. CASE Gathered \/ Drained \/ EndSweep
  BY <1>15 DEF TypeOK, Gathered, Drained, EndSweep, Handling, Ended
<1>16. ASSUME NEW t \in Task, Sweep(t) PROVE TypeOK'
  BY <1>16, MoveType DEF TypeOK, Sweep, Status, Reason
<1>17. CASE UNCHANGED vars
  BY <1>17 DEF TypeOK, vars
<1> QED
  BY <1>1, <1>2, <1>3, <1>4, <1>5, <1>6, <1>7, <1>8, <1>9, <1>10, <1>11,
     <1>12, <1>13, <1>14, <1>15, <1>16, <1>17 DEF Next, SchedulerStep

(* Every variable of the scheduler keeps its type.                          *)
THEOREM TypeCorrect == Spec => []TypeOK
BY InitType, NextType, PTL DEF Spec

-----------------------------------------------------------------------------
(* Exclusive execution *)

LEMMA InitLocks == Init => LockDiscipline
BY DEF Init, LockDiscipline, Executing

(* What the steps that leave the locks and the futures alone preserve.      *)
LEMMA LocksKept ==
    ASSUME TypeOK, LockDiscipline,
           UNCHANGED <<plan, leases, running, future>>,
           \A t \in Executing : status'[t] = status[t]
    PROVE  /\ Executing' = Executing
           /\ (\A l \in leases : l = Lock(l.task))'
           /\ (\A l, m \in leases : l # m => ~Conflict(l, m))'
           /\ (\A t \in Executing :
                 t \in running /\ status[t] = "RUNNING" /\ Lock(t) \in leases)'
BY DEF LockDiscipline, Executing, Lock

(* Taking a lease that conflicts with none.                                 *)
LEMMA AcquireKeeps ==
    ASSUME TypeOK, LockDiscipline, NEW t \in Task, CanAcquire(leases, Lock(t)),
           leases' = Acquire(leases, Lock(t)), plan' = plan
    PROVE  /\ (\A l \in leases : l = Lock(l.task))'
           /\ (\A l, m \in leases : l # m => ~Conflict(l, m))'
<1>1. Lock(t) \in Lease /\ Lock(t).task = t /\ leases \subseteq Lease
  BY LockType DEF TypeOK
<1>2. \A l \in leases : ~Conflict(Lock(t), l)
  BY DEF CanAcquire, ConflictingTasks
<1>3. \A l \in leases : ~Conflict(l, Lock(t))
  BY <1>1, <1>2, ConflictSymmetric
<1>4. \A u : Lock(u)' = Lock(u)
  BY DEF Lock
<1>5. \A l \in leases' : l = Lock(l.task)
  BY <1>1 DEF Acquire, LockDiscipline
<1>6. \A l, m \in leases' : l # m => ~Conflict(l, m)
  BY <1>2, <1>3 DEF Acquire, LockDiscipline
<1> QED
  BY <1>4, <1>5, <1>6

(* Giving up the lease of a task that is not executing.                     *)
LEMMA ReleaseKeeps ==
    ASSUME TypeOK, LockDiscipline, NEW t \in Task, t \notin Executing,
           leases' = Release(leases, t), plan' = plan,
           running' \in {running, running \ {t}},
           Executing' = Executing,
           \A u \in Executing : status'[u] = status[u]
    PROVE  /\ (\A l \in leases : l = Lock(l.task))'
           /\ (\A l, m \in leases : l # m => ~Conflict(l, m))'
           /\ (\A u \in Executing :
                 u \in running /\ status[u] = "RUNNING" /\ Lock(u) \in leases)'
<1>1. \A u : Lock(u)' = Lock(u)
  BY DEF Lock
<1>2. \A u \in Executing : u \in Task /\ Lock(u).task = u
  BY LockType DEF Executing, TypeOK
<1>3. \A u \in Executing : u # t
  OBVIOUS
<1> QED
  BY <1>1, <1>2, <1>3 DEF LockDiscipline, Release

LEMMA PromoteLocks ==
    ASSUME TypeOK, LockDiscipline, NEW t \in Task, Promote(t)
    PROVE  LockDiscipline'
<1>1. /\ Examine(t)
      /\ \/ UNCHANGED status
         \/ status[t] # "RUNNING" /\ \E s \in Status, why \in Reason : Move(t, s, why)
  BY DEF Promote, PromoteFinal, PromoteBlock, PromoteRetry, PromoteReady,
         PromoteRecheck, PromoteLeave, Blockable, Status, Reason
<1>2. \A u \in Executing : status'[u] = status[u]
  BY <1>1 DEF LockDiscipline, Move, TypeOK, Executing
<1>3. pc' = "promote" /\ UNCHANGED <<plan, leases, running, future>>
  BY <1>1 DEF Examine
<1> QED
  BY <1>2, <1>3, LocksKept DEF LockDiscipline

LEMMA SettleLocks ==
    ASSUME TypeOK, LockDiscipline, HookAcceptsResult \/ HookRefusesResult
    PROVE  LockDiscipline'
<1>1. /\ AfterHookReturns
      /\ current \in Task
      /\ Finished(current)
  BY DEF HookAcceptsResult, HookRefusesResult, AfterHookReturns, LockDiscipline, TypeOK
<1>2. \E s \in Status, why \in Reason : Move(current, s, why)
  BY DEF HookAcceptsResult, HookRefusesResult, Settle, Status, Reason
<1>3. Executing' = Executing /\ current \notin Executing
  BY <1>1 DEF AfterHookReturns, Finished, Executing, TypeOK, Outcome
<1>4. \A u \in Executing : status'[u] = status[u]
  BY <1>2, <1>3 DEF Move, TypeOK, Executing
<1>5. \A u : Lock(u)' = Lock(u)
  BY <1>1 DEF AfterHookReturns, Lock
<1>6. pc' = "complete" /\ UNCHANGED <<leases, running, todo>>
  BY <1>1 DEF AfterHookReturns, GoTo
<1>7. (\A t \in todo : Finished(t))'
  BY <1>1, <1>6 DEF LockDiscipline, AfterHookReturns, Finished, TypeOK
<1> QED
  BY <1>3, <1>4, <1>5, <1>6, <1>7 DEF LockDiscipline

LEMMA NextLocks == TypeOK /\ LockDiscipline /\ [Next]_vars => LockDiscipline'
<1> SUFFICES ASSUME TypeOK, LockDiscipline, [Next]_vars PROVE LockDiscipline'
  OBVIOUS
<1> USE DEF GoTo, taskVars
<1>1. ASSUME NEW t \in Task, Promote(t) PROVE LockDiscipline'
  BY <1>1, PromoteLocks
<1>2. CASE BeginPass \/ BeginStarting \/ EndStarting \/ EndDeadlock
  <2>1. UNCHANGED <<plan, leases, running, future, status>>
    BY <1>2 DEF BeginPass, BeginStarting, EndStarting, EndDeadlock
  <2>2. EndStarting /\ running = {} => Executing = {}
    BY DEF LockDiscipline
  <2>3. EndDeadlock => Executing = {}
    BY DEF EndDeadlock, LockDiscipline
  <2> QED
    BY <1>2, <2>1, <2>2, <2>3, LocksKept
    DEF LockDiscipline, BeginPass, BeginStarting, EndStarting, EndDeadlock
<1>3. ASSUME NEW t \in Task, StartBlocked(t) PROVE LockDiscipline'
  <2>1. status[t] = "READY" /\ Move(t, "BLOCKED", "resource_conflict")
    BY <1>3 DEF StartBlocked, First, IsFirst, LockDiscipline
  <2>2. \A u \in Task \ {t} : status'[u] = status[u]
    BY <2>1 DEF Move, TypeOK
  <2>3. \A u \in Executing : status'[u] = status[u]
    BY <2>1, <2>2 DEF LockDiscipline, Executing
  <2> QED
    BY <1>3, <2>2, <2>3, LocksKept DEF StartBlocked, LockDiscipline, TypeOK
<1>4. ASSUME NEW t \in Task, StartAcquire(t) PROVE LockDiscipline'
  <2>1. /\ CanAcquire(leases, Lock(t))
        /\ leases' = Acquire(leases, Lock(t))
        /\ UNCHANGED <<plan, status, running, future>>
    BY <1>4 DEF StartAcquire
  <2>2. Executing' = Executing /\ \A u : Lock(u)' = Lock(u)
    BY <2>1 DEF Executing, Lock
  <2>3. leases \subseteq leases' /\ Lock(t) \in leases'
    BY <2>1 DEF Acquire
  <2>4. status[t] = "READY" /\ t \notin todo' /\ todo' \subseteq todo
    BY <1>4 DEF StartAcquire, First, IsFirst, LockDiscipline
  <2> QED
    BY <1>4, <2>1, <2>2, <2>3, <2>4, AcquireKeeps DEF LockDiscipline, StartAcquire
<1>5. CASE HookAllowsStart
  <2>1. current \in Task /\ current \notin Executing
    BY <1>5 DEF HookAllowsStart, LockDiscipline, TypeOK
  <2>2. status'[current] = "RUNNING" /\ \A u \in Task \ {current} : status'[u] = status[u]
    BY <1>5, <2>1 DEF HookAllowsStart, Move, TypeOK
  <2>3. \A u \in Executing : status'[u] = status[u]
    BY <2>1, <2>2 DEF Executing
  <2>4. \A u : Lock(u)' = Lock(u)
    BY <1>5 DEF HookAllowsStart, Lock
  <2> QED
    BY <1>5, <2>1, <2>2, <2>3, <2>4, LocksKept
    DEF HookAllowsStart, LockDiscipline, TypeOK
<1>6. CASE HookRefusesStart
  <2>1. current \in Task /\ current \notin Executing
    BY <1>6 DEF HookRefusesStart, LockDiscipline, TypeOK
  <2>2. \A u \in Task \ {current} : status'[u] = status[u]
    BY <1>6, <2>1 DEF HookRefusesStart, Move, TypeOK
  <2>3. Executing' = Executing /\ \A u \in Executing : status'[u] = status[u]
    BY <1>6, <2>1, <2>2 DEF Executing, HookRefusesStart
  <2>4. /\ (\A l \in leases : l = Lock(l.task))'
        /\ (\A l, m \in leases : l # m => ~Conflict(l, m))'
        /\ (\A u \in Executing :
              u \in running /\ status[u] = "RUNNING" /\ Lock(u) \in leases)'
    BY <1>6, <2>1, <2>3, ReleaseKeeps DEF HookRefusesStart
  <2> QED
    BY <1>6, <2>1, <2>2, <2>4 DEF HookRefusesStart, LockDiscipline, TypeOK
<1>7. CASE Spawn
  <2>1. current \in Task /\ Executing' = Executing \cup {current}
    BY <1>7 DEF Spawn, TypeOK, Executing
  <2>2. \A u : Lock(u)' = Lock(u)
    BY <1>7 DEF Spawn, Lock
  <2> QED
    BY <1>7, <2>1, <2>2 DEF Spawn, LockDiscipline
<1>8. ASSUME NEW t \in Task, DeadlockBlock(t) PROVE LockDiscipline'
  <2>1. Executing = {}
    BY <1>8 DEF DeadlockBlock, LockDiscipline
  <2> QED
    BY <1>8, <2>1, LocksKept DEF DeadlockBlock, LockDiscipline
<1>9. ASSUME NEW t \in Task, ExecutorStep(t) PROVE LockDiscipline'
  <2>1. \E o \in Outcome : future' = [future EXCEPT ![t] = o]
    BY <1>9 DEF ExecutorStep, ExecutorReturns, ExecutorTimesOut, Outcome
  <2>2. UNCHANGED <<plan, status, leases, running, pc, todo, current>>
    BY <1>9 DEF ExecutorStep, ExecutorReturns, ExecutorTimesOut
  <2>3. Executing' \subseteq Executing
    BY <2>1 DEF Executing, TypeOK, Outcome
  <2>4. \A u \in Task : Finished(u) => Finished(u)'
    BY <2>1 DEF Finished, TypeOK
  <2>5. \A u : Lock(u)' = Lock(u)
    BY <2>2 DEF Lock
  <2> QED
    BY <2>2, <2>3, <2>4, <2>5 DEF LockDiscipline, TypeOK
<1>10. CASE Wake
  <2>1. Executing' = Executing /\ \A u : Lock(u)' = Lock(u)
    BY <1>10 DEF Wake, Executing, Lock
  <2> QED
    BY <1>10, <2>1 DEF Wake, LockDiscipline, Finished
<1>11. ASSUME NEW t \in Task, CompleteNext(t) PROVE LockDiscipline'
  <2>1. Finished(t) /\ t \notin Executing
    BY <1>11 DEF CompleteNext, First, IsFirst, LockDiscipline, Finished, Executing, Outcome
  <2>2. Executing' = Executing /\ \A u \in Executing : status'[u] = status[u]
    BY <1>11 DEF CompleteNext, Executing
  <2>3. /\ (\A l \in leases : l = Lock(l.task))'
        /\ (\A l, m \in leases : l # m => ~Conflict(l, m))'
        /\ (\A u \in Executing :
              u \in running /\ status[u] = "RUNNING" /\ Lock(u) \in leases)'
    BY <1>11, <2>1, <2>2, ReleaseKeeps DEF CompleteNext
  <2> QED
    BY <1>11, <2>1, <2>3 DEF CompleteNext, LockDiscipline, Finished
<1>12. CASE HookAcceptsResult \/ HookRefusesResult
  BY <1>12, SettleLocks
<1>13. CASE HookRaises
  BY <1>13, LocksKept DEF HookRaises, LockDiscipline
<1>14. CASE Cancel
  <2>1. /\ pc' \in {"aborted", "gather", "drain"}
        /\ UNCHANGED <<plan, status, leases, running, future, todo, current>>
    BY <1>14 DEF Cancel, CancelOpening, CancelPass, CancelHandler
  <2> QED
    BY <2>1, LocksKept DEF LockDiscipline
<1>15. CASE Gathered
  <2>1. Executing = {}
    BY <1>15 DEF Gathered, AllFinished, LockDiscipline, Finished, Executing, Outcome
  <2> QED
    BY <1>15, <2>1 DEF Gathered, LockDiscipline, Executing
<1>16. CASE Drained \/ EndSweep
  <2>1. EndSweep => Executing = {}
    BY DEF EndSweep, LockDiscipline
  <2> QED
    BY <1>16, <2>1, LocksKept DEF Drained, EndSweep, LockDiscipline
<1>17. ASSUME NEW t \in Task, Sweep(t) PROVE LockDiscipline'
  <2>1. Executing = {}
    BY <1>17 DEF Sweep, LockDiscipline
  <2> QED
    BY <1>17, <2>1, LocksKept DEF Sweep, LockDiscipline
<1>18. CASE UNCHANGED vars
  <2>1. UNCHANGED <<plan, status, leases, running, future, pc, todo, current>>
    BY <1>18 DEF vars
  <2>2. Executing' = Executing /\ \A u : Lock(u)' = Lock(u)
    BY <2>1 DEF Executing, Lock
  <2>3. \A u : Finished(u)' <=> Finished(u)
    BY <2>1 DEF Finished
  <2> QED
    BY <2>1, <2>2, <2>3 DEF LockDiscipline
<1> QED
  BY <1>1, <1>2, <1>3, <1>4, <1>5, <1>6, <1>7, <1>8, <1>9, <1>10, <1>11, <1>12,
     <1>13, <1>14, <1>15, <1>16, <1>17, <1>18 DEF Next, SchedulerStep

(* The lock discipline is kept by every step of every run.                  *)
THEOREM LocksHeld == Spec => []LockDiscipline
<1>1. Init => TypeOK /\ LockDiscipline
  BY InitType, InitLocks
<1>2. TypeOK /\ LockDiscipline /\ [Next]_vars => (TypeOK /\ LockDiscipline)'
  BY NextType, NextLocks
<1> QED
  BY <1>1, <1>2, PTL DEF Spec

(* Executors whose declared resources clash never overlap in time: not      *)
(* across retries, cancellation, hook failures or a run left by exception.  *)
THEOREM Exclusion == Spec => []ExclusiveExecution
<1>1. TypeOK /\ LockDiscipline => ExclusiveExecution
  <2> SUFFICES ASSUME TypeOK, LockDiscipline, NEW t \in Executing,
                      NEW u \in Executing, t # u
               PROVE  ~Clash(plan, t, u)
    BY DEF ExclusiveExecution
  <2>1. Lock(t) # Lock(u)
    BY LockType DEF TypeOK, Executing
  <2> QED
    BY <2>1, ClashIsConflict DEF LockDiscipline, Executing
<1> QED
  BY <1>1, TypeCorrect, LocksHeld, PTL

-----------------------------------------------------------------------------
(* The books: the inductive invariant of a pass *)

Inside == {"opening", "promote", "start", "before", "spawn", "wait", "complete",
           "after", "deadlock"}

InHand(places) == IF pc \in places THEN {current} ELSE {}

(* Leases are held by the tasks in the dict  running, and by the one that   *)
(* is being started.                                                        *)
LeaseBook ==
    /\ pc \in Inside =>
          { l.task : l \in leases } = running \cup InHand({"before", "spawn"})
    /\ pc \in {"sweep", "done", "cancelled"} => leases = {}

(* The status RUNNING and the dict  running  agree, but for the task that   *)
(* is between the two.                                                      *)
RunningBook ==
    /\ pc \in Inside =>
          { t \in Task : status[t] = "RUNNING" } = running \cup InHand({"spawn", "after"})
    /\ pc \in {"before", "spawn", "after"} => current \notin running
    /\ pc \in {"complete", "after"} => todo \subseteq running
    /\ pc = "before" => SlotFree

(* A task is put aside for a running task it clashes with; each pass of the *)
(* first loop looks at all of them again.                                   *)
ResourceBook ==
    /\ \A t \in resourceBlocked :
          \/ status[t] = "BLOCKED"
          \/ pc \in {"sweep", "aborted"} /\ status[t] = "CANCELLED"
    /\ pc = "promote" => resourceBlocked \subseteq todo
    /\ pc \in {"start", "before", "spawn", "wait"} =>
          \A t \in resourceBlocked : \E u \in running : Clash(plan, t, u)
    /\ pc \in {"opening", "deadlock", "done", "cancelled"} => resourceBlocked = {}
    /\ pc = "sweep" =>
          \A t \in resourceBlocked :
             status[t] = IF t \in todo THEN "BLOCKED" ELSE "CANCELLED"

(* What was once promoted has its dependencies for good, and what waits has *)
(* an attempt left.                                                         *)
Entitled(t) ==
    status[t] \in {"READY", "RUNNING", "FAILED_RETRYABLE"} \/ t \in resourceBlocked

Waits(t) ==
    status[t] \in {"PENDING", "READY", "FAILED_RETRYABLE"} \/ t \in resourceBlocked

DependencyBook ==
    \A t \in Task :
        /\ Entitled(t) => DependenciesCompleted(t)
        /\ Waits(t) => MayRetry(t)

Examined(t) ==
    /\ status[t] # "FAILED_RETRYABLE"
    /\ status[t] = "PENDING" => ~DependenciesCompleted(t)

(* What each loop has left to do.                                           *)
ProgressBook ==
    /\ pc = "promote" => \A t \in Task : t \in todo \/ Examined(t)
    /\ pc \in {"start", "before", "spawn", "deadlock"} => \A t \in Task : Examined(t)
    /\ pc \in {"start", "before", "spawn"} =>
          \A t \in Task : status[t] = "READY" => t \in todo \cup InHand({"before"})
    /\ pc = "deadlock" =>
          \A t \in Task : IF t \in todo THEN status[t] = "PENDING"
                          ELSE status[t] \in Terminal
    /\ pc = "sweep" => \A t \in Task : t \in todo \/ status[t] \in Terminal
    /\ pc \in {"done", "cancelled"} => \A t \in Task : status[t] \in Terminal

OwnReasons == {"executor_blocked", "executor_cancelled", "final_failure",
               "scheduler_cancelled", "hook_blocked"}

BadReasons == OwnReasons \cup {"dependency_failed", "scheduler_deadlock"}

(* The reason recorded for a bad end is true, and stays true.               *)
ReasonBook ==
    \A t \in Task :
        /\ status[t] \in {"BLOCKED", "FAILED_FINAL", "CANCELLED"} =>
              \/ status[t] = "BLOCKED" /\ t \in resourceBlocked
              \/ reason[t] \in BadReasons
        /\ reason[t] = "dependency_failed" =>
              \E d \in plan.deps[t] : Final(d) /\ status[d] # "COMPLETED"
        /\ reason[t] = "scheduler_deadlock" =>
              /\ ~DependenciesCompleted(t)
              /\ pc \in {"deadlock"} \cup Handling \cup Ended

StopBook == pc \in Handling \cup {"cancelled"} => cancels > 0

Books ==
    /\ LeaseBook /\ RunningBook /\ ResourceBook /\ DependencyBook
    /\ ProgressBook /\ ReasonBook /\ StopBook

Inv == TypeOK /\ LockDiscipline /\ Books

-----------------------------------------------------------------------------
(* Lemmas about the plan *)

(* Leases conflict only when the plan makes the tasks clash.                *)
LEMMA ConflictIsClash ==
    ASSUME NEW t \in Task, NEW u \in Task, Conflict(Lock(t), Lock(u))
    PROVE  Clash(plan, t, u)
BY DEF Clash, Changes, Touches, Conflict, Lock, Wanted, LeaseFor

LEMMA DepsType ==
    ASSUME plan \in ValidPlans, NEW t \in Task
    PROVE  plan.deps[t] \subseteq Task /\ plan.maxRetries[t] \in Nat
BY PlansAssumption DEF ValidPlans

-----------------------------------------------------------------------------
(* The invariant holds at the beginning *)

LEMMA InitBooks == Init => Books
<1> SUFFICES ASSUME Init PROVE Books
  OBVIOUS
<1> USE DEF Init
<1>1. LeaseBook
  BY DEF LeaseBook, InHand, Inside
<1>2. RunningBook
  BY DEF RunningBook, InHand, Inside
<1>3. ResourceBook
  BY DEF ResourceBook
<1>4. DependencyBook
  BY DepsType DEF DependencyBook, Entitled, Waits, MayRetry
<1>5. ProgressBook
  BY DEF ProgressBook
<1>6. ReasonBook
  BY DEF ReasonBook
<1>7. StopBook
  BY DEF StopBook, Handling
<1> QED
  BY <1>1, <1>2, <1>3, <1>4, <1>5, <1>6, <1>7 DEF Books

-----------------------------------------------------------------------------
(* Transitions *)

Bad == {"BLOCKED", "FAILED_FINAL", "CANCELLED"}

(* One task moves: it was not final, the transition is in the table, only a *)
(* result completes a task, the reason of a bad end fits the place, and no  *)
(* other task is put aside or taken back.                                   *)
Moves(t) ==
    /\ ~Final(t)
    /\ \E s \in Status, why \in Reason :
          /\ Move(t, s, why)
          /\ s # status[t] => s \in AllowedTransitions[status[t]]
          /\ s = "COMPLETED" => pc = "after"
          /\ s \in Bad => \/ why \in BadReasons
                          \/ s = "BLOCKED" /\ t \in resourceBlocked'
          /\ why = "dependency_failed" => pc = "promote" /\ FailedDependencies(t) # {}
          /\ why = "scheduler_deadlock" => pc = "deadlock"
    /\ resourceBlocked' \ {t} = resourceBlocked \ {t}

NoMove ==
    /\ UNCHANGED <<status, reason>>
    /\ resourceBlocked' \subseteq resourceBlocked
    /\ \A t \in resourceBlocked \ resourceBlocked' : status[t] # "BLOCKED"

LEMMA MoveIs ==
    ASSUME NEW t \in Task, NEW s \in Status, NEW why \in Reason,
           ~Final(t), Move(t, s, why),
           s # status[t] => s \in AllowedTransitions[status[t]],
           s = "COMPLETED" => pc = "after",
           s \in Bad => \/ why \in BadReasons
                        \/ s = "BLOCKED" /\ t \in resourceBlocked',
           why = "dependency_failed" => pc = "promote" /\ FailedDependencies(t) # {},
           why = "scheduler_deadlock" => pc = "deadlock",
           resourceBlocked' \ {t} = resourceBlocked \ {t}
    PROVE  Moves(t)
BY DEF Moves

LEMMA PromoteMoves ==
    ASSUME Inv, NEW t \in Task, Promote(t)
    PROVE  NoMove \/ Moves(t)
<1> USE DEF NoMove, AllowedTransitions, Status, Reason, Bad, BadReasons, OwnReasons
<1>1. CASE PromoteFinal(t) \/ PromoteLeave(t)
  BY <1>1 DEF PromoteFinal, PromoteLeave
<1>2. CASE PromoteBlock(t)
  <2>1. CASE Blockable(t)
    BY <1>2, <2>1, MoveIs DEF PromoteBlock, Blockable, Examine
  <2>2. CASE ~Blockable(t)
    BY <1>2, <2>2 DEF PromoteBlock, Blockable
  <2> QED  BY <2>1, <2>2
<1>3. CASE PromoteRetry(t) \/ PromoteReady(t) \/ PromoteRecheck(t)
  <2>1. ~Final(t)
    BY <1>3 DEF PromoteRetry, PromoteReady, PromoteRecheck, Final, Terminal
  <2> QED
    BY <1>3, <2>1, MoveIs DEF PromoteRetry, PromoteReady, PromoteRecheck
<1> QED
  BY <1>1, <1>2, <1>3 DEF Promote

LEMMA SettleMoves ==
    ASSUME Inv, HookAcceptsResult \/ HookRefusesResult
    PROVE  current \in Task /\ status[current] = "RUNNING" /\ Moves(current)
<1>1. /\ pc = "after"
      /\ current \in Task
      /\ UNCHANGED resourceBlocked
      /\ \E result : Settle(current, result)
  BY DEF HookAcceptsResult, HookRefusesResult, AfterHookReturns, Inv, TypeOK
<1>2. status[current] = "RUNNING"
  BY <1>1 DEF Inv, Books, RunningBook, Inside, InHand
<1>3. ~Final(current)
  BY <1>2 DEF Final, Terminal
<1> QED
  BY <1>1, <1>2, <1>3, MoveIs
  DEF Settle, AllowedTransitions, Status, Reason, Bad, BadReasons, OwnReasons

(* Every step moves one task at most.                                       *)
LEMMA StepMoves ==
    ASSUME Inv, [Next]_vars
    PROVE  NoMove \/ \E t \in Task : Moves(t)
<1> USE DEF taskVars, AllowedTransitions, Status, Reason, Bad, BadReasons, OwnReasons
<1>1. ASSUME NEW t \in Task, Promote(t) PROVE NoMove \/ Moves(t)
  BY <1>1, PromoteMoves
<1>2. CASE BeginPass \/ BeginStarting \/ EndStarting \/ EndDeadlock
  BY <1>2 DEF BeginPass, BeginStarting, EndStarting, EndDeadlock, NoMove
<1>3. ASSUME NEW t \in Task, StartBlocked(t) PROVE Moves(t)
  <2>1. status[t] = "READY"
    BY <1>3 DEF StartBlocked, First, IsFirst, Inv, LockDiscipline
  <2> QED
    BY <1>3, <2>1, MoveIs DEF StartBlocked, Final, Terminal
<1>4. ASSUME NEW t \in Task, StartAcquire(t) PROVE NoMove
  BY <1>4 DEF StartAcquire, NoMove
<1>5. CASE HookAllowsStart \/ HookRefusesStart
  <2>1. current \in Task /\ status[current] = "READY"
    BY <1>5 DEF HookAllowsStart, HookRefusesStart, Inv, LockDiscipline, TypeOK
  <2>2. ~Final(current)
    BY <2>1 DEF Final, Terminal
  <2>3. CASE HookAllowsStart
    BY <2>1, <2>2, <2>3, MoveIs DEF HookAllowsStart
  <2>4. CASE HookRefusesStart
    BY <2>1, <2>2, <2>4, MoveIs DEF HookRefusesStart
  <2> QED  BY <1>5, <2>1, <2>3, <2>4
<1>6. CASE Spawn \/ Wake \/ HookRaises \/ Gathered \/ Drained
  BY <1>6 DEF Spawn, Wake, HookRaises, Gathered, Drained, NoMove
<1>7. ASSUME NEW t \in Task, DeadlockBlock(t) PROVE Moves(t)
  <2>1. status[t] = "PENDING"
    BY <1>7 DEF DeadlockBlock, First, IsFirst, Inv, Books, ProgressBook
  <2> QED
    BY <1>7, <2>1, MoveIs DEF DeadlockBlock, Final, Terminal
<1>8. ASSUME NEW t \in Task, ExecutorStep(t) \/ CompleteNext(t) PROVE NoMove
  BY <1>8 DEF ExecutorStep, ExecutorReturns, ExecutorTimesOut, CompleteNext, NoMove
<1>9. CASE HookAcceptsResult \/ HookRefusesResult
  BY <1>9, SettleMoves
<1>10. CASE Cancel
  BY <1>10 DEF Cancel, NoMove
<1>11. CASE EndSweep
  BY <1>11 DEF EndSweep, NoMove, Inv, Books, ResourceBook
<1>12. ASSUME NEW t \in Task, Sweep(t) PROVE NoMove \/ Moves(t)
  <2>1. CASE Final(t)
    BY <1>12, <2>1 DEF Sweep, NoMove
  <2>2. CASE ~Final(t)
    <3>1. status[t] \in Status \ {"COMPLETED", "FAILED_FINAL", "CANCELLED"}
      BY <1>12, <2>2 DEF Sweep, First, IsFirst, Final, Terminal, Status,
                         Inv, TypeOK, Books, ResourceBook
    <3> QED
      BY <1>12, <2>2, <3>1, MoveIs DEF Sweep
  <2> QED  BY <2>1, <2>2
<1>13. CASE UNCHANGED vars
  BY <1>13 DEF vars, NoMove
<1> QED
  BY <1>1, <1>2, <1>3, <1>4, <1>5, <1>6, <1>7, <1>8, <1>9, <1>10, <1>11, <1>12,
     <1>13 DEF Next, SchedulerStep

(* What has ended keeps its status and its reason.                          *)
LEMMA FinalStays ==
    ASSUME Inv, [Next]_vars, NEW t \in Task, Final(t)
    PROVE  status'[t] = status[t] /\ reason'[t] = reason[t] /\ Final(t)'
<1>1. CASE NoMove
  BY <1>1 DEF NoMove, Final
<1>2. ASSUME NEW u \in Task, Moves(u)
      PROVE  status'[t] = status[t] /\ reason'[t] = reason[t] /\ Final(t)'
  BY <1>2 DEF Moves, Move, Final, Inv, TypeOK
<1> QED
  BY <1>1, <1>2, StepMoves

(* A completed task is final: it is never put aside.                        *)
LEMMA CompletedIsFinal ==
    ASSUME Inv, NEW t \in Task, status[t] = "COMPLETED"
    PROVE  Final(t)
BY DEF Inv, Books, ResourceBook, Final, Terminal

LEMMA PlanStays == [Next]_vars => plan' = plan
BY DEF Next, SchedulerStep, BeginPass, BeginStarting, EndStarting, EndDeadlock,
       HookAllowsStart, HookRefusesStart, Spawn, Wake, HookAcceptsResult,
       HookRefusesResult, AfterHookReturns, HookRaises, Gathered, Drained, EndSweep,
       Promote, PromoteFinal, PromoteBlock, PromoteRetry, PromoteReady,
       PromoteRecheck, PromoteLeave, Examine, StartBlocked, StartAcquire,
       DeadlockBlock, CompleteNext, Sweep, ExecutorStep, ExecutorReturns,
       ExecutorTimesOut, Cancel, vars

(* Completed dependencies stay completed, and others are completed only by  *)
(* a result.                                                                *)
LEMMA DependenciesStay ==
    ASSUME Inv, [Next]_vars, NEW t \in Task
    PROVE  /\ DependenciesCompleted(t) => DependenciesCompleted(t)'
           /\ ~DependenciesCompleted(t) /\ pc # "after" => ~DependenciesCompleted(t)'
<1>1. plan' = plan /\ plan.deps[t] \subseteq Task
  BY PlanStays, DepsType DEF Inv, TypeOK
<1>2. ASSUME NEW d \in Task, status[d] = "COMPLETED" PROVE status'[d] = "COMPLETED"
  BY <1>2, CompletedIsFinal, FinalStays
<1>3. ASSUME NEW d \in Task, status[d] # "COMPLETED", pc # "after"
      PROVE  status'[d] # "COMPLETED"
  BY <1>3, StepMoves DEF NoMove, Moves, Move, Inv, TypeOK
<1> QED
  BY <1>1, <1>2, <1>3 DEF DependenciesCompleted

-----------------------------------------------------------------------------
(* Every step keeps the books.  Two groups of steps are alike for most of   *)
(* them: the loops at their ends, and the steps that leave the loops.       *)

LoopEnds == BeginPass \/ BeginStarting \/ EndStarting \/ EndDeadlock \/ Wake

Interruption == HookRaises \/ Cancel \/ Drained

LEMMA InterruptionFrame ==
    ASSUME Interruption
    PROVE  /\ UNCHANGED <<plan, status, attempt, reason, resourceBlocked, leases,
                          running, future, todo, current>>
           /\ pc' \in {"gather", "drain", "aborted"}
           /\ pc' \in {"gather", "drain"} => pc \notin {"sweep"} \cup Ended
BY DEF Handling, Ended, Interruption, HookRaises, Cancel, CancelOpening, CancelPass, CancelHandler,
       Drained, GoTo, taskVars

LEMMA LoopEndsFrame ==
    ASSUME LoopEnds
    PROVE  /\ UNCHANGED <<plan, status, attempt, reason, resourceBlocked, leases,
                          running, future, current, cancels>>
           /\ pc \in {"opening", "promote", "start", "wait", "complete", "deadlock"}
           /\ pc' \in {"promote", "start", "wait", "complete", "deadlock", "done"}
BY DEF LoopEnds, BeginPass, BeginStarting, EndStarting, EndDeadlock, Wake, GoTo,
       taskVars

LEMMA PromoteFrame ==
    ASSUME NEW t \in Task, Promote(t)
    PROVE  /\ UNCHANGED <<plan, attempt, leases, running, future, pc, current, cancels>>
           /\ pc = "promote" /\ First(t) /\ todo' = todo \ {t}
BY DEF Promote, PromoteFinal, PromoteBlock, PromoteRetry, PromoteReady,
       PromoteRecheck, PromoteLeave, Examine

LEMMA ExecutorFrame ==
    ASSUME NEW t \in Task, ExecutorStep(t)
    PROVE  UNCHANGED <<plan, status, attempt, reason, resourceBlocked, leases,
                       running, pc, todo, current, cancels>>
BY DEF ExecutorStep, ExecutorReturns, ExecutorTimesOut, taskVars

LEMMA ResultFrame ==
    ASSUME HookAcceptsResult \/ HookRefusesResult
    PROVE  /\ UNCHANGED <<plan, attempt, resourceBlocked, leases, running, todo, cancels>>
           /\ pc = "after" /\ pc' = "complete"
           /\ \E result : Settle(current, result)
BY DEF HookAcceptsResult, HookRefusesResult, AfterHookReturns, GoTo

LEMMA NextLeases ==
    ASSUME Inv, [Next]_vars
    PROVE  LeaseBook'
<1> USE DEF LeaseBook, InHand, Inside, GoTo, taskVars
<1>a. LeaseBook /\ TypeOK
  BY DEF Inv, Books
<1>1. ASSUME NEW t \in Task, Promote(t) PROVE LeaseBook'
  BY <1>a, <1>1, PromoteFrame
<1>2. CASE LoopEnds
  <2>1. pc' = "done" => running = {}
    BY <1>2 DEF LoopEnds, BeginPass, BeginStarting, EndStarting, EndDeadlock, Wake,
                Inv, LockDiscipline
  <2> QED
    BY <1>a, <1>2, <2>1, LoopEndsFrame
<1>3. ASSUME NEW t \in Task, StartBlocked(t) \/ DeadlockBlock(t) \/ Sweep(t)
      PROVE  LeaseBook'
  BY <1>a, <1>3 DEF StartBlocked, DeadlockBlock, Sweep
<1>4. ASSUME NEW t \in Task, StartAcquire(t) PROVE LeaseBook'
  <2>1. Lock(t).task = t
    BY <1>a, LockType DEF TypeOK
  <2> QED
    BY <1>a, <1>4, <2>1 DEF StartAcquire, Acquire
<1>5. CASE HookAllowsStart \/ Spawn
  BY <1>a, <1>5 DEF HookAllowsStart, Spawn
<1>6. CASE HookRefusesStart
  <2>1. current \notin running
    BY <1>6 DEF HookRefusesStart, Inv, Books, RunningBook
  <2> QED
    BY <1>a, <1>6, <2>1 DEF HookRefusesStart, Release
<1>7. ASSUME NEW t \in Task, ExecutorStep(t) PROVE LeaseBook'
  BY <1>a, <1>7, ExecutorFrame
<1>8. ASSUME NEW t \in Task, CompleteNext(t) PROVE LeaseBook'
  BY <1>a, <1>8 DEF CompleteNext, Release
<1>9. CASE HookAcceptsResult \/ HookRefusesResult
  BY <1>a, <1>9, ResultFrame
<1>10. CASE Interruption
  BY <1>a, <1>10, InterruptionFrame
<1>11. CASE Gathered \/ EndSweep
  BY <1>a, <1>11 DEF Gathered, EndSweep
<1>12. CASE UNCHANGED vars
  BY <1>a, <1>12 DEF vars
<1> QED
  BY <1>1, <1>2, <1>3, <1>4, <1>5, <1>6, <1>7, <1>8, <1>9, <1>10, <1>11, <1>12
  DEF Next, SchedulerStep, LoopEnds, Interruption

LEMMA NextRunning ==
    ASSUME Inv, [Next]_vars
    PROVE  RunningBook'
<1> USE DEF RunningBook, InHand, Inside, GoTo, taskVars
<1> DEFINE Marked == { t \in Task : status[t] = "RUNNING" }
<1>a. RunningBook /\ TypeOK /\ LockDiscipline
  BY DEF Inv, Books
<1>b. ASSUME NEW t \in Task, status[t] # "RUNNING", NEW s \in Status, s # "RUNNING",
             NEW why, Move(t, s, why)
      PROVE  Marked' = Marked
  BY <1>a, <1>b DEF Move, TypeOK
<1>1. ASSUME NEW t \in Task, Promote(t) PROVE RunningBook'
  <2>1. UNCHANGED status \/ \E s \in Status \ {"RUNNING"} : \E why :
           status[t] # "RUNNING" /\ Move(t, s, why)
    BY <1>1 DEF Promote, PromoteFinal, PromoteBlock, PromoteRetry, PromoteReady,
                PromoteRecheck, PromoteLeave, Blockable, Status
  <2>2. Marked' = Marked
    BY <1>b, <2>1
  <2> QED
    BY <1>a, <1>1, <2>2, PromoteFrame
<1>2. CASE LoopEnds
  <2>1. pc' = "complete" => todo' \subseteq running
    BY <1>2 DEF LoopEnds, BeginPass, BeginStarting, EndStarting, EndDeadlock, Wake
  <2> QED
    BY <1>a, <1>2, <2>1, LoopEndsFrame
<1>3. ASSUME NEW t \in Task, StartBlocked(t) \/ DeadlockBlock(t) PROVE RunningBook'
  <2>1. status[t] # "RUNNING"
    BY <1>a, <1>3 DEF StartBlocked, DeadlockBlock, First, IsFirst, LockDiscipline,
                      Inv, Books, ProgressBook
  <2>2. Marked' = Marked
    BY <1>b, <1>3, <2>1 DEF StartBlocked, DeadlockBlock, Status
  <2> QED
    BY <1>a, <1>3, <2>2 DEF StartBlocked, DeadlockBlock
<1>4. ASSUME NEW t \in Task, StartAcquire(t) PROVE RunningBook'
  <2>1. status[t] = "READY"
    BY <1>a, <1>4 DEF StartAcquire, First, IsFirst, LockDiscipline
  <2> QED
    BY <1>a, <1>4, <2>1 DEF StartAcquire, SlotFree
<1>5. CASE HookAllowsStart
  <2>1. current \in Task /\ Marked' = Marked \cup {current}
    BY <1>a, <1>5 DEF HookAllowsStart, Move, TypeOK
  <2> QED
    BY <1>a, <1>5, <2>1 DEF HookAllowsStart
<1>6. CASE HookRefusesStart
  <2>1. current \in Task /\ status[current] = "READY"
    BY <1>a, <1>6 DEF HookRefusesStart, LockDiscipline, TypeOK
  <2>2. Marked' = Marked
    BY <1>b, <1>6, <2>1 DEF HookRefusesStart, Status
  <2> QED
    BY <1>a, <1>6, <2>2 DEF HookRefusesStart
<1>7. CASE Spawn
  BY <1>a, <1>7 DEF Spawn
<1>8. ASSUME NEW t \in Task, ExecutorStep(t) PROVE RunningBook'
  BY <1>a, <1>8, ExecutorFrame DEF SlotFree
<1>9. ASSUME NEW t \in Task, CompleteNext(t) PROVE RunningBook'
  <2>1. t \in running
    BY <1>9 DEF CompleteNext, First, IsFirst, Inv, Books
  <2> QED
    BY <1>a, <1>9, <2>1 DEF CompleteNext
<1>10. CASE HookAcceptsResult \/ HookRefusesResult
  <2>1. current \in Task /\ current \notin running
    BY <1>a, <1>10, ResultFrame, SettleMoves
  <2>2. \E s \in Status \ {"RUNNING"} : \E why : Move(current, s, why)
    BY <1>10, ResultFrame DEF Settle, Status
  <2>3. Marked' = Marked \ {current}
    BY <1>a, <2>1, <2>2 DEF Move, TypeOK
  <2> QED
    BY <1>a, <1>10, <2>1, <2>3, ResultFrame
<1>11. CASE Interruption
  BY <1>11, InterruptionFrame
<1>12. CASE Gathered \/ EndSweep
  BY <1>12 DEF Gathered, EndSweep
<1>13. ASSUME NEW t \in Task, Sweep(t) PROVE RunningBook'
  BY <1>13 DEF Sweep
<1>14. CASE UNCHANGED vars
  BY <1>a, <1>14 DEF vars, SlotFree
<1> QED
  BY <1>1, <1>2, <1>3, <1>4, <1>5, <1>6, <1>7, <1>8, <1>9, <1>10, <1>11, <1>12,
     <1>13, <1>14 DEF Next, SchedulerStep, LoopEnds, Interruption

LEMMA NextResources ==
    ASSUME Inv, [Next]_vars
    PROVE  ResourceBook'
<1> USE DEF ResourceBook, GoTo, taskVars
<1>a. /\ ResourceBook /\ TypeOK /\ LockDiscipline
      /\ \A t, u : Clash(plan, t, u)' <=> Clash(plan', t, u)
  BY DEF Inv, Books, Clash, Changes, Touches, WriteSet
<1>1. ASSUME NEW t \in Task, Promote(t) PROVE ResourceBook'
  <2>1. resourceBlocked' = resourceBlocked \ {t}
    BY <1>a, <1>1 DEF Promote, PromoteFinal, PromoteBlock, PromoteRetry, PromoteReady,
                      PromoteRecheck, PromoteLeave, Examine, Final
  <2>2. \A u \in Task \ {t} : status'[u] = status[u]
    BY <1>a, <1>1 DEF Promote, PromoteFinal, PromoteBlock, PromoteRetry, PromoteReady,
                      PromoteRecheck, PromoteLeave, Move, TypeOK
  <2> QED
    BY <1>a, <1>1, <2>1, <2>2, PromoteFrame DEF TypeOK
<1>2. CASE BeginPass \/ BeginStarting \/ EndDeadlock \/ Wake
  BY <1>a, <1>2 DEF BeginPass, BeginStarting, EndDeadlock, Wake, TypeOK
<1>3. CASE EndStarting
  BY <1>a, <1>3 DEF EndStarting
<1>4. ASSUME NEW t \in Task, StartBlocked(t) PROVE ResourceBook'
  <2>1. PICK l \in leases : Conflict(Lock(t), l)
    BY <1>4 DEF StartBlocked, CanAcquire, ConflictingTasks
  <2>2. l.task \in running /\ l = Lock(l.task)
    BY <1>a, <1>4 DEF StartBlocked, LockDiscipline, Inv, Books, LeaseBook, Inside, InHand
  <2>3. Clash(plan, t, l.task)
    BY <1>a, <2>1, <2>2, ConflictIsClash DEF TypeOK
  <2> QED
    BY <1>a, <1>4, <2>2, <2>3 DEF StartBlocked, Move, TypeOK
<1>5. ASSUME NEW t \in Task, StartAcquire(t) PROVE ResourceBook'
  BY <1>a, <1>5 DEF StartAcquire
<1>6. CASE HookAllowsStart \/ HookRefusesStart
  <2>1. current \in Task /\ status[current] = "READY"
    BY <1>a, <1>6 DEF HookAllowsStart, HookRefusesStart, LockDiscipline, TypeOK
  <2> QED
    BY <1>a, <1>6, <2>1 DEF HookAllowsStart, HookRefusesStart, Move, TypeOK
<1>7. CASE Spawn
  BY <1>a, <1>7 DEF Spawn
<1>8. ASSUME NEW t \in Task, DeadlockBlock(t) PROVE ResourceBook'
  BY <1>a, <1>8 DEF DeadlockBlock
<1>9. ASSUME NEW t \in Task, ExecutorStep(t) PROVE ResourceBook'
  BY <1>a, <1>9, ExecutorFrame
<1>10. ASSUME NEW t \in Task, CompleteNext(t) PROVE ResourceBook'
  BY <1>a, <1>10 DEF CompleteNext
<1>11. CASE HookAcceptsResult \/ HookRefusesResult
  <2>1. current \in Task /\ status[current] = "RUNNING"
    BY <1>11, SettleMoves
  <2>2. \E s \in Status : \E why : Move(current, s, why)
    BY <1>11, ResultFrame DEF Settle, Status
  <2> QED
    BY <1>a, <1>11, <2>1, <2>2, ResultFrame DEF Move, TypeOK
<1>12. CASE Interruption
  BY <1>a, <1>12, InterruptionFrame DEF Ended
<1>13. CASE Gathered \/ EndSweep
  BY <1>a, <1>13 DEF Gathered, EndSweep, TypeOK
<1>14. ASSUME NEW t \in Task, Sweep(t) PROVE ResourceBook'
  BY <1>a, <1>14 DEF Sweep, Move, First, IsFirst, Final, TypeOK
<1>15. CASE UNCHANGED vars
  BY <1>a, <1>15 DEF vars
<1> QED
  BY <1>1, <1>2, <1>3, <1>4, <1>5, <1>6, <1>7, <1>8, <1>9, <1>10, <1>11, <1>12,
     <1>13, <1>14, <1>15 DEF Next, SchedulerStep, Interruption

Kept(t) ==
    /\ Entitled(t)' => Entitled(t) \/ DependenciesCompleted(t)
    /\ Waits(t)' => MayRetry(t)'

(* Only a pending task gains an entitlement to run, and only when its       *)
(* dependencies are there; only a start uses up an attempt.                 *)
LEMMA NextDependencies ==
    ASSUME Inv, [Next]_vars
    PROVE  DependencyBook'
<1> USE DEF GoTo, taskVars, Kept, Entitled, Waits
<1>a. /\ DependencyBook /\ TypeOK /\ LockDiscipline /\ ResourceBook
  BY DEF Inv, Books
<1>b. SUFFICES ASSUME NEW t \in Task PROVE Kept(t)
  BY <1>a, DependenciesStay DEF DependencyBook
<1>m. UNCHANGED <<plan, attempt>> => (MayRetry(t)' <=> MayRetry(t))
  BY DEF MayRetry
<1>c. ASSUME NoMove, UNCHANGED <<plan, attempt>> PROVE Kept(t)
  BY <1>a, <1>m, <1>c DEF NoMove, DependencyBook
<1>d. ASSUME NEW u \in Task, UNCHANGED <<plan, attempt, resourceBlocked>>,
             NEW s \in Terminal, NEW why, Move(u, s, why)
      PROVE  Kept(t)
  BY <1>a, <1>m, <1>d DEF Move, TypeOK, DependencyBook, Terminal
<1>1. ASSUME NEW u \in Task, Promote(u) PROVE Kept(t)
  BY <1>a, <1>m, <1>1 DEF Promote, PromoteFinal, PromoteBlock, PromoteRetry, PromoteReady,
       PromoteRecheck, PromoteLeave, Examine, Move, TypeOK, DependencyBook
<1>2. CASE LoopEnds
  BY <1>c, <1>2, LoopEndsFrame DEF NoMove
<1>3. ASSUME NEW u \in Task, StartBlocked(u) PROVE Kept(t)
  <2>1. status[u] = "READY"
    BY <1>a, <1>3 DEF StartBlocked, First, IsFirst, LockDiscipline
  <2> QED
    BY <1>a, <1>m, <1>3, <2>1 DEF StartBlocked, Move, TypeOK, DependencyBook
<1>4. ASSUME NEW u \in Task, StartAcquire(u) PROVE Kept(t)
  BY <1>c, <1>4 DEF StartAcquire, NoMove
<1>5. CASE HookAllowsStart
  <2>1. current \in Task /\ status[current] = "READY"
    BY <1>a, <1>5 DEF HookAllowsStart, LockDiscipline, TypeOK
  <2>2. current \notin resourceBlocked
    BY <1>a, <1>5, <2>1 DEF HookAllowsStart, ResourceBook
  <2>3. /\ status'[current] = "RUNNING" /\ UNCHANGED <<plan, resourceBlocked>>
        /\ t # current => status'[t] = status[t] /\ attempt'[t] = attempt[t]
    BY <1>a, <1>5, <2>1 DEF HookAllowsStart, Move, TypeOK
  <2>4. CASE t = current
    BY <1>a, <2>1, <2>2, <2>3, <2>4
  <2>5. CASE t # current
    <3>1. MayRetry(t)' <=> MayRetry(t)
      BY <2>3, <2>5 DEF MayRetry
    <3> QED  BY <1>a, <2>3, <2>5, <3>1 DEF DependencyBook
  <2> QED  BY <2>4, <2>5
<1>6. CASE HookRefusesStart
  <2>1. current \in Task
    BY <1>a, <1>6 DEF HookRefusesStart, TypeOK
  <2> QED
    BY <1>d, <1>6, <2>1 DEF HookRefusesStart, Terminal
<1>7. CASE Spawn \/ Gathered \/ EndSweep
  BY <1>a, <1>c, <1>7 DEF Spawn, Gathered, EndSweep, NoMove, ResourceBook
<1>8. ASSUME NEW u \in Task, DeadlockBlock(u) PROVE Kept(t)
  BY <1>d, <1>8 DEF DeadlockBlock, Terminal
<1>9. ASSUME NEW u \in Task, ExecutorStep(u) PROVE Kept(t)
  BY <1>c, <1>9, ExecutorFrame DEF NoMove
<1>10. ASSUME NEW u \in Task, CompleteNext(u) PROVE Kept(t)
  BY <1>c, <1>10 DEF CompleteNext, NoMove
<1>11. CASE HookAcceptsResult \/ HookRefusesResult
  <2>1. current \in Task /\ status[current] = "RUNNING"
    BY <1>11, SettleMoves
  <2>2. \E s \in Status : \E why :
           /\ Move(current, s, why)
           /\ s \in Terminal \/ (s = "FAILED_RETRYABLE" /\ MayRetry(current))
    BY <1>11, ResultFrame DEF Settle, Status, Terminal
  <2> QED
    BY <1>a, <1>m, <1>d, <1>11, <2>1, <2>2, ResultFrame DEF Move, TypeOK, DependencyBook
<1>12. CASE Interruption
  BY <1>c, <1>12, InterruptionFrame DEF NoMove
<1>13. ASSUME NEW u \in Task, Sweep(u) PROVE Kept(t)
  BY <1>c, <1>d, <1>13 DEF Sweep, NoMove, Terminal
<1>14. CASE UNCHANGED vars
  BY <1>c, <1>14 DEF vars, NoMove
<1> QED
  BY <1>1, <1>2, <1>3, <1>4, <1>5, <1>6, <1>7, <1>8, <1>9, <1>10, <1>11, <1>12,
     <1>13, <1>14 DEF Next, SchedulerStep, LoopEnds, Interruption

(* With nothing running, the slots of the scheduler are free.               *)
LEMMA IdleHasSlot == running = {} => SlotFree
BY FS_EmptySet, SchedulerAssumption DEF SlotFree

LEMMA NextProgress ==
    ASSUME Inv, [Next]_vars
    PROVE  ProgressBook'
<1> USE DEF ProgressBook, GoTo, taskVars, InHand
<1>a. /\ ProgressBook /\ TypeOK /\ LockDiscipline /\ DependencyBook /\ ResourceBook
  BY DEF Inv, Books
<1>b. ASSUME NEW t \in Task, Examined(t), status'[t] = status[t], pc # "after"
      PROVE  Examined(t)'
  BY <1>b, DependenciesStay DEF Examined
<1>c. ASSUME NEW t \in Task, status'[t] \in Terminal \cup {"READY", "RUNNING"}
      PROVE  Examined(t)'
  BY <1>c DEF Examined, Terminal
<1>d. ASSUME NEW t \in Task, NEW s, NEW why, Move(t, s, why)
      PROVE  status'[t] = s /\ \A u \in Task \ {t} : status'[u] = status[u]
  BY <1>a, <1>d DEF Move, TypeOK
<1>1. ASSUME NEW t \in Task, Promote(t) PROVE ProgressBook'
  <2>1. \A u \in Task \ {t} : status'[u] = status[u]
    BY <1>1, <1>d DEF Promote, PromoteFinal, PromoteBlock, PromoteRetry, PromoteReady,
         PromoteRecheck, PromoteLeave
  <2>2. Examined(t)'
    <3>1. CASE PromoteFinal(t)
      BY <1>c, <3>1 DEF PromoteFinal, Final
    <3>2. CASE PromoteBlock(t)
      <4>1. CASE Blockable(t)
        BY <1>c, <1>d, <3>2, <4>1 DEF PromoteBlock, Terminal
      <4>2. CASE ~Blockable(t)
        <5>1. status[t] # "PENDING" /\ UNCHANGED status
          BY <3>2, <4>2 DEF PromoteBlock, Blockable
        <5>2. status[t] # "FAILED_RETRYABLE"
          BY <1>a, <3>2 DEF PromoteBlock, FailedDependencies, DependencyBook, Entitled,
                            DependenciesCompleted
        <5> QED  BY <5>1, <5>2 DEF Examined
      <4> QED  BY <4>1, <4>2
    <3>3. CASE PromoteRetry(t) \/ PromoteReady(t) \/ PromoteRecheck(t)
      BY <1>c, <1>d, <3>3 DEF PromoteRetry, PromoteReady, PromoteRecheck
    <3>4. CASE PromoteLeave(t)
      <4>1. Examined(t) /\ status'[t] = status[t] /\ pc # "after"
        BY <3>4 DEF PromoteLeave, Examined, Examine
      <4> QED  BY <1>b, <4>1
    <3> QED  BY <1>1, <3>1, <3>2, <3>3, <3>4 DEF Promote
  <2>3. \A u \in Task \ {t} : Examined(u) => Examined(u)'
    BY <1>1, <1>b, <2>1, PromoteFrame
  <2> QED
    BY <1>a, <1>1, <2>2, <2>3, PromoteFrame
<1>2. CASE BeginPass \/ BeginStarting \/ EndDeadlock \/ Wake
  <2>1. \A t \in Task : Examined(t) => Examined(t)'
    BY <1>2, <1>b DEF BeginPass, BeginStarting, EndDeadlock, Wake
  <2> QED
    BY <1>a, <1>2, <2>1 DEF BeginPass, BeginStarting, EndDeadlock, Wake
<1>3. CASE EndStarting
  <2>1. \A t \in Task : Examined(t) => Examined(t)'
    BY <1>3, <1>b DEF EndStarting
  <2>2. pc' = "deadlock" =>
           \A t \in Task : status[t] \notin Terminal => status[t] = "PENDING"
    <3> SUFFICES ASSUME pc' = "deadlock", NEW t \in Task, status[t] \notin Terminal
                 PROVE  status[t] = "PENDING"
      OBVIOUS
    <3>1. todo = {} /\ running = {} /\ pc = "start"
      BY <1>3, IdleHasSlot DEF EndStarting
    <3>2. status[t] # "RUNNING"
      BY <3>1 DEF Inv, Books, RunningBook, Inside
    <3>3. status[t] # "READY" /\ status[t] # "FAILED_RETRYABLE"
      BY <1>a, <3>1 DEF Examined
    <3> QED
      BY <1>a, <3>2, <3>3 DEF TypeOK, Status, Terminal
  <2> QED
    BY <1>a, <1>3, <2>1, <2>2 DEF EndStarting
<1>4. ASSUME NEW t \in Task, StartBlocked(t) \/ DeadlockBlock(t) PROVE ProgressBook'
  <2>1. status'[t] = "BLOCKED" /\ \A u \in Task \ {t} : status'[u] = status[u]
    BY <1>4, <1>d DEF StartBlocked, DeadlockBlock
  <2>2. \A u \in Task : Examined(u) => Examined(u)'
    BY <1>4, <1>b, <1>c, <2>1 DEF StartBlocked, DeadlockBlock, Terminal
  <2> QED
    BY <1>a, <1>4, <2>1, <2>2 DEF StartBlocked, DeadlockBlock, Terminal
<1>5. ASSUME NEW t \in Task, StartAcquire(t) PROVE ProgressBook'
  <2>1. \A u \in Task : Examined(u) => Examined(u)'
    BY <1>5, <1>b DEF StartAcquire
  <2> QED
    BY <1>a, <1>5, <2>1 DEF StartAcquire
<1>6. CASE HookAllowsStart \/ HookRefusesStart
  <2>1. current \in Task
    BY <1>a, <1>6 DEF HookAllowsStart, HookRefusesStart, TypeOK
  <2>2. /\ status'[current] \in {"RUNNING", "BLOCKED"}
        /\ \A u \in Task \ {current} : status'[u] = status[u]
    BY <1>6, <1>d, <2>1 DEF HookAllowsStart, HookRefusesStart
  <2>3. \A u \in Task : Examined(u) => Examined(u)'
    BY <1>6, <1>b, <1>c, <2>2 DEF HookAllowsStart, HookRefusesStart, Terminal
  <2> QED
    BY <1>a, <1>6, <2>1, <2>2, <2>3 DEF HookAllowsStart, HookRefusesStart
<1>7. CASE Spawn
  <2>1. \A u \in Task : Examined(u) => Examined(u)'
    BY <1>7, <1>b DEF Spawn
  <2> QED
    BY <1>a, <1>7, <2>1 DEF Spawn
<1>8. ASSUME NEW t \in Task, ExecutorStep(t) PROVE ProgressBook'
  <2>1. pc # "after" => \A u \in Task : Examined(u) => Examined(u)'
    BY <1>8, <1>b, ExecutorFrame
  <2> QED
    BY <1>a, <1>8, <2>1, ExecutorFrame
<1>9. ASSUME NEW t \in Task, CompleteNext(t) PROVE ProgressBook'
  BY <1>9 DEF CompleteNext
<1>10. CASE HookAcceptsResult \/ HookRefusesResult
  BY <1>10, ResultFrame
<1>11. CASE Interruption
  BY <1>11, InterruptionFrame
<1>12. CASE Gathered \/ EndSweep
  BY <1>a, <1>12 DEF Gathered, EndSweep
<1>13. ASSUME NEW t \in Task, Sweep(t) PROVE ProgressBook'
  <2>1. /\ status'[t] \in Terminal
        /\ \A u \in Task \ {t} : status'[u] = status[u]
    BY <1>13, <1>d DEF Sweep, Final, Terminal
  <2> QED
    BY <1>a, <1>13, <2>1 DEF Sweep
<1>14. CASE UNCHANGED vars
  BY <1>a, <1>14 DEF vars, Examined, DependenciesCompleted
<1> QED
  BY <1>1, <1>2, <1>3, <1>4, <1>5, <1>6, <1>7, <1>8, <1>9, <1>10, <1>11, <1>12,
     <1>13, <1>14 DEF Next, SchedulerStep, Interruption


LEMMA NextReasons ==
    ASSUME Inv, [Next]_vars
    PROVE  ReasonBook'
<1>a. ReasonBook /\ TypeOK /\ ResourceBook /\ ProgressBook
  BY DEF Inv, Books
<1> SUFFICES ASSUME NEW t \in Task
    PROVE  /\ status'[t] \in {"BLOCKED", "FAILED_FINAL", "CANCELLED"} =>
                 \/ status'[t] = "BLOCKED" /\ t \in resourceBlocked'
                 \/ reason'[t] \in BadReasons
           /\ reason'[t] = "dependency_failed" =>
                 \E d \in plan.deps[t] : Final(d)' /\ status'[d] # "COMPLETED"
           /\ reason'[t] = "scheduler_deadlock" =>
                 /\ ~DependenciesCompleted(t)'
                 /\ pc' \in {"deadlock"} \cup Handling \cup Ended
  BY PlanStays DEF ReasonBook
<1>b. plan.deps[t] \subseteq Task
  BY <1>a, DepsType DEF TypeOK
<1>c. pc \in {"deadlock"} \cup Handling \cup Ended
         => pc' \in {"deadlock"} \cup Handling \cup Ended
  BY DEF Next, SchedulerStep, BeginPass, BeginStarting, EndStarting, EndDeadlock,
       HookAllowsStart, HookRefusesStart, Spawn, Wake, HookAcceptsResult,
       HookRefusesResult, AfterHookReturns, HookRaises, Gathered, Drained, EndSweep,
       Promote, PromoteFinal, PromoteBlock, PromoteRetry, PromoteReady,
       PromoteRecheck, PromoteLeave, Examine, StartBlocked, StartAcquire,
       DeadlockBlock, CompleteNext, Sweep, ExecutorStep, ExecutorReturns,
       ExecutorTimesOut, Cancel, CancelOpening, CancelPass, CancelHandler, vars,
       GoTo, Handling, Ended
<1>d. \A d \in plan.deps[t] :
         Final(d) /\ status[d] # "COMPLETED" => Final(d)' /\ status'[d] # "COMPLETED"
  BY <1>b, FinalStays
<1>1. CASE status'[t] = status[t] /\ reason'[t] = reason[t]
           /\ (t \in resourceBlocked /\ t \notin resourceBlocked' => status[t] # "BLOCKED")
  <2>1. reason[t] = "scheduler_deadlock" => ~DependenciesCompleted(t)'
    BY <1>a, DependenciesStay DEF ReasonBook, Handling, Ended
  <2> QED
    BY <1>a, <1>1, <1>c, <1>d, <2>1 DEF ReasonBook
<1>2. CASE Moves(t)
  <2>1. PICK s \in Status, why \in Reason :
          /\ Move(t, s, why)
          /\ s \in Bad => \/ why \in BadReasons
                          \/ s = "BLOCKED" /\ t \in resourceBlocked'
          /\ why = "dependency_failed" => FailedDependencies(t) # {}
          /\ why = "scheduler_deadlock" => pc = "deadlock"
    BY <1>2 DEF Moves
  <2>2. status'[t] = s /\ reason'[t] = why
    BY <1>a, <2>1 DEF Move, TypeOK
  <2>3. FailedDependencies(t) # {} =>
           \E d \in plan.deps[t] : Final(d)' /\ status'[d] # "COMPLETED"
    BY <1>d DEF FailedDependencies, Final, Terminal
  <2>4. pc = "deadlock" => ~DependenciesCompleted(t)'
    <3> SUFFICES ASSUME pc = "deadlock" PROVE ~DependenciesCompleted(t)'
      OBVIOUS
    <3>1. t \in todo \/ status[t] \in Terminal
      BY <1>a DEF ProgressBook
    <3>2. resourceBlocked = {} /\ ~Final(t)
      BY <1>2, <1>a DEF ResourceBook, Moves
    <3>3. status[t] = "PENDING" /\ Examined(t)
      BY <1>a, <3>1, <3>2 DEF ProgressBook, Final
    <3> QED  BY <3>3, DependenciesStay DEF Examined
  <2> QED
    BY <1>c, <2>1, <2>2, <2>3, <2>4 DEF Bad
<1>3. ASSUME NEW u \in Task \ {t}, Moves(u)
      PROVE  /\ status'[t] = status[t] /\ reason'[t] = reason[t]
             /\ t \in resourceBlocked /\ t \notin resourceBlocked' => status[t] # "BLOCKED"
  BY <1>a, <1>3 DEF Moves, Move, TypeOK
<1>4. CASE NoMove
  BY <1>1, <1>4 DEF NoMove
<1> QED
  BY <1>1, <1>2, <1>3, <1>4, StepMoves

LEMMA NextStop ==
    ASSUME Inv, [Next]_vars
    PROVE  StopBook'
<1> USE DEF StopBook, GoTo, Handling
<1>a. StopBook /\ TypeOK
  BY DEF Inv, Books
<1>1. CASE Cancel
  BY <1>a, <1>1, SchedulerAssumption DEF Cancel, TypeOK
<1>2. CASE SchedulerStep
  BY <1>a, <1>2 DEF SchedulerStep, BeginPass, BeginStarting, EndStarting, EndDeadlock,
       HookAllowsStart, HookRefusesStart, Spawn, Wake, HookAcceptsResult,
       HookRefusesResult, AfterHookReturns, HookRaises, Gathered, Drained, EndSweep,
       Promote, PromoteFinal, PromoteBlock, PromoteRetry, PromoteReady,
       PromoteRecheck, PromoteLeave, Examine, StartBlocked, StartAcquire,
       DeadlockBlock, CompleteNext, Sweep
<1>3. ASSUME NEW t \in Task, ExecutorStep(t) PROVE StopBook'
  BY <1>a, <1>3, ExecutorFrame
<1>4. CASE UNCHANGED vars
  BY <1>a, <1>4 DEF vars
<1> QED
  BY <1>1, <1>2, <1>3, <1>4 DEF Next

-----------------------------------------------------------------------------
LEMMA InvHolds == Spec => []Inv
<1>1. Init => Inv
  BY InitType, InitLocks, InitBooks DEF Inv
<1>2. Inv /\ [Next]_vars => Inv'
  <2> SUFFICES ASSUME Inv, [Next]_vars PROVE Inv'
    OBVIOUS
  <2>1. TypeOK' /\ LockDiscipline'
    BY NextType, NextLocks DEF Inv
  <2>2. Books'
    BY NextLeases, NextRunning, NextResources, NextDependencies, NextProgress,
       NextReasons, NextStop DEF Books
  <2> QED  BY <2>1, <2>2 DEF Inv
<1> QED
  BY <1>1, <1>2, PTL DEF Spec

-----------------------------------------------------------------------------
(* What follows from the books *)

(* While the scheduler waits, exactly the tasks it waits for own leases,    *)
(* and a run that ends through its loop or its cancellation handler leaves  *)
(* none behind: not after a refused start, a retry or a refused result.     *)
THEOREM NoLeaseLeaks == Spec => []NoLeaseLeak
<1>1. Inv => NoLeaseLeak
  BY DEF Inv, Books, LeaseBook, Inside, InHand, NoLeaseLeak
<1> QED
  BY <1>1, InvHolds, PTL

(* Whenever the scheduler sleeps, each task it put aside for a resource     *)
(* clashes with a task that is running and will wake it; none is still      *)
(* aside, and so mistaken for a terminal one, when run() ends.              *)
THEOREM AsideForSomebody == Spec => []ResourceBlockIsTemporary
<1>1. Inv => ResourceBlockIsTemporary
  BY DEF Inv, Books, ResourceBook, ResourceBlockIsTemporary
<1> QED
  BY <1>1, InvHolds, PTL

(* An executor runs over completed dependencies only, and none of them is   *)
(* reopened before it ends, whatever is retried or cancelled meanwhile.     *)
THEOREM DependenciesAreHeld == Spec => []DependenciesHold
<1>1. Inv => DependenciesHold
  BY DEF Inv, Books, DependencyBook, Entitled, LockDiscipline, DependenciesHold,
         Executing
<1> QED
  BY <1>1, InvHolds, PTL

(* A run that ends by itself accounts for every task: it completed, came to *)
(* a bad end of its own, or depends on a task that did not complete.        *)
THEOREM NobodyAbandoned == Spec => []NoTaskAbandoned
<1>1. Inv => NoTaskAbandoned
  <2> SUFFICES ASSUME Inv, pc = "done", NEW t \in Task, status[t] # "COMPLETED",
                      reason[t] \notin OwnReasons
               PROVE  \E d \in plan.deps[t] : status[d] # "COMPLETED"
    BY DEF NoTaskAbandoned, OwnReasons
  <2>1. status[t] \in Terminal /\ resourceBlocked = {}
    BY DEF Inv, Books, ProgressBook, ResourceBook
  <2>2. reason[t] \in {"dependency_failed", "scheduler_deadlock"}
    BY <2>1 DEF Inv, Books, ReasonBook, BadReasons, Terminal
  <2> QED
    BY <2>2 DEF Inv, Books, ReasonBook, DependenciesCompleted
<1> QED
  BY <1>1, InvHolds, PTL

(* A run whose cancellation handler finished has no executor left and no    *)
(* task undecided, wherever the cancellation struck.                        *)
THEOREM CancelledIsQuiet == Spec => []CancelledRunIsQuiet
<1>1. Inv => CancelledRunIsQuiet
  BY DEF Inv, Books, ProgressBook, LockDiscipline, CancelledRunIsQuiet
<1> QED
  BY <1>1, InvHolds, PTL

(* _transition is never asked for a move outside its table, so it never     *)
(* raises TaskTransitionError.                                              *)
THEOREM TransitionsAreLegal == Spec => LegalTransitions
<1>1. Inv /\ [Next]_vars
         => [\A t \in Task : status'[t] # status[t]
                => status'[t] \in AllowedTransitions[status[t]]]_vars
  <2> SUFFICES ASSUME Inv, [Next]_vars, NEW t \in Task, status'[t] # status[t]
               PROVE  status'[t] \in AllowedTransitions[status[t]]
    OBVIOUS
  <2>1. PICK u \in Task : Moves(u)
    BY StepMoves DEF NoMove
  <2> QED
    BY <2>1 DEF Moves, Move, Inv, TypeOK
<1> QED
  BY <1>1, InvHolds, PTL DEF LegalTransitions, Spec

(* A task that ended stays as it ended, with its reason: a late result, a   *)
(* recheck, the deadlock loop and the cancellation sweep all pass it by.    *)
FinalityHolds ==
    [][\A t \in Task : Final(t)
          => status'[t] = status[t] /\ reason'[t] = reason[t] /\ Final(t)']_vars

THEOREM Finality == Spec => FinalityHolds
<1>1. Inv /\ [Next]_vars
         => [\A t \in Task : Final(t)
                => status'[t] = status[t] /\ reason'[t] = reason[t] /\ Final(t)']_vars
  BY FinalStays
<1> QED
  BY <1>1, InvHolds, PTL DEF FinalityHolds, Spec

-----------------------------------------------------------------------------
(* The pass implements TaskLifecycle *)

(* The words of the promise mean what they mean in the scheduler.           *)
LEMMA SameWords ==
    /\ Lifecycle!ValidPlans = ValidPlans
    /\ \A t, u : Lifecycle!Clash(plan, t, u) <=> Clash(plan, t, u)
    /\ \A t : Lifecycle!Ancestors(plan, t) = Ancestors(plan, t)
    /\ \A S : Lifecycle!Cardinality(S) = Cardinality(S)
<1>1. Lifecycle!ValidPlans = ValidPlans
  BY DEF Lifecycle!ValidPlans, ValidPlans, Lifecycle!ValidDag, ValidDag
<1>2. \A t, u : Lifecycle!Clash(plan, t, u) <=> Clash(plan, t, u)
  BY DEF Lifecycle!Clash, Clash, Lifecycle!Changes, Changes, Lifecycle!Touches, Touches,
         Lifecycle!WriteSet, WriteSet, Lifecycle!Normalized, Normalized
<1>3. \A t : Lifecycle!Ancestors(plan, t) = Ancestors(plan, t)
  BY DEF Lifecycle!Ancestors, Ancestors
<1>4. \A S : Lifecycle!Cardinality(S) = Cardinality(S)
  BY DEF Lifecycle!Cardinality, Cardinality
<1> QED
  BY <1>1, <1>2, <1>3, <1>4

(* What a task depends on is an ancestor of it, and so is whatever an       *)
(* ancestor depends on.                                                     *)
LEMMA AncestorsClosed ==
    ASSUME plan \in ValidPlans, NEW t \in Task
    PROVE  /\ plan.deps[t] \subseteq Ancestors(plan, t)
           /\ \A m \in Ancestors(plan, t) : plan.deps[m] \subseteq Ancestors(plan, t)
BY DepsType DEF Ancestors

(* A task that came to a bad end and is not put aside is at a bad end in    *)
(* the promise too.                                                         *)
LEMMA BadIsBadEnd ==
    ASSUME NEW d \in Task, status[d] \in Bad, d \notin resourceBlocked
    PROVE  PhaseOf(d) \in Lifecycle!BadEnd
BY DEF PhaseOf, Bad, Lifecycle!BadEnd

(* The phase of a task that does not move stays.                            *)
LEMMA PhaseStays ==
    ASSUME NEW u \in Task, status'[u] = status[u], reason'[u] = reason[u],
           status[u] = "BLOCKED" => (u \in resourceBlocked <=> u \in resourceBlocked')
    PROVE  PhaseOf(u)' = PhaseOf(u)
BY DEF PhaseOf

LEMMA NoMovePhase ==
    ASSUME NoMove
    PROVE  \A u \in Task : PhaseOf(u)' = PhaseOf(u)
BY PhaseStays DEF NoMove

LEMMA OthersPhase ==
    ASSUME TypeOK, NEW t \in Task, Moves(t)
    PROVE  \A u \in Task \ {t} : PhaseOf(u)' = PhaseOf(u)
<1> SUFFICES ASSUME NEW u \in Task \ {t} PROVE PhaseOf(u)' = PhaseOf(u)
  OBVIOUS
<1>1. status'[u] = status[u] /\ reason'[u] = reason[u]
  BY DEF Moves, Move, TypeOK
<1>2. u \in resourceBlocked <=> u \in resourceBlocked'
  BY DEF Moves
<1> QED
  BY <1>1, <1>2, PhaseStays

LEMMA BecomeIs ==
    ASSUME NEW t \in Task, NEW from, NEW to, PhaseOf(t) = from, PhaseOf(t)' = to,
           \A u \in Task \ {t} : PhaseOf(u)' = PhaseOf(u)
    PROVE  Lifecycle!Become(t, from, to)
BY DEF Lifecycle!Become

Quiet == /\ \A u \in Task : PhaseOf(u)' = PhaseOf(u)
         /\ UNCHANGED <<plan, attempt>>
         /\ cancels' > 0 <=> cancels > 0

LEMMA QuietStutters == Quiet => UNCHANGED Lifecycle!lifecycleVars
BY DEF Quiet, Lifecycle!lifecycleVars

(* The hook lets the task start: its lease keeps the others away, its       *)
(* dependencies have stayed completed, and it still has its slot.           *)
LEMMA StartStarts ==
    ASSUME Inv, HookAllowsStart, NEW t \in Task, t = current
    PROVE  Lifecycle!Next
<1>a. /\ TypeOK /\ LockDiscipline /\ Books
      /\ status[t] = "READY"
      /\ t \notin running /\ pc = "before"
  BY DEF Inv, Books, RunningBook, HookAllowsStart, LockDiscipline, TypeOK
<1>1. \A d \in plan.deps[t] : PhaseOf(d) = "succeeded"
  BY <1>a DEF Books, DependencyBook, Entitled, DependenciesCompleted, PhaseOf
<1>2. Lifecycle!Active = running
  BY <1>a DEF Lifecycle!Active, PhaseOf, Books, RunningBook, Inside, InHand
<1>3. \A u \in running : ~Clash(plan, t, u)
  <2> SUFFICES ASSUME NEW u \in running PROVE ~Clash(plan, t, u)
    OBVIOUS
  <2>1. Lock(t) \in leases /\ u \in Task
    BY <1>a DEF LockDiscipline, TypeOK
  <2>2. PICK l \in leases : l.task = u
    BY <1>a DEF Books, LeaseBook, Inside, InHand
  <2>3. l = Lock(u) /\ Lock(t) # Lock(u)
    BY <1>a, <2>1, <2>2, LockType DEF LockDiscipline, TypeOK
  <2> QED
    BY <1>a, <2>1, <2>2, <2>3, ClashIsConflict DEF LockDiscipline
<1>4. MayRetry(t)
  BY <1>a DEF Books, DependencyBook, Waits
<1>5. Lifecycle!Become(t, "waiting", "active")
  <2>1. PhaseOf(t) = "waiting"
    BY <1>a DEF PhaseOf
  <2>2. PhaseOf(t)' = "active"
    BY <1>a DEF HookAllowsStart, Move, TypeOK, PhaseOf
  <2>3. \A u \in Task \ {t} : PhaseOf(u)' = PhaseOf(u)
    BY <1>a, PhaseStays DEF HookAllowsStart, Move, TypeOK
  <2> QED
    BY <1>a, <2>1, <2>2, <2>3, BecomeIs
<1>6. Lifecycle!Start(t)
  <2>1. \A d \in plan.deps[t] : [u \in Task |-> PhaseOf(u)][d] = "succeeded"
    BY <1>a, <1>1, DepsType DEF TypeOK
  <2>2. Cardinality(Lifecycle!Active) < MaxConcurrency
    BY <1>a, <1>2 DEF Books, RunningBook, SlotFree
  <2>3. attempt' = [attempt EXCEPT ![t] = @ + 1]
    BY DEF HookAllowsStart
  <2> QED
    BY <1>2, <1>3, <1>4, <1>5, <2>1, <2>2, <2>3, SameWords
    DEF Lifecycle!Start, MayRetry
<1>7. UNCHANGED <<plan, cancels>>
  BY DEF HookAllowsStart
<1> QED
  BY <1>a, <1>6, <1>7 DEF Lifecycle!Next

LEMMA RefusalRefuses ==
    ASSUME Inv, HookRefusesStart, NEW t \in Task, t = current
    PROVE  Lifecycle!Next
<1>1. status[t] = "READY" /\ t \notin resourceBlocked
  BY DEF Inv, HookRefusesStart, LockDiscipline, TypeOK, Books, ResourceBook
<1>2. PhaseOf(t) = "waiting" /\ PhaseOf(t)' = "refused"
  <2>1. /\ status'[t] = "BLOCKED" /\ reason'[t] = "hook_blocked"
        /\ t \notin resourceBlocked'
    BY <1>1 DEF HookRefusesStart, Move, Inv, TypeOK
  <2> QED
    BY <1>1, <2>1 DEF PhaseOf
<1>3. \A u \in Task \ {t} : PhaseOf(u)' = PhaseOf(u)
  BY <1>1, PhaseStays DEF HookRefusesStart, Move, Inv, TypeOK
<1>4. Lifecycle!Refuse(t)
  BY <1>1, <1>2, <1>3, BecomeIs DEF Lifecycle!Refuse, HookRefusesStart
<1> QED
  BY <1>1, <1>4 DEF Lifecycle!Next, HookRefusesStart

(* What the deadlock loop blocks does depend on a task that came to a bad   *)
(* end: among the unresolved tasks it depends on, one depends on no         *)
(* unresolved task, and yet its dependencies are not all completed.         *)
LEMMA DeadlockIsDoomed ==
    ASSUME Inv, NEW t \in Task, DeadlockBlock(t)
    PROVE  Lifecycle!Doomed(t)
<1>a. TypeOK /\ ProgressBook /\ resourceBlocked = {} /\ pc = "deadlock" /\ t \in todo
  BY DEF Inv, Books, ResourceBook, DeadlockBlock, First, IsFirst
<1> DEFINE Kin == {t} \cup Ancestors(plan, t)
           Open == Kin \cap todo
<1>1. PICK m \in Open : plan.deps[m] \cap Open = {}
  BY <1>a DEF TypeOK, ValidPlans, ValidDag
<1>2. m \in Task /\ ~DependenciesCompleted(m)
  BY <1>a DEF ProgressBook, Examined, TypeOK
<1>3. PICK d \in plan.deps[m] : status[d] # "COMPLETED"
  BY <1>2 DEF DependenciesCompleted
<1>4. d \in Ancestors(plan, t) /\ d \in Task
  BY <1>a, <1>1, <1>2, AncestorsClosed, DepsType DEF TypeOK
<1>5. status[d] \in Bad
  BY <1>a, <1>1, <1>3, <1>4 DEF ProgressBook, Terminal, Bad
<1>6. PhaseOf(d) \in Lifecycle!BadEnd
  BY <1>a, <1>4, <1>5, BadIsBadEnd
<1> QED
  BY <1>4, <1>6, SameWords DEF Lifecycle!Doomed

LEMMA DeadlockSkips ==
    ASSUME Inv, NEW t \in Task, DeadlockBlock(t)
    PROVE  Lifecycle!Next
<1>1. status[t] = "PENDING" /\ resourceBlocked = {}
  BY DEF Inv, Books, ResourceBook, ProgressBook, DeadlockBlock, First, IsFirst
<1>2. PhaseOf(t) = "waiting" /\ PhaseOf(t)' = "skipped"
  BY <1>1 DEF DeadlockBlock, Move, Inv, TypeOK, PhaseOf
<1>3. \A u \in Task \ {t} : PhaseOf(u)' = PhaseOf(u)
  BY PhaseStays DEF DeadlockBlock, Move, Inv, TypeOK
<1>4. Lifecycle!Skip(t)
  BY <1>2, <1>3, BecomeIs, DeadlockIsDoomed DEF Lifecycle!Skip, DeadlockBlock
<1> QED
  BY <1>4 DEF Lifecycle!Next, DeadlockBlock

LEMMA PromotionSkips ==
    ASSUME Inv, NEW t \in Task, Promote(t)
    PROVE  Lifecycle!Next \/ Quiet
<1>a. TypeOK /\ UNCHANGED <<plan, attempt, cancels>> /\ pc = "promote"
  BY PromoteFrame DEF Inv
<1>1. CASE NoMove
  BY <1>a, <1>1, NoMovePhase DEF Quiet
<1>2. CASE Moves(t)
  <2>1. \A u \in Task \ {t} : PhaseOf(u)' = PhaseOf(u)
    BY <1>a, <1>2, OthersPhase
  <2>3. CASE PromoteFinal(t) \/ PromoteLeave(t)
    <3>1. NoMove
      BY <2>3 DEF PromoteFinal, PromoteLeave, NoMove
    <3> QED  BY <1>1, <3>1
  <2>4. CASE PromoteBlock(t) /\ ~Blockable(t)
    <3>1. NoMove
      BY <2>4 DEF PromoteBlock, NoMove, Blockable
    <3> QED  BY <1>1, <3>1
  <2>5. CASE PromoteBlock(t) /\ Blockable(t)
    <3>1. PhaseOf(t) = "waiting"
      BY <2>5 DEF Blockable, PhaseOf
    <3>2. PhaseOf(t)' = "skipped"
      <4>1. /\ status'[t] = "BLOCKED" /\ reason'[t] = "dependency_failed"
            /\ t \notin resourceBlocked'
        BY <1>a, <2>5 DEF PromoteBlock, Move, TypeOK
      <4> QED  BY <4>1 DEF PhaseOf
    <3>3. Lifecycle!Doomed(t)
      <4>1. PICK d \in plan.deps[t] : status[d] \in Bad /\ d \notin resourceBlocked
        BY <2>5 DEF PromoteBlock, FailedDependencies, Bad
      <4>2. d \in Ancestors(plan, t) /\ d \in Task
        BY <1>a, AncestorsClosed, DepsType DEF TypeOK
      <4>3. PhaseOf(d) \in Lifecycle!BadEnd
        BY <4>1, <4>2, BadIsBadEnd
      <4> QED  BY <4>2, <4>3, SameWords DEF Lifecycle!Doomed
    <3>4. Lifecycle!Skip(t)
      BY <1>a, <2>1, <3>1, <3>2, <3>3, BecomeIs DEF Lifecycle!Skip
    <3> QED  BY <1>a, <3>4 DEF Lifecycle!Next
  <2>6. CASE PromoteRetry(t) \/ PromoteReady(t) \/ PromoteRecheck(t)
    <3>1. PhaseOf(t) = "waiting" /\ PhaseOf(t)' = "waiting"
      <4>1. status'[t] = "READY"
        BY <1>a, <2>6 DEF PromoteRetry, PromoteReady, PromoteRecheck, Move, TypeOK
      <4>2. \/ status[t] \in {"PENDING", "FAILED_RETRYABLE"}
            \/ status[t] = "BLOCKED" /\ t \in resourceBlocked
        BY <2>6 DEF PromoteRetry, PromoteReady, PromoteRecheck
      <4> QED  BY <4>1, <4>2 DEF PhaseOf
    <3> QED  BY <1>a, <2>1, <3>1 DEF Quiet
  <2> QED
    BY <2>3, <2>4, <2>5, <2>6 DEF Promote
<1> QED
  BY <1>1, <1>2, PromoteMoves

LEMMA AsideIsWaiting ==
    ASSUME Inv, NEW t \in Task, StartBlocked(t)
    PROVE  Quiet
<1>1. status[t] = "READY"
  BY DEF StartBlocked, First, IsFirst, Inv, LockDiscipline
<1>2. status'[t] = "BLOCKED" /\ t \in resourceBlocked'
  BY DEF StartBlocked, Move, Inv, TypeOK
<1>3. PhaseOf(t)' = PhaseOf(t)
  BY <1>1, <1>2 DEF PhaseOf
<1>4. \A u \in Task \ {t} : PhaseOf(u)' = PhaseOf(u)
  BY PhaseStays DEF StartBlocked, Move, Inv, TypeOK
<1> QED
  BY <1>3, <1>4 DEF Quiet, StartBlocked

(* A result ends its task or sends it back, with a try left, to wait.       *)
LEMMA ResultEnds ==
    ASSUME Inv, HookAcceptsResult \/ HookRefusesResult, NEW t \in Task, t = current
    PROVE  Lifecycle!Next
<1>a. /\ TypeOK /\ status[t] = "RUNNING" /\ Moves(t)
      /\ UNCHANGED <<plan, attempt, resourceBlocked, cancels>>
  BY SettleMoves, ResultFrame DEF Inv
<1>b. PICK result : Settle(t, result)
  BY ResultFrame
<1>c. t \notin resourceBlocked
  BY <1>a DEF Inv, Books, ResourceBook
<1>1. PhaseOf(t) = "active" /\ \A u \in Task \ {t} : PhaseOf(u)' = PhaseOf(u)
  BY <1>a, OthersPhase DEF PhaseOf
<1>2. \/ PhaseOf(t)' \in {"succeeded", "failed", "withdrawn"}
      \/ PhaseOf(t)' = "waiting" /\ MayRetry(t)
  <2>1. \/ status'[t] = "COMPLETED"
        \/ status'[t] \in {"CANCELLED", "BLOCKED", "FAILED_FINAL"} /\
              reason'[t] \in {"executor_cancelled", "scheduler_cancelled",
                              "executor_blocked", "final_failure"}
        \/ status'[t] = "FAILED_RETRYABLE" /\ MayRetry(t)
    BY <1>a, <1>b DEF Settle, Move, TypeOK
  <2> QED
    BY <1>a, <1>c, <2>1 DEF PhaseOf
<1>3. CASE PhaseOf(t)' = "waiting" /\ MayRetry(t)
  <2>1. Lifecycle!Retry(t)
    BY <1>a, <1>1, <1>3, BecomeIs DEF Lifecycle!Retry, MayRetry
  <2> QED  BY <1>a, <2>1 DEF Lifecycle!Next
<1>4. ASSUME NEW verdict \in {"succeeded", "failed", "withdrawn"}, PhaseOf(t)' = verdict
      PROVE  Lifecycle!Next
  <2>1. Lifecycle!End(t, verdict)
    BY <1>a, <1>1, <1>4, BecomeIs DEF Lifecycle!End
  <2> QED  BY <1>a, <1>4, <2>1 DEF Lifecycle!Next
<1> QED
  BY <1>2, <1>3, <1>4

(* The cancellation sweep withdraws what waits and ends what was active.    *)
LEMMA SweepWithdraws ==
    ASSUME Inv, NEW t \in Task, Sweep(t)
    PROVE  Lifecycle!Next \/ Quiet
<1>a. TypeOK /\ UNCHANGED <<plan, attempt, resourceBlocked, cancels>> /\ cancels > 0
  BY DEF Inv, Books, StopBook, Sweep, Handling
<1>1. CASE Final(t)
  BY <1>a, <1>1, PhaseStays DEF Sweep, Quiet
<1>2. CASE ~Final(t)
  <2>1. Move(t, "CANCELLED", "scheduler_cancelled")
    BY <1>2 DEF Sweep
  <2>2. PhaseOf(t)' = "withdrawn" /\ \A u \in Task \ {t} : PhaseOf(u)' = PhaseOf(u)
    <3>1. status'[t] = "CANCELLED" /\ reason'[t] = "scheduler_cancelled"
      BY <1>a, <2>1 DEF Move, TypeOK
    <3>2. \A u \in Task \ {t} : status'[u] = status[u] /\ reason'[u] = reason[u]
      BY <1>a, <2>1 DEF Move, TypeOK
    <3> QED  BY <1>a, <3>1, <3>2, PhaseStays DEF PhaseOf
  <2>3. PhaseOf(t) \in {"waiting", "active"}
    <3>1. t \in resourceBlocked => status[t] = "BLOCKED"
      BY DEF Sweep, First, IsFirst, Inv, Books, ResourceBook
    <3> QED  BY <1>a, <1>2, <3>1 DEF Final, Terminal, PhaseOf, TypeOK, Status
  <2>4. CASE PhaseOf(t) = "waiting"
    <3>1. Lifecycle!Withdraw(t)
      BY <1>a, <2>2, <2>4, BecomeIs DEF Lifecycle!Withdraw
    <3> QED  BY <1>a, <3>1 DEF Lifecycle!Next
  <2>5. CASE PhaseOf(t) = "active"
    <3>1. Lifecycle!End(t, "withdrawn")
      BY <1>a, <2>2, <2>5, BecomeIs DEF Lifecycle!End
    <3> QED  BY <1>a, <3>1 DEF Lifecycle!Next
  <2> QED  BY <2>3, <2>4, <2>5
<1> QED  BY <1>1, <1>2

(* The first cancellation is the operator's stop; later ones say nothing    *)
(* new.                                                                     *)
LEMMA CancelStops ==
    ASSUME Inv, Cancel
    PROVE  Lifecycle!Next \/ Quiet
<1>1. /\ UNCHANGED <<plan, attempt>> /\ \A u \in Task : PhaseOf(u)' = PhaseOf(u)
      /\ cancels \in Nat /\ cancels' = cancels + 1
  BY PhaseStays, SchedulerAssumption DEF Cancel, taskVars, Inv, TypeOK
<1>2. CASE cancels > 0
  BY <1>1, <1>2 DEF Quiet
<1>3. CASE ~(cancels > 0)
  <2>1. Lifecycle!Stop
    BY <1>1, <1>3 DEF Lifecycle!Stop
  <2> QED  BY <2>1 DEF Lifecycle!Next
<1> QED  BY <1>2, <1>3

LEMMA StepImplements ==
    ASSUME Inv, [Next]_vars
    PROVE  [Lifecycle!Next]_Lifecycle!lifecycleVars
<1> SUFFICES Lifecycle!Next \/ Quiet
  BY QuietStutters
<1> USE DEF taskVars
<1>a. ASSUME NoMove, UNCHANGED <<plan, attempt, cancels>> PROVE Quiet
  BY <1>a, NoMovePhase DEF Quiet
<1>1. CASE LoopEnds
  BY <1>1, <1>a, LoopEndsFrame DEF NoMove
<1>2. ASSUME NEW t \in Task, StartAcquire(t) \/ CompleteNext(t) PROVE Quiet
  BY <1>2, <1>a DEF StartAcquire, CompleteNext, NoMove
<1>3. ASSUME NEW t \in Task, ExecutorStep(t) PROVE Quiet
  BY <1>3, <1>a, ExecutorFrame DEF NoMove
<1>4. CASE Spawn \/ HookRaises \/ Gathered \/ Drained
  BY <1>4, <1>a DEF Spawn, HookRaises, Gathered, Drained, NoMove
<1>5. CASE EndSweep
  BY <1>5, <1>a DEF EndSweep, NoMove, Inv, Books, ResourceBook
<1>6. CASE HookAllowsStart \/ HookRefusesStart \/ HookAcceptsResult \/ HookRefusesResult
  <2>1. current \in Task
    BY <1>6, SettleMoves DEF HookAllowsStart, HookRefusesStart, Inv, TypeOK
  <2> QED
    BY <1>6, <2>1, StartStarts, RefusalRefuses, ResultEnds
<1>7. CASE UNCHANGED vars
  BY <1>7, <1>a DEF vars, NoMove
<1> QED
  BY <1>1, <1>2, <1>3, <1>4, <1>5, <1>6, <1>7, PromotionSkips, AsideIsWaiting,
     DeadlockSkips, SweepWithdraws, CancelStops DEF Next, SchedulerStep, LoopEnds

LEMMA InitImplements == Init => Lifecycle!Init
<1> SUFFICES ASSUME Init PROVE Lifecycle!Init
  OBVIOUS
<1>1. \A t \in Task : PhaseOf(t) \in {"waiting", "succeeded"}
  BY DEF Init, PhaseOf
<1>2. [t \in Task |-> PhaseOf(t)] \in [Task -> {"waiting", "succeeded"}]
  BY <1>1
<1>3. (cancels > 0) = FALSE
  BY DEF Init
<1> QED
  BY <1>2, <1>3, SameWords DEF Init, Lifecycle!Init

(* The scheduler, with its loops, hooks, leases and awaits, does nothing to *)
(* a task that TaskLifecycle does not allow: in particular no task is       *)
(* reported blocked for want of a resource or of a slot.                    *)
THEOREM SchedulerImplementsLifecycle == Spec => ImplementsLifecycle
BY InitImplements, StepImplements, InvHolds, PTL
DEF Spec, ImplementsLifecycle, Lifecycle!Spec

=============================================================================
