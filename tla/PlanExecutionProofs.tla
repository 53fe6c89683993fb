------------------------ MODULE PlanExecutionProofs ------------------------
(***************************************************************************)
(* Theorems about the execution of a plan over its journal, for every task *)
(* table and any number of tasks, repairs, crashes and resumes.            *)
(*                                                                         *)
(* The process keeps two accounts of each task, one in memory (phase and   *)
(* answer) and one in the journal (task), and writes them at different     *)
(* moments.  The invariant says how far apart they may be: PassBook while  *)
(* a process works on the run, InterruptBook across the processes, and     *)
(* FreshBook as long as one process has done all the work.                 *)
(***************************************************************************)
EXTENDS PlanExecution, TLAPS

-----------------------------------------------------------------------------
(* The inductive invariant *)

NewBook ==
    runStatus = "none" =>
        /\ place = "idle" /\ interrupted = {} /\ stale = {}
        /\ \A t \in Task : task[t].status = "PENDING"

(* What memory says of a task, and what the journal says of it meanwhile.   *)
PassBook ==
    place # "idle" =>
        \A t \in Task :
            /\ phase[t] = "succeeded" => task[t].status = "COMPLETED"
            /\ answer[t] # "none" => phase[t] = "active"
            /\ answer[t] = "completed" => task[t].status = "COMPLETED"
            /\ answer[t] \in {"retryable", "timeout"} => task[t].status # "COMPLETED"
            /\ phase[t] = "active" =>
                  place = "pass" /\ (answer[t] = "none" => task[t].status = "RUNNING")
            /\ phase[t] = "waiting" =>
                  /\ place = "pass"
                  /\ task[t].status = "COMPLETED" => round > 0 /\ t \in targets

(* What was cut short is still RUNNING in the journal, so that every resume *)
(* is refused.                                                              *)
InterruptBook ==
    /\ \A t \in interrupted : task[t].status = "RUNNING" /\ ~Repeatable(t)
    /\ interrupted # {} => place = "idle"

(* Without a resume, a task is under way or done in a pass only when what   *)
(* it depends on is done in that pass, so a superseded result waits to be   *)
(* computed again.                                                          *)
FreshBook ==
    resumed = 0 =>
        /\ runStatus = "completed" => place = "idle" /\ stale = {}
        /\ place # "idle" =>
              \A t \in Task :
                  /\ t \in stale => phase[t] # "succeeded" /\ answer[t] # "completed"
                  /\ phase[t] \in {"active", "succeeded"} =>
                        \A d \in plan.deps[t] : phase[d] = "succeeded"

Books == NewBook /\ PassBook /\ InterruptBook /\ FreshBook

-----------------------------------------------------------------------------
(* The steps, by what they do to the two accounts *)

(* The process gives the run back or is gone.                               *)
Stops ==
    \/ ScopeExpansion \/ ReviewFails \/ Approve \/ CancelRun \/ FailRun
    \/ Crash
    \/ \E requested \in SUBSET Task : RepairExhausted(requested)

Answers(t) ==
    ReturnsCompleted(t) \/ ReturnsRetryable(t) \/ ReturnsFinal(t) \/ ReturnsNothing(t)

Settles(t) == SettleAccepted(t) \/ SettleRefused(t)

LEMMA StopsFinish ==
    ASSUME TypeOK, NewBook, Stops
    PROVE  /\ place # "idle"
           /\ \E verdict \in RunStatus :
                 /\ Finish(verdict)
                 /\ verdict # "none"
                 /\ verdict = "completed" =>
                       \/ runStatus = "completed"
                       \/ place = "review" /\ Failed = {}
<1> USE DEF RunStatus, NewBook, TypeOK
<1>1. CASE ScopeExpansion
  BY <1>1 DEF ScopeExpansion
<1>2. CASE ReviewFails
  BY <1>2 DEF ReviewFails
<1>3. CASE Approve
  BY <1>3 DEF Approve
<1>4. CASE CancelRun
  BY <1>4 DEF CancelRun, InPass
<1>5. CASE Crash
  BY <1>5 DEF Crash
<1>6. ASSUME NEW requested \in SUBSET Task, RepairExhausted(requested)
      PROVE  place = "review" /\ Finish("failed")
  BY <1>6 DEF RepairExhausted, Rejected
<1>7. CASE FailRun
  BY <1>7 DEF FailRun
<1> QED
  BY <1>1, <1>2, <1>3, <1>4, <1>5, <1>6, <1>7 DEF Stops

LEMMA AnswersWrite ==
    ASSUME NEW t \in Task, Answers(t)
    PROVE  /\ InPass /\ phase[t] = "active" /\ answer[t] = "none"
           /\ UNCHANGED <<plan, place, round, phase, tries, targets, unrecorded, resumed,
                          terminalResume, interrupted>>
           /\ refused' = refused \ {t}
           /\ runStatus' \in {runStatus, "failed", "cancelled"}
           /\ \E result \in {"completed", "retryable", "final", "raised", "timeout",
                             "cancelled"} :
                 /\ answer' = [answer EXCEPT ![t] = result]
                 /\ \/ /\ result = "completed"
                       /\ Write(t, "COMPLETED", "completed")
                       /\ stale' = (stale \ {t}) \cup
                                   { u \in CompletedTasks : t \in plan.deps[u] }
                    \/ /\ result \in {"retryable", "final"}
                       /\ \E s \in {"FAILED_RETRYABLE", "CLOSED"},
                             e \in {"ambiguous", "none"} : Write(t, s, e)
                       /\ stale' = stale
                    \/ /\ result \in {"raised", "timeout", "cancelled"}
                       /\ UNCHANGED <<task, stale>>
<1> USE DEF Returned
<1>1. CASE ReturnsCompleted(t)
  BY <1>1 DEF ReturnsCompleted
<1>2. CASE ReturnsRetryable(t)
  BY <1>2 DEF ReturnsRetryable, AfterFailure
<1>3. CASE ReturnsFinal(t)
  BY <1>3 DEF ReturnsFinal, AfterFailure
<1>4. CASE ReturnsNothing(t)
  BY <1>4 DEF ReturnsNothing
<1> QED
  BY <1>1, <1>2, <1>3, <1>4 DEF Answers

LEMMA SettlesMove ==
    ASSUME NEW t \in Task, Settles(t)
    PROVE  /\ InPass /\ phase[t] = "active"
           /\ UNCHANGED <<plan, place, round, tries, targets, unrecorded, durable, resumed,
                          terminalResume, stale, interrupted>>
           /\ answer' = [answer EXCEPT ![t] = "none"]
           /\ refused' \subseteq refused \cup {t}
           /\ \E to \in {"succeeded", "failed", "withdrawn", "waiting"} :
                 /\ phase' = [phase EXCEPT ![t] = to]
                 /\ to = "succeeded" => answer[t] = "completed"
                 /\ to = "waiting" => answer[t] \in {"retryable", "timeout"}
<1> USE DEF Settle, Pass!End, Pass!Retry, Pass!Become
<1>1. CASE SettleAccepted(t)
  BY <1>1 DEF SettleAccepted
<1>2. CASE SettleRefused(t)
  BY <1>2 DEF SettleRefused
<1> QED
  BY <1>1, <1>2 DEF Settles

-----------------------------------------------------------------------------
(* Type correctness *)

LEMMA InitType == Init => TypeOK
<1> SUFFICES ASSUME Init PROVE TypeOK
  OBVIOUS
<1>1. task \in [Task -> [status : TaskStatus, effect : Effect]]
  BY DEF Init, TaskStatus, Effect
<1>2. phase \in [Task -> Pass!Phase] /\ tries \in [Task -> Nat]
  BY DEF Init, Pass!Phase
<1>3. round \in 0..MaxRepairs /\ resumed \in 0..MaxResumes
  BY ExecutionAssumption DEF Init
<1> QED
  BY <1>1, <1>2, <1>3 DEF Init, TypeOK, RunStatus

LEMMA BeginType ==
    ASSUME NEW number, NEW seeds, BeginPass(number, seeds)
    PROVE  /\ place' = "pass" /\ round' = number /\ unrecorded' = {}
           /\ phase' \in [Task -> Pass!Phase]
           /\ tries' \in [Task -> Nat]
           /\ answer' = [t \in Task |-> "none"]
           /\ \A t \in Task : phase'[t] = IF t \in seeds THEN "succeeded" ELSE "waiting"
BY DEF BeginPass, Pass!Phase

LEMMA NextType == TypeOK /\ NewBook /\ [Next]_vars => TypeOK'
<1> SUFFICES ASSUME TypeOK, NewBook, [Next]_vars PROVE TypeOK'
  OBVIOUS
<1> USE DEF TypeOK, durable, memory, history
<1>1. CASE CreateRun
  BY <1>1, BeginType, ExecutionAssumption DEF CreateRun, RunStatus
<1>2. CASE Resume
  <2>1. /\ task' \in [Task -> [status : TaskStatus, effect : Effect]]
        /\ runStatus' \in RunStatus /\ terminalResume' \in BOOLEAN
    BY <1>2 DEF Resume, TaskStatus, Effect, RunStatus
  <2>2. resumed' \in 0..MaxResumes
    BY <1>2, ExecutionAssumption DEF Resume
  <2> QED
    BY <1>2, <2>1, <2>2, BeginType, ExecutionAssumption DEF Resume
<1>3. CASE ResumeRefused
  BY <1>3, ExecutionAssumption DEF ResumeRefused, RunStatus
<1>4. ASSUME NEW t \in Task, StartTask(t) PROVE TypeOK'
  BY <1>4 DEF StartTask, Pass!Start, Pass!Become, Pass!Phase, Write, RunStatus,
              TaskStatus, Effect
<1>5. ASSUME NEW t \in Task, GiveUp(t) PROVE TypeOK'
  BY <1>5 DEF GiveUp, Pass!Refuse, Pass!Skip, Pass!Become, Pass!Phase
<1>6. ASSUME NEW t \in Task, Answers(t) PROVE TypeOK'
  <2>1. task' \in [Task -> [status : TaskStatus, effect : Effect]]
    BY <1>6, AnswersWrite DEF Write, TaskStatus, Effect
  <2>2. stale' \subseteq Task
    BY <1>6, AnswersWrite DEF CompletedTasks
  <2>3. answer' \in [Task -> {"none", "completed", "retryable", "final", "raised",
                              "timeout", "cancelled"}]
    BY <1>6, AnswersWrite
  <2> QED
    BY <1>6, <2>1, <2>2, <2>3, AnswersWrite DEF RunStatus
<1>7. ASSUME NEW t \in Task, Settles(t) PROVE TypeOK'
  <2>1. phase' \in [Task -> Pass!Phase]
    BY <1>7, SettlesMove DEF Pass!Phase
  <2>2. answer' \in [Task -> {"none", "completed", "retryable", "final", "raised",
                              "timeout", "cancelled"}]
    BY <1>7, SettlesMove
  <2> QED
    BY <1>7, <2>1, <2>2, SettlesMove
<1>8. CASE EndPass \/ EndRecord
  BY <1>8 DEF EndPass, EndRecord
<1>9. ASSUME NEW t \in Task, RecordNext(t) PROVE TypeOK'
  BY <1>9 DEF RecordNext, Write, TaskStatus, Effect
<1>10. ASSUME NEW requested \in SUBSET Task, Repair(requested) PROVE TypeOK'
  <2>1. targets' \subseteq Task
    BY <1>10 DEF Repair, RepairClosure
  <2>2. round + 1 \in 0..MaxRepairs
    BY <1>10, ExecutionAssumption DEF Repair, MayRepair
  <2> QED
    BY <1>10, <2>1, <2>2, BeginType DEF Repair
<1>11. CASE Stops
  <2>1. PICK verdict \in RunStatus : Finish(verdict)
    BY <1>11, StopsFinish
  <2>2. phase' \in [Task -> Pass!Phase] /\ tries' \in [Task -> Nat]
    BY <2>1 DEF Finish, Leave, Pass!Phase
  <2>3. 0 \in 0..MaxRepairs
    BY ExecutionAssumption
  <2> QED
    BY <2>1, <2>2, <2>3 DEF Finish, Leave
<1>12. CASE UNCHANGED vars
  BY <1>12 DEF vars
<1> QED
  BY <1>1, <1>2, <1>3, <1>4, <1>5, <1>6, <1>7, <1>8, <1>9, <1>10, <1>11, <1>12
  DEF Next, ProcessStep, Stops, Answers, Settles

-----------------------------------------------------------------------------
(* The books are kept *)

LEMMA InitBooks == Init => Books
BY DEF Init, Books, NewBook, PassBook, InterruptBook, FreshBook

LEMMA NextNew ==
    ASSUME TypeOK, Books, [Next]_vars
    PROVE  NewBook'
<1> USE DEF NewBook, durable, memory, history
<1>a. TypeOK /\ NewBook
  BY DEF Books
<1>1. CASE CreateRun
  BY <1>1 DEF CreateRun
<1>2. CASE Resume
  BY <1>a, <1>2 DEF Resume
<1>3. CASE ResumeRefused
  BY <1>3 DEF ResumeRefused
<1>4. ASSUME NEW t \in Task, StartTask(t) PROVE NewBook'
  BY <1>4 DEF StartTask
<1>5. ASSUME NEW t \in Task, GiveUp(t) PROVE NewBook'
  BY <1>a, <1>5 DEF GiveUp, InPass
<1>6. ASSUME NEW t \in Task, Answers(t) PROVE NewBook'
  BY <1>a, <1>6, AnswersWrite DEF InPass
<1>7. ASSUME NEW t \in Task, Settles(t) PROVE NewBook'
  BY <1>a, <1>7, SettlesMove DEF InPass
<1>8. CASE EndPass \/ EndRecord
  BY <1>a, <1>8 DEF EndPass, EndRecord, InPass
<1>9. ASSUME NEW t \in Task, RecordNext(t) PROVE NewBook'
  BY <1>a, <1>9 DEF RecordNext
<1>10. ASSUME NEW requested \in SUBSET Task, Repair(requested) PROVE NewBook'
  BY <1>a, <1>10 DEF Repair, Rejected
<1>11. CASE Stops
  BY <1>a, <1>11, StopsFinish DEF Finish
<1>12. CASE UNCHANGED vars
  BY <1>a, <1>12 DEF vars
<1> QED
  BY <1>1, <1>2, <1>3, <1>4, <1>5, <1>6, <1>7, <1>8, <1>9, <1>10, <1>11, <1>12
  DEF Next, ProcessStep, Stops, Answers, Settles

LEMMA NextPass ==
    ASSUME TypeOK, Books, [Next]_vars
    PROVE  PassBook'
<1> USE DEF PassBook, durable, memory, history, InPass
<1>a. TypeOK /\ NewBook /\ PassBook
  BY DEF Books
<1>1. CASE CreateRun
  BY <1>a, <1>1, BeginType DEF CreateRun, NewBook
<1>2. CASE Resume
  <2>1. \A t \in Task : /\ t \in CompletedTasks => task'[t].status = "COMPLETED"
                        /\ t \notin CompletedTasks => task'[t].status # "COMPLETED"
    BY <1>a, <1>2 DEF Resume, CompletedTasks, RetryTasks
  <2> QED
    BY <1>2, <2>1, BeginType DEF Resume
<1>3. CASE ResumeRefused
  BY <1>a, <1>3 DEF ResumeRefused
<1>4. ASSUME NEW t \in Task, StartTask(t) PROVE PassBook'
  <2>1. /\ phase[t] = "waiting" /\ phase' = [phase EXCEPT ![t] = "active"]
        /\ UNCHANGED <<place, round, answer, targets>> /\ place = "pass"
    BY <1>4 DEF StartTask, Pass!Start, Pass!Become
  <2>2. /\ task'[t].status = "RUNNING"
        /\ \A u \in Task \ {t} : task'[u] = task[u]
    BY <1>a, <1>4 DEF StartTask, Write, TypeOK
  <2> QED
    BY <1>a, <2>1, <2>2 DEF TypeOK
<1>5. ASSUME NEW t \in Task, GiveUp(t) PROVE PassBook'
  BY <1>a, <1>5 DEF GiveUp, Pass!Refuse, Pass!Skip, Pass!Become, TypeOK
<1>6. ASSUME NEW t \in Task, Answers(t) PROVE PassBook'
  <2>1. /\ \A u \in Task \ {t} : task'[u] = task[u] /\ answer'[u] = answer[u]
        /\ answer'[t] = "completed" => task'[t].status = "COMPLETED"
        /\ answer'[t] \in {"retryable", "timeout"} => task'[t].status # "COMPLETED"
        /\ answer'[t] # "none"
    BY <1>a, <1>6, AnswersWrite DEF Write, TypeOK
  <2> QED
    BY <1>a, <1>6, <2>1, AnswersWrite DEF TypeOK
<1>7. ASSUME NEW t \in Task, Settles(t) PROVE PassBook'
  <2>1. /\ \A u \in Task \ {t} : phase'[u] = phase[u] /\ answer'[u] = answer[u]
        /\ phase'[t] \in {"succeeded", "failed", "withdrawn", "waiting"}
        /\ phase'[t] = "succeeded" => answer[t] = "completed"
        /\ phase'[t] = "waiting" => answer[t] \in {"retryable", "timeout"}
        /\ answer'[t] = "none"
    BY <1>a, <1>7, SettlesMove DEF TypeOK
  <2> QED
    BY <1>a, <1>7, <2>1, SettlesMove
<1>8. CASE EndPass
  BY <1>a, <1>8 DEF EndPass, PassOver
<1>9. CASE EndRecord
  BY <1>a, <1>9 DEF EndRecord
<1>10. ASSUME NEW t \in Task, RecordNext(t) PROVE PassBook'
  <2>1. /\ phase[t] = "succeeded" => task'[t].status = "COMPLETED"
        /\ \A u \in Task \ {t} : task'[u] = task[u]
    BY <1>a, <1>10 DEF RecordNext, Write, IsFirst, TypeOK
  <2> QED
    BY <1>a, <1>10, <2>1 DEF RecordNext
<1>11. ASSUME NEW requested \in SUBSET Task, Repair(requested) PROVE PassBook'
  <2>1. Failed \subseteq targets' /\ round' = round + 1 /\ round \in Nat
    BY <1>a, <1>11, BeginType, ExecutionAssumption
    DEF Repair, Rejected, RepairClosure, TypeOK
  <2> QED
    BY <1>a, <1>11, <2>1, BeginType DEF Repair, Rejected, Failed
<1>12. CASE Stops
  <2>1. place' = "idle"
    BY <1>a, <1>12, StopsFinish DEF Finish, Leave
  <2> QED  BY <2>1
<1>13. CASE UNCHANGED vars
  BY <1>a, <1>13 DEF vars
<1> QED
  BY <1>1, <1>2, <1>3, <1>4, <1>5, <1>6, <1>7, <1>8, <1>9, <1>10, <1>11, <1>12, <1>13
  DEF Next, ProcessStep, Stops, Answers, Settles

LEMMA NextInterrupt ==
    ASSUME TypeOK, Books, [Next]_vars
    PROVE  InterruptBook'
<1> USE DEF InterruptBook, durable, memory, history, InPass
<1>a. TypeOK /\ NewBook /\ PassBook /\ InterruptBook
  BY DEF Books
<1>b. ASSUME UNCHANGED plan, NEW t \in Task PROVE Repeatable(t)' <=> Repeatable(t)
  BY <1>b DEF Repeatable, Mutating
<1>1. CASE CreateRun
  BY <1>a, <1>1 DEF CreateRun, NewBook
<1>2. CASE Resume
  <2>1. interrupted = {}
    BY <1>a, <1>2 DEF Resume, Disposition, ReviewTasks, TypeOK
  <2> QED
    BY <1>2, <2>1 DEF Resume
<1>3. CASE ResumeRefused
  BY <1>a, <1>b, <1>3 DEF ResumeRefused, TypeOK
<1>4. ASSUME place # "idle", UNCHANGED interrupted PROVE InterruptBook'
  BY <1>a, <1>4
<1>5. ASSUME NEW t \in Task,
             StartTask(t) \/ GiveUp(t) \/ RecordNext(t)
      PROVE  InterruptBook'
  BY <1>4, <1>5 DEF StartTask, GiveUp, RecordNext
<1>6. ASSUME NEW t \in Task, Answers(t) \/ Settles(t) PROVE InterruptBook'
  BY <1>4, <1>6, AnswersWrite, SettlesMove
<1>7. CASE EndPass \/ EndRecord
  BY <1>4, <1>7 DEF EndPass, EndRecord
<1>8. ASSUME NEW requested \in SUBSET Task, Repair(requested) PROVE InterruptBook'
  BY <1>4, <1>8 DEF Repair, Rejected
<1>9. CASE Stops
  <2>1. /\ interrupted = {} /\ UNCHANGED <<plan, task>> /\ place' = "idle"
        /\ interrupted' = interrupted \cup
              { t \in Task : phase[t] = "active" /\ answer[t] = "none" /\ ~Repeatable(t) }
    BY <1>a, <1>9, StopsFinish DEF Finish, Leave
  <2>2. \A t \in interrupted' : task[t].status = "RUNNING" /\ ~Repeatable(t)
    BY <1>a, <1>9, <2>1, StopsFinish DEF PassBook
  <2> QED
    BY <1>b, <2>1, <2>2
<1>10. CASE UNCHANGED vars
  BY <1>a, <1>b, <1>10 DEF vars, TypeOK
<1> QED
  BY <1>1, <1>2, <1>3, <1>5, <1>6, <1>7, <1>8, <1>9, <1>10
  DEF Next, ProcessStep, Stops, Answers, Settles

-----------------------------------------------------------------------------
(* Fresh results *)

LEMMA DepsType ==
    ASSUME plan \in ValidPlans, NEW t \in Task
    PROVE  plan.deps[t] \subseteq Task /\ t \notin plan.deps[t]
<1>1. plan.deps \in [Task -> SUBSET Task]
  BY PlansAssumption DEF ValidPlans
<1>2. plan.deps[t] \cap {t} = {}
  <2>1. {t} \in (SUBSET Task) \ {{}}
    OBVIOUS
  <2>2. PICK m \in {t} : plan.deps[m] \cap {t} = {}
    BY <2>1 DEF ValidPlans, ValidDag
  <2> QED  BY <2>2
<1> QED
  BY <1>1, <1>2

(* A repair that repeats what a task depends on repeats the task.           *)
LEMMA ClosureClosed ==
    ASSUME plan \in ValidPlans, NEW requested \in SUBSET Task,
           NEW t \in Task, NEW d \in plan.deps[t], d \in RepairClosure(requested)
    PROVE  t \in RepairClosure(requested)
<1>1. d \in Ancestors(plan, t)
  BY DepsType DEF Ancestors
<1>2. Ancestors(plan, d) \subseteq Ancestors(plan, t)
  <2> SUFFICES ASSUME NEW a \in Ancestors(plan, d), NEW S \in SUBSET Task,
                      plan.deps[t] \subseteq S, \A s \in S : plan.deps[s] \subseteq S
               PROVE  a \in S
    BY DEF Ancestors
  <2> QED  BY DEF Ancestors
<1> QED
  BY <1>1, <1>2 DEF RepairClosure

LEMMA NextFresh ==
    ASSUME TypeOK, Books, [Next]_vars
    PROVE  FreshBook'
<1> USE DEF FreshBook, durable, memory, history, InPass
<1>a. TypeOK /\ NewBook /\ PassBook /\ FreshBook
  BY DEF Books
<1>b. \A t \in Task : plan.deps[t] \subseteq Task /\ t \notin plan.deps[t]
  BY DepsType DEF TypeOK
<1>c. resumed \in Nat
  BY ExecutionAssumption DEF TypeOK
<1>1. CASE CreateRun
  BY <1>a, <1>1, BeginType DEF CreateRun, NewBook
<1>2. CASE Resume \/ ResumeRefused
  <2>1. resumed' # 0
    BY <1>2, <1>c DEF Resume, ResumeRefused
  <2> QED  BY <2>1
<1>3. ASSUME NEW t \in Task, StartTask(t) PROVE FreshBook'
  <2>1. /\ \A d \in plan.deps[t] : phase[d] = "succeeded"
        /\ phase' = [phase EXCEPT ![t] = "active"] /\ phase[t] = "waiting"
        /\ runStatus' = "running" /\ place = "pass" /\ answer[t] # "completed"
        /\ UNCHANGED <<plan, place, answer, stale, resumed>>
    BY <1>a, <1>3 DEF StartTask, Pass!Start, Pass!Become, PassBook
  <2> QED
    BY <1>a, <1>b, <2>1 DEF TypeOK
<1>4. ASSUME NEW t \in Task, GiveUp(t) PROVE FreshBook'
  <2>1. /\ \E to \in {"refused", "skipped"} : phase' = [phase EXCEPT ![t] = to]
        /\ phase[t] = "waiting"
        /\ UNCHANGED <<plan, place, answer, stale, resumed, runStatus>>
    BY <1>4 DEF GiveUp, Pass!Refuse, Pass!Skip, Pass!Become
  <2>2. \A u \in Task : \/ phase'[u] = phase[u]
                        \/ u = t /\ phase'[u] \notin {"active", "succeeded"}
    BY <1>a, <2>1 DEF TypeOK
  <2>3. \A u \in Task : phase[u] = "succeeded" => phase'[u] = "succeeded"
    BY <1>a, <2>1 DEF TypeOK
  <2> QED
    BY <1>a, <1>b, <2>1, <2>2, <2>3
<1>5. ASSUME NEW t \in Task, Answers(t) PROVE FreshBook'
  <2>1. /\ place = "pass" /\ phase[t] = "active" /\ answer[t] = "none"
        /\ UNCHANGED <<plan, place, phase, resumed>>
        /\ runStatus' = "completed" => runStatus = "completed"
        /\ \A u \in Task \ {t} : answer'[u] = answer[u]
        /\ answer'[t] = "completed" =>
              stale' = (stale \ {t}) \cup { u \in CompletedTasks : t \in plan.deps[u] }
        /\ answer'[t] # "completed" => stale' = stale
    BY <1>a, <1>5, AnswersWrite DEF TypeOK
  <2> SUFFICES ASSUME resumed = 0, NEW u \in Task, u \in stale'
               PROVE  phase[u] # "succeeded" /\ answer'[u] # "completed"
    BY <1>a, <2>1
  <2>2. CASE u \in stale /\ (u = t => answer'[t] # "completed")
    BY <1>a, <2>1, <2>2
  <2>3. CASE t \in plan.deps[u]
    BY <1>a, <1>b, <2>1, <2>3 DEF PassBook
  <2> QED
    BY <1>b, <2>1, <2>2, <2>3
<1>6. ASSUME NEW t \in Task, Settles(t) PROVE FreshBook'
  <2>1. /\ \A u \in Task \ {t} : phase'[u] = phase[u] /\ answer'[u] = answer[u]
        /\ phase[t] = "active" /\ phase'[t] # "active"
        /\ phase'[t] = "succeeded" => answer[t] = "completed"
        /\ answer'[t] = "none"
        /\ UNCHANGED <<plan, place, runStatus, stale, resumed>>
    BY <1>a, <1>6, SettlesMove DEF TypeOK
  <2> QED
    BY <1>a, <1>b, <2>1
<1>7. CASE EndPass \/ EndRecord
  BY <1>a, <1>7 DEF EndPass, EndRecord
<1>8. ASSUME NEW t \in Task, RecordNext(t) PROVE FreshBook'
  BY <1>a, <1>8 DEF RecordNext
<1>9. ASSUME NEW requested \in SUBSET Task, Repair(requested) PROVE FreshBook'
  <2> SUFFICES ASSUME resumed = 0 PROVE FreshBook'
    BY <1>9 DEF Repair
  <2>1. /\ place = "review" /\ Failed \subseteq targets'
        /\ targets' = RepairClosure(requested)
        /\ UNCHANGED <<plan, runStatus, stale, resumed>>
        /\ \A u \in Task : /\ answer'[u] = "none"
                           /\ phase'[u] = IF u \in targets' THEN "waiting" ELSE "succeeded"
    BY <1>9, BeginType DEF Repair, Rejected, RepairClosure, Failed
  <2>2. \A u \in Task : u \in stale => u \in targets'
    BY <1>a, <2>1 DEF Failed
  <2>3. \A u \in Task : \A d \in plan.deps[u] : d \in targets' => u \in targets'
    BY <1>a, <1>9, <2>1, ClosureClosed DEF TypeOK
  <2> QED
    BY <1>a, <1>b, <2>1, <2>2, <2>3
<1>10. CASE Stops
  <2>1. PICK verdict \in RunStatus :
           /\ Finish(verdict)
           /\ verdict = "completed" =>
                 runStatus = "completed" \/ (place = "review" /\ Failed = {})
    BY <1>a, <1>10, StopsFinish
  <2>2. place # "idle"
    BY <1>a, <1>10, StopsFinish
  <2>3. place' = "idle" /\ runStatus' = verdict /\ UNCHANGED <<resumed, stale>>
    BY <2>1 DEF Finish, Leave
  <2>4. resumed = 0 /\ Failed = {} => stale = {}
    BY <1>a, <2>2 DEF Failed, TypeOK
  <2> QED
    BY <1>a, <2>1, <2>2, <2>3, <2>4
<1>11. CASE UNCHANGED vars
  BY <1>a, <1>11 DEF vars
<1> QED
  BY <1>1, <1>2, <1>3, <1>4, <1>5, <1>6, <1>7, <1>8, <1>9, <1>10, <1>11
  DEF Next, ProcessStep, Stops, Answers, Settles

-----------------------------------------------------------------------------
(* Theorems *)

Inv == TypeOK /\ Books

LEMMA InvHolds == Spec => []Inv
<1>1. Init => Inv
  BY InitType, InitBooks DEF Inv
<1>2. Inv /\ [Next]_vars => Inv'
  BY NextType, NextNew, NextPass, NextInterrupt, NextFresh DEF Inv, Books
<1> QED
  BY <1>1, <1>2, PTL DEF Spec

(* Journal and memory keep their types, over any number of processes.       *)
THEOREM TypeCorrect == Spec => []TypeOK
<1>1. Inv => TypeOK
  BY DEF Inv
<1> QED
  BY <1>1, InvHolds, PTL

(* An effect that was cut short and may not be repeated keeps the run out   *)
(* of every process: the task is still RUNNING in the journal, and no       *)
(* resume changes that.                                                     *)
THEOREM InterruptedWaits == Spec => []InterruptedEffectWaits
<1>1. Inv => InterruptedEffectWaits
  BY DEF Inv, Books, InterruptBook, InterruptedEffectWaits
<1> QED
  BY <1>1, InvHolds, PTL

(* With no resume in between, an approved run holds no result computed from *)
(* one that a repair has replaced: the closure of a repair repeats it.      *)
THEOREM FreshResults == Spec => []FreshWithoutResume
<1>1. Inv => FreshWithoutResume
  BY DEF Inv, Books, FreshBook, FreshWithoutResume
<1> QED
  BY <1>1, InvHolds, PTL

(* A pass starts a task that the journal calls completed only in a repair   *)
(* that asked for it: the first pass of a process, also of a resumed one,   *)
(* repeats no completed work, however it failed or was cut short before.    *)
THEOREM NoWorkReplayed == Spec => NoReplay
<1>1. Inv /\ [Next]_vars
         => [\A t \in Task :
                /\ phase[t] = "waiting"
                /\ phase'[t] = "active"
                /\ task[t].status = "COMPLETED"
                => round > 0 /\ t \in targets]_vars
  <2> SUFFICES ASSUME Inv, [Next]_vars, NEW t \in Task, phase[t] = "waiting",
                      phase'[t] = "active", task[t].status = "COMPLETED"
               PROVE  round > 0 /\ t \in targets
    OBVIOUS
  <2>1. place # "idle"
    <3>1. ~CreateRun /\ ~Resume /\ ~Stops
      BY BeginType, StopsFinish
      DEF CreateRun, Resume, Finish, Leave, Inv, Books
    <3>2. ~ResumeRefused /\ ~UNCHANGED vars
      BY DEF ResumeRefused, memory, vars
    <3>3. ProcessStep
      BY <3>1, <3>2 DEF Next, Stops
    <3> QED
      BY <3>1, <3>3, AnswersWrite, SettlesMove
      DEF ProcessStep, EndPass, EndRecord, StartTask, GiveUp, RecordNext, InPass,
          Repair, Rejected, Stops, Answers, Settles
  <2> QED
    BY <2>1 DEF Inv, Books, PassBook
<1> QED
  BY <1>1, InvHolds, PTL DEF NoReplay, Spec

(* A run becomes completed only when the journal has every task completed,  *)
(* whatever the reviewer said and however often the run was resumed.        *)
THEOREM CompletedIsWhole == Spec => CompletedRunIsWhole
<1>1. Inv /\ [Next]_vars
         => [runStatus # "completed" /\ runStatus' = "completed"
                => \A t \in Task : task[t].status = "COMPLETED"]_vars
  <2> SUFFICES ASSUME Inv, [Next]_vars, runStatus # "completed",
                      runStatus' = "completed"
               PROVE  \A t \in Task : task[t].status = "COMPLETED"
    OBVIOUS
  <2>1. Stops
    <3>1. ~CreateRun /\ ~Resume /\ ~ResumeRefused /\ ~UNCHANGED vars
      BY DEF CreateRun, Resume, ResumeRefused, vars
    <3>2. ProcessStep \/ Stops
      BY <3>1 DEF Next, Stops
    <3> QED
      BY <3>2, AnswersWrite, SettlesMove
      DEF ProcessStep, EndPass, EndRecord, StartTask, GiveUp, RecordNext, Repair,
          Stops, Answers, Settles, durable
  <2>2. place # "idle" /\ Failed = {}
    BY <2>1, StopsFinish DEF Finish, Inv, Books
  <2> QED
    BY <2>2 DEF Inv, Books, PassBook, Failed
<1> QED
  BY <1>1, InvHolds, PTL DEF CompletedRunIsWhole, Spec

=============================================================================
