---------------------------- MODULE GoalWorkflow ----------------------------
(***************************************************************************)
(* /goal (run_goal_workflow): a plan is drafted, analysed and approved by  *)
(* the operator, revision after revision; tasks run with the tools of the  *)
(* approved revision (PlanExecutionWorkspaceTools); one that needs more    *)
(* asks for an expansion of the scope, which halts the others' tools until *)
(* a new revision is approved; reviews, repairs and, in the full workflow, *)
(* convergence follow.                                                     *)
(*                                                                         *)
(* How plans are stored is PlanStore's, how tasks are scheduled            *)
(* DAGScheduler's, what convergence looks for Convergence's matter.        *)
(***************************************************************************)
EXTENDS Naturals, FiniteSets

CONSTANTS
    Worker,          \* agents that execute tasks at the same time
    Effect,          \* what a mutating tool may do
    MaxRevisions,    \* max_revisions
    MaxRepairs,      \* max_repairs, and the passes of convergence
    Nothing

GoalAssumption ==
    MaxRevisions \in Nat /\ MaxRepairs \in Nat /\ Nothing \notin Effect

VARIABLES
    stage,           \* where run_goal_workflow is
    goal,            \* the status it gives the goal
    full,            \* use_full_workflow
    revision,        \* of the plan, 0 before there is one
    revisions,       \* of those that max_revisions counts
    scope,           \* what each revision plans to do
    analysed,        \* revisions without blockers
    approved,        \* revisions the operator approved
    repairs,         \* repair passes so far
    worker,          \* free, done, or what its tool is doing
    expansion,       \* pending_scope_expansion, or Nothing
    inflight,        \* effects in threads, each with its revision
    effects          \* effects that have happened

plan == <<revision, revisions, scope, analysed, approved>>
execution == <<repairs, worker, expansion>>
vars == <<stage, goal, full, plan, execution, inflight, effects>>

Revision == 1..(MaxRevisions + 1)

Init ==
    /\ stage = "prompt" /\ goal = "NONE" /\ full = FALSE
    /\ revision = 0 /\ revisions = 0
    /\ scope = [r \in Revision |-> {}]
    /\ analysed = {} /\ approved = {}
    /\ repairs = 0 /\ worker = [w \in Worker |-> "done"]
    /\ expansion = Nothing
    /\ inflight = {} /\ effects = {}

(* Clarifications are asked and written first.                              *)
Start ==
    /\ stage = "prompt" /\ goal = "NONE"
    /\ full' \in BOOLEAN
    /\ stage' = "planning" /\ goal' = "PLANNING"
    /\ UNCHANGED <<plan, execution, inflight, effects>>

(* No plan is submitted, the analysis finds blockers, the prompt has no     *)
(* input, the operator interrupts: the goal keeps the status it had.        *)
GiveUp ==
    /\ stage \in {"planning", "asking", "executing", "converging"}
    /\ stage' = "prompt"
    /\ worker' = [w \in Worker |-> "done"]
    /\ UNCHANGED <<goal, full, plan, repairs, expansion, inflight, effects>>

(* A plan that is made for an expansion has to contain it.                  *)
Contains(effs) == expansion # Nothing => expansion \in effs

Submit ==
    /\ stage = "planning"
    /\ revision' = revision + 1
    /\ \E effs \in SUBSET Effect :
          /\ Contains(effs)
          /\ scope' = [scope EXCEPT ![revision + 1] = effs]
    /\ analysed' = IF full THEN analysed \cup {revision + 1} ELSE analysed
    /\ goal' = "WAITING_APPROVAL"
    /\ stage' = "asking"
    /\ UNCHANGED <<full, revisions, approved, execution, inflight, effects>>

Cancel ==
    /\ stage = "asking"
    /\ goal' = "CANCELLED" /\ stage' = "prompt"
    /\ UNCHANGED <<full, plan, execution, inflight, effects>>

(* Another revision, unless there were enough: then an error is raised.     *)
Replan ==
    /\ revisions' = revisions + 1
    /\ stage' = IF revisions < MaxRevisions THEN "planning" ELSE "prompt"

Revise ==
    /\ stage = "asking"
    /\ Replan
    /\ UNCHANGED <<goal, full, revision, scope, analysed, approved, execution,
                   inflight, effects>>

(* Every execution begins with tools of its own.                            *)
Approve ==
    /\ stage = "asking"
    /\ approved' = approved \cup {revision}
    /\ goal' = "RUNNING" /\ stage' = "executing"
    /\ expansion' = Nothing /\ repairs' = 0
    /\ worker' = [w \in Worker |-> "free"]
    /\ UNCHANGED <<full, revision, revisions, scope, analysed, inflight, effects>>

-----------------------------------------------------------------------------
(* The tools of an execution *)

Executing == stage \in {"executing", "converging"}

(* Faulty variant: what an earlier revision planned is still allowed.       *)
PlannedBefore(e) == \E r \in 1..revision : e \in scope[r]

Planned(e) == e \in scope[revision]

MayCall == expansion = Nothing

CallTool(w) ==
    /\ Executing /\ worker[w] = "free" /\ MayCall
    /\ \E e \in Effect :
          /\ Planned(e)
          /\ inflight' = inflight \cup {<<e, revision>>}
          /\ worker' = [worker EXCEPT ![w] = e]
    /\ UNCHANGED <<stage, goal, full, plan, repairs, expansion, effects>>

(* The thread of a tool runs to its end, whatever happens to its caller.    *)
Happens ==
    /\ \E x \in inflight : inflight' = inflight \ {x} /\ effects' = effects \cup {x}
    /\ UNCHANGED <<stage, goal, full, plan, execution>>

(* The tool returns, or the task runs out of time.                          *)
Returns(w) ==
    /\ Executing /\ worker[w] \in Effect
    /\ \E to \in {"free", "done"} :
          /\ to = "free" => <<worker[w], revision>> \notin inflight
          /\ worker' = [worker EXCEPT ![w] = to]
    /\ UNCHANGED <<stage, goal, full, plan, repairs, expansion, inflight, effects>>

(* Only the first one is kept: then no tool may be called any more.         *)
RequestExpansion(w) ==
    /\ Executing /\ worker[w] = "free" /\ MayCall
    /\ \E e \in Effect \ scope[revision] : expansion' = e
    /\ UNCHANGED <<stage, goal, full, plan, repairs, worker, inflight, effects>>

SubmitResult(w) ==
    /\ Executing /\ worker[w] = "free"
    /\ worker' = [worker EXCEPT ![w] = "done"]
    /\ UNCHANGED <<stage, goal, full, plan, repairs, expansion, inflight, effects>>

-----------------------------------------------------------------------------
(* The end of a pass *)

PassOver == Executing /\ \A w \in Worker : worker[w] = "done"

NotExpanding == expansion = Nothing

ReplanExpansion ==
    /\ PassOver /\ stage = "executing" /\ expansion # Nothing
    /\ Replan
    /\ UNCHANGED <<goal, full, revision, scope, analysed, approved, execution,
                   inflight, effects>>

(* The reviewer decides on the tasks of the pass, in a context of its own.  *)
(* Without a valid answer, after its repairs of the protocol, it raises.    *)
Verdicts ==
    IF PassOver /\ stage = "executing" /\ NotExpanding
    THEN {"approved", "rejected"} ELSE {}

ReviewApproves ==
    /\ "approved" \in Verdicts
    /\ \/ /\ full
          /\ stage' = "converging" /\ repairs' = 0
          /\ UNCHANGED goal
       \/ /\ ~full
          /\ stage' = "prompt" /\ goal' = "COMPLETED"
          /\ UNCHANGED repairs
    /\ UNCHANGED <<full, plan, worker, expansion, inflight, effects>>

Converges ==
    /\ PassOver /\ stage = "converging"
    /\ stage' = "prompt" /\ goal' = "COMPLETED"
    /\ UNCHANGED <<full, plan, execution, inflight, effects>>

(* Repairs of a rejected review, or of gaps, within their number.           *)
Repair ==
    /\ "rejected" \in Verdicts \/ (PassOver /\ stage = "converging")
    /\ \/ /\ repairs < MaxRepairs
          /\ repairs' = repairs + 1
          /\ worker' = [w \in Worker |-> "free"]
          /\ UNCHANGED <<stage, goal>>
       \/ /\ repairs = MaxRepairs
          /\ stage' = "prompt" /\ goal' = "FAILED"
          /\ UNCHANGED <<repairs, worker>>
    /\ UNCHANGED <<full, plan, expansion, inflight, effects>>

(* The scheduler, the journal or the reviewer raises.                       *)
Fails ==
    /\ Executing
    /\ stage' = "prompt" /\ goal' = "FAILED"
    /\ worker' = [w \in Worker |-> "done"]
    /\ UNCHANGED <<full, plan, repairs, expansion, inflight, effects>>

Next ==
    \/ Start \/ GiveUp \/ Submit \/ Cancel \/ Revise \/ Approve
    \/ \E w \in Worker :
          CallTool(w) \/ Returns(w) \/ RequestExpansion(w) \/ SubmitResult(w)
    \/ Happens
    \/ ReplanExpansion \/ ReviewApproves \/ Converges \/ Repair \/ Fails

Spec == Init /\ [][Next]_vars

-----------------------------------------------------------------------------
TypeOK ==
    /\ stage \in {"prompt", "planning", "asking", "executing", "converging"}
    /\ goal \in {"NONE", "PLANNING", "WAITING_APPROVAL", "RUNNING", "COMPLETED",
                 "CANCELLED", "FAILED"}
    /\ full \in BOOLEAN
    /\ revision \in 0..(MaxRevisions + 1) /\ revisions \in 0..(MaxRevisions + 1)
    /\ scope \in [Revision -> SUBSET Effect]
    /\ analysed \subseteq Revision /\ approved \subseteq Revision
    /\ repairs \in 0..MaxRepairs
    /\ worker \in [Worker -> {"free", "done"} \cup Effect]
    /\ expansion \in Effect \cup {Nothing}
    /\ inflight \subseteq Effect \X Revision /\ effects \subseteq Effect \X Revision

(* Whatever happens to the workspace was planned by a revision that the     *)
(* operator had approved before, and that passed the analysis where there   *)
(* is one: also what a task asked for in an expansion, what a thread does   *)
(* after its task has timed out, and what repairs do.                       *)
(* (PlanExecutionWorkspaceTools.execute_async, run_goal_workflow.)          *)
EffectsWereApproved ==
    \A x \in inflight \cup effects :
        /\ x[1] \in scope[x[2]]
        /\ x[2] \in approved
        /\ full => x[2] \in analysed

(* Outside the full workflow a goal is completed only when no task waits    *)
(* for more than was approved: an expansion is looked for after every pass, *)
(* before the review can end the execution; convergence does not look.      *)
(* (run_plan_execution, between the scheduler and the reviewer.)            *)
ExpansionIsReplannedInPasses ==
    goal = "COMPLETED" /\ ~full => expansion = Nothing

=============================================================================
