------------------------------ MODULE SpecGate ------------------------------
(***************************************************************************)
(* The quality gates of a large goal (runtime/spec_workflow.py) over the   *)
(* Spec Kit documents of the workspace (runtime/spec_kit.py), as           *)
(* run_goal_workflow passes them: scan, clarification, plan, analysis,     *)
(* and the analysis again of every plan that replaces the first.           *)
(*                                                                         *)
(* A specification is what the gates read of it: whether it holds a marker *)
(* "[NEEDS CLARIFICATION: ...]", whether it holds a TBD or TODO, whether   *)
(* it has acceptance criteria, and the requirements it states, those past  *)
(* the characters that a scan reads apart. tasks.md is the requirements    *)
(* that each of its tasks names, and whether its dependencies are known    *)
(* ones. A task of the internal plan is the official task it claims to be, *)
(* by its metadata or by its name, and whether the two agree (objective,   *)
(* dependencies, mutation, resources, criteria).                           *)
(***************************************************************************)
EXTENDS Naturals, Sequences, FiniteSets

CONSTANTS
    Requirement,
    Official,        \* task identifiers of tasks.md
    MaxTasks,        \* bound: tasks of an internal plan
    Nothing          \* no document, no task

SpecGateAssumption == Nothing \notin Official /\ MaxTasks \in Nat

VARIABLES
    spec,            \* spec.md on disk
    tasks,           \* tasks.md on disk
    stage,           \* where run_goal_workflow stands
    scan,            \* SpecWorkflowContext: the documents as they were read
    full,            \* decision.use_full_workflow
    plan,            \* the internal Plan
    verdict          \* of the analysis of that plan

vars == <<spec, tasks, stage, scan, full, plan, verdict>>

Document == [asked : BOOLEAN, loose : BOOLEAN, criteria : BOOLEAN,
          states : SUBSET Requirement, tail : SUBSET Requirement]
TaskList == [sound : BOOLEAN, names : [Official -> SUBSET Requirement]]
Scan == [spec : Document \cup {Nothing}, tasks : TaskList \cup {Nothing}]
Claim == [claims : Official, agrees : BOOLEAN]
         \cup {[claims |-> Nothing, agrees |-> FALSE]}
Plans == UNION {[1..n -> Claim] : n \in 0..MaxTasks}
NoScan == [spec |-> Nothing, tasks |-> Nothing]

TypeOK ==
    /\ spec \in Document \cup {Nothing} /\ tasks \in TaskList \cup {Nothing}
    /\ stage \in {"idle", "clarifying", "planning", "analyzing", "deciding"}
    /\ scan \in Scan /\ full \in BOOLEAN /\ plan \in Plans
    /\ verdict \in {"none", "passed", "skipped"}

Init ==
    /\ spec = Nothing /\ tasks = Nothing
    /\ stage = "idle" /\ scan = NoScan /\ full = FALSE
    /\ plan = <<>> /\ verdict = "none"

-----------------------------------------------------------------------------
(* What the gates compute *)

(* SpecKitAdapter.scan: what a document says past the limit is not read.    *)
Read(s) == IF s = Nothing THEN Nothing ELSE [s EXCEPT !.tail = {}]
Scanned == [spec |-> Read(spec), tasks |-> tasks]

(* complete_for_analysis; whoever writes tasks.md has written plan.md.      *)
Complete(c) == c.spec # Nothing /\ c.tasks # Nothing

(* clarification_gate; the checklist's "unambiguous" looks for the same.    *)
Ambiguous(s) == s.asked \/ s.loose
Required(c) == c.spec # Nothing /\ Ambiguous(c.spec)

ChecklistPasses(s) == s.states # {} /\ s.criteria /\ ~Ambiguous(s)

(* SpecTaskMapper.map: unknown dependencies, or identifiers given twice,    *)
(* leave no mapping at all.                                                 *)
Mapped(c) == IF c.tasks.sound THEN Official ELSE {}

Referenced(c) == UNION {c.tasks.names[t] : t \in Mapped(c)}

(* internal_by_id: of the tasks that claim the same official one, the last. *)
LastClaim(t) ==
    {i \in DOMAIN plan : plan[i].claims = t /\ \A j \in i+1..Len(plan) : plan[j].claims # t}

(* Faulty variant: an official task that the plan leaves out is only warned *)
(* about.                                                                   *)
AgreesWhereMapped(t) == \A i \in LastClaim(t) : plan[i].agrees

Agrees(t) == \E i \in LastClaim(t) : plan[i].agrees

(* SpecKitAnalyzeGate.analyze: no finding is a blocker.  Contradictions of  *)
(* plan.md and violations of the constitution are a choice of the caller;   *)
(* the cut at a thousand findings is left out.                              *)
OfficialExecutable(c) ==
    /\ c.tasks.sound /\ ChecklistPasses(c.spec)
    /\ c.spec.states \subseteq Referenced(c)
    /\ \A t \in Mapped(c) : Agrees(t)

InternalExecutable == plan # <<>>                 \* analyze_internal_plan

-----------------------------------------------------------------------------
(* The workflow *)

Goes(to) == stage' = to
documents == <<spec, tasks>>

(* An editor, the operator, another agent.                                  *)
Edit ==
    /\ \/ /\ stage = "idle"
          /\ spec' \in Document \cup {Nothing} /\ tasks' \in TaskList \cup {Nothing}
       \/ /\ stage = "clarifying" /\ spec # Nothing
          /\ \E q \in Requirement : spec' = [spec EXCEPT !.states = @ \cup {q}]
          /\ UNCHANGED tasks
       \/ /\ stage = "clarifying"
          /\ tasks' \in TaskList \cup {Nothing} /\ UNCHANGED spec
    /\ UNCHANGED <<stage, scan, full, plan, verdict>>

(* Every scan maps tasks.md, and an unsound one raises there.               *)
Mappable == tasks # Nothing => tasks.sound

(* SpecWorkflowCoordinator: the official documents, or a large objective,   *)
(* call for all the gates.                                                  *)
Open ==
    /\ stage = "idle" /\ Mappable
    /\ scan' = Scanned
    /\ \E large \in BOOLEAN : full' = (Complete(Scanned) \/ large)
    /\ Goes(IF full' /\ Required(Scanned) THEN "clarifying" ELSE "planning")
    /\ UNCHANGED <<documents, plan, verdict>>

(* resolve_clarifications with every question answered: what was read is    *)
(* written back, an answer in the place of each marker and its question     *)
(* after it in a comment.  The question for a TBD or TODO names them, any   *)
(* other may, and an answer may hold a marker again.                        *)
WritesAnswers ==
    \E asked \in BOOLEAN, loose \in {scan.spec.loose, TRUE} :
        spec' = [scan.spec EXCEPT !.asked = asked, !.loose = loose]

(* Then prepare scans again and goes on, whatever is still asked.           *)
Clarify ==
    /\ stage = "clarifying"
    /\ WritesAnswers /\ Mappable
    /\ scan' = [spec |-> spec', tasks |-> tasks]
    /\ full' \in {Complete(scan'), TRUE} /\ Goes("planning")
    /\ UNCHANGED <<tasks, plan, verdict>>

Leave ==
    /\ Goes("idle") /\ scan' = NoScan /\ full' = FALSE /\ plan' = <<>> /\ verdict' = "none"

(* A question without an answer, a write that fails before or after it has  *)
(* written (or between two documents, which are one here), or a tasks.md    *)
(* that the second scan cannot map.                                         *)
ClarifyFails ==
    /\ stage = "clarifying" /\ Leave
    /\ UNCHANGED spec \/ WritesAnswers
    /\ UNCHANGED tasks

Plan ==                                           \* run_plan_workflow
    /\ stage = "planning" /\ plan' \in Plans /\ Goes("analyzing")
    /\ verdict' = "none"
    /\ UNCHANGED <<documents, scan, full>>

AnalyzePasses ==
    /\ stage = "analyzing" /\ Goes("deciding")
    /\ full /\ Complete(scan) => OfficialExecutable(scan)
    /\ full /\ ~Complete(scan) => InternalExecutable
    /\ verdict' = IF full THEN "passed" ELSE "skipped"
    /\ UNCHANGED <<documents, scan, full, plan>>

AnalyzeBlocked ==                                 \* AnalyzeBlockedError ends the goal
    /\ stage = "analyzing" /\ full
    /\ Complete(scan) \/ ~InternalExecutable
    /\ Leave /\ UNCHANGED documents

(* The operator asks for another plan, or a task for a wider scope: only    *)
(* the plan is new.                                                         *)
Replan ==
    /\ stage = "deciding" /\ Goes("planning")
    /\ UNCHANGED <<documents, scan, full, plan, verdict>>

(* Executed, cancelled or given up.                                         *)
End == stage = "deciding" /\ Leave /\ UNCHANGED documents

Next ==
    \/ Edit \/ Open \/ Clarify \/ ClarifyFails \/ Plan \/ AnalyzePasses
    \/ AnalyzeBlocked \/ Replan \/ End

Spec == Init /\ [][Next]_vars

-----------------------------------------------------------------------------
(* A plan, first or revised, that reaches the operator's approval beside    *)
(* official documents traces all they say: every requirement the scan read  *)
(* is named by an official task that a task of the plan stands for and      *)
(* agrees with, and no question is left in the specification that the       *)
(* answers were written into.                                               *)
ApprovedPlansTraceTheSpec ==
    stage = "deciding" /\ verdict = "passed" /\ Complete(scan) =>
        /\ ~Ambiguous(scan.spec)
        /\ \A q \in scan.spec.states :
              \E t \in Official : /\ q \in scan.tasks.names[t]
                                  /\ \E i \in DOMAIN plan : plan[i].claims = t /\ plan[i].agrees
=============================================================================
