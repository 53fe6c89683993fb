------------------------- MODULE GoalWorkflowProofs -------------------------
(***************************************************************************)
(* Theorems about /goal, for any number of workers, effects, revisions and *)
(* repairs.  Approval and analysis are given to a revision; effects happen *)
(* later, in threads that outlive their task and their execution.  What    *)
(* carries the approval over is that a revision never changes once it is   *)
(* made, and that an execution is always one of the latest revision.       *)
(***************************************************************************)
EXTENDS ConversationProofs, Integers, TLAPS

(* The variables of GoalWorkflow, by their names there.                     *)
LOCAL goalStage == s1
LOCAL goal == s2
LOCAL goalFull == s3
LOCAL revision == s4
LOCAL revisions == s5
LOCAL scope == s6
LOCAL analysed == s7
LOCAL approved == s8
LOCAL goalRepairs == s9
LOCAL goalWorker == s10
LOCAL expansion == s11
LOCAL inflight == s12
LOCAL effects == s13

USE DEF goalStage, goal, goalFull, revision, revisions, scope, analysed, approved,
        goalRepairs, goalWorker, expansion, inflight, effects

-----------------------------------------------------------------------------
(* The inductive invariant *)

(* The latest revision, by the place in the workflow.                       *)
RevisionBook ==
    /\ goalStage = "planning" => revision = revisions /\ revisions <= MaxRevisions
    /\ goalStage \in {"asking", "executing", "converging"} =>
          revision = revisions + 1 /\ (goalFull => revision \in analysed)
    /\ Goals!Executing => revision \in approved
    /\ analysed \cup approved \subseteq 1..revision

(* Every effect, also one that has yet to happen, is of a revision that was *)
(* approved as it is.                                                       *)
EffectBook ==
    \A x \in inflight \cup effects :
        /\ x[1] \in scope[x[2]]
        /\ x[2] \in approved
        /\ goalFull => x[2] \in analysed

GoalBook ==
    /\ goal = "NONE" =>
          /\ goalStage = "prompt" /\ revision = 0 /\ revisions = 0
          /\ inflight = {} /\ effects = {} /\ analysed = {} /\ approved = {}
    /\ goalStage = "converging" => goalFull
    /\ goal = "COMPLETED" => goalStage = "prompt" /\ (~goalFull => expansion = Nothing)

GoalInv == Goals!TypeOK /\ RevisionBook /\ EffectBook /\ GoalBook

LEMMA GoalStart == Goals!GoalAssumption /\ Goals!Init => GoalInv
<1> SUFFICES ASSUME Goals!GoalAssumption, Goals!Init PROVE GoalInv
  OBVIOUS
<1>1. Goals!TypeOK
  <2>1. scope \in [Goals!Revision -> SUBSET Effect]
    BY DEF Goals!Init
  <2>2. /\ goalRepairs \in 0..MaxGoalRepairs
        /\ {revision, revisions} \subseteq 0..(MaxRevisions + 1)
    BY DEF Goals!GoalAssumption, Goals!Init
  <2> QED  BY <2>1, <2>2 DEF Goals!Init, Goals!TypeOK
<1>2. RevisionBook /\ EffectBook /\ GoalBook
  BY DEF Goals!GoalAssumption, Goals!Init, RevisionBook, EffectBook, GoalBook,
         Goals!Executing
<1> QED  BY <1>1, <1>2 DEF GoalInv

(* A worker's step: only a call adds an effect, and only to those under way.*)
WorkerStep ==
    \E w \in Worker :
        \/ Goals!CallTool(w) \/ Goals!Returns(w)
        \/ Goals!RequestExpansion(w) \/ Goals!SubmitResult(w)

LEMMA WorkerFrame ==
    ASSUME Goals!TypeOK, WorkerStep
    PROVE  /\ Goals!Executing
           /\ UNCHANGED <<goalStage, goal, goalFull, Goals!plan, goalRepairs, effects>>
           /\ goalWorker' \in [Worker -> {"free", "done"} \cup Effect]
           /\ expansion' \in Effect \cup {Nothing}
           /\ \/ inflight' = inflight
              \/ \E e \in Effect : /\ e \in scope[revision]
                                   /\ inflight' = inflight \cup {<<e, revision>>}
<1> PICK w \in Worker :
    \/ Goals!CallTool(w) \/ Goals!Returns(w)
    \/ Goals!RequestExpansion(w) \/ Goals!SubmitResult(w)
  BY DEF WorkerStep
<1>1. CASE Goals!CallTool(w)
  BY <1>1 DEF Goals!CallTool, Goals!Planned, Goals!TypeOK
<1>2. CASE Goals!Returns(w)
  BY <1>2 DEF Goals!Returns, Goals!TypeOK
<1>3. CASE Goals!RequestExpansion(w)
  BY <1>3 DEF Goals!RequestExpansion, Goals!TypeOK
<1>4. CASE Goals!SubmitResult(w)
  BY <1>4 DEF Goals!SubmitResult, Goals!TypeOK
<1> QED  BY <1>1, <1>2, <1>3, <1>4

(* The steps that end a pass or an execution, or send it back.              *)
PassStep ==
    \/ Goals!GiveUp \/ Goals!Cancel \/ Goals!Revise \/ Goals!ReplanExpansion
    \/ Goals!ReviewApproves \/ Goals!Converges \/ Goals!Repair \/ Goals!Fails

LEMMA PassFrame ==
    ASSUME Goals!GoalAssumption, Goals!TypeOK, RevisionBook, PassStep
    PROVE  /\ UNCHANGED <<goalFull, revision, scope, analysed, approved, inflight, effects>>
           /\ expansion' = expansion
           /\ goalStage # "prompt"
           /\ \/ revisions' = revisions
              \/ /\ revision = revisions + 1 /\ revisions' = revision
                 /\ goalStage' = IF revision <= MaxRevisions THEN "planning" ELSE "prompt"
           /\ goal' \in {goal, "CANCELLED", "FAILED", "COMPLETED"}
           /\ goalStage' \in {goalStage, "prompt", "planning", "converging"}
           /\ goalStage' = "planning" /\ goalStage # "planning" => revisions' = revision
           /\ goalStage' = "converging" /\ goalStage # "converging" =>
                 goalStage = "executing" /\ goalFull
           /\ goal' = "COMPLETED" /\ goal # "COMPLETED" =>
                 goalStage' = "prompt" /\ (goalStage = "converging" \/ expansion = Nothing)
           /\ goalRepairs' \in 0..MaxGoalRepairs
           /\ goalWorker' \in [Worker -> {"free", "done"} \cup Effect]
<1> USE DEF Goals!plan, Goals!execution, Goals!TypeOK
<1>1. CASE Goals!GiveUp
  BY <1>1 DEF Goals!GiveUp
<1>2. CASE Goals!Cancel
  BY <1>2 DEF Goals!Cancel
<1>3. CASE Goals!Revise \/ Goals!ReplanExpansion
  BY <1>3 DEF Goals!Revise, Goals!ReplanExpansion, Goals!Replan, RevisionBook,
              Goals!PassOver, Goals!GoalAssumption
<1>4. CASE Goals!ReviewApproves
  BY <1>4 DEF Goals!ReviewApproves, Goals!Verdicts, Goals!PassOver,
              Goals!NotExpanding, Goals!GoalAssumption
<1>5. CASE Goals!Converges
  BY <1>5 DEF Goals!Converges
<1>6. CASE Goals!Repair
  BY <1>6 DEF Goals!Repair, Goals!Verdicts, Goals!PassOver, Goals!Executing,
              Goals!GoalAssumption
<1>7. CASE Goals!Fails
  BY <1>7 DEF Goals!Fails, Goals!Executing
<1> QED  BY <1>1, <1>2, <1>3, <1>4, <1>5, <1>6, <1>7 DEF PassStep

LEMMA GoalKeeps ==
    ASSUME Goals!GoalAssumption, GoalInv, [Goals!Next]_(Goals!vars)
    PROVE  GoalInv'
<1> USE DEF Goals!plan, Goals!execution
<1>a. Goals!TypeOK /\ RevisionBook /\ EffectBook /\ GoalBook /\ MaxRevisions \in Nat
  BY DEF GoalInv, Goals!GoalAssumption
<1>1. CASE Goals!Start
  <2>1. Goals!TypeOK'
    BY <1>a, <1>1 DEF Goals!Start, Goals!TypeOK
  <2>2. RevisionBook' /\ EffectBook' /\ GoalBook'
    BY <1>a, <1>1 DEF Goals!Start, RevisionBook, EffectBook, GoalBook, Goals!Executing
  <2> QED  BY <2>1, <2>2 DEF GoalInv
<1>2. CASE Goals!Submit
  <2>1. /\ revision' = revision + 1 /\ revision' \in Goals!Revision
        /\ revision \in Nat /\ revision = revisions /\ goalStage = "planning"
    BY <1>a, <1>2 DEF Goals!Submit, RevisionBook, Goals!Revision, Goals!TypeOK
  <2>2. PICK effs \in SUBSET Effect : scope' = [scope EXCEPT ![revision + 1] = effs]
    BY <1>2 DEF Goals!Submit
  <2>3. Goals!TypeOK'
    BY <1>a, <1>2, <2>1, <2>2 DEF Goals!Submit, Goals!TypeOK, Goals!Revision
  <2>4. RevisionBook'
    BY <1>a, <1>2, <2>1 DEF Goals!Submit, RevisionBook, Goals!Executing
  <2>5. EffectBook'
    <3> SUFFICES ASSUME NEW x \in inflight \cup effects
                 PROVE  /\ x[1] \in scope'[x[2]] /\ x[2] \in approved
                        /\ goalFull => x[2] \in analysed'
      BY <1>2 DEF Goals!Submit, EffectBook
    <3>1. x[2] \in 1..revision
      BY <1>a DEF EffectBook, RevisionBook
    <3>2. scope'[x[2]] = scope[x[2]]
      BY <1>a, <2>1, <2>2, <3>1 DEF Goals!TypeOK
    <3> QED
      BY <1>a, <1>2, <3>2 DEF Goals!Submit, EffectBook
  <2>6. GoalBook'
    BY <1>2 DEF Goals!Submit, GoalBook
  <2> QED  BY <2>3, <2>4, <2>5, <2>6 DEF GoalInv
<1>3. CASE Goals!Approve
  <2>1. revision \in Goals!Revision /\ revision = revisions + 1
    BY <1>a, <1>3 DEF Goals!Approve, RevisionBook, Goals!TypeOK, Goals!Revision
  <2>2. Goals!TypeOK'
    BY <1>a, <1>3, <2>1 DEF Goals!Approve, Goals!TypeOK, Goals!GoalAssumption
  <2>3. RevisionBook' /\ EffectBook' /\ GoalBook'
    BY <1>a, <1>3, <2>1 DEF Goals!Approve, RevisionBook, EffectBook, GoalBook,
                            Goals!Executing, Goals!Revision
  <2> QED  BY <2>2, <2>3 DEF GoalInv
<1>4. CASE WorkerStep
  <2>1. /\ revision \in Goals!Revision /\ revision \in approved
        /\ goalFull => revision \in analysed
    BY <1>a, <1>4, WorkerFrame DEF RevisionBook, Goals!Executing, Goals!TypeOK
  <2>2. inflight' \subseteq Effect \X Goals!Revision
    BY <1>a, <1>4, <2>1, WorkerFrame DEF Goals!TypeOK
  <2>3. Goals!TypeOK'
    BY <1>a, <1>4, <2>2, WorkerFrame DEF Goals!TypeOK
  <2>4. RevisionBook'
    BY <1>a, <1>4, WorkerFrame DEF RevisionBook, Goals!Executing
  <2>5. EffectBook'
    BY <1>a, <1>4, <2>1, WorkerFrame DEF EffectBook
  <2>6. GoalBook'
    BY <1>a, <1>4, WorkerFrame DEF GoalBook, Goals!Executing
  <2> QED  BY <2>3, <2>4, <2>5, <2>6 DEF GoalInv
<1>5. CASE Goals!Happens
  <2>1. Goals!TypeOK'
    BY <1>a, <1>5 DEF Goals!Happens, Goals!TypeOK
  <2>2. EffectBook'
    BY <1>a, <1>5 DEF Goals!Happens, EffectBook
  <2>3. RevisionBook' /\ GoalBook'
    BY <1>a, <1>5 DEF Goals!Happens, RevisionBook, GoalBook, Goals!Executing
  <2> QED  BY <2>1, <2>2, <2>3 DEF GoalInv
<1>6. CASE PassStep
  <2>1. Goals!TypeOK'
    BY <1>a, <1>6, PassFrame DEF Goals!TypeOK
  <2>2. RevisionBook'
    BY <1>a, <1>6, PassFrame DEF RevisionBook, Goals!Executing, Goals!TypeOK
  <2>3. EffectBook'
    BY <1>a, <1>6, PassFrame DEF EffectBook
  <2>4. GoalBook'
    BY <1>a, <1>6, PassFrame DEF GoalBook
  <2> QED  BY <2>1, <2>2, <2>3, <2>4 DEF GoalInv
<1>7. CASE UNCHANGED Goals!vars
  BY <1>a, <1>7 DEF Goals!vars, GoalInv, Goals!TypeOK, RevisionBook, EffectBook,
                    GoalBook, Goals!Executing
<1> QED
  BY <1>1, <1>2, <1>3, <1>4, <1>5, <1>6, <1>7 DEF Goals!Next, WorkerStep, PassStep

LEMMA GoalAlways == Goals!GoalAssumption => (Goals!Spec => []GoalInv)
<1> SUFFICES ASSUME Goals!GoalAssumption PROVE Goals!Spec => []GoalInv
  OBVIOUS
<1>1. Goals!Init => GoalInv
  BY GoalStart
<1>2. GoalInv /\ [Goals!Next]_(Goals!vars) => GoalInv'
  BY GoalKeeps
<1> QED
  BY <1>1, <1>2, PTL DEF Goals!Spec

-----------------------------------------------------------------------------
(* Theorems *)

(* Every variable of the workflow keeps its type; the revisions stay within *)
(* the number the operator may ask for, and one.                            *)
THEOREM TypeCorrect == Goals!GoalAssumption => (Goals!Spec => []Goals!TypeOK)
<1>1. GoalInv => Goals!TypeOK
  BY DEF GoalInv
<1> QED
  BY <1>1, GoalAlways, PTL

(* Whatever happens to the workspace was planned by a revision that the     *)
(* operator had approved, and that passed the analysis where there is one:  *)
(* also what a thread does after its task timed out or after the operator   *)
(* went on to another revision.                                             *)
THEOREM EffectsAreApproved ==
    Goals!GoalAssumption => (Goals!Spec => []Goals!EffectsWereApproved)
<1>1. GoalInv => Goals!EffectsWereApproved
  BY DEF GoalInv, EffectBook, Goals!EffectsWereApproved
<1> QED
  BY <1>1, GoalAlways, PTL

(* Outside the full workflow no goal is completed while a task waits for    *)
(* more than was approved.                                                  *)
THEOREM ExpansionIsReplanned ==
    Goals!GoalAssumption => (Goals!Spec => []Goals!ExpansionIsReplannedInPasses)
<1>1. GoalInv => Goals!ExpansionIsReplannedInPasses
  BY DEF GoalInv, GoalBook, Goals!ExpansionIsReplannedInPasses
<1> QED
  BY <1>1, GoalAlways, PTL

(* An approved revision is not written again: what the operator read is     *)
(* what the tools are held to for the rest of the session.                  *)
ApprovedStaysAsRead ==
    [][\A r \in approved : r \in approved' /\ scope'[r] = scope[r]]_(Goals!vars)

THEOREM ApprovedStays == Goals!GoalAssumption => (Goals!Spec => ApprovedStaysAsRead)
<1> SUFFICES ASSUME Goals!GoalAssumption PROVE Goals!Spec => ApprovedStaysAsRead
  OBVIOUS
<1>1. GoalInv /\ [Goals!Next]_(Goals!vars) =>
        [\A r \in approved : r \in approved' /\ scope'[r] = scope[r]]_(Goals!vars)
  <2> SUFFICES ASSUME GoalInv, [Goals!Next]_(Goals!vars), NEW r \in approved
               PROVE  r \in approved' /\ scope'[r] = scope[r]
    OBVIOUS
  <2>1. r \in 1..revision /\ r \in Goals!Revision
    BY DEF GoalInv, RevisionBook, Goals!TypeOK
  <2>2. CASE Goals!Submit
    BY <2>1, <2>2 DEF Goals!Submit, GoalInv, Goals!TypeOK
  <2>3. CASE WorkerStep \/ PassStep
    BY <2>3, WorkerFrame, PassFrame DEF GoalInv, Goals!plan
  <2>4. CASE Goals!Start \/ Goals!Approve \/ Goals!Happens \/ UNCHANGED Goals!vars
    BY <2>4 DEF Goals!Start, Goals!Approve, Goals!Happens, Goals!plan, Goals!vars
  <2> QED
    BY <2>2, <2>3, <2>4 DEF Goals!Next, WorkerStep, PassStep
<1> QED
  BY <1>1, GoalAlways, PTL DEF ApprovedStaysAsRead, Goals!Spec

-----------------------------------------------------------------------------
(* The runtime.  A step of it is a step of the part that the behaviour      *)
(* belongs to, so that what holds of that part by itself holds here.        *)

LEMMA GoalsBehaviour == RuntimeSpec => []~Runs("goal") \/ Goals!Spec
<1>1. RuntimeInit => ~Runs("goal") \/ Goals!Init
  BY DEF RuntimeInit, Runs
<1>2. [RuntimeNext]_runtime =>
        \/ ~Runs("goal") /\ ~Runs("goal")'
        \/ Runs("goal") /\ Runs("goal")' /\ [Goals!Next]_(Goals!vars)
  BY OnePart DEF Runs
<1>3. QED BY <1>1, <1>2, PTL DEF RuntimeSpec, Goals!Spec

(* Every effect was in the scope of a plan revision that was approved, and  *)
(* analysed, before it took place; outside the full workflow no goal is     *)
(* completed while a task waits for more.  (run_goal_workflow.)             *)
THEOREM EffectsStayApproved == RuntimeSpec => []EffectsWereApproved
<1>1. Goals!Spec => []Goals!EffectsWereApproved /\ []Goals!ExpansionIsReplannedInPasses
  BY RuntimeAssumption, EffectsAreApproved, ExpansionIsReplanned
<1>2. ~Runs("goal") \/ (Goals!EffectsWereApproved /\ Goals!ExpansionIsReplannedInPasses)
         => EffectsWereApproved
  BY DEF EffectsWereApproved, Runs
<1>3. QED BY <1>1, <1>2, GoalsBehaviour, PTL

=============================================================================
