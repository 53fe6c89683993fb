----------------------------- MODULE PlanStore -----------------------------
(***************************************************************************)
(* The plan store, runtime/planning.py (PlanStore), and the commands that  *)
(* use it: planning, revising and running a plan (run_plan_workflow,       *)
(* _submit_plan, /run, run_plan_execution in AgenteGlobalCore.py).         *)
(*                                                                         *)
(* A plan is a file per revision and a pointer file that repeats the       *)
(* current revision.  Each file is replaced atomically; the two files of a *)
(* publication are two steps, and a crash or a failed write may come       *)
(* between them.  The lock of a store serialises the threads of one        *)
(* process, where publications are sequential anyway; two processes share  *)
(* the directory and no lock.                                              *)
(***************************************************************************)
EXTENDS Naturals, FiniteSets

CONSTANTS
    Process,         \* the programs working in one workspace
    Text,            \* what a plan says
    MaxId,           \* bound: plan numbers 1..MaxId
    MaxRevision,     \* bound: revisions 1..MaxRevision
    Nothing

ASSUME StoreAssumption ==
    /\ MaxId \in Nat \ {0}
    /\ MaxRevision \in Nat \ {0}
    /\ Nothing \notin [rev : 1..MaxRevision, text : Text, origin : Process]

VARIABLES
    revisionFile,    \* PLAN-id-rN.json
    pointerFile,     \* PLAN-id.json
    pc,              \* what each process is doing
    planId,          \* the plan it works on
    base,            \* the plan it revises, or Nothing for a new one
    plan             \* the plan it submits, holds or executes

files == <<revisionFile, pointerFile>>
vars == <<revisionFile, pointerFile, pc, planId, base, plan>>

Id == 1..MaxId
Revision == 1..MaxRevision

(* origin stands for created_at: two new plans never share it.              *)
Document == [rev : Revision, text : Text, origin : Process]

Init ==
    /\ revisionFile = [id \in Id |-> [r \in Revision |-> Nothing]]
    /\ pointerFile = [id \in Id |-> Nothing]
    /\ pc = [p \in Process |-> "idle"]
    /\ planId = [p \in Process |-> 1]
    /\ base = [p \in Process |-> Nothing]
    /\ plan = [p \in Process |-> Nothing]

GoTo(p, from, to) == pc[p] = from /\ pc' = [pc EXCEPT ![p] = to]

-----------------------------------------------------------------------------
(* Planning *)

(* next_plan_id: one more than the highest pointer, orphan revisions aside. *)
IsNextId(id) ==
    /\ \A higher \in Id : higher >= id => pointerFile[higher] = Nothing
    /\ id > 1 => pointerFile[id - 1] # Nothing

StartPlanning(p) ==
    /\ GoTo(p, "idle", "planning")
    /\ \E id \in Id : IsNextId(id) /\ planId' = [planId EXCEPT ![p] = id]
    /\ base' = [base EXCEPT ![p] = Nothing]
    /\ plan' = [plan EXCEPT ![p] = Nothing]
    /\ UNCHANGED files

(* The plan in hand becomes the base of a revision: the operator asked for  *)
(* one, or its execution met a larger scope.                                *)
StartRevising(p) ==
    /\ GoTo(p, "waiting", "planning") \/ GoTo(p, "executing", "planning")
    /\ base' = [base EXCEPT ![p] = plan[p]]
    /\ plan' = [plan EXCEPT ![p] = Nothing]
    /\ UNCHANGED <<files, planId>>

(* save: neither file may exist.                                            *)
CanSave(p) ==
    /\ base[p] = Nothing
    /\ revisionFile[planId[p]][1] = Nothing
    /\ pointerFile[planId[p]] = Nothing

(* Faulty variant: whatever file has the next number is replaced.           *)
AnyRevision(id, rev) == rev \in Revision

FreeRevision(id, rev) == rev \in Revision /\ revisionFile[id][rev] = Nothing

SamePlan(p, current) ==
    /\ current.rev = base[p].rev
    /\ current.origin = base[p].origin

(* revise: on top of the current revision of the same plan only.            *)
CanRevise(p) ==
    LET current == pointerFile[planId[p]]
    IN  /\ base[p] # Nothing
        /\ current # Nothing
        /\ SamePlan(p, current)
        /\ FreeRevision(planId[p], current.rev + 1)

(* The checks of submit_plan hold: the document is ready to be written.  If *)
(* they do not, the planner sees an error and nothing changes.              *)
Submit(p) ==
    /\ GoTo(p, "planning", "writing")
    /\ \E text \in Text :
          \/ /\ CanSave(p)
             /\ plan' = [plan EXCEPT ![p] = [rev |-> 1, text |-> text, origin |-> p]]
          \/ /\ CanRevise(p)
             /\ plan' = [plan EXCEPT ![p] =
                   [rev |-> base[p].rev + 1, text |-> text, origin |-> base[p].origin]]
    /\ UNCHANGED <<files, planId, base>>

(* Faulty variant: the current plan is published before it is recorded.     *)
WritePointerFirst(p) ==
    /\ GoTo(p, "writing", "publishing")
    /\ pointerFile' = [pointerFile EXCEPT ![planId[p]] = plan[p]]
    /\ UNCHANGED <<revisionFile, planId, base, plan>>

WriteRevision(p) ==
    /\ GoTo(p, "writing", "publishing")
    /\ revisionFile' = [revisionFile EXCEPT ![planId[p]][plan[p].rev] = plan[p]]
    /\ UNCHANGED <<pointerFile, planId, base, plan>>

WritePointer(p) ==
    /\ GoTo(p, "publishing", "waiting")
    /\ pointerFile' = [pointerFile EXCEPT ![planId[p]] = plan[p]]
    /\ UNCHANGED <<revisionFile, planId, base, plan>>

(* A write fails (PlanStoreError): the planner is told and may try again.   *)
WriteFails(p) ==
    /\ GoTo(p, "writing", "planning") \/ GoTo(p, "publishing", "planning")
    /\ plan' = [plan EXCEPT ![p] = Nothing]
    /\ UNCHANGED <<files, planId, base>>

-----------------------------------------------------------------------------
(* Running *)

(* Faulty variant: a reference that names no file is not noticed.           *)
ReadUnchecked(id, found) ==
    \/ found = pointerFile[id]
    \/ \E r \in Revision : found = revisionFile[id][r]

(* load: the current revision, or the one the reference names.              *)
Read(id, found) ==
    /\ found # Nothing
    /\ \/ found = pointerFile[id]
       \/ \E r \in Revision : found = revisionFile[id][r]

(* /run PLAN-ID or PLAN-ID-rN; /resume names a revision too.                *)
Load(p) ==
    /\ GoTo(p, "idle", "loaded")
    /\ \E id \in Id, found \in Document \cup {Nothing} :
          /\ Read(id, found)
          /\ planId' = [planId EXCEPT ![p] = id]
          /\ plan' = [plan EXCEPT ![p] = found]
    /\ base' = [base EXCEPT ![p] = Nothing]
    /\ UNCHANGED files

(* Faulty variant: the approval is enough.                                  *)
IsStored(p) == pointerFile[planId[p]] # Nothing

(* run_plan_execution: the approved plan must be the current revision.      *)
IsCurrent(p) ==
    /\ pointerFile[planId[p]] # Nothing
    /\ pointerFile[planId[p]].rev = plan[p].rev

Execute(p) ==
    /\ GoTo(p, "waiting", "executing") \/ GoTo(p, "loaded", "executing")
    /\ IsCurrent(p)
    /\ UNCHANGED <<files, planId, base, plan>>

(* The operator cancels, the planner gives up, the execution ends or is     *)
(* refused, or the process is killed: what is in its memory is gone.        *)
Leave(p) ==
    /\ pc[p] # "idle"
    /\ pc' = [pc EXCEPT ![p] = "idle"]
    /\ base' = [base EXCEPT ![p] = Nothing]
    /\ plan' = [plan EXCEPT ![p] = Nothing]
    /\ UNCHANGED <<files, planId>>

-----------------------------------------------------------------------------

Next ==
    \E p \in Process :
       \/ StartPlanning(p) \/ StartRevising(p) \/ Submit(p)
       \/ WriteRevision(p) \/ WritePointer(p) \/ WriteFails(p)
       \/ Load(p) \/ Execute(p) \/ Leave(p)

Spec == Init /\ [][Next]_vars

-----------------------------------------------------------------------------
(* Properties *)

TypeOK ==
    /\ revisionFile \in [Id -> [Revision -> Document \cup {Nothing}]]
    /\ pointerFile \in [Id -> Document \cup {Nothing}]
    /\ pc \in [Process -> {"idle", "planning", "writing", "publishing",
                           "waiting", "loaded", "executing"}]
    /\ planId \in [Process -> Id]
    /\ base \in [Process -> Document \cup {Nothing}]
    /\ plan \in [Process -> Document \cup {Nothing}]
    /\ \A p \in Process : pc[p] \notin {"idle", "planning"} => plan[p] \in Document

(* "Persist immutable revision snapshots": a revision file, once written,   *)
(* is never replaced by a different one.                                    *)
RevisionsImmutable ==
    [][\A id \in Id, r \in Revision :
          revisionFile[id][r] # Nothing
             => revisionFile'[id][r] = revisionFile[id][r]]_vars

(* What starts to execute is the stored current plan, word for word, and    *)
(* not merely a plan with its number.                                       *)
ExecutedIsCurrent ==
    [][\A p \in Process :
          pc[p] # "executing" /\ pc'[p] = "executing"
             => plan[p] = pointerFile[planId[p]]]_vars

(* The current plan of every id is the last of a complete record: all its   *)
(* revisions are there, with its number and of its origin.                  *)
CurrentIsRecorded ==
    \A id \in Id :
       pointerFile[id] # Nothing =>
          /\ revisionFile[id][pointerFile[id].rev] = pointerFile[id]
          /\ \A r \in 1..pointerFile[id].rev :
                /\ revisionFile[id][r] # Nothing
                /\ revisionFile[id][r].rev = r
                /\ revisionFile[id][r].origin = pointerFile[id].origin

(* Why the store keeps its word to one process at a time: what a process    *)
(* holds, revises or is about to write fits what the files hold.            *)
InHand ==
    /\ \A id \in Id, r \in Revision :
          revisionFile[id][r] # Nothing => revisionFile[id][r].rev = r
    /\ \A p \in Process :
          LET id == planId[p]  current == pointerFile[id]
          IN  /\ pc[p] \in {"planning", "writing", "publishing"} =>
                    base[p] = Nothing \/ base[p] = current
              /\ pc[p] \in {"writing", "publishing"} =>
                    \/ base[p] = Nothing /\ current = Nothing /\ plan[p].rev = 1
                    \/ /\ base[p] # Nothing
                       /\ plan[p].rev = base[p].rev + 1
                       /\ plan[p].origin = base[p].origin
              /\ pc[p] = "writing" => revisionFile[id][plan[p].rev] = Nothing
              /\ pc[p] \in {"publishing", "waiting", "loaded", "executing"} =>
                    revisionFile[id][plan[p].rev] = plan[p]
              /\ pc[p] \in {"waiting", "executing"} => plan[p] = current

(* PlanConflictError: "A caller attempted to overwrite or revise a stale    *)
(* plan snapshot".  Whoever is refused works on a plan that has moved on,   *)
(* or under a number that is a plan's.                                      *)
ConflictMeansStale ==
    \A p \in Process :
       pc[p] = "planning" /\ ~CanSave(p) /\ ~CanRevise(p) =>
          LET current == pointerFile[planId[p]]
          IN  \/ base[p] = Nothing /\ current # Nothing
              \/ base[p] # Nothing /\ base[p] # current
              \/ base[p] # Nothing /\ base[p].rev = MaxRevision

-----------------------------------------------------------------------------
(* The store implements the registry: a publication is the moment the       *)
(* pointer is replaced, and what was published stays.                       *)

HistoryOf(id) ==
    IF pointerFile[id] = Nothing THEN << >>
    ELSE [r \in 1..pointerFile[id].rev |-> revisionFile[id][r]]

Registry == INSTANCE PlanRegistry
    WITH history <- [id \in Id |-> HistoryOf(id)]

(* Every change of what readers see appends one revision.                   *)
ImplementsRegistry == Registry!Spec

=============================================================================
