-------------------------- MODULE PlanStoreProofs --------------------------
(***************************************************************************)
(* Theorems about the plan store, for any number of plans, revisions and   *)
(* texts.  Type correctness holds for any number of processes; the rest is *)
(* about one process, however often its writes fail or it is killed (with  *)
(* two, TLC finds RevisionsImmutable violated).                            *)
(***************************************************************************)
EXTENDS PlanStore, SequenceTheorems, TLAPS

OneProcess == \E p \in Process : Process = {p}

-----------------------------------------------------------------------------
(* Type correctness *)

LEMMA InitType == Init => TypeOK
BY StoreAssumption DEF Init, TypeOK, Id

LEMMA NextType == TypeOK /\ [Next]_vars => TypeOK'
<1> SUFFICES ASSUME TypeOK, [Next]_vars PROVE TypeOK'
  OBVIOUS
<1> USE StoreAssumption
<1>1. ASSUME NEW p \in Process, StartPlanning(p) PROVE TypeOK'
  BY <1>1 DEF StartPlanning, GoTo, files, TypeOK
<1>2. ASSUME NEW p \in Process, StartRevising(p) PROVE TypeOK'
  BY <1>2 DEF StartRevising, GoTo, files, TypeOK
<1>3. ASSUME NEW p \in Process, Submit(p) PROVE TypeOK'
  <2>1. plan'[p] \in Document /\ plan' = [plan EXCEPT ![p] = plan'[p]]
    <3>1. CASE CanSave(p)
      BY <1>3, <3>1 DEF Submit, CanSave, CanRevise, Document, Revision, TypeOK
    <3>2. CASE CanRevise(p)
      BY <1>3, <3>2 DEF Submit, CanSave, CanRevise, SamePlan, FreeRevision,
                        Document, Revision, TypeOK
    <3> QED  BY <1>3, <3>1, <3>2 DEF Submit
  <2> QED  BY <1>3, <2>1 DEF Submit, GoTo, files, TypeOK
<1>4. ASSUME NEW p \in Process, WriteRevision(p) PROVE TypeOK'
  BY <1>4 DEF WriteRevision, GoTo, TypeOK
<1>5. ASSUME NEW p \in Process, WritePointer(p) PROVE TypeOK'
  BY <1>5 DEF WritePointer, GoTo, TypeOK
<1>6. ASSUME NEW p \in Process, WriteFails(p) PROVE TypeOK'
  BY <1>6 DEF WriteFails, GoTo, files, TypeOK
<1>7. ASSUME NEW p \in Process, Load(p) PROVE TypeOK'
  BY <1>7 DEF Load, Read, GoTo, files, TypeOK
<1>8. ASSUME NEW p \in Process, Execute(p) PROVE TypeOK'
  BY <1>8 DEF Execute, GoTo, files, TypeOK
<1>9. ASSUME NEW p \in Process, Leave(p) PROVE TypeOK'
  BY <1>9 DEF Leave, files, TypeOK
<1>10. CASE UNCHANGED vars
  BY <1>10 DEF vars, TypeOK
<1> QED
  BY <1>1, <1>2, <1>3, <1>4, <1>5, <1>6, <1>7, <1>8, <1>9, <1>10 DEF Next

(* Files and memory have their types, for any number of processes.          *)
THEOREM TypeCorrect == Spec => []TypeOK
<1> QED
  BY InitType, NextType, PTL DEF Spec

-----------------------------------------------------------------------------
(* The record *)

LEMMA NothingIsNoDocument == Nothing \notin Document
BY StoreAssumption DEF Document, Revision

Inv == TypeOK /\ CurrentIsRecorded /\ InHand

LEMMA InitRecord == Init => CurrentIsRecorded /\ InHand
BY DEF Init, CurrentIsRecorded, InHand, Id, Revision

(* A step that leaves the files alone leaves the record alone.              *)
LEMMA FilesKept ==
    ASSUME UNCHANGED files
    PROVE  /\ CurrentIsRecorded => CurrentIsRecorded'
           /\ InHand => \A id \in Id, r \in Revision :
                 revisionFile'[id][r] # Nothing => revisionFile'[id][r].rev = r
BY DEF files, CurrentIsRecorded, InHand

(* What it takes for the stored current plan to be the one in hand.         *)
LEMMA NumberDecides ==
    ASSUME Inv, NEW p \in Process, pc[p] = "loaded", IsCurrent(p)
    PROVE  plan[p] = pointerFile[planId[p]]
BY DEF Inv, TypeOK, InHand, IsCurrent, CurrentIsRecorded

(* What load returns is recorded under its own number.                      *)
LEMMA LoadedIsRecorded ==
    ASSUME Inv, NEW id \in Id, NEW found \in Document, Read(id, found)
    PROVE  revisionFile[id][found.rev] = found
BY StoreAssumption DEF Inv, TypeOK, InHand, CurrentIsRecorded, Read, Document, Revision

LEMMA NextRecord ==
    ASSUME OneProcess, Inv, [Next]_vars
    PROVE  CurrentIsRecorded' /\ InHand'
<1> PICK p \in Process : Process = {p}
  BY DEF OneProcess
<1> USE StoreAssumption DEF Inv
<1>1. CASE StartPlanning(p)
  BY <1>1, FilesKept DEF StartPlanning, GoTo, files, TypeOK, InHand
<1>2. CASE StartRevising(p)
  BY <1>2, FilesKept DEF StartRevising, GoTo, files, TypeOK, InHand
<1>3. CASE Submit(p)
  <2>1. CASE CanSave(p)
    BY <1>3, <2>1, FilesKept
    DEF Submit, CanSave, CanRevise, GoTo, files, TypeOK, InHand
  <2>2. CASE CanRevise(p)
    BY <1>3, <2>2, FilesKept
    DEF Submit, CanSave, CanRevise, SamePlan, FreeRevision, GoTo, files, TypeOK,
        InHand
  <2> QED  BY <1>3, <2>1, <2>2 DEF Submit
<1>4. CASE WriteRevision(p)
  <2> DEFINE id == planId[p]
             rev == plan[p].rev
  <2>1. id \in Id /\ rev \in Revision /\ plan[p] # Nothing
    BY <1>4, NothingIsNoDocument DEF WriteRevision, GoTo, TypeOK, Document
  <2>2. /\ revisionFile[id][rev] = Nothing
        /\ revisionFile'[id][rev] = plan[p]
        /\ \A i \in Id, r \in Revision :
              i # id \/ r # rev => revisionFile'[i][r] = revisionFile[i][r]
        /\ UNCHANGED <<pointerFile, planId, base, plan>>
    BY <1>4, <2>1 DEF WriteRevision, GoTo, TypeOK, InHand
  <2>3. CurrentIsRecorded'
    <3> SUFFICES ASSUME NEW i \in Id, pointerFile[i] # Nothing
                 PROVE  /\ revisionFile'[i][pointerFile[i].rev] = pointerFile[i]
                        /\ \A r \in 1..pointerFile[i].rev :
                              /\ revisionFile'[i][r] # Nothing
                              /\ revisionFile'[i][r].rev = r
                              /\ revisionFile'[i][r].origin = pointerFile[i].origin
      BY <2>2 DEF CurrentIsRecorded
    <3>1. pointerFile[i].rev \in Revision
      BY DEF TypeOK, Document
    <3>2. \A r \in 1..pointerFile[i].rev : r \in Revision
      BY <3>1 DEF Revision
    <3>3. \A r \in Revision : revisionFile[i][r] # Nothing =>
            revisionFile'[i][r] = revisionFile[i][r]
      BY <2>2
    <3>4. /\ revisionFile[i][pointerFile[i].rev] = pointerFile[i]
          /\ \A r \in 1..pointerFile[i].rev :
                /\ revisionFile[i][r] # Nothing
                /\ revisionFile[i][r].rev = r
                /\ revisionFile[i][r].origin = pointerFile[i].origin
      BY DEF CurrentIsRecorded
    <3>5. revisionFile'[i][pointerFile[i].rev] = pointerFile[i]
      BY <3>1, <3>3, <3>4
    <3>6. \A r \in 1..pointerFile[i].rev : revisionFile'[i][r] = revisionFile[i][r]
      BY <3>2, <3>3, <3>4
    <3> QED
      BY <3>4, <3>5, <3>6
  <2>4. pc' = [pc EXCEPT ![p] = "publishing"] /\ pc[p] = "writing"
    BY <1>4 DEF WriteRevision, GoTo
  <2>5. InHand'
    BY <2>1, <2>2, <2>4 DEF InHand, TypeOK
  <2> QED  BY <2>3, <2>5
<1>5. CASE WritePointer(p)
  <2> DEFINE id == planId[p]
  <2>1. id \in Id /\ plan[p] \in Document /\ plan[p] # Nothing
    BY <1>5, NothingIsNoDocument DEF WritePointer, GoTo, TypeOK, Document
  <2>2. /\ pointerFile'[id] = plan[p]
        /\ \A i \in Id : i # id => pointerFile'[i] = pointerFile[i]
        /\ UNCHANGED <<revisionFile, planId, base, plan>>
    BY <1>5, <2>1 DEF WritePointer, TypeOK
  <2>3. /\ revisionFile[id][plan[p].rev] = plan[p]
        /\ \A r \in 1..plan[p].rev :
              /\ revisionFile[id][r] # Nothing
              /\ revisionFile[id][r].rev = r
              /\ revisionFile[id][r].origin = plan[p].origin
    <3>1. pc[p] = "publishing"
      BY <1>5 DEF WritePointer, GoTo
    <3>2. CASE base[p] = Nothing
      BY <2>1, <3>1, <3>2 DEF InHand, TypeOK
    <3>3. CASE base[p] # Nothing
      <4>1. /\ base[p] = pointerFile[id]
            /\ plan[p].rev = base[p].rev + 1
            /\ plan[p].origin = base[p].origin
            /\ revisionFile[id][plan[p].rev] = plan[p]
        BY <3>1, <3>3 DEF InHand
      <4>2. base[p].rev \in Nat /\ plan[p].rev \in Nat
        BY <2>1, <3>3 DEF TypeOK, Document, Revision
      <4>3. \A r \in 1..plan[p].rev : r \in 1..base[p].rev \/ r = plan[p].rev
        BY <4>1, <4>2
      <4> QED
        BY <2>1, <3>3, <4>1, <4>3 DEF CurrentIsRecorded
    <3> QED  BY <3>2, <3>3
  <2>4. CurrentIsRecorded'
    BY <2>1, <2>2, <2>3 DEF CurrentIsRecorded
  <2>5. pc' = [pc EXCEPT ![p] = "waiting"] /\ pc[p] = "publishing"
    BY <1>5 DEF WritePointer, GoTo
  <2>6. InHand'
    BY <2>1, <2>2, <2>5 DEF InHand, TypeOK
  <2> QED  BY <2>4, <2>6
<1>6. CASE WriteFails(p)
  BY <1>6, FilesKept DEF WriteFails, GoTo, files, TypeOK, InHand
<1>7. CASE Load(p)
  <2>1. PICK id \in Id, found \in Document :
          /\ Read(id, found)
          /\ planId' = [planId EXCEPT ![p] = id]
          /\ plan' = [plan EXCEPT ![p] = found]
    BY <1>7 DEF Load, Read
  <2>2. revisionFile[id][found.rev] = found
    BY <2>1, LoadedIsRecorded
  <2> QED
    BY <1>7, <2>1, <2>2, FilesKept DEF Load, GoTo, files, TypeOK, InHand
<1>8. CASE Execute(p)
  <2>1. plan[p] = pointerFile[planId[p]]
    BY <1>8, NumberDecides DEF Execute, GoTo, InHand
  <2> QED
    BY <1>8, <2>1, FilesKept DEF Execute, GoTo, files, TypeOK, InHand
<1>9. CASE Leave(p)
  BY <1>9, FilesKept DEF Leave, files, TypeOK, InHand
<1>10. CASE UNCHANGED vars
  BY <1>10, FilesKept DEF vars, files, InHand
<1> QED
  BY <1>1, <1>2, <1>3, <1>4, <1>5, <1>6, <1>7, <1>8, <1>9, <1>10 DEF Next

LEMMA InvHolds == ASSUME OneProcess PROVE Spec => []Inv
<1>1. Init => Inv
  BY InitType, InitRecord DEF Inv
<1>2. Inv /\ [Next]_vars => Inv'
  BY NextType, NextRecord DEF Inv
<1> QED
  BY <1>1, <1>2, PTL DEF Spec

(* The current plan closes a complete record, whatever write failed and     *)
(* wherever the process was killed.                                         *)
THEOREM Recorded == ASSUME OneProcess PROVE Spec => []CurrentIsRecorded
<1>1. Inv => CurrentIsRecorded
  BY DEF Inv
<1> QED
  BY <1>1, InvHolds, PTL

(* A revision file, once written, is never replaced by a different one.     *)
THEOREM Immutable == ASSUME OneProcess PROVE Spec => RevisionsImmutable
<1> DEFINE Kept ==
      \A id \in Id, r \in Revision :
         revisionFile[id][r] # Nothing => revisionFile'[id][r] = revisionFile[id][r]
<1>1. Inv /\ [Next]_vars => [Kept]_vars
  <2> SUFFICES ASSUME Inv, Next PROVE Kept
    OBVIOUS
  <2>1. ASSUME NEW p \in Process, WriteRevision(p) PROVE Kept
    <3>1. revisionFile[planId[p]][plan[p].rev] = Nothing
      BY <2>1 DEF WriteRevision, GoTo, Inv, InHand
    <3> QED
      BY <2>1, <3>1 DEF WriteRevision, Inv, TypeOK
  <2>2. ASSUME UNCHANGED revisionFile PROVE Kept
    BY <2>2
  <2> QED
    BY <2>1, <2>2 DEF Next, StartPlanning, StartRevising, Submit, WritePointer,
       WriteFails, Load, Execute, Leave, files
<1> QED
  BY <1>1, InvHolds, PTL DEF Spec, RevisionsImmutable

(* What starts to execute is the stored current plan, although only its     *)
(* number is compared.                                                      *)
THEOREM Current == ASSUME OneProcess PROVE Spec => ExecutedIsCurrent
<1> DEFINE Fresh ==
      \A p \in Process :
         pc[p] # "executing" /\ pc'[p] = "executing" => plan[p] = pointerFile[planId[p]]
<1>1. Inv /\ [Next]_vars => [Fresh]_vars
  <2> SUFFICES ASSUME Inv, Next PROVE Fresh
    OBVIOUS
  <2>1. ASSUME NEW p \in Process, Execute(p) PROVE Fresh
    <3>1. plan[p] = pointerFile[planId[p]]
      BY <2>1, NumberDecides DEF Execute, GoTo, Inv, InHand
    <3> QED
      BY <2>1, <3>1 DEF Execute, GoTo, Inv, TypeOK
  <2>2. ASSUME NEW p \in Process, NEW to \in {"idle", "planning", "writing",
                  "publishing", "waiting", "loaded"}, pc' = [pc EXCEPT ![p] = to]
        PROVE  Fresh
    BY <2>2 DEF Inv, TypeOK
  <2> QED
    BY <2>1, <2>2 DEF Next, StartPlanning, StartRevising, Submit, WriteRevision,
       WritePointer, WriteFails, Load, Leave, GoTo
<1> QED
  BY <1>1, InvHolds, PTL DEF Spec, ExecutedIsCurrent

-----------------------------------------------------------------------------
(* The refinement *)

(* A history one document longer is the history with the document appended. *)
LEMMA Longer ==
    ASSUME NEW S, NEW n \in Nat, NEW h \in [1..n -> S], NEW doc \in S,
           NEW g \in [1..(n + 1) -> S],
           \A r \in 1..n : g[r] = h[r], g[n + 1] = doc
    PROVE  Len(h) = n /\ g = Append(h, doc)
<1>1. h \in Seq(S) /\ g \in Seq(S)
  BY SeqDef
<1>2. Len(h) = n /\ Len(g) = n + 1
  BY <1>1, LenProperties
<1>3. /\ Append(h, doc) \in Seq(S)
      /\ Len(Append(h, doc)) = n + 1
      /\ \A r \in 1..n : Append(h, doc)[r] = h[r]
      /\ Append(h, doc)[n + 1] = doc
  BY <1>1, <1>2, AppendProperties
<1>4. \A r \in 1..(n + 1) : g[r] = Append(h, doc)[r]
  BY <1>3
<1> QED
  BY <1>1, <1>2, <1>3, <1>4, SeqEqual

LEMMA HistoryOfCurrent ==
    ASSUME Inv, NEW id \in Id, pointerFile[id] # Nothing
    PROVE  /\ pointerFile[id].rev \in Revision
           /\ HistoryOf(id) = [r \in 1..pointerFile[id].rev |-> revisionFile[id][r]]
           /\ HistoryOf(id) \in [1..pointerFile[id].rev -> Document]
<1>1. pointerFile[id].rev \in Revision
  BY DEF Inv, TypeOK, Document
<1>2. \A r \in 1..pointerFile[id].rev : r \in Revision
  BY <1>1, StoreAssumption DEF Revision
<1>3. \A r \in 1..pointerFile[id].rev : revisionFile[id][r] \in Document
  BY <1>2 DEF Inv, TypeOK, CurrentIsRecorded
<1> QED
  BY <1>1, <1>3 DEF HistoryOf

(* What is written beside the record does not show in it.                   *)
LEMMA HistoryKept ==
    ASSUME Inv, NEW id \in Id, pointerFile'[id] = pointerFile[id],
           \A r \in Revision : revisionFile[id][r] # Nothing =>
              revisionFile'[id][r] = revisionFile[id][r]
    PROVE  HistoryOf(id)' = HistoryOf(id)
<1>1. CASE pointerFile[id] = Nothing
  BY <1>1 DEF HistoryOf
<1>2. CASE pointerFile[id] # Nothing
  <2>1. \A r \in 1..pointerFile[id].rev : r \in Revision
    BY <1>2, HistoryOfCurrent, StoreAssumption DEF Revision
  <2>2. \A r \in 1..pointerFile[id].rev : revisionFile'[id][r] = revisionFile[id][r]
    BY <1>2, <2>1 DEF Inv, CurrentIsRecorded
  <2> QED
    BY <1>2, <2>2 DEF HistoryOf
<1> QED  BY <1>1, <1>2

(* Replacing the pointer publishes the plan in hand.                        *)
LEMMA PointerPublishes ==
    ASSUME OneProcess, Inv, Inv', NEW p \in Process, WritePointer(p)
    PROVE  Registry!Publish(planId[p], plan[p])
<1>a. planId[p] \in Id
  BY DEF Inv, TypeOK
<1>b. PICK id \in Id : id = planId[p]
  BY <1>a
<1>c. PICK n : n = plan[p].rev
  OBVIOUS
<1> USE <1>b, <1>c
<1>1. /\ id \in Id
      /\ plan[p] \in Document
      /\ n \in Nat \ {0}
      /\ plan[p] # Nothing
      /\ pointerFile'[id] = plan[p]
      /\ \A i \in Id : i # id => pointerFile'[i] = pointerFile[i]
      /\ revisionFile' = revisionFile
  <2>1. id \in Id /\ plan[p] \in Document
    BY DEF WritePointer, GoTo, Inv, TypeOK
  <2>2. n \in Nat \ {0}
    BY <2>1, StoreAssumption DEF Document, Revision
  <2> QED
    BY <2>1, <2>2, NothingIsNoDocument DEF WritePointer, Inv, TypeOK
<1>2. /\ HistoryOf(id)' = [r \in 1..n |-> revisionFile[id][r]]
      /\ HistoryOf(id)' \in [1..n -> Document]
  <2>1. HistoryOf(id)' = [r \in 1..n |-> revisionFile[id][r]]
    BY <1>1 DEF HistoryOf
  <2>2. \A r \in 1..n : r \in Revision
    BY <1>1, StoreAssumption DEF Document, Revision
  <2>3. \A r \in 1..n : revisionFile'[id][r] # Nothing
    BY <1>1 DEF Inv, CurrentIsRecorded
  <2>4. \A r \in 1..n : revisionFile[id][r] \in Document
    BY <1>1, <2>2, <2>3 DEF Inv, TypeOK
  <2> QED  BY <2>1, <2>4
<1>3. revisionFile[id][n] = plan[p]
  BY DEF WritePointer, GoTo, Inv, InHand
<1>4. Len(HistoryOf(id)) = n - 1 /\ HistoryOf(id)' = Append(HistoryOf(id), plan[p])
  <2>1. CASE base[p] = Nothing
    <3>1. pointerFile[id] = Nothing /\ n = 1
      BY <2>1 DEF WritePointer, GoTo, Inv, InHand
    <3>2. HistoryOf(id) = << >>
      BY <3>1 DEF HistoryOf
    <3>3. << >> \in [1..0 -> Document]
      OBVIOUS
    <3>4. HistoryOf(id)' \in [1..(0 + 1) -> Document] /\ HistoryOf(id)'[0 + 1] = plan[p]
      BY <1>2, <1>3, <3>1
    <3>5. \A r \in 1..0 : HistoryOf(id)'[r] = << >>[r]
      OBVIOUS
    <3>6. Len(<< >>) = 0 /\ HistoryOf(id)' = Append(<< >>, plan[p])
      BY ONLY 0 \in Nat, <1>1, <3>3, <3>4, <3>5, Longer
    <3> QED  BY <3>1, <3>2, <3>6
  <2>2. CASE base[p] # Nothing
    <3>1. /\ pointerFile[id] = base[p]
          /\ n = pointerFile[id].rev + 1
      BY <2>2 DEF WritePointer, GoTo, Inv, InHand
    <3>2. n - 1 \in Nat /\ n = (n - 1) + 1 /\ pointerFile[id].rev = n - 1
      <4>1. pointerFile[id].rev \in Revision
        BY <1>1, <2>2, <3>1, HistoryOfCurrent
      <4> QED  BY <3>1, <4>1 DEF Revision
    <3>3. /\ HistoryOf(id) \in [1..(n - 1) -> Document]
          /\ \A r \in 1..(n - 1) : HistoryOf(id)[r] = revisionFile[id][r]
      BY <1>1, <2>2, <3>1, <3>2, HistoryOfCurrent
    <3>4. /\ \A r \in 1..(n - 1) : HistoryOf(id)'[r] = HistoryOf(id)[r]
          /\ HistoryOf(id)'[(n - 1) + 1] = plan[p]
          /\ HistoryOf(id)' \in [1..((n - 1) + 1) -> Document]
      BY <1>1, <1>2, <1>3, <3>2, <3>3
    <3> QED
      BY <1>1, <3>2, <3>3, <3>4, Longer
  <2> QED  BY <2>1, <2>2
<1>5. \A i \in Id : i # id => HistoryOf(i)' = HistoryOf(i)
  BY <1>1 DEF HistoryOf
<1> DEFINE history == [i \in Id |-> HistoryOf(i)]
<1>6. plan[p].rev = Len(history[id]) + 1
  BY <1>1, <1>4
<1>7. history' = [history EXCEPT ![id] = Append(@, plan[p])]
  <2>1. \A i \in Id : history'[i] =
           [history EXCEPT ![id] = Append(@, plan[p])][i]
    BY <1>1, <1>4, <1>5
  <2> QED  BY <2>1
<1> QED
  BY <1>6, <1>7 DEF Registry!Publish

(* The files of one process implement the registry: each step publishes one *)
(* revision or shows its readers nothing new.                               *)
THEOREM Refinement == ASSUME OneProcess PROVE Spec => ImplementsRegistry
<1> DEFINE history == [id \in Id |-> HistoryOf(id)]
<1>1. Init => Registry!Init
  BY DEF Init, Registry!Init, HistoryOf
<1>2. Inv /\ Inv' /\ [Next]_vars => [Registry!Next]_history
  <2> SUFFICES ASSUME Inv, Inv', [Next]_vars PROVE [Registry!Next]_history
    OBVIOUS
  <2>1. ASSUME NEW p \in Process, WritePointer(p) PROVE Registry!Next
    <3>1. planId[p] \in Id /\ plan[p] \in Document
      BY <2>1 DEF WritePointer, GoTo, Inv, TypeOK
    <3> QED
      BY <2>1, <3>1, PointerPublishes DEF Registry!Next
  <2>2. ASSUME NEW p \in Process, WriteRevision(p) PROVE UNCHANGED history
    <3>1. revisionFile[planId[p]][plan[p].rev] = Nothing
      BY <2>2 DEF WriteRevision, GoTo, Inv, InHand
    <3>2. \A id \in Id, r \in Revision : revisionFile[id][r] # Nothing =>
             revisionFile'[id][r] = revisionFile[id][r]
      BY <2>2, <3>1 DEF WriteRevision, Inv, TypeOK
    <3>3. \A id \in Id : HistoryOf(id)' = HistoryOf(id)
      BY <2>2, <3>2, HistoryKept DEF WriteRevision
    <3> QED  BY <3>3
  <2>3. ASSUME UNCHANGED files PROVE UNCHANGED history
    BY <2>3 DEF files, HistoryOf
  <2> QED
    BY <2>1, <2>2, <2>3 DEF Next, StartPlanning, StartRevising, Submit, WriteFails,
       Load, Execute, Leave, files, vars
<1> QED
  BY <1>1, <1>2, InvHolds, PTL DEF Spec, ImplementsRegistry, Registry!Spec

=============================================================================
