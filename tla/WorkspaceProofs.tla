--------------------------- MODULE WorkspaceProofs ---------------------------
(***************************************************************************)
(* Parts of the runtime that outlive a request, proved for every value of  *)
(* their constants: the gates over the Spec Kit documents, the operator's  *)
(* console and its history files, the repairs of convergence, the index of *)
(* the source files.  As in RuntimeProofs, each part by itself first.      *)
(***************************************************************************)
EXTENDS GoalWorkflowProofs, RuntimeProofs, Integers, Sequences, FiniteSets,
        FiniteSetTheorems, SequenceTheorems, TLAPS

(* The variables of each part, by their names there.                        *)

\* SpecGate
LOCAL spec == s1
LOCAL tasks == s2
LOCAL stage == s3
LOCAL scan == s4
LOCAL full == s5
LOCAL plan == s6
LOCAL verdict == s7

\* Console
LOCAL where == s1
LOCAL command == s2
LOCAL reason == s3
LOCAL workspace == s4
LOCAL serving == s5
LOCAL planning == s6
LOCAL api == s7
LOCAL messages == s8
LOCAL earlier == s9
LOCAL items == s10
LOCAL digest == s11
LOCAL files == s12
LOCAL parting == s13

\* Convergence
LOCAL process == s2
LOCAL pass == s3
LOCAL states == s4
LOCAL review == s5
LOCAL blocked == s6
LOCAL repairs == s7
LOCAL ended == s8
LOCAL history == s9
LOCAL found == s10
LOCAL phase == s11
LOCAL result == s12

\* CodeIndex
LOCAL sourceFile == s1
LOCAL primary == s2
LOCAL spare == s3
LOCAL stamp == s4
LOCAL index == s5
LOCAL lock == s6
LOCAL run == s7
LOCAL report == s8
LOCAL unsynced == s9
LOCAL since == s10
LOCAL overtaken == s11

USE DEF spec, tasks, stage, scan, full, plan, verdict, where, command,
        reason, workspace, serving, planning, api, messages, earlier, items,
        digest, files, parting, process, pass, states, review, blocked,
        repairs, ended, history, found, phase, result, sourceFile, primary,
        spare, stamp, index, lock, run, report, unsynced, since, overtaken

-----------------------------------------------------------------------------
(* The gates.  What the analysis passed of is what was scanned and planned  *)
(* until one of the two is replaced, and then nothing is passed.            *)

LEMMA PassedTraces ==
    ASSUME Gates!AnalyzePasses, verdict' = "passed", Gates!Complete(scan)
    PROVE  Gates!ApprovedPlansTraceTheSpec'
<1>1. /\ Gates!OfficialExecutable(scan) /\ scan' = scan /\ plan' = plan
  BY DEF Gates!AnalyzePasses, Gates!documents
<1>2. /\ ~ Gates!Ambiguous(scan.spec)
      /\ scan.spec.states \subseteq Gates!Referenced(scan)
      /\ \A t \in Gates!Mapped(scan) : Gates!Agrees(t)
  BY <1>1 DEF Gates!OfficialExecutable, Gates!ChecklistPasses
<1>3. ASSUME NEW q \in scan.spec.states
      PROVE  \E t \in Official : /\ q \in scan.tasks.names[t]
                                 /\ \E i \in DOMAIN plan : plan[i].claims = t /\ plan[i].agrees
  <2>1. PICK t \in Gates!Mapped(scan) : q \in scan.tasks.names[t]
    BY <1>2, <1>3 DEF Gates!Referenced
  <2>2. t \in Official
    BY <2>1 DEF Gates!Mapped
  <2>3. \E i \in DOMAIN plan : plan[i].claims = t /\ plan[i].agrees
    BY <1>2, <2>1 DEF Gates!Agrees, Gates!LastClaim
  <2>4. QED BY <2>1, <2>2, <2>3
<1>4. QED
  BY <1>1, <1>2, <1>3 DEF Gates!ApprovedPlansTraceTheSpec, Gates!Ambiguous

(* However often a goal is replanned, a plan that reaches the operator      *)
(* beside official documents traces every requirement they state to a task  *)
(* that stands for an official one, for every set of requirements, official *)
(* tasks and plans.  (SpecKitAnalyzeGate.analyze, run_goal_workflow.)       *)
THEOREM TracesStay == Gates!Spec => []Gates!ApprovedPlansTraceTheSpec
<1>1. Gates!Init => Gates!ApprovedPlansTraceTheSpec
  BY DEF Gates!Init, Gates!ApprovedPlansTraceTheSpec
<1>2. ASSUME Gates!ApprovedPlansTraceTheSpec, [Gates!Next]_(Gates!vars)
      PROVE  Gates!ApprovedPlansTraceTheSpec'
  <2>1. CASE UNCHANGED Gates!vars
    BY <1>2, <2>1 DEF Gates!ApprovedPlansTraceTheSpec, Gates!vars, Gates!Ambiguous,
                      Gates!Complete
  <2>2. CASE Gates!Edit
    BY <1>2, <2>2 DEF Gates!Edit, Gates!ApprovedPlansTraceTheSpec, Gates!Ambiguous,
                      Gates!Complete
  <2>3. CASE \/ Gates!Open \/ Gates!Clarify \/ Gates!ClarifyFails \/ Gates!Plan
             \/ Gates!AnalyzeBlocked \/ Gates!Replan \/ Gates!End
    <3>1. stage' # "deciding"
      BY <2>3 DEF Gates!Open, Gates!Clarify, Gates!ClarifyFails, Gates!Plan,
                  Gates!AnalyzeBlocked, Gates!Replan, Gates!End, Gates!Leave, Gates!Goes
    <3>2. QED BY <3>1 DEF Gates!ApprovedPlansTraceTheSpec
  <2>4. CASE Gates!AnalyzePasses
    <3>1. CASE verdict' = "passed" /\ Gates!Complete(scan)
      BY <2>4, <3>1, PassedTraces
    <3>2. CASE ~ (verdict' = "passed" /\ Gates!Complete(scan))
      <4>1. scan' = scan
        BY <2>4 DEF Gates!AnalyzePasses
      <4>2. QED BY <3>2, <4>1 DEF Gates!ApprovedPlansTraceTheSpec, Gates!Complete
    <3>3. QED BY <3>1, <3>2
  <2>5. QED BY <1>2, <2>1, <2>2, <2>3, <2>4 DEF Gates!Next
<1>3. QED BY <1>1, <1>2, PTL DEF Gates!Spec

(* What is clarified has been read.                                         *)
GateInv == Gates!TypeOK /\ (stage = "clarifying" => scan.spec # Nothing)

(* The gates stay within their types, whatever is edited meanwhile: the     *)
(* questions are answered in a document that was read.                      *)
THEOREM GatesAreTyped == Gates!SpecGateAssumption => (Gates!Spec => []Gates!TypeOK)
<1> SUFFICES ASSUME Gates!SpecGateAssumption PROVE Gates!Spec => []Gates!TypeOK
  OBVIOUS
<1>1. Gates!Init => GateInv
  <2> SUFFICES ASSUME Gates!Init PROVE GateInv
    OBVIOUS
  <2>1. <<>> \in Gates!Plans
    <3>1. <<>> \in [1..0 -> Gates!Claim]
      OBVIOUS
    <3>2. QED BY <3>1 DEF Gates!Plans, Gates!SpecGateAssumption
  <2>2. QED
    BY <2>1 DEF Gates!Init, GateInv, Gates!TypeOK, Gates!NoScan, Gates!Scan
<1>2. ASSUME GateInv, [Gates!Next]_(Gates!vars) PROVE GateInv'
  <2>1. ASSUME NEW d \in Gates!Document \cup {Nothing}, d # Nothing
        PROVE  /\ \A s \in SUBSET Requirement : [d EXCEPT !.states = s] \in Gates!Document
               /\ [d EXCEPT !.tail = {}] \in Gates!Document
               /\ \A a, b \in BOOLEAN : [d EXCEPT !.asked = a, !.loose = b] \in Gates!Document
               /\ d.states \in SUBSET Requirement /\ d.loose \in BOOLEAN
    BY <2>1 DEF Gates!Document
  <2>2. Gates!Read(spec) \in Gates!Document \cup {Nothing}
    BY <1>2, <2>1 DEF Gates!Read, GateInv, Gates!TypeOK
  <2>3. Gates!Scanned \in Gates!Scan
    BY <1>2, <2>2 DEF Gates!Scanned, Gates!Scan, GateInv, Gates!TypeOK
  <2>4. CASE UNCHANGED Gates!vars
    BY <1>2, <2>4 DEF GateInv, Gates!TypeOK, Gates!vars
  <2>5. CASE Gates!Edit
    <3>1. UNCHANGED <<stage, scan, full, plan, verdict>>
      BY <2>5 DEF Gates!Edit
    <3>2. spec' \in Gates!Document \cup {Nothing} /\ tasks' \in Gates!TaskList \cup {Nothing}
      <4>1. CASE stage = "idle"
        BY <2>5, <4>1 DEF Gates!Edit
      <4>2. CASE stage # "idle" /\ UNCHANGED spec
        BY <1>2, <2>5, <4>2 DEF Gates!Edit, GateInv, Gates!TypeOK
      <4>3. CASE stage # "idle" /\ ~ UNCHANGED spec
        <5>1. PICK q \in Requirement : spec' = [spec EXCEPT !.states = @ \cup {q}]
          BY <2>5, <4>3 DEF Gates!Edit
        <5>2. spec # Nothing /\ spec \in Gates!Document \cup {Nothing} /\ tasks' = tasks
          BY <1>2, <2>5, <4>3 DEF Gates!Edit, GateInv, Gates!TypeOK
        <5>3. spec.states \cup {q} \in SUBSET Requirement
          BY <2>1, <5>2
        <5>4. spec' \in Gates!Document
          BY <2>1, <5>1, <5>2, <5>3
        <5>5. QED BY <1>2, <5>2, <5>4 DEF GateInv, Gates!TypeOK
      <4>4. QED BY <4>1, <4>2, <4>3
    <3>3. QED BY <1>2, <3>1, <3>2 DEF GateInv, Gates!TypeOK
  <2>6. CASE Gates!Open
    <3>1. full' \in BOOLEAN /\ scan' = Gates!Scanned /\ stage' \in {"clarifying", "planning"}
          /\ UNCHANGED <<spec, tasks, plan, verdict>>
      <4>1. Gates!Complete(Gates!Scanned) \in BOOLEAN
        BY DEF Gates!Complete
      <4>2. QED BY <2>6, <4>1 DEF Gates!Open, Gates!Goes, Gates!documents
    <3>2. stage' = "clarifying" => Gates!Scanned.spec # Nothing
      BY <2>6 DEF Gates!Open, Gates!Goes, Gates!Required
    <3>3. QED BY <1>2, <2>3, <3>1, <3>2 DEF GateInv, Gates!TypeOK
  <2>11. ASSUME stage = "clarifying", Gates!WritesAnswers PROVE spec' \in Gates!Document
    <3>1. PICK asked \in BOOLEAN, loose \in {scan.spec.loose, TRUE} :
             spec' = [scan.spec EXCEPT !.asked = asked, !.loose = loose]
      BY <2>11 DEF Gates!WritesAnswers
    <3>2. scan.spec \in Gates!Document \cup {Nothing} /\ scan.spec # Nothing
      BY <1>2, <2>11 DEF GateInv, Gates!TypeOK, Gates!Scan
    <3>3. loose \in BOOLEAN
      BY <2>1, <3>1, <3>2
    <3>4. QED BY <2>1, <3>1, <3>2, <3>3
  <2>7. CASE Gates!Clarify
    <3>3. spec' \in Gates!Document
      BY <2>7, <2>11 DEF Gates!Clarify
    <3>4. /\ scan' = [spec |-> spec', tasks |-> tasks]
          /\ stage' = "planning" /\ full' \in BOOLEAN
          /\ UNCHANGED <<tasks, plan, verdict>>
      BY <2>7 DEF Gates!Clarify, Gates!Goes, Gates!Complete
    <3>5. scan' \in Gates!Scan
      BY <1>2, <3>3, <3>4 DEF Gates!Scan, GateInv, Gates!TypeOK
    <3>6. QED BY <1>2, <3>3, <3>4, <3>5 DEF GateInv, Gates!TypeOK
  <2>8. CASE Gates!ClarifyFails \/ Gates!AnalyzeBlocked \/ Gates!End
    <3>1. /\ stage' = "idle" /\ scan' = Gates!NoScan /\ full' = FALSE /\ plan' = <<>>
          /\ verdict' = "none" /\ UNCHANGED tasks
      BY <2>8 DEF Gates!ClarifyFails, Gates!AnalyzeBlocked, Gates!End, Gates!Leave,
                  Gates!Goes, Gates!documents
    <3>5. spec' \in Gates!Document \cup {Nothing}
      BY <1>2, <2>8, <2>11 DEF Gates!ClarifyFails, Gates!AnalyzeBlocked, Gates!End,
                              Gates!documents, GateInv, Gates!TypeOK
    <3>2. Gates!NoScan \in Gates!Scan
      BY DEF Gates!NoScan, Gates!Scan
    <3>3. <<>> \in Gates!Plans
      <4>1. <<>> \in [1..0 -> Gates!Claim]
        OBVIOUS
      <4>2. QED BY <4>1 DEF Gates!Plans, Gates!SpecGateAssumption
    <3>4. QED BY <1>2, <3>1, <3>2, <3>3, <3>5 DEF GateInv, Gates!TypeOK
  <2>9. CASE Gates!Plan \/ Gates!AnalyzePasses \/ Gates!Replan
    <3>1. /\ stage' \in {"analyzing", "deciding", "planning"}
          /\ plan' \in Gates!Plans /\ verdict' \in {"none", "passed", "skipped"}
          /\ UNCHANGED <<spec, tasks, scan, full>>
      BY <1>2, <2>9 DEF Gates!Plan, Gates!AnalyzePasses, Gates!Replan, Gates!Goes,
                        Gates!documents, GateInv, Gates!TypeOK
    <3>2. QED BY <1>2, <3>1 DEF GateInv, Gates!TypeOK
  <2>10. QED BY <1>2, <2>4, <2>5, <2>6, <2>7, <2>8, <2>9 DEF Gates!Next
<1>3. GateInv => Gates!TypeOK
  BY DEF GateInv
<1>4. QED BY <1>1, <1>2, <1>3, PTL DEF Gates!Spec

-----------------------------------------------------------------------------
(* The console.  While a conversation goes on, its digest is of one that a  *)
(* history file of this workspace holds.                                    *)

DigestBook ==
    where \in {"prompt", "working", "summarising", "writing"} /\ digest # Nothing =>
        [workspace |-> workspace, messages |-> digest] \in files

ConsoleInv == Prompt!TypeOK /\ DigestBook /\ Prompt!WhatWasSaidIsFiled

Message == [n : 1..MaxItems, said : BOOLEAN]

LEMMA AppendTypes ==
    ASSUME Prompt!ConsoleAssumption, Prompt!TypeOK,
           \/ \E said \in BOOLEAN : Prompt!Append(said)
           \/ Prompt!AppendExchange
    PROVE  /\ messages' \subseteq Message /\ items' \in 0..MaxItems
           /\ messages \subseteq messages'
<1>1. items \in Nat /\ items <= MaxItems /\ MaxItems \in Nat /\ messages \subseteq Message
  BY DEF Prompt!TypeOK, Prompt!ConsoleAssumption, Message
<1>2. CASE \E said \in BOOLEAN : Prompt!Append(said)
  <2>1. PICK said \in BOOLEAN : Prompt!Append(said)
    BY <1>2
  <2>2. /\ items + 1 <= MaxItems /\ items' = items + 1
        /\ messages' = messages \cup {[n |-> items + 1, said |-> said]}
    BY <2>1 DEF Prompt!Append, Prompt!Room, Prompt!Item
  <2>3. [n |-> items + 1, said |-> said] \in Message
    BY <1>1, <2>2 DEF Message
  <2>4. QED BY <1>1, <2>2, <2>3
<1>3. CASE Prompt!AppendExchange
  <2>1. /\ items + 2 <= MaxItems /\ items' = items + 2
        /\ messages' = messages \cup {[n |-> items + 1, said |-> TRUE],
                                      [n |-> items + 2, said |-> TRUE]}
    BY <1>3 DEF Prompt!AppendExchange, Prompt!Room, Prompt!Item
  <2>2. [n |-> items + 1, said |-> TRUE] \in Message /\ [n |-> items + 2, said |-> TRUE] \in Message
    BY <1>1, <2>1 DEF Message
  <2>3. messages' \subseteq Message /\ messages \subseteq messages'
    BY <1>1, <2>1, <2>2
  <2>4. QED BY <1>1, <2>1, <2>3
<1>4. QED BY <1>2, <1>3

(* A handler's way back to the prompt, and the steps on the way.            *)
LEMMA TurnsKeep ==
    ASSUME Prompt!ConsoleAssumption, ConsoleInv,
           \/ Prompt!Announce \/ Prompt!SwitchMode \/ (\E c \in Prompt!Turns : Prompt!Ask(c))
           \/ Prompt!Works \/ Prompt!Answered \/ Prompt!Paused \/ Prompt!SubagentFailed
           \/ Prompt!ApiFailed \/ Prompt!Withdrawn \/ Prompt!Refused
           \/ Prompt!OversizedWithEvidence
    PROVE  ConsoleInv'
<1> USE DEF ConsoleInv
<1>1. /\ where \in {"prompt", "working"} /\ where' \in {"prompt", "working"}
      /\ UNCHANGED <<workspace, serving, digest, files, parting, reason>>
  BY DEF Prompt!Announce, Prompt!SwitchMode, Prompt!Ask, Prompt!Works, Prompt!Answered,
         Prompt!Paused, Prompt!SubagentFailed, Prompt!ApiFailed, Prompt!Withdrawn,
         Prompt!Refused, Prompt!OversizedWithEvidence, Prompt!Back, Prompt!session,
         Prompt!history
<1>2. command' \in Prompt!Turns \cup {Nothing}
  BY DEF Prompt!Announce, Prompt!SwitchMode, Prompt!Ask, Prompt!Works, Prompt!Answered,
         Prompt!Paused, Prompt!SubagentFailed, Prompt!ApiFailed, Prompt!Withdrawn,
         Prompt!Refused, Prompt!OversizedWithEvidence, Prompt!Back, Prompt!TypeOK
<1>3. /\ planning' \in BOOLEAN
      /\ api' \in BOOLEAN
  BY DEF Prompt!Announce, Prompt!SwitchMode, Prompt!Ask, Prompt!Works, Prompt!Answered,
         Prompt!Paused, Prompt!SubagentFailed, Prompt!ApiFailed, Prompt!Withdrawn,
         Prompt!Refused, Prompt!OversizedWithEvidence, Prompt!Back, Prompt!session,
         Prompt!TypeOK
<1>4. \/ \E said \in BOOLEAN : Prompt!Append(said)
      \/ Prompt!AppendExchange
      \/ messages' \in {messages, earlier} /\ items' = items
  BY DEF Prompt!Announce, Prompt!SwitchMode, Prompt!Ask, Prompt!Works, Prompt!Answered,
         Prompt!Paused, Prompt!SubagentFailed, Prompt!ApiFailed, Prompt!Withdrawn,
         Prompt!Refused, Prompt!OversizedWithEvidence, Prompt!Back
<1>5. \/ earlier' = earlier
      \/ earlier' = messages /\ \/ \E said \in BOOLEAN : Prompt!Append(said)
                                \/ messages' = messages /\ items' = items
  BY DEF Prompt!Announce, Prompt!SwitchMode, Prompt!Ask, Prompt!Works, Prompt!Answered,
         Prompt!Paused, Prompt!SubagentFailed, Prompt!ApiFailed, Prompt!Withdrawn,
         Prompt!Refused, Prompt!OversizedWithEvidence, Prompt!Back
<1>6. /\ messages' \subseteq Message /\ items' \in 0..MaxItems
      /\ earlier' \subseteq messages'
  BY <1>4, <1>5, AppendTypes DEF Prompt!TypeOK, Message
<1>7. Prompt!TypeOK'
  BY <1>1, <1>2, <1>3, <1>6 DEF Prompt!TypeOK, Message
<1>8. DigestBook' /\ Prompt!WhatWasSaidIsFiled'
  BY <1>1 DEF DigestBook, Prompt!WhatWasSaidIsFiled
<1>9. QED BY <1>7, <1>8

(* The ways in and out of the conversation.                                 *)
LEMMA SessionsKeep ==
    ASSUME Prompt!ConsoleAssumption, ConsoleInv,
           \/ Prompt!Configure \/ Prompt!RefusesConfiguration \/ Prompt!Begin
           \/ Prompt!CannotBegin \/ Prompt!End \/ Prompt!Clear \/ Prompt!ChangeWorkspace
           \/ Prompt!Throws
    PROVE  ConsoleInv'
<1> USE DEF ConsoleInv
<1>1. /\ items' = items /\ files' = files
      /\ \/ messages' = messages /\ earlier' = earlier
         \/ messages' = {} /\ earlier' = {}
      /\ command' \in {command, Nothing} /\ reason' \in {reason, Nothing}
      /\ workspace' \in Workspace /\ serving' \in Workspace \cup {Nothing}
      /\ parting' \in {parting, "none", "kept", "unsaved", "moved", "thrown", "refused"}
      /\ where' \in {"prompt", "switching", "leaving", "ended"}
  BY DEF Prompt!Configure, Prompt!RefusesConfiguration, Prompt!Begin, Prompt!CannotBegin,
         Prompt!End, Prompt!Clear, Prompt!ChangeWorkspace, Prompt!Throws, Prompt!Leave,
         Prompt!session, Prompt!history, Prompt!TypeOK
<1>2. planning' \in BOOLEAN /\ api' \in BOOLEAN
  BY DEF Prompt!Configure, Prompt!RefusesConfiguration, Prompt!Begin, Prompt!CannotBegin,
         Prompt!End, Prompt!Clear, Prompt!ChangeWorkspace, Prompt!Throws, Prompt!Leave,
         Prompt!session, Prompt!history, Prompt!TypeOK
<1>3. Prompt!TypeOK'
  BY <1>1, <1>2 DEF Prompt!TypeOK
<1>4. where' = "prompt" => digest' = Nothing
  BY DEF Prompt!Configure, Prompt!RefusesConfiguration, Prompt!Begin, Prompt!CannotBegin,
         Prompt!End, Prompt!Clear, Prompt!ChangeWorkspace, Prompt!Throws, Prompt!Leave
<1>5. DigestBook'
  BY <1>1, <1>4 DEF DigestBook
<1>6. \/ parting' # "kept" \/ where' \notin {"leaving", "ended"}
      \/ /\ where = "leaving" /\ UNCHANGED <<parting, messages, workspace, files>>
  BY DEF Prompt!Configure, Prompt!RefusesConfiguration, Prompt!Begin, Prompt!CannotBegin,
         Prompt!End, Prompt!Clear, Prompt!ChangeWorkspace, Prompt!Throws, Prompt!Leave,
         Prompt!session, Prompt!history
<1>7. Prompt!WhatWasSaidIsFiled'
  BY <1>6 DEF Prompt!WhatWasSaidIsFiled, Prompt!Said
<1>8. QED BY <1>3, <1>5, <1>7

(* Asking for a save, and the exits that skip it: only the very             *)
(* conversation whose digest is known goes unsaved.                         *)
LEMMA PersistsKeep ==
    ASSUME Prompt!ConsoleAssumption, ConsoleInv,
           \/ Prompt!SaveByHand \/ Prompt!Exit \/ Prompt!Interrupted
           \/ Prompt!InterruptedOnTheWay \/ Prompt!Summarised
    PROVE  ConsoleInv'
<1> USE DEF ConsoleInv
<1>1. /\ UNCHANGED <<workspace, serving, planning, api, messages, earlier, items, digest, files>>
      /\ where \in {"prompt", "working", "summarising", "writing"}
      /\ command' \in {command, Nothing}
      /\ reason' \in {reason, Nothing, "manual", "eof", "exit", "interrupt", "again"}
  BY DEF Prompt!SaveByHand, Prompt!Exit, Prompt!Interrupted, Prompt!InterruptedOnTheWay,
         Prompt!Summarised, Prompt!Persist, Prompt!Save, Prompt!Leave, Prompt!session,
         Prompt!history
<1>2. \/ where' \in {"summarising", "writing"} /\ parting' = parting
      \/ where' = "leaving" /\ parting' = "kept" /\ Prompt!Unchanged
  BY DEF Prompt!SaveByHand, Prompt!Exit, Prompt!Interrupted, Prompt!InterruptedOnTheWay,
         Prompt!Summarised, Prompt!Persist, Prompt!Save, Prompt!Leave
<1>3. Prompt!TypeOK'
  BY <1>1, <1>2 DEF Prompt!TypeOK
<1>4. DigestBook'
  BY <1>1, <1>2 DEF DigestBook
<1>5. Prompt!Unchanged => \/ ~ Prompt!Said(messages)
                          \/ messages = digest /\ digest # Nothing
  <2>1. messages # Nothing
    BY DEF Prompt!TypeOK, Prompt!ConsoleAssumption
  <2>2. QED BY <2>1 DEF Prompt!Unchanged
<1>6. Prompt!Said(messages)' => Prompt!Said(messages)
  BY <1>1 DEF Prompt!Said
<1>7. Prompt!WhatWasSaidIsFiled'
  BY <1>1, <1>2, <1>5, <1>6 DEF Prompt!WhatWasSaidIsFiled, DigestBook
<1>8. QED BY <1>3, <1>4, <1>7

LEMMA SavesKeep ==
    ASSUME ConsoleInv, Prompt!Written \/ Prompt!WrittenUnknown \/ Prompt!WriteFails
    PROVE  ConsoleInv'
<1> USE DEF ConsoleInv
<1> DEFINE filed == [workspace |-> workspace, messages |-> messages]
<1>1. /\ UNCHANGED <<workspace, serving, planning, api, messages, earlier, items>>
      /\ where = "writing" /\ where' \in {"writing", "prompt", "leaving"}
      /\ command' \in {command, Nothing}
      /\ reason' \in {Nothing, "interrupt", "again"}
      /\ parting' \in {parting, "kept", "unsaved"}
  BY DEF Prompt!Written, Prompt!WrittenUnknown, Prompt!WriteFails, Prompt!AfterSave,
         Prompt!Leave, Prompt!session
<1>2. /\ files' \in {files, files \cup {filed}}
      /\ \/ digest' = digest
         \/ digest' = messages /\ filed \in files'
      /\ where' = "leaving" /\ parting' = "kept" => filed \in files'
  BY DEF Prompt!Written, Prompt!WrittenUnknown, Prompt!WriteFails, Prompt!AfterSave,
         Prompt!Leave, Prompt!DigestKept
<1>3. filed \in [workspace : Workspace, messages : SUBSET Message]
  BY DEF Prompt!TypeOK, Message
<1> HIDE DEF filed
<1>4. files' \subseteq [workspace : Workspace, messages : SUBSET Message]
  BY <1>2, <1>3 DEF Prompt!TypeOK, Message
<1>5. Prompt!TypeOK'
  BY <1>1, <1>4 DEF Prompt!TypeOK, Message
<1>6. DigestBook'
  BY <1>1, <1>2 DEF DigestBook, filed
<1>7. Prompt!WhatWasSaidIsFiled'
  BY <1>1, <1>2 DEF Prompt!WhatWasSaidIsFiled, filed
<1>8. QED BY <1>5, <1>6, <1>7

LEMMA ConsoleAlways == Prompt!ConsoleAssumption => (Prompt!Spec => []ConsoleInv)
<1> SUFFICES ASSUME Prompt!ConsoleAssumption PROVE Prompt!Spec => []ConsoleInv
  OBVIOUS
<1>1. ASSUME Prompt!Init PROVE ConsoleInv
  <2>1. /\ where = "starting" /\ command = Nothing /\ reason = Nothing
        /\ workspace \in Workspace /\ serving = Nothing
        /\ messages = {} /\ earlier = {} /\ items = 0 /\ files = {} /\ parting = "none"
    BY <1>1 DEF Prompt!Init, Prompt!ConsoleAssumption
  <2>2. planning \in BOOLEAN /\ api \in BOOLEAN
    BY <1>1 DEF Prompt!Init
  <2>3. items \in 0..MaxItems
    BY <2>1 DEF Prompt!ConsoleAssumption
  <2>4. Prompt!TypeOK
    BY <2>1, <2>2, <2>3 DEF Prompt!TypeOK
  <2>5. QED BY <2>1, <2>4 DEF ConsoleInv, DigestBook, Prompt!WhatWasSaidIsFiled
<1>2. ASSUME ConsoleInv, [Prompt!Next]_(Prompt!vars) PROVE ConsoleInv'
  <2>1. CASE UNCHANGED Prompt!vars
    BY <1>2, <2>1 DEF ConsoleInv, Prompt!TypeOK, DigestBook, Prompt!WhatWasSaidIsFiled,
                      Prompt!Said, Prompt!vars
  <2>2. QED
    BY <1>2, <2>1, TurnsKeep, SessionsKeep, PersistsKeep, SavesKeep DEF Prompt!Next
<1>3. QED BY <1>1, <1>2, PTL DEF Prompt!Spec

(* When agent_loop returns without saying that the save failed, what was    *)
(* said is in a history file of the operator's workspace, for any number of *)
(* workspaces and messages.  (persist_history_on_exit.)                     *)
THEOREM SaidIsFiled ==
    Prompt!ConsoleAssumption => (Prompt!Spec => []Prompt!WhatWasSaidIsFiled)
<1>1. ConsoleInv => Prompt!WhatWasSaidIsFiled
  BY DEF ConsoleInv
<1>2. QED BY <1>1, ConsoleAlways, PTL

-----------------------------------------------------------------------------
(* Repairs.  The journal keeps for each identifier one gap, and the result  *)
(* of a completed repair was for that gap; while a pass repairs, its        *)
(* identifiers stand for its own gaps.                                      *)

Status == {"READY", "RUNNING", "COMPLETED", "FAILED"}
Durable == {"unknown", "pending", "running", "completed", "failed"}
Opinion == Evidence \cup {Passes!Silent}
Repair == [id : Nat \X Nat, status : Status, evidence : Opinion]

(* What of the types the proof needs.                                       *)
PassTypes ==
    /\ pass \in 0..MaxPasses
    /\ DOMAIN spec = Passes!RepairId /\ DOMAIN result = Passes!RepairId
    /\ spec = [id \in Passes!RepairId |->
                  [gap |-> spec[id].gap, status |-> spec[id].status]]
    /\ result = [id \in Passes!RepairId |->
                    [gap |-> result[id].gap, evidence |-> result[id].evidence]]
    /\ \A id \in Passes!RepairId :
          spec[id].status \in Durable /\ result[id].evidence \in Opinion

JournalBook ==
    \A id \in Passes!RepairId :
        spec[id].status = "completed" => result[id].gap = spec[id].gap

RepairBook ==
    phase = "repairing" =>
        /\ pass < MaxPasses
        /\ DOMAIN ended \subseteq 1..MaxRepairs
        /\ ended \in [DOMAIN ended -> Repair]
        /\ \A i \in DOMAIN ended :
              /\ spec[Passes!Id(i)].status # "unknown"
              /\ spec[Passes!Id(i)].gap = repairs[i]
              /\ ended[i].status = "COMPLETED" => spec[Passes!Id(i)].status = "completed"

RepairInv == PassTypes /\ JournalBook /\ RepairBook

LEMMA IdIsRepair ==
    ASSUME Passes!ConvergenceAssumption, PassTypes, pass < MaxPasses,
           NEW i \in 1..MaxRepairs
    PROVE  /\ Passes!Id(i) \in Passes!RepairId /\ Passes!Id(i) \in Nat \X Nat
           /\ Passes!Id(i)[1] = pass + 1 /\ Passes!Id(i)[2] = i
           /\ \A j : Passes!Id(j) = Passes!Id(i) => j = i
<1>1. /\ pass + 1 \in 1..MaxPasses /\ MaxPasses \in Nat /\ MaxRepairs \in Nat
  BY DEF PassTypes, Passes!ConvergenceAssumption
<1>2. Passes!Id(i) \in Passes!RepairId
  BY <1>1 DEF Passes!Id, Passes!RepairId
<1>3. Passes!Id(i) \in Nat \X Nat
  BY <1>1 DEF Passes!Id
<1>4. QED BY <1>2, <1>3 DEF Passes!Id

LEMMA RepairStart == Passes!ConvergenceAssumption /\ Passes!Init => RepairInv
<1> SUFFICES ASSUME Passes!ConvergenceAssumption, Passes!Init PROVE RepairInv
  OBVIOUS
<1>1. /\ pass = 0 /\ phase = "ended"
      /\ spec = [id \in Passes!RepairId |-> Passes!Unregistered]
      /\ result = [id \in Passes!RepairId |-> Passes!NoResult]
  BY DEF Passes!Init
<1>2. \A id \in Passes!RepairId :
         spec[id].status = "unknown" /\ result[id].evidence = Passes!Silent
  BY <1>1 DEF Passes!Unregistered, Passes!NoResult
<1>3. /\ spec = [id \in Passes!RepairId |->
                    [gap |-> spec[id].gap, status |-> spec[id].status]]
      /\ result = [id \in Passes!RepairId |->
                      [gap |-> result[id].gap, evidence |-> result[id].evidence]]
  BY <1>1 DEF Passes!Unregistered, Passes!NoResult
<1>4. 0 \in 0..MaxPasses
  BY DEF Passes!ConvergenceAssumption
<1>5. PassTypes
  BY <1>1, <1>2, <1>3, <1>4 DEF PassTypes, Durable, Opinion
<1>6. QED BY <1>1, <1>2, <1>5 DEF RepairInv, JournalBook, RepairBook

(* The gaps of a pass are registered under its identifiers, or have been    *)
(* before, as the same ones.                                                *)
LEMMA EvaluateKeeps ==
    ASSUME Passes!ConvergenceAssumption, RepairInv, Passes!Evaluate
    PROVE  RepairInv'
<1> USE DEF RepairInv
<1> DEFINE gaps == Passes!Gaps
<1>1. CASE phase' # "repairing"
  <2>1. UNCHANGED <<spec, result, pass>>
    BY <1>1 DEF Passes!Evaluate
  <2>2. QED BY <1>1, <2>1 DEF PassTypes, JournalBook, RepairBook
<1>2. CASE phase' = "repairing"
  <2>1. /\ DOMAIN gaps \subseteq 1..MaxRepairs /\ ~ pass >= MaxPasses
        /\ Passes!SameTasks(gaps)
        /\ repairs' = gaps /\ ended' = Passes!Seed(gaps)
        /\ pass' = pass /\ result' = result
        /\ spec' = [id \in Passes!RepairId |->
              IF id[1] = pass + 1 /\ id[2] \in DOMAIN gaps /\ spec[id].status = "unknown"
              THEN [gap |-> gaps[id[2]], status |-> "pending"] ELSE spec[id]]
    BY <1>2 DEF Passes!Evaluate
  <2> HIDE DEF gaps
  <2>2. pass < MaxPasses
    BY <2>1 DEF PassTypes, Passes!ConvergenceAssumption
  <2>3. ASSUME NEW i \in DOMAIN gaps
        PROVE  /\ Passes!Id(i) \in Passes!RepairId /\ Passes!Id(i) \in Nat \X Nat
               /\ Passes!Id(i)[1] = pass + 1 /\ Passes!Id(i)[2] = i
    BY <2>1, <2>2, IdIsRepair
  <2>4. ASSUME NEW id \in Passes!RepairId
        PROVE  /\ spec'[id] = [gap |-> spec'[id].gap, status |-> spec'[id].status]
               /\ \/ spec[id].status = "unknown" /\ spec'[id].status = "pending"
                  \/ spec'[id] = spec[id]
    <3>1. spec[id] = [gap |-> spec[id].gap, status |-> spec[id].status]
      BY DEF PassTypes
    <3>2. CASE /\ id[1] = pass + 1 /\ id[2] \in DOMAIN gaps
               /\ spec[id].status = "unknown"
      <4>1. spec'[id] = [gap |-> gaps[id[2]], status |-> "pending"]
        BY <2>1, <3>2
      <4>2. QED BY <3>2, <4>1
    <3>3. CASE ~ /\ id[1] = pass + 1 /\ id[2] \in DOMAIN gaps
                 /\ spec[id].status = "unknown"
      <4>1. spec'[id] = spec[id]
        BY <2>1, <3>3
      <4>2. QED BY <3>1, <4>1
    <3>4. QED BY <3>2, <3>3
  <2>5. /\ DOMAIN spec' = Passes!RepairId
        /\ spec' = [id \in Passes!RepairId |->
                       [gap |-> spec'[id].gap, status |-> spec'[id].status]]
    BY <2>1, <2>4
  <2>6. PassTypes'
    BY <2>1, <2>4, <2>5 DEF PassTypes, Durable
  <2>7. JournalBook'
    BY <2>1, <2>4 DEF JournalBook
  <2>8. ASSUME NEW i \in DOMAIN gaps
        PROVE  /\ spec'[Passes!Id(i)].status # "unknown"
               /\ spec'[Passes!Id(i)].gap = gaps[i]
               /\ spec[Passes!Id(i)].status = "completed" =>
                     spec'[Passes!Id(i)].status = "completed"
    <3>1. CASE spec[Passes!Id(i)].status = "unknown"
      <4>1. spec'[Passes!Id(i)] = [gap |-> gaps[i], status |-> "pending"]
        BY <2>1, <2>3, <3>1
      <4>2. QED BY <3>1, <4>1
    <3>2. CASE spec[Passes!Id(i)].status # "unknown"
      <4>1. spec'[Passes!Id(i)] = spec[Passes!Id(i)]
        BY <2>3, <2>4, <3>2
      <4>2. spec[Passes!Id(i)].gap = gaps[i]
        BY <2>1, <3>2 DEF Passes!SameTasks
      <4>3. QED BY <3>2, <4>1, <4>2
    <3>3. QED BY <3>1, <3>2
  <2>9. /\ DOMAIN ended' = DOMAIN gaps
        /\ \A i \in DOMAIN gaps :
              \/ ended'[i] = [id |-> Passes!Id(i), status |-> "COMPLETED",
                              evidence |-> result[Passes!Id(i)].evidence]
                 /\ spec[Passes!Id(i)].status = "completed"
              \/ ended'[i] = [id |-> Passes!Id(i), status |-> "READY",
                              evidence |-> Passes!Silent]
    BY <2>1 DEF Passes!Seed
  <2>10. ASSUME NEW i \in DOMAIN gaps
         PROVE  /\ ended'[i] \in Repair
                /\ ended'[i].status = "COMPLETED" => spec[Passes!Id(i)].status = "completed"
    <3>1. result[Passes!Id(i)].evidence \in Opinion /\ Passes!Silent \in Opinion
      BY <2>3 DEF PassTypes, Opinion
    <3>2. QED BY <2>3, <2>9, <3>1 DEF Repair, Status
  <2>11. ended' = [i \in DOMAIN ended' |-> ended'[i]]
    BY <2>1 DEF Passes!Seed
  <2>12. ended' \in [DOMAIN ended' -> Repair]
    BY <2>9, <2>10, <2>11
  <2>13. \A i : Passes!Id(i)' = Passes!Id(i)
    BY <2>1 DEF Passes!Id
  <2>14. RepairBook'
    BY <2>1, <2>2, <2>8, <2>9, <2>10, <2>12, <2>13 DEF RepairBook
  <2>15. QED BY <2>6, <2>7, <2>14
<1>3. QED BY <1>1, <1>2

(* One repair starts or ends.                                               *)
MovesRepair(i, from, to, durable) ==
    /\ phase = "repairing" /\ phase' = phase /\ pass' = pass /\ repairs' = repairs
    /\ i \in DOMAIN ended /\ ended[i].status = from
    /\ DOMAIN ended' = DOMAIN ended
    /\ \A j \in DOMAIN ended : j # i => ended'[j] = ended[j]
    /\ ended'[i] \in Repair /\ ended'[i].status = to
    /\ spec' = [spec EXCEPT ![Passes!Id(i)].status = durable]

LEMMA MoveRepairKeeps ==
    ASSUME Passes!ConvergenceAssumption, RepairInv, NEW i, NEW durable \in Durable \ {"unknown"},
           NEW from, NEW to, MovesRepair(i, from, to, durable),
           to = "COMPLETED" => durable = "completed",
           ended' = [j \in DOMAIN ended' |-> ended'[j]],
           DOMAIN result' = Passes!RepairId,
           result' = [id \in Passes!RepairId |->
                         [gap |-> result'[id].gap, evidence |-> result'[id].evidence]],
           \A id \in Passes!RepairId : id # Passes!Id(i) => result'[id] = result[id],
           result'[Passes!Id(i)].evidence \in Opinion,
           durable = "completed" => result'[Passes!Id(i)].gap = repairs[i]
    PROVE  RepairInv'
<1> USE DEF RepairInv, MovesRepair
<1>1. i \in 1..MaxRepairs /\ pass < MaxPasses
  BY DEF RepairBook
<1>2. Passes!Id(i) \in Passes!RepairId /\ \A j : Passes!Id(j) = Passes!Id(i) => j = i
  BY <1>1, IdIsRepair
<1>3. ASSUME NEW id \in Passes!RepairId
      PROVE  /\ spec'[id] = [gap |-> spec[id].gap, status |->
                                IF id = Passes!Id(i) THEN durable ELSE spec[id].status]
             /\ spec'[id].gap = spec[id].gap
             /\ spec'[id].status = IF id = Passes!Id(i) THEN durable ELSE spec[id].status
  <2>1. spec[id] = [gap |-> spec[id].gap, status |-> spec[id].status]
    BY DEF PassTypes
  <2>2. CASE id = Passes!Id(i)
    <3>1. spec'[id] = [spec[id] EXCEPT !.status = durable]
      BY <1>2, <2>2 DEF PassTypes
    <3>2. QED BY <2>1, <2>2, <3>1
  <2>3. CASE id # Passes!Id(i)
    <3>1. spec'[id] = spec[id]
      BY <1>2, <2>3 DEF PassTypes
    <3>2. QED BY <2>1, <2>3, <3>1
  <2>4. QED BY <2>2, <2>3
<1>4. /\ DOMAIN spec' = Passes!RepairId
      /\ spec' = [id \in Passes!RepairId |->
                     [gap |-> spec'[id].gap, status |-> spec'[id].status]]
  <2>1. DOMAIN spec' = Passes!RepairId /\ spec' = [id \in Passes!RepairId |-> spec'[id]]
    BY DEF PassTypes
  <2>2. QED BY <1>3, <2>1
<1>5. PassTypes'
  <2>1. pass' \in 0..MaxPasses
    BY DEF PassTypes
  <2>2. ASSUME NEW id \in Passes!RepairId
        PROVE  spec'[id].status \in Durable /\ result'[id].evidence \in Opinion
    <3>1. spec[id].status \in Durable /\ result[id].evidence \in Opinion
      BY DEF PassTypes
    <3>2. result'[id].evidence \in Opinion
      BY <3>1
    <3>3. spec'[id].status \in Durable
      BY <1>3, <3>1
    <3>4. QED BY <3>2, <3>3
  <2>3. QED BY <1>4, <2>1, <2>2 DEF PassTypes
<1>6. JournalBook'
  <2>1. spec[Passes!Id(i)].gap = repairs[i]
    BY DEF RepairBook
  <2>2. ASSUME NEW id \in Passes!RepairId, spec'[id].status = "completed"
        PROVE  result'[id].gap = spec'[id].gap
    <3>1. CASE id = Passes!Id(i)
      <4>1. durable = "completed"
        BY <1>3, <2>2, <3>1
      <4>2. QED BY <1>3, <2>1, <3>1, <4>1
    <3>2. CASE id # Passes!Id(i)
      <4>1. spec[id].status = "completed" /\ result'[id] = result[id]
        BY <1>3, <2>2, <3>2
      <4>2. QED BY <1>3, <4>1 DEF JournalBook
    <3>3. QED BY <3>1, <3>2
  <2>3. QED BY <2>2 DEF JournalBook
<1>7. \A j : Passes!Id(j)' = Passes!Id(j)
  BY DEF Passes!Id
<1>8. ASSUME NEW j \in DOMAIN ended
      PROVE  /\ spec'[Passes!Id(j)].status # "unknown"
             /\ spec'[Passes!Id(j)].gap = repairs[j]
             /\ ended'[j].status = "COMPLETED" => spec'[Passes!Id(j)].status = "completed"
             /\ ended'[j] \in Repair
  <2>1. Passes!Id(j) \in Passes!RepairId /\ ended[j] \in Repair
    BY <1>1, IdIsRepair DEF RepairBook
  <2>2. CASE j = i
    <3>1. spec[Passes!Id(j)].gap = repairs[j]
      BY DEF RepairBook
    <3>2. spec'[Passes!Id(j)].status = durable /\ spec'[Passes!Id(j)].gap = repairs[j]
      BY <1>3, <2>1, <2>2, <3>1
    <3>3. ended'[j].status = to /\ ended'[j] \in Repair
      BY <2>2
    <3>4. QED BY <3>2, <3>3
  <2>3. CASE j # i
    BY <1>2, <1>3, <2>1, <2>3 DEF RepairBook
  <2>4. QED BY <2>2, <2>3
<1>9. RepairBook'
  BY <1>1, <1>7, <1>8 DEF RepairBook
<1>10. QED BY <1>5, <1>6, <1>9

LEMMA RepairKeeps ==
    ASSUME Passes!ConvergenceAssumption, RepairInv, Passes!StartRepair \/ Passes!EndRepair
    PROVE  RepairInv'
<1> USE DEF RepairInv
<1>1. phase = "repairing" /\ phase' = phase /\ pass' = pass /\ repairs' = repairs
  BY DEF Passes!StartRepair, Passes!EndRepair
<1>2. ended \in [DOMAIN ended -> Repair]
  BY <1>1 DEF RepairBook
<1>3. CASE Passes!StartRepair
  <2>1. PICK i \in DOMAIN ended :
           /\ ended[i].status = "READY"
           /\ ended' = [ended EXCEPT ![i].status = "RUNNING"]
           /\ spec' = [spec EXCEPT ![Passes!Id(i)].status = "running"]
    BY <1>3 DEF Passes!StartRepair
  <2>2. ended' \in [DOMAIN ended -> Repair] /\ ended'[i].status = "RUNNING"
    BY <1>2, <2>1 DEF Repair, Status
  <2>3. \A j \in DOMAIN ended : j # i => ended'[j] = ended[j]
    BY <1>2, <2>1
  <2>4. MovesRepair(i, "READY", "RUNNING", "running")
    BY <1>1, <2>1, <2>2, <2>3 DEF MovesRepair
  <2>5. i \in 1..MaxRepairs /\ pass < MaxPasses
    BY <1>1 DEF RepairBook
  <2>6. Passes!Id(i) \in Passes!RepairId /\ result' = result
    BY <1>3, <2>5, IdIsRepair DEF Passes!StartRepair
  <2>7. QED BY <2>2, <2>4, <2>6, MoveRepairKeeps DEF PassTypes, Durable
<1>4. CASE Passes!EndRepair
  <2>1. PICK i \in DOMAIN ended, status \in {"COMPLETED", "FAILED"}, evidence \in Opinion :
           /\ ended[i].status = "RUNNING"
           /\ ended' = [ended EXCEPT ![i].status = status, ![i].evidence = evidence]
           /\ spec' = [spec EXCEPT ![Passes!Id(i)].status =
                          IF status = "COMPLETED" THEN "completed" ELSE "failed"]
           /\ result' = IF status = "COMPLETED"
                        THEN [result EXCEPT ![Passes!Id(i)] =
                                 [gap |-> repairs[i], evidence |-> evidence]]
                        ELSE result
    BY <1>4 DEF Passes!EndRepair, Opinion
  <2>2. ended' \in [DOMAIN ended -> Repair] /\ ended'[i].status = status
    BY <1>2, <2>1 DEF Repair, Status
  <2>3. \A j \in DOMAIN ended : j # i => ended'[j] = ended[j]
    BY <1>2, <2>1
  <2> DEFINE durable == IF status = "COMPLETED" THEN "completed" ELSE "failed"
  <2>4. MovesRepair(i, "RUNNING", status, durable)
    BY <1>1, <2>1, <2>2, <2>3 DEF MovesRepair
  <2>5. i \in 1..MaxRepairs /\ pass < MaxPasses
    BY <1>1 DEF RepairBook
  <2>6. Passes!Id(i) \in Passes!RepairId
    BY <2>5, IdIsRepair
  <2>7. /\ DOMAIN result' = Passes!RepairId
        /\ result' = [id \in Passes!RepairId |-> result'[id]]
        /\ \A id \in Passes!RepairId : id # Passes!Id(i) => result'[id] = result[id]
        /\ status = "COMPLETED" =>
              result'[Passes!Id(i)] = [gap |-> repairs[i], evidence |-> evidence]
        /\ status # "COMPLETED" => result'[Passes!Id(i)] = result[Passes!Id(i)]
    BY <2>1, <2>6 DEF PassTypes
  <2>8. ASSUME NEW id \in Passes!RepairId
        PROVE  result'[id] = [gap |-> result'[id].gap, evidence |-> result'[id].evidence]
    <3>1. result[id] = [gap |-> result[id].gap, evidence |-> result[id].evidence]
      BY DEF PassTypes
    <3>2. QED BY <2>1, <2>7, <3>1
  <2>9. result' = [id \in Passes!RepairId |->
                      [gap |-> result'[id].gap, evidence |-> result'[id].evidence]]
    BY <2>7, <2>8
  <2>10. result'[Passes!Id(i)].evidence \in Opinion
    BY <2>1, <2>6, <2>7 DEF PassTypes
  <2>11. durable = "completed" => result'[Passes!Id(i)].gap = repairs[i]
    BY <2>7
  <2>12. durable \in Durable \ {"unknown"} /\ (status = "COMPLETED" => durable = "completed")
    BY DEF Durable
  <2> HIDE DEF durable
  <2>13. QED BY <2>2, <2>4, <2>7, <2>9, <2>10, <2>11, <2>12, MoveRepairKeeps
<1>5. QED BY <1>3, <1>4

LEMMA RepairInvariant == Passes!ConvergenceAssumption => (Passes!Spec => []RepairInv)
<1> SUFFICES ASSUME Passes!ConvergenceAssumption PROVE Passes!Spec => []RepairInv
  OBVIOUS
<1>1. Passes!Init => RepairInv
  BY RepairStart
<1>2. ASSUME RepairInv, [Passes!Next]_(Passes!vars) PROVE RepairInv'
  <2>1. CASE UNCHANGED Passes!vars
    <3>1. UNCHANGED <<phase, pass, repairs, ended, spec, result>>
      BY <2>1 DEF Passes!vars, Passes!run, Passes!journal
    <3>2. \A i : Passes!Id(i)' = Passes!Id(i)
      BY <3>1 DEF Passes!Id
    <3>3. QED BY <1>2, <3>1, <3>2 DEF RepairInv, PassTypes, JournalBook, RepairBook
  <2>2. CASE Passes!Begin \/ Passes!ReviewRepairs \/ Passes!Crash \/ Passes!Finish
    <3>1. /\ phase' # "repairing" /\ UNCHANGED <<spec, result>>
          /\ \/ pass' \in {pass, 0}
             \/ phase = "repairing" /\ pass' = pass + 1
      BY <2>2 DEF Passes!Begin, Passes!ReviewRepairs, Passes!Crash, Passes!Finish,
                  Passes!run, Passes!journal
    <3>2. pass' \in 0..MaxPasses
      BY <1>2, <3>1 DEF RepairInv, PassTypes, RepairBook, Passes!ConvergenceAssumption
    <3>3. QED BY <1>2, <3>1, <3>2 DEF RepairInv, PassTypes, JournalBook, RepairBook
  <2>3. QED BY <1>2, <2>1, <2>2, EvaluateKeeps, RepairKeeps DEF Passes!Next
<1>3. QED BY <1>1, <1>2, PTL DEF Passes!Spec

(* What a process takes over from the journal for a repair was done for the *)
(* very gap that it repairs, for any plan and criteria, any number of       *)
(* processes and passes, wherever a process dies.                           *)
(* (ConvergenceRunner.run, RunJournal.register_tasks.)                      *)
THEOREM SeedsFit ==
    Passes!ConvergenceAssumption => (Passes!Spec => []Passes!SeedsFitTheirGap)
<1> SUFFICES ASSUME Passes!ConvergenceAssumption
             PROVE  Passes!Spec => []Passes!SeedsFitTheirGap
  OBVIOUS
<1>1. RepairInv => Passes!SeedsFitTheirGap
  <2> SUFFICES ASSUME RepairInv, phase = "repairing", NEW i \in DOMAIN ended,
                      ended[i].status = "COMPLETED"
               PROVE  result[Passes!Id(i)].gap = repairs[i]
    BY DEF Passes!SeedsFitTheirGap
  <2>1. Passes!Id(i) \in Passes!RepairId
    BY IdIsRepair DEF RepairInv, RepairBook
  <2>2. QED BY <2>1 DEF RepairInv, RepairBook, JournalBook
<1>2. QED BY <1>1, RepairInvariant, PTL


(* The states of the passes.  A state is of a task of the plan or of a      *)
(* repair that is registered; while passes go on, every repair that was     *)
(* begun in an earlier one has a state, and every task one of its own or    *)
(* that of a repair of its own.                                             *)

Ids == Passes!RepairId \cup {Passes!Plain(t) : t \in Passes!Task}
Kept == [id : Ids, status : Status, evidence : Opinion]
Target == {Passes!Plain(t) : t \in Passes!Task} \cup (Nat \X Nat)

StateTypes ==
    /\ phase \in {"ended", "evaluating", "repairing", "converged"}
    /\ process \in 0..MaxProcesses /\ blocked \in BOOLEAN
    /\ states \in Seq(Kept) /\ ended \in Seq(Kept) /\ history \in Seq(Nat)
    /\ Len(history) = pass /\ Len(repairs) = Len(ended)
    /\ review.evidence \in Opinion /\ review.targets \in Seq(Target)
    /\ found = <<>> \/ found \in [1..Len(Tasks) -> Evidence]

EndedBook ==
    phase = "repairing" =>
        DOMAIN repairs = DOMAIN ended /\ \A i \in DOMAIN ended : ended[i].id = Passes!Id(i)

OfTask(id, t, registered) ==
    \/ id = Passes!Plain(t)
    \/ id \in Passes!RepairId /\ Passes!Source(registered[id].gap) = t

StateBook ==
    phase \in {"evaluating", "repairing"} =>
        /\ \A i \in DOMAIN states :
              states[i].id \in Passes!RepairId => spec[states[i].id].status # "unknown"
        /\ \A p \in DOMAIN history : \A j \in 1..history[p] :
              \E i \in DOMAIN states : states[i].id = <<p, j>>
        /\ \A t \in Passes!Task : \E i \in DOMAIN states : OfTask(states[i].id, t, spec)

WholeInv == StateTypes /\ EndedBook /\ StateBook /\ Passes!ConvergedIsWhole

LEMMA PassesSelect == \A s, K : Passes!Select(s, K) = Select(s, K)
<1>1. \A S : Passes!Cardinality(S) = Cardinality(S)
  BY DEF Passes!Cardinality, Cardinality
<1>2. \A S, before : Passes!InOrder(S, before) = InOrder(S, before)
  BY <1>1 DEF Passes!InOrder, InOrder
<1>3. \A K : Passes!Ascending(K) = Ascending(K)
  BY <1>2 DEF Passes!Ascending, Ascending
<1>4. QED BY <1>3 DEF Passes!Select, Select

LEMMA PlainIsNoRepair ==
    \A t : Passes!Plain(t) \notin Passes!RepairId
BY DEF Passes!Plain, Passes!RepairId

(* A filter without a result has nothing to keep.                           *)
LEMMA NothingSelected ==
    ASSUME NEW V, NEW s \in Seq(V), NEW K \in SUBSET DOMAIN s, Len(Select(s, K)) = 0
    PROVE  K = {}
<1>1. Cardinality(K) = 0 /\ \A i \in K : Place(K, i) \in 1..Cardinality(K)
  BY SelectKeeps
<1>2. QED BY <1>1

LEMMA ListIsSequence ==
    ASSUME NEW n \in Nat, NEW f, f = [i \in 1..n |-> f[i]]
    PROVE  f \in Seq({f[i] : i \in 1..n}) /\ Len(f) = n
<1>1. f \in [1..n -> {f[i] : i \in 1..n}]
  OBVIOUS
<1>2. QED BY <1>1

LEMMA WiderSequence ==
    ASSUME NEW V, NEW W, V \subseteq W, NEW s \in Seq(V)
    PROVE  s \in Seq(W)
<1>1. Len(s) \in Nat /\ s \in [1..Len(s) -> V]
  OBVIOUS
<1>2. s \in [1..Len(s) -> W]
  BY <1>1
<1>3. QED BY <1>1, <1>2

(* The gaps are a list; when it is empty, everything is complete and        *)
(* satisfied.                                                               *)
LEMMA GapsAreListed ==
    ASSUME Passes!ConvergenceAssumption, StateTypes
    PROVE  /\ Len(Passes!Gaps) \in Nat /\ DOMAIN Passes!Gaps = 1..Len(Passes!Gaps)
           /\ Passes!Gaps = <<>> =>
                 /\ \A i \in DOMAIN states : states[i].status = "COMPLETED"
                 /\ \A i \in DOMAIN Criteria : Passes!Satisfied(Criteria[i])
<1> DEFINE I == {i \in DOMAIN states : Passes!Incomplete(states[i])}
           U == {i \in DOMAIN Criteria : ~Passes!Satisfied(Criteria[i])}
           incomplete == Select(states, I)
           unsatisfied == Select(Criteria, U)
           message == <<"none", {}>>
           a == IF blocked THEN <<Passes!Gap("analyze", Passes!NoTarget, message)>> ELSE <<>>
           b == [i \in DOMAIN incomplete |->
                   Passes!Gap("task", incomplete[i].id, <<incomplete[i].status, {}>>)]
           c == [i \in DOMAIN review.targets |->
                   Passes!Gap("review", review.targets[i], message)]
           d == [i \in DOMAIN unsatisfied |->
                   Passes!Gap("acceptance", Passes!NoTarget,
                              <<unsatisfied[i], Passes!Reason(unsatisfied[i])>>)]
<1>1. Passes!Gaps = ((a \o b) \o c) \o d
  BY PassesSelect DEF Passes!Gaps
<1>2. /\ states \in Seq(Kept) /\ review.targets \in Seq(Target)
      /\ Criteria \in Seq(Passes!Criterion)
  BY DEF StateTypes, Passes!ConvergenceAssumption
<1>3. /\ Len(incomplete) \in Nat /\ DOMAIN incomplete = 1..Len(incomplete)
      /\ Len(unsatisfied) \in Nat /\ DOMAIN unsatisfied = 1..Len(unsatisfied)
      /\ Len(incomplete) = 0 => I = {}
      /\ Len(unsatisfied) = 0 => U = {}
  <2>1. I \in SUBSET DOMAIN states /\ U \in SUBSET DOMAIN Criteria
    OBVIOUS
  <2> HIDE DEF I, U
  <2>2. incomplete \in Seq(Kept) /\ unsatisfied \in Seq(Passes!Criterion)
    BY <1>2, <2>1, SelectKeeps
  <2>3. QED BY <1>2, <2>1, <2>2, NothingSelected
<1>4. Len(review.targets) \in Nat /\ DOMAIN review.targets = 1..Len(review.targets)
  BY <1>2
<1> HIDE DEF incomplete, unsatisfied
<1> DEFINE A == {Passes!Gap("analyze", Passes!NoTarget, message)}
           B == {b[i] : i \in 1..Len(incomplete)}
           C == {c[i] : i \in 1..Len(review.targets)}
           D == {d[i] : i \in 1..Len(unsatisfied)}
           V == A \cup B \cup C \cup D
<1>5. a \in Seq(A) /\ Len(a) \in Nat
  OBVIOUS
<1>6. b \in Seq(B) /\ Len(b) = Len(incomplete)
  BY <1>3, ListIsSequence
<1>7. c \in Seq(C)
  BY <1>4, ListIsSequence
<1>8. d \in Seq(D) /\ Len(d) = Len(unsatisfied)
  BY <1>3, ListIsSequence
<1> HIDE DEF a, b, c, d
<1>9. a \in Seq(V) /\ b \in Seq(V) /\ c \in Seq(V) /\ d \in Seq(V)
  <2>1. A \subseteq V /\ B \subseteq V /\ C \subseteq V /\ D \subseteq V
    OBVIOUS
  <2> HIDE DEF A, B, C, D, V
  <2>2. QED BY <1>5, <1>6, <1>7, <1>8, <2>1, WiderSequence
<1> HIDE DEF A, B, C, D, V
<1>10. /\ Passes!Gaps \in Seq(V) /\ Len(c) \in Nat
       /\ Len(Passes!Gaps) = Len(a) + Len(b) + Len(c) + Len(d)
  <2>1. a \o b \in Seq(V) /\ Len(a \o b) = Len(a) + Len(b)
    BY <1>9, JoinIs
  <2> DEFINE ab == a \o b
  <2> HIDE DEF ab
  <2>2. ab \o c \in Seq(V) /\ Len(ab \o c) = Len(ab) + Len(c) /\ Len(c) \in Nat
    BY <1>9, <2>1, JoinIs DEF ab
  <2> DEFINE abc == ab \o c
  <2> HIDE DEF abc
  <2>3. abc \o d \in Seq(V) /\ Len(abc \o d) = Len(abc) + Len(d)
    BY <1>9, <2>2, JoinIs DEF abc
  <2>4. Passes!Gaps = abc \o d
    BY <1>1 DEF ab, abc
  <2>5. QED BY <2>1, <2>2, <2>3, <2>4 DEF ab, abc
<1>11. Len(Passes!Gaps) \in Nat /\ DOMAIN Passes!Gaps = 1..Len(Passes!Gaps)
  BY <1>10
<1>12. ASSUME Passes!Gaps = <<>> PROVE I = {} /\ U = {}
  <2>1. Len(Passes!Gaps) = 0
    BY <1>12
  <2>2. Len(a) \in Nat /\ Len(b) \in Nat /\ Len(c) \in Nat /\ Len(d) \in Nat
    BY <1>3, <1>5, <1>6, <1>8, <1>10
  <2>3. Len(a) + Len(b) + Len(c) + Len(d) = 0
    BY <1>10, <2>1
  <2>4. Len(b) = 0 /\ Len(d) = 0
    BY <2>2, <2>3
  <2>5. QED BY <1>3, <1>6, <1>8, <2>4
<1>13. QED BY <1>11, <1>12 DEF Passes!Incomplete

(* What a pass looks at when it finds no gap.                               *)
LEMMA NoGapIsWhole ==
    ASSUME Passes!ConvergenceAssumption, WholeInv, phase = "evaluating",
           Passes!Gaps = <<>>
    PROVE  /\ \A p \in DOMAIN history : \A i \in 1..history[p] :
                 \E s \in Passes!Range(states) : s.id = <<p, i>> /\ s.status = "COMPLETED"
           /\ \A t \in Passes!Task :
                 \E s \in Passes!Range(states) :
                     \/ s.id = Passes!Plain(t)
                     \/ s.id \in Passes!RepairId /\ Passes!Source(spec[s.id].gap) = t
           /\ \A s \in Passes!Range(states), k \in Passes!Criterion : s.evidence[k] # "failed"
<1>1. /\ \A i \in DOMAIN states : states[i].status = "COMPLETED"
      /\ \A i \in DOMAIN Criteria : Passes!Satisfied(Criteria[i])
  BY GapsAreListed DEF WholeInv
<1>2. /\ \A s \in Passes!Range(states) : \E i \in DOMAIN states : s = states[i]
      /\ \A i \in DOMAIN states : states[i] \in Passes!Range(states)
  BY DEF Passes!Range
<1>3. /\ \A p \in DOMAIN history : \A j \in 1..history[p] :
            \E i \in DOMAIN states : states[i].id = <<p, j>>
      /\ \A t \in Passes!Task : \E i \in DOMAIN states : OfTask(states[i].id, t, spec)
  BY DEF WholeInv, StateBook
<1>4. ASSUME NEW p \in DOMAIN history, NEW j \in 1..history[p]
      PROVE  \E s \in Passes!Range(states) : s.id = <<p, j>> /\ s.status = "COMPLETED"
  <2>1. PICK i \in DOMAIN states : states[i].id = <<p, j>>
    BY <1>3
  <2>2. QED BY <1>1, <1>2, <2>1
<1>5. ASSUME NEW t \in Passes!Task
      PROVE  \E s \in Passes!Range(states) :
                \/ s.id = Passes!Plain(t)
                \/ s.id \in Passes!RepairId /\ Passes!Source(spec[s.id].gap) = t
  <2>1. PICK i \in DOMAIN states : OfTask(states[i].id, t, spec)
    BY <1>3
  <2>2. QED BY <1>2, <2>1 DEF OfTask
<1>6. ASSUME NEW s \in Passes!Range(states), NEW k \in Passes!Criterion,
             s.evidence[k] = "failed"
      PROVE  FALSE
  <2>1. PICK i \in DOMAIN states : s = states[i]
    BY <1>2
  <2>2. PICK c \in 1..Len(Criteria) : k = Criteria[c]
    BY DEF Passes!Criterion
  <2>3. Passes!Satisfied(k)
    BY <1>1, <2>2 DEF Passes!ConvergenceAssumption
  <2>4. states[i].evidence[k] = "failed" /\ i \in 1..Len(states)
    BY <1>6, <2>1 DEF WholeInv, StateTypes
  <2> DEFINE structured == {states[x].evidence[k] : x \in 1..Len(states)} \ {"none"}
  <2>5. "failed" \in structured
    BY <2>4
  <2>6. Passes!Applicable(k) = structured
    BY <2>5 DEF Passes!Applicable
  <2>7. QED BY <2>3, <2>5, <2>6 DEF Passes!Satisfied
<1>7. QED BY <1>4, <1>5, <1>6

(* A step leaves a registered repair its gap.                               *)
LEMMA RegisteredStays ==
    ASSUME Passes!ConvergenceAssumption, RepairInv, [Passes!Next]_(Passes!vars),
           NEW id \in Passes!RepairId, spec[id].status # "unknown"
    PROVE  spec'[id].status # "unknown" /\ spec'[id].gap = spec[id].gap
<1>1. CASE spec' = spec
  BY <1>1
<1>2. CASE Passes!Evaluate /\ spec' # spec
  <2>1. spec'[id] = spec[id]
    BY <1>2 DEF Passes!Evaluate
  <2>2. QED BY <2>1
<1>3. ASSUME NEW i, NEW durable \in {"running", "completed", "failed"},
             spec' = [spec EXCEPT ![Passes!Id(i)].status = durable]
      PROVE  spec'[id].status # "unknown" /\ spec'[id].gap = spec[id].gap
  <2>1. DOMAIN spec = Passes!RepairId
        /\ spec[id] = [gap |-> spec[id].gap, status |-> spec[id].status]
    BY DEF RepairInv, PassTypes
  <2>2. spec'[id] = IF id = Passes!Id(i) THEN [spec[id] EXCEPT !.status = durable]
                    ELSE spec[id]
    BY <1>3, <2>1
  <2>3. [spec[id] EXCEPT !.status = durable] = [gap |-> spec[id].gap, status |-> durable]
    BY <2>1
  <2>4. QED BY <2>1, <2>2, <2>3
<1>4. CASE Passes!StartRepair
  <2>1. \E i \in DOMAIN ended : spec' = [spec EXCEPT ![Passes!Id(i)].status = "running"]
    BY <1>4 DEF Passes!StartRepair
  <2>2. QED BY <1>3, <2>1
<1>5. CASE Passes!EndRepair
  <2>1. PICK i \in DOMAIN ended, status \in {"COMPLETED", "FAILED"} :
           spec' = [spec EXCEPT ![Passes!Id(i)].status =
                       IF status = "COMPLETED" THEN "completed" ELSE "failed"]
    BY <1>5 DEF Passes!EndRepair
  <2>2. CASE status = "COMPLETED"
    <3>1. spec' = [spec EXCEPT ![Passes!Id(i)].status = "completed"]
      BY <2>1, <2>2
    <3>2. QED BY <1>3, <3>1
  <2>3. CASE status # "COMPLETED"
    <3>1. spec' = [spec EXCEPT ![Passes!Id(i)].status = "failed"]
      BY <2>1, <2>3
    <3>2. QED BY <1>3, <3>1
  <2>4. QED BY <2>2, <2>3
<1>6. CASE Passes!Begin \/ Passes!ReviewRepairs \/ Passes!Crash \/ Passes!Finish
           \/ UNCHANGED Passes!vars
  BY <1>1, <1>6 DEF Passes!Begin, Passes!ReviewRepairs, Passes!Crash, Passes!Finish,
                    Passes!vars, Passes!journal
<1>7. QED BY <1>1, <1>2, <1>4, <1>5, <1>6 DEF Passes!Next

LEMMA OfTaskStays ==
    ASSUME Passes!ConvergenceAssumption, RepairInv, [Passes!Next]_(Passes!vars),
           NEW id, id \in Passes!RepairId => spec[id].status # "unknown"
    PROVE  /\ id \in Passes!RepairId => spec'[id].status # "unknown"
           /\ \A t \in Passes!Task : OfTask(id, t, spec) => OfTask(id, t, spec')
<1>1. CASE id \in Passes!RepairId
  <2>1. spec'[id].status # "unknown" /\ spec'[id].gap = spec[id].gap
    BY <1>1, RegisteredStays
  <2>2. QED BY <2>1 DEF OfTask
<1>2. CASE id \notin Passes!RepairId
  BY <1>2 DEF OfTask
<1>3. QED BY <1>1, <1>2

LEMMA WholeStart == Passes!ConvergenceAssumption /\ Passes!Init => WholeInv
<1> SUFFICES ASSUME Passes!ConvergenceAssumption, Passes!Init PROVE WholeInv
  OBVIOUS
<1>1. /\ phase = "ended" /\ process = 0 /\ pass = 0 /\ states = <<>> /\ blocked = FALSE
      /\ repairs = <<>> /\ ended = <<>> /\ history = <<>> /\ found = <<>>
      /\ review = [targets |-> <<>>, evidence |-> Passes!Silent]
  BY DEF Passes!Init, Passes!Approved
<1>2. review.targets = <<>> /\ review.evidence \in Opinion
  BY <1>1 DEF Opinion
<1>3. /\ <<>> \in Seq(Kept) /\ <<>> \in Seq(Nat) /\ <<>> \in Seq(Target)
      /\ Len(<<>>) = 0
  OBVIOUS
<1>4. 0 \in 0..MaxProcesses
  BY DEF Passes!ConvergenceAssumption
<1>5. StateTypes
  BY <1>1, <1>2, <1>3, <1>4 DEF StateTypes
<1>6. QED BY <1>1, <1>5 DEF WholeInv, EndedBook, StateBook, Passes!ConvergedIsWhole

LEMMA BeginIsWhole ==
    Passes!ConvergenceAssumption /\ RepairInv /\ WholeInv /\ Passes!Begin => WholeInv'
<1> SUFFICES ASSUME Passes!ConvergenceAssumption, WholeInv, Passes!Begin PROVE WholeInv'
  OBVIOUS
<1>1. /\ phase' = "evaluating" /\ process' = process + 1 /\ process < MaxProcesses
      /\ pass' = 0 /\ blocked' \in BOOLEAN /\ repairs' = <<>> /\ ended' = <<>>
      /\ history' = <<>> /\ spec' = spec
      /\ states' = [i \in 1..Len(Tasks) |->
            [id |-> Passes!Plain(Tasks[i]), status |-> "COMPLETED", evidence |-> found'[i]]]
  BY DEF Passes!Begin
<1>2. found' \in [1..Len(Tasks) -> Evidence]
  BY DEF Passes!Begin, WholeInv, StateTypes
<1>3. review'.targets = <<>> /\ review'.evidence \in Opinion
  <2>1. PICK evidence \in Evidence : review' = [targets |-> <<>>, evidence |-> evidence]
    BY DEF Passes!Begin, Passes!Approved
  <2>2. QED BY <2>1 DEF Opinion
<1>4. /\ Len(Tasks) \in Nat
      /\ \A i \in 1..Len(Tasks) : Tasks[i] \in Passes!Task
      /\ \A t \in Passes!Task : \E i \in 1..Len(Tasks) : t = Tasks[i]
  BY DEF Passes!ConvergenceAssumption, Passes!Task
<1>5. ASSUME NEW i \in 1..Len(Tasks)
      PROVE  states'[i] \in Kept /\ states'[i].id = Passes!Plain(Tasks[i])
  <2>1. states'[i] = [id |-> Passes!Plain(Tasks[i]), status |-> "COMPLETED",
                      evidence |-> found'[i]]
    BY <1>1
  <2>2. Passes!Plain(Tasks[i]) \in Ids /\ found'[i] \in Opinion
    BY <1>2, <1>4 DEF Ids, Opinion
  <2>3. QED BY <2>1, <2>2 DEF Kept, Status
<1>6. states' \in Seq(Kept) /\ DOMAIN states' = 1..Len(Tasks)
  <2>1. DOMAIN states' = 1..Len(Tasks) /\ states' = [i \in 1..Len(Tasks) |-> states'[i]]
    BY <1>1
  <2>2. states' \in [1..Len(Tasks) -> Kept]
    BY <1>5, <2>1
  <2>3. QED BY <1>4, <2>1, <2>2
<1>7. /\ <<>> \in Seq(Kept) /\ <<>> \in Seq(Nat) /\ <<>> \in Seq(Target)
      /\ Len(<<>>) = 0 /\ DOMAIN <<>> = {}
  OBVIOUS
<1>8. process' \in 0..MaxProcesses
  BY <1>1 DEF WholeInv, StateTypes, Passes!ConvergenceAssumption
<1>9. StateTypes'
  BY <1>1, <1>2, <1>3, <1>6, <1>7, <1>8 DEF StateTypes
<1>10. StateBook'
  <2>1. \A i \in DOMAIN states' : states'[i].id \notin Passes!RepairId
    BY <1>5, <1>6, PlainIsNoRepair
  <2>2. \A t \in Passes!Task : \E i \in DOMAIN states' : OfTask(states'[i].id, t, spec')
    BY <1>4, <1>5, <1>6 DEF OfTask
  <2>3. QED BY <1>1, <1>7, <2>1, <2>2 DEF StateBook
<1>11. QED BY <1>1, <1>9, <1>10 DEF WholeInv, EndedBook, Passes!ConvergedIsWhole

LEMMA EvaluateIsWhole ==
    Passes!ConvergenceAssumption /\ RepairInv /\ WholeInv /\ Passes!Evaluate => WholeInv'
<1> SUFFICES ASSUME Passes!ConvergenceAssumption, RepairInv, WholeInv, Passes!Evaluate
             PROVE  WholeInv'
  OBVIOUS
<1> DEFINE gaps == Passes!Gaps
<1>1. /\ phase = "evaluating" /\ process' = process /\ pass' = pass /\ states' = states
      /\ review' = review /\ blocked' = blocked /\ history' = history /\ found' = found
      /\ result' = result /\ DOMAIN gaps \subseteq 1..MaxRepairs
      /\ \/ /\ gaps = <<>> /\ phase' = "converged"
            /\ repairs' = repairs /\ ended' = ended /\ spec' = spec
         \/ /\ phase' = "ended" /\ repairs' = repairs /\ ended' = ended /\ spec' = spec
         \/ /\ phase' = "repairing" /\ repairs' = gaps /\ ended' = Passes!Seed(gaps)
            /\ ~ pass >= MaxPasses
  BY DEF Passes!Evaluate
<1>2. Len(gaps) \in Nat /\ DOMAIN gaps = 1..Len(gaps)
  BY GapsAreListed DEF WholeInv
<1>3. gaps = <<>> => /\ \A p \in DOMAIN history : \A i \in 1..history[p] :
                           \E s \in Passes!Range(states) :
                              s.id = <<p, i>> /\ s.status = "COMPLETED"
                     /\ \A t \in Passes!Task :
                           \E s \in Passes!Range(states) :
                              \/ s.id = Passes!Plain(t)
                              \/ s.id \in Passes!RepairId /\ Passes!Source(spec[s.id].gap) = t
                     /\ \A s \in Passes!Range(states), k \in Passes!Criterion :
                           s.evidence[k] # "failed"
  BY <1>1, NoGapIsWhole
<1> HIDE DEF gaps
<1>4. CASE phase' = "converged"
  <2>1. /\ gaps = <<>> /\ repairs' = repairs /\ ended' = ended /\ spec' = spec
    BY <1>1, <1>4
  <2>2. Passes!ConvergedIsWhole'
    BY <1>1, <1>3, <2>1 DEF Passes!ConvergedIsWhole
  <2>3. QED BY <1>1, <1>4, <2>1, <2>2 DEF WholeInv, StateTypes, EndedBook, StateBook
<1>5. CASE phase' = "ended"
  <2>1. /\ repairs' = repairs /\ ended' = ended /\ spec' = spec
    BY <1>1, <1>5
  <2>2. QED BY <1>1, <1>5, <2>1
            DEF WholeInv, StateTypes, EndedBook, StateBook, Passes!ConvergedIsWhole
<1>6. CASE phase' = "repairing"
  <2>1. repairs' = gaps /\ ended' = Passes!Seed(gaps) /\ pass < MaxPasses
    BY <1>1, <1>6 DEF RepairInv, PassTypes, Passes!ConvergenceAssumption
  <2>2. ASSUME NEW i \in DOMAIN gaps
        PROVE  ended'[i] \in Kept /\ ended'[i].id = Passes!Id(i)
    <3>1. Passes!Id(i) \in Passes!RepairId
      BY <1>1, <2>1, IdIsRepair DEF RepairInv
    <3>2. Passes!Id(i) \in Ids /\ result[Passes!Id(i)].evidence \in Opinion
          /\ Passes!Silent \in Opinion
      BY <3>1 DEF RepairInv, PassTypes, Ids, Opinion
    <3>3. \/ ended'[i] = [id |-> Passes!Id(i), status |-> "COMPLETED",
                          evidence |-> result[Passes!Id(i)].evidence]
          \/ ended'[i] = [id |-> Passes!Id(i), status |-> "READY",
                          evidence |-> Passes!Silent]
      BY <2>1 DEF Passes!Seed
    <3>4. QED BY <3>2, <3>3 DEF Kept, Status
  <2>3. ended' \in Seq(Kept) /\ DOMAIN ended' = DOMAIN gaps /\ Len(ended') = Len(gaps)
    <3>1. DOMAIN ended' = DOMAIN gaps /\ ended' = [i \in DOMAIN gaps |-> ended'[i]]
      BY <2>1 DEF Passes!Seed
    <3>2. ended' \in [1..Len(gaps) -> Kept]
      BY <1>2, <2>2, <3>1
    <3>3. QED BY <1>2, <3>1, <3>2
  <2>4. StateTypes'
    BY <1>1, <1>6, <2>1, <2>3 DEF WholeInv, StateTypes
  <2>5. \A i : Passes!Id(i)' = Passes!Id(i)
    BY <1>1 DEF Passes!Id
  <2>6. EndedBook'
    BY <2>1, <2>2, <2>3, <2>5 DEF EndedBook
  <2>7. ASSUME NEW i \in DOMAIN states
        PROVE  /\ states[i].id \in Passes!RepairId => spec'[states[i].id].status # "unknown"
               /\ \A t \in Passes!Task : 
                     OfTask(states[i].id, t, spec) => OfTask(states[i].id, t, spec')
    <3>1. states[i].id \in Passes!RepairId => spec[states[i].id].status # "unknown"
      BY <1>1 DEF WholeInv, StateBook
    <3>2. [Passes!Next]_(Passes!vars)
      BY DEF Passes!Next
    <3>3. QED BY <3>1, <3>2, OfTaskStays
  <2>8. StateBook'
    <3>1. \A i \in DOMAIN states :
             states[i].id \in Passes!RepairId => spec'[states[i].id].status # "unknown"
      BY <2>7
    <3>2. ASSUME NEW t \in Passes!Task
          PROVE  \E i \in DOMAIN states : OfTask(states[i].id, t, spec')
      <4>1. PICK i \in DOMAIN states : OfTask(states[i].id, t, spec)
        BY <1>1 DEF WholeInv, StateBook
      <4>2. QED BY <2>7, <4>1
    <3>3. QED BY <1>1, <3>1, <3>2 DEF WholeInv, StateBook
  <2>9. QED BY <1>6, <2>4, <2>6, <2>8 DEF WholeInv, Passes!ConvergedIsWhole
<1>7. QED BY <1>1, <1>4, <1>5, <1>6

(* The states stand while the repairs of a pass run.                        *)
LEMMA StatesStand ==
    ASSUME Passes!ConvergenceAssumption, RepairInv, WholeInv, [Passes!Next]_(Passes!vars),
           phase \in {"evaluating", "repairing"}, states' = states, history' = history
    PROVE  /\ \A i \in DOMAIN states' :
                 states'[i].id \in Passes!RepairId => spec'[states'[i].id].status # "unknown"
           /\ \A p \in DOMAIN history' : \A j \in 1..history'[p] :
                 \E i \in DOMAIN states' : states'[i].id = <<p, j>>
           /\ \A t \in Passes!Task :
                 \E i \in DOMAIN states' : OfTask(states'[i].id, t, spec')
<1>1. ASSUME NEW i \in DOMAIN states
      PROVE  /\ states[i].id \in Passes!RepairId => spec'[states[i].id].status # "unknown"
             /\ \A t \in Passes!Task :
                   OfTask(states[i].id, t, spec) => OfTask(states[i].id, t, spec')
  <2>1. states[i].id \in Passes!RepairId => spec[states[i].id].status # "unknown"
    BY DEF WholeInv, StateBook
  <2>2. QED BY <2>1, OfTaskStays
<1>2. ASSUME NEW t \in Passes!Task
      PROVE  \E i \in DOMAIN states : OfTask(states[i].id, t, spec')
  <2>1. PICK i \in DOMAIN states : OfTask(states[i].id, t, spec)
    BY DEF WholeInv, StateBook
  <2>2. QED BY <1>1, <2>1
<1>3. QED BY <1>1, <1>2 DEF WholeInv, StateBook

LEMMA MovingIsWhole ==
    ASSUME Passes!ConvergenceAssumption, RepairInv, WholeInv,
           Passes!StartRepair \/ Passes!EndRepair
    PROVE  WholeInv'
<1>1. /\ phase = "repairing" /\ phase' = phase /\ process' = process /\ pass' = pass
      /\ states' = states /\ review' = review /\ blocked' = blocked
      /\ repairs' = repairs /\ history' = history /\ found' = found
  BY DEF Passes!StartRepair, Passes!EndRepair
<1>2. ended \in Seq(Kept) /\ DOMAIN ended = 1..Len(ended) /\ Len(ended) \in Nat
      /\ \A i \in DOMAIN ended : ended[i] \in Kept
  BY DEF WholeInv, StateTypes
<1>3. ended \in [DOMAIN ended -> Kept]
  BY <1>2
<1>4. /\ ended' \in [DOMAIN ended -> Kept]
      /\ \A j \in DOMAIN ended : ended'[j].id = ended[j].id
  <2>1. CASE Passes!StartRepair
    <3>1. PICK i \in DOMAIN ended : ended' = [ended EXCEPT ![i].status = "RUNNING"]
      BY <2>1 DEF Passes!StartRepair
    <3>2. ended' \in [DOMAIN ended -> Kept] /\ ended'[i].id = ended[i].id
      BY <1>3, <3>1 DEF Kept, Status
    <3>3. \A j \in DOMAIN ended : j # i => ended'[j] = ended[j]
      BY <1>3, <3>1
    <3>4. QED BY <3>2, <3>3
  <2>2. CASE Passes!EndRepair
    <3>1. PICK i \in DOMAIN ended, status \in {"COMPLETED", "FAILED"}, evidence \in Opinion :
             ended' = [ended EXCEPT ![i].status = status, ![i].evidence = evidence]
      BY <2>2 DEF Passes!EndRepair, Opinion
    <3>2. ended' \in [DOMAIN ended -> Kept] /\ ended'[i].id = ended[i].id
      BY <1>3, <3>1 DEF Kept, Status
    <3>3. \A j \in DOMAIN ended : j # i => ended'[j] = ended[j]
      BY <1>3, <3>1
    <3>4. QED BY <3>2, <3>3
  <2>3. QED BY <2>1, <2>2
<1>5. /\ ended' \in Seq(Kept) /\ Len(ended') = Len(ended) /\ DOMAIN ended' = DOMAIN ended
      /\ \A j \in DOMAIN ended : ended'[j].id = ended[j].id
  BY <1>2, <1>4
<1>6. StateTypes'
  BY <1>1, <1>5 DEF WholeInv, StateTypes
<1>7. \A j : Passes!Id(j)' = Passes!Id(j)
  BY <1>1 DEF Passes!Id
<1>8. EndedBook'
  BY <1>1, <1>5, <1>7 DEF WholeInv, EndedBook
<1>9. StateBook'
  <2>1. [Passes!Next]_(Passes!vars)
    BY DEF Passes!Next
  <2>2. QED BY <1>1, <2>1, StatesStand DEF StateBook
<1>10. QED BY <1>1, <1>6, <1>8, <1>9 DEF WholeInv, Passes!ConvergedIsWhole

(* The states of repaired originals go, the repairs' own come.              *)
LEMMA CombineKeeps ==
    ASSUME Passes!ConvergenceAssumption, RepairInv, WholeInv, phase = "repairing"
    PROVE  /\ Passes!Combine \in Seq(Kept)
           /\ \A n \in DOMAIN Passes!Combine :
                 \/ \E i \in DOMAIN states : Passes!Combine[n] = states[i]
                 \/ \E i \in DOMAIN ended : Passes!Combine[n] = ended[i]
           /\ \A i \in DOMAIN ended : \E n \in DOMAIN Passes!Combine :
                 Passes!Combine[n] = ended[i]
           /\ \A i \in DOMAIN states :
                 \/ \E n \in DOMAIN Passes!Combine : Passes!Combine[n] = states[i]
                 \/ \E j \in DOMAIN ended :
                       states[i].id = Passes!Plain(Passes!Source(repairs[j]))
<1> DEFINE repaired == {Passes!Source(repairs[i]) : i \in
                           {j \in DOMAIN ended : ended[j].status = "COMPLETED"}}
           kept == {i \in DOMAIN states : \A t \in repaired : states[i].id # Passes!Plain(t)}
           front == Select(states, kept)
           all == Passes!Combine
<1>1. all = front \o ended
  BY PassesSelect DEF Passes!Combine, Passes!EndedRepairs
<1>2. states \in Seq(Kept) /\ ended \in Seq(Kept)
  BY DEF WholeInv, StateTypes
<1>3. \A i \in DOMAIN states \ kept : \E j \in DOMAIN ended :
         states[i].id = Passes!Plain(Passes!Source(repairs[j]))
  OBVIOUS
<1>4. kept \in SUBSET DOMAIN states
  OBVIOUS
<1> HIDE DEF kept
<1>5. /\ front \in Seq(Kept) /\ Len(front) = Cardinality(kept)
      /\ \A n \in 1..Cardinality(kept) :
            Ascending(kept)[n] \in kept /\ front[n] = states[Ascending(kept)[n]]
      /\ \A i \in kept :
            Place(kept, i) \in 1..Cardinality(kept) /\ front[Place(kept, i)] = states[i]
  BY <1>2, <1>4, SelectKeeps
<1> HIDE DEF front, all
<1>6. /\ all \in Seq(Kept) /\ Len(front) \in Nat /\ Len(ended) \in Nat
      /\ Len(all) = Len(front) + Len(ended)
      /\ \A n \in 1..Len(front) : all[n] = front[n]
      /\ \A n \in 1..Len(ended) : all[Len(front) + n] = ended[n]
  <2>1. front \in Seq(Kept) /\ ended \in Seq(Kept)
    BY <1>2, <1>5
  <2>2. QED BY <1>1, <2>1, JoinIs
<1>7. DOMAIN all = 1..(Len(front) + Len(ended)) /\ DOMAIN ended = 1..Len(ended)
  BY <1>2, <1>6
<1>8. ASSUME NEW n \in DOMAIN all
      PROVE  \/ \E i \in DOMAIN states : all[n] = states[i]
             \/ \E i \in DOMAIN ended : all[n] = ended[i]
  <2>1. CASE n <= Len(front)
    <3>1. n \in 1..Len(front)
      BY <1>6, <1>7, <2>1
    <3>2. all[n] = states[Ascending(kept)[n]] /\ Ascending(kept)[n] \in DOMAIN states
      BY <1>4, <1>5, <1>6, <3>1
    <3>3. QED BY <3>2
  <2>2. CASE ~ n <= Len(front)
    <3>1. n - Len(front) \in 1..Len(ended) /\ Len(front) + (n - Len(front)) = n
      BY <1>6, <1>7, <2>2
    <3>2. all[n] = ended[n - Len(front)]
      BY <1>6, <3>1
    <3>3. QED BY <1>7, <3>1, <3>2
  <2>3. QED BY <2>1, <2>2
<1>9. ASSUME NEW i \in DOMAIN ended PROVE \E n \in DOMAIN all : all[n] = ended[i]
  <2>1. Len(front) + i \in DOMAIN all
    BY <1>6, <1>7
  <2>2. QED BY <1>6, <1>7, <2>1
<1>10. ASSUME NEW i \in DOMAIN states
       PROVE  \/ \E n \in DOMAIN all : all[n] = states[i]
              \/ \E j \in DOMAIN ended :
                    states[i].id = Passes!Plain(Passes!Source(repairs[j]))
  <2>1. CASE i \in kept
    <3>1. Place(kept, i) \in 1..Len(front) /\ front[Place(kept, i)] = states[i]
      BY <1>5, <2>1
    <3>2. Place(kept, i) \in DOMAIN all /\ all[Place(kept, i)] = states[i]
      BY <1>6, <1>7, <3>1
    <3>3. QED BY <3>2
  <2>2. CASE i \notin kept
    BY <1>3, <2>2
  <2>3. QED BY <2>1, <2>2
<1>11. QED BY <1>6, <1>8, <1>9, <1>10 DEF all

LEMMA ReviewIsWhole ==
    Passes!ConvergenceAssumption /\ RepairInv /\ WholeInv /\ Passes!ReviewRepairs => WholeInv'
<1> SUFFICES ASSUME Passes!ConvergenceAssumption, RepairInv, WholeInv, Passes!ReviewRepairs
             PROVE  WholeInv'
  OBVIOUS
<1> DEFINE all == Passes!Combine
<1>1. /\ phase = "repairing" /\ phase' = "evaluating" /\ pass' = pass + 1 /\ states' = all
      /\ process' = process /\ blocked' = blocked /\ found' = found /\ spec' = spec
      /\ repairs' = <<>> /\ ended' = <<>> /\ history' = Append(history, Len(ended))
  BY DEF Passes!ReviewRepairs, Passes!journal
<1>2. /\ all \in Seq(Kept)
      /\ \A n \in DOMAIN all : \/ \E i \in DOMAIN states : all[n] = states[i]
                               \/ \E i \in DOMAIN ended : all[n] = ended[i]
      /\ \A i \in DOMAIN ended : \E n \in DOMAIN all : all[n] = ended[i]
      /\ \A i \in DOMAIN states :
            \/ \E n \in DOMAIN all : all[n] = states[i]
            \/ \E j \in DOMAIN ended : states[i].id = Passes!Plain(Passes!Source(repairs[j]))
  BY <1>1, CombineKeeps
<1> HIDE DEF all
<1>3. /\ pass < MaxPasses /\ pass \in Nat
      /\ \A i \in DOMAIN ended :
            /\ i \in 1..MaxRepairs /\ ended[i].id = Passes!Id(i)
            /\ Passes!Id(i) \in Passes!RepairId
            /\ spec[Passes!Id(i)].status # "unknown" /\ spec[Passes!Id(i)].gap = repairs[i]
  <2>1. /\ pass < MaxPasses /\ pass \in Nat
        /\ \A i \in DOMAIN ended :
              /\ i \in 1..MaxRepairs /\ ended[i].id = Passes!Id(i)
              /\ spec[Passes!Id(i)].status # "unknown" /\ spec[Passes!Id(i)].gap = repairs[i]
    <3>1. pass < MaxPasses /\ pass \in Nat /\ DOMAIN ended \subseteq 1..MaxRepairs
      BY <1>1 DEF RepairInv, PassTypes, RepairBook
    <3>2. \A i \in DOMAIN ended :
             spec[Passes!Id(i)].status # "unknown" /\ spec[Passes!Id(i)].gap = repairs[i]
      BY <1>1 DEF RepairInv, RepairBook
    <3>3. \A i \in DOMAIN ended : ended[i].id = Passes!Id(i)
      BY <1>1 DEF WholeInv, EndedBook
    <3>4. QED BY <3>1, <3>2, <3>3
  <2>2. QED BY <2>1, IdIsRepair DEF RepairInv
<1>4. review'.evidence \in Opinion /\ review'.targets \in Seq(Target)
  <2>1. PICK evidence \in Evidence,
             targets \in {<<>>, <<Passes!Plain(Tasks[1])>>, <<Passes!Id(1)>>} :
           review' = [targets |-> targets, evidence |-> evidence]
    BY DEF Passes!ReviewRepairs
  <2>2. Passes!Plain(Tasks[1]) \in Target
    <3>1. 1 \in 1..Len(Tasks)
      BY DEF Passes!ConvergenceAssumption
    <3>2. QED BY <3>1 DEF Target, Passes!Task
  <2>3. Passes!Id(1) \in Target
    BY <1>3 DEF Target, Passes!Id
  <2>4. targets \in Seq(Target)
    <3>1. /\ <<>> \in Seq(Target) /\ <<Passes!Plain(Tasks[1])>> \in Seq(Target)
          /\ <<Passes!Id(1)>> \in Seq(Target)
      BY <2>2, <2>3
    <3>2. QED BY <3>1
  <2>5. review'.evidence = evidence /\ review'.targets = targets
    BY <2>1
  <2>6. QED BY <2>4, <2>5 DEF Opinion
<1>5. /\ history \in Seq(Nat) /\ Len(history) = pass /\ Len(ended) \in Nat
      /\ DOMAIN ended = 1..Len(ended)
  BY DEF WholeInv, StateTypes
<1>6. /\ history' \in Seq(Nat) /\ Len(history') = pass + 1
      /\ DOMAIN history' = 1..(pass + 1) /\ DOMAIN history = 1..pass
      /\ \A p \in 1..pass : history'[p] = history[p]
      /\ history'[pass + 1] = Len(ended)
  BY <1>1, <1>3, <1>5
<1>7. <<>> \in Seq(Kept) /\ Len(<<>>) = 0
  OBVIOUS
<1>8. StateTypes'
  BY <1>1, <1>2, <1>4, <1>6, <1>7 DEF WholeInv, StateTypes
<1>9. \A i \in DOMAIN states : states[i].id \in Passes!RepairId =>
         /\ spec[states[i].id].status # "unknown"
         /\ \E n \in DOMAIN all : all[n] = states[i]
  <2>1. \A i \in DOMAIN states :
           states[i].id \in Passes!RepairId => spec[states[i].id].status # "unknown"
    BY <1>1 DEF WholeInv, StateBook
  <2>2. QED BY <1>2, <2>1, PlainIsNoRepair
<1>10. \A n \in DOMAIN all :
          all[n].id \in Passes!RepairId => spec[all[n].id].status # "unknown"
  BY <1>2, <1>3, <1>9
<1>11. ASSUME NEW p \in DOMAIN history', NEW j \in 1..history'[p]
       PROVE  \E n \in DOMAIN all : all[n].id = <<p, j>>
  <2>1. CASE p \in 1..pass
    <3>1. PICK i \in DOMAIN states : states[i].id = <<p, j>>
      BY <1>1, <1>6, <2>1 DEF WholeInv, StateBook
    <3>2. <<p, j>> \in Ids
      <4>1. states[i] \in Kept
        BY DEF WholeInv, StateTypes
      <4>2. QED BY <3>1, <4>1 DEF Kept
    <3>3. p # 0
      BY <1>3, <2>1
    <3>4. <<p, j>> \in Passes!RepairId
      BY <3>2, <3>3 DEF Ids, Passes!Plain
    <3>5. PICK n \in DOMAIN all : all[n] = states[i]
      BY <1>9, <3>1, <3>4
    <3>6. QED BY <3>1, <3>5
  <2>2. CASE p = pass + 1
    <3>1. j \in DOMAIN ended
      BY <1>5, <1>6, <2>2
    <3>2. ended[j].id = <<p, j>>
      BY <1>3, <2>2, <3>1 DEF Passes!Id
    <3>3. QED BY <1>2, <3>1, <3>2
  <2>3. QED BY <1>3, <1>6, <2>1, <2>2
<1>12. ASSUME NEW t \in Passes!Task
       PROVE  \E n \in DOMAIN all : OfTask(all[n].id, t, spec)
  <2>1. PICK i \in DOMAIN states : OfTask(states[i].id, t, spec)
    BY <1>1 DEF WholeInv, StateBook
  <2>2. CASE \E n \in DOMAIN all : all[n] = states[i]
    BY <2>1, <2>2
  <2>3. CASE \E j \in DOMAIN ended :
                states[i].id = Passes!Plain(Passes!Source(repairs[j]))
    <3>1. PICK j \in DOMAIN ended :
             states[i].id = Passes!Plain(Passes!Source(repairs[j]))
      BY <2>3
    <3>2. states[i].id = Passes!Plain(t)
      BY <2>1, <3>1, PlainIsNoRepair DEF OfTask
    <3>3. Passes!Source(repairs[j]) = t
      BY <3>1, <3>2 DEF Passes!Plain
    <3>4. OfTask(ended[j].id, t, spec)
      BY <1>3, <3>3 DEF OfTask
    <3>5. QED BY <1>2, <3>4
  <2>4. QED BY <1>2, <2>2, <2>3
<1>13. StateBook'
  BY <1>1, <1>10, <1>11, <1>12 DEF StateBook
<1>14. QED BY <1>1, <1>8, <1>13 DEF WholeInv, EndedBook, Passes!ConvergedIsWhole

LEMMA StoppingIsWhole ==
    ASSUME WholeInv, Passes!Crash \/ Passes!Finish \/ UNCHANGED Passes!vars
    PROVE  WholeInv'
<1>1. /\ process' = process /\ pass' = pass /\ states' = states /\ review' = review
      /\ blocked' = blocked /\ repairs' = repairs /\ ended' = ended /\ history' = history
      /\ found' = found /\ spec' = spec /\ (phase' = "ended" \/ phase' = phase)
  BY DEF Passes!Crash, Passes!Finish, Passes!vars, Passes!run, Passes!journal
<1>2. StateTypes'
  BY <1>1 DEF WholeInv, StateTypes
<1>3. \A i : Passes!Id(i)' = Passes!Id(i)
  BY <1>1 DEF Passes!Id
<1>4. EndedBook' /\ StateBook' /\ Passes!ConvergedIsWhole'
  <2>1. CASE phase' = "ended"
    BY <2>1 DEF EndedBook, StateBook, Passes!ConvergedIsWhole
  <2>2. CASE phase' = phase
    BY <1>1, <1>3, <2>2 DEF WholeInv, EndedBook, StateBook, Passes!ConvergedIsWhole
  <2>3. QED BY <1>1, <2>1, <2>2
<1>5. QED BY <1>2, <1>4 DEF WholeInv

(* A run that has converged has completed every repair that it began, keeps *)
(* a result of, or for, every task, and none that speaks against a          *)
(* criterion, for any plan, any criteria and any number of passes; and the  *)
(* runner stays within its types.  (ConvergenceRunner.run.)                 *)
THEOREM WholeConvergence ==
    Passes!ConvergenceAssumption =>
        (Passes!Spec => [](Passes!ConvergedIsWhole /\ Passes!TypeOK))
<1> SUFFICES ASSUME Passes!ConvergenceAssumption
             PROVE  Passes!Spec => [](Passes!ConvergedIsWhole /\ Passes!TypeOK)
  OBVIOUS
<1>1. Passes!Init => WholeInv
  BY WholeStart
<1>2. RepairInv /\ WholeInv /\ [Passes!Next]_(Passes!vars) => WholeInv'
  BY BeginIsWhole, EvaluateIsWhole, MovingIsWhole, ReviewIsWhole, StoppingIsWhole
     DEF Passes!Next
<1>3. RepairInv /\ WholeInv => Passes!ConvergedIsWhole /\ Passes!TypeOK
  <2> SUFFICES ASSUME RepairInv, WholeInv PROVE Passes!TypeOK
    BY DEF WholeInv
  <2>1. ASSUME NEW s \in Passes!Range(states) \cup Passes!Range(ended)
        PROVE  s.id \in Ids /\ s.status \in Status /\ s.evidence \in Opinion
    <3>1. s \in Kept
      BY DEF WholeInv, StateTypes, Passes!Range
    <3>2. QED BY <3>1 DEF Kept
  <2>2. /\ phase \in {"ended", "evaluating", "repairing", "converged"}
        /\ process \in 0..MaxProcesses /\ pass \in 0..MaxPasses /\ blocked \in BOOLEAN
        /\ review.evidence \in Opinion /\ Len(repairs) = Len(ended) /\ Len(history) = pass
        /\ found = <<>> \/ found \in [1..Len(Tasks) -> Evidence]
    BY DEF WholeInv, StateTypes, RepairInv, PassTypes
  <2>3. \A id \in Passes!RepairId :
           spec[id].status \in Durable /\ result[id].evidence \in Opinion
    BY DEF RepairInv, PassTypes
  <2>4. QED BY <2>1, <2>2, <2>3 DEF Passes!TypeOK, Ids, Status, Opinion, Durable
<1>4. QED BY <1>1, <1>2, <1>3, RepairInvariant, PTL DEF Passes!Spec

-----------------------------------------------------------------------------
(* The index of the source files.  Quiet: no thread has outlived its caller *)
(* since the last build that is complete, or that has begun after its end.  *)

Quiet == overtaken # "yes"
Working == {"scan", "publish", "prune", "done"}
Snap(c) == [at |-> run[c].stamp, of |-> run[c].of]

(* Who works holds the lock; the stray thread works without it.             *)
CallerBook ==
    /\ \A c \in Index!Caller : run[c].at \in Working <=> lock = c
    /\ \A k \in Writer : run[k].at # "idle" => run[k].path \in Path
    /\ \A k \in Writer : run[k].at = "scan" => run[k].todo = {run[k].path}
    /\ run[Explorer].path = Nothing /\ run[Explorer].shared = FALSE
    /\ run[Stray].at \in {"idle", "scan", "publish", "prune"}
    /\ Quiet => run[Stray].at = "idle"
    /\ since \subseteq unsynced
    /\ run[Explorer].at = "exploring" => index # Nothing

(* Snapshots are dated in the order in which they are published, and the    *)
(* one published is the one a later process would load.                     *)
Newest(s) ==
    s \in Index!Cached /\ \A o \in Index!Cached : o = s \/ o.at < s.at

StampBook ==
    /\ \A s \in Index!Cached : s.at <= stamp
    /\ \A c \in Index!Caller \cup {Stray} : run[c].stamp <= stamp
    /\ Quiet => \A c \in Index!Caller :
          /\ run[c].at = "publish" => \A s \in Index!Cached : s.at < run[c].stamp
          /\ run[c].at = "prune" => Newest(Snap(c))
    /\ Quiet /\ run[Explorer].at = "done" => Index!Loaded = run[Explorer].of

(* What a build has looked at is as it is, unless it changed meanwhile.     *)
BuildBook ==
    run[Explorer].at \in Working =>
        /\ \A p \in Path : p \notin run[Explorer].todo /\ p \notin since =>
              run[Explorer].of[p] = sourceFile[p]
        /\ run[Explorer].at # "scan" => run[Explorer].todo = {}

(* A sync starts from what is known and cached, and corrects one path.      *)
SyncBook ==
    \A k \in Writer :
        /\ run[k].at \in Working => \A p \in Path \ unsynced : run[k].of[p] = sourceFile[p]
        /\ run[k].at \in {"publish", "prune", "done"} /\ run[k].path \notin since =>
              run[k].of[run[k].path] = sourceFile[run[k].path]
        /\ run[k].at = "scan" =>
              run[k].of = Index!Loaded /\ (run[k].shared => index # Nothing)
        /\ run[k].at = "done" =>
              run[k].of = Index!Loaded /\ (run[k].shared => index = run[k].of)

(* Memory and the newest cache agree, but for what is about to be taken     *)
(* over, and are right about the files that did not change.                 *)
KnownBook ==
    /\ \A p \in Path \ unsynced : Index!Loaded[p] = sourceFile[p]
    /\ index # Nothing => \A p \in Path \ unsynced : index[p] = sourceFile[p]
    /\ (\A c \in Index!Caller : run[c].at \notin {"prune", "done"}) /\ index # Nothing =>
          index = Index!Loaded

CalmBook == overtaken = "no" => SyncBook /\ KnownBook

IndexInv ==
    Index!TypeOK /\ CallerBook /\ StampBook /\ BuildBook /\ CalmBook

LEMMA LoadedIsRecords ==
    ASSUME Index!IndexAssumption, Index!TypeOK
    PROVE  Index!Loaded \in Index!Records
<1>1. Index!Cached \subseteq Index!Snapshot
  BY DEF Index!Cached, Index!TypeOK
<1>2. CASE Index!Cached = {}
  BY <1>2 DEF Index!Loaded, Index!NoRecords, Index!Records
<1>3. CASE Index!Cached # {}
  <2> DEFINE S == {s.at : s \in Index!Cached}
  <2>1. S \in SUBSET (0..MaxUpdate) /\ S # {} /\ MaxUpdate \in Nat
    BY <1>1, <1>3 DEF Index!Snapshot, Index!IndexAssumption
  <2>2. PICK x \in S : \A y \in S : y <= x
    BY <2>1, Latest
  <2>3. \E s \in Index!Cached : \A o \in Index!Cached : o.at <= s.at
    BY <2>2
  <2>4. (CHOOSE s \in Index!Cached : \A o \in Index!Cached : o.at <= s.at) \in Index!Cached
    BY <2>3
  <2>5. QED BY <1>1, <1>3, <2>4 DEF Index!Loaded, Index!Snapshot
<1>4. QED BY <1>2, <1>3

LEMMA IndexStart == Index!IndexAssumption /\ Index!Init => IndexInv
<1> SUFFICES ASSUME Index!IndexAssumption, Index!Init PROVE IndexInv
  OBVIOUS
<1>1. /\ sourceFile = Index!NoRecords /\ primary = Nothing /\ spare = {} /\ stamp = 0
      /\ index = Nothing /\ lock = Nothing /\ report = Nothing
      /\ unsynced = {} /\ since = {} /\ overtaken = "no"
      /\ run = [c \in Index!Caller \cup {Stray} |-> Index!Idle]
  BY DEF Index!Init
<1>2. /\ Index!NoRecords \in Index!Records /\ 0 \in 0..MaxUpdate
  BY DEF Index!NoRecords, Index!Records, Index!IndexAssumption
<1>3. Index!Idle \in Index!Run
  BY <1>2 DEF Index!Idle, Index!Run
<1>4. \A c \in Index!Caller \cup {Stray} : run[c] = Index!Idle
  BY <1>1
<1>5. Index!TypeOK
  BY <1>1, <1>2, <1>3 DEF Index!TypeOK
<1>6. /\ Index!Idle.at = "idle" /\ Index!Idle.path = Nothing
      /\ Index!Idle.shared = FALSE /\ Index!Idle.stamp = 0
  BY DEF Index!Idle
<1>7. Explorer \in Index!Caller /\ \A k \in Writer : k \in Index!Caller
  BY DEF Index!Caller
<1>8. CallerBook
  BY <1>1, <1>4, <1>6, <1>7 DEF CallerBook, Quiet, Working, Index!IndexAssumption
<1>9. Index!Cached = {} /\ Index!Loaded = sourceFile
  BY <1>1 DEF Index!Cached, Index!Loaded
<1>10. StampBook /\ BuildBook
  BY <1>1, <1>4, <1>6, <1>7, <1>9 DEF StampBook, BuildBook, Working
<1>11. CalmBook
  BY <1>1, <1>4, <1>6, <1>7, <1>9 DEF CalmBook, SyncBook, KnownBook, Working
<1>12. QED BY <1>5, <1>8, <1>10, <1>11 DEF IndexInv


(* A step in which nobody begins or ends an update, and a file that changes *)
(* is remembered as changed.                                                *)
Stands(c) ==
    /\ c \in Index!Caller
    /\ run[c].at \notin Working /\ run'[c].at \notin Working
    /\ run'[c].stamp <= stamp
    /\ c \in Writer => run'[c].at = "idle" \/ run'[c].path \in Path
    /\ c = Explorer => run'[c].path = Nothing /\ run'[c].shared = FALSE
    /\ run'[c].at = "exploring" => c = Explorer /\ index # Nothing

LEMMA Aside ==
    ASSUME Index!IndexAssumption, IndexInv,
           run' \in [Index!Caller \cup {Stray} -> Index!Run],
           \A c \in Index!Caller \cup {Stray} : run'[c] = run[c] \/ Stands(c),
           sourceFile' \in Index!Records,
           unsynced \subseteq unsynced', unsynced' \subseteq Path,
           since \subseteq since', since' \subseteq unsynced',
           \A p \in Path : sourceFile'[p] = sourceFile[p]
                             \/ (p \in unsynced' /\ (lock # Nothing => p \in since')),
           report' = Nothing \/ DOMAIN report' \subseteq Path,
           UNCHANGED <<primary, spare, stamp, index, lock, overtaken>>
    PROVE  IndexInv'
<1>1. /\ Explorer \in Index!Caller /\ \A k \in Writer : k \in Index!Caller /\ k # Explorer
      /\ Stray \notin Index!Caller /\ Nothing \notin Index!Caller
  BY DEF Index!Caller, Index!IndexAssumption
<1>2. Index!TypeOK /\ CallerBook /\ StampBook /\ BuildBook /\ CalmBook
  BY DEF IndexInv
<1>3. Index!TypeOK'
  BY <1>2 DEF Index!TypeOK
<1>4. Index!Cached' = Index!Cached /\ Index!Loaded' = Index!Loaded
  BY DEF Index!Cached, Index!Loaded
<1>5. \A c \in Index!Caller : run'[c].at \in Working \/ run[c].at \in Working => run'[c] = run[c] /\ lock = c
  BY <1>2 DEF CallerBook, Stands
<1>6. run'[Stray] = run[Stray]
  BY <1>1 DEF Stands
<1>7. CallerBook'
  <2>1. \A c \in Index!Caller : run'[c].at \in Working <=> lock' = c
    BY <1>2, <1>5 DEF CallerBook
  <2>2. \A k \in Writer : run'[k].at # "idle" => run'[k].path \in Path
    BY <1>1, <1>2 DEF CallerBook, Stands
  <2>3. \A k \in Writer : run'[k].at = "scan" => run'[k].todo = {run'[k].path}
    BY <1>1, <1>2, <1>5 DEF CallerBook, Working
  <2>4. run'[Explorer].path = Nothing /\ run'[Explorer].shared = FALSE
    BY <1>1, <1>2 DEF CallerBook, Stands
  <2>5. run'[Explorer].at = "exploring" => index' # Nothing
    BY <1>1, <1>2 DEF CallerBook, Stands
  <2>6. QED BY <1>2, <1>6, <2>1, <2>2, <2>3, <2>4, <2>5 DEF CallerBook, Quiet
<1>8. StampBook'
  <2>1. \A c \in Index!Caller \cup {Stray} : run'[c].stamp <= stamp'
    BY <1>2 DEF StampBook, Stands
  <2>2. ASSUME Quiet', NEW c \in Index!Caller
        PROVE  /\ run'[c].at = "publish" => \A s \in Index!Cached' : s.at < run'[c].stamp
               /\ run'[c].at = "prune" => Newest(Snap(c))'
    BY <1>2, <1>4, <1>5, <2>2 DEF StampBook, Quiet, Working, Newest, Snap
  <2>3. Quiet' /\ run'[Explorer].at = "done" => Index!Loaded' = run'[Explorer].of
    BY <1>1, <1>2, <1>4, <1>5 DEF StampBook, Quiet, Working
  <2>4. QED BY <1>2, <1>4, <2>1, <2>2, <2>3 DEF StampBook
<1>9. BuildBook'
  <2>1. ASSUME run'[Explorer].at \in Working PROVE run'[Explorer] = run[Explorer] /\ lock # Nothing
    BY <1>1, <1>5, <2>1
  <2>2. QED BY <1>1, <1>2, <2>1 DEF BuildBook
<1>10. CalmBook'
  <2>1. SUFFICES ASSUME overtaken = "no" PROVE SyncBook' /\ KnownBook'
    BY DEF CalmBook
  <2>2. SyncBook /\ KnownBook
    BY <1>2, <2>1 DEF CalmBook
  <2>3. ASSUME NEW k \in Writer, run'[k].at \in Working
        PROVE  run'[k] = run[k] /\ lock # Nothing
    BY <1>1, <1>5, <2>3
  <2>4. SyncBook'
    <3>1. ASSUME NEW k \in Writer, run'[k].at \in Working
          PROVE  \A p \in Path \ unsynced' : run'[k].of[p] = sourceFile'[p]
      BY <2>2, <2>3, <3>1 DEF SyncBook
    <3>2. ASSUME NEW k \in Writer, run'[k].at \in {"publish", "prune", "done"},
                 run'[k].path \notin since'
          PROVE  run'[k].of[run'[k].path] = sourceFile'[run'[k].path]
      <4>1. run'[k] = run[k] /\ lock # Nothing
        BY <2>3, <3>2 DEF Working
      <4>2. run[k].path \in Path
        BY <1>2, <3>2, <4>1 DEF CallerBook
      <4>3. QED BY <2>2, <3>2, <4>1, <4>2 DEF SyncBook
    <3>3. ASSUME NEW k \in Writer, run'[k].at \in {"scan", "done"}
          PROVE  run'[k] = run[k]
      BY <2>3, <3>3 DEF Working
    <3>4. QED BY <1>4, <2>2, <3>1, <3>2, <3>3 DEF SyncBook
  <2>5. KnownBook'
    <3>1. (\A c \in Index!Caller : run'[c].at \notin {"prune", "done"})
             => \A c \in Index!Caller : run[c].at \notin {"prune", "done"}
      BY <1>5 DEF Working
    <3>2. QED BY <1>4, <2>2, <3>1 DEF KnownBook
  <2>6. QED BY <2>4, <2>5
<1>11. QED BY <1>3, <1>7, <1>8, <1>9, <1>10 DEF IndexInv

LEMMA IdleRuns ==
    ASSUME Index!IndexAssumption
    PROVE  /\ Index!Idle \in Index!Run
           /\ Index!Idle.at = "idle" /\ Index!Idle.path = Nothing
           /\ Index!Idle.shared = FALSE /\ Index!Idle.stamp = 0
<1>1. Index!NoRecords \in Index!Records /\ 0 \in 0..MaxUpdate
  BY DEF Index!NoRecords, Index!Records, Index!IndexAssumption
<1>2. QED BY <1>1 DEF Index!Idle, Index!Run

(* Index!Edit, Index!Write, Index!Explore, the end of an exploration, and a *)
(* caller that gives up.                                                    *)
LEMMA NobodyUpdates ==
    ASSUME Index!IndexAssumption, IndexInv,
           \/ \E p \in Path, t \in Text \cup {Nothing} : Index!Edit(p, t)
           \/ \E k \in Writer, p \in Path, t \in Text : Index!Write(k, p, t)
           \/ Index!Explore
           \/ Index!Reuse
           \/ \E scope \in SUBSET Path : Index!Report(scope)
    PROVE  IndexInv'
<1>1. Index!TypeOK /\ CallerBook /\ StampBook
  BY DEF IndexInv
<1>2. /\ run \in [Index!Caller \cup {Stray} -> Index!Run] /\ stamp \in Nat
      /\ sourceFile \in Index!Records /\ unsynced \subseteq Path /\ since \subseteq unsynced
      /\ report = Nothing \/ DOMAIN report \subseteq Path
  BY <1>1 DEF Index!TypeOK, CallerBook, Index!IndexAssumption
<1>3. /\ Explorer \in Index!Caller /\ \A k \in Writer : k \in Index!Caller /\ k # Explorer
      /\ Stray \notin Index!Caller
  BY DEF Index!Caller, Index!IndexAssumption
<1>4. ASSUME NEW p \in Path, NEW t \in Text \cup {Nothing}, Index!Change(p, t)
      PROVE  /\ sourceFile' \in Index!Records
             /\ unsynced \subseteq unsynced' /\ unsynced' \subseteq Path
             /\ since \subseteq since' /\ since' \subseteq unsynced'
             /\ \A q \in Path : sourceFile'[q] = sourceFile[q]
                                  \/ (q \in unsynced' /\ (lock # Nothing => q \in since'))
  BY <1>2, <1>4 DEF Index!Change, Index!Records
<1>5. CASE \E p \in Path, t \in Text \cup {Nothing} : Index!Edit(p, t)
  <2>1. PICK p \in Path, t \in Text \cup {Nothing} : Index!Edit(p, t)
    BY <1>5
  <2>2. /\ Index!Change(p, t) /\ overtaken' = overtaken
        /\ UNCHANGED <<primary, spare, stamp, index, lock, run, report>>
    BY <2>1 DEF Index!Edit, Index!Change, Index!cache
  <2>3. QED BY <1>2, <1>4, <2>2, Aside
<1>6. CASE \E k \in Writer, p \in Path, t \in Text : Index!Write(k, p, t)
  <2>1. PICK k \in Writer, p \in Path, t \in Text : Index!Write(k, p, t)
    BY <1>6
  <2> DEFINE r == [Index!Idle EXCEPT !.at = "waiting", !.path = p]
  <2>2. /\ Index!Change(p, t) /\ overtaken' = overtaken
        /\ UNCHANGED <<primary, spare, stamp, index, lock, report>>
        /\ run' = [run EXCEPT ![k] = r] /\ run[k].at = "idle"
    BY <2>1 DEF Index!Write, Index!Change, Index!cache
  <2>3. r \in Index!Run /\ r.at = "waiting" /\ r.path = p /\ r.stamp = 0
    BY IdleRuns DEF Index!Run
  <2> HIDE DEF r
  <2>4. /\ run' \in [Index!Caller \cup {Stray} -> Index!Run] /\ run'[k] = r
        /\ \A c \in Index!Caller \cup {Stray} : c # k => run'[c] = run[c]
    BY <1>2, <1>3, <2>2, <2>3
  <2>5. Stands(k)
    BY <1>2, <1>3, <2>2, <2>3, <2>4 DEF Stands, Working
  <2>6. QED BY <1>2, <1>4, <2>2, <2>4, <2>5, Aside
<1>7. CASE Index!Explore
  <2>1. /\ UNCHANGED <<sourceFile, primary, spare, stamp, index, lock, report, unsynced, since, overtaken>>
        /\ run' = [run EXCEPT ![Explorer].at = "waiting"] /\ run[Explorer].at = "idle"
    BY <1>3, <1>7 DEF Index!Explore, Index!Goto, Index!cache, Index!watched
  <2>2. /\ run' \in [Index!Caller \cup {Stray} -> Index!Run]
        /\ run'[Explorer] = [run[Explorer] EXCEPT !.at = "waiting"]
        /\ \A c \in Index!Caller \cup {Stray} : c # Explorer => run'[c] = run[c]
    BY <1>2, <1>3, <2>1 DEF Index!Run
  <2>3. run[Explorer] \in Index!Run
    BY <1>2, <1>3
  <2>4. /\ run'[Explorer].at = "waiting" /\ run'[Explorer].stamp = run[Explorer].stamp
        /\ run'[Explorer].path = run[Explorer].path /\ run'[Explorer].shared = run[Explorer].shared
    BY <2>2, <2>3 DEF Index!Run
  <2>5. Stands(Explorer)
    BY <1>1, <1>3, <2>1, <2>4 DEF Stands, Working, CallerBook, StampBook, Index!IndexAssumption
  <2>6. QED BY <1>2, <2>1, <2>2, <2>5, Aside
<1>8. CASE Index!Reuse \/ \E scope \in SUBSET Path : Index!Report(scope)
  <2>1. /\ UNCHANGED <<sourceFile, primary, spare, stamp, index, lock, unsynced, since, overtaken>>
        /\ run' = [run EXCEPT ![Explorer] = Index!Idle] /\ run[Explorer].at = "exploring"
        /\ report' = Nothing \/ DOMAIN report' \subseteq Path
    BY <1>2, <1>8 DEF Index!Reuse, Index!Report, Index!cache, Index!watched
  <2>2. /\ run' \in [Index!Caller \cup {Stray} -> Index!Run] /\ run'[Explorer] = Index!Idle
        /\ \A c \in Index!Caller \cup {Stray} : c # Explorer => run'[c] = run[c]
    BY <1>2, <1>3, <2>1, IdleRuns
  <2>3. Stands(Explorer)
    <3>1. /\ run'[Explorer].at = "idle" /\ run'[Explorer].path = Nothing
          /\ run'[Explorer].shared = FALSE /\ run'[Explorer].stamp = 0
      BY <2>2, IdleRuns
    <3>2. 0 <= stamp
      BY <1>2
    <3>3. QED BY <1>3, <2>1, <3>1, <3>2 DEF Stands, Working
  <2>4. QED BY <1>2, <2>1, <2>2, <2>3, Aside
<1>9. QED BY <1>5, <1>6, <1>7, <1>8

(* A step after which nobody holds the lock: what is left to show is that   *)
(* memory and cache are right about the files.                              *)
LEMMA LockIsGivenBack ==
    ASSUME Index!IndexAssumption, IndexInv,
           run' \in [Index!Caller \cup {Stray} -> Index!Run],
           \A c \in Index!Caller : run'[c].at \notin Working,
           \A c \in Index!Caller \cup {Stray} : run'[c].stamp <= stamp,
           \A k \in Writer : run'[k].at # "idle" => run'[k].path \in Path,
           run'[Explorer].path = Nothing, run'[Explorer].shared = FALSE,
           run'[Explorer].at = "exploring" => index' # Nothing,
           run'[Stray].at \in {"idle", "scan", "publish", "prune"},
           overtaken' \in {"no", "yes", "ending"},
           overtaken' # "yes" => run'[Stray].at = "idle",
           index' \in Index!Records \cup {Nothing},
           lock' = Nothing, since' = {}, unsynced' \subseteq Path,
           UNCHANGED <<sourceFile, primary, spare, stamp, report>>,
           overtaken' = "no" => KnownBook'
    PROVE  IndexInv'
<1>1. /\ Explorer \in Index!Caller /\ \A k \in Writer : k \in Index!Caller
      /\ Nothing \notin Index!Caller
  BY DEF Index!Caller, Index!IndexAssumption
<1>2. Index!TypeOK /\ StampBook
  BY DEF IndexInv
<1>3. Index!TypeOK'
  BY <1>2 DEF Index!TypeOK
<1>4. CallerBook'
  <2>1. \A c \in Index!Caller : run'[c].at \in Working <=> lock' = c
    BY <1>1
  <2>2. \A k \in Writer : run'[k].at # "scan"
    BY <1>1 DEF Working
  <2>3. QED BY <2>1, <2>2 DEF CallerBook, Quiet
<1>5. StampBook'
  <2>1. Index!Cached' = Index!Cached
    BY DEF Index!Cached
  <2>2. \A c \in Index!Caller : run'[c].at \notin {"publish", "prune", "done"}
    BY DEF Working
  <2>3. QED BY <1>1, <1>2, <2>1, <2>2 DEF StampBook
<1>6. BuildBook'
  BY <1>1 DEF BuildBook
<1>7. CalmBook'
  <2>1. SyncBook'
    BY <1>1 DEF SyncBook, Working
  <2>2. QED BY <2>1 DEF CalmBook
<1>8. QED BY <1>3, <1>4, <1>5, <1>6, <1>7 DEF IndexInv

LEMMA RestartForgets ==
    ASSUME Index!IndexAssumption, IndexInv, Index!Restart
    PROVE  IndexInv'
<1>1. Index!TypeOK /\ CallerBook /\ StampBook /\ CalmBook
  BY DEF IndexInv
<1>2. /\ run \in [Index!Caller \cup {Stray} -> Index!Run] /\ stamp \in Nat
      /\ unsynced \subseteq Path /\ overtaken \in {"no", "yes", "ending"}
  BY <1>1 DEF Index!TypeOK, Index!IndexAssumption
<1>3. /\ UNCHANGED <<sourceFile, primary, spare, stamp, report, unsynced, overtaken>>
      /\ index' = Nothing /\ lock' = Nothing /\ since' = {}
      /\ run' = [c \in Index!Caller \cup {Stray} |-> Index!Idle]
  BY <1>2 DEF Index!Restart, Index!cache
<1>4. /\ run' \in [Index!Caller \cup {Stray} -> Index!Run]
      /\ \A c \in Index!Caller \cup {Stray} : run'[c] = Index!Idle
  BY <1>3, IdleRuns
<1>5. /\ Explorer \in Index!Caller /\ \A k \in Writer : k \in Index!Caller
  BY DEF Index!Caller
<1>6. Index!Loaded' = Index!Loaded
  BY <1>3 DEF Index!Cached, Index!Loaded
<1>7. overtaken' = "no" => KnownBook'
  BY <1>1, <1>3, <1>6 DEF CalmBook, KnownBook
<1>8. /\ \A c \in Index!Caller \cup {Stray} : run'[c].at = "idle" /\ run'[c].stamp = 0
      /\ run'[Explorer].path = Nothing /\ run'[Explorer].shared = FALSE
  BY <1>4, <1>5, IdleRuns
<1>9. 0 <= stamp
  BY <1>2
<1>10. QED BY <1>2, <1>3, <1>4, <1>5, <1>7, <1>8, <1>9, LockIsGivenBack DEF Working

(* A step of the thread that outlived its caller: what it does to memory   *)
(* and cache is what the books are silent about until it has ended.         *)
LEMMA StrayMoves ==
    ASSUME Index!IndexAssumption, IndexInv, ~ Quiet,
           run' \in [Index!Caller \cup {Stray} -> Index!Run],
           \A c \in Index!Caller : run'[c] = run[c],
           run'[Stray].at \in {"idle", "scan", "publish", "prune"},
           stamp' \in 0..MaxUpdate, stamp <= stamp', run'[Stray].stamp <= stamp',
           primary' \in Index!Snapshot \cup {Nothing}, spare' \subseteq Index!Snapshot,
           \A s \in Index!Cached' : s.at <= stamp',
           index' \in Index!Records \cup {Nothing},
           index # Nothing => index' # Nothing,
           UNCHANGED <<sourceFile, lock, report, unsynced, since, overtaken>>
    PROVE  IndexInv'
<1>1. Index!TypeOK /\ CallerBook /\ StampBook /\ BuildBook
  BY DEF IndexInv
<1>2. Explorer \in Index!Caller /\ \A k \in Writer : k \in Index!Caller
  BY DEF Index!Caller
<1>3. overtaken = "yes" /\ overtaken' = "yes"
  BY DEF Quiet
<1>4. Index!TypeOK'
  BY <1>1 DEF Index!TypeOK
<1>5. CallerBook'
  BY <1>1, <1>2, <1>3 DEF CallerBook, Quiet
<1>6. \A c \in Index!Caller \cup {Stray} : run'[c].stamp <= stamp'
  <2>1. \A c \in Index!Caller : run[c].stamp \in Int
    BY <1>1 DEF Index!TypeOK, Index!Run
  <2>2. stamp \in Int /\ stamp' \in Int
    BY <1>1 DEF Index!TypeOK
  <2>3. \A c \in Index!Caller : run[c].stamp <= stamp
    BY <1>1 DEF StampBook
  <2>4. QED BY <2>1, <2>2, <2>3
<1>7. StampBook'
  BY <1>3, <1>6 DEF StampBook, Quiet
<1>8. BuildBook'
  BY <1>1, <1>2 DEF BuildBook
<1>9. QED BY <1>3, <1>4, <1>5, <1>7, <1>8 DEF IndexInv, CalmBook

LEMMA WorksAlone ==
    ASSUME IndexInv, NEW c \in Index!Caller, run[c].at \in Working
    PROVE  lock = c /\ \A d \in Index!Caller : d # c => run[d].at \notin Working
BY DEF IndexInv, CallerBook

LEMMA FailureGivesBack ==
    ASSUME Index!IndexAssumption, IndexInv,
           NEW c \in Index!Caller \cup {Stray}, Index!Fail(c)
    PROVE  IndexInv'
<1>1. Index!TypeOK /\ CallerBook /\ StampBook /\ BuildBook /\ CalmBook
  BY DEF IndexInv
<1>2. /\ run \in [Index!Caller \cup {Stray} -> Index!Run] /\ stamp \in Nat
      /\ unsynced \subseteq Path /\ overtaken \in {"no", "yes", "ending"}
      /\ index \in Index!Records \cup {Nothing}
  BY <1>1 DEF Index!TypeOK, Index!IndexAssumption
<1>3. /\ Explorer \in Index!Caller /\ \A k \in Writer : k \in Index!Caller /\ k # Explorer
      /\ Stray \notin Index!Caller
  BY DEF Index!Caller, Index!IndexAssumption
<1>4. /\ UNCHANGED <<sourceFile, primary, spare, stamp, index, report, unsynced, overtaken>>
      /\ run' = [run EXCEPT ![c] = Index!Idle] /\ run[c].at \in {"scan", "publish"}
      /\ IF c = Stray THEN UNCHANGED <<lock, since>> ELSE lock' = Nothing /\ since' = {}
  BY DEF Index!Fail, Index!cache
<1>5. /\ run' \in [Index!Caller \cup {Stray} -> Index!Run] /\ run'[c] = Index!Idle
      /\ \A d \in Index!Caller \cup {Stray} : d # c => run'[d] = run[d]
  BY <1>2, <1>4, IdleRuns
<1>6. Index!Cached' = Index!Cached /\ Index!Loaded' = Index!Loaded
  BY <1>4 DEF Index!Cached, Index!Loaded
<1>7. /\ run'[c].at = "idle" /\ run'[c].path = Nothing
      /\ run'[c].shared = FALSE /\ run'[c].stamp = 0 /\ 0 <= stamp
  <2>1. 0 <= stamp
    BY <1>2
  <2>2. QED BY <1>5, <2>1, IdleRuns
<1>8. CASE c = Stray
  <2>1. UNCHANGED <<lock, since>> /\ \A d \in Index!Caller : run'[d] = run[d]
    BY <1>3, <1>4, <1>5, <1>8
  <2>2. ~ Quiet
    BY <1>1, <1>4, <1>8 DEF CallerBook
  <2>3. /\ stamp' \in 0..MaxUpdate /\ stamp <= stamp'
        /\ primary' \in Index!Snapshot \cup {Nothing} /\ spare' \subseteq Index!Snapshot
    BY <1>1, <1>2, <1>4 DEF Index!TypeOK
  <2>4. \A s \in Index!Cached' : s.at <= stamp'
    BY <1>1, <1>4, <1>6 DEF StampBook
  <2>5. QED BY <1>2, <1>4, <1>5, <1>7, <1>8, <2>1, <2>2, <2>3, <2>4, StrayMoves
<1>9. CASE c # Stray
  <2>1. c \in Index!Caller /\ lock = c /\ lock' = Nothing /\ since' = {}
    BY <1>1, <1>4, <1>9 DEF CallerBook, Working
  <2>2. \A d \in Index!Caller : run'[d].at \notin Working
    BY <1>1, <1>5, <1>7, <2>1 DEF CallerBook, Working
  <2>3. \A d \in Index!Caller \cup {Stray} : run'[d].stamp <= stamp
    BY <1>1, <1>5, <1>7 DEF StampBook
  <2>4. \A k \in Writer : run'[k].at # "idle" => run'[k].path \in Path
    BY <1>1, <1>3, <1>5, <1>7 DEF CallerBook
  <2>5. /\ run'[Explorer].path = Nothing /\ run'[Explorer].shared = FALSE
        /\ run'[Explorer].at = "exploring" => index' # Nothing
    BY <1>1, <1>3, <1>4, <1>5, <1>7 DEF CallerBook
  <2>6. /\ run'[Stray].at \in {"idle", "scan", "publish", "prune"}
        /\ overtaken' # "yes" => run'[Stray].at = "idle"
    BY <1>1, <1>4, <1>5, <1>9 DEF CallerBook, Quiet
  <2>7. \A d \in Index!Caller : run[d].at \notin {"prune", "done"}
    BY <1>1, <1>4, <2>1 DEF CallerBook, Working
  <2>8. overtaken' = "no" => KnownBook'
    BY <1>1, <1>4, <1>6, <2>7 DEF CalmBook, KnownBook
  <2>9. QED BY <1>2, <1>4, <1>5, <2>1, <2>2, <2>3, <2>4, <2>5, <2>6, <2>8, LockIsGivenBack
<1>10. QED BY <1>8, <1>9

LEMMA CancelledCallers ==
    ASSUME Index!IndexAssumption, IndexInv,
           NEW c \in Index!Caller, Index!Cancel(c)
    PROVE  IndexInv'
<1>1. Index!TypeOK /\ CallerBook /\ StampBook
  BY DEF IndexInv
<1>2. /\ run \in [Index!Caller \cup {Stray} -> Index!Run] /\ stamp \in Nat
      /\ unsynced \subseteq Path /\ index \in Index!Records \cup {Nothing}
      /\ sourceFile \in Index!Records /\ (report = Nothing \/ DOMAIN report \subseteq Path)
      /\ since \subseteq unsynced
  BY <1>1 DEF Index!TypeOK, CallerBook, Index!IndexAssumption
<1>3. /\ Explorer \in Index!Caller /\ \A k \in Writer : k \in Index!Caller /\ k # Explorer
      /\ Stray \notin Index!Caller
  BY DEF Index!Caller, Index!IndexAssumption
<1>4. CASE run[c].at = "waiting" /\ Index!Cancel(c)
  <2>1. /\ UNCHANGED <<sourceFile, primary, spare, stamp, index, lock, report, unsynced, since, overtaken>>
        /\ run' = [run EXCEPT ![c] = Index!Idle]
    BY <1>4 DEF Index!Cancel, Index!cache, Index!watched
  <2>2. /\ run' \in [Index!Caller \cup {Stray} -> Index!Run] /\ run'[c] = Index!Idle
        /\ \A d \in Index!Caller \cup {Stray} : d # c => run'[d] = run[d]
    BY <1>2, <2>1, IdleRuns
  <2>3. /\ run'[c].at = "idle" /\ run'[c].path = Nothing
        /\ run'[c].shared = FALSE /\ run'[c].stamp = 0 /\ 0 <= stamp
    <3>1. 0 <= stamp
      BY <1>2
    <3>2. QED BY <2>2, <3>1, IdleRuns
  <2>4. Stands(c)
    BY <1>4, <2>3 DEF Stands, Working
  <2>5. QED BY <1>2, <2>1, <2>2, <2>4, Aside
<1>5. CASE run[c].at \in {"scan", "publish", "prune"} /\ Index!Cancel(c)
  <2>1. /\ UNCHANGED <<sourceFile, primary, spare, stamp, index, report, unsynced>>
        /\ run' = [run EXCEPT ![c] = Index!Idle, ![Stray] = run[c]]
        /\ lock' = Nothing /\ since' = {} /\ overtaken' = "yes"
    BY <1>5 DEF Index!Cancel, Index!cache
  <2>2. /\ run' \in [Index!Caller \cup {Stray} -> Index!Run] /\ run'[c] = Index!Idle
        /\ run'[Stray] = run[c]
        /\ \A d \in Index!Caller : d # c => run'[d] = run[d]
    BY <1>2, <1>3, <2>1, IdleRuns
  <2>3. /\ run'[c].at = "idle" /\ run'[c].path = Nothing
        /\ run'[c].shared = FALSE /\ run'[c].stamp = 0 /\ 0 <= stamp
    <3>1. 0 <= stamp
      BY <1>2
    <3>2. QED BY <2>2, <3>1, IdleRuns
  <2>4. lock = c
    BY <1>1, <1>5 DEF CallerBook, Working
  <2>5. \A d \in Index!Caller : run'[d].at \notin Working
    BY <1>1, <2>2, <2>3, <2>4 DEF CallerBook, Working
  <2>6. \A d \in Index!Caller \cup {Stray} : run'[d].stamp <= stamp
    BY <1>1, <2>2, <2>3 DEF StampBook
  <2>7. \A k \in Writer : run'[k].at # "idle" => run'[k].path \in Path
    BY <1>1, <1>3, <2>2, <2>3 DEF CallerBook
  <2>8. /\ run'[Explorer].path = Nothing /\ run'[Explorer].shared = FALSE
        /\ run'[Explorer].at = "exploring" => index' # Nothing
    BY <1>1, <1>3, <2>1, <2>2, <2>3 DEF CallerBook
  <2>9. run'[Stray].at \in {"idle", "scan", "publish", "prune"}
    BY <1>5, <2>2
  <2>10. QED BY <1>2, <2>1, <2>2, <2>5, <2>6, <2>7, <2>8, <2>9, LockIsGivenBack
<1>6. QED BY <1>4, <1>5 DEF Index!Cancel

LEMMA UpdateReturns ==
    ASSUME Index!IndexAssumption, IndexInv,
           NEW c \in Index!Caller, Index!Return(c)
    PROVE  IndexInv'
<1>1. Index!TypeOK /\ CallerBook /\ StampBook /\ BuildBook /\ CalmBook
  BY DEF IndexInv
<1>2. /\ run \in [Index!Caller \cup {Stray} -> Index!Run] /\ stamp \in Nat
      /\ unsynced \subseteq Path /\ overtaken \in {"no", "yes", "ending"}
      /\ index \in Index!Records \cup {Nothing} /\ since \subseteq unsynced
      /\ Nothing \notin Index!Records
  BY <1>1 DEF Index!TypeOK, CallerBook, Index!IndexAssumption
<1>3. /\ Explorer \in Index!Caller /\ \A k \in Writer : k \in Index!Caller /\ k # Explorer
      /\ Stray \notin Index!Caller
  BY DEF Index!Caller, Index!IndexAssumption
<1> DEFINE r == IF c = Explorer THEN [Index!Idle EXCEPT !.at = "exploring"] ELSE Index!Idle
           both == run[Stray].shared /\ run[c].shared
<1>4. /\ run[c].at = "done" /\ lock' = Nothing /\ since' = {}
      /\ UNCHANGED <<sourceFile, primary, spare, stamp, report>>
      /\ index' = IF run[c].shared THEN index ELSE run[c].of
      /\ run' = [run EXCEPT ![c] = r, ![Stray].shared = both]
      /\ unsynced' = unsynced \ ((IF c = Explorer THEN Path ELSE {run[c].path}) \ since)
      /\ overtaken' = IF c = Explorer /\ overtaken = "ending" THEN "no" ELSE overtaken
  <2>1. run[Stray] = run[Stray] /\ Stray # c
    BY <1>3
  <2>2. Index!Return(c) /\ Index!Install(c)
    BY DEF Index!Return
  <2>3. run' = [run EXCEPT ![c] = r, ![Stray].shared = both]
    BY <1>2, <2>1, <2>2 DEF Index!Install
  <2>4. QED BY <2>2, <2>3 DEF Index!Return, Index!Install, Index!cache
<1>5. r \in Index!Run /\ r.path = Nothing /\ r.shared = FALSE /\ r.stamp = 0
      /\ r.at = IF c = Explorer THEN "exploring" ELSE "idle"
  BY IdleRuns DEF Index!Run
<1>6. both \in BOOLEAN
  OBVIOUS
<1> HIDE DEF r, both
<1>7. /\ run[c] \in Index!Run /\ run[Stray] \in Index!Run
      /\ run[c].of \in Index!Records
  BY <1>2 DEF Index!Run
<1>8. /\ run' \in [Index!Caller \cup {Stray} -> Index!Run] /\ run'[c] = r
      /\ run'[Stray] = [run[Stray] EXCEPT !.shared = both]
      /\ \A d \in Index!Caller : d # c => run'[d] = run[d]
  <2>1. [run[Stray] EXCEPT !.shared = both] \in Index!Run
    BY <1>6, <1>7 DEF Index!Run
  <2>2. QED BY <1>2, <1>3, <1>4, <1>5, <2>1
<1>9. run'[Stray].at = run[Stray].at /\ run'[Stray].stamp = run[Stray].stamp
  BY <1>7, <1>8 DEF Index!Run
<1>10. lock = c
  BY <1>1, <1>4 DEF CallerBook, Working
<1>11. \A d \in Index!Caller : run'[d].at \notin Working
  BY <1>1, <1>5, <1>8, <1>10 DEF CallerBook, Working
<1>12. \A d \in Index!Caller \cup {Stray} : run'[d].stamp <= stamp
  <2>1. 0 <= stamp
    BY <1>2
  <2>2. QED BY <1>1, <1>5, <1>8, <1>9, <2>1 DEF StampBook
<1>13. \A k \in Writer : run'[k].at # "idle" => run'[k].path \in Path
  BY <1>1, <1>3, <1>5, <1>8 DEF CallerBook
<1>14. /\ run'[Explorer].path = Nothing /\ run'[Explorer].shared = FALSE
  BY <1>1, <1>3, <1>5, <1>8 DEF CallerBook
<1>15. index' \in Index!Records \cup {Nothing}
  BY <1>2, <1>4, <1>7
<1>16. run'[Explorer].at = "exploring" => index' # Nothing
  <2>1. CASE c = Explorer
    BY <1>1, <1>2, <1>4, <1>7, <2>1 DEF CallerBook
  <2>2. CASE c # Explorer
    BY <1>1, <1>2, <1>3, <1>4, <1>7, <1>8, <2>2 DEF CallerBook
  <2>3. QED BY <2>1, <2>2
<1>17. /\ run'[Stray].at \in {"idle", "scan", "publish", "prune"}
       /\ overtaken' # "yes" => run'[Stray].at = "idle"
       /\ overtaken' \in {"no", "yes", "ending"}
  BY <1>1, <1>2, <1>4, <1>9 DEF CallerBook, Quiet
<1>18. overtaken' = "no" => KnownBook'
  <2> SUFFICES ASSUME overtaken' = "no" PROVE KnownBook'
    OBVIOUS
  <2>1. Index!Loaded' = Index!Loaded
    BY <1>4 DEF Index!Cached, Index!Loaded
  <2>2. \A p \in Path \ unsynced' : run[c].of[p] = sourceFile[p]
    <3>1. CASE c = Explorer
      <4>1. \A p \in Path : p \notin since => run[c].of[p] = sourceFile[p]
        BY <1>1, <1>4, <3>1 DEF BuildBook, Working
      <4>2. \A p \in Path \ unsynced' : p \notin since
        BY <1>2, <1>4, <3>1
      <4>3. QED BY <4>1, <4>2
    <3>2. CASE c # Explorer
      <4>1. c \in Writer /\ SyncBook
        BY <1>1, <1>4, <3>2 DEF Index!Caller, CalmBook
      <4>2. /\ \A p \in Path \ unsynced : run[c].of[p] = sourceFile[p]
            /\ run[c].path \notin since => run[c].of[run[c].path] = sourceFile[run[c].path]
        BY <1>4, <4>1 DEF SyncBook, Working
      <4>3. \A p \in Path \ unsynced' : p \notin unsynced \/ (p = run[c].path /\ p \notin since)
        BY <1>4, <3>2
      <4>4. QED BY <4>2, <4>3
    <3>3. QED BY <3>1, <3>2
  <2>3. index' = run[c].of /\ run[c].of = Index!Loaded
    <3>1. CASE c = Explorer
      BY <1>1, <1>2, <1>4, <3>1 DEF StampBook, CallerBook, Quiet
    <3>2. CASE c # Explorer
      <4>1. c \in Writer /\ SyncBook
        BY <1>1, <1>4, <3>2 DEF Index!Caller, CalmBook
      <4>2. QED BY <1>4, <4>1 DEF SyncBook
    <3>3. QED BY <3>1, <3>2
  <2>4. QED BY <1>4, <2>1, <2>2, <2>3 DEF KnownBook
<1>19. unsynced' \subseteq Path
  BY <1>2, <1>4
<1>20. QED BY <1>4, <1>8, <1>11, <1>12, <1>13, <1>14, <1>15, <1>16, <1>17, <1>18,
             <1>19, LockIsGivenBack

(* The lock is free, and somebody takes it.                                 *)
LEMMA UpdateStarts ==
    ASSUME Index!IndexAssumption, IndexInv,
           NEW c \in Index!Caller, Index!Start(c)
    PROVE  IndexInv'
<1>1. Index!TypeOK /\ CallerBook /\ StampBook /\ BuildBook /\ CalmBook
  BY DEF IndexInv
<1>2. /\ run \in [Index!Caller \cup {Stray} -> Index!Run] /\ stamp \in Nat
      /\ unsynced \subseteq Path /\ overtaken \in {"no", "yes", "ending"}
      /\ index \in Index!Records \cup {Nothing} /\ MaxUpdate \in Nat
  BY <1>1 DEF Index!TypeOK, CallerBook, Index!IndexAssumption
<1>3. /\ Explorer \in Index!Caller /\ \A k \in Writer : k \in Index!Caller /\ k # Explorer
      /\ Stray \notin Index!Caller /\ Nothing \notin Index!Caller
  BY DEF Index!Caller, Index!IndexAssumption
<1> DEFINE r == IF c = Explorer THEN Index!Build ELSE Index!Sync(c)
<1>4. /\ UNCHANGED <<sourceFile, primary, spare, stamp, index, report, unsynced>>
      /\ run' = [run EXCEPT ![c] = r] /\ run[c].at = "waiting"
      /\ lock = Nothing /\ lock' = c /\ since' = {}
      /\ overtaken' = IF c = Explorer /\ overtaken = "yes" /\ run[Stray].at = "idle"
                      THEN "ending" ELSE overtaken
  BY DEF Index!Start, Index!LockFree, Index!cache
<1>5. Index!Known \in Index!Records
  BY <1>1, <1>2, LoadedIsRecords DEF Index!Known
<1>6. run[c] \in Index!Run
  BY <1>2
<1>7. c = Explorer => /\ r \in Index!Run /\ r.at = "scan" /\ r.todo = Path /\ r.stamp = 0
                      /\ r.path = Nothing /\ r.shared = FALSE
  BY IdleRuns DEF Index!Build, Index!Run
<1>8. ASSUME c # Explorer
      PROVE  /\ r \in Index!Run /\ r.at = "scan" /\ r.todo = {run[c].path}
             /\ r.path = run[c].path /\ r.of = Index!Known
             /\ r.shared = (index # Nothing) /\ r.stamp = run[c].stamp
  <2>1. run[c].path \in Path
    BY <1>1, <1>4, <1>8 DEF CallerBook, Index!Caller
  <2>2. (index # Nothing) \in BOOLEAN /\ {run[c].path} \in SUBSET Path
    BY <2>1
  <2>3. r = [run[c] EXCEPT !.at = "scan", !.todo = {run[c].path}, !.of = Index!Known,
                           !.shared = (index # Nothing)]
    BY <1>8 DEF Index!Sync
  <2> HIDE DEF r
  <2>4. QED BY <1>5, <1>6, <2>2, <2>3 DEF Index!Run
<1> HIDE DEF r
<1>9. /\ run' \in [Index!Caller \cup {Stray} -> Index!Run] /\ run'[c] = r
      /\ \A d \in Index!Caller \cup {Stray} : d # c => run'[d] = run[d]
  BY <1>2, <1>4, <1>7, <1>8
<1>10. \A d \in Index!Caller : run[d].at \notin Working
  BY <1>1, <1>3, <1>4 DEF CallerBook
<1>11. run'[c].at = "scan" /\ \A d \in Index!Caller : d # c => run'[d].at \notin Working
  BY <1>7, <1>8, <1>9, <1>10
<1>12. Index!Cached' = Index!Cached /\ Index!Loaded' = Index!Loaded
  BY <1>4 DEF Index!Cached, Index!Loaded
<1>13. run'[Stray] = run[Stray]
  BY <1>3, <1>9
<1>14. Index!TypeOK'
  <2>1. overtaken' \in {"no", "yes", "ending"}
    BY <1>2, <1>4
  <2>2. lock' \in Index!Caller \cup {Nothing} /\ since' \subseteq Path
    BY <1>4
  <2>3. QED BY <1>1, <1>4, <1>9, <2>1, <2>2 DEF Index!TypeOK
<1>15. CallerBook'
  <2>1. \A d \in Index!Caller : run'[d].at \in Working <=> lock' = d
    BY <1>4, <1>11 DEF Working
  <2>2. ASSUME NEW k \in Writer
        PROVE  /\ run'[k].at # "idle" => run'[k].path \in Path
               /\ run'[k].at = "scan" => run'[k].todo = {run'[k].path}
    BY <1>1, <1>3, <1>4, <1>8, <1>9, <1>10 DEF CallerBook, Working
  <2>3. run'[Explorer].path = Nothing /\ run'[Explorer].shared = FALSE
    BY <1>1, <1>3, <1>7, <1>9 DEF CallerBook
  <2>4. run'[Explorer].at = "exploring" => index' # Nothing
    BY <1>1, <1>3, <1>4, <1>9, <1>11 DEF CallerBook
  <2>5. Quiet' => run'[Stray].at = "idle"
    BY <1>1, <1>4, <1>13 DEF CallerBook, Quiet
  <2>6. since' \subseteq unsynced' /\ run'[Stray].at \in {"idle", "scan", "publish", "prune"}
    BY <1>1, <1>4, <1>13 DEF CallerBook
  <2>7. QED BY <2>1, <2>2, <2>3, <2>4, <2>5, <2>6 DEF CallerBook
<1>16. StampBook'
  <2>1. run'[c].stamp <= stamp
    <3>1. 0 <= stamp
      BY <1>2
    <3>2. QED BY <1>1, <1>7, <1>8, <1>9, <3>1 DEF StampBook
  <2>2. \A d \in Index!Caller \cup {Stray} : run'[d].stamp <= stamp'
    BY <1>1, <1>4, <1>9, <2>1 DEF StampBook
  <2>3. \A d \in Index!Caller : run'[d].at \notin {"publish", "prune", "done"}
    BY <1>11 DEF Working
  <2>4. QED BY <1>1, <1>3, <1>4, <1>12, <2>2, <2>3 DEF StampBook
<1>17. BuildBook'
  <2>1. CASE c = Explorer
    BY <1>7, <1>9, <2>1 DEF BuildBook
  <2>2. CASE c # Explorer
    BY <1>3, <1>11, <2>2 DEF BuildBook
  <2>3. QED BY <2>1, <2>2
<1>18. CalmBook'
  <2>1. SUFFICES ASSUME overtaken' = "no" PROVE SyncBook' /\ KnownBook'
    BY DEF CalmBook
  <2>2. SyncBook /\ KnownBook
    BY <1>1, <1>4, <2>1 DEF CalmBook
  <2>3. \A d \in Index!Caller : run[d].at \notin {"prune", "done"}
    BY <1>10 DEF Working
  <2>4. /\ Index!Known = Index!Loaded
        /\ \A p \in Path \ unsynced : Index!Known[p] = sourceFile[p]
    BY <2>2, <2>3 DEF KnownBook, Index!Known
  <2>5. SyncBook'
    <3>1. ASSUME NEW k \in Writer, run'[k].at \in Working
          PROVE  k = c /\ c # Explorer /\ run'[k] = r
      BY <1>3, <1>9, <1>11, <3>1
    <3>2. \A k \in Writer : run'[k].at \in Working => run'[k].of = Index!Known
                                /\ (run'[k].shared => index # Nothing) /\ run'[k].at = "scan"
      BY <1>8, <3>1
    <3>3. QED BY <1>4, <1>12, <2>4, <3>2 DEF SyncBook, Working
  <2>6. KnownBook'
    BY <1>4, <1>12, <2>2, <2>3 DEF KnownBook
  <2>7. QED BY <2>5, <2>6
<1>19. QED BY <1>14, <1>15, <1>16, <1>17, <1>18 DEF IndexInv

(* Index!Scan and Index!Skip.                                               *)
LEMMA FileIsLookedAt ==
    ASSUME Index!IndexAssumption, IndexInv,
           NEW c \in Index!Caller \cup {Stray}, NEW p \in Path,
           NEW record \in Text \cup {Nothing}, Index!Looked(c, p, record),
           \/ record = sourceFile[p] /\ UNCHANGED <<unsynced, since>>
           \/ c = Explorer /\ unsynced' = unsynced \cup {p} /\ since' = since \cup {p}
    PROVE  IndexInv'
<1>1. Index!TypeOK /\ CallerBook /\ StampBook /\ BuildBook /\ CalmBook
  BY DEF IndexInv
<1>2. /\ run \in [Index!Caller \cup {Stray} -> Index!Run] /\ stamp \in Nat
      /\ unsynced \subseteq Path /\ since \subseteq unsynced /\ MaxUpdate \in Nat
      /\ primary \in Index!Snapshot \cup {Nothing} /\ spare \subseteq Index!Snapshot
      /\ index \in Index!Records \cup {Nothing}
  BY <1>1 DEF Index!TypeOK, CallerBook, Index!IndexAssumption
<1>3. /\ Explorer \in Index!Caller /\ \A k \in Writer : k \in Index!Caller /\ k # Explorer
      /\ Stray \notin Index!Caller /\ Nothing \notin Index!Caller
  BY DEF Index!Caller, Index!IndexAssumption
<1> DEFINE last == run[c].todo = {p}
           at == IF last THEN "publish" ELSE "scan"
           n == IF last THEN stamp + 1 ELSE 0
           r == [run[c] EXCEPT !.at = at, !.stamp = n, !.todo = run[c].todo \ {p},
                               !.of = [run[c].of EXCEPT ![p] = record]]
<1>4. /\ UNCHANGED <<sourceFile, primary, spare, index, lock, report, overtaken>>
      /\ run[c].at = "scan" /\ p \in run[c].todo /\ stamp < MaxUpdate
      /\ stamp' = IF last THEN stamp + 1 ELSE stamp
  BY DEF Index!Looked, Index!cache
<1>5. run' = [run EXCEPT ![c] = r]
  <2>1. run' = [run EXCEPT ![c] = [run[c] EXCEPT !.at = IF last THEN "publish" ELSE "scan",
                  !.stamp = IF last THEN stamp' ELSE 0, !.todo = run[c].todo \ {p},
                  !.of = [run[c].of EXCEPT ![p] = record]]]
    BY DEF Index!Looked
  <2>2. QED BY <1>4, <2>1
<1>6. /\ n \in 0..MaxUpdate /\ at \in {"scan", "publish"}
      /\ stamp' \in 0..MaxUpdate /\ stamp <= stamp' /\ n <= stamp'
      /\ (last => stamp < n)
  <2>1. stamp + 1 \in 0..MaxUpdate /\ 0 \in 0..MaxUpdate /\ stamp \in 0..MaxUpdate
    BY <1>2, <1>4
  <2>2. CASE last
    BY <1>2, <1>4, <2>1, <2>2
  <2>3. CASE ~ last
    BY <1>2, <1>4, <2>1, <2>3
  <2>4. QED BY <2>2, <2>3
<1>7. at = "publish" <=> last
  OBVIOUS
<1>8. run[c] \in Index!Run
  BY <1>2
<1>9. r = [run[c] EXCEPT !.at = at, !.stamp = n, !.todo = run[c].todo \ {p},
                         !.of = [run[c].of EXCEPT ![p] = record]]
  OBVIOUS
<1> HIDE DEF r, at, n
<1>10. /\ r \in Index!Run
       /\ r.at = at /\ r.path = run[c].path /\ r.todo = run[c].todo \ {p}
       /\ r.stamp = n /\ r.shared = run[c].shared /\ r.of[p] = record
       /\ \A q \in Path : q # p => r.of[q] = run[c].of[q]
  <2> DEFINE of == [run[c].of EXCEPT ![p] = record]
             todo == run[c].todo \ {p}
  <2>1. run[c].of \in Index!Records /\ run[c].todo \subseteq Path
    BY <1>8 DEF Index!Run
  <2>2. /\ of \in Index!Records /\ of[p] = record
        /\ \A q \in Path : q # p => of[q] = run[c].of[q]
    BY <2>1 DEF Index!Records
  <2>3. todo \in SUBSET Path
    BY <2>1
  <2>4. r = [run[c] EXCEPT !.at = at, !.stamp = n, !.todo = todo, !.of = of]
    BY <1>9
  <2> HIDE DEF of, todo
  <2>5. /\ r \in Index!Run
        /\ r.at = at /\ r.path = run[c].path /\ r.todo = todo
        /\ r.stamp = n /\ r.shared = run[c].shared /\ r.of = of
    BY <1>6, <1>8, <2>2, <2>3, <2>4 DEF Index!Run
  <2>6. QED BY <2>2, <2>5 DEF todo
<1>11. /\ run' \in [Index!Caller \cup {Stray} -> Index!Run] /\ run'[c] = r
       /\ \A d \in Index!Caller \cup {Stray} : d # c => run'[d] = run[d]
  BY <1>2, <1>5, <1>10
<1>12. Index!Cached' = Index!Cached /\ Index!Loaded' = Index!Loaded
  BY <1>4 DEF Index!Cached, Index!Loaded
<1>13. \A s \in Index!Cached : s.at <= stamp /\ s.at <= stamp' /\ s.at \in Int
  <2>1. \A s \in Index!Cached : s.at \in Int /\ s.at <= stamp
    BY <1>1, <1>2 DEF Index!Cached, Index!Snapshot, StampBook
  <2>2. stamp \in Int /\ stamp' \in Int
    BY <1>2, <1>6
  <2>3. QED BY <1>6, <2>1, <2>2
<1>14. CASE c = Stray
  <2>1. ~ Quiet /\ UNCHANGED <<unsynced, since>>
    BY <1>1, <1>3, <1>4, <1>14 DEF CallerBook
  <2>2. \A d \in Index!Caller : run'[d] = run[d]
    BY <1>3, <1>11, <1>14
  <2>3. run'[Stray].at \in {"idle", "scan", "publish", "prune"} /\ run'[Stray].stamp <= stamp'
    BY <1>6, <1>10, <1>11, <1>14
  <2>4. QED BY <1>2, <1>4, <1>6, <1>11, <1>12, <1>13, <2>1, <2>2, <2>3, StrayMoves
<1>15. CASE c # Stray
  <2>1. c \in Index!Caller /\ run[c].at \in Working
    BY <1>4, <1>15 DEF Working
  <2>2. lock = c /\ \A d \in Index!Caller : d # c => run[d].at \notin Working
    BY <2>1, WorksAlone
  <2>3. /\ run'[c].at \in Working /\ run'[Stray] = run[Stray]
        /\ \A d \in Index!Caller : d # c => run'[d] = run[d]
    BY <1>6, <1>10, <1>11, <1>15, <2>1 DEF Working
  <2>4. /\ unsynced \subseteq unsynced' /\ unsynced' \subseteq Path
        /\ since \subseteq since' /\ since' \subseteq unsynced'
        /\ record = sourceFile[p] \/ p \in since'
    BY <1>2
  <2>5. c \in Writer => run[c].path = p /\ last
    BY <1>1, <1>4 DEF CallerBook
  <2>6. Index!TypeOK'
    <3>1. since' \subseteq Path
      BY <2>4
    <3>2. QED BY <1>1, <1>4, <1>6, <1>11, <2>4, <3>1 DEF Index!TypeOK
  <2>7. CallerBook'
    <3>1. \A d \in Index!Caller : run'[d].at \in Working <=> lock' = d
      BY <1>4, <2>2, <2>3
    <3>2. ASSUME NEW k \in Writer
          PROVE  /\ run'[k].at # "idle" => run'[k].path \in Path
                 /\ run'[k].at = "scan" => run'[k].todo = {run'[k].path}
      <4>1. CASE k = c
        BY <1>1, <1>4, <1>7, <1>10, <1>11, <2>5, <4>1 DEF CallerBook
      <4>2. CASE k # c
        BY <1>1, <1>3, <2>3, <4>2 DEF CallerBook
      <4>3. QED BY <4>1, <4>2
    <3>3. run'[Explorer].path = Nothing /\ run'[Explorer].shared = FALSE
      BY <1>1, <1>3, <1>10, <1>11 DEF CallerBook
    <3>4. run'[Explorer].at = "exploring" => index' # Nothing
      BY <1>1, <1>3, <1>4, <1>6, <1>10, <1>11 DEF CallerBook
    <3>5. QED BY <1>1, <1>4, <2>3, <2>4, <3>1, <3>2, <3>3, <3>4 DEF CallerBook, Quiet
  <2>8. StampBook'
    <3>1. \A d \in Index!Caller \cup {Stray} : run'[d].stamp <= stamp'
      <4>1. \A d \in Index!Caller \cup {Stray} : run[d].stamp \in Int /\ run[d].stamp <= stamp
        BY <1>1, <1>2 DEF Index!Run, StampBook
      <4>2. stamp \in Int /\ stamp' \in Int
        BY <1>2, <1>6
      <4>3. QED BY <1>6, <1>10, <1>11, <4>1, <4>2
    <3>2. \A d \in Index!Caller : run'[d].at \notin {"prune", "done"}
      BY <1>6, <1>10, <1>11, <2>2, <2>3 DEF Working
    <3>3. ASSUME NEW d \in Index!Caller, run'[d].at = "publish"
          PROVE  \A s \in Index!Cached' : s.at < run'[d].stamp
      <4>1. d = c /\ last
        BY <1>7, <1>10, <1>11, <2>2, <2>3, <3>3 DEF Working
      <4>2. run'[d].stamp = n /\ stamp < n /\ n \in Int /\ stamp \in Int
        BY <1>2, <1>6, <1>10, <1>11, <4>1
      <4>3. QED BY <1>12, <1>13, <4>2
    <3>4. QED BY <1>3, <1>12, <1>13, <3>1, <3>2, <3>3 DEF StampBook
  <2>9. BuildBook'
    <3>1. CASE c = Explorer
      <4>1. /\ \A q \in Path : q \notin run[c].todo /\ q \notin since => run[c].of[q] = sourceFile[q]
        BY <1>1, <2>1, <3>1 DEF BuildBook
      <4>2. ASSUME NEW q \in Path, q \notin r.todo, q \notin since'
            PROVE  r.of[q] = sourceFile'[q]
        <5>1. CASE q = p
          BY <1>4, <1>10, <2>4, <4>2, <5>1
        <5>2. CASE q # p
          BY <1>4, <1>10, <2>4, <4>1, <4>2, <5>2
        <5>3. QED BY <5>1, <5>2
      <4>3. r.at # "scan" => r.todo = {}
        BY <1>6, <1>7, <1>10
      <4>4. QED BY <1>11, <3>1, <4>2, <4>3 DEF BuildBook
    <3>2. CASE c # Explorer
      BY <1>3, <2>2, <2>3, <3>2 DEF BuildBook
    <3>3. QED BY <3>1, <3>2
  <2>10. CalmBook'
    <3>1. SUFFICES ASSUME overtaken = "no" PROVE SyncBook' /\ KnownBook'
      BY <1>4 DEF CalmBook
    <3>2. SyncBook /\ KnownBook
      BY <1>1, <3>1 DEF CalmBook
    <3>3. \A d \in Index!Caller : run[d].at \notin {"prune", "done"}
      BY <1>4, <2>2 DEF Working
    <3>4. KnownBook'
      BY <1>4, <1>12, <2>4, <3>2, <3>3 DEF KnownBook
    <3>5. SyncBook'
      <4>1. ASSUME NEW k \in Writer, run'[k].at \in Working PROVE k = c
        BY <1>3, <2>2, <2>3, <4>1
      <4>2. ASSUME c \in Writer
            PROVE  /\ run'[c].at = "publish" /\ run'[c].path = p
                   /\ record = sourceFile[p] /\ unsynced' = unsynced
                   /\ \A q \in Path \ unsynced : run[c].of[q] = sourceFile[q]
        BY <1>3, <1>7, <1>10, <1>11, <2>1, <2>5, <3>2, <4>2 DEF SyncBook
      <4>3. ASSUME c \in Writer
            PROVE  /\ \A q \in Path \ unsynced' : run'[c].of[q] = sourceFile'[q]
                   /\ run'[c].of[run'[c].path] = sourceFile'[run'[c].path]
        BY <1>4, <1>10, <1>11, <4>2, <4>3
      <4>4. QED BY <4>1, <4>2, <4>3 DEF SyncBook, Working
    <3>6. QED BY <3>4, <3>5
  <2>11. QED BY <2>6, <2>7, <2>8, <2>9, <2>10 DEF IndexInv
<1>16. QED BY <1>14, <1>15

(* Of snapshots with different dates, the latest is the one chosen.         *)
Chosen(C) == CHOOSE s \in C : \A o \in C : o.at <= s.at

LEMMA LatestIsChosen ==
    ASSUME NEW C, NEW s \in C,
           \A o \in C : o.at \in Int, \A o \in C : o = s \/ o.at < s.at
    PROVE  Chosen(C) = s
<1>1. s \in C /\ \A o \in C : o.at <= s.at
  OBVIOUS
<1>2. Chosen(C) \in C /\ \A o \in C : o.at <= Chosen(C).at
  BY <1>1 DEF Chosen
<1>3. s.at <= Chosen(C).at /\ s.at \in Int /\ Chosen(C).at \in Int
  BY <1>2
<1>4. ~ Chosen(C).at < s.at
  BY <1>3
<1>5. QED BY <1>2, <1>4

(* An update that has been dated goes into the cache and, when others are   *)
(* to see it there, into memory.                                            *)
LEMMA CacheMoves ==
    ASSUME Index!IndexAssumption, IndexInv, NEW c \in Index!Caller, NEW next,
           \/ run[c].at = "publish" /\ next = "prune"
           \/ run[c].at = "prune" /\ next = "done",
           run' = [run EXCEPT ![c].at = next],
           primary' \in Index!Snapshot \cup {Nothing}, spare' \subseteq Index!Snapshot,
           Index!Cached' \subseteq Index!Cached \cup {Snap(c)},
           Quiet => Snap(c) \in Index!Cached',
           \/ index' = index
           \/ next = "done" /\ run[c].shared /\ index' = run[c].of,
           next = "done" /\ run[c].shared => index' = run[c].of,
           UNCHANGED <<sourceFile, stamp, lock, report, unsynced, since, overtaken>>
    PROVE  IndexInv'
<1>1. Index!TypeOK /\ CallerBook /\ StampBook /\ BuildBook /\ CalmBook
  BY DEF IndexInv
<1>2. /\ run \in [Index!Caller \cup {Stray} -> Index!Run] /\ run[c] \in Index!Run
      /\ index \in Index!Records \cup {Nothing} /\ Nothing \notin Index!Records
  BY <1>1 DEF Index!TypeOK, Index!IndexAssumption
<1>3. /\ Explorer \in Index!Caller /\ \A k \in Writer : k \in Index!Caller /\ k # Explorer
      /\ Stray \notin Index!Caller
  BY DEF Index!Caller, Index!IndexAssumption
<1> DEFINE r == [run[c] EXCEPT !.at = next]
<1>4. next \in {"prune", "done"}
  OBVIOUS
<1>5. /\ r \in Index!Run /\ r.at = next /\ r.path = run[c].path /\ r.todo = run[c].todo
      /\ r.of = run[c].of /\ r.stamp = run[c].stamp /\ r.shared = run[c].shared
  BY <1>2, <1>4 DEF Index!Run
<1>6. run' = [run EXCEPT ![c] = r]
  OBVIOUS
<1> HIDE DEF r
<1>7. /\ run' \in [Index!Caller \cup {Stray} -> Index!Run] /\ run'[c] = r
      /\ \A d \in Index!Caller \cup {Stray} : d # c => run'[d] = run[d]
  BY <1>2, <1>5, <1>6
<1>8. /\ run[c].at \in Working /\ run'[c].at \in Working
      /\ run[c].at \in {"publish", "prune"} /\ run'[c].at \in {"prune", "done"}
  BY <1>4, <1>5, <1>7 DEF Working
<1>9. /\ lock = c /\ \A d \in Index!Caller : d # c => run[d].at \notin Working
      /\ \A d \in Index!Caller : d # c => run'[d].at \notin Working
  BY <1>7, <1>8, WorksAlone
<1>10. /\ run[c].of \in Index!Records /\ run[c].stamp \in Int
       /\ Snap(c).at = run[c].stamp /\ Snap(c).of = run[c].of /\ Snap(c)' = Snap(c)
  <2>1. run[c].of \in Index!Records /\ run[c].stamp \in Int
    BY <1>2 DEF Index!Run
  <2>2. Snap(c)' = Snap(c)
    BY <1>5, <1>7 DEF Snap
  <2>3. QED BY <2>1, <2>2 DEF Snap
<1>11. run'[Stray] = run[Stray]
  BY <1>3, <1>7
<1>12. \A o \in Index!Cached : o.at \in Int /\ o.at <= stamp
  BY <1>1 DEF Index!TypeOK, Index!Cached, Index!Snapshot, StampBook
<1>13. ASSUME Quiet
       PROVE  Newest(Snap(c))' /\ Index!Loaded' = run[c].of
  <2>1. \A o \in Index!Cached' : o = Snap(c) \/ o.at < Snap(c).at
    BY <1>1, <1>10, <1>13 DEF StampBook, Newest
  <2>2. Snap(c) \in Index!Cached' /\ \A o \in Index!Cached' : o.at \in Int
    BY <1>10, <1>12, <1>13
  <2>3. Chosen(Index!Cached') = Snap(c)
    BY <2>1, <2>2, LatestIsChosen
  <2>4. Index!Loaded' = Chosen(Index!Cached').of
    BY <2>2 DEF Index!Loaded, Chosen
  <2>5. QED BY <1>10, <2>1, <2>2, <2>3, <2>4 DEF Newest
<1>14. index' \in Index!Records \cup {Nothing} /\ (index # Nothing => index' # Nothing)
  BY <1>2, <1>10
<1>15. Index!TypeOK'
  BY <1>1, <1>7, <1>14 DEF Index!TypeOK
<1>16. CallerBook'
  <2>1. \A d \in Index!Caller : run'[d].at \in Working <=> lock' = d
    BY <1>8, <1>9
  <2>2. ASSUME NEW k \in Writer
        PROVE  /\ run'[k].at # "idle" => run'[k].path \in Path
               /\ run'[k].at = "scan" => run'[k].todo = {run'[k].path}
    <3>1. CASE k = c
      BY <1>1, <1>5, <1>7, <1>8, <3>1 DEF CallerBook
    <3>2. CASE k # c
      BY <1>1, <1>3, <1>7, <3>2 DEF CallerBook
    <3>3. QED BY <3>1, <3>2
  <2>3. run'[Explorer].path = Nothing /\ run'[Explorer].shared = FALSE
    BY <1>1, <1>3, <1>5, <1>7 DEF CallerBook
  <2>4. run'[Explorer].at = "exploring" => index' # Nothing
    BY <1>1, <1>3, <1>7, <1>8, <1>14 DEF CallerBook
  <2>5. QED BY <1>1, <1>11, <2>1, <2>2, <2>3, <2>4 DEF CallerBook, Quiet
<1>17. StampBook'
  <2>1. run[c].stamp <= stamp
    BY <1>1 DEF StampBook
  <2>2. \A o \in Index!Cached' : o.at <= stamp
    BY <1>10, <1>12, <2>1
  <2>3. \A d \in Index!Caller \cup {Stray} : run'[d].stamp <= stamp'
    BY <1>1, <1>5, <1>7 DEF StampBook
  <2>4. \A d \in Index!Caller : run'[d].at # "publish"
    BY <1>8, <1>9 DEF Working
  <2>5. Quiet' => \A d \in Index!Caller : run'[d].at = "prune" => Newest(Snap(d))'
    BY <1>9, <1>13 DEF Quiet, Working
  <2>6. Quiet' /\ run'[Explorer].at = "done" => Index!Loaded' = run'[Explorer].of
    BY <1>3, <1>5, <1>7, <1>9, <1>13 DEF Quiet, Working
  <2>7. QED BY <2>2, <2>3, <2>4, <2>5, <2>6 DEF StampBook
<1>18. BuildBook'
  <2>1. CASE c = Explorer
    BY <1>1, <1>5, <1>7, <1>8, <2>1 DEF BuildBook
  <2>2. CASE c # Explorer
    BY <1>3, <1>9, <2>2 DEF BuildBook
  <2>3. QED BY <2>1, <2>2
<1>19. CalmBook'
  <2>1. SUFFICES ASSUME overtaken = "no" PROVE SyncBook' /\ KnownBook'
    BY DEF CalmBook
  <2>2. SyncBook /\ KnownBook /\ Quiet
    BY <1>1, <2>1 DEF CalmBook, Quiet
  <2>3. \A p \in Path \ unsynced : run[c].of[p] = sourceFile[p]
    <3>1. CASE c = Explorer
      <4>1. since \subseteq unsynced
        BY <1>1 DEF CallerBook
      <4>2. \A p \in Path : p \notin since => run[c].of[p] = sourceFile[p]
        BY <1>1, <1>8, <3>1 DEF BuildBook
      <4>3. QED BY <4>1, <4>2
    <3>2. CASE c # Explorer
      BY <1>8, <2>2, <3>2 DEF SyncBook, Index!Caller
    <3>3. QED BY <3>1, <3>2
  <2>4. SyncBook'
    <3>1. ASSUME NEW k \in Writer, run'[k].at \in Working PROVE k = c
      BY <1>3, <1>9, <3>1
    <3>2. ASSUME c \in Writer
          PROVE  run[c].path \notin since => run[c].of[run[c].path] = sourceFile[run[c].path]
      BY <1>8, <2>2, <3>2 DEF SyncBook
    <3>3. run'[c].of = run[c].of /\ run'[c].path = run[c].path
      BY <1>5, <1>7
    <3>4. /\ run'[c].at # "scan"
          /\ run'[c].at = "done" => run'[c].of = Index!Loaded'
                                    /\ (run'[c].shared => index' = run'[c].of)
      BY <1>5, <1>7, <1>8, <1>13, <2>2
    <3>5. QED BY <2>3, <3>1, <3>2, <3>3, <3>4 DEF SyncBook, Working
  <2>5. KnownBook'
    <3>1. \A p \in Path \ unsynced' : Index!Loaded'[p] = sourceFile'[p]
      BY <1>13, <2>2, <2>3
    <3>2. index' # Nothing => \A p \in Path \ unsynced' : index'[p] = sourceFile'[p]
      BY <2>2, <2>3 DEF KnownBook
    <3>3. QED BY <1>8, <3>1, <3>2 DEF KnownBook
  <2>6. QED BY <2>4, <2>5
<1>20. QED BY <1>15, <1>16, <1>17, <1>18, <1>19 DEF IndexInv

LEMMA UpdateIsPublished ==
    ASSUME Index!IndexAssumption, IndexInv, NEW c \in Index!Caller \cup {Stray},
           Index!Publish(c) \/ Index!Prune(c)
    PROVE  IndexInv'
<1>1. Index!TypeOK /\ CallerBook /\ StampBook
  BY DEF IndexInv
<1>2. /\ run \in [Index!Caller \cup {Stray} -> Index!Run] /\ run[c] \in Index!Run
      /\ primary \in Index!Snapshot \cup {Nothing} /\ spare \subseteq Index!Snapshot
      /\ index \in Index!Records \cup {Nothing} /\ Nothing \notin Index!Records
      /\ Nothing \notin Index!Snapshot /\ stamp \in 0..MaxUpdate
      /\ run[c].of \in Index!Records /\ MaxUpdate \in Nat
  BY <1>1 DEF Index!TypeOK, Index!IndexAssumption, Index!Run
<1>3. Stray \notin Index!Caller
  BY DEF Index!IndexAssumption
<1>4. Snap(c) \in Index!Snapshot /\ Snap(c).at = run[c].stamp
  BY <1>2 DEF Snap, Index!Snapshot, Index!Run
<1>5. run[c].stamp <= stamp
  BY <1>1 DEF StampBook
<1>6. /\ UNCHANGED <<sourceFile, stamp, lock, report, unsynced, since, overtaken>>
      /\ run[c].at \in {"publish", "prune"}
  BY DEF Index!Publish, Index!Prune, Index!watched
<1>7. Index!Publish(c) => /\ run[c].at = "publish" /\ run' = [run EXCEPT ![c].at = "prune"]
                          /\ index' = index
                          /\ \/ primary' = Snap(c) /\ spare' = spare
                             \/ primary' = primary /\ spare' = spare \cup {Snap(c)}
  BY DEF Index!Publish, Index!Goto, Snap
<1>8. Index!Prune(c) => /\ run[c].at = "prune"
                        /\ index' = IF run[c].shared THEN run[c].of ELSE index
                        /\ \/ /\ primary' = IF primary = Snap(c) THEN primary ELSE Nothing
                              /\ spare' = spare \cap {Snap(c)}
                           \/ primary' = primary /\ spare' = spare
                        /\ run' = IF c = Stray THEN [run EXCEPT ![c] = Index!Idle]
                                  ELSE [run EXCEPT ![c].at = "done"]
  BY DEF Index!Prune, Index!Goto, Index!cache, Snap
<1>9. primary' \in Index!Snapshot \cup {Nothing} /\ spare' \subseteq Index!Snapshot
  BY <1>2, <1>4, <1>7, <1>8
<1>10. Index!Cached' \subseteq Index!Cached \cup {Snap(c)}
  BY <1>7, <1>8 DEF Index!Cached
<1>11. Index!Publish(c) \/ Snap(c) \in Index!Cached => Snap(c) \in Index!Cached'
  <2>1. Snap(c) # Nothing
    BY <1>2, <1>4
  <2>2. CASE Index!Publish(c)
    BY <1>7, <2>1, <2>2 DEF Index!Cached
  <2>3. CASE Index!Prune(c) /\ Snap(c) \in Index!Cached
    BY <1>8, <2>1, <2>3 DEF Index!Cached
  <2>4. QED BY <2>2, <2>3
<1>12. CASE c = Stray
  <2>1. ~ Quiet
    BY <1>1, <1>6, <1>12 DEF CallerBook
  <2>2. \A s \in Index!Cached' : s.at <= stamp'
    BY <1>1, <1>4, <1>5, <1>6, <1>10 DEF StampBook
  <2>3. index' \in Index!Records \cup {Nothing} /\ (index # Nothing => index' # Nothing)
    BY <1>2, <1>7, <1>8
  <2>4. stamp' \in 0..MaxUpdate /\ stamp <= stamp'
    BY <1>2, <1>6
  <2>5. CASE Index!Publish(c)
    <3>1. /\ run' \in [Index!Caller \cup {Stray} -> Index!Run]
          /\ run'[Stray] = [run[Stray] EXCEPT !.at = "prune"]
          /\ \A d \in Index!Caller : run'[d] = run[d]
      BY <1>2, <1>3, <1>7, <1>12, <2>5 DEF Index!Run
    <3>2. run'[Stray].at = "prune" /\ run'[Stray].stamp = run[Stray].stamp
      BY <1>2, <1>12, <3>1 DEF Index!Run
    <3>3. run'[Stray].stamp <= stamp'
      BY <1>5, <1>6, <1>12, <3>2
    <3>4. QED BY <1>6, <1>9, <2>1, <2>2, <2>3, <2>4, <3>1, <3>2, <3>3, StrayMoves
  <2>6. CASE Index!Prune(c)
    <3>1. /\ run' \in [Index!Caller \cup {Stray} -> Index!Run]
          /\ run'[Stray] = Index!Idle
          /\ \A d \in Index!Caller : run'[d] = run[d]
      BY <1>2, <1>3, <1>8, <1>12, <2>6, IdleRuns
    <3>2. run'[Stray].at = "idle" /\ run'[Stray].stamp = 0
      BY <3>1, IdleRuns
    <3>3. run'[Stray].stamp <= stamp'
      BY <2>4, <3>2
    <3>4. QED BY <1>6, <1>9, <2>1, <2>2, <2>3, <2>4, <3>1, <3>2, <3>3, StrayMoves
  <2>7. QED BY <2>5, <2>6
<1>13. CASE c # Stray
  <2>1. c \in Index!Caller
    BY <1>13
  <2>2. Quiet => Snap(c) \in Index!Cached'
    BY <1>1, <1>8, <1>11, <2>1 DEF StampBook, Newest
  <2>3. CASE Index!Publish(c)
    BY <1>6, <1>7, <1>9, <1>10, <2>1, <2>2, <2>3, CacheMoves
  <2>4. CASE Index!Prune(c)
    <3>1. /\ run' = [run EXCEPT ![c].at = "done"] /\ run[c].at = "prune"
          /\ index' = index \/ (run[c].shared /\ index' = run[c].of)
          /\ run[c].shared => index' = run[c].of
      BY <1>8, <1>13, <2>4
    <3>2. QED BY <1>6, <1>9, <1>10, <2>1, <2>2, <3>1, CacheMoves
  <2>5. QED BY <2>3, <2>4
<1>14. QED BY <1>12, <1>13

(* A sync that finds the record as it is.                                   *)
LEMMA NothingIsNew ==
    ASSUME Index!IndexAssumption, IndexInv, NEW c \in Index!Caller \cup {Stray},
           Index!NothingNew(c)
    PROVE  IndexInv'
<1>1. Index!TypeOK /\ CallerBook /\ StampBook /\ BuildBook /\ CalmBook
  BY DEF IndexInv
<1>2. /\ run \in [Index!Caller \cup {Stray} -> Index!Run] /\ run[c] \in Index!Run
      /\ primary \in Index!Snapshot \cup {Nothing} /\ spare \subseteq Index!Snapshot
      /\ index \in Index!Records \cup {Nothing} /\ stamp \in 0..MaxUpdate
      /\ MaxUpdate \in Nat
  BY <1>1 DEF Index!TypeOK, Index!IndexAssumption
<1>3. /\ Explorer \in Index!Caller /\ \A k \in Writer : k \in Index!Caller /\ k # Explorer
      /\ Stray \notin Index!Caller
  BY DEF Index!Caller, Index!IndexAssumption
<1>4. /\ UNCHANGED <<sourceFile, primary, spare, stamp, index, lock, report, unsynced, since, overtaken>>
      /\ run[c].at = "scan" /\ run[c].path # Nothing
      /\ run[c].of[run[c].path] = sourceFile[run[c].path]
      /\ run' = IF c = Stray THEN [run EXCEPT ![c] = Index!Idle]
                ELSE [run EXCEPT ![c].at = "done"]
  BY DEF Index!NothingNew, Index!Goto, Index!cache, Index!watched
<1>5. Index!Cached' = Index!Cached /\ Index!Loaded' = Index!Loaded
  BY <1>4 DEF Index!Cached, Index!Loaded
<1>6. CASE c = Stray
  <2>1. /\ run' \in [Index!Caller \cup {Stray} -> Index!Run]
        /\ run'[Stray] = Index!Idle
        /\ \A d \in Index!Caller : run'[d] = run[d]
    BY <1>2, <1>3, <1>4, <1>6, IdleRuns
  <2>2. run'[Stray].at = "idle" /\ run'[Stray].stamp = 0
    BY <2>1, IdleRuns
  <2>3. stamp' \in 0..MaxUpdate /\ stamp <= stamp' /\ run'[Stray].stamp <= stamp'
    BY <1>2, <1>4, <2>2
  <2>4. ~ Quiet
    BY <1>1, <1>4, <1>6 DEF CallerBook
  <2>5. \A s \in Index!Cached' : s.at <= stamp'
    BY <1>1, <1>4, <1>5 DEF StampBook
  <2>6. QED BY <1>2, <1>4, <2>1, <2>2, <2>3, <2>4, <2>5, StrayMoves
<1>7. CASE c # Stray
  <2>1. c \in Index!Caller /\ c # Explorer /\ c \in Writer
    BY <1>1, <1>4, <1>7 DEF CallerBook, Index!Caller
  <2>2. /\ lock = c /\ run[c].at \in Working
        /\ \A d \in Index!Caller : d # c => run[d].at \notin Working
    BY <1>4, <2>1, WorksAlone DEF Working
  <2>3. /\ run' \in [Index!Caller \cup {Stray} -> Index!Run]
        /\ run'[c] = [run[c] EXCEPT !.at = "done"]
        /\ \A d \in Index!Caller \cup {Stray} : d # c => run'[d] = run[d]
    BY <1>2, <1>4, <1>7 DEF Index!Run
  <2>4. /\ run'[c].at = "done" /\ run'[c].path = run[c].path /\ run'[c].of = run[c].of
        /\ run'[c].stamp = run[c].stamp /\ run'[c].shared = run[c].shared
    BY <1>2, <2>3 DEF Index!Run
  <2>5. run'[Stray] = run[Stray] /\ run'[Explorer] = run[Explorer]
    BY <1>3, <1>7, <2>1, <2>3
  <2>6. Index!TypeOK'
    BY <1>1, <1>4, <2>3 DEF Index!TypeOK
  <2>7. CallerBook'
    <3>1. \A d \in Index!Caller : run'[d].at \in Working <=> lock' = d
      BY <1>4, <2>2, <2>3, <2>4 DEF Working
    <3>2. ASSUME NEW k \in Writer
          PROVE  /\ run'[k].at # "idle" => run'[k].path \in Path
                 /\ run'[k].at = "scan" => run'[k].todo = {run'[k].path}
      BY <1>1, <1>3, <1>4, <2>3, <2>4 DEF CallerBook
    <3>3. QED BY <1>1, <1>4, <2>5, <3>1, <3>2 DEF CallerBook, Quiet
  <2>8. StampBook'
    <3>1. \A d \in Index!Caller \cup {Stray} : run'[d].stamp <= stamp'
      BY <1>1, <1>4, <2>3, <2>4 DEF StampBook
    <3>2. \A d \in Index!Caller : run'[d].at \notin {"publish", "prune"}
      BY <2>2, <2>3, <2>4 DEF Working
    <3>3. run'[Explorer].at # "done"
      BY <1>3, <2>1, <2>2, <2>5 DEF Working
    <3>4. QED BY <1>1, <1>4, <1>5, <3>1, <3>2, <3>3 DEF StampBook
  <2>9. BuildBook'
    BY <1>3, <2>1, <2>2, <2>5 DEF BuildBook
  <2>10. CalmBook'
    <3>1. SUFFICES ASSUME overtaken = "no" PROVE SyncBook' /\ KnownBook'
      BY <1>4 DEF CalmBook
    <3>2. SyncBook /\ KnownBook
      BY <1>1, <3>1 DEF CalmBook
    <3>3. /\ run[c].of = Index!Loaded /\ (run[c].shared => index = Index!Loaded)
          /\ \A p \in Path \ unsynced : run[c].of[p] = sourceFile[p]
      <4>1. \A d \in Index!Caller : run[d].at \notin {"prune", "done"}
        BY <1>4, <2>2 DEF Working
      <4>2. QED BY <1>4, <2>1, <2>2, <3>2, <4>1 DEF SyncBook, KnownBook
    <3>4. SyncBook'
      <4>1. ASSUME NEW k \in Writer, run'[k].at \in Working PROVE k = c
        BY <1>3, <2>2, <2>3, <4>1
      <4>2. QED BY <1>4, <1>5, <2>4, <3>3, <4>1 DEF SyncBook, Working
    <3>5. KnownBook'
      BY <1>4, <1>5, <2>1, <2>4, <3>2 DEF KnownBook
    <3>6. QED BY <3>4, <3>5
  <2>11. QED BY <2>6, <2>7, <2>8, <2>9, <2>10 DEF IndexInv
<1>8. QED BY <1>6, <1>7

LEMMA IndexMoves ==
    ASSUME Index!IndexAssumption, IndexInv, [Index!Next]_(Index!vars)
    PROVE  IndexInv'
<1>1. CASE \/ \E p \in Path, t \in Text \cup {Nothing} : Index!Edit(p, t)
           \/ \E k \in Writer, p \in Path, t \in Text : Index!Write(k, p, t)
           \/ Index!Explore \/ Index!Reuse
           \/ \E scope \in SUBSET Path : Index!Report(scope)
  BY <1>1, NobodyUpdates
<1>2. ASSUME NEW c \in Index!Caller, Index!Start(c) PROVE IndexInv'
  BY <1>2, UpdateStarts
<1>3. ASSUME NEW c \in Index!Caller, Index!Return(c) PROVE IndexInv'
  BY <1>3, UpdateReturns
<1>4. ASSUME NEW c \in Index!Caller, Index!Cancel(c) PROVE IndexInv'
  BY <1>4, CancelledCallers
<1>5. ASSUME NEW c \in Index!Caller \cup {Stray}, NEW p \in Path, Index!Scan(c, p)
      PROVE  IndexInv'
  <2>1. sourceFile[p] \in Text \cup {Nothing}
    BY DEF IndexInv, Index!TypeOK, Index!Records
  <2>2. QED BY <1>5, <2>1, FileIsLookedAt DEF Index!Scan
<1>6. ASSUME NEW c \in Index!Caller \cup {Stray}, Index!NothingNew(c) PROVE IndexInv'
  BY <1>6, NothingIsNew
<1>7. ASSUME NEW c \in Index!Caller \cup {Stray}, Index!Publish(c) \/ Index!Prune(c)
      PROVE  IndexInv'
  BY <1>7, UpdateIsPublished
<1>8. ASSUME NEW c \in Index!Caller \cup {Stray}, Index!Fail(c) PROVE IndexInv'
  BY <1>8, FailureGivesBack
<1>9. ASSUME NEW p \in Path, Index!Skip(p) PROVE IndexInv'
  <2>1. Explorer \in Index!Caller \cup {Stray} /\ Nothing \in Text \cup {Nothing}
    BY DEF Index!Caller
  <2>2. QED BY <1>9, <2>1, FileIsLookedAt DEF Index!Skip
<1>10. CASE Index!Restart
  BY <1>10, RestartForgets
<1>11. CASE UNCHANGED Index!vars
  <2>1. UNCHANGED <<sourceFile, primary, spare, stamp, index, lock, run, report, unsynced,
                    since, overtaken>>
    BY <1>11 DEF Index!vars
  <2>2. Index!TypeOK /\ CallerBook
    BY DEF IndexInv
  <2>3. /\ run' \in [Index!Caller \cup {Stray} -> Index!Run] /\ sourceFile' \in Index!Records
        /\ unsynced' \subseteq Path /\ since' \subseteq unsynced'
        /\ report' = Nothing \/ DOMAIN report' \subseteq Path
    BY <2>1, <2>2 DEF Index!TypeOK, CallerBook
  <2>4. QED BY <2>1, <2>3, Aside
<1>12. QED BY <1>1, <1>2, <1>3, <1>4, <1>5, <1>6, <1>7, <1>8, <1>9, <1>10, <1>11
       DEF Index!Next

LEMMA IndexAlways == Index!IndexAssumption => (Index!Spec => []IndexInv)
<1> SUFFICES ASSUME Index!IndexAssumption PROVE Index!Spec => []IndexInv
  OBVIOUS
<1>1. Index!Init => IndexInv
  BY IndexStart
<1>2. IndexInv /\ [Index!Next]_(Index!vars) => IndexInv'
  BY IndexMoves
<1>3. QED BY <1>1, <1>2, PTL DEF Index!Spec

(* As long as no thread has outlived its caller, every file that has not    *)
(* changed since its update is known as it is, in memory and from whatever  *)
(* cache files a crash leaves.                                              *)
THEOREM IndexFollows == Index!IndexAssumption => (Index!Spec => []Index!IndexFollowsWrites)
<1>1. IndexInv => Index!IndexFollowsWrites
  BY DEF IndexInv, CalmBook, KnownBook, Index!IndexFollowsWrites, Index!Known
<1>2. QED BY <1>1, IndexAlways, PTL

(* A report is handed out again only if it still tells what the files say.  *)
THEOREM ReportsAreCurrent ==
    Index!IndexAssumption => (Index!Spec => []Index!ReusedReportsAreCurrent)
<1>1. IndexInv => Index!ReusedReportsAreCurrent
  <2> SUFFICES ASSUME IndexInv, run[Explorer].at = "exploring", Index!Reusable,
                      overtaken = "no", NEW p \in DOMAIN report \ unsynced
               PROVE  report[p] = sourceFile[p]
    BY DEF Index!ReusedReportsAreCurrent
  <2>1. index # Nothing /\ KnownBook /\ Index!TypeOK
    BY DEF IndexInv, CallerBook, CalmBook
  <2>2. p \in Path /\ index[p] = report[p]
    BY <2>1 DEF Index!TypeOK, Index!Reusable, Index!Stale
  <2>3. QED BY <2>1, <2>2 DEF KnownBook
<1>2. QED BY <1>1, IndexAlways, PTL

-----------------------------------------------------------------------------
(* The runtime.  A step of it is a step of the part that the behaviour      *)
(* belongs to, so that what holds of that part by itself holds here.        *)

LEMMA GatesBehaviour == RuntimeSpec => []~Runs("gates") \/ Gates!Spec
<1>1. RuntimeInit => ~Runs("gates") \/ Gates!Init
  BY DEF RuntimeInit, Runs
<1>2. [RuntimeNext]_runtime =>
        \/ ~Runs("gates") /\ ~Runs("gates")'
        \/ Runs("gates") /\ Runs("gates")' /\ [Gates!Next]_(Gates!vars)
  BY OnePart DEF Runs
<1>3. QED BY <1>1, <1>2, PTL DEF RuntimeSpec, Gates!Spec

LEMMA PromptBehaviour == RuntimeSpec => []~Runs("prompt") \/ Prompt!Spec
<1>1. RuntimeInit => ~Runs("prompt") \/ Prompt!Init
  BY DEF RuntimeInit, Runs
<1>2. [RuntimeNext]_runtime =>
        \/ ~Runs("prompt") /\ ~Runs("prompt")'
        \/ Runs("prompt") /\ Runs("prompt")' /\ [Prompt!Next]_(Prompt!vars)
  BY OnePart DEF Runs
<1>3. QED BY <1>1, <1>2, PTL DEF RuntimeSpec, Prompt!Spec

LEMMA PassesBehaviour == RuntimeSpec => []~Runs("convergence") \/ Passes!Spec
<1>1. RuntimeInit => ~Runs("convergence") \/ Passes!Init
  BY DEF RuntimeInit, Runs
<1>2. [RuntimeNext]_runtime =>
        \/ ~Runs("convergence") /\ ~Runs("convergence")'
        \/ Runs("convergence") /\ Runs("convergence")' /\ [Passes!Next]_(Passes!vars)
  BY OnePart DEF Runs
<1>3. QED BY <1>1, <1>2, PTL DEF RuntimeSpec, Passes!Spec

LEMMA IndexBehaviour == RuntimeSpec => []~Runs("index") \/ Index!Spec
<1>1. RuntimeInit => ~Runs("index") \/ Index!Init
  BY DEF RuntimeInit, Runs
<1>2. [RuntimeNext]_runtime =>
        \/ ~Runs("index") /\ ~Runs("index")'
        \/ Runs("index") /\ Runs("index")' /\ [Index!Next]_(Index!vars)
  BY OnePart DEF Runs
<1>3. QED BY <1>1, <1>2, PTL DEF RuntimeSpec, Index!Spec

(* A plan put before the operator traces every requirement of the scanned   *)
(* documents, however often documents and plan are replaced.                *)
(* (SpecKitAnalyzeGate.analyze.)                                            *)
THEOREM PlansTraceTheSpec == RuntimeSpec => []ApprovedPlansTraceTheSpec
<1>1. Gates!Spec => []Gates!ApprovedPlansTraceTheSpec
  BY TracesStay
<1>2. ~Runs("gates") \/ (Gates!ApprovedPlansTraceTheSpec)
         => ApprovedPlansTraceTheSpec
  BY DEF ApprovedPlansTraceTheSpec, Runs
<1>3. QED BY <1>1, <1>2, GatesBehaviour, PTL

(* When the console returns without reporting that it could not save, what  *)
(* was said is in a history file of its workspace.                          *)
(* (persist_history_on_exit.)                                               *)
THEOREM ConversationsAreFiled == RuntimeSpec => []WhatWasSaidIsFiled
<1>1. Prompt!Spec => []Prompt!WhatWasSaidIsFiled
  BY RuntimeAssumption, SaidIsFiled
<1>2. ~Runs("prompt") \/ (Prompt!WhatWasSaidIsFiled)
         => WhatWasSaidIsFiled
  BY DEF WhatWasSaidIsFiled, Runs
<1>3. QED BY <1>1, <1>2, PromptBehaviour, PTL

(* A repair result taken over from an earlier process was computed for the  *)
(* gap it is used for, for any number of passes and processes.              *)
(* (RunJournal.register_tasks.)                                             *)
THEOREM TakenOverFits == RuntimeSpec => []SeedsFitTheirGap
<1>1. Passes!Spec => []Passes!SeedsFitTheirGap
  BY RuntimeAssumption, SeedsFit
<1>2. ~Runs("convergence") \/ (Passes!SeedsFitTheirGap)
         => SeedsFitTheirGap
  BY DEF SeedsFitTheirGap, Runs
<1>3. QED BY <1>1, <1>2, PassesBehaviour, PTL

(* What a tool wrote is known as it is, in memory and from whatever cache   *)
(* files a crash leaves, unless a thread outlived its caller since the last *)
(* build; and a report handed out again is current.  (CodeIndexer.)         *)
THEOREM IndexIsCurrent == RuntimeSpec => []IndexFollowsWrites
<1>1. Index!Spec => []Index!IndexFollowsWrites /\ []Index!ReusedReportsAreCurrent
  BY RuntimeAssumption, IndexFollows, ReportsAreCurrent
<1>2. ~Runs("index") \/ (Index!IndexFollowsWrites /\ Index!ReusedReportsAreCurrent)
         => IndexFollowsWrites
  BY DEF IndexFollowsWrites, Runs
<1>3. QED BY <1>1, <1>2, IndexBehaviour, PTL

(* A goal that has converged keeps what it began, and a result for all its  *)
(* tasks, none of which speaks against a criterion.                         *)
(* (ConvergenceRunner.run.)                                                 *)
THEOREM ConvergedStaysWhole == RuntimeSpec => []ConvergedIsWhole
<1>1. Passes!Spec => [](Passes!ConvergedIsWhole /\ Passes!TypeOK)
  BY RuntimeAssumption, WholeConvergence
<1>2. ~Runs("convergence") \/ Passes!ConvergedIsWhole => ConvergedIsWhole
  BY DEF ConvergedIsWhole, Runs
<1>3. QED BY <1>1, <1>2, PassesBehaviour, PTL

-----------------------------------------------------------------------------
(* The types of all the parts. *)

SomePart ==
    \/ Runs("checkpoints") \/ Runs("convergence") \/ Runs("goal") \/ Runs("loop")
    \/ Runs("delegation") \/ Runs("model") \/ Runs("board") \/ Runs("context")
    \/ Runs("chunks") \/ Runs("index") \/ Runs("prompt") \/ Runs("tools")
    \/ Runs("gates")

LEMMA OneOfTheParts == RuntimeSpec => []SomePart
<1>1. RuntimeInit => SomePart
  BY DEF RuntimeInit, SomePart, Runs
<1>2. SomePart /\ [RuntimeNext]_runtime => SomePart'
  BY OnePart DEF SomePart, Runs
<1>3. QED BY <1>1, <1>2, PTL DEF RuntimeSpec

(* The parts around a request and its execution, and those around them.     *)
WorkTyped ==
    /\ ~Runs("checkpoints") \/ Checks!TypeOK
    /\ ~Runs("convergence") \/ Passes!TypeOK
    /\ ~Runs("goal") \/ Goals!TypeOK
    /\ ~Runs("loop") \/ Loop!TypeOK
    /\ ~Runs("delegation") \/ Delegates!TypeOK
    /\ ~Runs("model") \/ Model!TypeOK
    /\ ~Runs("tools") \/ Tools!TypeOK
    /\ ~Runs("gates") \/ Gates!TypeOK

StoresTyped ==
    /\ ~Runs("board") \/ Board!TypeOK
    /\ ~Runs("context") \/ Context!TypeOK
    /\ ~Runs("chunks") \/ Chunks!TypeOK
    /\ ~Runs("index") \/ Index!TypeOK
    /\ ~Runs("prompt") \/ Prompt!TypeOK

(* Every part stays within its types, for every value of the constants.     *)
THEOREM PartsAreTyped == RuntimeSpec => []RuntimeTypeOK
<1>1. RuntimeSpec => [](~Runs("checkpoints") \/ Checks!TypeOK)
  <2>1. ChecksInv => Checks!TypeOK
    BY DEF ChecksInv
  <2>2. Checks!Spec => []ChecksInv
    BY RuntimeAssumption, ChecksAlways
  <2>3. QED BY <2>1, <2>2, ChecksBehaviour, PTL
<1>2. RuntimeSpec => [](~Runs("convergence") \/ Passes!TypeOK)
  <2>1. Passes!Spec => [](Passes!ConvergedIsWhole /\ Passes!TypeOK)
    BY RuntimeAssumption, WholeConvergence
  <2>2. QED BY <2>1, PassesBehaviour, PTL
<1>3. RuntimeSpec => [](~Runs("goal") \/ Goals!TypeOK)
  <2>1. Goals!Spec => []Goals!TypeOK
    BY RuntimeAssumption, TypeCorrect
  <2>2. QED BY <2>1, GoalsBehaviour, PTL
<1>4. RuntimeSpec => [](~Runs("loop") \/ Loop!TypeOK)
  <2>1. LoopInv => Loop!TypeOK
    BY RuntimeAssumption, LoopIsTyped
  <2>2. Loop!Spec => []LoopInv
    BY RuntimeAssumption, LoopInvariant
  <2>3. QED BY <2>1, <2>2, LoopBehaviour, PTL
<1>5. RuntimeSpec => [](~Runs("delegation") \/ Delegates!TypeOK)
  <2>1. DelegatesInv => Delegates!TypeOK
    BY DEF DelegatesInv
  <2>2. Delegates!Spec => []DelegatesInv
    BY RuntimeAssumption, DelegatesAlways
  <2>3. QED BY <2>1, <2>2, DelegatesBehaviour, PTL
<1>6. RuntimeSpec => [](~Runs("model") \/ Model!TypeOK)
  <2>1. ModelInv => Model!TypeOK
    BY DEF ModelInv
  <2>2. Model!Spec => []ModelInv
    BY RuntimeAssumption, ModelAlways
  <2>3. QED BY <2>1, <2>2, ModelBehaviour, PTL
<1>7. RuntimeSpec => [](~Runs("board") \/ Board!TypeOK)
  <2>1. BoardInv => Board!TypeOK
    BY DEF BoardInv
  <2>2. QED BY <2>1, BoardAlways, BoardBehaviour, PTL
<1>8. RuntimeSpec => [](~Runs("context") \/ Context!TypeOK)
  <2>1. ContextInv => Context!TypeOK
    BY DEF ContextInv
  <2>2. Context!Spec => []ContextInv
    BY RuntimeAssumption, ContextAlways
  <2>3. QED BY <2>1, <2>2, ContextBehaviour, PTL
<1>9. RuntimeSpec => [](~Runs("chunks") \/ Chunks!TypeOK)
  <2>1. ChunkInv => Chunks!TypeOK
    BY DEF ChunkInv
  <2>2. Chunks!Spec => []ChunkInv
    BY RuntimeAssumption, ChunkInvariant
  <2>3. QED BY <2>1, <2>2, ChunksBehaviour, PTL
<1>10. RuntimeSpec => [](~Runs("index") \/ Index!TypeOK)
  <2>1. IndexInv => Index!TypeOK
    BY DEF IndexInv
  <2>2. Index!Spec => []IndexInv
    BY RuntimeAssumption, IndexAlways
  <2>3. QED BY <2>1, <2>2, IndexBehaviour, PTL
<1>11. RuntimeSpec => [](~Runs("prompt") \/ Prompt!TypeOK)
  <2>1. ConsoleInv => Prompt!TypeOK
    BY DEF ConsoleInv
  <2>2. Prompt!Spec => []ConsoleInv
    BY RuntimeAssumption, ConsoleAlways
  <2>3. QED BY <2>1, <2>2, PromptBehaviour, PTL
<1>12. RuntimeSpec => [](~Runs("tools") \/ Tools!TypeOK)
  <2>1. ToolsInv => Tools!TypeOK
    BY DEF ToolsInv
  <2>2. Tools!Spec => []ToolsInv
    BY RuntimeAssumption, ToolsAlways
  <2>3. QED BY <2>1, <2>2, ToolsBehaviour, PTL
<1>13. RuntimeSpec => [](~Runs("gates") \/ Gates!TypeOK)
  <2>1. Gates!Spec => []Gates!TypeOK
    BY RuntimeAssumption, GatesAreTyped
  <2>2. QED BY <2>1, GatesBehaviour, PTL
<1>14. RuntimeSpec => []WorkTyped
  <2>1. /\ ~Runs("checkpoints") \/ Checks!TypeOK
        /\ ~Runs("convergence") \/ Passes!TypeOK
        /\ ~Runs("goal") \/ Goals!TypeOK
        /\ ~Runs("loop") \/ Loop!TypeOK
        /\ ~Runs("delegation") \/ Delegates!TypeOK
        /\ ~Runs("model") \/ Model!TypeOK
        /\ ~Runs("tools") \/ Tools!TypeOK
        /\ ~Runs("gates") \/ Gates!TypeOK
        => WorkTyped
    BY DEF WorkTyped
  <2>2. QED BY <2>1, <1>1, <1>2, <1>3, <1>4, <1>5, <1>6, <1>12, <1>13, PTL
<1>15. RuntimeSpec => []StoresTyped
  <2>1. /\ ~Runs("board") \/ Board!TypeOK
        /\ ~Runs("context") \/ Context!TypeOK
        /\ ~Runs("chunks") \/ Chunks!TypeOK
        /\ ~Runs("index") \/ Index!TypeOK
        /\ ~Runs("prompt") \/ Prompt!TypeOK
        => StoresTyped
    BY DEF StoresTyped
  <2>2. QED BY <2>1, <1>7, <1>8, <1>9, <1>10, <1>11, PTL
<1>16. SomePart /\ WorkTyped /\ StoresTyped => RuntimeTypeOK
  BY Zenon DEF RuntimeTypeOK, WorkTyped, StoresTyped, SomePart, Runs
<1>17. QED BY <1>14, <1>15, <1>16, OneOfTheParts, PTL

=============================================================================
