------------------------------ MODULE Runtime ------------------------------
(***************************************************************************)
(* The parts of the runtime around plans and their execution, one module   *)
(* each.  The parts share no state, so that what one of them does and what *)
(* another does can be told one after the other: a behaviour belongs to    *)
(* one of them, and the variables s1, s2, ... hold the state of that part  *)
(* (the ones it leaves over hold nothing).                                 *)
(***************************************************************************)
EXTENDS Naturals

CONSTANTS
    Path, Content, MaxCheckpoint, Absent,       \* Checkpoints; files of CodeIndex
    Tasks, Mutating, Criteria, Evidence,        \* Convergence
    MaxPasses, MaxRepairs, MaxProcesses,
    Worker, Effect, MaxRevisions, MaxGoalRepairs,   \* GoalWorkflow
    MaxSteps, MaxProtocol, MaxCalls, MaxMessages,   \* AgentLoop
    Parent, Specialist, Capability, Skills,     \* Delegation: who delegates
    MaxSubagents, MaxRequest,
    Agent, Visible, Retries, MaxChunks,         \* ModelRequest
    MaxTools, MaxAsked,
    PanelTool,                                  \* TaskBoard: what is shown
    Process, Thread, Home, Artifact,            \* ContextStore
    MaxRefs, MaxUsage,
    MaxLines, MaxLength, MaxPieces,             \* Chunking
    Text, Writer, Explorer, Stray, MaxUpdate,   \* CodeIndex: who writes
    Workspace, MaxItems,                        \* Console
    Call, MaxCancels,                           \* ToolCall
    Requirement, Official, MaxTasks,            \* SpecGate
    Nobody, Nothing                             \* what a variable holds instead

VARIABLES
    part,            \* whose behaviour this is
    s1, s2, s3, s4, s5, s6, s7, s8, s9, s10, s11, s12, s13

-----------------------------------------------------------------------------
(* The parts.  A constant that is not given a value here is the one above.  *)

Checks == INSTANCE Checkpoints WITH
    file <- s1, taken <- s2, manifest <- s3, made <- s4,
    working <- s5, restoring <- s6, slipped <- s7

Passes == INSTANCE Convergence WITH
    spec <- s1, process <- s2, pass <- s3, states <- s4, review <- s5,
    blocked <- s6, repairs <- s7, ended <- s8, history <- s9, found <- s10,
    phase <- s11, result <- s12

Goals == INSTANCE GoalWorkflow WITH
    MaxRepairs <- MaxGoalRepairs, stage <- s1, goal <- s2, full <- s3,
    revision <- s4, revisions <- s5, scope <- s6, analysed <- s7,
    approved <- s8, repairs <- s9, worker <- s10, expansion <- s11,
    inflight <- s12, effects <- s13

Loop == INSTANCE AgentLoop WITH
    protocol <- s1, phase <- s2, messages <- s3, turnStart <- s4,
    modelStep <- s5, invalid <- s6

Delegates == INSTANCE Delegation WITH
    Caller <- Parent, call <- s1, request <- s2, started <- s3, work <- s4,
    stray <- s5

Model == INSTANCE ModelRequest WITH
    req <- s1, asked <- s2, answering <- s3, indicators <- s4, shown <- s5

Board == INSTANCE TaskBoard WITH
    Tool <- PanelTool,
    writer <- s1, board <- s2, todo <- s3, open <- s4, shown <- s5,
    refresher <- s6, stop <- s7, disabled <- s8, worker <- s9, asker <- s10

Context == INSTANCE ContextStore WITH
    artifact <- s1, disk <- s2, memory <- s3, index <- s4, job <- s5

Chunks == INSTANCE Chunking WITH
    MaxChunks <- MaxPieces, text <- s1, format <- s2, chunks <- s3,
    failed <- s4

Index == INSTANCE CodeIndex WITH
    Task <- Writer,
    file <- s1, primary <- s2, spare <- s3, stamp <- s4, index <- s5,
    lock <- s6, run <- s7, report <- s8, unsynced <- s9, since <- s10,
    overtaken <- s11

Prompt == INSTANCE Console WITH
    where <- s1, command <- s2, reason <- s3, workspace <- s4, serving <- s5,
    planning <- s6, api <- s7, messages <- s8, before <- s9, items <- s10,
    digest <- s11, files <- s12, parting <- s13

Tools == INSTANCE ToolCall WITH
    file <- s1, request <- s2, stage <- s3, thread <- s4, process <- s5,
    why <- s6, cancels <- s7, prompt <- s8, loop <- s9, mode <- s10

Gates == INSTANCE SpecGate WITH
    spec <- s1, tasks <- s2, stage <- s3, scan <- s4, full <- s5,
    plan <- s6, verdict <- s7

(* The assumptions of the parts on their constants.                         *)
ASSUME RuntimeAssumption ==
    /\ Checks!CheckpointAssumption
    /\ Passes!ConvergenceAssumption
    /\ Goals!GoalAssumption
    /\ Loop!LoopAssumption
    /\ Delegates!DelegationAssumption
    /\ Model!ModelRequestAssumption
    /\ Board!BoardAssumption
    /\ Context!HomeAssumption
    /\ Chunks!LengthAssumption
    /\ Index!IndexAssumption
    /\ Prompt!ConsoleAssumption
    /\ Tools!ToolCallAssumption
    /\ Gates!SpecGateAssumption

-----------------------------------------------------------------------------

(* The variables that a part leaves over.                                  *)
free13 == s13
free12 == <<s12, free13>>
free11 == <<s11, free12>>
free10 == <<s10, free11>>
free9 == <<s9, free10>>
free8 == <<s8, free9>>
free7 == <<s7, free8>>
free6 == <<s6, free7>>
free5 == <<s5, free6>>

Free13 == s13 = Nothing
Free12 == s12 = Nothing /\ Free13
Free11 == s11 = Nothing /\ Free12
Free10 == s10 = Nothing /\ Free11
Free9 == s9 = Nothing /\ Free10
Free8 == s8 = Nothing /\ Free9
Free7 == s7 = Nothing /\ Free8
Free6 == s6 = Nothing /\ Free7
Free5 == s5 = Nothing /\ Free6

RuntimeInit ==
    \/ part = "checkpoints" /\ Checks!Init /\ Free8
    \/ part = "convergence" /\ Passes!Init /\ Free13
    \/ part = "goal" /\ Goals!Init
    \/ part = "loop" /\ Loop!Init /\ Free7
    \/ part = "delegation" /\ Delegates!Init /\ Free6
    \/ part = "model" /\ Model!Init /\ Free6
    \/ part = "board" /\ Board!Init /\ Free11
    \/ part = "context" /\ Context!Init /\ Free6
    \/ part = "chunks" /\ Chunks!Init /\ Free5
    \/ part = "index" /\ Index!Init /\ Free12
    \/ part = "prompt" /\ Prompt!Init
    \/ part = "tools" /\ Tools!Init /\ Free11
    \/ part = "gates" /\ Gates!Init /\ Free8

ChecksStep ==
    /\ part = "checkpoints" /\ Checks!Next
    /\ UNCHANGED <<part, free8>>

PassesStep ==
    /\ part = "convergence" /\ Passes!Next
    /\ UNCHANGED <<part, free13>>

GoalsStep ==
    /\ part = "goal" /\ Goals!Next
    /\ UNCHANGED part

LoopStep ==
    /\ part = "loop" /\ Loop!Next
    /\ UNCHANGED <<part, free7>>

DelegatesStep ==
    /\ part = "delegation" /\ Delegates!Next
    /\ UNCHANGED <<part, free6>>

ModelStep ==
    /\ part = "model" /\ Model!Next
    /\ UNCHANGED <<part, free6>>

BoardStep ==
    /\ part = "board" /\ Board!Next
    /\ UNCHANGED <<part, free11>>

ContextStep ==
    /\ part = "context" /\ Context!Next
    /\ UNCHANGED <<part, free6>>

ChunksStep ==
    /\ part = "chunks" /\ Chunks!Next
    /\ UNCHANGED <<part, free5>>

IndexStep ==
    /\ part = "index" /\ Index!Next
    /\ UNCHANGED <<part, free12>>

PromptStep ==
    /\ part = "prompt" /\ Prompt!Next
    /\ UNCHANGED part

ToolsStep ==
    /\ part = "tools" /\ Tools!Next
    /\ UNCHANGED <<part, free11>>

GatesStep ==
    /\ part = "gates" /\ Gates!Next
    /\ UNCHANGED <<part, free8>>

RuntimeNext ==
    \/ ChecksStep \/ PassesStep \/ GoalsStep \/ LoopStep \/ DelegatesStep
    \/ ModelStep \/ BoardStep \/ ContextStep \/ ChunksStep \/ IndexStep
    \/ PromptStep \/ ToolsStep \/ GatesStep

runtime == <<part, s1, s2, s3, s4, s5, s6, s7, s8, s9, s10, s11, s12, s13>>

RuntimeSpec == RuntimeInit /\ [][RuntimeNext]_runtime

-----------------------------------------------------------------------------

(* Every part stays within its types.                                       *)
RuntimeTypeOK ==
    CASE part = "checkpoints" -> Checks!TypeOK
      [] part = "convergence" -> Passes!TypeOK
      [] part = "goal" -> Goals!TypeOK
      [] part = "loop" -> Loop!TypeOK
      [] part = "delegation" -> Delegates!TypeOK
      [] part = "model" -> Model!TypeOK
      [] part = "board" -> Board!TypeOK
      [] part = "context" -> Context!TypeOK
      [] part = "chunks" -> Chunks!TypeOK
      [] part = "index" -> Index!TypeOK
      [] part = "prompt" -> Prompt!TypeOK
      [] part = "tools" -> Tools!TypeOK
      [] part = "gates" -> Gates!TypeOK

(* A rollback writes over a file only what the tool of that checkpoint made *)
(* of it: no later edit, by whoever, is lost to it, except one that the     *)
(* seal took for the tool's and one made since the file was compared.       *)
(* (CheckpointManager.rollback.)                                            *)
LaterEditsSurvive ==
    [][part = "checkpoints" => Checks!EditsSurvive]_runtime

(* A repair that convergence takes over from an earlier process was done    *)
(* for the very gap that it repairs now.  (RunJournal.register_tasks.)      *)
SeedsFitTheirGap == part = "convergence" => Passes!SeedsFitTheirGap

(* A run that has converged has completed every repair it began, keeps a    *)
(* result of, or for, every task, and none that speaks against a criterion. *)
(* (ConvergenceRunner.run.)                                                 *)
ConvergedIsWhole == part = "convergence" => Passes!ConvergedIsWhole

(* Whatever happens to the workspace was planned by a revision that the     *)
(* operator had approved, and that passed the analysis where there is one;  *)
(* outside the full workflow no goal is completed while a task waits for    *)
(* more.  (PlanExecutionWorkspaceTools, run_goal_workflow.)                 *)
EffectsWereApproved ==
    part = "goal" =>
        Goals!EffectsWereApproved /\ Goals!ExpansionIsReplannedInPasses

(* Every request to the model is one the provider takes, however the        *)
(* conversation was cut: each call of a tool with its results, in order,    *)
(* the newest state of every kind, and the active turn message by message.  *)
(* (prepare_messages, _run_agent_until_final_impl.)                         *)
RequestsAreWhole == part = "loop" => Loop!RequestsAreWhole

(* A delegation that may mutate has one subagent at work, and none once it  *)
(* is over, whatever raises, times out or is cancelled; an answer says what *)
(* timed out, which is when a thread may still write.  (delegate_task.)     *)
MutatorsWorkAlone == part = "delegation" => Delegates!MutatorsWorkAlone

(* What is shown of an answer is the answer, once, whatever is tried again; *)
(* and only requests that are open have an indicator that turns.            *)
(* (create_chat_completion_with_retry, TerminalEventConsumer.)             *)
ShownIsTheAnswer ==
    part = "model" => Model!ShownIsTheAnswer /\ Model!IndicatorsAreWaiting

(* The panel shows as running what runs, and nothing else, between any two  *)
(* events.  (TerminalTaskBoard.)                                            *)
ShownRunningRuns == part = "board" => Board!ShownRunningRuns

(* What a session, a process or its index names can be read in full, after  *)
(* any crash, and nothing is named twice.  (ArtifactStore, ContextEngine.)  *)
NamedIsReadable == part = "context" => Context!NamedIsReadable

(* Every line that says something is in a chunk, but for what stands before *)
(* the first declaration of a source file that is not Python.  (Ingestor.)  *)
EveryLineIsInAChunk == part = "chunks" => Chunks!EveryLineIsInAChunk

(* What a tool wrote is in the index as it is, from memory and from every   *)
(* cache file a crash may leave; a report that is reused says what its      *)
(* files say.  (CodeIndexer, CodeIntelligenceRuntime.)                      *)
IndexFollowsWrites ==
    part = "index" =>
        Index!IndexFollowsWrites /\ Index!ReusedReportsAreCurrent

(* At an exit that reports no failure, what was said is filed where it was  *)
(* said; a change of the workspace, which is no exit, saves nothing.        *)
(* (persist_history_on_exit.)                                               *)
WhatWasSaidIsFiled == part = "prompt" => Prompt!WhatWasSaidIsFiled

(* No call of a tool that is over has left its process behind.              *)
(* (ProcessRunner.run_stream, WorkspaceTools.execute_async.)                *)
NoProcessIsLeft == part = "tools" => Tools!NoProcessIsLeft

(* A plan that reaches the operator beside official documents traces all    *)
(* they say.  (SpecKitAnalyzeGate.analyze.)                                 *)
ApprovedPlansTraceTheSpec == part = "gates" => Gates!ApprovedPlansTraceTheSpec

=============================================================================
