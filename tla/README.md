# AgenteGlobal in TLA+

AgenteGlobal is a terminal agent: a language model plans work as a DAG of
tasks, the operator approves the plan, a scheduler runs the tasks with bounded
concurrency and resource locks, results are journalled, reviewed and repaired,
and an interrupted run can be resumed. This directory specifies the part of it
where order, failure and concurrency decide what is correct, checks it with TLC
on small instances and proves its safety, where it can, with TLAPS for all of
them.

Paths below are relative to `src/AgenteGlobal/`; *Core* is
`AgenteGlobalCore.py`.

| module | what it is | code |
|---|---|---|
| `ResourceLocks` | lease operators: normalise, conflict, acquire, release | `runtime/scheduler.py` 36-96 |
| `TaskTable` | the fields of a plan that decide when a task runs; DAG validity, write set, clash | `runtime/scheduler.py`, `runtime/contracts.py` |
| `TaskLifecycle` | abstract: what a scheduler pass promises per task | (a promise, no code) |
| `DAGScheduler` | the scheduler coroutine, await by await | `runtime/scheduler.py` 98-559, `runtime/hooks.py` |
| `MCDAGScheduler` | its instances: every DAG of three tasks, three resource shapes | |
| `DAGSchedulerProofs` | theorems: types, locks, exclusion, its other invariants, the refinement of `TaskLifecycle` | |
| `PlanExecution` | passes, repair rounds, journal, crash, resume | Core 4662-5199, `runtime/run_journal.py`, `runtime/reviewer.py` |
| `MCPlanExecution` | its instances: two plans of three tasks | |
| `PlanExecutionProofs` | theorems about it | |
| `PlanRegistry` | abstract: what the plan store promises its readers | (a promise, no code) |
| `PlanStore` | plan files, publication in two writes, revisions, /run | `runtime/planning.py`, Core 4114-4182, 4429-4505, 4686-4696 |
| `PlanStoreProofs` | theorems about it | |
| `GoalWorkflow` | a goal: plan, approval, revision, scope of each effect, expansion | Core 4237-4426, 5202-5485 |
| `SpecGate` | official documents, clarifications, analysis of a plan against them | `runtime/spec_kit.py`, `runtime/spec_workflow.py` |
| `Enumeration` | a set in an order, the part of a sequence at some indices, without recursion | the comprehensions and `sorted` of the next modules' code |
| `Convergence` | gaps, repair passes, what a later process takes over | `runtime/convergence.py`, Core 5086-5166, `register_tasks` |
| `Checkpoints` | guarded writes, seals, rollback, other writers, crash | `runtime/checkpoints.py` |
| `AgentLoop` | model turns and tool calls, the cut of the conversation | Core 5582-6016, `runtime/context_window.py` |
| `ModelRequest` | streams, errors, retries, what the terminal shows | Core 1170-1396, `llm/huawei_maas.py`, `runtime/observers.py` |
| `ToolCall` | one call: gates, prompts, threads, processes, cancellations | Core 1792-3160, `runtime/process.py` and the policies |
| `Delegation` | covers of capabilities, slots, subagents together or one by one | Core 2484-2871, `runtime/delegation.py`, `runtime/agent_registry.py` |
| `TaskBoard` | the task panel: two locks, three threads, late events | `runtime/terminal_task_board.py`, `runtime/observers.py` |
| `ContextStore` | artifacts in three writes, the session that names them, the index | `runtime/artifacts.py`, `session_state.py`, `context_engine.py` |
| `Chunking` | from a text to its chunks, format by format | `runtime/ingestion.py` |
| `CodeIndex` | the code index on disk and in memory, cancelled writers, reused reports | `codeintel/index.py`, `runtime.py`, `explorer.py` |
| `Console` | the prompt loop: turns, failures, history, exits | Core 6055-7260 |
| `LSPClient` | requests over a pipe, time-outs, cancellations, restarts | `codeintel/lsp.py` 225-876 |
| `DocumentSync` | documents as the registry and the server have them | `codeintel/lsp.py` 893-1100, `codeintel/documents.py` |
| `MCLanguageServer` | instances of `LSPClient` and `DocumentSync`, side by side | |
| `LanguageServerProofs` | theorems about them | |
| `Runtime` | the thirteen modules from `GoalWorkflow` to `Console`, side by side | |
| `MCRuntime` | a small instance of it | |
| `ConversationProofs` | theorems about sorts and filters, requests of the agent loop, chunks; base of the next three | |
| `GoalWorkflowProofs` | theorems about the goal workflow | |
| `RuntimeProofs` | theorems about requests, rollbacks, tool calls, panel, delegation, context store | |
| `WorkspaceProofs` | theorems about gate, console, convergence, code index, and the types of all parts | |

## The system

### Components, state, operations

**Resource locks** (`runtime/scheduler.py`). State: the leases held, each a
task with its normalised read set and write set. Operations: find the tasks a
request conflicts with, acquire all of it or nothing, release by task. Correct
when two tasks that clash never hold leases together. Callers: the scheduler
alone. Hard: release happens in four places, some of them after an await.

**DAG scheduler** (`runtime/scheduler.py`). State: per task a status, an
attempt and a reason; the set of tasks put aside for a resource; the leases;
the dict of running futures. Operation: `run`, one coroutine with a loop that
promotes, starts, waits and completes, and a cancellation handler. It calls
hooks and emits events, suspending each time. Correct when clashing tasks
never execute together, tasks run only over completed dependencies, retries
and concurrency stay within limits, nobody is left behind, the loop ends, and
a cancelled run is left with no executor. Hard: BLOCKED means two things (for
a resource, for good); decisions are taken on lists collected before an await;
a cancellation can arrive at any of some fifteen awaits, twice.

**Hooks** (`runtime/hooks.py`). State: ordered handlers per point. A handler
may block (`HookError`), change its payload, raise. Correct when a refusal is
honoured (fail-closed) and a refused task leaves nothing behind.

**Run journal** (`runtime/run_journal.py`). State: one JSON file per run (its
status; per task a status, an attempt, a side-effect state, a result) and a
snapshot. Operations: create, start a task, update a task, mark the run,
record a pass, derive the recovery state, prepare a resume, register repair
tasks. Each is one atomic file replacement. Correct when a completed effect is
not repeated, an interrupted effect that may not be repeated is not, and a
resume starts from what really happened. Hard: crashes between any two writes.

**Plan execution** (Core, `run_plan_execution`). State: the round of the
repair loop, the tasks to repair, seeds, the approval; it drives the scheduler,
the journal, the reviewer, the convergence engine. Correct when only a whole,
reviewed run is called completed, repairs invalidate what depends on them, and
the loop is bounded. Hard: its memory dies with the process, the journal does
not.

**Reviewer** (`runtime/reviewer.py`, Core 4520-4659). No state; a verdict and
task ids to repair, closed under dependents.

**Plan store** (`runtime/planning.py`). State: a file per plan revision and a
pointer file repeating the current one. Operations: next id, save, load,
revise. Correct when revisions never change, readers see plans grow by one
revision at a time, and only the current revision is executed. Hard: a
publication is two writes; the lock is per instance, the directory is shared.

**Goal and plan workflows** (Core 4429-4505, 5202-5485). State: the goal's
status, the plan in hand, revision budget, approvals. Plans, asks, revises,
executes, replans on a larger scope.

**Specification gate** (`runtime/spec_kit.py`, `runtime/spec_workflow.py`).
State: the documents as scanned, the plan in hand, the verdict. Scans, asks
for what is ambiguous and writes the answers back, scans again, compares a plan
with the official tasks. Correct when a plan that reaches the approval traces
all the documents say. Hard: documents, plan and tasks are compared by names,
over revisions, and the file is written from what was read earlier.

**Convergence** (`runtime/convergence.py`). State: the pass, the gaps, the
repair tasks and their ends. Evaluates, builds repairs, registers them in the
journal, runs them, reviews. Correct when it never reports convergence with
work undone, and takes over from an earlier process only what fits. Hard:
repair ids restart in every process, the journal does not.

**Checkpoints** (`runtime/checkpoints.py`). State: a manifest and copies of
files. Create, guarded write, seal, roll back. Correct when a rollback never
destroys a change made after the guarded one. Hard: the workspace has other
writers, whom no lock keeps out between a comparison and a write, and a rollback
restores one file after another.

**Agent loop** (Core 5582-6016) and **conversation budget**
(`runtime/context_window.py`). State: the messages, the step, the repairs of
the result protocol left. Correct when the loop ends and each request is one
the provider takes: a call with all its results, the system message, the active
turn. Hard: turns end anywhere, and the cut must not fall into a group.

**Model requests** (Core 1170-1396, `llm/`). State per attempt: what was
streamed, what was shown. Correct when what is shown is what is recorded.
Hard: an error in the middle of a stream, several agents on one terminal.

**Tool calls** (Core 1792-3160, `tool_governance.py`, `policies.py`,
`mutation_policy.py`, `process.py`). State: where the coroutine stands, its
thread or process, the prompt's lock. Gates in order: policy, hooks before,
confirmation, body, callback, hooks after. Correct when a call that is over has
left nothing at work. Hard: threads cannot be stopped, cancellations arrive at
every await, a confirmation may stop the whole event loop.

**Delegation** (Core 2484-2871, `delegation.py`, `agent_registry.py`). State:
the slots of the request, the subagents of each delegation. Correct when slots
are not exceeded and a delegation that may mutate has one subagent at work at a
time, which it awaits; the thread in which a subagent writes outlives its time-out
or cancellation (`stray`). Hard: `gather`, exceptions and threads.

**Task panel** (`terminal_task_board.py`, `observers.py`). State: the tasks
shown, a refresher thread, two reentrant locks. Correct when it shows what
runs, and draws without stopping the program. Hard: three threads.

**Context store** (`artifacts.py`, `session_state.py`, `context_engine.py`).
State: a directory per artifact, a session file, its copy in memory, an index.
Correct when what is named can be read. Hard: four files, crashes, threads.

**Ingestion** (`ingestion.py`). Pure: a text becomes units, units become
chunks. Correct when no line is lost and no chunk exceeds its limit; the code
does lose lines, those before the first declaration of a source file that is
not Python (488-491), and the property says that it loses no others.

**Code index** (`codeintel/index.py`, `runtime.py`, `explorer.py`). State: a
file and a spare, the index in memory, a lock, reports with digests. Correct
when it follows the writes. Hard: threads outlive their callers and the lock.

**Console** (Core 6055-7260). State: the conversation, the mode, the digest of
the last save, the workspace. Correct when what was said is filed at an
exit; `/workspace` leaves the loop without saving. Hard: any command may fail,
be withdrawn or be interrupted between digest and file.

**LSP client** (`codeintel/lsp.py`). State: the server process, pending
requests by number, registrations, the lifecycle lock; documents with versions.
Start, request, cancel, stop, reader; open, change, close. Correct when each
request gets its own answer or an error, documents stay in step, and nobody is
left waiting. Hard: two number spaces on one pipe, time-outs racing answers, a
reader that fails everything at once, servers that die behind the manager's
back, a restart that opens the documents one by one, waits without a time-out.

**Not modelled**: MCP (`runtime/mcp*.py`, the same protocol as the LSP client
with less of it), the event bus and metrics, skills, cloud scope, memory, user
profile, retrieval, the parsers, configuration: classification, ranking,
parsing, text, layout. `PROJECT.json` lists every component with its files.

### Interaction

    operator --> goal workflow --> plan store (files)
                      |                 ^ current revision?
                      v                 |
                 run_plan_execution ----+--> run journal (file) <-- /resume
                      |      ^
                 scheduler   reviewer, convergence --> repairs
                 |   |  \
             hooks locks executors: agent loop --> model requests --> panel
                                    |      |
                             delegation   tool calls --> checkpoints, code
                                                         index, language server,
                                                         context store, processes

Everything runs in one asyncio loop; tools run in threads and servers in
processes. State survives in files only. Two programs can work in one
workspace.

## The plan

1. `ResourceLocks`, `TaskTable`, `DAGScheduler` against `TaskLifecycle`: the
   scheduler is where a mistake mutates files twice. **Done**, with proofs of
   every invariant, of the transitions and of the refinement.
2. `PlanExecution`, built on the steps of `TaskLifecycle` instead of the
   scheduler's (the refinement justifies it). **Done**, with proofs of its
   invariants and action properties.
3. `PlanStore` against `PlanRegistry`. **Done**, with proofs of its invariants
   and of the refinement for one process.
4. `LSPClient`, `DocumentSync`, composed in `MCLanguageServer`. **Done**, with
   proofs of their invariants.
5. The parts around the execution, composed in `Runtime`: `GoalWorkflow`,
   `SpecGate`, `Convergence`, `Checkpoints`, `AgentLoop`, `ModelRequest`,
   `ToolCall`, `Delegation`, `TaskBoard`, `ContextStore`, `Chunking`,
   `CodeIndex`, `Console`. **Done**, model-checked.
6. The safety of all thirteen, and their types. **Done**: every invariant and
   every action property of a run is a theorem, the converged run, the cut of a
   conversation and the chunks of a text included, which needed filters and
   sorts that are not recursive (`Enumeration`). What is left is out of the
   prover's reach (see "Checked by TLC only").
7. Left to model: the bus's order of delivery, the table of server requests the
   LSP client answers, the operator's questions (`workflow_support.py`), MCP.

## The scheduler

`DAGScheduler` follows `run` statement by statement where the order matters.
`pc` is the loop or the await the coroutine is in, `todo` the part of the list
it iterates over, `current` the task in hand. Between two awaits nothing else
can happen; at an await (`suspended`) executors end and the operator's
cancellation arrives. A transition emits an event, which suspends, so nearly
every action sets `suspended`. The correspondence:

| code | actions |
|---|---|
| emissions before `try` (430-447) | `BeginPass`, `CancelOpening` |
| the promotion loop (451-480) | `PromoteFinal`, `PromoteBlock`, `PromoteRetry`, `PromoteReady`, `PromoteRecheck`, `PromoteLeave` |
| the start loop (482-527) | `BeginStarting`, `StartBlocked`, `StartAcquire`, `HookAllowsStart`, `HookRefusesStart`, `Spawn`, `EndStarting` |
| no future, nothing to start (536-546) | `DeadlockBlock`, `EndDeadlock` |
| `asyncio.wait` and completion (322-408, 529-534) | `Wake`, `CompleteNext`, `HookAcceptsResult`, `HookRefusesResult`, `HookRaises` |
| executors (410-428) | `ExecutorReturns`, `ExecutorTimesOut` |
| the `except CancelledError` handler (547-559) | `CancelPass`, `CancelHandler`, `Gathered`, `Drained`, `Sweep`, `EndSweep` |

The plan is a variable chosen in `Init` and never changed, so that one run
covers every DAG. Resources are names with an arbitrary normalisation: two
spellings of one file are two names with one normal form. Results are reduced
to what completion tells apart. A seed (a task completed in an earlier pass)
is a task whose status starts COMPLETED.

`TaskLifecycle` is what a caller wants to believe: a task becomes active only
over succeeded dependencies, beside nothing it clashes with, with a slot and a
try left; it is given up only because a hook refused it, a dependency came to a
bad end, or the operator stopped the run; an end is final. The refinement maps
READY, PENDING, FAILED_RETRYABLE and BLOCKED-for-a-resource to "waiting".

**`Scheduler`** (about 830,000 states). Every DAG over three tasks (cyclic
tables are rejected by `validate_dag` and never run), three shapes of resource
use (two writers and a reader of one file under two spellings, a mutation that
declares nothing, a task that names the whole workspace), one retry for one
task, concurrency two, up to two cancellations. Three tasks are enough for a
chain, a fork, a join, and for two tasks that compete while a third depends on
one of them; two slots for three tasks make a slot scarce; two cancellations
reach the handler's own awaits.

- `ExclusiveExecution`: clashing tasks never execute together. The clash is
  read off the plan (who changes what another touches), not off the locks.
- `NoLeaseLeak`, `ResourceBlockIsTemporary`: while the scheduler sleeps exactly
  the running tasks hold leases, and a task put aside is put aside for one that
  will wake the scheduler.
- `NoTaskAbandoned`: at a normal end, whoever did not complete has a reason of
  its own or a dependency that did not complete.
- `CancelledRunIsQuiet`: a cancellation that was handled leaves no executor.
- `LegalTransitions`: a status changes only as `_ALLOWED_TRANSITIONS` says.
- `ImplementsLifecycle` and `Termination`. Fairness: the event loop runs a
  coroutine that can proceed (weak fairness of the scheduler's step) and every
  executor ends, because each is wrapped in `asyncio.wait_for` with a time-out
  (410-428); cancelling is never assumed.

## The execution of a plan

`PlanExecution` keeps two kinds of state apart: `durable` (the journal file)
and `memory` (the process). `place` says what the process is doing. A pass is
made of `TaskLifecycle` steps (`Pass!Start`, `Pass!End`, ...), with what
`execute_task` writes in the journal added to them: it publishes RUNNING when
it starts, a result before the scheduler sees it, and nothing when its body
raises or is cancelled. `CancelRun`, `FailRun` (a hook or a journal write that
raises) and `Crash` end a process at any point, `Resume` starts another from the
journal.

The variables `stale`, `refused`, `interrupted`, `terminalResume` and
`resumed` are history: they record facts about the durable state that the code
does not keep and that the properties speak about. No guard reads the first
four; `resumed` bounds the number of resumes.

**`PlanExecution`**: a chain of three tasks and a plan with a dependency
against the order of the table; one task reads, one mutates and may be
repeated, one mutates and may not; one repair round, one resume, one retry.

- `NoReplay`: a completed task starts again only if a repair asked for it, so
  the journal's replay guard never has to raise.
- `InterruptedEffectWaits`: after an unrepeatable effect is cut short, no
  process works on the run again.
- `CompletedRunIsWhole`: a run becomes completed only with every task completed
  in the journal, whatever the reviewer said.
- `FreshWithoutResume`: an approved run that was never resumed holds no result
  computed from a superseded one.
- `ProcessEnds`: under weak fairness of the process's own steps (executors and
  reviewers have time-outs) each process returns the run.

Four runs look for what the repository's own words promise and the code does
not keep. Each has one property, and TLC finds it violated:

| run | promised | what happens |
|---|---|---|
| `ResumeTerminal` | `run_journal.py:700` a terminal run's state stays stable across /resume | `prepare_resume` leaves it alone, its caller executes it all the same |
| `ResumeAmbiguous` | Core 4707: a resume requires ambiguous effects to be revalidated | only RUNNING tasks are looked at; a failed one is reset or executed with its effect in doubt |
| `ResumeStale` | `reviewer.py:71` dependents of a repaired task are revalidated | a crash in the middle of a repair forgets the targets, and old results seed the run |
| `ResumeRefused` | `hooks.py:104` hooks fail closed | a result is durable before its hook refuses it |

## The plan store

Processes share two kinds of files and nothing else. `Submit` is the part of
`save` or `revise` up to the first write, `WriteRevision` and `WritePointer`
are the two `os.replace`, `WriteFails` an `OSError` in either, `Leave` the end
of a process's work by any means, a kill included. `origin` stands for
`created_at`, which `revise` compares. `Load` is /run and /resume; `Execute` is
the check at the head of `run_plan_execution`.

**`PlanStore`** checks one process, two plan numbers and three revisions (two
texts, so that two documents can differ): the current plan always ends a
complete record (`CurrentIsRecorded`), a revision is never replaced
(`RevisionsImmutable`), what starts to execute is the stored current plan word
for word although the code compares numbers only (`ExecutedIsCurrent`), and the
files implement a registry that only appends (`ImplementsRegistry`). Three
revisions reach a failed publication before, on and after a revision; the
system never stops, so deadlock is checked.

**`PlanStoreStuck`** and **`PlanStoreRace`** disagree with the docstrings of
the module. After an interrupted publication the store answers
`PlanConflictError` ("overwrite or revise a stale plan snapshot") to a planner
with nothing stale, and will do so at every later attempt: for a first
revision because `next_plan_id` counts pointers only, for a later one because
its number is taken. With two programs in one workspace both find a revision
free, and the second replaces the first one's "immutable" file.

## The language server

`LSPClient` follows a caller through the lifecycle lock, `start`, `_stop_impl`
and `_request_raw`, with a place (`step`) for each await; `ServerStep` is the
reader task with what the server sent it. A question is what was asked under a
number, so that an answer can be told from another; `owed` is what the server
has still to say, in any order, or never. A server may stop reading its input
(`deaf`): a write then blocks, at the pipe's lock or in `drain` (692-695),
outside any time-out, and only the end of the process or a cancellation frees
it. One that is gone may have left a process that keeps its stderr open
(`heir`), and stopping it then waits for an end that does not come (859). A
caller can be cancelled wherever it waits for the server.

`DocumentSync` keeps three views of a document: the registry's version, whether
the manager has booked it as opened (`synced`), and the version the server has.
A notification reaches the server or not, and is confirmed or fails or is cut
off either way (`Fallback`). `restart` un-books everything and opens each
document again, one await after the other, each of which may fail ("reopen"); it
is taken as an operation on each open document (nothing in the repository calls
it, and two operations on one document do not overlap), and the text it reads
again to be the one the registry counted.

**`LanguageServer`** (972,322 states): two callers, two pending numbers,
three numbers in all, two lives of the server; two documents of two versions.
Two callers make one wait for the lock or for the other's answer, three numbers
let a number be late while two others are pending, the second life shows what
the first one left behind.

- `RightAnswer`: what a request returns is the answer to what it asked.
- `CapabilitiesOfThisServer`: between starts and stops nothing an earlier
  process registered is believed.
- `NothingHangs`: every request, start and stop ends and the lifecycle lock is
  given back, with two exceptions that the code does not prevent: a write to a
  server that reads no more, and the end of a stderr that another process
  holds (`Stuck`). Fairness: the event loop goes on with a caller that can
  proceed, whose wait for an answer ends at its time-out if not before, and with
  a reader that has failed; the server owes nothing, it may be silent for ever.
- `InStep`: when an operation on an open document is over, one of a restart
  included, the server has the document at the registry's version, unless
  sending its text last failed or was cut off (`lost`). The exception is
  `misbooked`: a server that died by itself, or read a close that was not
  confirmed, has none of a document that is still booked, and the next change
  is sent to it as a change; it has no older text of it either. Diagnostics for
  the present version are about the present text (`VersionNamesText`).

## The runtime around the execution

`Runtime` instantiates thirteen modules over shared variables and lets a
behaviour belong to one of them (`part`): they share no state in the model, so
their product would add nothing but size. Where one module needs another's
effect, it is in the module itself: the threads of `ToolCall` in
`GoalWorkflow`, the journal in `Convergence`, artifacts, session and index
together in `ContextStore`. The constants are those of the modules, the
assumption `RuntimeAssumption` is theirs together, and each property names the
module's own, where it is stated in full. `MCRuntime` gives the constants small
values, and keeps checkpoints and code index to what fits. **`Runtime`**
(2,324,871 states) checks one property per part, and the types of all
(`RuntimeTypeOK`). Exchanging the two workers, the two paths or the two texts
changes nothing, so the run uses that symmetry; it checks no liveness.

| part | bounds | property | what it says |
|---|---|---|---|
| `checkpoints` | two paths, one checkpoint; or one path, two checkpoints, their tools also at once; two texts | `LaterEditsSurvive` | a rollback writes over a file only what the tool of that checkpoint left, or an edit that the seal took for the tool's (`slipped`), or one made since this file was compared (`late`) |
| `convergence` | two tasks, two criteria, two passes of up to four repairs, two processes | `SeedsFitTheirGap`, `ConvergedIsWhole` | a result taken over was computed for this gap; a converged run has completed all it began and keeps nothing that speaks against a criterion |
| `goal` | two workers, two effects, one revision, one repair | `EffectsWereApproved` | each effect was in a revision approved, and analysed, before it; outside the full workflow no goal completes while a task waits for more |
| `loop` | two steps, one repair of the protocol, two calls, eight messages | `RequestsAreWhole` | for every budget, the cut conversation is one the provider takes, and has the first system message, of every kind of state the newest message itself, and the active turn message by message |
| `delegation` | two callers, two agents, two capabilities, three slots | `MutatorsWorkAlone` | a delegation that may mutate has one subagent at work, and none when it is over, and calls them in order; if it answers although a thread was left, a result tells of a time-out |
| `model` | two agents, one visible, one retry, two chunks | `ShownIsTheAnswer` | the shown text is the recorded one; an indicator turns only for an open attempt |
| `board` | two tools, three threads | `ShownRunningRuns` | what the panel shows as running runs |
| `context` | two processes of one thread, three artifacts, two references | `NamedIsReadable` | whatever a file, a memory or an index names can be read in full |
| `chunks` | four lines, chunks of two, every format | `EveryLineIsInAChunk` | the lines with text that are in no chunk are those before the first declaration of a source file that is not Python; no chunk is empty, over the limit or beyond the text |
| `index` (`CodeIndex`) | two updates; two paths, one text, writers in turn, files removed between updates; or one path, two texts, two writers at once | `IndexFollowsWrites` | what a successful tool wrote is known as it is, from memory and from each cache file a crash leaves; reused reports are current |
| `prompt` (`Console`) | two workspaces, four messages | `WhatWasSaidIsFiled` | after an exit that did not report a failed save, the conversation is in a file; not after `/workspace` (6901 returns without saving) or an exception a turn's handler does not name |
| `tools` (`ToolCall`) | two calls, one cancellation each | `NoProcessIsLeft` | a call that is over has left no process, unless it was cancelled while stopping it, and nobody with its pipes, unless a callback had failed |
| `gates` (`SpecGate`) | one requirement, two official tasks, plans of up to three tasks | `ApprovedPlansTraceTheSpec` | a plan put before the operator traces every requirement, and no question is open |

The bounds leave room for what goes wrong: two of whatever can overlap, one
more try, revision or pass than the case without trouble needs, a limit that is
reached. `CHECK_DEADLOCK` is off because parts end (a conversation is left, a
run converges) and because of the next run.

Each module has a `Spec` of its own. `Chunking` is an algorithm over bounded
inputs: `Init` holds every text of at most four lines, headings, blank lines,
declarations, inner and outer, and every format; `chunks` is what the ingestor
makes of it, and the property is the reference.

**`TaskBoardDeadlock`** looks for what the first line of
`terminal_task_board.py` promises, "Thread-safe terminal output primitives and
the task progress board": the event loop handles an event under the writer's
lock (`observers.py` 116) and takes the board's; the refresher renders under
the board's lock (480) and takes the writer's (179). TLC finds the two waiting
for each other. Neither lock has a time-out.

## Proofs

`DAGSchedulerProofs`, for every set of tasks and names, every normalisation,
plan, concurrency and number of cancellations, from the named assumptions of
`ResourceLocks`, `TaskTable` and `DAGScheduler` (finitely many tasks, a rank
that orders them, a reserved name for the workspace, plans of the right type):

- `TypeCorrect`: `Spec => []TypeOK`.
- `LocksHeld`: `Spec => []LockDiscipline`.
- `Exclusion`: `Spec => []ExclusiveExecution`.

`ExclusiveExecution` is not inductive: from a state where an executor runs
without a lease, the next acquisition may break it. `LockDiscipline` says why
it holds: every lease is the one its task asked for, no two conflict, and every
executing task is in `running`, has status RUNNING and owns its lease. To be
preserved it must also know what is being done: tasks listed for starting are
still READY (so nobody who executes is started again), tasks listed as
finished have ended (so their lease may go), and the task between its lease
and its coroutine still owns the lease across the awaits. The proof has a step
per action; the lemmas `LocksKept`, `AcquireKeeps` and `ReleaseKeeps` treat
the three things an action can do to leases, `ConflictSymmetric`, `LockType`
and `ClashIsConflict` the operators. `ClashIsConflict` joins the two notions:
tasks whose plan makes them clash ask for conflicting leases.

`PlanStoreProofs`, for any number of plans, revisions and texts, from
`StoreAssumption` (positive bounds, and `Nothing` is no document):

- `TypeCorrect`: `Spec => []TypeOK`, for any number of processes.
- `Recorded`, `Immutable`, `Current`: for one process, `CurrentIsRecorded`,
  `RevisionsImmutable` and `ExecutedIsCurrent`.
- `Refinement`: for one process, `Spec => ImplementsRegistry`.

"One process" is the hypothesis `OneProcess`; `PlanStoreRace` shows that it is
needed. The files alone are not inductive: replacing the pointer keeps the
record complete only if the plan in hand continues what the pointer holds.
`InHand` (in `PlanStore`) says that: a plan being revised is the current one, a
plan being written is numbered after it and keeps its origin, the file it will
be written to is free, a plan that was written or loaded is recorded under its
number. Interrupted publications leave files above the pointer; `InHand` keeps
only their numbers, because they are what later saves stumble over and what
`load` may return. In the refinement, `PointerPublishes` shows that replacing
the pointer appends one document to the history, `HistoryKept` that a revision
file written beside the record does not show.

Also in `DAGSchedulerProofs`, on top of `LocksHeld`:
`NoLeaseLeaks`, `AsideForSomebody`, `DependenciesAreHeld`, `NobodyAbandoned`,
`CancelledIsQuiet`, `TransitionsAreLegal`, `Finality`, and
`SchedulerImplementsLifecycle`. The scheduler decides on lists it collected
before an await and looks at nothing twice, so each of these needs to know what
the coroutine is in the middle of. The inductive invariant keeps one book per
question: who owns leases (`LeaseBook`: the tasks in `running` and the one
between its lease and its coroutine), who has status RUNNING (`RunningBook`),
for whom a task is put aside (`ResourceBook`), that dependencies of whoever is
started stay completed (`DependencyBook`), what each loop has left to do
(`ProgressBook`: only that makes "nobody is left behind" follow from a loop
that has ended), that a recorded reason is true and stays so (`ReasonBook`),
that only a cancelled run cleans up (`StopBook`). Each book has a lemma that
every step keeps it, citing the books it rests on. The refinement has a lemma
per kind of step: a start, a refusal, a result, a withdrawal maps to that step
of `TaskLifecycle`, everything else is invisible (`QuietStutters`). The one
step where it is not obvious is the deadlock loop: what it blocks depends,
perhaps over other blocked tasks, on one that came to a bad end
(`DeadlockIsDoomed`).

`PlanExecutionProofs`, for every plan and all bounds of rounds, retries and
resumes, from `PlansAssumption` and `ExecutionAssumption`: `TypeCorrect`,
`InterruptedWaits`, `FreshResults`, `NoWorkReplayed`, `CompletedIsWhole`.
`PassBook` says what the journal holds while memory says something of a task (a
result is durable before the scheduler sees it; whoever is active is RUNNING
there), `InterruptBook` that what was cut short is still RUNNING, which is what
makes each later resume refuse, `FreshBook` that in a run never resumed a
superseded result waits to be computed again because the closure of a repair
takes in every dependent (`ClosureClosed`), `NewBook` that there is nothing
before the run is created.

`LanguageServerProofs`, for any number of callers, numbers, lives of the
server, documents and versions, from `ClientAssumption` and
`DocumentsAssumption`, about `Servers`, the two modules side by side:
`ServersTypes`, `AnswersAreRight`, `CapabilitiesAreCurrent`,
`DocumentsAreInStep`. A right answer needs `NumberBook` (no two callers wait
under one number, and none above the last number given) and `AnswerBook`
(whatever the server still owes under a number somebody waits for is the answer
to that caller's question), because late answers to requests given up stay
under way. `AbilityBook` and `GoalBook` follow a start and a stop through their
awaits under the lifecycle lock, a registration being believed only while its
process is there. For documents,
`NoticeBook` says what is under way, `SyncBook` what the manager believes of the
server and where it is mistaken (`misbooked`), `TextBook` which text a version
names.

`ConversationProofs`, `GoalWorkflowProofs`, `RuntimeProofs` and
`WorkspaceProofs` are about the parts of `Runtime`; the first is the base of the
others. In each, a part is first taken by itself: an inductive invariant, a
lemma per action, a theorem `Assumption => (Spec => ...)` about the module's own
specification. `OnePart` (in `ConversationProofs`) then shows that a step of the
runtime is a step of the part the behaviour belongs to, so that a behaviour of
the runtime is, for each part, one of that part or one of another
(`ModelBehaviour`, `ChecksBehaviour`, ...), and the last theorems state the
properties of the run for `RuntimeSpec`:

| theorem | property | carried by |
|---|---|---|
| `EffectsStayApproved` | `EffectsWereApproved` | `RevisionBook`: what executes is the latest revision and is approved; `EffectBook`: also an effect that a thread has yet to have is of an approved revision, and revisions do not change (`ApprovedStays`); `GoalBook` |
| `AnswersAreShown` | `ShownIsTheAnswer` | `ModelBook`: an attempt that has shown text is not tried again, so shown and recorded text grow together |
| `LaterEditsAreKept` | `LaterEditsSurvive` | `CheckpointBook`: a sealed manifest has what the tool left, but for what slipped in before the seal; `RollbackBook`: what is still to be restored is as it was sealed, but for what was edited since it was compared |
| `ProcessesAreOver` | `NoProcessIsLeft` | `ProcessBook`: a process lives only under a call that is running or stopping it, its pipes also after a callback that failed |
| `PanelIsTrue` | `ShownRunningRuns` | `PanelBook`: what is shown, or will be by the rest of an event being handled, is open or about to be completed |
| `MutatorsAreAlone` | `MutatorsWorkAlone` | `AloneBook`: one of the chosen is at work, while the delegation is awaited and nobody has raised, those before it have results, those after it are not called; `StrayBook`: a thread left behind is that of a chosen agent that timed out, raised or was cancelled |
| `NamedStaysReadable` | `NamedIsReadable` | `SessionBook`: a session, also one under way to the disk, names only artifacts that are complete and no longer being stored; `StoreBook`: one thread per artifact, in a process that is up; `IndexBook` |
| `PlansTraceTheSpec` | `ApprovedPlansTraceTheSpec` | inductive as it stands, by `PassedTraces`: what passes the analysis traces every requirement through the official tasks |
| `ConversationsAreFiled` | `WhatWasSaidIsFiled` | `DigestBook`: the digest of the last save is that of a file of this workspace |
| `TakenOverFits` | `SeedsFitTheirGap` | `JournalBook`: a completed repair's result is for the gap of its specification; `RepairBook`: the repairs under way are those of this pass, whose ids no other pass uses |
| `IndexIsCurrent` | `IndexFollowsWrites` | `CallerBook`: who works holds the lock; `StampBook`: what is published is newest; `BuildBook`, `SyncBook`, `KnownBook`: what a writer holds, memory and the newest cache agree with the files that did not change; the last two while no thread has outlived its caller (`CalmBook`) |
| `RequestsStayWhole` | `RequestsAreWhole` | `TurnBook`: a conversation is whole (every call answered, in its place) whenever the model may be asked, and whole up to the calls under way while they run; `PreparedIsWhole`: so is what the cut keeps of it, for every budget, and the newest states and the turn are kept themselves (the messages are told apart by their places, `NumberedIs`); `OneQuestion`: a turn of the operator's agent has one prompt |
| `LinesStayInChunks` | `EveryLineIsInAChunk` | `UnitsAreDense`: the units of each format cover every line but the header of a source file, `UnitsStartAtDeclarations`: which they do not touch; `PiecesCoverTheUnit`: the pieces of a unit cover it; `CutsAreOrdered`: the sorted list has all pieces |
| `ConvergedStaysWhole` | `ConvergedIsWhole` | `StateBook`: every repair begun in an earlier pass has a state, and every task one of its own or that of a repair of its own; `EndedBook`: what a pass ended is what it began; `NoGapIsWhole`: an evaluation without gaps leaves nothing incomplete or unsatisfied |
| `PartsAreTyped` | `RuntimeTypeOK` | the types in each part's inductive invariant (`WorkTyped`, `StoresTyped`); `OneOfTheParts`: a behaviour belongs to one part |

The code filters and sorts lists. As recursive definitions, which the library's
are, these could only be reasoned about by induction over data. `Enumeration`
says where each element goes by how many come before it, so what is needed of
them is arithmetic on cardinalities of finite sets, which the provers have:
`InOrderEnumerates` (a finite set under a strict total order is listed
completely, once each, in that order) and `SelectKeeps` (a filter keeps the
chosen elements in the order they had, and those only).

These theorems hold for every value of the constants that meets
`RuntimeAssumption`, whose conjuncts are bounds, types and values kept apart
(`HomeAssumption` gives each thread its process). The greedy cover of a set of
capabilities is not recursive either: `Covers` says of a list of agents that
each is the best of those left for what is still missing; that a selection is a
list of agents is the lemma `SelectedIsASequence`. That a non-empty set of dates
has a latest one (`Latest`, for the caches of the code index) comes from the
well-foundedness of finite sets under inclusion.

Checked by TLC only: liveness (`Termination`, `ProcessEnds`, `NothingHangs`). The
prover has no reasoning about fairness and ENABLED.

## What is left out

- Event and hook payloads, messages, timestamps, JSON validation, file sizes,
  symlinks: data no property tells apart.
- Containment of paths: the code compares names, and the model does the same; a
  directory and a file inside it do not clash for either.
- In the scheduler, a tool's thread that goes on after its task timed out: an
  executor ends there when its future does. `GoalWorkflow` and `ToolCall` have
  the threads; that they write after the lease was released is nowhere stated
  to be excluded, and the code does not exclude it.
- Attempt numbers in the journal (`mark_task_started` rewrites them from the
  pass), the snapshot file (nothing reads it), `record_event` and
  `allow_recovery_review` (nobody calls them).
- A second cancellation during the handler, and hooks that raise something
  other than `HookError`, are in the model and end in `pc = "aborted"`;
  `ExclusiveExecution` covers them, nothing is promised about the rest.
- An edit between a tool's write and its seal, or between the comparison of a
  file and its restoration, a process that is cancelled while it is being
  stopped, a thread that outlives the caller of the code index or a
  subagent's time-out, a process with the pipes of a call whose callback failed,
  references that two threads of the context engine lose to each other: the
  models have these steps, the code does not prevent what they do, and the
  properties say which of them they except.
- Which file is which document, whether a command is unsafe, which criterion
  passes, what a search finds: choices, any of which may be the case.
- In `PlanExecution`, executors that are still at work when the scheduler ends by an
  exception (a hook or journal write that raises) or by a second Ctrl+C: `FailRun`
  and `CancelRun` end the process, and what such an executor writes to the journal
  afterwards is lost to the model.
- The clarifications of several documents are those of one, so a failure between two
  of them is `ClarifyFails` before or after all is written.
- The components listed as not modelled in `PROJECT.json`, with the reason for
  each.

## Running

    tlc -workers 2 -config Scheduler.cfg MCDAGScheduler
    tlc -workers 2 -config PlanExecution.cfg MCPlanExecution
    tlc -workers 2 -config PlanStore.cfg PlanStore
    tlc -workers 2 -config LanguageServer.cfg MCLanguageServer
    tlc -workers 2 -config Runtime.cfg MCRuntime
    tlc -workers 2 -config TaskBoardDeadlock.cfg TaskBoard
    tlapm DAGSchedulerProofs.tla
    tlapm PlanExecutionProofs.tla
    tlapm PlanStoreProofs.tla
    tlapm LanguageServerProofs.tla
    tlapm ConversationProofs.tla
    tlapm GoalWorkflowProofs.tla
    tlapm RuntimeProofs.tla
    tlapm WorkspaceProofs.tla
