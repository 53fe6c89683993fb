------------------------------ MODULE ToolCall ------------------------------
(***************************************************************************)
(* One call of a tool: WorkspaceTools.execute_async and the gates it       *)
(* passes (runtime/policies.py, hooks.py, tool_governance.py,              *)
(* mutation_policy.py), the bodies of the tools, and the processes they    *)
(* run (runtime/process.py).  Calls of several agents are under way at     *)
(* once.                                                                   *)
(*                                                                         *)
(* read and write run in a worker thread, which a cancellation does not    *)
(* stop; cli (run_cli, run_powershell) and spawn (a subagent with mutation)*)
(* ask the operator on the event loop itself, which stands still meanwhile.*)
(* A path or a command is abstracted to whether the code calls it unsafe;  *)
(* what may make a tool refuse it (scopes, size, binary or missing files,  *)
(* a CLI not on the PATH) is a choice.                                     *)
(***************************************************************************)
EXTENDS Naturals, FiniteSets

CONSTANTS
    Call,            \* the calls under way
    Nobody,          \* holds a free lock
    MaxCancels       \* bound: cancellations one call meets

ToolCallAssumption == Nobody \notin Call /\ MaxCancels \in Nat

VARIABLES
    mode,            \* permission_mode
    request,         \* Call -> the tool and its arguments
    stage,           \* Call -> where its coroutine stands
    thread,          \* Call -> where its worker thread stands
    process,         \* Call -> its process, and whoever holds its pipes
    why,             \* Call -> why its process is being stopped
    cancels,         \* Call -> cancellations met
    prompt,          \* the holder of _APPROVAL_PROMPT_LOCK
    loop,            \* the call whose question stops the event loop
    file             \* whether the file that they all name exists

vars == <<mode, request, stage, thread, process, why, cancels, prompt, loop, file>>

Tool == {"read", "write", "cli", "spawn"}
Request == [tool : Tool, overwrite : BOOLEAN, unsafe : BOOLEAN, grant : BOOLEAN]
Threaded == {"read", "write"}
Waiting == {"checking", "asking", "cleared"}      \* a thread that has not ended

TypeOK ==
    /\ mode \in {"strict", "balanced", "auto"}
    /\ request \in [Call -> Request]
    /\ stage \in [Call -> {"idle", "authorizing", "hooks", "preparing", "asking", "cleared",
                           "awaiting", "running", "stopping", "reaping", "finishing", "returned"}]
    /\ thread \in [Call -> Waiting \cup {"none", "done", "failed", "unavailable"}]
    /\ process \in [Call -> {"none", "running", "held", "gone"}]
    /\ why \in [Call -> {"none", "timeout", "callback", "cancelled", "abandoned"}]
    /\ cancels \in [Call -> 0..MaxCancels]
    /\ prompt \in Call \cup {Nobody} /\ loop \in Call \cup {Nobody}
    /\ file \in BOOLEAN

Init ==
    /\ mode = "balanced"
    /\ request = [c \in Call |-> [tool |-> "read", overwrite |-> FALSE,
                                  unsafe |-> FALSE, grant |-> FALSE]]
    /\ stage = [c \in Call |-> "idle"] /\ thread = [c \in Call |-> "none"]
    /\ process = [c \in Call |-> "none"] /\ why = [c \in Call |-> "none"]
    /\ cancels = [c \in Call |-> 0]
    /\ prompt = Nobody /\ loop = Nobody /\ file = FALSE

-----------------------------------------------------------------------------
(* The gates *)

(* PolicyEvaluation: what the policies that apply oblige to.                *)
Enforced(decisions, approved, validated) ==
    /\ "deny" \notin decisions
    /\ "require_approval" \in decisions => approved
    /\ "require_validation" \in decisions => validated

HookEffects == SUBSET {"block", "require_validation"}

(* HookManager.emit: a hook may block, or ask for a validation.             *)
HooksPass(effects, validated) ==
    /\ "block" \notin effects
    /\ "require_validation" \in effects => validated

ShouldConfirm(unsafe) ==                          \* should_confirm_action
    mode = "strict" \/ (mode = "balanced" /\ unsafe)

(* resolve_mutation_grant, as execute_async asks it: only the operator's    *)
(* mode turns the model's request into a grant.                             *)
Granted(r) == r.grant \/ mode # "strict"

(* When the body of a tool asks the operator.  A write looks at the file    *)
(* here, and again only when it replaces it.                                *)
ReadAsks(r) == r.unsafe /\ mode # "auto"            \* ensure_read_allowed
WriteAsks(r) == ShouldConfirm(r.unsafe \/ r.overwrite \/ file)
CliAsks(r) == ShouldConfirm(r.unsafe)
SpawnAsks == ShouldConfirm(TRUE)

-----------------------------------------------------------------------------
(* The coroutine; it moves only while the event loop does *)

At(c, place) == loop = Nobody /\ stage[c] = place
Goes(c, place) == stage' = [stage EXCEPT ![c] = place]
Returns(c) == Goes(c, "returned")                 \* with an answer, or raising

gates == <<mode, request, prompt, loop, file>>
bodies == <<thread, process, why>>

SetMode ==                                        \* /mode, between turns
    /\ \A c \in Call : stage[c] \in {"idle", "returned"}
    /\ mode' \in {"strict", "balanced", "auto"}
    /\ UNCHANGED <<request, stage, bodies, cancels, prompt, loop, file>>

Begin(c) ==                                       \* validate_tool_arguments
    /\ loop = Nobody /\ stage[c] \in {"idle", "returned"} /\ thread[c] \notin Waiting
    /\ \E r \in Request :
          /\ request' = [request EXCEPT ![c] = r]
          /\ r.overwrite => r.tool = "write"
          /\ r.grant => r.tool = "spawn"
    /\ Goes(c, "authorizing")
    /\ thread' = [thread EXCEPT ![c] = "none"] /\ process' = [process EXCEPT ![c] = "none"]
    /\ why' = [why EXCEPT ![c] = "none"] /\ cancels' = [cancels EXCEPT ![c] = 0]
    /\ UNCHANGED <<mode, prompt, loop, file>>

Authorize(c) ==                                   \* PolicyEngine.enforce
    /\ At(c, "authorizing")
    /\ \E passes \in {Enforced(decisions, approved, validated) :
              decisions \in SUBSET {"deny", "require_approval", "require_validation"},
              approved \in BOOLEAN, validated \in BOOLEAN} :
          IF passes THEN Goes(c, "hooks") ELSE Returns(c)
    /\ UNCHANGED <<gates, bodies, cancels>>

BeforeHooks(c) ==                                 \* before_tool, before_write
    /\ At(c, "hooks")
    /\ \E passes \in {HooksPass(effects, FALSE) : effects \in HookEffects} :
          IF ~passes THEN Returns(c) /\ UNCHANGED thread
          ELSE IF request[c].tool \in Threaded
               THEN Goes(c, "awaiting") /\ thread' = [thread EXCEPT ![c] = "checking"]
               ELSE Goes(c, "preparing") /\ UNCHANGED thread
    /\ UNCHANGED <<gates, process, why, cancels>>

Prepares(c, asks) ==
    /\ \/ Returns(c) /\ UNCHANGED loop
       \/ asks /\ Goes(c, "asking") /\ loop' = c
       \/ ~asks /\ Goes(c, "cleared") /\ UNCHANGED loop
    /\ UNCHANGED <<mode, request, prompt, file, bodies, cancels>>

PrepareCli(c) ==                                  \* _prepare_cli_request
    /\ At(c, "preparing") /\ request[c].tool = "cli"
    /\ Prepares(c, CliAsks(request[c]))

(* spawn_subagent, asked for mutation, up to its confirmation.              *)
PrepareSpawn(c) ==
    /\ At(c, "preparing") /\ request[c].tool = "spawn"
    /\ IF Granted(request[c]) THEN Prepares(c, SpawnAsks)
       ELSE Returns(c) /\ UNCHANGED <<gates, bodies, cancels>>

(* run_stream: the process starts, or cannot; a subagent just works.        *)
Start(c) ==
    /\ At(c, "cleared")
    /\ \/ /\ Goes(c, "running")
          /\ process' = [process EXCEPT ![c] =
                IF request[c].tool = "cli" THEN "running" ELSE "gone"]
       \/ Returns(c) /\ UNCHANGED process
    /\ UNCHANGED <<gates, thread, why, cancels>>

(* The process and both readers are done.                                   *)
Complete(c) ==
    /\ At(c, "running") /\ process[c] = "gone" /\ Goes(c, "finishing")
    /\ UNCHANGED <<gates, bodies, cancels>>

Stop(c, cause) ==
    /\ Goes(c, "stopping") /\ why' = [why EXCEPT ![c] = cause]
    /\ UNCHANGED <<thread, process>>

(* The timeout, or a reader whose callback failed.                          *)
GivesUp(c) ==
    /\ At(c, "running") /\ request[c].tool = "cli"
    /\ \E cause \in {"timeout", "callback"} : Stop(c, cause)
    /\ UNCHANGED <<gates, cancels>>

(* _stop_process: terminate, a grace period, kill.                          *)
Terminated(c) ==
    /\ At(c, "stopping") /\ process[c] # "running" /\ Goes(c, "reaping")
    /\ UNCHANGED <<gates, bodies, cancels>>

Kill(c) ==
    /\ At(c, "stopping") /\ process[c] = "running" /\ Goes(c, "reaping")
    /\ process' \in {[process EXCEPT ![c] = to] : to \in {"held", "gone"}}
    /\ UNCHANGED <<gates, thread, why, cancels>>

(* The last gather: a reader that failed has ended, and reads no more.      *)
Reaped(c) ==
    /\ At(c, "reaping") /\ Returns(c)
    /\ process[c] = "gone" \/ (why[c] = "callback" /\ process[c] = "held")
    /\ UNCHANGED <<gates, bodies, cancels>>

ThreadReturns(c) ==
    /\ At(c, "awaiting") /\ thread[c] \notin Waiting
    /\ IF thread[c] = "unavailable" THEN Returns(c) ELSE Goes(c, "finishing")
    /\ UNCHANGED <<gates, bodies, cancels>>

(* The post-write callback, the artifact of a long result, the hooks after: *)
(* if they fail the answer is an error, whatever the body has done.         *)
Finish(c) ==
    /\ At(c, "finishing") /\ Returns(c)
    /\ UNCHANGED <<gates, bodies, cancels>>

(* Faulty variant: a cancelled call leaves its process to itself.           *)
CancelledRunsOn(c) == Returns(c) /\ UNCHANGED bodies

(* A process is stopped before the cancellation goes on; a thread is not,   *)
(* and a cancellation that arrives while the process is being stopped goes  *)
(* on at once.                                                              *)
Cancelled(c) ==
    IF stage[c] = "running" /\ request[c].tool = "cli" THEN Stop(c, "cancelled")
    ELSE /\ Returns(c) /\ UNCHANGED <<thread, process>>
         /\ why' = IF why[c] = "none" THEN why ELSE [why EXCEPT ![c] = "abandoned"]

Cancel(c) ==
    /\ loop = Nobody /\ cancels[c] < MaxCancels
    /\ stage[c] \in {"hooks", "awaiting", "running", "stopping", "reaping", "finishing"}
    /\ cancels' = [cancels EXCEPT ![c] = @ + 1]
    /\ Cancelled(c) /\ UNCHANGED gates

-----------------------------------------------------------------------------
(* Worker threads, which no one waits for once their call is cancelled *)

Moves(c, to) == thread' = [thread EXCEPT ![c] = to]
elsewhere == <<mode, request, stage, process, why, cancels, loop>>

(* The path leaves the scopes, or the file cannot be read or written.       *)
Refuses(c) == Moves(c, "failed")

ReadChecks(c) ==                                  \* list_dir, read_file, search_text
    /\ thread[c] = "checking" /\ request[c].tool = "read"
    /\ \/ Refuses(c)
       \/ Moves(c, IF ReadAsks(request[c]) THEN "asking" ELSE "cleared")
    /\ UNCHANGED <<elsewhere, prompt, file>>

(* write_file; a file that exists needs overwrite=true.                     *)
WriteChecks(c) ==
    /\ thread[c] = "checking" /\ request[c].tool = "write"
    /\ \/ Refuses(c)
       \/ /\ file => request[c].overwrite
          /\ Moves(c, IF WriteAsks(request[c]) THEN "asking" ELSE "cleared")
    /\ UNCHANGED <<elsewhere, prompt, file>>

ThreadReads(c) ==
    /\ thread[c] = "cleared" /\ request[c].tool = "read"
    /\ Refuses(c) \/ Moves(c, "done")
    /\ UNCHANGED <<elsewhere, prompt, file>>

ThreadWrites(c) ==                                \* guarded_write_text, write_text
    /\ thread[c] = "cleared" /\ request[c].tool = "write"
    /\ \/ Refuses(c) /\ UNCHANGED file
       \/ Moves(c, "done") /\ file' = TRUE
    /\ UNCHANGED <<elsewhere, prompt>>

Unlink ==                                         \* somebody removes the file
    /\ file /\ file' = FALSE
    /\ UNCHANGED <<elsewhere, thread, prompt>>

-----------------------------------------------------------------------------
(* The operator: confirm_action *)

TakePrompt(c) ==
    /\ prompt = Nobody /\ "asking" \in {stage[c], thread[c]} /\ prompt' = c
    /\ UNCHANGED <<elsewhere, thread, file>>

AnswerLoop(c) ==
    /\ prompt = c /\ stage[c] = "asking"
    /\ prompt' = Nobody /\ loop' = Nobody
    /\ Goes(c, "cleared") \/ Returns(c)
    /\ UNCHANGED <<mode, request, file, bodies, cancels>>

AnswerThread(c) ==
    /\ prompt = c /\ thread[c] = "asking" /\ prompt' = Nobody
    /\ \E to \in {"cleared", "failed", "unavailable"} : Moves(c, to)
    /\ UNCHANGED <<elsewhere, file>>

-----------------------------------------------------------------------------
(* The process, and what it has started and left with its pipes *)

ProcessMoves(c) ==
    /\ \/ /\ process[c] = "running"
          /\ \E to \in {"held", "gone"} : process' = [process EXCEPT ![c] = to]
       \/ process[c] = "held" /\ process' = [process EXCEPT ![c] = "gone"]
    /\ UNCHANGED <<gates, stage, thread, why, cancels>>

Next ==
    \/ SetMode \/ Unlink
    \/ \E c \in Call :
          \/ Begin(c) \/ Authorize(c) \/ BeforeHooks(c) \/ PrepareCli(c) \/ PrepareSpawn(c) \/ Start(c)
          \/ Complete(c) \/ GivesUp(c) \/ Terminated(c) \/ Kill(c) \/ Reaped(c)
          \/ ThreadReturns(c) \/ Finish(c) \/ Cancel(c)
          \/ ReadChecks(c) \/ WriteChecks(c) \/ ThreadReads(c) \/ ThreadWrites(c)
          \/ TakePrompt(c) \/ AnswerLoop(c) \/ AnswerThread(c) \/ ProcessMoves(c)

Spec == Init /\ [][Next]_vars

-----------------------------------------------------------------------------
(* However a call of run_cli ends (an answer, the timeout, a callback that  *)
(* fails, a cancellation at any point), its process has ended first, and so *)
(* has whatever still holds the process's pipes: "sem deixar processos      *)
(* órfãos" (ProcessRunner.run_stream).  Two exceptions: a cancellation that *)
(* arrives while the process is already being stopped leaves the process    *)
(* itself, and after a callback that failed nobody waits for a holder of    *)
(* that callback's pipe.                                                    *)
NoProcessIsLeft ==
    \A c \in Call :
        stage[c] = "returned" /\ why[c] # "abandoned" =>
            \/ process[c] \in {"none", "gone"}
            \/ why[c] = "callback" /\ process[c] = "held"

=============================================================================
