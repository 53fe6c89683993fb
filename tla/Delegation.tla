----------------------------- MODULE Delegation -----------------------------
(***************************************************************************)
(* Delegation of tasks to subagents: WorkspaceTools.delegate_task and      *)
(* spawn_subagent (AgenteGlobalCore.py), the admission controller          *)
(* (runtime/delegation.py) and the capability cover it asks the agent      *)
(* registry for (runtime/agent_registry.py).                               *)
(*                                                                         *)
(* Several tasks of a plan share one runner, so several delegations may be *)
(* under way.  Each has an entry in call (where it stands, the agents it   *)
(* chose, what it needs) and in work (where each of its subagents stands). *)
(* A read-only delegation starts its subagents together and waits with     *)
(* asyncio.gather; one that may mutate awaits them one after the other.    *)
(* A subagent writes in a worker thread (asyncio.to_thread), which neither *)
(* a time-out nor a cancellation stops: stray has those left behind.       *)
(***************************************************************************)
EXTENDS Integers, FiniteSets, Sequences

CONSTANTS Caller,        \* the tasks that may delegate
          Specialist,    \* the registered agents, 1..n in the order of their ids
          Capability,
          Skills,        \* the capabilities of each agent
          MaxSubagents,  \* --max-subagents: admissions per user request
          MaxRequest     \* bound: the user requests explored

DelegationAssumption ==
    /\ Specialist \subseteq Nat /\ IsFiniteSet(Specialist)
    /\ Skills \in [Specialist -> SUBSET Capability]
    /\ MaxSubagents \in Nat /\ MaxRequest \in Nat \ {0}

VARIABLES call,      \* per caller: phase, chosen agents, mutation, need
          work,      \* per caller and agent: the subagent's phase
          stray,     \* per caller: agents of the delegation whose thread was left
          started,   \* subagents_started, reset by each user request
          request    \* user requests so far

delegationVars == <<call, work, stray, started, request>>

Quiet == {"none", "done", "expired", "raised", "cancelled"}
Alive == {"called", "admitting", "working", "writing"}

TypeOK ==
    /\ call \in [Caller -> [phase : {"idle", "awaiting", "answered", "local", "failed", "cancelled"},
                            chosen : Seq(Specialist), mutation : BOOLEAN,
                            need : SUBSET Capability]]
    /\ work \in [Caller -> [Specialist -> Quiet \cup Alive]]
    /\ stray \in [Caller -> SUBSET Specialist]
    /\ started \in 0..MaxSubagents
    /\ request \in 1..MaxRequest

NoCall == [phase |-> "idle", chosen |-> <<>>, mutation |-> FALSE, need |-> {}]

Init ==
    /\ call = [c \in Caller |-> NoCall]
    /\ work = [c \in Caller |-> [a \in Specialist |-> "none"]]
    /\ stray = [c \in Caller |-> {}]
    /\ started = 0
    /\ request = 1

-----------------------------------------------------------------------------
(* The cover: the agent that covers most of what is missing, the first in  *)
(* the order of the ids on a tie, until nothing is missing; <<>> when the  *)
(* best of those left covers none of it.  The other tie-breaks (preferred  *)
(* capabilities, operation, context, length of the id) are left out.       *)

Best(missing, pool) ==
    CHOOSE a \in pool :
        \A b \in pool \ {a} :
            LET gain(x) == Cardinality(missing \cap Skills[x])
            IN  gain(a) > gain(b) \/ (gain(a) = gain(b) /\ a < b)

Missing(need, list, n) == need \ UNION {Skills[list[i]] : i \in 1..n}
Left(list, n) == Specialist \ {list[i] : i \in 1..n}

Covers(list, need) ==
    /\ Missing(need, list, Len(list)) = {}
    /\ \A n \in DOMAIN list :
        LET missing == Missing(need, list, n - 1)
            pool == Left(list, n - 1)
        IN  /\ list[n] \in pool /\ list[n] = Best(missing, pool)
            /\ missing \cap Skills[list[n]] # {}

\* decide: a task that mutates goes to the agents whose manifest permits it (all
\* of them here, the grant being the operator's); no cover means a local execution.
Decide(need) ==
    LET lists == UNION {[1..n -> Specialist] : n \in 0..Cardinality(Specialist)}
    IN  IF \E list \in lists : Covers(list, need)
        THEN CHOOSE list \in lists : Covers(list, need) ELSE <<>>

Remaining == IF started < MaxSubagents THEN MaxSubagents - started ELSE 0

\* delegate_task takes as many of the selected agents as slots remain.
Selected(need) ==
    LET cover == Decide(need)
    IN  SubSeq(cover, 1, IF Len(cover) < Remaining THEN Len(cover) ELSE Remaining)

-----------------------------------------------------------------------------
Chosen(c) == {call[c].chosen[i] : i \in DOMAIN call[c].chosen}

\* Faulty variant: several agents always start together.
EachTogether(mutation, chosen) == Len(chosen) = 1

\* The mutating delegations, and those of a single agent, take one agent at a time.
OneByOne(mutation, chosen) == mutation \/ Len(chosen) = 1

StartsWith(mutation, chosen) ==
    [a \in Specialist |->
        IF \/ ~ OneByOne(mutation, chosen) /\ \E i \in DOMAIN chosen : chosen[i] = a
           \/ chosen # <<>> /\ a = Head(chosen)
        THEN "called" ELSE "none"]

\* A task delegates.  Its subagents of an earlier delegation have ended (others
\* may still run: each caller stands for one task at a time).  Threads they left
\* behind go on; only those of the delegation under way are followed.
Ask(c, need, mutation) ==
    /\ call[c].phase # "awaiting"
    /\ \A a \in Specialist : work[c][a] \in Quiet
    /\ need # {}
    /\ LET chosen == Selected(need)
       IN  /\ call' = [call EXCEPT ![c] =
                [phase |-> IF chosen = <<>> THEN "local" ELSE "awaiting",
                 chosen |-> chosen, mutation |-> mutation, need |-> need]]
           /\ work' = [work EXCEPT ![c] = StartsWith(mutation, chosen)]
           /\ stray' = [stray EXCEPT ![c] = {}]
    /\ UNCHANGED <<started, request>>

\* Faulty variant: one admission more.
AllTakenLater == started > MaxSubagents

AllTaken == started >= MaxSubagents

\* spawn_subagent takes a slot under _subagent_lock: the count is checked again,
\* whatever the delegation saw.  A slot is never handed back.
Reserve(c, a) ==
    /\ work[c][a] = "called"
    /\ IF AllTaken
       THEN /\ work' = [work EXCEPT ![c][a] = "raised"]
            /\ UNCHANGED started
       ELSE /\ work' = [work EXCEPT ![c][a] = "admitting"]
            /\ started' = started + 1
    /\ UNCHANGED <<call, stray, request>>

\* BEFORE_AGENT_SPAWN: a hook lets the subagent work or blocks it.
Admit(c, a) ==
    /\ work[c][a] = "admitting"
    /\ \E allowed \in BOOLEAN :
         work' = [work EXCEPT ![c][a] = IF allowed THEN "working" ELSE "raised"]
    /\ UNCHANGED <<call, stray, started, request>>

\* write_file in a worker thread, which the subagent awaits.
Writes(c, a) ==
    /\ work[c][a] = "working" /\ call[c].mutation
    /\ work' = [work EXCEPT ![c][a] = "writing"]
    /\ UNCHANGED <<call, stray, started, request>>

Written(c, a) ==
    /\ work[c][a] = "writing"
    /\ work' = [work EXCEPT ![c][a] = "working"]
    /\ UNCHANGED <<call, stray, started, request>>

\* The next agent of a delegation that takes them one at a time.
CallsNext(c, a, after) ==
    LET chosen == call[c].chosen
        here == CHOOSE i \in DOMAIN chosen : chosen[i] = a
        follows == /\ call[c].phase = "awaiting"
                   /\ OneByOne(call[c].mutation, chosen)
                   /\ here < Len(chosen)
    IN  IF follows THEN [after EXCEPT ![chosen[here + 1]] = "called"] ELSE after

\* The subagent ends with a result: its own, or a failed one for an oversized
\* answer or an invalid payload.
Finish(c, a) ==
    /\ work[c][a] = "working"
    /\ work' = [work EXCEPT ![c] = CallsNext(c, a, [@ EXCEPT ![a] = "done"])]
    /\ UNCHANGED <<call, stray, started, request>>

Leaves(c, agents) ==
    stray' = [stray EXCEPT ![c] = @ \cup {a \in agents : work[c][a] = "writing"}]

\* asyncio.timeout: the delegation goes on with a failed result, and the thread
\* with its write.
TimesOut(c, a) ==
    /\ work[c][a] \in {"working", "writing"}
    /\ work' = [work EXCEPT ![c] = CallsNext(c, a, [@ EXCEPT ![a] = "expired"])]
    /\ Leaves(c, {a})
    /\ UNCHANGED <<call, started, request>>

\* An error of its model calls, or an AFTER_AGENT_SPAWN hook, raises instead; the
\* hook is called after a time-out too.
Raises(c, a) ==
    /\ work[c][a] \in {"working", "writing"}
    /\ work' = [work EXCEPT ![c][a] = "raised"]
    /\ Leaves(c, {a})
    /\ UNCHANGED <<call, started, request>>

\* The first exception ends the delegation; gather leaves the other subagents
\* running.
Fail(c) ==
    /\ call[c].phase = "awaiting"
    /\ \E a \in Chosen(c) : work[c][a] = "raised"
    /\ call' = [call EXCEPT ![c].phase = "failed"]
    /\ UNCHANGED <<work, stray, started, request>>

Answer(c) ==
    /\ call[c].phase = "awaiting"
    /\ \A a \in Chosen(c) : work[c][a] \in {"done", "expired"}
    /\ call' = [call EXCEPT ![c].phase = "answered"]
    /\ UNCHANGED <<work, stray, started, request>>

\* The task is cancelled or times out: the cancellation reaches what it awaits,
\* and no thread.
Cancel(c) ==
    /\ call[c].phase = "awaiting"
    /\ call' = [call EXCEPT ![c].phase = "cancelled"]
    /\ work' = [work EXCEPT ![c] =
          [a \in Specialist |-> IF @[a] \in Alive THEN "cancelled" ELSE @[a]]]
    /\ Leaves(c, Specialist)
    /\ UNCHANGED <<started, request>>

\* The user's next request: every delegation is over, not every subagent.
NewRequest ==
    /\ request < MaxRequest
    /\ \A c \in Caller : call[c].phase # "awaiting"
    /\ request' = request + 1
    /\ started' = 0
    /\ UNCHANGED <<call, work, stray>>

Moves(c, a) ==
    Reserve(c, a) \/ Admit(c, a) \/ Writes(c, a) \/ Written(c, a) \/ Raises(c, a)
Ends(c, a) == Finish(c, a) \/ TimesOut(c, a)

Next ==
    \/ NewRequest
    \/ \E c \in Caller :
        \/ \E need \in SUBSET Capability, mutation \in BOOLEAN : Ask(c, need, mutation)
        \/ \E a \in Specialist : Moves(c, a) \/ Ends(c, a)
        \/ Fail(c) \/ Answer(c) \/ Cancel(c)

Spec == Init /\ [][Next]_delegationVars

-----------------------------------------------------------------------------
\* A delegation that may mutate has one subagent at work at a time, which it
\* awaits, and none once it is over, whatever raises, times out or is cancelled;
\* no agent is called before those chosen ahead of it have a result.
\* That is no promise about threads: the write of a subagent that timed out or
\* was cancelled goes on, beside that of the next subagent.  But a delegation
\* that has an answer has left such a thread only where one of its results says
\* that a subagent timed out.  (delegate_task, spawn_subagent.)
MutatorsWorkAlone ==
    \A c \in Caller : call[c].mutation =>
        LET busy == {a \in Specialist : work[c][a] \in Alive}
        IN  /\ Cardinality(busy) <= 1
            /\ call[c].phase # "awaiting" => busy = {}
            /\ \A i, j \in DOMAIN call[c].chosen :
                  i < j /\ work[c][call[c].chosen[j]] # "none" =>
                      work[c][call[c].chosen[i]] \in {"done", "expired"}
            /\ call[c].phase = "answered" /\ stray[c] # {} =>
                  \E a \in Chosen(c) : work[c][a] = "expired"
=============================================================================
