--------------------------- MODULE TaskLifecycle ---------------------------
(***************************************************************************)
(* What a scheduler pass promises about the life of each task, without the *)
(* loops, hooks, leases and awaits it keeps the promise with:              *)
(*   - a task becomes active only when all it depends on has succeeded,    *)
(*     nothing active clashes with it, a slot is free and it has a try     *)
(*     left;                                                               *)
(*   - a task that waits is given up only because a hook refused it, a     *)
(*     task it depends on came to a bad end, or the operator stopped the   *)
(*     run;                                                                *)
(*   - what has ended never changes.                                       *)
(* Doomed, the guard of Skip, is the promise a reader of the code would    *)
(* like to take for granted: no task is reported blocked for want of a     *)
(* resource or of a slot.                                                  *)
(***************************************************************************)
EXTENDS FiniteSets, TaskTable

CONSTANT MaxConcurrency

VARIABLES plan, phase, tries, stopping

lifecycleVars == <<plan, phase, tries, stopping>>

Phase == {"waiting", "active", "succeeded", "failed", "refused", "skipped",
          "withdrawn"}

BadEnd == {"failed", "refused", "skipped", "withdrawn"}

Active == { t \in Task : phase[t] = "active" }

Doomed(t) == \E d \in Ancestors(plan, t) : phase[d] \in BadEnd

Init ==
    /\ plan \in ValidPlans
    /\ phase \in [Task -> {"waiting", "succeeded"}]
    /\ tries = [t \in Task |-> 0]
    /\ stopping = FALSE

Become(t, from, to) ==
    /\ phase[t] = from
    /\ phase' = [phase EXCEPT ![t] = to]

Start(t) ==
    /\ \A d \in plan.deps[t] : phase[d] = "succeeded"
    /\ \A u \in Active : ~Clash(plan, t, u)
    /\ Cardinality(Active) < MaxConcurrency
    /\ tries[t] <= plan.maxRetries[t]
    /\ tries' = [tries EXCEPT ![t] = @ + 1]
    /\ Become(t, "waiting", "active")

End(t, verdict) == Become(t, "active", verdict) /\ UNCHANGED tries

Retry(t) ==
    /\ tries[t] <= plan.maxRetries[t]
    /\ Become(t, "active", "waiting")
    /\ UNCHANGED tries

Refuse(t) == Become(t, "waiting", "refused") /\ UNCHANGED tries

Skip(t) == Doomed(t) /\ Become(t, "waiting", "skipped") /\ UNCHANGED tries

Withdraw(t) == stopping /\ Become(t, "waiting", "withdrawn") /\ UNCHANGED tries

Stop ==
    /\ ~stopping
    /\ stopping' = TRUE
    /\ UNCHANGED <<plan, phase, tries>>

Next ==
    \/ Stop
    \/ /\ UNCHANGED <<plan, stopping>>
       /\ \E t \in Task :
             \/ Start(t) \/ Retry(t) \/ Refuse(t) \/ Skip(t) \/ Withdraw(t)
             \/ \E verdict \in {"succeeded", "failed", "withdrawn"} : End(t, verdict)

Spec == Init /\ [][Next]_lifecycleVars

=============================================================================
