----------------------------- MODULE TaskTable -----------------------------
(***************************************************************************)
(* The task table a scheduler pass works from: the fields of TaskSpec      *)
(* (runtime/contracts.py) that decide when a task may run, and what the    *)
(* scheduler derives from them.  A plan is one table.                      *)
(***************************************************************************)
EXTENDS Naturals, ResourceLocks

CONSTANTS
    Plans,      \* the tables offered to the scheduler
    Rank        \* position of a task in its table

ASSUME PlansAssumption ==
    /\ Rank \in [Task -> Nat]
    /\ \A t, u \in Task : Rank[t] = Rank[u] => t = u
    /\ Plans \subseteq
         [ deps       : [Task -> SUBSET Task],
           reads      : [Task -> SUBSET Name],
           writes     : [Task -> SUBSET Name],
           readOnly   : SUBSET Task,
           maxRetries : [Task -> Nat] ]

(* validate_dag: every set of tasks has one that depends on none of them.   *)
ValidDag(p) ==
    \A S \in (SUBSET Task) \ {{}} : \E t \in S : p.deps[t] \cap S = {}

ValidPlans == { p \in Plans : ValidDag(p) }

(* Loops visit tasks in the order of the table.                             *)
IsFirst(t, tasks) == t \in tasks /\ \A u \in tasks : Rank[t] <= Rank[u]

(* A mutating task that declares no write takes the whole workspace.        *)
WriteSet(p, t) ==
    IF t \notin p.readOnly /\ p.writes[t] = {} THEN {Global} ELSE p.writes[t]

Wanted(p, t) == LeaseFor(t, p.reads[t], WriteSet(p, t))

(* What two tasks may not do at the same time, read off the plan: one       *)
(* changes what the other touches, or the whole workspace.                  *)
Changes(p, t) == Normalized(WriteSet(p, t))
Touches(p, t) == Normalized(p.reads[t]) \cup Changes(p, t)

Clash(p, t, u) ==
    \/ Global \in Changes(p, t) \cup Changes(p, u)
    \/ Changes(p, t) \cap Touches(p, u) # {}
    \/ Touches(p, t) \cap Changes(p, u) # {}

(* The tasks t depends on, directly or not: what every set that holds its   *)
(* dependencies and is closed under dependencies has in common.             *)
Ancestors(p, t) ==
    { d \in Task : \A S \in SUBSET Task :
         (/\ p.deps[t] \subseteq S
          /\ \A s \in S : p.deps[s] \subseteq S) => d \in S }

=============================================================================
