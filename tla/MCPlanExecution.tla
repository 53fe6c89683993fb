-------------------------- MODULE MCPlanExecution --------------------------
(***************************************************************************)
(* Small instances of PlanExecution: three tasks, of which t1 only reads,  *)
(* t2 mutates and may be repeated, t3 mutates and may not; in a chain, and *)
(* with t2 beside a dependency of t1 on t3, which comes later in the table.*)
(***************************************************************************)
EXTENDS PlanExecution, TLC

CONSTANTS t1, t2, t3, file, workspace, Retries

MCTask == {t1, t2, t3}
MCName == {file, workspace}
MCNormal == [n \in MCName |-> n]

PerTask(a, b, c) == (t1 :> a) @@ (t2 :> b) @@ (t3 :> c)
MCRank == PerTask(0, 1, 2)

MCDeps == { PerTask({}, {t1}, {t2}), PerTask({t3}, {}, {}) }

MCPlans ==
    { [ deps       |-> d,
        reads      |-> PerTask({file}, {}, {}),
        writes     |-> PerTask({}, {file}, {file}),
        readOnly   |-> {t1},
        maxRetries |-> PerTask(0, Retries, 0) ] : d \in MCDeps }

=============================================================================
