--------------------------- MODULE MCDAGScheduler ---------------------------
(***************************************************************************)
(* Small instances of DAGScheduler: every DAG over three tasks, crossed    *)
(* with three shapes.  A shape says what each task reads and writes;       *)
(* "file" and "FILE" are two spellings of one resource.                    *)
(***************************************************************************)
EXTENDS DAGScheduler, TLC

CONSTANTS t1, t2, t3, file, FILE, other, workspace, Retries

MCTask == {t1, t2, t3}
MCName == {file, FILE, other, workspace}
MCNormal == [n \in MCName |-> IF n = FILE THEN file ELSE n]
MCRank == (t1 :> 0) @@ (t2 :> 1) @@ (t3 :> 2)

PerTask(a, b, c) == (t1 :> a) @@ (t2 :> b) @@ (t3 :> c)

(* Two writers and a reader of one file, spelt differently.                 *)
Contention ==
    [ reads    |-> PerTask({}, {}, {file}),
      writes   |-> PerTask({file}, {FILE}, {}),
      readOnly |-> {t3} ]

(* A mutation that declares nothing, beside a reader and a writer.          *)
Undeclared ==
    [ reads    |-> PerTask({other}, {}, {FILE}),
      writes   |-> PerTask({}, {}, {other}),
      readOnly |-> {t1} ]

(* A writer of what it reads, and a task that names the whole workspace.    *)
Whole ==
    [ reads    |-> PerTask({file, other}, {}, {other}),
      writes   |-> PerTask({FILE}, {workspace}, {}),
      readOnly |-> {t3} ]

MCShapes == {Contention, Undeclared, Whole}

AllDeps == { d \in [MCTask -> SUBSET MCTask] : \A t \in MCTask : t \notin d[t] }

MCPlans ==
    { [ deps       |-> d,
        reads      |-> s.reads,
        writes     |-> s.writes,
        readOnly   |-> s.readOnly,
        maxRetries |-> PerTask(Retries, 0, 0) ] : d \in AllDeps, s \in MCShapes }

=============================================================================
