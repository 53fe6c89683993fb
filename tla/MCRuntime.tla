----------------------------- MODULE MCRuntime -----------------------------
(***************************************************************************)
(* A small instance of each part of the runtime.  Two paths and two texts  *)
(* are too many at once for the checkpoints and for the code index.  Either*)
(* one of the paths is left alone; or one of the texts is never used in the*)
(* index, whose tools take turns then, and files are removed while nobody  *)
(* works on it, and there is a single checkpoint.                          *)
(***************************************************************************)
EXTENDS Runtime, TLC

CONSTANTS a1, a2, k1, k2

VARIABLE spared      \* the path that is left alone, or Nothing

MCTasks == <<"t1", "t2">>
MCCriteria == <<"k1", "k2">>

(* Two results that say something of two criteria: both passed, or the      *)
(* second one failed and of the first nothing is said.                      *)
MCEvidence ==
    { [k \in {"k1", "k2"} |-> "passed"],
      [k \in {"k1", "k2"} |-> IF k = "k1" THEN "none" ELSE "failed"] }

MCSkills == <<{k1}, {k2}>>
MCHome == (k1 :> a1) @@ (k2 :> a2)

(* The workers (tasks, callers, calls), the paths, and the contents of the  *)
(* files under checkpoints are alike.                                       *)
Alike == Permutations(Path) \cup Permutations(Worker) \cup Permutations(Content)

-----------------------------------------------------------------------------

FirstText == CHOOSE t \in Text : TRUE

OneText == \A p \in Path : s1[p] \in {FirstText, Nothing}

(* The code index: one tool at a time, no file goes away while it works.    *)
TakeTurns == \A k, l \in Writer : s7[k].at # "idle" /\ s7[l].at # "idle" => k = l
Removal == \E p \in Path : s1[p] # Nothing /\ s1'[p] = Nothing
AtRest == \A c \in DOMAIN s7 : s7[c].at = "idle"

(* Nothing happens at this path.                                            *)
Spares(p) == s1[p] = Nothing /\ (part = "index" => \A k \in Writer : s7[k].path # p)

Narrow ==
    part \in {"checkpoints", "index"} =>
        IF spared # Nothing THEN Spares(spared)'
        ELSE IF part = "index" THEN OneText' /\ TakeTurns' /\ (Removal => AtRest)
        ELSE s2' <= 1

MCInit ==
    /\ RuntimeInit
    /\ spared \in (IF part \in {"checkpoints", "index"} THEN Path ELSE {}) \cup {Nothing}

MCNext == RuntimeNext /\ UNCHANGED spared /\ Narrow

MCSpec == MCInit /\ [][MCNext]_<<runtime, spared>>

=============================================================================
