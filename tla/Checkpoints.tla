---------------------------- MODULE Checkpoints ----------------------------
(***************************************************************************)
(* Checkpoints of the workspace, runtime/checkpoints.py: a tool saves what *)
(* the files contain, changes them and seals what they contain then; the   *)
(* operator may roll a sealed checkpoint back.  write_file does it for one *)
(* file (guarded_write_text).  Files and manifests are replaced atomically,*)
(* one at a time; a tool or a rollback may fail or die between two of them.*)
(* Nothing locks the files: tools in several threads, the operator's       *)
(* rollback and other programs write whenever they like.  An edit between  *)
(* a tool's write and its seal is taken for the tool's, one between the    *)
(* comparison of a file and its restoration is not looked at.              *)
(***************************************************************************)
EXTENDS Naturals, FiniteSets

CONSTANTS
    Path,
    Content,
    MaxCheckpoint,   \* bound: checkpoints taken
    Absent

CheckpointAssumption == Absent \notin Content /\ MaxCheckpoint \in Nat

VARIABLES
    file,            \* the workspace
    taken,           \* checkpoints taken so far
    manifest,        \* of each checkpoint
    made,            \* what its tool has really left in each file
    working,         \* the checkpoints being written under
    restoring,       \* a rollback: its checkpoint, or 0, the files to compare,
                     \* those compared, and of these those edited since
    slipped          \* <<c, p>>: edited by others since the tool of c wrote p,
                     \* and before its seal

vars == <<file, taken, manifest, made, working, restoring, slipped>>

State == Content \cup {Absent}
Checkpoint == 1..MaxCheckpoint
Files == [Path -> State]

NoRollback == [checkpoint |-> 0, compare |-> {}, todo |-> {}, late |-> {}]

Init ==
    /\ file = [p \in Path |-> Absent]
    /\ taken = 0
    /\ manifest = [c \in Checkpoint |->
          [entries |-> {}, before |-> file, after |-> file, sealed |-> FALSE]]
    /\ made = [c \in Checkpoint |-> file]
    /\ working = {}
    /\ restoring = NoRollback
    /\ slipped = {}

(* A file is replaced, by the tool of checkpoint c or, if 0, by another.    *)
Replace(p, s, c) ==
    /\ file' = [file EXCEPT ![p] = s]
    /\ slipped' = (slipped \ {<<c, p>>}) \cup
          {<<k, p>> : k \in {k \in working \ {c} : p \in manifest[k].entries}}

(* A rollback that has compared the file will not see it.                   *)
Overlook(p) ==
    restoring' = [restoring EXCEPT !.late = @ \cup ({p} \cap restoring.todo)]

(* What these files contain now.                                            *)
Contents(paths) == [p \in Path |-> IF p \in paths THEN file[p] ELSE Absent]

(* create: the snapshots first, the manifest last.                          *)
Create ==
    /\ taken < MaxCheckpoint
    /\ taken' = taken + 1
    /\ \E paths \in SUBSET Path \ {{}} :
          /\ manifest' = [manifest EXCEPT ![taken + 1] =
                 [@ EXCEPT !.entries = paths, !.before = Contents(paths)]]
          /\ made' = [made EXCEPT ![taken + 1] = Contents(paths)]
    /\ working' = working \cup {taken + 1}
    /\ UNCHANGED <<file, restoring, slipped>>

Write ==
    /\ \E c \in working, s \in State : \E p \in manifest[c].entries :
          /\ Replace(p, s, c)
          /\ Overlook(p)
          /\ made' = [made EXCEPT ![c][p] = s]
    /\ UNCHANGED <<taken, manifest, working>>

(* seal: the files are read again.                                          *)
Seal ==
    /\ \E c \in working :
          /\ manifest' = [manifest EXCEPT ![c].after = Contents(manifest[c].entries),
                                         ![c].sealed = TRUE]
          /\ working' = working \ {c}
    /\ UNCHANGED <<file, taken, made, restoring, slipped>>

(* Faulty variant: the snapshots alone are looked at.                       *)
NoConflict(c, p) == TRUE

Unchanged(c, p) == file[p] = manifest[c].after[p]

(* rollback: every file is compared before the first is written.            *)
BeginRollback ==
    /\ restoring = NoRollback
    /\ \E c \in 1..taken :
          /\ manifest[c].sealed
          /\ restoring' = [NoRollback EXCEPT !.checkpoint = c,
                                             !.compare = manifest[c].entries]
    /\ UNCHANGED <<file, taken, manifest, made, working, slipped>>

Compare ==
    /\ \E p \in restoring.compare :
          /\ Unchanged(restoring.checkpoint, p)
          /\ restoring' = [restoring EXCEPT !.compare = @ \ {p}, !.todo = @ \cup {p}]
    /\ UNCHANGED <<file, taken, manifest, made, working, slipped>>

Restore ==
    /\ restoring.compare = {}
    /\ \E p \in restoring.todo :
          /\ Replace(p, manifest[restoring.checkpoint].before[p], 0)
          /\ restoring' = [restoring EXCEPT !.todo = @ \ {p}]
    /\ UNCHANGED <<taken, manifest, made, working>>

(* The rollback is complete, is refused, or fails between two files.        *)
EndRollback ==
    /\ restoring.checkpoint # 0
    /\ restoring' = NoRollback
    /\ UNCHANGED <<file, taken, manifest, made, working, slipped>>

(* A tool fails, and its checkpoint stays unsealed.                         *)
ToolFails ==
    /\ \E c \in working : working' = working \ {c}
    /\ UNCHANGED <<file, taken, manifest, made, restoring, slipped>>

Crash ==
    /\ working' = {} /\ restoring' = NoRollback
    /\ UNCHANGED <<file, taken, manifest, made, slipped>>

(* The operator, an editor, another program.                                *)
Edit ==
    /\ \E p \in Path, s \in State : Replace(p, s, 0) /\ Overlook(p)
    /\ UNCHANGED <<taken, manifest, made, working>>

Next ==
    \/ Create \/ Write \/ Seal \/ ToolFails
    \/ BeginRollback \/ Compare \/ Restore \/ EndRollback
    \/ Crash
    \/ Edit

Spec == Init /\ [][Next]_vars

-----------------------------------------------------------------------------
TypeOK ==
    /\ file \in Files /\ taken \in 0..MaxCheckpoint /\ working \subseteq Checkpoint
    /\ manifest \in [Checkpoint -> [entries : SUBSET Path, before : Files,
                                    after : Files, sealed : BOOLEAN]]
    /\ made \in [Checkpoint -> Files]
    /\ restoring \in [checkpoint : 0..MaxCheckpoint, compare : SUBSET Path,
                      todo : SUBSET Path, late : SUBSET Path]
    /\ slipped \subseteq Checkpoint \X Path

(* A rollback writes over a file only what the tool of that checkpoint made *)
(* of it.  Later edits, by whoever, also by the tool of a later checkpoint  *)
(* or by one at work meanwhile, are not lost to it, except two kinds: those *)
(* between the tool's write and its seal, which the seal took for the       *)
(* tool's, as long as the file is still as sealed; and those since this     *)
(* rollback compared this file.                                             *)
(* (rollback compares every file with what seal read, and then writes.)     *)
EditsSurvive ==
    LET c == restoring.checkpoint IN
    \A p \in restoring.todo \ restoring'.todo :
        restoring'.checkpoint # 0 =>
            \/ file[p] = made[c][p]
            \/ <<c, p>> \in slipped /\ file[p] = manifest[c].after[p]
            \/ p \in restoring.late

LaterEditsSurvive == [][EditsSurvive]_vars

=============================================================================
