------------------------------ MODULE CodeIndex ------------------------------
(* The index of the workspace's source files: CodeIntelligenceRuntime          *)
(* (codeintel/runtime.py) over CodeIndexer (index.py), and the exploration     *)
(* reports kept for reuse (explorer.py).  Every tool that writes a file calls  *)
(* sync_written_file before it returns; /explore and the workflows rebuild the *)
(* index first.  One asyncio lock orders the updates, but each runs in a       *)
(* thread, and a cancelled caller gives the lock back while its thread goes    *)
(* on.  A record is the text it was made from.                                 *)
EXTENDS Naturals, FiniteSets

CONSTANTS
  Path,         \* source files the index admits
  Text,
  Task,         \* the tasks whose tools write
  Explorer,     \* the operator's command: runs when no task does
  Stray,        \* the thread a cancelled caller left behind
  MaxUpdate,    \* bound of the model: updates of the index
  Nothing       \* no file, no record, no cache

VARIABLES
  file,         \* Path -> its text
  primary,      \* the cache file: a snapshot, or Nothing
  spare,        \* the generation-*.json files beside it
  stamp,        \* the latest updated_at
  index,        \* the records the process works with, or Nothing
  lock,         \* _refresh_lock
  run,          \* each caller, and the stray thread: where it is
  report,       \* the stored exploration report: what it says of its files
  unsynced,     \* files that changed or were skipped, and not indexed since
  since,        \* of these, the ones of the present update
  overtaken     \* a thread outlived its caller: "yes", until a build that began
                \*   after its end ("ending") is complete

vars == <<file, primary, spare, stamp, index, lock, run, report, unsynced,
          since, overtaken>>
cache == <<primary, spare>>
watched == <<unsynced, since, overtaken>>

Records == [Path -> Text \cup {Nothing}]
NoRecords == [p \in Path |-> Nothing]
Snapshot == [at : 0..MaxUpdate, of : Records]
Idle == [at |-> "idle", path |-> Nothing, todo |-> {}, of |-> NoRecords,
         stamp |-> 0, shared |-> FALSE]
Caller == Task \cup {Explorer}

Run == [at : {"idle", "waiting", "scan", "publish", "prune", "done", "exploring"},
        path : Path \cup {Nothing}, todo : SUBSET Path, of : Records,
        stamp : 0..MaxUpdate, shared : BOOLEAN]

IndexAssumption ==
  /\ MaxUpdate \in Nat /\ Explorer \notin Task /\ Stray \notin Caller
  /\ Nothing \notin Path /\ Nothing \notin Caller
  /\ Nothing \notin Records /\ Nothing \notin Snapshot

TypeOK ==
  /\ file \in Records
  /\ primary \in Snapshot \cup {Nothing} /\ spare \subseteq Snapshot
  /\ stamp \in 0..MaxUpdate
  /\ index \in Records \cup {Nothing}
  /\ lock \in Caller \cup {Nothing}
  /\ run \in [Caller \cup {Stray} -> Run]
  /\ report = Nothing \/ DOMAIN report \subseteq Path
  /\ unsynced \subseteq Path /\ since \subseteq Path
  /\ overtaken \in {"no", "yes", "ending"}

Init ==
  /\ file = NoRecords /\ primary = Nothing /\ spare = {} /\ stamp = 0
  /\ index = Nothing /\ lock = Nothing
  /\ run = [c \in Caller \cup {Stray} |-> Idle]
  /\ report = Nothing /\ unsynced = {} /\ since = {}
  /\ overtaken = "no"

PrimaryAlone == {primary} \ {Nothing}               \* Faulty variant: no generations
Cached == spare \cup ({primary} \ {Nothing})
\* _load: the cache file and its generations, the one updated last.  (A file
\* that cannot be read is skipped in the code: an older one may then be taken.)
Loaded ==
  IF Cached = {} THEN NoRecords
  ELSE (CHOOSE s \in Cached : \A o \in Cached : o.at <= s.at).of
Known == IF index = Nothing THEN Loaded ELSE index

Goto(c, at) == run' = [run EXCEPT ![c].at = at]

\* Somebody changes a file: what is being indexed may be out of date already.
Change(p, t) ==
  /\ file' = [file EXCEPT ![p] = t]
  /\ unsynced' = unsynced \cup {p}
  /\ since' = IF lock = Nothing THEN since ELSE since \cup {p}
  /\ UNCHANGED overtaken

-----------------------------------------------------------------------------
(* Writes, and edits of which the program is told nothing. *)

Edit(p, t) ==
  /\ file[p] # t /\ Change(p, t)
  /\ UNCHANGED <<cache, stamp, index, lock, run, report>>

\* write_file returns in its thread, and the callback is called.
Write(k, p, t) ==
  /\ run[k].at = "idle" /\ run[Explorer].at = "idle" /\ Change(p, t)
  /\ run' = [run EXCEPT ![k] = [Idle EXCEPT !.at = "waiting", !.path = p]]
  /\ UNCHANGED <<cache, stamp, index, lock, report>>

Explore ==
  /\ \A c \in Caller : run[c].at = "idle"
  /\ Goto(Explorer, "waiting")
  /\ UNCHANGED <<file, cache, stamp, index, lock, report, watched>>

-----------------------------------------------------------------------------
(* One update: sync_file of one path, or build over all of them. *)

LockFree == lock = Nothing

\* sync_file works on the records in memory, or on the cache when there are
\* none.
Sync(k) == [run[k] EXCEPT !.at = "scan", !.todo = {run[k].path}, !.of = Known,
                          !.shared = index # Nothing]

\* build looks at every file again, and keeps only the records of those it
\* could read.
Build == [Idle EXCEPT !.at = "scan", !.todo = Path]

Start(c) ==
  /\ run[c].at = "waiting" /\ LockFree /\ stamp < MaxUpdate
  /\ lock' = c /\ since' = {}
  /\ run' = [run EXCEPT ![c] =
       IF c = Explorer THEN Build ELSE Sync(c)]
  /\ overtaken' = IF c = Explorer /\ overtaken = "yes" /\ run[Stray].at = "idle"
                  THEN "ending" ELSE overtaken
  /\ UNCHANGED <<file, cache, stamp, index, report, unsynced>>

\* The snapshot is dated when the last file has been read, before it is
\* written.  (The date is the wall clock's: that two builds get different ones,
\* in their order, is taken from a clock that nobody sets back.)
Looked(c, p, record) ==
  LET now == run[c]
      last == now.todo = {p} IN
  /\ now.at = "scan" /\ p \in now.todo /\ stamp < MaxUpdate
  /\ stamp' = IF last THEN stamp + 1 ELSE stamp
  /\ run' = [run EXCEPT ![c] =
       [now EXCEPT !.at = IF last THEN "publish" ELSE "scan",
                   !.stamp = IF last THEN stamp' ELSE 0,
                   !.todo = now.todo \ {p}, !.of[p] = record]]
  /\ UNCHANGED <<file, cache, index, lock, report, overtaken>>

Scan(c, p) == Looked(c, p, file[p]) /\ UNCHANGED <<unsynced, since>>

\* build goes on without a file that it cannot read.
Skip(p) ==
  /\ file[p] # Nothing /\ Looked(Explorer, p, Nothing)
  /\ unsynced' = unsynced \cup {p} /\ since' = since \cup {p}

\* sync_file finds the record as it is, and publishes nothing.
NothingNew(c) ==
  /\ run[c].at = "scan" /\ run[c].path # Nothing
  /\ run[c].of[run[c].path] = file[run[c].path]
  /\ IF c = Stray THEN run' = [run EXCEPT ![c] = Idle] ELSE Goto(c, "done")
  /\ UNCHANGED <<file, cache, stamp, index, lock, report, watched>>

\* _persist: os.replace over the cache file or, when that is refused, under a
\* name of its own.
Publish(c) ==
  LET snapshot == [at |-> run[c].stamp, of |-> run[c].of] IN
  /\ run[c].at = "publish" /\ Goto(c, "prune")
  /\ \/ primary' = snapshot /\ UNCHANGED spare
     \/ spare' = spare \cup {snapshot} /\ UNCHANGED primary
  /\ UNCHANGED <<file, stamp, index, lock, report, watched>>

\* The other cache files are removed, if the system allows it; then
\* index.snapshot = candidate.snapshot, seen at once by all who have the object.
Prune(c) ==
  /\ run[c].at = "prune"
  /\ LET published == [at |-> run[c].stamp, of |-> run[c].of] IN
       \/ /\ primary' = IF primary = published THEN primary ELSE Nothing
          /\ spare' = spare \cap {published}
       \/ UNCHANGED cache
  /\ index' = IF run[c].shared THEN run[c].of ELSE index
  /\ IF c = Stray THEN run' = [run EXCEPT ![c] = Idle] ELSE Goto(c, "done")
  /\ UNCHANGED <<file, stamp, lock, report, watched>>

\* The object just loaded or built replaces the one a stray thread may have.
Install(c) ==
  /\ index' = IF run[c].shared THEN index ELSE run[c].of
  /\ run' = [run EXCEPT
       ![c] = IF c = Explorer THEN [Idle EXCEPT !.at = "exploring"] ELSE Idle,
       ![Stray].shared = @ /\ run[c].shared]

Return(c) ==
  /\ run[c].at = "done" /\ lock' = Nothing /\ Install(c)
  /\ unsynced' = unsynced \ ((IF c = Explorer THEN Path ELSE {run[c].path}) \ since)
  /\ since' = {}
  /\ overtaken' = IF c = Explorer /\ overtaken = "ending" THEN "no" ELSE overtaken
  /\ UNCHANGED <<file, cache, stamp, report>>

\* The thread raises: a file that cannot be read, a cache that cannot be
\* written, too many files.  The write it was called for has succeeded.
Fail(c) ==
  /\ run[c].at \in {"scan", "publish"}
  /\ run' = [run EXCEPT ![c] = Idle]
  /\ IF c = Stray THEN UNCHANGED <<lock, since>> ELSE lock' = Nothing /\ since' = {}
  /\ UNCHANGED <<file, cache, stamp, index, report, unsynced, overtaken>>

\* The caller is cancelled: waiting, it gives up; otherwise its thread goes on.
Cancel(c) ==
  \/ /\ run[c].at = "waiting"
     /\ run' = [run EXCEPT ![c] = Idle]
     /\ UNCHANGED <<file, cache, stamp, index, lock, report, watched>>
  \/ /\ run[c].at \in {"scan", "publish", "prune"}
     /\ overtaken = "no"             \* bound: one such thread between builds
     /\ run' = [run EXCEPT ![c] = Idle, ![Stray] = run[c]]
     /\ lock' = Nothing /\ since' = {} /\ overtaken' = "yes"
     /\ UNCHANGED <<file, cache, stamp, index, report, unsynced>>

-----------------------------------------------------------------------------
(* explore, after the build.  A report tells of some files of the index, and   *)
(* carries their digests; it is handed out again while they are the same.      *)

Stale == \E p \in DOMAIN report : index[p] # report[p]

Reusable == report # Nothing /\ ~Stale

Reuse ==
  /\ run[Explorer].at = "exploring" /\ Reusable
  /\ run' = [run EXCEPT ![Explorer] = Idle]
  /\ UNCHANGED <<file, cache, stamp, index, lock, report, watched>>

\* Which files are in the scope is decided by a search for the objective.
Report(scope) ==
  /\ run[Explorer].at = "exploring" /\ ~Reusable
  /\ scope \subseteq {p \in Path : index[p] # Nothing}
  /\ report' = [p \in scope |-> index[p]]
  /\ run' = [run EXCEPT ![Explorer] = Idle]
  /\ UNCHANGED <<file, cache, stamp, index, lock, watched>>

\* The process ends, at any point, and the next one starts.
Restart ==
  /\ index' = Nothing /\ lock' = Nothing /\ since' = {}
  /\ run' = [c \in DOMAIN run |-> Idle]
  /\ UNCHANGED <<file, cache, stamp, report, unsynced, overtaken>>

Next ==
  \/ \E p \in Path, t \in Text \cup {Nothing} : Edit(p, t)
  \/ \E k \in Task, p \in Path, t \in Text : Write(k, p, t)
  \/ Explore
  \/ \E c \in Caller : Start(c) \/ Return(c) \/ Cancel(c)
  \/ \E c \in Caller \cup {Stray} :
       \/ \E p \in Path : Scan(c, p)
       \/ NothingNew(c) \/ Publish(c) \/ Prune(c) \/ Fail(c)
  \/ \E p \in Path : Skip(p)
  \/ Reuse
  \/ \E scope \in SUBSET Path : Report(scope)
  \/ Restart

Spec == Init /\ [][Next]_vars

-----------------------------------------------------------------------------
(* A file that was written by a tool whose callback succeeded, or that was     *)
(* there at the last build, is known as it is: in memory and, after a crash,   *)
(* from whichever cache files are left; and no update of another file undoes   *)
(* that.  Threads that outlive a cancelled caller are the exception: until     *)
(* the next complete build they may undo anything.                             *)
IndexFollowsWrites ==
  overtaken = "no" => \A p \in Path \ unsynced : Known[p] = file[p]

(* A report that is handed out again tells of each of its files what the file  *)
(* says, unless the file changed after the build before it.                    *)
ReusedReportsAreCurrent ==
  run[Explorer].at = "exploring" /\ Reusable /\ overtaken = "no" =>
    \A p \in DOMAIN report \ unsynced : report[p] = file[p]
=============================================================================
