--------------------------- MODULE ResourceLocks ---------------------------
(***************************************************************************)
(* The shared-read / exclusive-write locks of runtime/scheduler.py         *)
(* (ResourceLockManager).  The manager is confined to one event loop and   *)
(* none of its methods awaits, so each call is one indivisible operator    *)
(* here: it takes the set of leases in force and returns the next one.     *)
(***************************************************************************)

CONSTANTS
    Task,       \* task identifiers
    Name,       \* resource names as task specifications spell them
    Normal,     \* what normalize() makes of a spelling (slashes, case)
    Global      \* the spelling that stands for the whole workspace

ASSUME GlobalAssumption ==
    /\ Global \in Name
    /\ Normal \in [Name -> Name]
    /\ Normal[Global] = Global

Lease == [task : Task, reads : SUBSET Name, writes : SUBSET Name]

Normalized(names) == { Normal[n] : n \in names }

(* The lease a task asks for: a name both read and written is only written. *)
LeaseFor(task, readSet, writeSet) ==
    [ task   |-> task,
      reads  |-> Normalized(readSet) \ Normalized(writeSet),
      writes |-> Normalized(writeSet) ]

(* Faulty variant: readers and writers are not kept apart.                  *)
ConflictBetweenWriters(wanted, held) ==
    \/ Global \in wanted.writes \cup held.writes
    \/ wanted.writes \cap held.writes # {}

Conflict(wanted, held) ==
    \/ Global \in wanted.writes \cup held.writes
    \/ wanted.writes \cap (held.reads \cup held.writes) # {}
    \/ wanted.reads \cap held.writes # {}

ConflictingTasks(leases, wanted) ==
    { held.task : held \in { l \in leases : Conflict(wanted, l) } }

(* try_acquire: the whole lease or nothing. *)
CanAcquire(leases, wanted) == ConflictingTasks(leases, wanted) = {}

Acquire(leases, wanted) == leases \cup {wanted}

(* Faulty variant: the lease stays.                                         *)
ReleaseNothing(leases, task) == leases

Release(leases, task) == { l \in leases : l.task # task }

=============================================================================
