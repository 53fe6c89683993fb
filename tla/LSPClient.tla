----------------------------- MODULE LSPClient -----------------------------
(***************************************************************************)
(* The language server client, codeintel/lsp.py (LSPClient): one server    *)
(* process at a time, a reader task that owns its output, a lifecycle lock *)
(* for start, stop and restart, and requests of several coroutines matched *)
(* to their answers by number.                                             *)
(*                                                                         *)
(* The server is external: it answers what it was asked in any order, late *)
(* or never, registers and withdraws capabilities, cancels, and dies.  It  *)
(* may stop reading its input, and then whatever is written to it blocks,  *)
(* and leave a process behind that keeps its stderr open, and then the end *)
(* of it never comes: neither wait has a time-out.  What it still owes is  *)
(* a set, a pipe keeping no more order than that.  A step runs from one    *)
(* await that matters to the next.                                         *)
(*                                                                         *)
(* A caller may be cancelled wherever it waits for the server, and while   *)
(* it stops one.  Left out: a failed start that is cancelled once more     *)
(* while it takes its own process down.                                    *)
(***************************************************************************)
EXTENDS Naturals, FiniteSets

CONSTANTS
    Caller,          \* the coroutines that share the client
    Operation,       \* what a server may be capable of and be asked
    MaxPending,      \* MAX_LSP_PENDING_REQUESTS
    MaxId,           \* bound: request numbers 1..MaxId
    MaxSession,      \* bound: server processes
    Nobody

ASSUME ClientAssumption ==
    /\ MaxPending \in Nat \ {0}
    /\ MaxId \in Nat
    /\ MaxSession \in Nat
    /\ Nobody \notin Caller
    /\ Operation \cap {"unused", "waiting", "failed", "cancelled"} = {}

VARIABLES
    process,         \* "none", "alive", or "exited"
    reader,          \* "none", "reading", "failing", or "done"
    session,         \* server processes started so far
    holder,          \* of the lifecycle lock
    step,            \* where each caller is
    goal,            \* what it is there for
    number,          \* of its request
    question,        \* of its request
    pending,         \* numbers in the table of pending requests
    future,          \* what became of each number
    nextId,
    owed,            \* requests the process has received and not answered
    deaf,            \* the process runs and reads nothing any more
    heir,            \* the process is gone, and another holds its stderr open
    announced,       \* the process can do this from the start,
    granted,         \*   and has registered this since
    base,            \* the client's copy of what was announced,
    dynamic,         \*   its table of registrations,
    capabilities     \*   and what it takes the server to be capable of

callers == <<step, goal, number, question>>
table == <<pending, future, nextId>>
server == <<owed, deaf, heir, announced, granted>>
abilities == <<base, dynamic, capabilities>>
vars == <<process, reader, session, holder, callers, table, server, abilities>>

Id == 1..MaxId
Question == Operation \cup {"initialize", "shutdown"}

Init ==
    /\ process = "none" /\ reader = "none" /\ session = 0 /\ holder = Nobody
    /\ step = [c \in Caller |-> "idle"]
    /\ goal = [c \in Caller |-> "call"]
    /\ number = [c \in Caller |-> 0]
    /\ question = [c \in Caller |-> "initialize"]
    /\ pending = {} /\ future = [i \in Id |-> "unused"] /\ nextId = 0
    /\ owed = {} /\ deaf = FALSE /\ heir = FALSE /\ announced = {} /\ granted = {}
    /\ base = {} /\ dynamic = {} /\ capabilities = {}

(* A process that is still starting runs too: its lock is not asked for.    *)
Running == process = "alive" /\ reader \in {"reading", "failing"}

GoTo(c, to) == step' = [step EXCEPT ![c] = to]

(* A caller is done, and its locals with it.                                *)
Leave(c) == GoTo(c, "idle") /\ goal' = [goal EXCEPT ![c] = "call"]

-----------------------------------------------------------------------------
(* Requests *)

(* Faulty variant: the smallest number that is not in use.                  *)
ReusedId == CHOOSE i \in 1..(MaxId + 1) :
               i \notin pending /\ \A j \in 1..(i - 1) : j \in pending

FreshId == nextId + 1

(* Faulty variant: room for one more.                                       *)
FullLater == Cardinality(pending) > MaxPending

Full == Cardinality(pending) >= MaxPending

Register(c, q) ==
    /\ ~Full
    /\ FreshId \in Id
    /\ nextId' = FreshId
    /\ pending' = pending \cup {FreshId}
    /\ future' = [future EXCEPT ![FreshId] = "waiting"]
    /\ number' = [number EXCEPT ![c] = FreshId]
    /\ question' = [question EXCEPT ![c] = q]
    /\ GoTo(c, "sending")

Request(c) ==
    /\ step[c] = "idle"
    /\ \E op \in capabilities : Register(c, op)
    /\ goal' = [goal EXCEPT ![c] = "call"]
    /\ UNCHANGED <<process, reader, session, holder, server, abilities>>

(* What a caller does next: a call returns or raises, start and stop tell   *)
(* the server that they go on ("initialized", "exit") or take it down.      *)
GoesOn(c, answered) ==
    \/ /\ goal[c] = "call"
       /\ Leave(c)
       /\ UNCHANGED abilities
    \/ /\ goal[c] = "start" /\ answered
       /\ base' = announced /\ capabilities' = announced
       /\ GoTo(c, "notifying")
       /\ UNCHANGED <<goal, dynamic>>
    \/ /\ goal[c] = "start" /\ ~answered
       /\ GoTo(c, "terminating")
       /\ goal' = [goal EXCEPT ![c] = "abort"]
       /\ UNCHANGED abilities
    \/ /\ goal[c] = "stop"
       /\ GoTo(c, IF answered THEN "notifying" ELSE "terminating")
       /\ UNCHANGED <<goal, abilities>>

(* A request ends, with an answer or without: nothing of it is looked at    *)
(* again.                                                                   *)
Ended(c, answered) ==
    /\ GoesOn(c, answered)
    /\ pending' = pending \ {number[c]}
    /\ future' = [future EXCEPT ![number[c]] = "unused"]
    /\ number' = [number EXCEPT ![c] = 0]
    /\ question' = [question EXCEPT ![c] = "initialize"]
    /\ UNCHANGED <<process, reader, session, holder, nextId, deaf, heir, announced,
                   granted>>

(* A write goes through, the lock of the pipe and drain included.           *)
Writable == process = "alive" /\ ~deaf

(* What was asked is in the pipe before drain waits.                        *)
Asked(c) == owed \cup {<<number[c], question[c]>>}

Send(c) ==
    /\ step[c] = "sending" /\ Writable
    /\ owed' = Asked(c)
    /\ GoTo(c, "waiting")
    /\ UNCHANGED <<process, reader, session, holder, goal, number, question, table,
                   deaf, heir, announced, granted, abilities>>

(* The process is gone, and it breaks the pipe of a write that blocks.      *)
SendFails(c) ==
    /\ step[c] = "sending" /\ process # "alive"
    /\ Ended(c, FALSE)
    /\ UNCHANGED owed

(* The caller is cancelled before the block that would clean up: its number *)
(* stays in the table until the server stops.                               *)
CancelledEarly(c) ==
    /\ step[c] = "sending"
    /\ GoesOn(c, FALSE)
    /\ number' = [number EXCEPT ![c] = 0]
    /\ question' = [question EXCEPT ![c] = "initialize"]
    /\ UNCHANGED <<process, reader, session, holder, table, server>>

(* It is cancelled while it writes its request, or takes it back.           *)
CancelledWriting(c) ==
    /\ step[c] \in {"sending", "withdrawing"}
    /\ Ended(c, FALSE)
    /\ owed' \in IF step[c] = "sending" /\ process = "alive"
                 THEN {owed, Asked(c)} ELSE {owed}

Return(c) ==
    /\ step[c] = "waiting" /\ future[number[c]] \notin {"waiting", "cancelled"}
    /\ Ended(c, future[number[c]] # "failed")
    /\ UNCHANGED owed

(* Faulty variant: a request has no timeout.                                *)
Never(c) == FALSE /\ UNCHANGED vars

(* Time is up, or the caller or its future is cancelled: the server is to   *)
(* be told, and may have answered already.                                  *)
GiveUp(c) ==
    /\ step[c] = "waiting" /\ future[number[c]] \in {"waiting", "cancelled"}
    /\ future' = [future EXCEPT ![number[c]] = "cancelled"]
    /\ GoTo(c, "withdrawing")
    /\ UNCHANGED <<process, reader, session, holder, goal, number, question, pending,
                   nextId, server, abilities>>

(* $/cancelRequest is sent, or there is nobody to send it to.               *)
Withdraw(c) ==
    /\ step[c] = "withdrawing" /\ (Writable \/ process # "alive")
    /\ Ended(c, FALSE)
    /\ UNCHANGED owed

-----------------------------------------------------------------------------
(* The reader and the server *)

Answer ==
    /\ reader = "reading"
    /\ \E reply \in owed :
          /\ owed' = owed \ {reply}
          /\ pending' = pending \ {reply[1]}
          /\ \E outcome \in {reply[2], "failed"} :
                future' = IF reply[1] \in pending /\ future[reply[1]] = "waiting"
                          THEN [future EXCEPT ![reply[1]] = outcome] ELSE future
    /\ UNCHANGED <<process, reader, session, holder, callers, nextId, deaf, heir,
                   announced, granted, abilities>>

(* $/cancelRequest: a number of the client's own requests is taken too.     *)
ServerCancels ==
    /\ reader = "reading"
    /\ \E i \in pending :
          future[i] = "waiting" /\ future' = [future EXCEPT ![i] = "cancelled"]
    /\ UNCHANGED <<process, reader, session, holder, callers, pending, nextId,
                   server, abilities>>

Refresh(registrations) ==
    /\ dynamic' = registrations
    /\ capabilities' = base \cup registrations
    /\ UNCHANGED base

(* Watched files are no operation, but refresh what there is.               *)
ServerRegisters ==
    /\ reader = "reading"
    /\ \/ \E op \in Operation :
             Refresh(dynamic \cup {op}) /\ granted' = granted \cup {op}
       \/ \E op \in granted :
             Refresh(dynamic \ {op}) /\ granted' = granted \ {op}
       \/ Refresh(dynamic) /\ UNCHANGED granted
    /\ UNCHANGED <<process, reader, session, holder, callers, table, owed, deaf, heir,
                   announced>>

(* For good; a server that is merely slow is one whose time has not come.   *)
ServerGoesDeaf ==
    /\ process = "alive" /\ ~deaf
    /\ deaf' = TRUE
    /\ UNCHANGED <<process, reader, session, holder, callers, table, owed, heir,
                   announced, granted, abilities>>

(* The process is gone, and perhaps another one still holds its stderr.     *)
Gone ==
    /\ process' = "exited"
    /\ deaf' = FALSE
    /\ IF process = "alive" THEN heir' \in BOOLEAN ELSE UNCHANGED heir
    /\ UNCHANGED <<owed, announced, granted>>

ServerExits ==
    /\ process = "alive"
    /\ Gone
    /\ UNCHANGED <<reader, session, holder, callers, table, abilities>>

Failed == [i \in Id |-> IF i \in pending /\ future[i] = "waiting"
                        THEN "failed" ELSE future[i]]

(* The end of the output, or a header that is too large.                    *)
ReaderFails ==
    /\ reader = "reading"
    /\ reader' = "failing"
    /\ future' = Failed /\ pending' = {}
    /\ UNCHANGED <<process, session, holder, callers, nextId, server, abilities>>

ReaderEnds ==
    /\ reader = "failing"
    /\ reader' = "done"
    /\ Gone
    /\ UNCHANGED <<session, holder, callers, table, abilities>>

-----------------------------------------------------------------------------
(* The lifecycle *)

(* Who waits for the lock is still idle, or between the halves of restart.  *)
(* start: nothing to do, or what is left of the last process goes first.    *)
Starts(c) ==
    /\ holder = Nobody
    /\ \/ step[c] = "locking" /\ Running /\ Leave(c) /\ UNCHANGED holder
       \/ /\ step[c] \in {"idle", "locking"} /\ ~Running
          /\ holder' = c
          /\ goal' = [goal EXCEPT ![c] = "start"]
          /\ GoTo(c, IF process = "none" THEN "spawning" ELSE "terminating")
    /\ UNCHANGED <<process, reader, session, number, question, table, server,
                   abilities>>

(* Without a process, those who wait are told and restart goes on.          *)
NothingToStop(c) ==
    /\ step[c] = "idle" /\ holder = Nobody /\ process = "none"
    /\ future' = Failed /\ pending' = {}
    /\ step' \in {step, [step EXCEPT ![c] = "locking"]}
    /\ goal' = [goal EXCEPT ![c] = IF step' = step THEN @ ELSE "start"]
    /\ UNCHANGED <<process, reader, session, holder, number, question, nextId, server,
                   abilities>>

(* stop and the first half of restart; only a stop asks the server first,   *)
(* if its table has room for the request.                                   *)
Stops(c) ==
    /\ step[c] = "idle" /\ holder = Nobody /\ process # "none"
    /\ holder' = c
    /\ \/ Running /\ Register(c, "shutdown") /\ goal' = [goal EXCEPT ![c] = "stop"]
       \/ /\ GoTo(c, "terminating")
          /\ \E g \in {"stop", "restart"} :
                 /\ g = "stop" => ~Running \/ Full
                 /\ goal' = [goal EXCEPT ![c] = g]
          /\ UNCHANGED <<number, question, table>>
    /\ UNCHANGED <<process, reader, session, server, abilities>>

(* The server is told, and a start is over; or it cannot be told, or the    *)
(* caller is cancelled, and the process goes.                               *)
Notified(c) ==
    /\ step[c] = "notifying" /\ Writable
    /\ IF goal[c] = "start" THEN Leave(c) /\ holder' = Nobody
       ELSE GoTo(c, "terminating") /\ UNCHANGED <<goal, holder>>
    /\ UNCHANGED <<process, reader, session, number, question, table, server,
                   abilities>>

NotNotified(c) ==
    /\ step[c] = "notifying"
    /\ GoTo(c, "terminating")
    /\ goal' = [goal EXCEPT ![c] = IF @ = "start" THEN "abort" ELSE @]
    /\ UNCHANGED <<process, reader, session, holder, number, question, table, server,
                   abilities>>

Terminate(c) ==
    /\ step[c] = "terminating"
    /\ Gone
    /\ GoTo(c, "clearing")
    /\ UNCHANGED <<reader, session, holder, goal, number, question, table, abilities>>

(* Faulty variant: registrations outlive the process that made them.        *)
KeptRegistrations == dynamic

NoRegistrations == {}

(* Once the reader has ended, and the stderr of the process too.            *)
Clear(c) ==
    /\ step[c] = "clearing" /\ ~heir
    /\ process' = "none" /\ reader' = "none"
    /\ future' = Failed /\ pending' = {}
    /\ dynamic' = NoRegistrations
    /\ capabilities' = base
    /\ step' = [step EXCEPT ![c] = CASE goal[c] = "start" -> "spawning"
                                     [] goal[c] = "restart" -> "locking"
                                     [] OTHER -> "idle"]
    /\ goal' = [goal EXCEPT ![c] = IF @ \in {"start", "restart"} THEN "start"
                                   ELSE "call"]
    /\ holder' = IF goal[c] = "start" THEN c ELSE Nobody
    /\ UNCHANGED <<session, number, question, nextId, server, base>>

(* A caller is cancelled while it stops a process: the lock is given back,  *)
(* what is left of the process stays, and nobody reads its stderr any more. *)
CancelledStopping(c) ==
    /\ step[c] \in {"terminating", "clearing"} /\ goal[c] # "abort"
    /\ holder' = Nobody
    /\ Leave(c)
    /\ heir' = (heir /\ step[c] = "terminating")
    /\ UNCHANGED <<process, reader, session, number, question, table, owed, deaf,
                   announced, granted, abilities>>

(* start registers its initialize request as soon as the process runs, if   *)
(* the table has room for it; a server that is not installed is an error.   *)
Spawn(c) ==
    /\ step[c] = "spawning" /\ session < MaxSession
    /\ process' = "alive" /\ reader' = "reading" /\ session' = session + 1
    /\ \E ops \in SUBSET Operation : announced' = ops
    /\ owed' = {} /\ granted' = {} /\ dynamic' = NoRegistrations
    /\ UNCHANGED <<deaf, heir>>
    /\ \/ Register(c, "initialize") /\ UNCHANGED goal
       \/ /\ Full
          /\ GoTo(c, "terminating")
          /\ goal' = [goal EXCEPT ![c] = "abort"]
          /\ UNCHANGED <<number, question, table>>
    /\ UNCHANGED <<holder, base, capabilities>>

Unavailable(c) ==
    /\ step[c] = "spawning"
    /\ holder' = Nobody
    /\ Leave(c)
    /\ UNCHANGED <<process, reader, session, number, question, table, server,
                   abilities>>

-----------------------------------------------------------------------------
CallerStep(c) ==
    \/ Send(c) \/ SendFails(c) \/ Return(c) \/ GiveUp(c) \/ Withdraw(c)
    \/ Notified(c) \/ (NotNotified(c) /\ process # "alive")
    \/ Terminate(c) \/ Clear(c) \/ Spawn(c) \/ Unavailable(c)

(* Whoever runs the caller gives up on it.                                  *)
Cancelled(c) ==
    \/ CancelledEarly(c) \/ CancelledWriting(c) \/ NotNotified(c)
    \/ CancelledStopping(c)

ServerStep ==
    \/ Answer \/ ServerCancels \/ ServerRegisters \/ ServerGoesDeaf
    \/ ServerExits \/ ReaderFails

Next ==
    \/ \E c \in Caller :
          \/ Request(c) \/ CallerStep(c) \/ Cancelled(c)
          \/ Starts(c) \/ NothingToStop(c) \/ Stops(c)
    \/ ServerStep
    \/ ReaderEnds

(* The event loop runs every coroutine that can run, and timeouts expire.   *)
(* Nothing is assumed of the server, nor of how often it is used, and a     *)
(* write to a server that reads no more never goes through.                 *)
Fairness == WF_vars(ReaderEnds) /\ \A c \in Caller : WF_vars(CallerStep(c))

Spec == Init /\ [][Next]_vars /\ Fairness

-----------------------------------------------------------------------------
TypeOK ==
    /\ process \in {"none", "alive", "exited"}
    /\ reader \in {"none", "reading", "failing", "done"}
    /\ session \in 0..MaxSession
    /\ holder \in Caller \cup {Nobody}
    /\ step \in [Caller -> {"idle", "sending", "waiting", "withdrawing", "locking",
                            "spawning", "notifying", "terminating", "clearing"}]
    /\ goal \in [Caller -> {"call", "start", "stop", "restart", "abort"}]
    /\ number \in [Caller -> 0..MaxId] /\ nextId \in 0..MaxId
    /\ question \in [Caller -> Question]
    /\ pending \subseteq Id /\ Cardinality(pending) <= MaxPending
    /\ future \in [Id -> Question \cup {"unused", "waiting", "failed", "cancelled"}]
    /\ owed \subseteq Id \X Question /\ deaf \in BOOLEAN /\ heir \in BOOLEAN
    /\ announced \subseteq Operation /\ granted \subseteq Operation
    /\ base \subseteq Operation /\ dynamic \subseteq Operation
    /\ capabilities \subseteq Operation

(* What a request returns is the answer to the question it asked, although  *)
(* answers come in any order and after their request was given up.          *)
(* (_request_raw, _reader_loop: numbers are never used again.)              *)
RightAnswer ==
    \A c \in Caller :
        step[c] = "waiting" /\ future[number[c]] \in Question =>
            future[number[c]] = question[c]

(* Between starts and stops the client takes the server to be capable of    *)
(* nothing that this very process has not announced or registered.          *)
(* (_stop_impl and start clear what an earlier process registered.)         *)
CapabilitiesOfThisServer ==
    Running /\ holder = Nobody => capabilities \subseteq announced \cup granted

(* Every request, start and stop comes to its end, and with it the hold of  *)
(* the lifecycle lock, unless the server reads its input no more (writing   *)
(* has no time-out, and start and stop write under the lock) or a process   *)
(* it leaves behind keeps its stderr open.  A server that is slow, silent   *)
(* or dead, a reader that failed before the request was made, and a         *)
(* time-out or a cancellation anywhere keep nobody.                         *)
(* (_request_raw, _send, cancel_request, _stop_impl.)                       *)
Stuck(c) ==
    \/ deaf /\ step[c] \in {"sending", "withdrawing", "notifying"}
    \/ heir /\ step[c] = "clearing"

NothingHangs ==
    \A c \in Caller :
        step[c] \notin {"idle", "locking"} ~> step[c] \in {"idle", "locking"} \/ Stuck(c)

=============================================================================
