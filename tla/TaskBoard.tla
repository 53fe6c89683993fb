------------------------------ MODULE TaskBoard ------------------------------
(* The live task panel: TerminalTaskBoard and TerminalWriter of                *)
(* runtime/terminal_task_board.py, driven by TerminalEventConsumer of           *)
(* runtime/observers.py and by the approval prompt of AgenteGlobalCore.py.      *)
(*                                                                             *)
(* Three threads draw: the event loop (every event, under the writer's lock),   *)
(* the panel's refresher, and the worker thread of a tool that asks the         *)
(* operator.  Two reentrant locks protect the screen, the writer's and the      *)
(* board's.  What is printed is abstracted to who holds which lock meanwhile.   *)
EXTENDS Sequences, FiniteSets

CONSTANTS
  Tool,      \* the tool calls, each with a task of its own on the panel
  Nobody     \* the holder of a free lock

BoardAssumption == Nobody \notin {"loop", "refresher", "worker"}

VARIABLES
  writer,    \* the thread that holds TerminalWriter._lock
  board,     \* the thread that holds TerminalTaskBoard._lock
  todo,      \* what the event loop still has to do for the event in hand
  open,      \* the tools that run
  shown,     \* Tool -> what the panel says of it
  refresher, \* where _refresh_loop stands
  stop,      \* _stop_refresh
  disabled,  \* _live_refresh_disabled
  worker,    \* where the approval prompt of a worker thread stands
  asker      \* the tool that asks, or Nobody

vars ==
  <<writer, board, todo, open, shown, refresher, stop, disabled, worker, asker>>

Threads == {"loop", "refresher", "worker"}
Segment == [do : {"clear", "enter", "show", "draw", "refresh", "leave", "halt"},
            tool : Tool]

TypeOK ==
  /\ writer \in Threads \cup {Nobody} /\ board \in Threads \cup {Nobody}
  /\ todo \in Seq(Segment) /\ open \subseteq Tool
  /\ shown \in [Tool -> {"absent", "pending", "running", "done"}]
  /\ refresher \in {"none", "asleep", "awake", "due", "drawing"}
  /\ stop \in BOOLEAN /\ disabled \in BOOLEAN
  /\ worker \in {"idle", "disabled", "drawing", "drawn", "asking"}
  /\ asker \in Tool \cup {Nobody}

Init ==
  /\ writer = Nobody /\ board = Nobody /\ todo = <<>> /\ open = {}
  /\ shown = [t \in Tool |-> "absent"] /\ refresher = "none"
  /\ stop = FALSE /\ disabled = FALSE /\ worker = "idle" /\ asker = Nobody

Active == \E t \in Tool : shown[t] = "running"
Steps(t, names) == [i \in DOMAIN names |-> [do |-> names[i], tool |-> t]]

CompletingKnownOnly(t) ==          \* Faulty variant: an unknown task is only started
  IF shown[t] = "absent" THEN <<"enter", "show", "draw", "refresh">>
                         ELSE <<"leave", "draw", "halt">>

\* What a tool.completed does to a task the panel does not know (_event_task
\* starts one) before it completes it.
Completing(t) ==
  IF shown[t] = "absent"
  THEN <<"enter", "show", "draw", "refresh", "leave", "draw", "halt">>
  ELSE <<"leave", "draw", "halt">>

-----------------------------------------------------------------------------
(* The event loop: __call__ takes the writer's lock for the whole event.       *)

Handle(t, names) ==
  /\ todo = <<>> /\ writer = Nobody
  /\ writer' = "loop" /\ todo' = Steps(t, names)

ToolStarted(t) ==
  /\ t \notin open /\ Handle(t, <<"enter", "show", "draw", "refresh">>)
  /\ open' = open \cup {t}
  /\ UNCHANGED <<board, shown, refresher, stop, disabled, worker, asker>>

ToolCompleted(t) ==
  /\ t \in open /\ t # asker
  /\ \/ Handle(t, Completing(t))                                \* tool.completed
     \/ Handle(t, <<"clear">> \o Completing(t) \o <<"draw">>)   \* tool.failed
  /\ open' = open \ {t}
  /\ UNCHANGED <<board, shown, refresher, stop, disabled, worker, asker>>

\* Text of the model or of a tool suspends the panel first (clear_live).
Output ==
  /\ \E t \in Tool : Handle(t, <<"clear">>)
  /\ UNCHANGED <<board, open, shown, refresher, stop, disabled, worker, asker>>

Shows(segment) ==
  CASE segment.do = "enter" /\ shown[segment.tool] = "absent" ->
         [shown EXCEPT ![segment.tool] = "pending"]
    [] segment.do = "show"  -> [shown EXCEPT ![segment.tool] = "running"]
    [] segment.do = "leave" -> [shown EXCEPT ![segment.tool] = "done"]
    [] OTHER                -> shown

\* One piece of the event, up to the next release of the board's lock.  The
\* writer's lock is reentrant, so under it the loop waits for the board only.
EventStep ==
  /\ todo # <<>> /\ Head(todo).do \notin {"refresh", "halt"}
  /\ board = Nobody
  /\ shown' = Shows(Head(todo))
  /\ todo' = Tail(todo)
  /\ writer' = IF Tail(todo) = <<>> THEN Nobody ELSE writer
  /\ UNCHANGED <<board, open, refresher, stop, disabled, worker, asker>>

\* _start_refresh leaves a refresher alone that is still alive, also one that
\* has been told to stop.
StartRefresh ==
  /\ todo # <<>> /\ Head(todo).do = "refresh"
  /\ IF disabled \/ refresher # "none" THEN UNCHANGED <<refresher, stop>>
     ELSE refresher' = "asleep" /\ stop' = FALSE
  /\ todo' = Tail(todo)
  /\ writer' = IF Tail(todo) = <<>> THEN Nobody ELSE writer
  /\ UNCHANGED <<board, open, shown, disabled, worker, asker>>

\* _stop_refresh_loop waits 0.2 seconds at most, so the refresher may survive.
StopRefresh ==
  /\ todo # <<>> /\ Head(todo).do = "halt"
  /\ stop' = (stop \/ ~Active)
  /\ todo' = Tail(todo)
  /\ writer' = IF Tail(todo) = <<>> THEN Nobody ELSE writer
  /\ UNCHANGED <<board, open, shown, refresher, disabled, worker, asker>>

\* Between events the loop reads the prompt (prepare_for_input) and starts the
\* next request with an empty panel (begin_turn).
PrepareForInput ==
  /\ todo = <<>> /\ board = Nobody /\ worker = "idle"
  /\ stop' = TRUE /\ disabled' = TRUE
  /\ UNCHANGED <<writer, board, todo, open, shown, refresher, worker, asker>>

BeginTurn ==
  /\ todo = <<>> /\ board = Nobody /\ worker = "idle"
  /\ stop' = TRUE /\ disabled' = FALSE /\ shown' = [t \in Tool |-> "absent"]
  /\ UNCHANGED <<writer, board, todo, open, refresher, worker, asker>>

-----------------------------------------------------------------------------
(* The refresher: a look at the tasks, then a redraw, each under the board's   *)
(* lock; the redraw takes the writer's lock inside it (replace_lines).         *)

RefresherSleeps ==
  /\ refresher = "asleep"
  /\ refresher' = IF stop THEN "none" ELSE "awake"
  /\ UNCHANGED <<writer, board, todo, open, shown, stop, disabled, worker, asker>>

RefresherLooks ==
  /\ refresher = "awake" /\ board = Nobody
  /\ refresher' = IF Active THEN "due" ELSE "none"
  /\ UNCHANGED <<writer, board, todo, open, shown, stop, disabled, worker, asker>>

RefresherTakesBoard ==
  /\ refresher = "due" /\ board = Nobody
  /\ board' = "refresher" /\ refresher' = "drawing"
  /\ UNCHANGED <<writer, todo, open, shown, stop, disabled, worker, asker>>

RefresherDraws ==
  /\ refresher = "drawing" /\ writer = Nobody
  /\ board' = Nobody /\ refresher' = "asleep"
  /\ UNCHANGED <<writer, todo, open, shown, stop, disabled, worker, asker>>

-----------------------------------------------------------------------------
(* confirm_action on the worker thread of a tool: pause_for_approval, the      *)
(* question, resume_after_approval (which finds the refresh disabled).         *)

\* The tool runs once its tool.started has been handled.
Runs(t) == t \in open /\ (todo # <<>> => Head(todo).tool # t)

Pause ==
  /\ worker = "idle" /\ board = Nobody /\ \E t \in Tool : Runs(t) /\ asker' = t
  /\ worker' = "disabled" /\ disabled' = TRUE /\ stop' = TRUE
  /\ UNCHANGED <<writer, board, todo, open, shown, refresher>>

PauseTakesBoard ==
  /\ worker = "disabled" /\ board = Nobody
  /\ worker' = "drawing" /\ board' = "worker"
  /\ UNCHANGED <<writer, todo, open, shown, refresher, stop, disabled, asker>>

PauseDraws ==
  /\ worker = "drawing" /\ writer = Nobody
  /\ worker' = "drawn" /\ board' = Nobody
  /\ UNCHANGED <<writer, todo, open, shown, refresher, stop, disabled, asker>>

AskOperator ==
  /\ worker = "drawn" /\ board = Nobody /\ worker' = "asking"
  /\ UNCHANGED <<writer, board, todo, open, shown, refresher, stop, disabled, asker>>

Resume ==
  /\ worker = "asking" /\ board = Nobody
  /\ worker' = "idle" /\ asker' = Nobody
  /\ IF Active /\ ~disabled /\ refresher = "none"
     THEN refresher' = "asleep" /\ stop' = FALSE
     ELSE UNCHANGED <<refresher, stop>>
  /\ UNCHANGED <<writer, board, todo, open, shown, disabled>>

Next ==
  \/ \E t \in Tool : ToolStarted(t) \/ ToolCompleted(t)
  \/ Output \/ EventStep \/ StartRefresh \/ StopRefresh
  \/ PrepareForInput \/ BeginTurn
  \/ RefresherSleeps \/ RefresherLooks \/ RefresherTakesBoard \/ RefresherDraws
  \/ Pause \/ PauseTakesBoard \/ PauseDraws \/ AskOperator \/ Resume

Spec == Init /\ [][Next]_vars

-----------------------------------------------------------------------------
(* Between two events, what the panel shows as running does run: whatever the  *)
(* order of a tool's end, a new request's empty panel and a late completion of *)
(* a tool the panel has forgotten.                                             *)
ShownRunningRuns ==
  todo = <<>> => \A t \in Tool : shown[t] \in {"pending", "running"} => t \in open

(* "Thread-safe terminal output primitives" (terminal_task_board.py:1): the    *)
(* event loop, which holds the writer's lock and wants the board's, and the    *)
(* refresher, which holds the board's and wants the writer's, never wait for   *)
(* each other.                                                                 *)
LoopAndRefresherNeverDeadlock ==
  ~ /\ writer = "loop" /\ todo # <<>> /\ Head(todo).do \notin {"refresh", "halt"}
    /\ board = "refresher" /\ refresher = "drawing"
=============================================================================
