------------------------------- MODULE Console -------------------------------
(***************************************************************************)
(* The operator's console: agent_loop and the session around it            *)
(* (run_runtime_session, main), the commands that speak with the model,    *)
(* the conversation they leave and the history files it is saved to.       *)
(*                                                                         *)
(* An item of the conversation is a number never used twice and whether it *)
(* was said (by the operator, the model or a tool) or is only a note of    *)
(* the runtime.  What a command does to the workspace is the business of   *)
(* the other modules: here it is one of the ways its handler can end.      *)
(***************************************************************************)
EXTENDS Naturals, FiniteSets

CONSTANTS
    Workspace,
    MaxItems,      \* bound: items appended in a run of the program
    Nothing        \* no digest, no command, no runtime

ConsoleAssumption ==
    /\ Workspace # {} /\ Nothing \notin Workspace /\ MaxItems \in Nat \ {0}
    /\ \A some \in SUBSET [n : 1..MaxItems, said : BOOLEAN] : some # Nothing

VARIABLES
    where,         \* where the program stands
    command,       \* the command in hand
    reason,        \* "manual", or why the conversation is saved on the way out
    workspace,     \* config.workspace
    serving,       \* the workspace of the open code intelligence runtime
    planning,      \* conversation_mode = "plan"
    api,           \* api_available
    messages,      \* the items of the conversation
    before,        \* those of before the turn: messages[:turn_start]
    items,         \* items appended so far
    digest,        \* last_saved_digest: the conversation it was computed from
    files,         \* the history files: [workspace, messages]
    parting        \* how agent_loop ended

vars == <<where, command, reason, workspace, serving, planning, api, messages,
          before, items, digest, files, parting>>

session == <<workspace, serving, planning, api>>
history == <<digest, files>>

Turns == {"chat", "plan", "plan turn", "run", "resume", "goal", "spawn", "explore"}
Said(m) == \E i \in m : i.said                    \* has_meaningful_history
Item(n, said) == [n |-> n, said |-> said]

TypeOK ==
    /\ where \in {"starting", "prompt", "working", "summarising", "writing",
                  "switching", "leaving", "ended"}
    /\ command \in Turns \cup {Nothing}
    /\ reason \in {"manual", "eof", "exit", "interrupt", "again", Nothing}
    /\ workspace \in Workspace /\ serving \in Workspace \cup {Nothing}
    /\ planning \in BOOLEAN /\ api \in BOOLEAN
    /\ messages \subseteq [n : 1..MaxItems, said : BOOLEAN]
    /\ before \subseteq messages /\ items \in 0..MaxItems
    /\ files \subseteq [workspace : Workspace, messages : SUBSET [n : 1..MaxItems, said : BOOLEAN]]
    /\ parting \in {"none", "kept", "unsaved", "moved", "thrown", "refused"}

Init ==
    /\ where = "starting" /\ command = Nothing /\ reason = Nothing
    /\ workspace = CHOOSE w \in Workspace : TRUE
    /\ serving = Nothing /\ planning = FALSE /\ api = TRUE
    /\ messages = {} /\ before = {} /\ items = 0
    /\ digest = Nothing /\ files = {} /\ parting = "none"

-----------------------------------------------------------------------------
(* The session: main and run_runtime_session *)

Configure ==                                      \* parse_args, build_config
    /\ where = "starting" /\ where' = "switching"
    /\ UNCHANGED <<command, reason, session, messages, before, items, history, parting>>

(* An option, a profile, an alias or a key main cannot use.                 *)
RefusesConfiguration ==
    /\ where = "starting" /\ where' = "ended" /\ parting' = "refused"
    /\ UNCHANGED <<command, reason, session, messages, before, items, history>>

(* agent_loop begins: everything it knows is local to it.                   *)
Begin ==
    /\ where = "switching" /\ where' = "prompt"
    /\ serving' = workspace /\ planning' = FALSE /\ api' = TRUE
    /\ messages' = {} /\ before' = {} /\ digest' = Nothing /\ parting' = "none"
    /\ UNCHANGED <<command, reason, workspace, items, files>>

(* A workspace whose agents, log or setup cannot be read ends the program.  *)
CannotBegin ==
    /\ where = "switching" /\ where' = "leaving" /\ parting' = "thrown"
    /\ UNCHANGED <<command, reason, session, messages, before, items, history>>

Leave(how) ==
    /\ where' = "leaving" /\ parting' = how
    /\ command' = Nothing /\ reason' = Nothing

(* The finally blocks of run_runtime_session.                               *)
End ==
    /\ where = "leaving" /\ where' = "ended" /\ serving' = Nothing
    /\ UNCHANGED <<command, reason, workspace, planning, api, messages, before,
                   items, history, parting>>

-----------------------------------------------------------------------------
(* Commands that end where they begin *)

Room(n) == items + n <= MaxItems
Append(said) ==
    /\ Room(1)
    /\ messages' = messages \cup {Item(items + 1, said)} /\ items' = items + 1

AppendExchange ==
    /\ Room(2)
    /\ messages' = messages \cup {Item(items + 1, TRUE), Item(items + 2, TRUE)}
    /\ items' = items + 2

(* /mode, /deep, /verbosity, /skills inspect.                               *)
Announce ==
    /\ where = "prompt" /\ Append(FALSE)
    /\ UNCHANGED <<where, command, reason, session, before, history, parting>>

(* /plan without a goal, /plan off, /chat.                                  *)
SwitchMode ==
    /\ where = "prompt" /\ Append(FALSE)
    /\ \E p \in BOOLEAN : planning' = p
    /\ UNCHANGED <<where, command, reason, workspace, serving, api, before,
                   history, parting>>

Clear ==                                          \* /clear
    /\ where = "prompt" /\ messages # {}
    /\ messages' = {} /\ before' = {} /\ digest' = Nothing
    /\ UNCHANGED <<where, command, reason, session, items, files, parting>>

(* /workspace: agent_loop returns the other workspace's configuration, and  *)
(* the conversation is left behind as it is.                                *)
ChangeWorkspace ==
    /\ where = "prompt"
    /\ \E w \in Workspace \ {workspace} : workspace' = w
    /\ where' = "switching" /\ serving' = Nothing /\ parting' = "moved"
    /\ UNCHANGED <<command, reason, planning, api, messages, before, items, history>>

-----------------------------------------------------------------------------
(* Commands that take a turn *)

Ask(c) ==
    /\ where = "prompt" /\ c \in Turns /\ Room(2)
    /\ c = "chat" => ~planning
    /\ c = "plan turn" => planning
    /\ where' = "working" /\ command' = c /\ before' = messages
    /\ CASE c = "chat" -> Append(TRUE) /\ UNCHANGED planning
         [] c = "plan" -> Append(FALSE) /\ planning' = TRUE
         [] OTHER      -> UNCHANGED <<messages, items, planning>>
    /\ UNCHANGED <<reason, workspace, serving, api, history, parting>>

Back ==
    /\ where' = "prompt" /\ command' = Nothing
    /\ UNCHANGED <<reason, workspace, serving, planning, before, history, parting>>

(* Answers and tool results of the turn, as they come.                      *)
Works ==
    /\ where = "working" /\ command = "chat" /\ Append(TRUE)
    /\ UNCHANGED <<where, command, reason, session, before, history, parting>>

(* An answer; only a chat has appended its own already.                     *)
Answered ==
    /\ where = "working" /\ Back
    /\ IF command = "chat" THEN messages # before /\ UNCHANGED <<messages, items>>
                           ELSE AppendExchange
    /\ IF command = "explore" THEN UNCHANGED api ELSE api' = TRUE

(* A run that stops for a scope expansion says nothing in the conversation. *)
Paused ==
    /\ where = "working" /\ command \in {"run", "resume"} /\ Back
    /\ api' = TRUE /\ UNCHANGED <<messages, items>>

(* A subagent that failed is an exchange all the same.                      *)
SubagentFailed ==
    /\ where = "working" /\ command = "spawn" /\ Back
    /\ AppendExchange /\ api' \in {api, FALSE}

ApiFailed ==                                      \* append_api_failure_context
    /\ where = "working" /\ command \notin {"spawn", "explore"} /\ Back
    /\ Append(FALSE) /\ api' = FALSE

(* Refused, not approved, too large: what the turn appended is withdrawn,   *)
(* or the handler only prints the reason.                                   *)
Withdrawn ==
    /\ where = "working" /\ command \in {"chat", "goal"} /\ Back
    /\ messages' = before /\ UNCHANGED <<items, api>>

Refused ==
    /\ where = "working" /\ command \notin {"chat", "goal"} /\ Back
    /\ UNCHANGED <<messages, items, api>>

(* close_oversized_turn when tools have run: their results stay.            *)
OversizedWithEvidence ==
    /\ where = "working" /\ command = "chat" /\ messages # before /\ Back
    /\ Append(TRUE) /\ UNCHANGED api

(* An exception no handler of agent_loop names, a cancellation included.    *)
Throws ==
    /\ where \in {"prompt", "working", "summarising", "writing"} /\ Leave("thrown")
    /\ UNCHANGED <<session, messages, before, items, history>>

-----------------------------------------------------------------------------
(* Saving: save_conversation_history, save_history_if_changed and           *)
(* persist_history_on_exit *)

Save(why, summary) ==
    /\ reason' = why /\ command' = Nothing
    /\ where' = IF summary THEN "summarising" ELSE "writing"
    /\ UNCHANGED <<session, messages, before, items, history, parting>>

SaveByHand ==                                     \* /save
    /\ where = "prompt" /\ Said(messages) /\ Save("manual", api)

Unchanged == ~Said(messages) \/ messages = digest

(* What the handlers do before they return: nothing is asked of the model   *)
(* after an interrupt.                                                      *)
Persist(why, summary) ==
    IF Unchanged
    THEN Leave("kept") /\ UNCHANGED <<session, messages, before, items, history>>
    ELSE Save(why, summary)

Exit == where = "prompt" /\ \E why \in {"exit", "eof"} : Persist(why, api)

(* KeyboardInterrupt at the prompt, in a turn whose handler names it, or in *)
(* /save.                                                                   *)
Interrupted ==
    /\ \/ where = "prompt"
       \/ where = "working" /\ command \in {"chat", "plan", "goal", "spawn"}
       \/ where \in {"summarising", "writing"} /\ reason = "manual"
    /\ Persist("interrupt", FALSE)

(* A second try, the last one, without the model.                           *)
InterruptedOnTheWay ==
    /\ where \in {"summarising", "writing"} /\ reason \in {"exit", "eof", "interrupt"}
    /\ Save("again", FALSE)

(* The model's summary, or the transcript in its place.                     *)
Summarised ==
    /\ where = "summarising" /\ where' = "writing"
    /\ UNCHANGED <<command, reason, session, messages, before, items, history, parting>>

AfterSave(kept) ==
    IF reason = "manual"
    THEN where' = "prompt" /\ reason' = Nothing /\ UNCHANGED <<command, parting>>
    ELSE Leave(IF kept THEN "kept" ELSE "unsaved")

Written ==                                        \* unique_history_path, os.replace
    /\ where = "writing"
    /\ files' = files \cup {[workspace |-> workspace, messages |-> messages]}
    /\ digest' = messages /\ AfterSave(TRUE)
    /\ UNCHANGED <<session, messages, before, items>>

(* Interrupted between the replace and the return.                          *)
WrittenUnknown ==
    /\ where = "writing" /\ reason # "again"
    /\ files' = files \cup {[workspace |-> workspace, messages |-> messages]}
    /\ reason' = IF reason = "manual" THEN "interrupt" ELSE "again"
    /\ UNCHANGED <<where, command, session, messages, before, items, digest, parting>>

(* Faulty variant: the digest of a transcript that could not be written.    *)
DigestTaken == digest' = messages
DigestKept == UNCHANGED digest

WriteFails ==                                     \* OSError, PermissionError
    /\ where = "writing" /\ AfterSave(FALSE)
    /\ DigestKept /\ UNCHANGED <<session, messages, before, items, files>>

Next ==
    \/ Configure \/ RefusesConfiguration \/ Begin \/ CannotBegin \/ End
    \/ Announce \/ SwitchMode \/ Clear \/ ChangeWorkspace
    \/ \E c \in Turns : Ask(c)
    \/ Works \/ Answered \/ Paused \/ SubagentFailed \/ ApiFailed \/ Withdrawn
    \/ Refused \/ OversizedWithEvidence \/ Throws
    \/ SaveByHand \/ Exit \/ Interrupted \/ InterruptedOnTheWay
    \/ Summarised \/ Written \/ WrittenUnknown \/ WriteFails

Spec == Init /\ [][Next]_vars

-----------------------------------------------------------------------------
(* When an exit (/exit, the end of the input, Ctrl-C) has not printed that  *)
(* the save failed, whatever was said since the last /clear is in a history *)
(* file of the workspace the operator is in: the digest lets an exit skip   *)
(* the save only when that very conversation, and not one that failed to be *)
(* written, was withdrawn, cleared or had in another workspace, is on disk. *)
(* Of the other ways agent_loop ends nothing is claimed: what was said      *)
(* since the last save is gone without a word when /workspace moves to      *)
(* another folder (it returns without saving), and when a turn throws what  *)
(* its handler does not name.                                               *)
WhatWasSaidIsFiled ==
    parting = "kept" /\ where \in {"leaving", "ended"} /\ Said(messages)
        => [workspace |-> workspace, messages |-> messages] \in files
=============================================================================
