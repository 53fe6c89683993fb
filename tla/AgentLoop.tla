----------------------------- MODULE AgentLoop -----------------------------
(***************************************************************************)
(* The loop of model turns and tool calls (_run_agent_until_final_impl),   *)
(* the conversation it leaves behind (agent_loop) and the part of it each  *)
(* request carries (runtime/context_window.py).  An agent of a task ends   *)
(* with submit_agent_result (the result protocol), the operator's agent    *)
(* with text.                                                              *)
(*                                                                         *)
(* A message is its role, what system messages announce, and how many tool *)
(* calls it makes.  Every message has size one and a request may carry any *)
(* number of them: what fits is arbitrary.                                 *)
(***************************************************************************)
EXTENDS Naturals, Sequences, FiniteSets, SequencesExt, Enumeration

CONSTANTS
    MaxSteps,        \* max_steps
    MaxProtocol,     \* max_repairs of the result protocol
    MaxCalls,        \* bound: tool calls of one answer
    MaxMessages      \* bound: messages of a conversation between turns

LoopAssumption ==
    MaxSteps \in Nat \ {0} /\ MaxProtocol \in Nat
    /\ MaxCalls \in Nat \ {0} /\ MaxMessages \in Nat \ {0}

VARIABLES
    protocol,        \* this agent has a result protocol
    phase,           \* "prompt", "asking", "calling", or "ended"
    messages,
    turnStart,       \* messages before this turn
    modelStep,       \* step
    invalid          \* invalid_result_attempts

vars == <<protocol, phase, messages, turnStart, modelStep, invalid>>

Message(role) == [role |-> role, state |-> "none", calls |-> 0]
State(name) == [Message("system") EXCEPT !.state = name]
Calling(n) == [Message("assistant") EXCEPT !.calls = n]
Results(n) == [i \in 1..n |-> Message("tool")]

Init ==
    /\ protocol \in BOOLEAN
    /\ phase = "prompt"
    /\ messages = <<Message("system"), State("session_state")>>
    /\ turnStart = 0 /\ modelStep = 0 /\ invalid = 0

-----------------------------------------------------------------------------
(* What a request carries: prepare_messages *)

LatestUser(m) ==
    IF \A i \in DOMAIN m : m[i].role # "user" THEN Len(m) + 1
    ELSE CHOOSE i \in DOMAIN m :
            m[i].role = "user" /\ \A j \in (i + 1)..Len(m) : m[j].role # "user"

Anchors(m, user) ==
    {i \in 1..(user - 1) :
        /\ m[i].role = "system"
        /\ i # 1 /\ m[i].state # "none" =>
              \A j \in (i + 1)..(user - 1) : m[j].state # m[i].state}

(* Messages are kept from the beginning of a turn on.                       *)
(* Faulty variant: from anywhere.                                           *)
AnyStart(older) == 1..(Len(older) + 1)

ChunkStarts(older) ==
    {i \in DOMAIN older : older[i].role = "user" \/ i = 1} \cup {Len(older) + 1}

Mandatory(m, user) == Cardinality(Anchors(m, user)) + 1 + (Len(m) - user + 1)

Fits(m, limit) == Len(m) <= limit \/ Mandatory(m, LatestUser(m)) <= limit

Older(m, user) ==
    Select(m, {i \in 1..(user - 1) :
                  i \notin Anchors(m, user) /\ m[i].role # "system"})

FirstKept(m, user, limit) ==
    LET older == Older(m, user)
        Size(i) == Mandatory(m, user) + Len(older) - i + 1
    IN  CHOOSE i \in ChunkStarts(older) :
            /\ Size(i) <= limit
            /\ \A j \in ChunkStarts(older) : j < i => Size(j) > limit

Prepared(m, limit) ==
    LET user == LatestUser(m)
        older == Older(m, user)
    IN  IF Len(m) <= limit THEN m
        ELSE Select(m, Anchors(m, user))
             \o SubSeq(older, FirstKept(m, user, limit), Len(older))
             \o <<Message("system")>> \o SubSeq(m, user, Len(m))

-----------------------------------------------------------------------------
(* Turns *)

Begin ==
    /\ phase = "prompt" /\ Len(messages) < MaxMessages
    /\ messages' = Append(messages, Message("user"))
    /\ turnStart' = Len(messages)
    /\ phase' = "asking" /\ modelStep' = 1 /\ invalid' = 0
    /\ UNCHANGED protocol

(* /mode, /verbosity, /plan, /chat, /deep.                                  *)
Announce ==
    /\ phase = "prompt" /\ Len(messages) < MaxMessages /\ ~protocol
    /\ \E name \in {"none", "permission"} : messages' = Append(messages, State(name))
    /\ UNCHANGED <<protocol, phase, turnStart, modelStep, invalid>>

End == phase' = IF protocol THEN "ended" ELSE "prompt"

LastStep == modelStep >= MaxSteps + IF protocol THEN MaxProtocol + 1 ELSE 0

Continue ==
    /\ modelStep' = modelStep + 1
    /\ IF LastStep THEN End ELSE phase' = "asking"

(* close_oversized_turn: evidence of tools that have run is kept.           *)
TooLarge ==
    /\ phase = "asking" /\ \E limit \in DOMAIN messages : ~Fits(messages, limit)
    /\ messages' = IF \E i \in (turnStart + 1)..Len(messages) : messages[i].role = "tool"
                   THEN Append(messages, Message("assistant"))
                   ELSE SubSeq(messages, 1, turnStart)
    /\ End
    /\ UNCHANGED <<protocol, turnStart, modelStep, invalid>>

(* append_api_failure_context.                                              *)
ModelFails ==
    /\ phase = "asking"
    /\ messages' = Append(messages, Message("system"))
    /\ End
    /\ UNCHANGED <<protocol, turnStart, modelStep, invalid>>

AnswersNothing ==
    /\ phase = "asking" /\ ~protocol
    /\ End
    /\ UNCHANGED <<protocol, messages, turnStart, modelStep, invalid>>

AnswersText ==
    /\ phase = "asking"
    /\ IF protocol /\ invalid < MaxProtocol
       THEN /\ messages' = messages \o <<Message("assistant"), Message("user")>>
            /\ Continue
       ELSE /\ messages' = Append(messages, Message("assistant"))
            /\ End
            /\ UNCHANGED modelStep
    /\ invalid' = IF protocol THEN invalid + 1 ELSE invalid
    /\ UNCHANGED <<protocol, turnStart>>

(* A result that is no result, comes with other calls, or does not come     *)
(* although there are no steps left for tools: no call is executed.         *)
SubmitsInvalid ==
    /\ phase = "asking" /\ protocol
    /\ \E n \in 1..MaxCalls : messages' = messages \o <<Calling(n)>> \o Results(n)
    /\ invalid' = invalid + 1
    /\ IF invalid < MaxProtocol THEN Continue ELSE End /\ UNCHANGED modelStep
    /\ UNCHANGED <<protocol, turnStart>>

Submits ==
    /\ phase = "asking" /\ protocol
    /\ messages' = Append(messages, Calling(1))
    /\ End
    /\ UNCHANGED <<protocol, turnStart, modelStep, invalid>>

Calls ==
    /\ phase = "asking" /\ modelStep <= MaxSteps
    /\ \E n \in 1..MaxCalls : messages' = Append(messages, Calling(n))
    /\ phase' = "calling"
    /\ UNCHANGED <<protocol, turnStart, modelStep, invalid>>

(* The results of a batch, one after the other or all at once, are added    *)
(* when the last is there.                                                  *)
Returns ==
    /\ phase = "calling"
    /\ messages' = messages \o Results(Last(messages).calls)
    /\ Continue
    /\ UNCHANGED <<protocol, turnStart, invalid>>

(* No approval to be had: the turn is forgotten, with what it has done.     *)
ApprovalUnavailable ==
    /\ phase = "calling"
    /\ messages' = SubSeq(messages, 1, turnStart)
    /\ End
    /\ UNCHANGED <<protocol, turnStart, modelStep, invalid>>

(* The operator interrupts, or a tool raises what nobody expects.           *)
Exit ==
    /\ phase \in {"asking", "calling"}
    /\ phase' = "ended"
    /\ UNCHANGED <<protocol, messages, turnStart, modelStep, invalid>>

Next ==
    \/ Begin \/ Announce \/ TooLarge \/ ModelFails \/ AnswersNothing \/ AnswersText
    \/ SubmitsInvalid \/ Submits \/ Calls \/ Returns \/ ApprovalUnavailable \/ Exit

Spec == Init /\ [][Next]_vars

-----------------------------------------------------------------------------
TypeOK ==
    /\ protocol \in BOOLEAN
    /\ phase \in {"prompt", "asking", "calling", "ended"}
    /\ \A i \in DOMAIN messages :
          /\ messages[i].role \in {"system", "user", "assistant", "tool"}
          /\ messages[i].state \in {"none", "session_state", "permission"}
          /\ messages[i].calls \in 0..MaxCalls
    /\ turnStart \in 0..MaxMessages
    /\ modelStep \in 0..(MaxSteps + MaxProtocol + 2)
    /\ invalid \in 0..(MaxProtocol + 1)

(* Every call of an assistant is answered by the messages right behind it,  *)
(* and nothing else answers.                                                *)
WellFormed(m) ==
    \A i \in DOMAIN m :
        /\ i + m[i].calls <= Len(m)
        /\ \A k \in 1..m[i].calls : m[i + k].role = "tool"
        /\ m[i].role = "tool" =>
              \E k \in 1..MaxCalls : i > k /\ m[i - k].calls >= k

(* The messages, told apart by their places.                                *)
Numbered(m) ==
    [i \in DOMAIN m |->
        [role |-> m[i].role, state |-> m[i].state, calls |-> m[i].calls, place |-> i]]

Newest(m, i) ==
    m[i].state # "none" /\ \A j \in (i + 1)..Len(m) : m[j].state # m[i].state

(* However much of the conversation is left out, and however earlier turns  *)
(* ended, a request the model gets is well formed, and has the first system *)
(* message, of every kind of state the newest message itself, and at its    *)
(* end the active turn, message by message: of the operator's agent from    *)
(* the prompt on, of a task's agent from the latest request to repair on.   *)
(* (prepare_messages; the loop answers every call before it asks again.)    *)
RequestsAreWhole ==
    phase = "asking" =>
        LET said == Numbered(messages)
            turn == IF protocol THEN LatestUser(messages) ELSE turnStart + 1
        IN  \A limit \in DOMAIN messages :
                Fits(messages, limit) =>
                    LET request == Prepared(said, limit)
                    IN  /\ WellFormed(request)
                        /\ Len(request) <= limit
                        /\ request[1] = said[1]
                        /\ \A i \in DOMAIN said :
                              Newest(said, i) =>
                                  \E k \in DOMAIN request : request[k] = said[i]
                        /\ \A i \in turn..Len(said) :
                              /\ Len(said) - i < Len(request)
                              /\ request[Len(request) - (Len(said) - i)] = said[i]

=============================================================================
