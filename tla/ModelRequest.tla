---------------------------- MODULE ModelRequest ----------------------------
(***************************************************************************)
(* A request to the model, from the retry loop to the terminal:            *)
(*   - create_chat_completion_with_retry (AgenteGlobalCore.py): attempts,  *)
(*     the events it publishes, when it may try again;                     *)
(*   - HuaweiMaaSAdapter.stream and complete (llm/huawei_maas.py): how the *)
(*     chunks of the provider become events and a response;                *)
(*   - TerminalEventConsumer (runtime/observers.py): the loading           *)
(*     indicators and the open answer on the terminal.                     *)
(*                                                                         *)
(* Agents (the assistant and its subagents) share the terminal.  The       *)
(* subscribers of the event bus are plain functions and its lock is never  *)
(* contended, so a published event is handled within the step that         *)
(* publishes it; agents interleave where a request waits for the provider. *)
(* A text fragment is abstracted to its number within the answer.          *)
(***************************************************************************)
EXTENDS Integers

CONSTANTS Agent,       \* the agents that talk to the model
          Visible,     \* those whose answer is shown (stream_output)
          Retries,     \* --api-retries
          MaxChunks,   \* bound: chunks of one attempt
          MaxTools,    \* bound: tool calls of one answer
          MaxAsked     \* bound: requests of one agent

ModelRequestAssumption ==
    /\ Visible \subseteq Agent
    /\ {Retries, MaxChunks, MaxTools, MaxAsked} \subseteq Nat

VARIABLES req,         \* per agent: where its request stands
          asked,       \* per agent: requests made
          shown,       \* per agent: text deltas published for its request
          indicators,  \* the loading indicators that turn: <<agent, attempt>>
          answering    \* whether an answer is open on the terminal

modelRequestVars == <<req, asked, shown, indicators, answering>>

Attempts == Retries + 1

\* text: fragments joined so far; tools: tool calls begun; chunks: what the attempt
\* has received; stream: whether the provider streams.
Request == [phase : {"idle", "open", "pausing", "returned", "raised", "cancelled"},
            attempt : 0..Attempts, stream : BOOLEAN, chunks : 0..MaxChunks,
            text : 0..MaxChunks, tools : 0..MaxTools]

TypeOK ==
    /\ req \in [Agent -> Request]
    /\ asked \in [Agent -> 0..MaxAsked]
    /\ shown \in [Agent -> 0..(MaxChunks * Attempts)]
    /\ indicators \subseteq Agent \X (1..Attempts)
    /\ answering \in BOOLEAN

NoRequest == [phase |-> "idle", attempt |-> 0, stream |-> TRUE, chunks |-> 0,
              text |-> 0, tools |-> 0]

Init ==
    /\ req = [a \in Agent |-> NoRequest]
    /\ asked = [a \in Agent |-> 0]
    /\ shown = [a \in Agent |-> 0]
    /\ indicators = {}
    /\ answering = FALSE

-----------------------------------------------------------------------------
(* What the terminal does with the events.                                 *)

\* llm.request_started closes the open answer and starts an indicator.
ShowStarted(a, attempt) ==
    /\ answering' = FALSE
    /\ indicators' = indicators \cup {<<a, attempt>>}

\* Nothing of the stream has been seen: no text and no tool call.
NothingEmitted(a) == req[a].text = 0 /\ req[a].tools = 0

\* first_token, tool_call_started and tool_call_completed stop every indicator; so
\* does a text delta that is shown, which opens the answer.
ShowFragment(a, isText) ==
    /\ indicators' = IF NothingEmitted(a) \/ ~isText \/ a \in Visible THEN {}
                     ELSE indicators
    /\ answering' = (answering \/ (isText /\ a \in Visible))

\* llm.request_completed, whatever its status.
ShowCompleted ==
    /\ indicators' = {}
    /\ answering' = FALSE

-----------------------------------------------------------------------------
Starting(a, attempt, stream) ==
    /\ req' = [req EXCEPT ![a] = [NoRequest EXCEPT !.phase = "open", !.attempt = attempt,
                                                   !.stream = stream]]
    /\ ShowStarted(a, attempt)

\* A turn of the agent: the request is bounded to the context budget and started.
Ask(a) ==
    /\ req[a].phase \notin {"open", "pausing"}
    /\ asked[a] < MaxAsked
    /\ asked' = [asked EXCEPT ![a] = @ + 1]
    /\ \E stream \in BOOLEAN : Starting(a, 1, stream)
    /\ shown' = [shown EXCEPT ![a] = 0]

Streaming(a) == req[a].phase = "open" /\ req[a].stream /\ req[a].chunks < MaxChunks

TextChunk(a) ==
    /\ Streaming(a)
    /\ req' = [req EXCEPT ![a].chunks = @ + 1, ![a].text = @ + 1]
    /\ shown' = [shown EXCEPT ![a] = @ + 1]
    /\ ShowFragment(a, TRUE)
    /\ UNCHANGED asked

\* A fragment of a tool call, of a new one or of one that has begun.
ToolChunk(a, new) ==
    /\ Streaming(a)
    /\ IF new THEN req[a].tools < MaxTools ELSE req[a].tools > 0
    /\ req' = [req EXCEPT ![a].chunks = @ + 1, ![a].tools = IF new THEN @ + 1 ELSE @]
    /\ IF new THEN ShowFragment(a, FALSE) ELSE UNCHANGED <<indicators, answering>>
    /\ UNCHANGED <<asked, shown>>

\* A chunk with the usage or a finish reason only.
SilentChunk(a) ==
    /\ Streaming(a)
    /\ req' = [req EXCEPT ![a].chunks = @ + 1]
    /\ UNCHANGED <<asked, shown, indicators, answering>>

\* The stream ends, by [DONE] or because the connection is closed: the adapter
\* cannot tell and completes what it has.
StreamEnds(a) ==
    /\ req[a].phase = "open" /\ req[a].stream
    /\ req' = [req EXCEPT ![a].phase = "returned"]
    /\ ShowCompleted
    /\ UNCHANGED <<asked, shown>>

\* A request that is not streamed: its whole content is one delta, if any.
WholeAnswer(a, text) ==
    /\ req[a].phase = "open" /\ ~ req[a].stream
    /\ text <= MaxChunks
    /\ req' = [req EXCEPT ![a].phase = "returned", ![a].text = text]
    /\ shown' = [shown EXCEPT ![a] = @ + text]
    /\ ShowCompleted
    /\ UNCHANGED asked

\* Faulty variant: whatever was published.
RetryWhenTransient(a, retryable) == retryable /\ req[a].attempt < Attempts

MayRetry(a, retryable) == NothingEmitted(a) /\ retryable /\ req[a].attempt < Attempts

\* An OpenAIError: the failed attempt is closed, and tried again only if the error
\* is transient and nothing of the answer has been published.
ApiError(a, retryable) ==
    /\ req[a].phase = "open"
    /\ req' = [req EXCEPT ![a].phase = IF MayRetry(a, retryable) THEN "pausing" ELSE "raised"]
    /\ ShowCompleted
    /\ UNCHANGED <<asked, shown>>

\* Any other exception, for one a stream without an answer.
OtherError(a) ==
    /\ req[a].phase = "open"
    /\ req' = [req EXCEPT ![a].phase = "raised"]
    /\ ShowCompleted
    /\ UNCHANGED <<asked, shown>>

TryAgain(a) ==
    /\ req[a].phase = "pausing"
    /\ Starting(a, req[a].attempt + 1, req[a].stream)
    /\ UNCHANGED <<asked, shown>>

\* A cancellation reaches an open attempt, which is closed as cancelled, or the
\* pause before the next one, which publishes nothing.
Cancel(a) ==
    /\ req[a].phase \in {"open", "pausing"}
    /\ req' = [req EXCEPT ![a].phase = "cancelled"]
    /\ IF req[a].phase = "open" THEN ShowCompleted ELSE UNCHANGED <<indicators, answering>>
    /\ UNCHANGED <<asked, shown>>

Next ==
    \E a \in Agent :
        \/ Ask(a) \/ TextChunk(a) \/ SilentChunk(a) \/ StreamEnds(a)
        \/ \E new \in BOOLEAN : ToolChunk(a, new)
        \/ \E text \in 0..1 : WholeAnswer(a, text)
        \/ \E retryable \in BOOLEAN : ApiError(a, retryable)
        \/ OtherError(a) \/ TryAgain(a) \/ Cancel(a)

Spec == Init /\ [][Next]_modelRequestVars

-----------------------------------------------------------------------------
\* What was published of an answer is the answer: a retry never starts after a part
\* of an earlier attempt has been shown, so no text is shown twice and none of it
\* is missing from the response that the agent records.
ShownIsTheAnswer ==
    \A a \in Agent :
        /\ req[a].phase = "returned" => shown[a] = req[a].text
        /\ req[a].phase = "open" => shown[a] = req[a].text

\* An indicator turns only while the attempt it was started for is open, whoever
\* else asks, answers, fails or is cancelled meanwhile.
IndicatorsAreWaiting ==
    \A i \in indicators : req[i[1]].phase = "open" /\ req[i[1]].attempt = i[2]
=============================================================================
