--------------------------- MODULE RuntimeProofs ---------------------------
(***************************************************************************)
(* Parts of the runtime around plans and their execution, proved for every *)
(* value of their constants: first of the part by itself, then, at the end *)
(* of each section, of the runtime that it is a part of.                   *)
(***************************************************************************)
EXTENDS ConversationProofs, Integers, Sequences, FiniteSets, FiniteSetTheorems, TLAPS

(* The variables of each part, by their names there.                        *)

\* ModelRequest
LOCAL req == s1
LOCAL asked == s2
LOCAL answering == s3
LOCAL indicators == s4
LOCAL shown == s5

\* Checkpoints
LOCAL file == s1
LOCAL taken == s2
LOCAL manifest == s3
LOCAL made == s4
LOCAL working == s5
LOCAL restoring == s6
LOCAL slipped == s7

\* ToolCall
LOCAL request == s2
LOCAL callStage == s3
LOCAL thread == s4
LOCAL callProcess == s5
LOCAL why == s6
LOCAL cancels == s7
LOCAL prompt == s8
LOCAL loop == s9
LOCAL mode == s10

\* TaskBoard
LOCAL writer == s1
LOCAL board == s2
LOCAL todo == s3
LOCAL open == s4
LOCAL refresher == s6
LOCAL stop == s7
LOCAL disabled == s8
LOCAL worker == s9
LOCAL asker == s10

\* Delegation
LOCAL call == s1
LOCAL started == s3
LOCAL work == s4
LOCAL stray == s5

\* ContextStore
LOCAL artifact == s1
LOCAL disk == s2
LOCAL memory == s3
LOCAL storeIndex == s4
LOCAL job == s5

USE DEF req, asked, answering, indicators, shown, file, taken, manifest,
        made, working, restoring, slipped, request, callStage, thread, callProcess, why,
        cancels, prompt, loop, mode, writer, board, todo, open, refresher,
        stop, disabled, worker, asker, call, started, work, stray, artifact, disk,
        memory, storeIndex, job

-----------------------------------------------------------------------------
(* A request to the model.  Fragments shown and fragments kept agree while  *)
(* an attempt is open, since an attempt starts only when nothing of the one *)
(* before was shown; what a request shows never exceeds one attempt.        *)

ModelBook ==
    \A a \in Agent :
        /\ req[a].phase \in {"open", "pausing"} =>
              /\ req[a].attempt >= 1
              /\ req[a].text <= req[a].chunks
              /\ shown[a] = req[a].text
        /\ req[a].phase = "open" /\ ~req[a].stream => req[a].text = 0
        /\ req[a].phase = "pausing" => req[a].attempt <= Retries /\ req[a].text = 0
        /\ req[a].phase = "returned" => shown[a] = req[a].text
        /\ shown[a] <= MaxChunks

ModelInv == Model!TypeOK /\ ModelBook /\ Model!IndicatorsAreWaiting

LEMMA AttemptsBound ==
    ASSUME Model!ModelRequestAssumption
    PROVE  /\ MaxChunks \in Nat /\ Retries \in Nat /\ MaxTools \in Nat /\ MaxAsked \in Nat
           /\ Model!Attempts = Retries + 1
           /\ MaxChunks * Model!Attempts \in Nat
           /\ 0..MaxChunks \subseteq 0..(MaxChunks * Model!Attempts)
<1>1. /\ MaxChunks \in Nat /\ Retries \in Nat /\ MaxTools \in Nat /\ MaxAsked \in Nat
      /\ Model!Attempts = Retries + 1
  BY DEF Model!ModelRequestAssumption, Model!Attempts
<1>2. MaxChunks * (Retries + 1) = MaxChunks * Retries + MaxChunks
  BY <1>1
<1>3. MaxChunks * Retries \in Nat
  BY <1>1
<1>4. QED BY <1>1, <1>2, <1>3

LEMMA ModelStart == Model!ModelRequestAssumption /\ Model!Init => ModelInv
<1> SUFFICES ASSUME Model!ModelRequestAssumption, Model!Init PROVE ModelInv
  OBVIOUS
<1>1. Model!NoRequest \in Model!Request
  BY AttemptsBound DEF Model!NoRequest, Model!Request
<1>2. Model!TypeOK
  <2>1. 0 \in 0..(MaxChunks * Model!Attempts) /\ 0 \in 0..MaxAsked
    BY AttemptsBound
  <2>2. QED BY <1>1, <2>1 DEF Model!Init, Model!TypeOK
<1>3. ModelBook /\ Model!IndicatorsAreWaiting
  BY AttemptsBound
     DEF Model!Init, ModelBook, Model!IndicatorsAreWaiting, Model!NoRequest
<1>4. QED BY <1>2, <1>3 DEF ModelInv

(* An agent's request and what is shown of it move together; the indicators *)
(* are the same, gone, or one more for the attempt that has just started.   *)
RequestMoves(a) ==
    /\ req' \in [Agent -> Model!Request]
    /\ asked' \in [Agent -> 0..MaxAsked] /\ answering' \in BOOLEAN
    /\ shown' = [shown EXCEPT ![a] = shown'[a]] /\ shown'[a] \in 0..MaxChunks
    /\ \A b \in Agent \ {a} : req'[b] = req[b]
    /\ req'[a].phase \in {"open", "pausing"} =>
          /\ req'[a].attempt >= 1 /\ req'[a].text <= req'[a].chunks
          /\ shown'[a] = req'[a].text
    /\ req'[a].phase = "open" /\ ~req'[a].stream => req'[a].text = 0
    /\ req'[a].phase = "pausing" => req'[a].attempt <= Retries /\ req'[a].text = 0
    /\ req'[a].phase = "returned" => shown'[a] = req'[a].text
    /\ \/ indicators' = {}
       \/ /\ indicators' = indicators
          /\ req[a].phase = "open" =>
                req'[a].phase = "open" /\ req'[a].attempt = req[a].attempt
       \/ /\ indicators' = indicators \cup {<<a, req'[a].attempt>>}
          /\ req[a].phase # "open" /\ req'[a].phase = "open"

LEMMA RequestMovesKeep ==
    ASSUME Model!ModelRequestAssumption, ModelInv, NEW a \in Agent, RequestMoves(a)
    PROVE  ModelInv'
<1> USE DEF ModelInv, RequestMoves
<1>1. /\ req \in [Agent -> Model!Request]
      /\ shown \in [Agent -> 0..(MaxChunks * Model!Attempts)]
      /\ indicators \subseteq Agent \X (1..Model!Attempts)
  BY DEF Model!TypeOK
<1>2. \A b \in Agent \ {a} : req'[b] = req[b] /\ shown'[b] = shown[b]
  BY <1>1
<1>3. req'[a].attempt \in 0..Model!Attempts
  BY DEF Model!Request
<1>4. Model!TypeOK'
  <2>1. shown' \in [Agent -> 0..(MaxChunks * Model!Attempts)]
    BY <1>1, AttemptsBound
  <2>2. indicators' \subseteq Agent \X (1..Model!Attempts)
    BY <1>1, <1>3, AttemptsBound
  <2>3. QED BY <2>1, <2>2 DEF Model!TypeOK
<1>5. ModelBook'
  BY <1>2, AttemptsBound DEF ModelBook
<1>6. Model!IndicatorsAreWaiting'
  <2>1. ASSUME NEW i \in indicators, i \in indicators'
        PROVE  req'[i[1]].phase = "open" /\ req'[i[1]].attempt = i[2]
    BY <2>1, <1>1, <1>2 DEF Model!IndicatorsAreWaiting
  <2>2. QED BY <2>1, <1>2 DEF Model!IndicatorsAreWaiting
<1>7. QED BY <1>4, <1>5, <1>6

(* What the steps make of the record of a request. *)

Opened(a, k) ==
    /\ req' \in [Agent -> Model!Request]
    /\ \A b \in Agent \ {a} : req'[b] = req[b]
    /\ req'[a].phase = "open" /\ req'[a].attempt = k
    /\ req'[a].text = 0 /\ req'[a].chunks = 0
    /\ indicators' = indicators \cup {<<a, req'[a].attempt>>} /\ answering' = FALSE

LEMMA RequestOpens ==
    ASSUME Model!ModelRequestAssumption, req \in [Agent -> Model!Request],
           NEW a \in Agent, NEW k \in 1..(Retries + 1), NEW stream \in BOOLEAN,
           Model!Starting(a, k, stream)
    PROVE  Opened(a, k)
<1>1. /\ Model!NoRequest \in Model!Request
      /\ Model!NoRequest.text = 0 /\ Model!NoRequest.chunks = 0
  BY AttemptsBound DEF Model!NoRequest, Model!Request
<1>2. /\ MaxChunks \in Nat /\ Retries \in Nat /\ MaxTools \in Nat
      /\ k \in 0..(Retries + 1)
  BY AttemptsBound
<1>3. req' = [req EXCEPT ![a] = [Model!NoRequest EXCEPT !.phase = "open",
                                   !.attempt = k, !.stream = stream]]
  BY DEF Model!Starting
<1>4. /\ req' \in [Agent -> Model!Request]
      /\ req'[a].phase = "open" /\ req'[a].attempt = k
      /\ req'[a].text = 0 /\ req'[a].chunks = 0
  BY <1>1, <1>2, <1>3 DEF Model!Request, Model!Attempts
<1>5. indicators' = indicators \cup {<<a, req'[a].attempt>>} /\ answering' = FALSE
  BY <1>4 DEF Model!Starting, Model!ShowStarted
<1>6. QED BY <1>3, <1>4, <1>5 DEF Opened

LEMMA TextGrows ==
    ASSUME Model!ModelRequestAssumption, req \in [Agent -> Model!Request],
           NEW a \in Agent, req[a].chunks < MaxChunks, req[a].text <= req[a].chunks,
           req' = [req EXCEPT ![a].chunks = @ + 1, ![a].text = @ + 1]
    PROVE  /\ req' \in [Agent -> Model!Request]
           /\ \A b \in Agent \ {a} : req'[b] = req[b]
           /\ UNCHANGED <<req[a].phase, req[a].attempt, req[a].stream>>
           /\ req'[a].chunks = req[a].chunks + 1 /\ req'[a].text = req[a].text + 1
BY AttemptsBound DEF Model!Request, Model!Attempts

LEMMA OthersGrow ==
    ASSUME Model!ModelRequestAssumption, req \in [Agent -> Model!Request],
           NEW a \in Agent, req[a].chunks < MaxChunks,
           \/ req' = [req EXCEPT ![a].chunks = @ + 1]
           \/ \E new \in BOOLEAN :
                 /\ new => req[a].tools < MaxTools
                 /\ req' = [req EXCEPT ![a].chunks = @ + 1,
                                       ![a].tools = IF new THEN @ + 1 ELSE @]
    PROVE  /\ req' \in [Agent -> Model!Request]
           /\ \A b \in Agent \ {a} : req'[b] = req[b]
           /\ UNCHANGED <<req[a].phase, req[a].attempt, req[a].stream>>
           /\ req'[a].chunks = req[a].chunks + 1 /\ req'[a].text = req[a].text
BY AttemptsBound DEF Model!Request, Model!Attempts

LEMMA RequestEnds ==
    ASSUME Model!ModelRequestAssumption, req \in [Agent -> Model!Request],
           NEW a \in Agent, NEW to \in {"returned", "pausing", "raised", "cancelled"},
           req' = [req EXCEPT ![a].phase = to]
    PROVE  /\ req' \in [Agent -> Model!Request]
           /\ \A b \in Agent \ {a} : req'[b] = req[b]
           /\ UNCHANGED <<req[a].attempt, req[a].stream, req[a].chunks, req[a].text>>
           /\ req'[a].phase = to
BY AttemptsBound DEF Model!Request, Model!Attempts

LEMMA RequestAnswered ==
    ASSUME Model!ModelRequestAssumption, req \in [Agent -> Model!Request],
           NEW a \in Agent, NEW text \in 0..MaxChunks,
           req' = [req EXCEPT ![a].phase = "returned", ![a].text = text]
    PROVE  /\ req' \in [Agent -> Model!Request]
           /\ \A b \in Agent \ {a} : req'[b] = req[b]
           /\ req'[a].phase = "returned" /\ req'[a].text = text
BY AttemptsBound DEF Model!Request, Model!Attempts

LEMMA ModelKeeps ==
    ASSUME Model!ModelRequestAssumption, ModelInv, Model!Next
    PROVE  ModelInv'
<1> USE DEF ModelInv
<1>0. /\ req \in [Agent -> Model!Request] /\ asked \in [Agent -> 0..MaxAsked]
      /\ shown \in [Agent -> 0..(MaxChunks * Model!Attempts)]
      /\ answering \in BOOLEAN
      /\ \A a \in Agent : shown[a] \in 0..MaxChunks
  BY AttemptsBound DEF Model!TypeOK, ModelBook
<1>1. PICK a \in Agent :
         \/ Model!Ask(a) \/ Model!TextChunk(a) \/ Model!SilentChunk(a)
         \/ Model!StreamEnds(a)
         \/ \E new \in BOOLEAN : Model!ToolChunk(a, new)
         \/ \E text \in 0..1 : Model!WholeAnswer(a, text)
         \/ \E retryable \in BOOLEAN : Model!ApiError(a, retryable)
         \/ Model!OtherError(a) \/ Model!TryAgain(a) \/ Model!Cancel(a)
  BY DEF Model!Next
<1>2. /\ req[a] \in Model!Request /\ shown[a] \in 0..MaxChunks
      /\ req[a].phase \in {"open", "pausing"} =>
            /\ req[a].attempt >= 1 /\ req[a].text <= req[a].chunks
            /\ shown[a] = req[a].text
      /\ req[a].phase = "open" /\ ~req[a].stream => req[a].text = 0
      /\ req[a].phase = "pausing" => req[a].attempt <= Retries /\ req[a].text = 0
  BY <1>0 DEF ModelBook
<1>3. /\ Model!Request =
           [phase : {"idle", "open", "pausing", "returned", "raised", "cancelled"},
            attempt : 0..(Retries + 1), stream : BOOLEAN, chunks : 0..MaxChunks,
            text : 0..MaxChunks, tools : 0..MaxTools]
      /\ MaxChunks \in Nat /\ Retries \in Nat /\ MaxTools \in Nat /\ MaxAsked \in Nat
  BY AttemptsBound DEF Model!Request
<1> HIDE DEF ModelInv
<1>5. CASE Model!Ask(a)
  <2>1. PICK stream \in BOOLEAN : Model!Starting(a, 1, stream)
    BY <1>5 DEF Model!Ask
  <2>2. /\ req[a].phase \notin {"open", "pausing"}
        /\ asked' \in [Agent -> 0..MaxAsked]
        /\ shown' = [shown EXCEPT ![a] = 0]
    BY <1>0, <1>3, <1>5 DEF Model!Ask
  <2>3. shown'[a] = 0 /\ 1 \in 1..(Retries + 1)
    BY <1>0, <1>3, <2>2
  <2>4. Opened(a, 1)
    BY <1>0, <2>1, <2>3, RequestOpens
  <2>5. RequestMoves(a)
    <3>1. shown' = [shown EXCEPT ![a] = shown'[a]] /\ shown'[a] \in 0..MaxChunks
      BY <1>0, <1>3, <2>2, <2>3
    <3>2. /\ req[a].phase # "open" /\ req'[a].phase = "open" /\ req'[a].attempt = 1
          /\ req'[a].text = 0 /\ req'[a].chunks = 0
          /\ req' \in [Agent -> Model!Request]
          /\ \A b \in Agent \ {a} : req'[b] = req[b]
      BY <2>2, <2>4 DEF Opened
    <3>3. /\ indicators' = indicators \cup {<<a, req'[a].attempt>>}
          /\ answering' \in BOOLEAN /\ asked' \in [Agent -> 0..MaxAsked]
      BY <2>2, <2>4 DEF Opened
    <3>4. QED BY <2>3, <3>1, <3>2, <3>3 DEF RequestMoves
  <2>6. QED BY <2>5, RequestMovesKeep
<1>6. CASE Model!TryAgain(a)
  <2>1. /\ req[a].phase = "pausing" /\ req[a].attempt + 1 \in 1..(Retries + 1)
        /\ Model!Starting(a, req[a].attempt + 1, req[a].stream)
        /\ shown[a] = 0 /\ asked' = asked /\ shown' = shown
        /\ req[a].stream \in BOOLEAN
    BY <1>2, <1>3, <1>6 DEF Model!TryAgain
  <2>2. Opened(a, req[a].attempt + 1)
    BY <1>0, <2>1, RequestOpens
  <2>3. RequestMoves(a)
    <3>1. /\ shown' = [shown EXCEPT ![a] = shown'[a]]
          /\ shown'[a] = 0 /\ shown'[a] \in 0..MaxChunks
          /\ req[a].attempt + 1 >= 1
      BY <1>0, <1>2, <1>3, <2>1
    <3>2. /\ req[a].phase # "open" /\ req'[a].phase = "open"
          /\ req'[a].attempt = req[a].attempt + 1
          /\ req'[a].text = 0 /\ req'[a].chunks = 0
          /\ req' \in [Agent -> Model!Request]
          /\ \A b \in Agent \ {a} : req'[b] = req[b]
      BY <2>1, <2>2 DEF Opened
    <3>3. /\ indicators' = indicators \cup {<<a, req'[a].attempt>>}
          /\ answering' \in BOOLEAN /\ asked' \in [Agent -> 0..MaxAsked]
      BY <1>0, <2>1, <2>2 DEF Opened
    <3>4. QED BY <3>1, <3>2, <3>3 DEF RequestMoves
  <2>4. QED BY <2>3, RequestMovesKeep
<1>7. CASE Model!TextChunk(a)
  <2>1. /\ req[a].phase = "open" /\ req[a].stream /\ req[a].chunks < MaxChunks
        /\ req' = [req EXCEPT ![a].chunks = @ + 1, ![a].text = @ + 1]
        /\ shown' = [shown EXCEPT ![a] = shown[a] + 1]
        /\ indicators' \in {indicators, {}} /\ answering' \in BOOLEAN
        /\ asked' = asked
    BY <1>0, <1>7 DEF Model!TextChunk, Model!Streaming, Model!ShowFragment
  <2>2. /\ req' \in [Agent -> Model!Request]
        /\ \A b \in Agent \ {a} : req'[b] = req[b]
        /\ UNCHANGED <<req[a].phase, req[a].attempt, req[a].stream>>
        /\ req'[a].chunks = req[a].chunks + 1 /\ req'[a].text = req[a].text + 1
    BY <1>0, <1>2, <2>1, TextGrows
  <2>3. shown'[a] = shown[a] + 1 /\ shown[a] + 1 \in 0..MaxChunks
    BY <1>0, <1>2, <1>3, <2>1
  <2>4. RequestMoves(a)
    BY <1>0, <1>2, <1>3, <2>1, <2>2, <2>3 DEF RequestMoves
  <2>5. QED BY <2>4, RequestMovesKeep
<1>8. CASE Model!SilentChunk(a) \/ \E new \in BOOLEAN : Model!ToolChunk(a, new)
  <2>1. /\ req[a].phase = "open" /\ req[a].stream /\ req[a].chunks < MaxChunks
        /\ \/ req' = [req EXCEPT ![a].chunks = @ + 1]
           \/ \E new \in BOOLEAN :
                 /\ new => req[a].tools < MaxTools
                 /\ req' = [req EXCEPT ![a].chunks = @ + 1,
                                       ![a].tools = IF new THEN @ + 1 ELSE @]
        /\ indicators' \in {indicators, {}} /\ answering' \in BOOLEAN
        /\ asked' = asked /\ shown' = shown
    BY <1>0, <1>8
       DEF Model!SilentChunk, Model!ToolChunk, Model!Streaming, Model!ShowFragment
  <2>2. /\ req' \in [Agent -> Model!Request]
        /\ \A b \in Agent \ {a} : req'[b] = req[b]
        /\ UNCHANGED <<req[a].phase, req[a].attempt, req[a].stream>>
        /\ req'[a].chunks = req[a].chunks + 1 /\ req'[a].text = req[a].text
    BY <1>0, <2>1, OthersGrow
  <2>3. RequestMoves(a)
    BY <1>0, <1>2, <1>3, <2>1, <2>2 DEF RequestMoves
  <2>4. QED BY <2>3, RequestMovesKeep
<1>9. CASE \E text \in 0..1 : Model!WholeAnswer(a, text)
  <2>1. PICK text \in 0..1 : Model!WholeAnswer(a, text)
    BY <1>9
  <2>2. /\ req[a].phase = "open" /\ ~req[a].stream /\ text <= MaxChunks
        /\ req' = [req EXCEPT ![a].phase = "returned", ![a].text = text]
        /\ shown' = [shown EXCEPT ![a] = shown[a] + text]
        /\ indicators' = {} /\ answering' = FALSE /\ asked' = asked
    BY <1>0, <2>1 DEF Model!WholeAnswer, Model!ShowCompleted
  <2>3. shown'[a] = text /\ text \in 0..MaxChunks
    BY <1>0, <1>2, <1>3, <2>2
  <2>4. /\ req' \in [Agent -> Model!Request]
        /\ \A b \in Agent \ {a} : req'[b] = req[b]
        /\ req'[a].phase = "returned" /\ req'[a].text = text
    BY <1>0, <2>2, <2>3, RequestAnswered
  <2>5. RequestMoves(a)
    BY <1>0, <2>2, <2>3, <2>4 DEF RequestMoves
  <2>6. QED BY <2>5, RequestMovesKeep
<1>10. CASE \/ Model!StreamEnds(a) \/ Model!OtherError(a) \/ Model!Cancel(a)
            \/ \E retryable \in BOOLEAN : Model!ApiError(a, retryable)
  <2>1. PICK to \in {"returned", "pausing", "raised", "cancelled"} :
           /\ req' = [req EXCEPT ![a].phase = to]
           /\ req[a].phase \in {"open", "pausing"}
           /\ to = "returned" => req[a].phase = "open"
           /\ to = "pausing" =>
                 req[a].phase = "open" /\ req[a].text = 0 /\ req[a].attempt < Retries + 1
           /\ \/ indicators' = {} /\ answering' = FALSE
              \/ req[a].phase = "pausing" /\ UNCHANGED <<indicators, answering>>
           /\ UNCHANGED <<asked, shown>>
    BY <1>10
       DEF Model!StreamEnds, Model!OtherError, Model!Cancel, Model!ApiError,
           Model!MayRetry, Model!NothingEmitted, Model!ShowCompleted, Model!Attempts
  <2>2. req[a].text \in 0..MaxChunks /\ req[a].attempt \in 0..(Retries + 1)
    BY <1>2, <1>3
  <2>3. /\ req' \in [Agent -> Model!Request]
        /\ \A b \in Agent \ {a} : req'[b] = req[b]
        /\ UNCHANGED <<req[a].attempt, req[a].stream, req[a].chunks>>
        /\ req'[a].phase = to /\ req'[a].text = req[a].text
    BY <1>0, <2>1, <2>2, RequestEnds
  <2>4. to = "pausing" => req[a].attempt <= Retries
    BY <1>3, <2>1, <2>2
  <2>5. RequestMoves(a)
    BY <1>0, <1>2, <2>1, <2>2, <2>3, <2>4 DEF RequestMoves
  <2>6. QED BY <2>5, RequestMovesKeep
<1>11. QED BY <1>1, <1>5, <1>6, <1>7, <1>8, <1>9, <1>10

LEMMA ModelAlways == Model!ModelRequestAssumption => (Model!Spec => []ModelInv)
<1> SUFFICES ASSUME Model!ModelRequestAssumption PROVE Model!Spec => []ModelInv
  OBVIOUS
<1>1. Model!Init => ModelInv
  BY ModelStart
<1>2. ModelInv /\ UNCHANGED Model!modelRequestVars => ModelInv'
  BY DEF Model!modelRequestVars, ModelInv, Model!TypeOK, ModelBook,
         Model!IndicatorsAreWaiting
<1>3. ModelInv /\ [Model!Next]_(Model!modelRequestVars) => ModelInv'
  BY <1>2, ModelKeeps
<1>4. QED BY <1>1, <1>3, PTL DEF Model!Spec

(* What was published of an answer is the answer: no retry repeats text and *)
(* no text is missing.  (create_chat_completion_with_retry.)                *)
THEOREM ShownAnswers ==
    Model!ModelRequestAssumption => (Model!Spec => []Model!ShownIsTheAnswer)
<1>1. ModelInv => Model!ShownIsTheAnswer
  BY DEF ModelInv, ModelBook, Model!ShownIsTheAnswer
<1>2. QED BY <1>1, ModelAlways, PTL

(* Only attempts that are open have an indicator that turns.                *)
(* (TerminalEventConsumer.)                                                 *)
THEOREM IndicatorsWait ==
    Model!ModelRequestAssumption => (Model!Spec => []Model!IndicatorsAreWaiting)
<1>1. ModelInv => Model!IndicatorsAreWaiting
  BY DEF ModelInv
<1>2. QED BY <1>1, ModelAlways, PTL

-----------------------------------------------------------------------------
(* Checkpoints.  What a sealed manifest says the files were after its tool  *)
(* is what the tool left in them, but for what others wrote before the seal *)
(* and the book of what slipped through names.  What a rollback has yet to  *)
(* restore is as it was sealed, but for what was written since it was       *)
(* compared.                                                                *)

CheckpointBook ==
    /\ restoring.checkpoint = 0 => restoring.compare = {} /\ restoring.todo = {}
    /\ working \subseteq 1..taken
    /\ \A c \in Checks!Checkpoint : manifest[c].sealed => c <= taken /\ c \notin working
    /\ \A c \in working : \A p \in manifest[c].entries :
          file[p] = made[c][p] \/ <<c, p>> \in slipped
    /\ \A c \in Checks!Checkpoint : manifest[c].sealed =>
          \A p \in manifest[c].entries :
              manifest[c].after[p] = made[c][p] \/ <<c, p>> \in slipped

RollbackBook ==
    restoring.checkpoint # 0 =>
        LET m == manifest[restoring.checkpoint] IN
        /\ m.sealed
        /\ restoring.compare \subseteq m.entries /\ restoring.todo \subseteq m.entries
        /\ \A p \in restoring.todo : file[p] = m.after[p] \/ p \in restoring.late

ChecksInv == Checks!TypeOK /\ CheckpointBook /\ RollbackBook

LOCAL Manifests ==
    [Checks!Checkpoint -> [entries : SUBSET Path, before : Checks!Files,
                           after : Checks!Files, sealed : BOOLEAN]]
LOCAL Rollbacks ==
    [checkpoint : 0..MaxCheckpoint, compare : SUBSET Path, todo : SUBSET Path,
     late : SUBSET Path]

LEMMA ChecksStart == Checks!CheckpointAssumption /\ Checks!Init => ChecksInv
<1> SUFFICES ASSUME Checks!CheckpointAssumption, Checks!Init PROVE ChecksInv
  OBVIOUS
<1> USE DEF Checks!CheckpointAssumption, Checks!Init
<1>1. file \in Checks!Files
  BY DEF Checks!Files, Checks!State
<1>2. /\ manifest \in [Checks!Checkpoint ->
            [entries : SUBSET Path, before : Checks!Files,
             after : Checks!Files, sealed : BOOLEAN]]
      /\ made \in [Checks!Checkpoint -> Checks!Files]
  BY <1>1
<1>3. Checks!TypeOK
  BY <1>1, <1>2 DEF Checks!TypeOK, Checks!NoRollback
<1>4. CheckpointBook /\ RollbackBook
  BY DEF CheckpointBook, RollbackBook, Checks!NoRollback
<1>5. QED BY <1>3, <1>4 DEF ChecksInv

LEMMA ContentsAreFiles ==
    ASSUME Checks!TypeOK, NEW paths \in SUBSET Path
    PROVE  /\ Checks!Contents(paths) \in Checks!Files
           /\ \A p \in paths : Checks!Contents(paths)[p] = file[p]
BY DEF Checks!TypeOK, Checks!Contents, Checks!Files, Checks!State

(* A file that is replaced by somebody else is booked as slipped for every  *)
(* tool at work on it, and no booking of another is withdrawn.              *)
LEMMA ReplaceBooks ==
    ASSUME Checks!CheckpointAssumption, ChecksInv, NEW p \in Path,
           NEW s \in Checks!State, NEW c, Checks!Replace(p, s, c)
    PROVE  /\ file' \in Checks!Files /\ file'[p] = s
           /\ \A q \in Path \ {p} : file'[q] = file[q]
           /\ slipped' \subseteq Checks!Checkpoint \X Path
           /\ \A k, q : <<k, q>> \in slipped /\ (k # c \/ q # p) => <<k, q>> \in slipped'
           /\ \A k \in working \ {c} : p \in manifest[k].entries =>
                 <<k, p>> \in slipped'
<1>1. file' = [file EXCEPT ![p] = s]
  BY DEF Checks!Replace
<1>2. slipped' = (slipped \ {<<c, p>>}) \cup
          {<<k, p>> : k \in {k \in working \ {c} : p \in manifest[k].entries}}
  BY DEF Checks!Replace
<1>3. slipped' \subseteq Checks!Checkpoint \X Path
  BY <1>2 DEF ChecksInv, Checks!TypeOK
<1>4. file' \in Checks!Files /\ file'[p] = s /\ \A q \in Path \ {p} : file'[q] = file[q]
  BY <1>1 DEF ChecksInv, Checks!TypeOK, Checks!Files
<1>5. ASSUME NEW k, NEW q, <<k, q>> \in slipped, k # c \/ q # p
      PROVE  <<k, q>> \in slipped'
  BY <1>2, <1>5
<1>6. ASSUME NEW k \in working \ {c}, p \in manifest[k].entries
      PROVE  <<k, p>> \in slipped'
  BY <1>2, <1>6
<1>7. QED BY <1>3, <1>4, <1>5, <1>6

LEMMA CreateKeeps ==
    ASSUME Checks!CheckpointAssumption, ChecksInv, Checks!Create
    PROVE  ChecksInv'
<1> USE DEF ChecksInv
<1> DEFINE c == taken + 1
<1>1. /\ taken' = c /\ working' = working \cup {c}
      /\ c \in Checks!Checkpoint /\ c \in 0..MaxCheckpoint /\ taken \in Nat
      /\ UNCHANGED <<file, restoring, slipped>>
  BY DEF Checks!Create, Checks!TypeOK, Checks!CheckpointAssumption, Checks!Checkpoint
<1>2. PICK paths \in SUBSET Path :
         /\ manifest' = [manifest EXCEPT ![c] =
               [@ EXCEPT !.entries = paths, !.before = Checks!Contents(paths)]]
         /\ made' = [made EXCEPT ![c] = Checks!Contents(paths)]
  BY DEF Checks!Create
<1>3. /\ manifest' \in Manifests /\ made' \in [Checks!Checkpoint -> Checks!Files]
      /\ manifest'[c].entries = paths /\ manifest'[c].sealed = manifest[c].sealed
      /\ \A p \in paths : made'[c][p] = file[p]
      /\ \A k \in Checks!Checkpoint \ {c} :
            manifest'[k] = manifest[k] /\ made'[k] = made[k]
  BY <1>1, <1>2, ContentsAreFiles DEF Checks!TypeOK, Manifests
<1>4. Checks!TypeOK'
  BY <1>1, <1>3 DEF Checks!TypeOK, Manifests
<1>5. ~manifest[c].sealed /\ c \notin working /\ working \subseteq Checks!Checkpoint
  BY <1>1 DEF CheckpointBook, Checks!TypeOK
<1>6. \A k \in Checks!Checkpoint : manifest'[k].sealed => k # c /\ manifest[k].sealed
  BY <1>3, <1>5
<1>7. CheckpointBook'
  <2>1. (restoring.checkpoint = 0 => restoring.compare = {} /\ restoring.todo = {})'
    BY <1>1 DEF CheckpointBook
  <2>2. (working \subseteq 1..taken)'
    BY <1>1 DEF CheckpointBook
  <2>3. (\A k \in Checks!Checkpoint : manifest[k].sealed => k <= taken /\ k \notin working)'
    BY <1>1, <1>6 DEF CheckpointBook, Checks!Checkpoint
  <2>4. (\A k \in working : \A p \in manifest[k].entries :
             file[p] = made[k][p] \/ <<k, p>> \in slipped)'
    BY <1>1, <1>3, <1>5 DEF CheckpointBook
  <2>5. (\A k \in Checks!Checkpoint : manifest[k].sealed =>
            \A p \in manifest[k].entries :
                manifest[k].after[p] = made[k][p] \/ <<k, p>> \in slipped)'
    BY <1>1, <1>3, <1>6 DEF CheckpointBook
  <2>6. QED BY <2>1, <2>2, <2>3, <2>4, <2>5 DEF CheckpointBook
<1>8. RollbackBook'
  <2> SUFFICES ASSUME restoring.checkpoint # 0 PROVE RollbackBook'
    BY <1>1 DEF RollbackBook
  <2>1. restoring.checkpoint \in Checks!Checkpoint /\ restoring.checkpoint # c
    BY <1>5 DEF RollbackBook, Checks!TypeOK, Checks!Checkpoint
  <2>2. QED BY <1>1, <1>3, <2>1 DEF RollbackBook
<1>9. QED BY <1>4, <1>7, <1>8

(* Whoever writes a file, what is sealed and what a rollback has yet to     *)
(* restore is accounted for.                                                *)
LEMMA WritingKeeps ==
    ASSUME Checks!CheckpointAssumption, ChecksInv, NEW p \in Path,
           NEW s \in Checks!State, NEW c, c \in working \/ c = 0,
           Checks!Replace(p, s, c), UNCHANGED <<taken, manifest, working>>,
           made' \in [Checks!Checkpoint -> Checks!Files],
           \A k \in Checks!Checkpoint \ {c} : made'[k] = made[k],
           c \in working => /\ made'[c][p] = s
                            /\ \A q \in Path \ {p} : made'[c][q] = made[c][q],
           restoring' \in Rollbacks, restoring'.checkpoint = restoring.checkpoint,
           restoring'.compare = restoring.compare,
           restoring'.todo \subseteq restoring.todo,
           restoring.late \subseteq restoring'.late,
           p \in restoring'.todo => p \in restoring'.late
    PROVE  ChecksInv'
<1> USE DEF ChecksInv
<1> DEFINE Books == /\ file' \in Checks!Files /\ file'[p] = s
                    /\ \A q \in Path \ {p} : file'[q] = file[q]
                    /\ slipped' \subseteq Checks!Checkpoint \X Path
                    /\ \A k, q : <<k, q>> \in slipped /\ (k # c \/ q # p) =>
                          <<k, q>> \in slipped'
                    /\ \A k \in working \ {c} : p \in manifest[k].entries =>
                          <<k, p>> \in slipped'
<1>1. Books
  BY ReplaceBooks
<1>2. Checks!TypeOK'
  BY <1>1 DEF Checks!TypeOK, Rollbacks
<1>3. \A k \in Checks!Checkpoint : manifest[k].entries \subseteq Path
  BY DEF Checks!TypeOK
<1>4. working \subseteq Checks!Checkpoint /\ 0 \notin Checks!Checkpoint
  BY DEF Checks!TypeOK, Checks!Checkpoint
<1>5. ASSUME NEW k \in working, NEW q \in manifest[k].entries
      PROVE  file'[q] = made'[k][q] \/ <<k, q>> \in slipped'
  <2>1. q \in Path /\ (file[q] = made[k][q] \/ <<k, q>> \in slipped)
    BY <1>3, <1>4, <1>5 DEF CheckpointBook
  <2>2. CASE k = c /\ q = p
    BY <1>1, <1>5, <2>2
  <2>3. CASE k = c /\ q # p
    BY <1>1, <1>5, <2>1, <2>3
  <2>4. CASE k # c /\ q = p
    BY <1>1, <1>5, <2>4
  <2>5. CASE k # c /\ q # p
    BY <1>1, <1>4, <1>5, <2>1, <2>5
  <2>6. QED BY <2>2, <2>3, <2>4, <2>5
<1>6. ASSUME NEW k \in Checks!Checkpoint, manifest[k].sealed,
             NEW q \in manifest[k].entries
      PROVE  manifest[k].after[q] = made'[k][q] \/ <<k, q>> \in slipped'
  <2>1. k # c /\ made'[k] = made[k]
    BY <1>4, <1>6 DEF CheckpointBook
  <2>2. manifest[k].after[q] = made[k][q] \/ <<k, q>> \in slipped
    BY <1>6 DEF CheckpointBook
  <2>3. QED BY <1>1, <2>1, <2>2
<1>7. CheckpointBook'
  BY <1>5, <1>6 DEF CheckpointBook
<1>8. RollbackBook'
  <2> SUFFICES ASSUME restoring.checkpoint # 0, NEW q \in restoring'.todo
               PROVE  \/ file'[q] = manifest[restoring.checkpoint].after[q]
                      \/ q \in restoring'.late
    BY DEF RollbackBook
  <2>1. q \in restoring.todo /\ q \in Path
    BY DEF Checks!TypeOK
  <2>2. QED BY <1>1, <2>1 DEF RollbackBook
<1>9. QED BY <1>2, <1>7, <1>8

LEMMA ToolWritesKeeps ==
    ASSUME Checks!CheckpointAssumption, ChecksInv, Checks!Write
    PROVE  ChecksInv'
<1> USE DEF ChecksInv
<1>1. PICK c \in working, s \in Checks!State : \E p \in manifest[c].entries :
         /\ Checks!Replace(p, s, c)
         /\ Checks!Overlook(p)
         /\ made' = [made EXCEPT ![c][p] = s]
  BY DEF Checks!Write
<1>2. PICK p \in manifest[c].entries :
         /\ Checks!Replace(p, s, c)
         /\ Checks!Overlook(p)
         /\ made' = [made EXCEPT ![c][p] = s]
  BY <1>1
<1>3. c \in Checks!Checkpoint /\ p \in Path
  BY DEF Checks!TypeOK
<1>4. /\ made' \in [Checks!Checkpoint -> Checks!Files]
      /\ made'[c][p] = s /\ \A q \in Path \ {p} : made'[c][q] = made[c][q]
      /\ \A k \in Checks!Checkpoint \ {c} : made'[k] = made[k]
  BY <1>2, <1>3 DEF Checks!TypeOK, Checks!Files
<1>5. /\ restoring' \in Rollbacks /\ restoring'.checkpoint = restoring.checkpoint
      /\ restoring'.compare = restoring.compare /\ restoring'.todo = restoring.todo
      /\ restoring'.late = restoring.late \cup ({p} \cap restoring.todo)
  BY <1>2 DEF Checks!TypeOK, Checks!Overlook, Rollbacks
<1>6. UNCHANGED <<taken, manifest, working>>
  BY DEF Checks!Write
<1>7. QED BY <1>2, <1>3, <1>4, <1>5, <1>6, WritingKeeps

LEMMA EditKeeps ==
    ASSUME Checks!CheckpointAssumption, ChecksInv, Checks!Edit
    PROVE  ChecksInv'
<1> USE DEF ChecksInv
<1>1. PICK p \in Path, s \in Checks!State : Checks!Replace(p, s, 0) /\ Checks!Overlook(p)
  BY DEF Checks!Edit
<1>2. /\ restoring' \in Rollbacks /\ restoring'.checkpoint = restoring.checkpoint
      /\ restoring'.compare = restoring.compare /\ restoring'.todo = restoring.todo
      /\ restoring'.late = restoring.late \cup ({p} \cap restoring.todo)
  BY <1>1 DEF Checks!TypeOK, Checks!Overlook, Rollbacks
<1>3. UNCHANGED <<taken, manifest, working, made>> /\ 0 \notin working
  BY DEF Checks!Edit, Checks!TypeOK, Checks!Checkpoint
<1>4. made' \in [Checks!Checkpoint -> Checks!Files]
  BY <1>3 DEF Checks!TypeOK
<1>5. QED BY <1>1, <1>2, <1>3, <1>4, WritingKeeps

LEMMA SealKeeps ==
    ASSUME Checks!CheckpointAssumption, ChecksInv, Checks!Seal
    PROVE  ChecksInv'
<1> USE DEF ChecksInv
<1>1. PICK c \in working :
         /\ manifest' = [manifest EXCEPT ![c].after = Checks!Contents(manifest[c].entries),
                                         ![c].sealed = TRUE]
         /\ working' = working \ {c}
  BY DEF Checks!Seal
<1>2. c \in Checks!Checkpoint /\ UNCHANGED <<file, taken, made, restoring, slipped>>
  BY DEF Checks!Seal, Checks!TypeOK
<1>3. manifest[c].entries \in SUBSET Path
  BY <1>2 DEF Checks!TypeOK
<1>4. /\ manifest' \in Manifests
      /\ manifest'[c].entries = manifest[c].entries /\ manifest'[c].sealed
      /\ \A p \in manifest[c].entries : manifest'[c].after[p] = file[p]
      /\ \A k \in Checks!Checkpoint \ {c} : manifest'[k] = manifest[k]
  BY <1>1, <1>2, <1>3, ContentsAreFiles DEF Checks!TypeOK, Manifests
<1>5. Checks!TypeOK'
  BY <1>1, <1>2, <1>4 DEF Checks!TypeOK, Manifests
<1>6. ~manifest[c].sealed /\ c <= taken
  BY <1>2 DEF CheckpointBook, Checks!TypeOK, Checks!Checkpoint
<1>7. CheckpointBook'
  <2>1. (restoring.checkpoint = 0 => restoring.compare = {} /\ restoring.todo = {})'
    BY <1>2 DEF CheckpointBook
  <2>2. (working \subseteq 1..taken)'
    BY <1>1, <1>2 DEF CheckpointBook
  <2>3. (\A k \in Checks!Checkpoint : manifest[k].sealed => k <= taken /\ k \notin working)'
    BY <1>1, <1>2, <1>4, <1>6 DEF CheckpointBook
  <2>4. (\A k \in working : \A p \in manifest[k].entries :
             file[p] = made[k][p] \/ <<k, p>> \in slipped)'
    BY <1>1, <1>2, <1>4 DEF CheckpointBook, Checks!TypeOK
  <2>5. (\A k \in Checks!Checkpoint : manifest[k].sealed =>
            \A p \in manifest[k].entries :
                manifest[k].after[p] = made[k][p] \/ <<k, p>> \in slipped)'
    BY <1>2, <1>4 DEF CheckpointBook
  <2>6. QED BY <2>1, <2>2, <2>3, <2>4, <2>5 DEF CheckpointBook
<1>8. RollbackBook'
  <2> SUFFICES ASSUME restoring.checkpoint # 0 PROVE RollbackBook'
    BY <1>2 DEF RollbackBook
  <2>1. restoring.checkpoint \in Checks!Checkpoint /\ restoring.checkpoint # c
    BY <1>6 DEF RollbackBook, Checks!TypeOK, Checks!Checkpoint
  <2>2. QED BY <1>2, <1>4, <2>1 DEF RollbackBook
<1>9. QED BY <1>5, <1>7, <1>8

LEMMA RestoreKeeps ==
    ASSUME Checks!CheckpointAssumption, ChecksInv, Checks!Restore
    PROVE  ChecksInv'
<1> USE DEF ChecksInv
<1> DEFINE c == restoring.checkpoint
<1>1. PICK p \in restoring.todo :
         /\ Checks!Replace(p, manifest[c].before[p], 0)
         /\ restoring' = [restoring EXCEPT !.todo = @ \ {p}]
  BY DEF Checks!Restore
<1>2. /\ p \in Path /\ c # 0 /\ c \in Checks!Checkpoint /\ 0 \notin working
      /\ UNCHANGED <<taken, manifest, working, made>>
  BY DEF Checks!Restore, Checks!TypeOK, Checks!Checkpoint, CheckpointBook
<1>3. manifest[c].before[p] \in Checks!State
  BY <1>2 DEF Checks!TypeOK, Checks!Files
<1>4. /\ restoring' \in Rollbacks /\ restoring'.checkpoint = restoring.checkpoint
      /\ restoring'.compare = restoring.compare
      /\ restoring'.todo = restoring.todo \ {p} /\ restoring'.late = restoring.late
  BY <1>1 DEF Checks!TypeOK, Rollbacks
<1>5. made' \in [Checks!Checkpoint -> Checks!Files]
  BY <1>2 DEF Checks!TypeOK
<1>6. QED BY <1>1, <1>2, <1>3, <1>4, <1>5, WritingKeeps

LEMMA RollbackKeeps ==
    ASSUME Checks!CheckpointAssumption, ChecksInv,
           Checks!BeginRollback \/ Checks!Compare
    PROVE  ChecksInv'
<1> USE DEF ChecksInv
<1>1. UNCHANGED <<file, taken, manifest, made, working, slipped>>
  BY DEF Checks!BeginRollback, Checks!Compare
<1>2. CASE Checks!BeginRollback
  <2>1. PICK c \in 1..taken :
           /\ manifest[c].sealed
           /\ restoring' = [Checks!NoRollback EXCEPT !.checkpoint = c,
                                                     !.compare = manifest[c].entries]
    BY <1>2 DEF Checks!BeginRollback
  <2>2. c \in Checks!Checkpoint /\ c # 0 /\ c \in 0..MaxCheckpoint
    BY DEF Checks!TypeOK, Checks!CheckpointAssumption, Checks!Checkpoint
  <2>3. /\ restoring'.checkpoint = c /\ restoring'.compare = manifest[c].entries
        /\ restoring'.todo = {} /\ restoring' \in Rollbacks
    BY <2>1, <2>2 DEF Checks!NoRollback, Rollbacks, Checks!TypeOK
  <2>4. Checks!TypeOK'
    BY <1>1, <2>3 DEF Checks!TypeOK, Rollbacks
  <2>5. CheckpointBook' /\ RollbackBook'
    BY <1>1, <2>1, <2>2, <2>3 DEF CheckpointBook, RollbackBook
  <2>6. QED BY <2>4, <2>5
<1>3. CASE Checks!Compare
  <2>1. PICK p \in restoring.compare :
           /\ Checks!Unchanged(restoring.checkpoint, p)
           /\ restoring' = [restoring EXCEPT !.compare = @ \ {p}, !.todo = @ \cup {p}]
    BY <1>3 DEF Checks!Compare
  <2>2. /\ restoring'.checkpoint = restoring.checkpoint
        /\ restoring'.compare = restoring.compare \ {p}
        /\ restoring'.todo = restoring.todo \cup {p}
        /\ restoring'.late = restoring.late /\ restoring' \in Rollbacks
    BY <2>1 DEF Rollbacks, Checks!TypeOK
  <2>3. Checks!TypeOK'
    BY <1>1, <2>2 DEF Checks!TypeOK, Rollbacks
  <2>4. restoring.checkpoint # 0
    BY <2>1 DEF CheckpointBook
  <2>5. CheckpointBook'
    BY <1>1, <2>2, <2>4 DEF CheckpointBook
  <2>6. RollbackBook'
    BY <1>1, <2>1, <2>2, <2>4 DEF RollbackBook, Checks!Unchanged
  <2>7. QED BY <2>3, <2>5, <2>6
<1>4. QED BY <1>2, <1>3

(* A rollback, a tool, or everything comes to an end.                       *)
LEMMA EndingKeeps ==
    ASSUME Checks!CheckpointAssumption, ChecksInv,
           UNCHANGED <<file, taken, manifest, made, slipped>>,
           working' \subseteq working,
           restoring' = Checks!NoRollback \/ UNCHANGED restoring
    PROVE  ChecksInv'
<1> USE DEF ChecksInv
<1>1. \/ UNCHANGED restoring
      \/ /\ restoring'.checkpoint = 0 /\ restoring'.compare = {} /\ restoring'.todo = {}
         /\ restoring' \in Rollbacks
  BY DEF Checks!NoRollback, Rollbacks, Checks!CheckpointAssumption
<1>2. Checks!TypeOK'
  BY <1>1 DEF Checks!TypeOK, Rollbacks
<1>3. CheckpointBook'
  BY <1>1 DEF CheckpointBook
<1>4. RollbackBook'
  BY <1>1 DEF RollbackBook
<1>5. QED BY <1>2, <1>3, <1>4

LEMMA ChecksKeep ==
    ASSUME Checks!CheckpointAssumption, ChecksInv, [Checks!Next]_(Checks!vars)
    PROVE  ChecksInv'
<1>1. CASE UNCHANGED Checks!vars
  BY <1>1, EndingKeeps DEF Checks!vars
<1>2. CASE Checks!Crash \/ Checks!EndRollback \/ Checks!ToolFails
  BY <1>2, EndingKeeps DEF Checks!Crash, Checks!EndRollback, Checks!ToolFails
<1>3. QED
  BY <1>1, <1>2, CreateKeeps, ToolWritesKeeps, EditKeeps, SealKeeps, RestoreKeeps,
     RollbackKeeps DEF Checks!Next

LEMMA ChecksAlways == Checks!CheckpointAssumption => (Checks!Spec => []ChecksInv)
<1> SUFFICES ASSUME Checks!CheckpointAssumption PROVE Checks!Spec => []ChecksInv
  OBVIOUS
<1>1. Checks!Init => ChecksInv
  BY ChecksStart
<1>2. ChecksInv /\ [Checks!Next]_(Checks!vars) => ChecksInv'
  BY ChecksKeep
<1>3. QED BY <1>1, <1>2, PTL DEF Checks!Spec

(* A rollback writes over a file only what the tool of that checkpoint left *)
(* in it: no later edit is lost to it, except one the seal took for the     *)
(* tool's and one made since the file was compared.                         *)
(* (CheckpointManager.rollback.)                                            *)
THEOREM EditsAreKept == Checks!CheckpointAssumption => (Checks!Spec => Checks!LaterEditsSurvive)
<1> SUFFICES ASSUME Checks!CheckpointAssumption
             PROVE  Checks!Spec => Checks!LaterEditsSurvive
  OBVIOUS
<1>1. ChecksInv /\ [Checks!Next]_(Checks!vars) => [Checks!EditsSurvive]_(Checks!vars)
  <2> DEFINE c == restoring.checkpoint
  <2> SUFFICES ASSUME ChecksInv, NEW p \in restoring.todo \ restoring'.todo,
                      restoring'.checkpoint # 0
               PROVE  \/ file[p] = made[c][p]
                      \/ <<c, p>> \in slipped /\ file[p] = manifest[c].after[p]
                      \/ p \in restoring.late
    BY DEF Checks!EditsSurvive
  <2>1. c # 0 /\ c \in Checks!Checkpoint
    BY DEF ChecksInv, CheckpointBook, Checks!TypeOK, Checks!Checkpoint
  <2>2. manifest[c].sealed /\ p \in manifest[c].entries
    BY <2>1 DEF ChecksInv, RollbackBook
  <2>3. file[p] = manifest[c].after[p] \/ p \in restoring.late
    BY <2>1 DEF ChecksInv, RollbackBook
  <2>4. manifest[c].after[p] = made[c][p] \/ <<c, p>> \in slipped
    BY <2>1, <2>2 DEF ChecksInv, CheckpointBook
  <2>5. QED BY <2>3, <2>4
<1>2. QED BY <1>1, ChecksAlways, PTL DEF Checks!Spec, Checks!LaterEditsSurvive

-----------------------------------------------------------------------------
(* A call of a tool.  A process, or somebody who holds its pipes, is there  *)
(* only while its call runs, stops or reaps it, once a cancellation has cut *)
(* the stopping short, or, for the pipes, once a callback has failed.       *)

ProcessBook ==
    \A c \in Call :
        /\ callProcess[c] \in {"running", "held"} =>
              \/ callStage[c] \in {"running", "stopping", "reaping"}
              \/ callStage[c] = "returned" /\ why[c] = "abandoned"
              \/ /\ callStage[c] = "returned" /\ why[c] = "callback"
                 /\ callProcess[c] = "held"
        /\ callStage[c] = "running" /\ request[c].tool # "cli" => callProcess[c] = "gone"
        /\ callStage[c] \in {"stopping", "reaping"} => why[c] # "none"

ToolsInv == Tools!TypeOK /\ ProcessBook

LEMMA ToolsStart == Tools!ToolCallAssumption /\ Tools!Init => ToolsInv
<1> SUFFICES ASSUME Tools!ToolCallAssumption, Tools!Init PROVE ToolsInv
  OBVIOUS
<1> USE DEF Tools!ToolCallAssumption, Tools!Init
<1>1. request \in [Call -> Tools!Request]
  BY DEF Tools!Request, Tools!Tool
<1>2. Tools!TypeOK
  <2>1. /\ callStage \in [Call -> {"idle", "authorizing", "hooks", "preparing", "asking",
                             "cleared", "awaiting", "running", "stopping", "reaping",
                             "finishing", "returned"}]
        /\ thread \in [Call -> Tools!Waiting \cup {"none", "done", "failed", "unavailable"}]
        /\ callProcess \in [Call -> {"none", "running", "held", "gone"}]
        /\ why \in [Call -> {"none", "timeout", "callback", "cancelled", "abandoned"}]
    OBVIOUS
  <2>2. cancels \in [Call -> 0..MaxCancels]
    OBVIOUS
  <2>3. file \in BOOLEAN
    OBVIOUS
  <2>4. QED BY <1>1, <2>1, <2>2, <2>3 DEF Tools!TypeOK
<1>3. ProcessBook
  BY DEF ProcessBook
<1>4. QED BY <1>2, <1>3 DEF ToolsInv

(* The steps of a coroutine before and after it has a process.              *)
LEMMA CoroutineKeeps ==
    ASSUME ToolsInv, NEW c \in Call,
           \/ Tools!Authorize(c) \/ Tools!BeforeHooks(c) \/ Tools!PrepareCli(c)
           \/ Tools!PrepareSpawn(c) \/ Tools!ThreadReturns(c) \/ Tools!Finish(c)
    PROVE  ToolsInv'
<1> USE DEF ToolsInv
<1>1. /\ callStage[c] \in {"authorizing", "hooks", "preparing", "awaiting", "finishing"}
      /\ \E to \in {"hooks", "preparing", "asking", "cleared", "awaiting", "finishing",
                    "returned"} : callStage' = [callStage EXCEPT ![c] = to]
      /\ \/ thread' = thread
         \/ thread' = [thread EXCEPT ![c] = "checking"]
      /\ loop' \in {loop, c}
      /\ UNCHANGED <<mode, request, callProcess, why, cancels, prompt, file>>
  <2> USE DEF Tools!At, Tools!Goes, Tools!Returns, Tools!gates, Tools!bodies
  <2>1. CASE Tools!Authorize(c)
    BY <2>1 DEF Tools!Authorize
  <2>2. CASE Tools!BeforeHooks(c)
    BY <2>2 DEF Tools!BeforeHooks
  <2>3. ASSUME NEW asks \in BOOLEAN, Tools!Prepares(c, asks)
        PROVE  /\ \E to \in {"asking", "cleared", "returned"} :
                     callStage' = [callStage EXCEPT ![c] = to]
               /\ thread' = thread /\ loop' \in {loop, c}
               /\ UNCHANGED <<mode, request, callProcess, why, cancels, prompt, file>>
    BY <2>3 DEF Tools!Prepares
  <2>4. CASE Tools!PrepareCli(c)
    <3>1. Tools!CliAsks(request[c]) \in BOOLEAN
      BY DEF Tools!CliAsks, Tools!ShouldConfirm, Tools!TypeOK, Tools!Request
    <3>2. callStage[c] = "preparing" /\ Tools!Prepares(c, Tools!CliAsks(request[c]))
      BY <2>4 DEF Tools!PrepareCli
    <3>3. QED BY <2>3, <3>1, <3>2
  <2>5. CASE Tools!PrepareSpawn(c)
    <3>1. Tools!SpawnAsks \in BOOLEAN
      BY DEF Tools!SpawnAsks, Tools!ShouldConfirm
    <3>2. CASE callStage[c] = "preparing" /\ Tools!Prepares(c, Tools!SpawnAsks)
      BY <2>3, <3>1, <3>2
    <3>3. CASE /\ callStage[c] = "preparing" /\ Tools!Returns(c)
               /\ UNCHANGED <<Tools!gates, Tools!bodies, cancels>>
      BY <3>3
    <3>4. QED BY <2>5, <3>2, <3>3 DEF Tools!PrepareSpawn
  <2>6. CASE Tools!ThreadReturns(c) \/ Tools!Finish(c)
    BY <2>6 DEF Tools!ThreadReturns, Tools!Finish
  <2>7. QED BY <2>1, <2>2, <2>4, <2>5, <2>6
<1>2. Tools!TypeOK'
  BY <1>1 DEF Tools!TypeOK, Tools!Waiting
<1>3. ProcessBook'
  BY <1>1 DEF Tools!TypeOK, ProcessBook
<1>4. QED BY <1>2, <1>3

LEMMA BeginKeeps ==
    ASSUME Tools!ToolCallAssumption, ToolsInv, NEW c \in Call, Tools!Begin(c)
    PROVE  ToolsInv'
<1> USE DEF ToolsInv
<1>1. /\ \E r \in Tools!Request : request' = [request EXCEPT ![c] = r]
      /\ callStage' = [callStage EXCEPT ![c] = "authorizing"]
      /\ thread' = [thread EXCEPT ![c] = "none"]
      /\ callProcess' = [callProcess EXCEPT ![c] = "none"]
      /\ why' = [why EXCEPT ![c] = "none"] /\ cancels' = [cancels EXCEPT ![c] = 0]
      /\ UNCHANGED <<mode, prompt, loop, file>>
  BY DEF Tools!Begin, Tools!Goes
<1>2. Tools!TypeOK'
  BY <1>1 DEF Tools!TypeOK, Tools!ToolCallAssumption
<1>3. ProcessBook'
  BY <1>1 DEF Tools!TypeOK, ProcessBook
<1>4. QED BY <1>2, <1>3

(* The process starts, ends, is stopped and reaped.                         *)
LEMMA ProcessKeeps ==
    ASSUME ToolsInv, NEW c \in Call,
           \/ Tools!Start(c) \/ Tools!Complete(c) \/ Tools!GivesUp(c)
           \/ Tools!Terminated(c) \/ Tools!Kill(c) \/ Tools!Reaped(c)
           \/ Tools!ProcessMoves(c)
    PROVE  ToolsInv'
<1> USE DEF ToolsInv, Tools!At, Tools!Goes, Tools!Returns, Tools!gates, Tools!bodies
<1>1. CASE Tools!Start(c)
  BY <1>1 DEF Tools!Start, Tools!TypeOK, ProcessBook
<1>2. CASE Tools!Complete(c) \/ Tools!Terminated(c)
  BY <1>2 DEF Tools!Complete, Tools!Terminated, Tools!TypeOK, ProcessBook
<1>7. CASE Tools!Reaped(c)
  BY <1>7 DEF Tools!Reaped, Tools!TypeOK, ProcessBook
<1>3. CASE Tools!GivesUp(c)
  BY <1>3 DEF Tools!GivesUp, Tools!Stop, Tools!TypeOK, ProcessBook
<1>4. CASE Tools!Kill(c)
  BY <1>4 DEF Tools!Kill, Tools!TypeOK, ProcessBook
<1>5. CASE Tools!ProcessMoves(c)
  BY <1>5 DEF Tools!ProcessMoves, Tools!TypeOK, ProcessBook
<1>6. QED BY <1>1, <1>2, <1>3, <1>4, <1>5, <1>7

LEMMA ToolCancelKeeps ==
    ASSUME Tools!ToolCallAssumption, ToolsInv, NEW c \in Call, Tools!Cancel(c)
    PROVE  ToolsInv'
<1> USE DEF ToolsInv
<1>1. /\ callStage[c] \in {"hooks", "awaiting", "running", "stopping", "reaping", "finishing"}
      /\ cancels[c] < MaxCancels /\ cancels' = [cancels EXCEPT ![c] = @ + 1]
      /\ \/ /\ callStage[c] = "running" /\ request[c].tool = "cli"
            /\ callStage' = [callStage EXCEPT ![c] = "stopping"]
            /\ why' = [why EXCEPT ![c] = "cancelled"]
         \/ /\ ~(callStage[c] = "running" /\ request[c].tool = "cli")
            /\ callStage' = [callStage EXCEPT ![c] = "returned"]
            /\ why' = IF why[c] = "none" THEN why ELSE [why EXCEPT ![c] = "abandoned"]
      /\ UNCHANGED <<mode, request, thread, callProcess, prompt, loop, file>>
  BY DEF Tools!Cancel, Tools!Cancelled, Tools!Stop, Tools!Goes, Tools!Returns, Tools!gates
<1>2. cancels' \in [Call -> 0..MaxCancels]
  BY <1>1 DEF Tools!TypeOK, Tools!ToolCallAssumption
<1>3. Tools!TypeOK'
  BY <1>1, <1>2 DEF Tools!TypeOK
<1>4. ProcessBook'
  BY <1>1 DEF Tools!TypeOK, ProcessBook
<1>5. QED BY <1>3, <1>4

(* Worker threads, the operator, the mode and the file.                     *)
LEMMA ThreadsKeep ==
    ASSUME ToolsInv, NEW c \in Call,
           \/ Tools!ReadChecks(c) \/ Tools!WriteChecks(c) \/ Tools!ThreadReads(c)
           \/ Tools!ThreadWrites(c) \/ Tools!TakePrompt(c) \/ Tools!AnswerThread(c)
    PROVE  ToolsInv'
<1> USE DEF ToolsInv
<1>1. /\ \/ thread' = thread
         \/ \E to \in {"asking", "cleared", "done", "failed", "unavailable"} :
               thread' = [thread EXCEPT ![c] = to]
      /\ prompt' \in {prompt, c, Nobody} /\ file' \in {file, TRUE}
      /\ UNCHANGED <<mode, request, callStage, callProcess, why, cancels, loop>>
  BY DEF Tools!ReadChecks, Tools!WriteChecks, Tools!ThreadReads, Tools!ThreadWrites,
         Tools!TakePrompt, Tools!AnswerThread, Tools!Refuses, Tools!Moves, Tools!elsewhere
<1>2. Tools!TypeOK'
  <2>1. file' \in BOOLEAN
    BY <1>1 DEF Tools!TypeOK
  <2>2. thread' \in [Call -> Tools!Waiting \cup {"none", "done", "failed", "unavailable"}]
    BY <1>1 DEF Tools!TypeOK, Tools!Waiting
  <2>3. QED BY <1>1, <2>1, <2>2 DEF Tools!TypeOK
<1>3. ProcessBook'
  BY <1>1 DEF ProcessBook
<1>4. QED BY <1>2, <1>3

LEMMA ToolsKeep ==
    ASSUME Tools!ToolCallAssumption, ToolsInv, [Tools!Next]_(Tools!vars)
    PROVE  ToolsInv'
<1> USE DEF ToolsInv
<1>1. CASE UNCHANGED Tools!vars
  BY <1>1 DEF Tools!vars, Tools!TypeOK, ProcessBook
<1>2. CASE Tools!SetMode \/ Tools!Unlink
  BY <1>2 DEF Tools!SetMode, Tools!Unlink, Tools!bodies, Tools!elsewhere, Tools!TypeOK,
              ProcessBook
<1>3. ASSUME NEW c \in Call, Tools!AnswerLoop(c)
      PROVE  ToolsInv'
  BY <1>3 DEF Tools!AnswerLoop, Tools!Goes, Tools!Returns, Tools!bodies, Tools!TypeOK,
              ProcessBook
<1>4. QED
  BY <1>1, <1>2, <1>3, CoroutineKeeps, BeginKeeps, ProcessKeeps, ToolCancelKeeps,
     ThreadsKeep
     DEF Tools!Next

LEMMA ToolsAlways == Tools!ToolCallAssumption => (Tools!Spec => []ToolsInv)
<1> SUFFICES ASSUME Tools!ToolCallAssumption PROVE Tools!Spec => []ToolsInv
  OBVIOUS
<1>1. Tools!Init => ToolsInv
  BY ToolsStart
<1>2. ToolsInv /\ [Tools!Next]_(Tools!vars) => ToolsInv'
  BY ToolsKeep
<1>3. QED BY <1>1, <1>2, PTL DEF Tools!Spec

(* However a call of run_cli ends, its process and whoever holds its pipes  *)
(* have ended first, unless a cancellation met the stopping; after a failed *)
(* callback the process has, but a holder of its pipes may not.             *)
(* (ProcessRunner.run_stream.)                                              *)
THEOREM NoProcessStays == Tools!ToolCallAssumption => (Tools!Spec => []Tools!NoProcessIsLeft)
<1>1. ToolsInv => Tools!NoProcessIsLeft
  BY DEF ToolsInv, ProcessBook, Tools!NoProcessIsLeft, Tools!TypeOK
<1>2. QED BY <1>1, ToolsAlways, PTL

-----------------------------------------------------------------------------
(* The task panel.  While the event loop works off an event, a tool that is *)
(* shown as running, or is about to be, runs, or is about to be completed   *)
(* and not shown again after that.                                          *)

Displays(t) ==
    \E i \in DOMAIN todo : todo[i].tool = t /\ todo[i].do \in {"enter", "show"}

Completes(t) ==
    \E i \in DOMAIN todo :
        /\ todo[i].tool = t /\ todo[i].do = "leave"
        /\ \A j \in DOMAIN todo : j > i =>
              ~(todo[j].tool = t /\ todo[j].do \in {"enter", "show"})

PanelBook ==
    \A t \in PanelTool :
        shown[t] \in {"pending", "running"} \/ Displays(t) => t \in open \/ Completes(t)

BoardInv == Board!TypeOK /\ PanelBook

SegmentKind == {"clear", "enter", "show", "draw", "refresh", "leave", "halt"}

(* An event is worked off in the order of its pieces, all of one tool.      *)
LEMMA StepsAre ==
    ASSUME NEW t \in PanelTool, NEW names \in Seq(SegmentKind)
    PROVE  /\ Board!Steps(t, names) \in Seq(Board!Segment)
           /\ DOMAIN Board!Steps(t, names) = 1..Len(names)
           /\ \A i \in 1..Len(names) :
                 /\ Board!Steps(t, names)[i].do = names[i]
                 /\ Board!Steps(t, names)[i].tool = t
<1>1. /\ Len(names) \in Nat /\ DOMAIN names = 1..Len(names)
      /\ \A i \in 1..Len(names) : names[i] \in SegmentKind
  OBVIOUS
<1>2. Board!Steps(t, names) = [i \in 1..Len(names) |-> [do |-> names[i], tool |-> t]]
  BY <1>1 DEF Board!Steps
<1>3. \A i \in 1..Len(names) : [do |-> names[i], tool |-> t] \in Board!Segment
  BY <1>1 DEF Board!Segment, SegmentKind
<1>4. Board!Steps(t, names) \in [1..Len(names) -> Board!Segment]
  BY <1>2, <1>3
<1>5. Board!Steps(t, names) \in Seq(Board!Segment)
  BY <1>1, <1>4
<1>6. QED BY <1>2, <1>5

(* However a tool completes, it is left, and not shown after that.          *)
LastLeaves(names) ==
    \E i \in 1..Len(names) :
        /\ names[i] = "leave"
        /\ \A j \in 1..Len(names) : j > i => names[j] \notin {"enter", "show"}

LEMMA CompletingLeaves ==
    ASSUME NEW t \in PanelTool
    PROVE  /\ Board!Completing(t) \in Seq(SegmentKind) /\ LastLeaves(Board!Completing(t))
           /\ <<"clear">> \o Board!Completing(t) \o <<"draw">> \in Seq(SegmentKind)
           /\ LastLeaves(<<"clear">> \o Board!Completing(t) \o <<"draw">>)
<1> DEFINE s == Board!Completing(t)
<1>1. s \in Seq(SegmentKind) /\ LastLeaves(s)
  <2>1. CASE shown[t] = "absent"
    <3>1. s = <<"enter", "show", "draw", "refresh", "leave", "draw", "halt">>
      BY <2>1 DEF Board!Completing
    <3>2. QED BY <3>1 DEF SegmentKind, LastLeaves
  <2>2. CASE shown[t] # "absent"
    <3>1. s = <<"leave", "draw", "halt">>
      BY <2>2 DEF Board!Completing
    <3>2. QED BY <3>1 DEF SegmentKind, LastLeaves
  <2>3. QED BY <2>1, <2>2
<1> HIDE DEF s
<1> DEFINE w == <<"clear">> \o s \o <<"draw">>
<1>2. /\ w \in Seq(SegmentKind) /\ Len(w) = Len(s) + 2
      /\ \A i \in 1..Len(s) : w[i + 1] = s[i]
      /\ w[Len(s) + 2] = "draw"
  BY <1>1 DEF SegmentKind
<1> HIDE DEF w
<1>3. LastLeaves(w)
  <2>1. PICK i \in 1..Len(s) :
           /\ s[i] = "leave"
           /\ \A j \in 1..Len(s) : j > i => s[j] \notin {"enter", "show"}
    BY <1>1 DEF LastLeaves
  <2>2. Len(s) \in Nat
    BY <1>1
  <2>3. i + 1 \in 1..Len(w) /\ w[i + 1] = "leave"
    BY <1>2, <2>1, <2>2
  <2>4. ASSUME NEW j \in 1..Len(w), j > i + 1 PROVE w[j] \notin {"enter", "show"}
    <3>1. CASE j = Len(s) + 2
      BY <1>2, <3>1
    <3>2. CASE j # Len(s) + 2
      <4>1. j - 1 \in 1..Len(s) /\ j - 1 > i /\ (j - 1) + 1 = j
        BY <1>2, <2>1, <2>2, <2>4, <3>2
      <4>2. QED BY <1>2, <2>1, <4>1
    <3>3. QED BY <3>1, <3>2
  <2>5. QED BY <2>3, <2>4 DEF LastLeaves
<1>4. QED BY <1>1, <1>2, <1>3 DEF s, w

LEMMA BoardStart == Board!Init => BoardInv
<1> SUFFICES ASSUME Board!Init PROVE BoardInv
  OBVIOUS
<1>1. /\ writer = Nobody /\ board = Nobody /\ asker = Nobody /\ open = {}
      /\ refresher = "none" /\ worker = "idle" /\ stop = FALSE /\ disabled = FALSE
      /\ todo = <<>> /\ shown = [t \in PanelTool |-> "absent"]
  BY DEF Board!Init
<1>2. stop \in BOOLEAN /\ disabled \in BOOLEAN
  BY <1>1
<1>3. todo \in Seq(Board!Segment) /\ DOMAIN todo = {}
  BY <1>1
<1>4. shown \in [PanelTool -> {"absent", "pending", "running", "done"}]
  BY <1>1
<1>5. Board!TypeOK
  BY <1>1, <1>2, <1>3, <1>4 DEF Board!TypeOK
<1>6. PanelBook
  BY <1>1, <1>3 DEF PanelBook, Displays
<1>7. QED BY <1>5, <1>6 DEF BoardInv

LEMMA ToolStartedKeeps ==
    ASSUME BoardInv, NEW t \in PanelTool, Board!ToolStarted(t)
    PROVE  BoardInv'
<1> USE DEF BoardInv
<1> DEFINE names == <<"enter", "show", "draw", "refresh">>
<1>1. /\ todo = <<>> /\ todo' = Board!Steps(t, names)
      /\ writer' = "loop" /\ open' = open \cup {t}
      /\ UNCHANGED <<board, shown, refresher, stop, disabled, worker, asker>>
  BY DEF Board!ToolStarted, Board!Handle
<1>2. names \in Seq(SegmentKind)
  BY DEF SegmentKind
<1> HIDE DEF names
<1>3. /\ todo' \in Seq(Board!Segment) /\ \A i \in DOMAIN todo' : todo'[i].tool = t
  BY <1>1, <1>2, StepsAre
<1>4. Board!TypeOK'
  BY <1>1, <1>3 DEF Board!TypeOK, Board!Threads
<1>5. PanelBook'
  BY <1>1, <1>3 DEF PanelBook, Displays, Completes
<1>6. QED BY <1>4, <1>5

LEMMA ToolCompletedKeeps ==
    ASSUME BoardInv, NEW t \in PanelTool, Board!ToolCompleted(t)
    PROVE  BoardInv'
<1> USE DEF BoardInv
<1>1. PICK names \in Seq(SegmentKind) :
         LastLeaves(names) /\ todo' = Board!Steps(t, names)
  BY CompletingLeaves DEF Board!ToolCompleted, Board!Handle
<1>2. /\ todo = <<>> /\ writer' = "loop" /\ open' = open \ {t}
      /\ UNCHANGED <<board, shown, refresher, stop, disabled, worker, asker>>
  BY DEF Board!ToolCompleted, Board!Handle
<1>3. /\ todo' \in Seq(Board!Segment) /\ DOMAIN todo' = 1..Len(names)
      /\ \A i \in 1..Len(names) : todo'[i].do = names[i] /\ todo'[i].tool = t
  BY <1>1, StepsAre
<1>4. Board!TypeOK'
  BY <1>2, <1>3 DEF Board!TypeOK, Board!Threads
<1>5. Completes(t)'
  BY <1>1, <1>3 DEF LastLeaves, Completes
<1>6. ASSUME NEW x \in PanelTool, x # t, shown'[x] \in {"pending", "running"} \/ Displays(x)'
      PROVE  x \in open'
  BY <1>2, <1>3, <1>6 DEF PanelBook, Displays, Completes
<1>7. PanelBook'
  BY <1>5, <1>6 DEF PanelBook
<1>8. QED BY <1>4, <1>7

LEMMA OutputKeeps ==
    ASSUME BoardInv, Board!Output
    PROVE  BoardInv'
<1> USE DEF BoardInv
<1>1. PICK t \in PanelTool : Board!Handle(t, <<"clear">>)
  BY DEF Board!Output
<1>2. /\ todo = <<>> /\ todo' = Board!Steps(t, <<"clear">>) /\ writer' = "loop"
      /\ UNCHANGED <<board, open, shown, refresher, stop, disabled, worker, asker>>
  BY <1>1 DEF Board!Output, Board!Handle
<1>3. PICK names \in Seq(SegmentKind) :
         todo' = Board!Steps(t, names) /\ \A i \in 1..Len(names) : names[i] = "clear"
  <2>1. <<"clear">> \in Seq(SegmentKind) /\ Len(<<"clear">>) = 1 /\ <<"clear">>[1] = "clear"
    BY DEF SegmentKind
  <2>2. \A i \in 1..Len(<<"clear">>) : <<"clear">>[i] = "clear"
    BY <2>1
  <2>3. QED BY <1>2, <2>1, <2>2
<1>4. /\ todo' \in Seq(Board!Segment) /\ \A i \in DOMAIN todo' : todo'[i].do = "clear"
  BY <1>3, StepsAre
<1>5. Board!TypeOK'
  BY <1>2, <1>4 DEF Board!TypeOK, Board!Threads
<1>6. PanelBook'
  BY <1>2, <1>4 DEF PanelBook, Displays, Completes
<1>7. QED BY <1>5, <1>6

(* One piece is worked off: what it shows was announced by the piece, and   *)
(* what it leaves is not shown again by those that remain.                  *)
LEMMA PieceKeeps ==
    ASSUME BoardInv, todo # <<>>, todo' = Tail(todo), open' = open,
           shown' = Board!Shows(Head(todo))
    PROVE  /\ todo' \in Seq(Board!Segment)
           /\ shown' \in [PanelTool -> {"absent", "pending", "running", "done"}]
           /\ PanelBook'
<1> USE DEF BoardInv
<1> DEFINE head == todo[1]
<1>1. /\ todo \in Seq(Board!Segment) /\ Len(todo) \in Nat /\ Len(todo) >= 1
      /\ Head(todo) = head /\ head \in Board!Segment
      /\ todo' \in Seq(Board!Segment)
      /\ DOMAIN todo = 1..Len(todo) /\ DOMAIN todo' = 1..(Len(todo) - 1)
      /\ \A i \in 1..(Len(todo) - 1) : todo'[i] = todo[i + 1]
  BY DEF Board!TypeOK
<1>2. head.tool \in PanelTool /\ head.do \in SegmentKind
  BY <1>1 DEF Board!Segment, SegmentKind
<1>3. /\ shown' \in [PanelTool -> {"absent", "pending", "running", "done"}]
      /\ \A t \in PanelTool : t # head.tool => shown'[t] = shown[t]
      /\ head.do = "leave" => shown'[head.tool] = "done"
      /\ head.do \notin {"enter", "show"} =>
            shown'[head.tool] \in {shown[head.tool], "done"}
  BY <1>1, <1>2 DEF Board!Shows, Board!TypeOK
<1> HIDE DEF head
<1>4. ASSUME NEW t \in PanelTool, Displays(t)'
      PROVE  Displays(t)
  <2>1. PICK i \in 1..(Len(todo) - 1) :
           todo[i + 1].tool = t /\ todo[i + 1].do \in {"enter", "show"}
    BY <1>1, <1>4 DEF Displays
  <2>2. i + 1 \in DOMAIN todo
    BY <1>1
  <2>3. QED BY <2>1, <2>2 DEF Displays
<1>5. ASSUME NEW t \in PanelTool, Completes(t),
             shown'[t] \in {"pending", "running"} \/ Displays(t)'
      PROVE  Completes(t)'
  <2>1. PICK i \in DOMAIN todo :
           /\ todo[i].tool = t /\ todo[i].do = "leave"
           /\ \A j \in DOMAIN todo : j > i =>
                 ~(todo[j].tool = t /\ todo[j].do \in {"enter", "show"})
    BY <1>5 DEF Completes
  <2>2. i # 1
    <3> SUFFICES ASSUME i = 1 PROVE FALSE
      OBVIOUS
    <3>1. head.tool = t /\ head.do = "leave" /\ shown'[t] = "done"
      BY <1>3, <2>1 DEF head
    <3>2. PICK k \in 1..(Len(todo) - 1) :
             todo[k + 1].tool = t /\ todo[k + 1].do \in {"enter", "show"}
      BY <1>1, <1>5, <3>1 DEF Displays
    <3>3. k + 1 \in DOMAIN todo /\ k + 1 > i
      BY <1>1
    <3>4. QED BY <2>1, <3>2, <3>3
  <2>3. /\ i - 1 \in DOMAIN todo' /\ todo'[i - 1] = todo[i]
    BY <1>1, <2>2
  <2>4. ASSUME NEW j \in DOMAIN todo', j > i - 1
        PROVE  ~(todo'[j].tool = t /\ todo'[j].do \in {"enter", "show"})
    <3>1. j + 1 \in DOMAIN todo /\ j + 1 > i /\ todo'[j] = todo[j + 1]
      BY <1>1, <2>4
    <3>2. QED BY <2>1, <3>1
  <2>5. QED BY <2>1, <2>3, <2>4 DEF Completes
<1>6. ASSUME NEW t \in PanelTool, shown'[t] \in {"pending", "running"}
      PROVE  shown[t] \in {"pending", "running"} \/ Displays(t)
  <2>1. CASE t # head.tool
    BY <1>3, <1>6, <2>1
  <2>2. CASE t = head.tool /\ head.do \notin {"enter", "show"}
    BY <1>3, <1>6, <2>2
  <2>3. CASE t = head.tool /\ head.do \in {"enter", "show"}
    BY <1>1, <2>3 DEF Displays, head
  <2>4. QED BY <2>1, <2>2, <2>3
<1>7. PanelBook'
  BY <1>4, <1>5, <1>6 DEF PanelBook
<1>8. QED BY <1>1, <1>3, <1>7

LEMMA LoopStepsKeep ==
    ASSUME BoardInv, Board!EventStep \/ Board!StartRefresh \/ Board!StopRefresh
    PROVE  BoardInv'
<1> USE DEF BoardInv
<1>1. /\ todo # <<>> /\ todo' = Tail(todo)
      /\ writer' \in {writer, Nobody} /\ refresher' \in {refresher, "asleep"}
      /\ stop' \in BOOLEAN
      /\ UNCHANGED <<board, open, disabled, worker, asker>>
  BY DEF Board!EventStep, Board!StartRefresh, Board!StopRefresh, Board!TypeOK
<1>2. shown' = Board!Shows(Head(todo))
  BY DEF Board!EventStep, Board!StartRefresh, Board!StopRefresh, Board!Shows
<1>3. Board!TypeOK'
  BY <1>1, <1>2, PieceKeeps DEF Board!TypeOK
<1>4. QED BY <1>1, <1>2, <1>3, PieceKeeps

LEMMA PanelThreadsKeep ==
    ASSUME BoardInv,
           \/ Board!PrepareForInput \/ Board!RefresherSleeps \/ Board!RefresherLooks
           \/ Board!RefresherTakesBoard \/ Board!RefresherDraws
           \/ Board!Pause \/ Board!PauseTakesBoard \/ Board!PauseDraws
           \/ Board!AskOperator \/ Board!Resume
    PROVE  BoardInv'
<1> USE DEF BoardInv
<1>1. /\ UNCHANGED <<todo, open, shown, writer>>
      /\ board' \in {board, "refresher", "worker", Nobody}
      /\ refresher' \in {refresher, "none", "asleep", "awake", "due", "drawing"}
      /\ worker' \in {worker, "idle", "disabled", "drawing", "drawn", "asking"}
      /\ asker' \in PanelTool \cup {Nobody}
  BY DEF Board!PrepareForInput, Board!RefresherSleeps, Board!RefresherLooks,
         Board!RefresherTakesBoard, Board!RefresherDraws, Board!Pause,
         Board!PauseTakesBoard, Board!PauseDraws, Board!AskOperator, Board!Resume,
         Board!TypeOK
<1>2. stop' \in BOOLEAN /\ disabled' \in BOOLEAN
  BY DEF Board!PrepareForInput, Board!RefresherSleeps, Board!RefresherLooks,
         Board!RefresherTakesBoard, Board!RefresherDraws, Board!Pause,
         Board!PauseTakesBoard, Board!PauseDraws, Board!AskOperator, Board!Resume,
         Board!TypeOK
<1>3. Board!TypeOK'
  BY <1>1, <1>2 DEF Board!TypeOK, Board!Threads
<1>4. PanelBook'
  BY <1>1 DEF PanelBook, Displays, Completes
<1>5. QED BY <1>3, <1>4

LEMMA BoardKeeps ==
    ASSUME BoardInv, [Board!Next]_(Board!vars)
    PROVE  BoardInv'
<1> USE DEF BoardInv
<1>1. CASE UNCHANGED Board!vars
  BY <1>1 DEF Board!vars, Board!TypeOK, PanelBook, Displays, Completes
<1>2. CASE Board!BeginTurn
  <2>1. /\ todo = <<>> /\ stop' = TRUE /\ disabled' = FALSE
        /\ shown' = [t \in PanelTool |-> "absent"]
        /\ UNCHANGED <<writer, board, todo, open, refresher, worker, asker>>
    BY <1>2 DEF Board!BeginTurn
  <2>2. Board!TypeOK'
    BY <2>1 DEF Board!TypeOK
  <2>3. PanelBook'
    BY <2>1 DEF PanelBook, Displays
  <2>4. QED BY <2>2, <2>3
<1>3. QED
  BY <1>1, <1>2, ToolStartedKeeps, ToolCompletedKeeps, OutputKeeps, LoopStepsKeep,
     PanelThreadsKeep
     DEF Board!Next

LEMMA BoardAlways == Board!Spec => []BoardInv
<1>1. Board!Init => BoardInv
  BY BoardStart
<1>2. BoardInv /\ [Board!Next]_(Board!vars) => BoardInv'
  BY BoardKeeps
<1>3. QED BY <1>1, <1>2, PTL DEF Board!Spec

(* Between two events, what the panel shows as running runs, whatever the   *)
(* order of a tool's end, an empty panel and a late completion.             *)
(* (TerminalTaskBoard.)                                                     *)
THEOREM ShownRuns == Board!Spec => []Board!ShownRunningRuns
<1>1. BoardInv => Board!ShownRunningRuns
  BY DEF BoardInv, PanelBook, Completes, Board!ShownRunningRuns
<1>2. QED BY <1>1, BoardAlways, PTL

-----------------------------------------------------------------------------
(* Delegations.  One that may mutate has one subagent under way at most,    *)
(* which is one of those it chose; when one of them has raised, or when it  *)
(* is over, it has none.                                                    *)

Busy(c) == {a \in Specialist : work[c][a] \in Delegates!Alive}

AloneBook ==
    \A c \in Parent : call[c].mutation =>
        /\ Busy(c) \subseteq Delegates!Chosen(c)
        /\ \A a, b \in Busy(c) : a = b
        /\ Busy(c) # {} => /\ call[c].phase = "awaiting"
                           /\ \A a \in Specialist : work[c][a] # "raised"

DelegatesInv == Delegates!TypeOK /\ AloneBook

(* No agent is chosen twice; those called were called in their order; the   *)
(* threads left behind are of chosen agents that have no result of their    *)
(* own; an answer needs a result of every chosen agent.                     *)
Listed(c) == DOMAIN call[c].chosen
Distinct(c) ==
    \A i, j \in Listed(c) : call[c].chosen[i] = call[c].chosen[j] => i = j
Ordered(c) ==
    \A i, j \in Listed(c) :
        i < j /\ work[c][call[c].chosen[j]] # "none" =>
            work[c][call[c].chosen[i]] \in {"done", "expired"}
StrayOnly(c) ==
    /\ stray[c] \subseteq Delegates!Chosen(c)
    /\ \A a \in stray[c] : work[c][a] \in {"expired", "raised", "cancelled"}
AnswerIsWhole(c) ==
    call[c].phase = "answered" =>
        \A a \in Delegates!Chosen(c) : work[c][a] \in {"done", "expired"}
StrayOf(c) ==
    /\ Distinct(c)
    /\ call[c].mutation => Ordered(c) /\ StrayOnly(c) /\ AnswerIsWhole(c)
StrayBook == \A c \in Parent : StrayOf(c)

CallPhase == {"idle", "awaiting", "answered", "local", "failed", "cancelled"}

(* What is selected is a list of agents, since the cover is.                *)
LEMMA CoverIsASequence ==
    ASSUME Delegates!DelegationAssumption, NEW need \in SUBSET Capability
    PROVE  Delegates!Decide(need) \in Seq(Specialist)
<1> DEFINE cover == Delegates!Decide(need)
           size == Delegates!Cardinality(Specialist)
           lists == UNION {[1..n -> Specialist] : n \in 0..size}
<1>1. size \in Nat
  <2>1. Delegates!IsFiniteSet(Specialist) <=> IsFiniteSet(Specialist)
    BY DEF Delegates!IsFiniteSet, IsFiniteSet
  <2>2. size = Cardinality(Specialist)
    BY DEF Delegates!Cardinality, Cardinality
  <2>3. QED BY <2>1, <2>2, FS_CardinalityType DEF Delegates!DelegationAssumption
<1>2. \A list \in lists : list \in Seq(Specialist)
  <2> HIDE DEF size
  <2> SUFFICES ASSUME NEW n \in 0..size, NEW list \in [1..n -> Specialist]
               PROVE  list \in Seq(Specialist)
    OBVIOUS
  <2>1. n \in Nat
    BY <1>1
  <2>2. QED BY <2>1
<1>3. cover = <<>> \/ cover \in lists
  BY Zenon DEF Delegates!Decide
<1> HIDE DEF cover, lists
<1>4. cover \in lists => cover \in Seq(Specialist)
  BY <1>2
<1>5. <<>> \in Seq(Specialist)
  OBVIOUS
<1>6. cover \in Seq(Specialist)
  BY <1>3, <1>4, <1>5
<1>7. QED BY <1>6 DEF cover

LEMMA SelectedIsASequence ==
    ASSUME Delegates!DelegationAssumption,
           Delegates!TypeOK, NEW need \in SUBSET Capability
    PROVE  Delegates!Selected(need) \in Seq(Specialist)
<1> DEFINE cover == Delegates!Decide(need)
<1>1. cover \in Seq(Specialist)
  BY CoverIsASequence
<1>2. Delegates!Remaining \in Nat
  BY DEF Delegates!Remaining, Delegates!TypeOK, Delegates!DelegationAssumption
<1> HIDE DEF cover
<1>3. SubSeq(cover, 1, IF Len(cover) < Delegates!Remaining
                       THEN Len(cover) ELSE Delegates!Remaining) \in Seq(Specialist)
  BY <1>1, <1>2
<1>4. QED BY <1>3 DEF Delegates!Selected, cover

LEMMA DelegatesStart ==
    Delegates!DelegationAssumption /\ Delegates!Init => DelegatesInv
<1> SUFFICES ASSUME Delegates!DelegationAssumption, Delegates!Init PROVE DelegatesInv
  OBVIOUS
<1>1. Delegates!TypeOK
  BY DEF Delegates!Init, Delegates!TypeOK, Delegates!NoCall, Delegates!Quiet,
         Delegates!DelegationAssumption
<1>2. AloneBook
  BY DEF Delegates!Init, Delegates!NoCall, AloneBook
<1>3. QED BY <1>1, <1>2 DEF DelegatesInv

(* A step that moves one subagent on: only work changes, and started.       *)
LEMMA MoveKeeps ==
    ASSUME DelegatesInv, NEW c \in Parent, NEW a \in Specialist,
           NEW to \in Delegates!Alive \cup Delegates!Quiet,
           work[c][a] \in Delegates!Alive,
           work' = [work EXCEPT ![c][a] = to], call' = call, request' = request,
           started' \in 0..MaxSubagents, stray' \in [Parent -> SUBSET Specialist]
    PROVE  DelegatesInv'
<1> USE DEF DelegatesInv
<1>1. Delegates!TypeOK'
  BY DEF Delegates!TypeOK
<1>2. ASSUME NEW d \in Parent, call[d].mutation
      PROVE  /\ Busy(d)' \subseteq Delegates!Chosen(d)'
             /\ \A x, y \in Busy(d)' : x = y
             /\ Busy(d)' # {} => /\ call'[d].phase = "awaiting"
                                 /\ \A x \in Specialist : work'[d][x] # "raised"
  <2>1. /\ \A x \in Specialist : d # c \/ x # a => work'[d][x] = work[d][x]
        /\ work'[c][a] = to
    BY DEF Delegates!TypeOK
  <2>2. Busy(d)' \subseteq Busy(d)
    BY <2>1 DEF Busy
  <2>3. Delegates!Chosen(d)' = Delegates!Chosen(d)
    BY DEF Delegates!Chosen
  <2>4. Busy(d)' # {} => \A x \in Specialist : work'[d][x] # "raised"
    <3> SUFFICES ASSUME Busy(d)' # {}, NEW x \in Specialist PROVE work'[d][x] # "raised"
      OBVIOUS
    <3>1. PICK y \in Specialist : work'[d][y] \in Delegates!Alive /\ y \in Busy(d)
      BY <2>2 DEF Busy
    <3>2. \A z \in Specialist : work[d][z] # "raised"
      BY <1>2, <3>1 DEF AloneBook
    <3>3. CASE d # c
      BY <2>1, <3>2, <3>3
    <3>4. CASE d = c
      <4>1. a \in Busy(d)
        BY <3>4 DEF Busy
      <4>2. y = a
        BY <1>2, <3>1, <4>1 DEF AloneBook
      <4>3. QED BY <2>1, <3>1, <3>2, <3>4, <4>2 DEF Delegates!Alive
    <3>5. QED BY <3>3, <3>4
  <2>5. QED BY <1>2, <2>2, <2>3, <2>4 DEF AloneBook
<1>3. AloneBook'
  BY <1>2 DEF AloneBook
<1>4. QED BY <1>1, <1>3

(* A subagent ends, and the next of its delegation may be called.           *)
LEMMA FinishKeeps ==
    ASSUME DelegatesInv, NEW c \in Parent, NEW a \in Specialist,
           NEW to \in {"done", "expired"}, work[c][a] \in {"working", "writing"},
           work' = [work EXCEPT ![c] =
                       Delegates!CallsNext(c, a, [work[c] EXCEPT ![a] = to])],
           UNCHANGED <<call, started, request>>, stray' \in [Parent -> SUBSET Specialist]
    PROVE  DelegatesInv'
<1> USE DEF DelegatesInv
<1> DEFINE here == CHOOSE i \in DOMAIN call[c].chosen : call[c].chosen[i] = a
           next == call[c].chosen[here + 1]
           ended == [work[c] EXCEPT ![a] = to]
           follows == /\ call[c].phase = "awaiting"
                      /\ Delegates!OneByOne(call[c].mutation, call[c].chosen)
                      /\ here < Len(call[c].chosen)
<1>1. /\ work[c][a] \in {"working", "writing"} /\ UNCHANGED <<call, started, request>>
      /\ work' = [work EXCEPT ![c] =
            IF follows THEN [ended EXCEPT ![next] = "called"] ELSE ended]
  BY DEF Delegates!CallsNext
<1>2. ended \in [Specialist -> Delegates!Quiet \cup Delegates!Alive]
  BY DEF Delegates!TypeOK, Delegates!Quiet
<1>3. /\ \A x \in Specialist : x # a => ended[x] = work[c][x]
      /\ ended[a] = to
  BY DEF Delegates!TypeOK
<1> HIDE DEF follows, next, ended
<1>4. work'[c] \in [Specialist -> Delegates!Quiet \cup Delegates!Alive]
  BY <1>1, <1>2 DEF Delegates!TypeOK, Delegates!Alive
<1>5. /\ \A d \in Parent : d # c => work'[d] = work[d]
      /\ work' \in [Parent -> [Specialist -> Delegates!Quiet \cup Delegates!Alive]]
  BY <1>1, <1>4 DEF Delegates!TypeOK
<1>6. Delegates!TypeOK'
  BY <1>1, <1>5 DEF Delegates!TypeOK
<1>7. /\ ~ follows => \A x \in Specialist : work'[c][x] = ended[x]
      /\ follows => \A x \in Specialist :
            work'[c][x] = IF x = next THEN "called" ELSE ended[x]
  BY <1>1, <1>2 DEF Delegates!TypeOK
<1>8. ASSUME call[c].mutation
      PROVE  /\ Busy(c)' \subseteq Delegates!Chosen(c)'
             /\ \A x, y \in Busy(c)' : x = y
             /\ Busy(c)' # {} => /\ call'[c].phase = "awaiting"
                                 /\ \A x \in Specialist : work'[c][x] # "raised"
  <2>1. a \in Busy(c)
    BY <1>1 DEF Busy, Delegates!Alive
  <2>2. /\ call[c].phase = "awaiting" /\ a \in Delegates!Chosen(c)
        /\ \A x \in Specialist : work[c][x] # "raised" /\ (x \in Busy(c) => x = a)
    BY <1>8, <2>1 DEF AloneBook
  <2>3. \A x \in Specialist : ended[x] \notin Delegates!Alive /\ ended[x] # "raised"
    BY <1>3, <2>2 DEF Busy, Delegates!Alive
  <2>4. \A x \in Specialist : work'[c][x] # "raised"
    <3>1. CASE follows
      <4>1. \A x \in Specialist : work'[c][x] \in {"called", ended[x]}
        BY <1>7, <3>1
      <4>2. QED BY <2>3, <4>1
    <3>2. CASE ~ follows
      <4>1. \A x \in Specialist : work'[c][x] = ended[x]
        BY <1>7, <3>2
      <4>2. QED BY <2>3, <4>1
    <3>3. QED BY <3>1, <3>2
  <2>5. CASE ~ follows
    <3>1. Busy(c)' = {}
      BY <1>7, <2>3, <2>5 DEF Busy
    <3>2. QED BY <3>1
  <2>6. CASE follows
    <3>1. Busy(c)' \subseteq {next}
      BY <1>7, <2>3, <2>6 DEF Busy
    <3>2. next \in Delegates!Chosen(c)
      <4>1. call[c].chosen \in Seq(Specialist)
        BY DEF Delegates!TypeOK
      <4>2. here \in DOMAIN call[c].chosen
        BY <2>2 DEF Delegates!Chosen
      <4>3. here + 1 \in DOMAIN call[c].chosen
        BY <2>6, <4>1, <4>2 DEF follows
      <4>4. QED BY <4>3 DEF next, Delegates!Chosen
    <3>3. Delegates!Chosen(c)' = Delegates!Chosen(c) /\ call'[c].phase = "awaiting"
      BY <1>1, <2>2 DEF Delegates!Chosen
    <3>4. QED BY <2>4, <3>1, <3>2, <3>3
  <2>7. QED BY <2>5, <2>6
<1>9. ASSUME NEW d \in Parent, d # c
      PROVE  /\ Busy(d)' = Busy(d) /\ Delegates!Chosen(d)' = Delegates!Chosen(d)
             /\ call'[d] = call[d] /\ work'[d] = work[d]
  BY <1>1, <1>5, <1>9 DEF Busy, Delegates!Chosen
<1>10. AloneBook'
  BY <1>1, <1>8, <1>9 DEF AloneBook
<1>11. QED BY <1>6, <1>10

(* A delegation starts: its first agent is called, or none.                 *)
LEMMA AskKeeps ==
    ASSUME Delegates!DelegationAssumption, DelegatesInv,
           NEW c \in Parent, NEW need \in SUBSET Capability, NEW mutation \in BOOLEAN,
           Delegates!Ask(c, need, mutation)
    PROVE  DelegatesInv'
<1> USE DEF DelegatesInv
<1> DEFINE chosen == Delegates!Selected(need)
           phase == IF chosen = <<>> THEN "local" ELSE "awaiting"
           starts == Delegates!StartsWith(mutation, chosen)
<1>1. chosen \in Seq(Specialist)
  BY SelectedIsASequence
<1>2. /\ call' = [call EXCEPT ![c] = [phase |-> phase, chosen |-> chosen,
                                      mutation |-> mutation, need |-> need]]
      /\ work' = [work EXCEPT ![c] = starts]
      /\ stray' = [stray EXCEPT ![c] = {}]
      /\ UNCHANGED <<started, request>>
  BY DEF Delegates!Ask
<1>3. phase \in CallPhase /\ (chosen # <<>> => phase = "awaiting")
  BY DEF CallPhase
<1> HIDE DEF chosen, phase
<1>4. starts \in [Specialist -> {"called", "none"}]
  BY DEF Delegates!StartsWith
<1>5. ASSUME mutation, NEW a \in Specialist, starts[a] = "called"
      PROVE  chosen # <<>> /\ a = Head(chosen)
  BY <1>5 DEF Delegates!StartsWith, Delegates!OneByOne
<1> HIDE DEF starts
<1>6. Delegates!TypeOK'
  BY <1>1, <1>2, <1>3, <1>4 DEF Delegates!TypeOK, CallPhase, Delegates!Quiet, Delegates!Alive
<1>7. /\ call'[c].phase = phase /\ call'[c].chosen = chosen
      /\ call'[c].mutation = mutation /\ work'[c] = starts
      /\ \A d \in Parent : d # c => call'[d] = call[d] /\ work'[d] = work[d]
  BY <1>2 DEF Delegates!TypeOK
<1>8. ASSUME mutation
      PROVE  /\ Busy(c)' \subseteq Delegates!Chosen(c)'
             /\ \A x, y \in Busy(c)' : x = y
             /\ Busy(c)' # {} => /\ call'[c].phase = "awaiting"
                                 /\ \A x \in Specialist : work'[c][x] # "raised"
  <2>1. \A x \in Busy(c)' : x \in Specialist /\ starts[x] = "called"
    BY <1>4, <1>7 DEF Busy, Delegates!Alive
  <2>2. \A x \in Busy(c)' : chosen # <<>> /\ x = Head(chosen)
    BY <1>5, <1>8, <2>1
  <2>3. chosen # <<>> => Head(chosen) \in Delegates!Chosen(c)'
    BY <1>1, <1>7 DEF Delegates!Chosen
  <2>4. \A x \in Specialist : work'[c][x] # "raised"
    BY <1>4, <1>7
  <2>5. QED BY <1>3, <1>7, <2>2, <2>3, <2>4
<1>9. ASSUME NEW d \in Parent, d # c
      PROVE  /\ Busy(d)' = Busy(d) /\ Delegates!Chosen(d)' = Delegates!Chosen(d)
             /\ call'[d] = call[d] /\ work'[d] = work[d]
  BY <1>7, <1>9 DEF Busy, Delegates!Chosen
<1>10. AloneBook'
  BY <1>7, <1>8, <1>9 DEF AloneBook
<1>11. QED BY <1>6, <1>10

(* A delegation that is over because all is done or something has raised    *)
(* has nobody under way.                                                    *)
LEMMA EndKeeps ==
    ASSUME DelegatesInv, NEW c \in Parent, Delegates!Fail(c) \/ Delegates!Answer(c)
    PROVE  DelegatesInv'
<1> USE DEF DelegatesInv
<1>1. PICK phase \in CallPhase :
         /\ call' = [call EXCEPT ![c].phase = phase]
         /\ UNCHANGED <<work, stray, started, request>>
  BY DEF Delegates!Fail, Delegates!Answer, CallPhase
<1>2. Delegates!TypeOK'
  BY <1>1 DEF Delegates!TypeOK, CallPhase
<1>3. /\ \A d \in Parent : /\ call'[d].chosen = call[d].chosen
                           /\ call'[d].mutation = call[d].mutation
                           /\ d # c => call'[d].phase = call[d].phase
  BY <1>1 DEF Delegates!TypeOK
<1>4. \A d \in Parent : /\ Busy(d)' = Busy(d)
                        /\ Delegates!Chosen(d)' = Delegates!Chosen(d)
  BY <1>1, <1>3 DEF Busy, Delegates!Chosen
<1>5. call[c].mutation => Busy(c) = {}
  <2> SUFFICES ASSUME call[c].mutation, Busy(c) # {} PROVE FALSE
    OBVIOUS
  <2>1. PICK a \in Specialist : a \in Busy(c) /\ work[c][a] \in Delegates!Alive
    BY DEF Busy
  <2>2. a \in Delegates!Chosen(c) /\ \A x \in Specialist : work[c][x] # "raised"
    BY <2>1 DEF AloneBook
  <2>3. Delegates!Chosen(c) \subseteq Specialist
    BY DEF Delegates!Chosen, Delegates!TypeOK
  <2>4. QED
    BY <2>1, <2>2, <2>3 DEF Delegates!Fail, Delegates!Answer, Delegates!Alive
<1>6. AloneBook'
  BY <1>1, <1>3, <1>4, <1>5 DEF AloneBook
<1>7. QED BY <1>2, <1>6

LEMMA CancelCallKeeps ==
    ASSUME DelegatesInv, NEW c \in Parent, Delegates!Cancel(c)
    PROVE  DelegatesInv'
<1> USE DEF DelegatesInv
<1>1. /\ call' = [call EXCEPT ![c].phase = "cancelled"]
      /\ work' = [work EXCEPT ![c] = [a \in Specialist |->
            IF work[c][a] \in Delegates!Alive THEN "cancelled" ELSE work[c][a]]]
      /\ UNCHANGED <<started, request>>
      /\ stray' \in [Parent -> SUBSET Specialist]
  BY DEF Delegates!Cancel, Delegates!TypeOK, Delegates!Leaves
<1>2. /\ \A d \in Parent : /\ call'[d].chosen = call[d].chosen
                           /\ call'[d].mutation = call[d].mutation
                           /\ d # c => call'[d].phase = call[d].phase
                           /\ d # c => work'[d] = work[d]
      /\ \A a \in Specialist : work'[c][a] =
            IF work[c][a] \in Delegates!Alive THEN "cancelled" ELSE work[c][a]
  BY <1>1 DEF Delegates!TypeOK
<1>3. call' \in [Parent -> [phase : CallPhase, chosen : Seq(Specialist),
                            mutation : BOOLEAN, need : SUBSET Capability]]
  BY <1>1 DEF Delegates!TypeOK, CallPhase
<1>4. work' \in [Parent -> [Specialist -> Delegates!Quiet \cup Delegates!Alive]]
  BY <1>1 DEF Delegates!TypeOK, Delegates!Quiet
<1>5. Delegates!TypeOK'
  BY <1>1, <1>3, <1>4 DEF Delegates!TypeOK, CallPhase
<1>6. Busy(c)' = {}
  BY <1>2 DEF Busy, Delegates!Alive
<1>7. \A d \in Parent : d # c => /\ Busy(d)' = Busy(d)
                                 /\ Delegates!Chosen(d)' = Delegates!Chosen(d)
  BY <1>2 DEF Busy, Delegates!Chosen
<1>8. AloneBook'
  BY <1>2, <1>6, <1>7 DEF AloneBook
<1>9. QED BY <1>5, <1>8

LEMMA DelegatesKeep ==
    ASSUME Delegates!DelegationAssumption, DelegatesInv,
           [Delegates!Next]_(Delegates!delegationVars)
    PROVE  DelegatesInv'
<1>1. CASE UNCHANGED Delegates!delegationVars
  BY <1>1 DEF DelegatesInv, Delegates!TypeOK, AloneBook, Busy, Delegates!Chosen,
              Delegates!delegationVars
<1>2. CASE Delegates!NewRequest
  BY <1>2 DEF DelegatesInv, Delegates!TypeOK, AloneBook, Busy, Delegates!Chosen,
              Delegates!NewRequest, Delegates!DelegationAssumption
<1>3. ASSUME NEW c \in Parent, NEW a \in Specialist, Delegates!Moves(c, a)
      PROVE  DelegatesInv'
  <2>1. /\ work[c][a] \in Delegates!Alive /\ call' = call /\ request' = request
        /\ started' \in 0..MaxSubagents
    BY <1>3 DEF Delegates!Moves, Delegates!Reserve, Delegates!Admit, Delegates!Raises,
                Delegates!Writes, Delegates!Written, Delegates!Alive,
                Delegates!AllTaken, DelegatesInv, Delegates!TypeOK,
                Delegates!DelegationAssumption
  <2>2. \E to \in Delegates!Alive \cup Delegates!Quiet :
           work' = [work EXCEPT ![c][a] = to]
    BY <1>3 DEF Delegates!Moves, Delegates!Reserve, Delegates!Admit, Delegates!Raises,
                Delegates!Writes, Delegates!Written, Delegates!Alive, Delegates!Quiet
  <2>3. stray' \in [Parent -> SUBSET Specialist]
    <3>1. stray' = stray \/ Delegates!Leaves(c, {a})
      BY <1>3 DEF Delegates!Moves, Delegates!Reserve, Delegates!Admit, Delegates!Raises,
                  Delegates!Writes, Delegates!Written
    <3>2. stray \in [Parent -> SUBSET Specialist]
      BY DEF DelegatesInv, Delegates!TypeOK
    <3>3. QED BY <3>1, <3>2 DEF Delegates!Leaves
  <2>4. QED BY <2>1, <2>2, <2>3, MoveKeeps
<1>4. ASSUME NEW c \in Parent, NEW a \in Specialist, Delegates!Ends(c, a)
      PROVE  DelegatesInv'
  <2>1. PICK to \in {"done", "expired"} :
           work' = [work EXCEPT ![c] =
                       Delegates!CallsNext(c, a, [work[c] EXCEPT ![a] = to])]
    BY <1>4 DEF Delegates!Ends, Delegates!Finish, Delegates!TimesOut, DelegatesInv,
                Delegates!TypeOK
  <2>2. /\ work[c][a] \in {"working", "writing"} /\ UNCHANGED <<call, started, request>>
        /\ stray' \in [Parent -> SUBSET Specialist]
    BY <1>4 DEF Delegates!Ends, Delegates!Finish, Delegates!TimesOut, Delegates!Leaves,
                DelegatesInv, Delegates!TypeOK
  <2>3. QED BY <2>1, <2>2, FinishKeeps
<1>5. QED
  BY <1>1, <1>2, <1>3, <1>4, AskKeeps, EndKeeps, CancelCallKeeps
     DEF Delegates!Next

(* The agents selected are different: each is among those not yet taken.    *)
LEMMA SelectedAreDistinct ==
    ASSUME Delegates!DelegationAssumption, Delegates!TypeOK,
           NEW need \in SUBSET Capability,
           NEW i \in DOMAIN Delegates!Selected(need),
           NEW j \in DOMAIN Delegates!Selected(need),
           Delegates!Selected(need)[i] = Delegates!Selected(need)[j]
    PROVE  i = j
<1> DEFINE cover == Delegates!Decide(need)
           length == IF Len(cover) < Delegates!Remaining
                     THEN Len(cover) ELSE Delegates!Remaining
           chosen == Delegates!Selected(need)
<1>1. cover \in Seq(Specialist)
  BY CoverIsASequence
<1>2. chosen = SubSeq(cover, 1, length)
  BY DEF Delegates!Selected
<1>3. cover = <<>> \/ Delegates!Covers(cover, need)
  BY Zenon DEF Delegates!Decide
<1>4. Delegates!Remaining \in Nat
  BY DEF Delegates!Remaining, Delegates!TypeOK, Delegates!DelegationAssumption
<1>5. \A n \in DOMAIN cover : cover[n] \in Delegates!Left(cover, n - 1)
  <2>1. Delegates!Covers(cover, need) =>
           \A n \in DOMAIN cover : cover[n] \in Delegates!Left(cover, n - 1)
    BY Zenon DEF Delegates!Covers
  <2> HIDE DEF cover
  <2>2. cover = <<>> => DOMAIN cover = {}
    OBVIOUS
  <2>3. QED BY <1>3, <2>1, <2>2
<1> HIDE DEF cover
<1>6. /\ length \in 0..Len(cover) /\ Len(cover) \in Nat
      /\ DOMAIN cover = 1..Len(cover)
  BY <1>1, <1>4
<1> HIDE DEF length
<1>7. /\ DOMAIN SubSeq(cover, 1, length) = 1..length
      /\ \A n \in 1..length : SubSeq(cover, 1, length)[n] = cover[n]
  BY <1>1, <1>6
<1>8. i \in 1..length /\ j \in 1..length /\ cover[i] = cover[j]
  BY <1>2, <1>7
<1>9. \A m, n \in 1..length : m < n => cover[m] # cover[n]
  <2> SUFFICES ASSUME NEW m \in 1..length, NEW n \in 1..length, m < n
               PROVE  cover[m] # cover[n]
    OBVIOUS
  <2>1. cover[n] \notin {cover[l] : l \in 1..(n - 1)}
    BY <1>5, <1>6 DEF Delegates!Left
  <2>2. m \in 1..(n - 1)
    BY <1>6
  <2>3. QED BY <2>1, <2>2
<1>10. QED BY <1>6, <1>8, <1>9

(* What a step leaves alone keeps its book.                                 *)
LEMMA StrayStays ==
    ASSUME NEW d \in Parent, StrayOf(d),
           call'[d] = call[d], work'[d] = work[d], stray'[d] = stray[d]
    PROVE  StrayOf(d)'
BY DEF StrayOf, Distinct, Ordered, StrayOnly, AnswerIsWhole, Listed, Delegates!Chosen

LEMMA StrayStart == Delegates!Init => StrayBook
BY DEF Delegates!Init, Delegates!NoCall, StrayBook, StrayOf, Distinct, Ordered,
       StrayOnly, AnswerIsWhole, Listed

LEMMA AskKeepsStray ==
    ASSUME Delegates!DelegationAssumption, DelegatesInv,
           NEW c \in Parent, NEW need \in SUBSET Capability, NEW mutation \in BOOLEAN,
           Delegates!Ask(c, need, mutation)
    PROVE  StrayOf(c)'
<1> DEFINE chosen == Delegates!Selected(need)
           starts == Delegates!StartsWith(mutation, chosen)
<1>1. chosen \in Seq(Specialist)
  BY SelectedIsASequence DEF DelegatesInv
<1>2. \A i, j \in DOMAIN chosen : chosen[i] = chosen[j] => i = j
  BY SelectedAreDistinct DEF DelegatesInv
<1>3. /\ call'[c].phase # "answered" /\ call'[c].chosen = chosen
      /\ call'[c].mutation = mutation /\ work'[c] = starts /\ stray'[c] = {}
  BY DEF Delegates!Ask, DelegatesInv, Delegates!TypeOK
<1>4. ASSUME mutation, NEW a \in Specialist, starts[a] # "none"
      PROVE  chosen # <<>> /\ a = Head(chosen)
  BY <1>4 DEF Delegates!StartsWith, Delegates!OneByOne
<1> HIDE DEF chosen, starts
<1>5. ASSUME mutation, NEW i \in DOMAIN chosen, NEW j \in DOMAIN chosen, i < j
      PROVE  starts[chosen[j]] = "none"
  <2> SUFFICES ASSUME starts[chosen[j]] # "none" PROVE FALSE
    OBVIOUS
  <2>1. chosen[j] = chosen[1] /\ 1 \in DOMAIN chosen
    BY <1>1, <1>4, <1>5
  <2>2. QED BY <1>1, <1>2, <1>5, <2>1
<1>6. Distinct(c)'
  BY <1>2, <1>3 DEF Distinct, Listed
<1>7. mutation => Ordered(c)'
  BY <1>3, <1>5 DEF Ordered, Listed
<1>8. StrayOnly(c)' /\ AnswerIsWhole(c)'
  BY <1>3 DEF StrayOnly, AnswerIsWhole
<1>9. QED BY <1>3, <1>6, <1>7, <1>8 DEF StrayOf

(* One subagent moves on, leaving its thread only when it raises.           *)
LEMMA MoveKeepsStray ==
    ASSUME DelegatesInv, NEW c \in Parent, StrayOf(c), NEW a \in Specialist,
           Delegates!Moves(c, a)
    PROVE  StrayOf(c)'
<1>1. /\ work[c][a] \in Delegates!Alive /\ call' = call
      /\ \A x \in Specialist : x # a => work'[c][x] = work[c][x]
      /\ work'[c][a] # "none"
  BY DEF Delegates!Moves, Delegates!Reserve, Delegates!Admit, Delegates!Raises,
         Delegates!Writes, Delegates!Written, Delegates!Alive, DelegatesInv,
         Delegates!TypeOK
<1>2. \/ stray'[c] = stray[c]
      \/ stray'[c] \subseteq stray[c] \cup {a} /\ work'[c][a] = "raised"
  BY DEF Delegates!Moves, Delegates!Reserve, Delegates!Admit, Delegates!Raises,
         Delegates!Writes, Delegates!Written, Delegates!Leaves, DelegatesInv,
         Delegates!TypeOK
<1>3. Distinct(c)' /\ Listed(c)' = Listed(c) /\ Delegates!Chosen(c)' = Delegates!Chosen(c)
  BY <1>1 DEF StrayOf, Distinct, Listed, Delegates!Chosen
<1>4. ASSUME call[c].mutation PROVE Ordered(c)' /\ StrayOnly(c)' /\ AnswerIsWhole(c)'
  <2>1. a \in Delegates!Chosen(c) /\ call[c].phase = "awaiting"
    BY <1>1, <1>4 DEF DelegatesInv, AloneBook, Busy
  <2>2. \A i \in Listed(c) : call[c].chosen[i] \in Specialist
    BY DEF Listed, DelegatesInv, Delegates!TypeOK
  <2>3. Ordered(c)'
    <3> SUFFICES ASSUME NEW i \in Listed(c), NEW j \in Listed(c), i < j,
                        work'[c][call[c].chosen[j]] # "none"
                 PROVE  work'[c][call[c].chosen[i]] \in {"done", "expired"}
      BY <1>1, <1>3 DEF Ordered
    <3>1. work[c][call[c].chosen[j]] # "none"
      BY <1>1, <2>2 DEF Delegates!Alive
    <3>2. work[c][call[c].chosen[i]] \in {"done", "expired"}
      BY <1>4, <3>1 DEF StrayOf, Ordered
    <3>3. call[c].chosen[i] # a
      BY <1>1, <3>2 DEF Delegates!Alive
    <3>4. QED BY <1>1, <2>2, <3>2, <3>3
  <2>4. StrayOnly(c)'
    <3>1. StrayOnly(c)
      BY <1>4 DEF StrayOf
    <3>2. stray'[c] \subseteq Delegates!Chosen(c)
      BY <1>2, <2>1, <3>1 DEF StrayOnly
    <3>3. ASSUME NEW x \in stray'[c]
          PROVE  work'[c][x] \in {"expired", "raised", "cancelled"}
      <4>1. CASE x \in stray[c]
        <5>1. work[c][x] \in {"expired", "raised", "cancelled"} /\ x \in Specialist
          BY <3>1, <4>1 DEF StrayOnly, DelegatesInv, Delegates!TypeOK
        <5>2. QED BY <1>1, <5>1 DEF Delegates!Alive
      <4>2. CASE x \notin stray[c]
        BY <1>2, <3>3, <4>2
      <4>3. QED BY <4>1, <4>2
    <3>4. QED BY <1>3, <3>2, <3>3 DEF StrayOnly
  <2>5. QED BY <1>1, <2>1, <2>3, <2>4 DEF AnswerIsWhole
<1>5. QED BY <1>1, <1>3, <1>4 DEF StrayOf

(* One subagent ends, and the one called next was not yet called.           *)
LEMMA EndsKeepStray ==
    ASSUME DelegatesInv, NEW c \in Parent, StrayOf(c), NEW a \in Specialist,
           Delegates!Ends(c, a)
    PROVE  StrayOf(c)'
<1> DEFINE chosen == call[c].chosen
           here == CHOOSE i \in DOMAIN chosen : chosen[i] = a
           next == chosen[here + 1]
           follows == /\ call[c].phase = "awaiting"
                      /\ Delegates!OneByOne(call[c].mutation, chosen)
                      /\ here < Len(chosen)
<1>1. PICK to \in {"done", "expired"} :
         /\ work' = [work EXCEPT ![c] =
                       Delegates!CallsNext(c, a, [work[c] EXCEPT ![a] = to])]
         /\ \/ stray'[c] = stray[c]
            \/ stray'[c] \subseteq stray[c] \cup {a} /\ to = "expired"
  BY DEF Delegates!Ends, Delegates!Finish, Delegates!TimesOut, Delegates!Leaves,
         DelegatesInv, Delegates!TypeOK
<1>2. work[c][a] \in {"working", "writing"} /\ call' = call
  BY DEF Delegates!Ends, Delegates!Finish, Delegates!TimesOut
<1> DEFINE ended == [work[c] EXCEPT ![a] = to]
<1>3. /\ work'[c] = IF follows THEN [ended EXCEPT ![next] = "called"] ELSE ended
      /\ ended \in [Specialist -> Delegates!Quiet \cup Delegates!Alive]
      /\ \A x \in Specialist : x # a => ended[x] = work[c][x]
      /\ ended[a] = to
  BY <1>1 DEF Delegates!CallsNext, DelegatesInv, Delegates!TypeOK, Delegates!Quiet
<1> HIDE DEF follows, next, ended
<1>4. \A x \in Specialist :
         work'[c][x] = IF follows /\ x = next THEN "called" ELSE ended[x]
  BY <1>3
<1>5. Distinct(c)' /\ Listed(c)' = Listed(c) /\ Delegates!Chosen(c)' = Delegates!Chosen(c)
  BY <1>2 DEF StrayOf, Distinct, Listed, Delegates!Chosen
<1>6. ASSUME call[c].mutation PROVE Ordered(c)' /\ StrayOnly(c)' /\ AnswerIsWhole(c)'
  <2>1. a \in Delegates!Chosen(c) /\ call[c].phase = "awaiting"
    BY <1>2, <1>6 DEF DelegatesInv, AloneBook, Busy, Delegates!Alive
  <2>2. /\ chosen \in Seq(Specialist) /\ Listed(c) = 1..Len(chosen) /\ Len(chosen) \in Nat
        /\ \A i \in Listed(c) : chosen[i] \in Specialist
    BY DEF Listed, DelegatesInv, Delegates!TypeOK
  <2>3. here \in Listed(c) /\ chosen[here] = a
    BY <2>1 DEF Delegates!Chosen, Listed
  <2>4. /\ \A i, j \in Listed(c) : chosen[i] = chosen[j] => i = j
        /\ \A i, j \in Listed(c) : i < j /\ work[c][chosen[j]] # "none" =>
              work[c][chosen[i]] \in {"done", "expired"}
    BY <1>6 DEF StrayOf, Distinct, Ordered
  <2> HIDE DEF here
  <2>5. follows => /\ here + 1 \in Listed(c) /\ chosen[here + 1] = next
                   /\ next \in Specialist /\ next # a
                   /\ work[c][next] = "none" /\ ended[next] = "none"
    <3> SUFFICES ASSUME follows
                 PROVE  /\ here + 1 \in Listed(c) /\ chosen[here + 1] = next
                        /\ next \in Specialist /\ next # a
                        /\ work[c][next] = "none" /\ ended[next] = "none"
      OBVIOUS
    <3>1. here + 1 \in Listed(c) /\ chosen[here + 1] = next
      BY <2>2, <2>3 DEF follows, next
    <3>2. next # a /\ next \in Specialist
      BY <2>2, <2>3, <2>4, <3>1
    <3>3. here < here + 1
      BY <2>2, <2>3
    <3>4. work[c][next] = "none"
      BY <1>2, <2>3, <2>4, <3>1, <3>3
    <3>5. QED BY <1>3, <3>1, <3>2, <3>4
  <2>6. \A i, j \in Listed(c) : i < j /\ ended[chosen[j]] # "none" =>
           ended[chosen[i]] \in {"done", "expired"}
    BY <1>2, <1>3, <2>2, <2>4
  <2>7. Ordered(c)'
    <3> SUFFICES ASSUME NEW i \in Listed(c), NEW j \in Listed(c), i < j,
                        work'[c][chosen[j]] # "none"
                 PROVE  work'[c][chosen[i]] \in {"done", "expired"}
      BY <1>2, <1>5 DEF Ordered
    <3>1. CASE follows /\ chosen[j] = next
      <4>1. j = here + 1
        BY <2>4, <2>5, <3>1
      <4>2. i = here \/ i < here
        BY <2>2, <2>3, <4>1
      <4>3. ended[a] # "none"
        BY <1>3
      <4>4. ended[chosen[i]] \in {"done", "expired"}
        BY <1>3, <2>3, <2>6, <4>2, <4>3
      <4>5. chosen[i] # next
        BY <2>5, <3>1, <4>4
      <4>6. QED BY <1>4, <2>2, <4>4, <4>5
    <3>2. CASE ~ (follows /\ chosen[j] = next)
      <4>1. ended[chosen[j]] # "none"
        BY <1>4, <2>2, <3>2
      <4>2. ended[chosen[i]] \in {"done", "expired"}
        BY <2>6, <4>1
      <4>3. ~ (follows /\ chosen[i] = next)
        BY <2>5, <4>2
      <4>4. QED BY <1>4, <2>2, <4>2, <4>3
    <3>3. QED BY <3>1, <3>2
  <2>8. StrayOnly(c)'
    <3>1. /\ stray[c] \subseteq Delegates!Chosen(c) /\ stray[c] \subseteq Specialist
          /\ \A x \in stray[c] : work[c][x] \in {"expired", "raised", "cancelled"}
      BY <1>6 DEF StrayOf, StrayOnly, DelegatesInv, Delegates!TypeOK
    <3>2. stray'[c] \subseteq Delegates!Chosen(c)
      BY <1>1, <2>1, <3>1
    <3>3. ASSUME NEW x \in stray'[c]
          PROVE  work'[c][x] \in {"expired", "raised", "cancelled"}
      <4>1. CASE x \in stray[c]
        <5>1. x # a /\ ended[x] \in {"expired", "raised", "cancelled"}
          BY <1>2, <1>3, <3>1, <4>1
        <5>2. ~ (follows /\ x = next)
          BY <2>5, <5>1
        <5>3. QED BY <1>4, <3>1, <4>1, <5>1, <5>2
      <4>2. CASE x \notin stray[c]
        <5>1. x = a /\ ended[x] = "expired"
          BY <1>1, <1>3, <3>3, <4>2
        <5>2. ~ (follows /\ x = next)
          BY <2>5, <5>1
        <5>3. QED BY <1>4, <5>1, <5>2
      <4>3. QED BY <4>1, <4>2
    <3>4. QED BY <1>5, <3>2, <3>3 DEF StrayOnly
  <2>9. QED BY <1>2, <2>1, <2>7, <2>8 DEF AnswerIsWhole
<1>7. QED BY <1>2, <1>5, <1>6 DEF StrayOf

LEMMA OverKeepsStray ==
    ASSUME DelegatesInv, NEW c \in Parent, StrayOf(c),
           Delegates!Fail(c) \/ Delegates!Answer(c)
    PROVE  StrayOf(c)'
<1>1. /\ call'[c].chosen = call[c].chosen /\ call'[c].mutation = call[c].mutation
      /\ work' = work /\ stray' = stray
      /\ call'[c].phase = "answered" =>
            \A a \in Delegates!Chosen(c) : work[c][a] \in {"done", "expired"}
  BY DEF Delegates!Fail, Delegates!Answer, DelegatesInv, Delegates!TypeOK
<1>2. QED
  BY <1>1 DEF StrayOf, Distinct, Ordered, StrayOnly, AnswerIsWhole, Listed,
              Delegates!Chosen

(* A cancellation reaches the subagents, and leaves the threads of those    *)
(* that were writing.                                                       *)
LEMMA CancelKeepsStray ==
    ASSUME DelegatesInv, NEW c \in Parent, StrayOf(c), Delegates!Cancel(c)
    PROVE  StrayOf(c)'
<1>1. /\ call'[c].chosen = call[c].chosen /\ call'[c].mutation = call[c].mutation
      /\ call'[c].phase = "cancelled"
      /\ \A x \in Specialist : work'[c][x] =
            IF work[c][x] \in Delegates!Alive THEN "cancelled" ELSE work[c][x]
      /\ stray'[c] = stray[c] \cup {x \in Specialist : work[c][x] = "writing"}
      /\ stray[c] \subseteq Specialist
  BY DEF Delegates!Cancel, Delegates!Leaves, DelegatesInv, Delegates!TypeOK
<1>2. Distinct(c)' /\ Listed(c)' = Listed(c) /\ Delegates!Chosen(c)' = Delegates!Chosen(c)
  BY <1>1 DEF StrayOf, Distinct, Listed, Delegates!Chosen
<1>3. ASSUME call[c].mutation PROVE Ordered(c)' /\ StrayOnly(c)' /\ AnswerIsWhole(c)'
  <2>1. Ordered(c) /\ StrayOnly(c)
    BY <1>3 DEF StrayOf
  <2>2. \A i \in Listed(c) : call[c].chosen[i] \in Specialist
    BY DEF Listed, DelegatesInv, Delegates!TypeOK
  <2>3. Ordered(c)'
    BY <1>1, <1>2, <2>1, <2>2 DEF Ordered, Delegates!Alive
  <2>4. \A x \in Specialist : work[c][x] = "writing" => x \in Delegates!Chosen(c)
    BY <1>3 DEF DelegatesInv, AloneBook, Busy, Delegates!Alive
  <2>5. StrayOnly(c)'
    BY <1>1, <1>2, <2>1, <2>4 DEF StrayOnly, Delegates!Alive
  <2>6. QED BY <1>1, <2>3, <2>5 DEF AnswerIsWhole
<1>4. QED BY <1>1, <1>2, <1>3 DEF StrayOf

LEMMA StrayKeeps ==
    ASSUME Delegates!DelegationAssumption, DelegatesInv, StrayBook,
           [Delegates!Next]_(Delegates!delegationVars)
    PROVE  StrayBook'
<1> DEFINE Rest(c) == \A d \in Parent : d # c =>
               call'[d] = call[d] /\ work'[d] = work[d] /\ stray'[d] = stray[d]
<1>1. ASSUME NEW c \in Parent, Rest(c), StrayOf(c)' PROVE StrayBook'
  BY <1>1, StrayStays DEF StrayBook
<1>2. CASE UNCHANGED Delegates!delegationVars \/ Delegates!NewRequest
  <2>1. \A d \in Parent : call'[d] = call[d] /\ work'[d] = work[d] /\ stray'[d] = stray[d]
    BY <1>2 DEF Delegates!NewRequest, Delegates!delegationVars
  <2>2. QED BY <2>1, StrayStays DEF StrayBook
<1>3. ASSUME NEW c \in Parent, NEW need \in SUBSET Capability, NEW mutation \in BOOLEAN,
             Delegates!Ask(c, need, mutation)
      PROVE  StrayBook'
  <2>1. Rest(c)
    BY <1>3 DEF Delegates!Ask, DelegatesInv, Delegates!TypeOK
  <2>2. QED BY <1>1, <1>3, <2>1, AskKeepsStray
<1>4. ASSUME NEW c \in Parent, NEW a \in Specialist, Delegates!Moves(c, a)
      PROVE  StrayBook'
  <2>1. Rest(c)
    BY <1>4 DEF Delegates!Moves, Delegates!Reserve, Delegates!Admit, Delegates!Raises,
                Delegates!Writes, Delegates!Written, Delegates!Leaves, DelegatesInv,
                Delegates!TypeOK
  <2>2. QED BY <1>1, <1>4, <2>1, MoveKeepsStray DEF StrayBook
<1>5. ASSUME NEW c \in Parent, NEW a \in Specialist, Delegates!Ends(c, a)
      PROVE  StrayBook'
  <2>1. Rest(c)
    BY <1>5 DEF Delegates!Ends, Delegates!Finish, Delegates!TimesOut, Delegates!Leaves,
                DelegatesInv, Delegates!TypeOK
  <2>2. QED BY <1>1, <1>5, <2>1, EndsKeepStray DEF StrayBook
<1>6. ASSUME NEW c \in Parent,
             Delegates!Fail(c) \/ Delegates!Answer(c) \/ Delegates!Cancel(c)
      PROVE  StrayBook'
  <2>1. Rest(c)
    BY <1>6 DEF Delegates!Fail, Delegates!Answer, Delegates!Cancel, Delegates!Leaves,
                DelegatesInv, Delegates!TypeOK
  <2>2. QED BY <1>1, <1>6, <2>1, OverKeepsStray, CancelKeepsStray DEF StrayBook
<1>7. QED BY <1>2, <1>3, <1>4, <1>5, <1>6 DEF Delegates!Next

LEMMA DelegatesAlways ==
    Delegates!DelegationAssumption =>
        (Delegates!Spec => [](DelegatesInv /\ StrayBook))
<1> SUFFICES ASSUME Delegates!DelegationAssumption
             PROVE  Delegates!Spec => [](DelegatesInv /\ StrayBook)
  OBVIOUS
<1>1. Delegates!Init => DelegatesInv /\ StrayBook
  BY DelegatesStart, StrayStart
<1>2. DelegatesInv /\ StrayBook /\ [Delegates!Next]_(Delegates!delegationVars) =>
         DelegatesInv' /\ StrayBook'
  BY DelegatesKeep, StrayKeeps
<1>3. QED BY <1>1, <1>2, PTL DEF Delegates!Spec

(* A delegation that may mutate awaits one subagent at a time, in the order *)
(* of its choice, and none when it is over, whatever raises, times out or   *)
(* is cancelled, however many agents are registered and delegations under   *)
(* way; an answer that leaves a writing thread behind has a time-out among  *)
(* its results.  (delegate_task.)                                           *)
THEOREM WritersWorkAlone ==
    Delegates!DelegationAssumption =>
        (Delegates!Spec => []Delegates!MutatorsWorkAlone)
<1> SUFFICES ASSUME Delegates!DelegationAssumption
             PROVE  Delegates!Spec => []Delegates!MutatorsWorkAlone
  OBVIOUS
<1>1. DelegatesInv /\ StrayBook => Delegates!MutatorsWorkAlone
  <2> SUFFICES ASSUME DelegatesInv, StrayBook, NEW c \in Parent, call[c].mutation
               PROVE  /\ Delegates!Cardinality(Busy(c)) <= 1
                      /\ call[c].phase # "awaiting" => Busy(c) = {}
                      /\ Ordered(c)
                      /\ call[c].phase = "answered" /\ stray[c] # {} =>
                            \E a \in Delegates!Chosen(c) : work[c][a] = "expired"
    BY DEF Delegates!MutatorsWorkAlone, Busy, Ordered, Listed
  <2>1. Delegates!Cardinality(Busy(c)) = Cardinality(Busy(c))
    BY DEF Delegates!Cardinality, Cardinality
  <2>2. Busy(c) = {} \/ \E a \in Busy(c) : Busy(c) = {a}
    BY DEF DelegatesInv, AloneBook
  <2>3. Cardinality(Busy(c)) <= 1
    <3>1. CASE Busy(c) = {}
      BY <3>1, FS_EmptySet
    <3>2. ASSUME NEW a \in Busy(c), Busy(c) = {a} PROVE Cardinality(Busy(c)) = 1
      BY <3>2, FS_Singleton
    <3>3. QED BY <2>2, <3>1, <3>2
  <2>4. Ordered(c) /\ StrayOnly(c) /\ AnswerIsWhole(c)
    BY DEF StrayBook, StrayOf
  <2>5. call[c].phase = "answered" /\ stray[c] # {} =>
           \E a \in Delegates!Chosen(c) : work[c][a] = "expired"
    BY <2>4 DEF StrayOnly, AnswerIsWhole
  <2>6. QED BY <2>1, <2>3, <2>4, <2>5 DEF DelegatesInv, AloneBook
<1>2. QED BY <1>1, DelegatesAlways, PTL

-----------------------------------------------------------------------------
(* What the session remembers of large inputs.  An artifact is settled when *)
(* it is complete and nobody stores it any more; a session, saved, in       *)
(* memory or about to be either, names settled artifacts only.              *)

Stores(t) == job[t].at \in {"ingest", "externalize", "chunk", "index", "persist"}

Settled ==
    {a \in Artifact : /\ artifact[a] = "complete"
                      /\ \A t \in Thread : Stores(t) => job[t].of # a}

Sound(s, settled) ==
    /\ \A i \in DOMAIN s.refs : s.refs[i] \in settled
    /\ \A i, j \in DOMAIN s.refs : s.refs[i] = s.refs[j] => i = j
    /\ Len(s.refs) <= MaxRefs

SessionBook ==
    /\ disk # Nothing => Sound(disk, Settled)
    /\ \A p \in Process : memory[p] # Nothing => Sound(memory[p], Settled)
    /\ \A t \in Thread : job[t].at = "remember" =>
          job[t].state \in Context!Session /\ Sound(job[t].state, Settled)

(* Each artifact is stored by one thread of a process that is up, and is    *)
(* complete before it is cut into chunks.                                   *)
StoreBook ==
    \A t \in Thread :
        /\ job[t].at # "idle" => memory[Home[t]] # Nothing
        /\ Stores(t) => job[t].of \in Artifact /\ artifact[job[t].of] # "none"
        /\ job[t].at \in {"chunk", "index", "persist"} =>
              artifact[job[t].of] = "complete"
        /\ \A u \in Thread : Stores(t) /\ Stores(u) /\ job[t].of = job[u].of => t = u

IndexBook == \A p \in Process : \A a \in storeIndex[p] : artifact[a] = "complete"

ContextInv == Context!TypeOK /\ SessionBook /\ StoreBook /\ IndexBook

LEMMA SoundStays ==
    ASSUME NEW s, NEW before, NEW after, Sound(s, before), before \subseteq after
    PROVE  Sound(s, after)
BY DEF Sound

LEMMA EmptyIsSound ==
    ASSUME Context!HomeAssumption, NEW settled
    PROVE  /\ Context!EmptySession \in Context!Session
           /\ Sound(Context!EmptySession, settled)
<1>1. /\ Context!EmptySession.refs = <<>> /\ Len(<<>>) = 0 /\ DOMAIN <<>> = {}
      /\ MaxRefs \in Nat
  BY DEF Context!EmptySession, Context!HomeAssumption
<1>2. Sound(Context!EmptySession, settled)
  BY <1>1 DEF Sound
<1>3. Context!EmptySession \in Context!Session
  BY DEF Context!EmptySession, Context!Session, Context!HomeAssumption
<1>4. QED BY <1>2, <1>3

LEMMA ContextStart == Context!HomeAssumption /\ Context!Init => ContextInv
<1> SUFFICES ASSUME Context!HomeAssumption, Context!Init PROVE ContextInv
  OBVIOUS
<1>1. /\ artifact = [a \in Artifact |-> "none"] /\ disk = Nothing
      /\ memory = [p \in Process |-> Nothing] /\ storeIndex = [p \in Process |-> {}]
      /\ job = [t \in Thread |-> Context!Idle]
  BY DEF Context!Init
<1>2. Context!Idle \in Context!Job /\ Context!Idle.at = "idle"
  BY DEF Context!Idle, Context!Job
<1>3. Context!TypeOK
  BY <1>1, <1>2 DEF Context!TypeOK
<1>4. \A t \in Thread : job[t].at = "idle"
  BY <1>1, <1>2
<1>5. SessionBook /\ StoreBook /\ IndexBook
  BY <1>1, <1>4 DEF SessionBook, StoreBook, IndexBook, Stores
<1>6. QED BY <1>3, <1>5 DEF ContextInv

(* The two ways in which a job goes on.                                     *)
LEMMA ContinueIs ==
    ASSUME ContextInv, NEW t \in Thread,
           NEW at \in {"chunk", "index", "persist"}, Context!Continue(t, at)
    PROVE  /\ job' \in [Thread -> Context!Job]
           /\ job'[t].at = at /\ job'[t].of = job[t].of /\ job'[t].state = job[t].state
           /\ \A u \in Thread : u # t => job'[u] = job[u]
BY DEF ContextInv, Context!TypeOK, Context!Job, Context!Continue

LEMMA LeaveIs ==
    ASSUME ContextInv, NEW t \in Thread, Context!Leave(t)
    PROVE  /\ job' \in [Thread -> Context!Job] /\ job'[t].at = "idle"
           /\ \A u \in Thread : u # t => job'[u] = job[u]
<1>1. Context!Idle \in Context!Job /\ Context!Idle.at = "idle"
  BY DEF Context!Idle, Context!Job
<1>2. QED BY <1>1 DEF ContextInv, Context!TypeOK, Context!Leave

(* What leaves the sessions and the incomplete artifacts of others alone    *)
(* keeps what the sessions name.                                            *)
LEMMA SessionsStay ==
    ASSUME SessionBook, Settled \subseteq Settled', disk' = disk, memory' = memory,
           \A t \in Thread : job'[t].at = "remember" =>
               job[t].at = "remember" /\ job'[t].state = job[t].state
    PROVE  SessionBook'
<1>1. ASSUME disk' # Nothing PROVE Sound(disk', Settled')
  BY <1>1, SoundStays DEF SessionBook
<1>2. ASSUME NEW p \in Process, memory'[p] # Nothing PROVE Sound(memory'[p], Settled')
  BY <1>2, SoundStays DEF SessionBook
<1>3. ASSUME NEW t \in Thread, job'[t].at = "remember"
      PROVE  job'[t].state \in Context!Session /\ Sound(job'[t].state, Settled')
  BY <1>3, SoundStays DEF SessionBook
<1>4. QED BY <1>1, <1>2, <1>3 DEF SessionBook

(* A step of one thread's job that touches no artifact and no session.      *)
LEMMA JobStepKeeps ==
    ASSUME Context!HomeAssumption, ContextInv, NEW t \in Thread,
           \/ Context!AfterPut(t) \/ Context!ChunkingFails(t) \/ Context!Chunked(t)
           \/ Context!IndexChunks(t) \/ Context!SaveFails(t)
    PROVE  ContextInv'
<1> USE DEF ContextInv
<1>1. UNCHANGED <<artifact, disk, memory>>
  BY DEF Context!AfterPut, Context!ChunkingFails, Context!Chunked, Context!IndexChunks,
         Context!SaveFails
<1>2. /\ job[t].at \in {"ingest", "externalize", "chunk", "index", "persist"}
      /\ job[t].at \in {"ingest", "externalize"} => artifact[job[t].of] = "complete"
  BY DEF Context!AfterPut, Context!ChunkingFails, Context!Chunked, Context!IndexChunks,
         Context!SaveFails, Context!Written, Context!Putting, Context!Complete
<1>3. /\ job' \in [Thread -> Context!Job]
      /\ \A u \in Thread : u # t => job'[u] = job[u]
      /\ \/ job'[t].at = "idle"
         \/ job'[t].at \in {"chunk", "index", "persist"} /\ job'[t].of = job[t].of
  BY ContinueIs, LeaveIs
     DEF Context!AfterPut, Context!ChunkingFails, Context!Chunked, Context!IndexChunks,
         Context!SaveFails
<1>4. artifact[job[t].of] = "complete" /\ Stores(t)
  BY <1>2 DEF StoreBook, Stores
<1>5. /\ storeIndex' \in [Process -> SUBSET Artifact]
      /\ \A p \in Process : storeIndex'[p] \subseteq storeIndex[p] \cup {job[t].of}
  <2>1. job[t].of \in Artifact /\ Home[t] \in Process
    BY <1>4 DEF StoreBook, Context!HomeAssumption
  <2>2. storeIndex' = storeIndex \/ storeIndex' = [storeIndex EXCEPT ![Home[t]] = @ \cup {job[t].of}]
    BY DEF Context!AfterPut, Context!ChunkingFails, Context!Chunked,
           Context!IndexChunks, Context!SaveFails
  <2>3. QED BY <2>1, <2>2 DEF Context!TypeOK
<1>6. Context!TypeOK'
  BY <1>1, <1>3, <1>5 DEF Context!TypeOK
<1>7. \A u \in Thread : Stores(u)' => Stores(u) /\ job'[u].of = job[u].of
  BY <1>3, <1>4 DEF Stores
<1>8. Settled \subseteq Settled'
  BY <1>1, <1>7 DEF Settled
<1>9. SessionBook'
  BY <1>1, <1>3, <1>8, SessionsStay
<1>10. StoreBook'
  <2>1. ASSUME NEW u \in Thread
        PROVE  /\ job'[u].at # "idle" => memory'[Home[u]] # Nothing
               /\ Stores(u)' => job'[u].of \in Artifact /\ artifact'[job'[u].of] # "none"
               /\ job'[u].at \in {"chunk", "index", "persist"} =>
                     artifact'[job'[u].of] = "complete"
    BY <1>1, <1>2, <1>3, <1>4, <1>7 DEF StoreBook
  <2>2. ASSUME NEW u \in Thread, NEW v \in Thread, Stores(u)', Stores(v)',
               job'[u].of = job'[v].of
        PROVE  u = v
    BY <1>7, <2>2 DEF StoreBook
  <2>3. QED BY <2>1, <2>2 DEF StoreBook
<1>11. IndexBook'
  BY <1>1, <1>4, <1>5 DEF IndexBook
<1>12. QED BY <1>6, <1>9, <1>10, <1>11

(* What a step of thread t's job leaves of the others' part of StoreBook.   *)
LEMMA StoresStay ==
    ASSUME ContextInv, NEW t \in Thread,
           \A u \in Thread : u # t => job'[u] = job[u],
           \A a \in Artifact : artifact'[a] # artifact[a] =>
               (Stores(t)' /\ a = job'[t].of) \/ (Stores(t) /\ a = job[t].of),
           \A p \in Process : memory[p] # Nothing => memory'[p] # Nothing,
           Home \in [Thread -> Process],
           job'[t].at # "idle" => memory'[Home[t]] # Nothing,
           Stores(t)' => /\ job'[t].of \in Artifact
                         /\ artifact'[job'[t].of] # "none"
                         /\ \/ Stores(t) /\ job'[t].of = job[t].of
                            \/ artifact[job'[t].of] = "none",
           job'[t].at \in {"chunk", "index", "persist"} =>
               artifact'[job'[t].of] = "complete"
    PROVE  StoreBook'
<1> USE DEF ContextInv
<1>1. \A u \in Thread : u # t => (Stores(u)' <=> Stores(u))
  BY DEF Stores
<1>2. ASSUME NEW u \in Thread, u # t, Stores(u)
      PROVE  /\ job[u].of \in Artifact /\ artifact'[job[u].of] = artifact[job[u].of]
             /\ Stores(t)' => job'[t].of # job[u].of
  <2>1. job[u].of \in Artifact /\ artifact[job[u].of] # "none"
    BY <1>2 DEF StoreBook
  <2>2. Stores(t) => job[t].of # job[u].of
    BY <1>2 DEF StoreBook
  <2>3. Stores(t)' => job'[t].of # job[u].of
    BY <2>1, <2>2
  <2>4. QED BY <2>1, <2>2, <2>3
<1>3. ASSUME NEW u \in Thread
      PROVE  /\ job'[u].at # "idle" => memory'[Home[u]] # Nothing
             /\ Stores(u)' => job'[u].of \in Artifact /\ artifact'[job'[u].of] # "none"
             /\ job'[u].at \in {"chunk", "index", "persist"} =>
                   artifact'[job'[u].of] = "complete"
  <2>1. CASE u = t
    BY <2>1
  <2>2. CASE u # t
    <3>1. job[u].at \in {"chunk", "index", "persist"} => Stores(u)
      BY DEF Stores
    <3>2. QED BY <1>1, <1>2, <2>2, <3>1 DEF StoreBook
  <2>3. QED BY <2>1, <2>2
<1>4. ASSUME NEW u \in Thread, NEW v \in Thread, Stores(u)', Stores(v)',
             job'[u].of = job'[v].of
      PROVE  u = v
  <2>1. CASE u = t \/ v = t
    BY <1>1, <1>2, <1>4, <2>1
  <2>2. CASE u # t /\ v # t
    BY <1>1, <1>4, <2>2 DEF StoreBook
  <2>3. QED BY <2>1, <2>2
<1>5. QED BY <1>3, <1>4 DEF StoreBook

LEMMA MakeKeeps ==
    ASSUME Context!HomeAssumption, ContextInv, NEW t \in Thread, NEW a \in Artifact,
           NEW purpose \in {"ingest", "externalize"}, Context!Make(t, a, purpose)
    PROVE  ContextInv'
<1> USE DEF ContextInv
<1>1. /\ memory[Home[t]] # Nothing /\ job[t] = Context!Idle /\ artifact[a] = "none"
      /\ artifact' = [artifact EXCEPT ![a] = "made"]
      /\ job' = [job EXCEPT ![t] = [at |-> purpose, of |-> a, state |-> Nothing]]
      /\ UNCHANGED <<disk, memory, storeIndex>>
  BY DEF Context!Make, Context!Free
<1>2. [at |-> purpose, of |-> a, state |-> Nothing] \in Context!Job
  BY DEF Context!Job
<1>3. /\ job' \in [Thread -> Context!Job]
      /\ job'[t].at = purpose /\ job'[t].of = a
      /\ \A u \in Thread : u # t => job'[u] = job[u]
  BY <1>1, <1>2 DEF Context!TypeOK
<1>4. /\ artifact' \in [Artifact -> {"none", "made", "payload", "described", "complete"}]
      /\ artifact'[a] = "made" /\ \A b \in Artifact : b # a => artifact'[b] = artifact[b]
  BY <1>1 DEF Context!TypeOK
<1>5. Context!TypeOK'
  BY <1>1, <1>3, <1>4 DEF Context!TypeOK
<1>6. Settled \subseteq Settled'
  BY <1>1, <1>3, <1>4 DEF Settled, Stores
<1>7. SessionBook'
  <2>1. \A u \in Thread : job'[u].at = "remember" =>
           job[u].at = "remember" /\ job'[u].state = job[u].state
    BY <1>3
  <2>2. QED BY <1>1, <1>6, <2>1, SessionsStay
<1>8. StoreBook'
  <2>1. Stores(t)'
    BY <1>3 DEF Stores
  <2>2. /\ Home \in [Thread -> Process] /\ memory'[Home[t]] # Nothing
        /\ job'[t].at \notin {"chunk", "index", "persist"}
    BY <1>1, <1>3 DEF Context!HomeAssumption
  <2>3. QED BY <1>1, <1>3, <1>4, <2>1, <2>2, StoresStay
<1>9. IndexBook'
  BY <1>1, <1>4 DEF IndexBook, Context!TypeOK
<1>10. QED BY <1>5, <1>7, <1>8, <1>9

LEMMA WriteKeeps ==
    ASSUME Context!HomeAssumption, ContextInv, NEW t \in Thread,
           Context!WritePart(t) \/ Context!WriteFails(t)
    PROVE  ContextInv'
<1> USE DEF ContextInv
<1> DEFINE a == job[t].of
<1>1. /\ job[t].at \in {"ingest", "externalize"} /\ artifact[a] # "complete"
      /\ UNCHANGED <<disk, memory, storeIndex>>
  BY DEF Context!WritePart, Context!WriteFails, Context!Putting, Context!Complete
<1>2. Stores(t) /\ a \in Artifact /\ artifact[a] \in {"made", "payload", "described"}
      /\ memory[Home[t]] # Nothing
  BY <1>1 DEF Stores, StoreBook, Context!TypeOK
<1>3. \/ job' = job /\ \E far \in {"payload", "described", "complete"} :
                          artifact' = [artifact EXCEPT ![a] = far]
      \/ Context!Leave(t) /\ artifact' = [artifact EXCEPT ![a] = "none"]
  <2>1. Context!NextPart[artifact[a]] \in {"payload", "described", "complete"}
    BY <1>2 DEF Context!NextPart
  <2>2. QED BY <2>1 DEF Context!WritePart, Context!WriteFails
<1>4. /\ artifact' \in [Artifact -> {"none", "made", "payload", "described", "complete"}]
      /\ \A b \in Artifact : b # a => artifact'[b] = artifact[b]
  BY <1>2, <1>3 DEF Context!TypeOK
<1>5. /\ job' \in [Thread -> Context!Job]
      /\ \A u \in Thread : u # t => job'[u] = job[u]
      /\ \/ job'[t] = job[t] /\ artifact'[a] # "none"
         \/ job'[t] = Context!Idle /\ job'[t].at = "idle"
  <2>1. CASE job' = job
    <3>1. artifact'[a] # "none"
      <4>1. CASE Context!Leave(t)
        <5>1. job[t].at = "idle"
          BY <2>1, <4>1, LeaveIs
        <5>2. QED BY <1>1, <5>1
      <4>2. QED BY <1>2, <1>3, <4>1 DEF Context!TypeOK
    <3>2. QED BY <2>1, <3>1 DEF Context!TypeOK
  <2>2. CASE Context!Leave(t)
    BY <2>2, LeaveIs DEF Context!TypeOK, Context!Leave
  <2>3. QED BY <1>3, <2>1, <2>2
<1> HIDE DEF a
<1>6. Context!TypeOK'
  BY <1>1, <1>4, <1>5 DEF Context!TypeOK
<1>7. \A u \in Thread : Stores(u)' => Stores(u) /\ job'[u].of = job[u].of
  BY <1>5 DEF Stores
<1>8. Settled \subseteq Settled'
  BY <1>1, <1>4, <1>7 DEF Settled
<1>9. SessionBook'
  <2>1. \A u \in Thread : job'[u].at = "remember" =>
           job[u].at = "remember" /\ job'[u].state = job[u].state
    BY <1>5
  <2>2. QED BY <1>1, <1>8, <2>1, SessionsStay
<1>10. StoreBook'
  <2>1. job'[t].at \notin {"chunk", "index", "persist"}
    BY <1>1, <1>5
  <2>2. Stores(t)' => job'[t] = job[t] /\ artifact'[a] # "none"
    BY <1>5 DEF Stores
  <2>3. QED BY <1>1, <1>2, <1>4, <1>5, <2>1, <2>2, StoresStay
               DEF Context!HomeAssumption, a
<1>11. IndexBook'
  BY <1>1, <1>4 DEF IndexBook, Context!TypeOK
<1>12. QED BY <1>6, <1>9, <1>10, <1>11

(* The session file is replaced by a state that names settled artifacts.    *)
LEMMA SaveKeeps ==
    ASSUME Context!HomeAssumption, ContextInv, NEW t \in Thread,
           NEW state \in Context!Session, Context!Save(t, state),
           memory[Home[t]] # Nothing, job[t].at \in {"idle", "persist"},
           Sound(state, Settled) \/ Sound(state, Settled')
    PROVE  ContextInv'
<1> USE DEF ContextInv
<1>1. /\ disk' = state /\ UNCHANGED <<artifact, memory, storeIndex>>
      /\ job' = [job EXCEPT ![t].at = "remember", ![t].state = state]
  BY DEF Context!Save
<1>2. /\ job' \in [Thread -> Context!Job]
      /\ job'[t].at = "remember" /\ job'[t].state = state
      /\ \A u \in Thread : u # t => job'[u] = job[u]
  BY <1>1 DEF Context!TypeOK, Context!Job
<1>3. Context!TypeOK'
  BY <1>1, <1>2 DEF Context!TypeOK
<1>4. /\ ~ Stores(t)'
      /\ \A u \in Thread : Stores(u)' => Stores(u) /\ job'[u] = job[u]
  BY <1>2 DEF Stores
<1>5. Settled \subseteq Settled'
  BY <1>1, <1>4 DEF Settled
<1>6. Sound(state, Settled')
  BY <1>5, SoundStays
<1>7. SessionBook'
  <2>1. Sound(disk', Settled')
    BY <1>1, <1>6
  <2>2. ASSUME NEW p \in Process, memory'[p] # Nothing PROVE Sound(memory'[p], Settled')
    BY <1>1, <1>5, <2>2, SoundStays DEF SessionBook
  <2>3. ASSUME NEW u \in Thread, job'[u].at = "remember"
        PROVE  job'[u].state \in Context!Session /\ Sound(job'[u].state, Settled')
    BY <1>2, <1>5, <1>6, <2>3, SoundStays DEF SessionBook
  <2>4. QED BY <2>1, <2>2, <2>3 DEF SessionBook
<1>8. StoreBook'
  BY <1>1, <1>2, <1>4 DEF StoreBook
<1>9. IndexBook'
  BY <1>1 DEF IndexBook
<1>10. QED BY <1>3, <1>7, <1>8, <1>9

LEMMA PersistKeeps ==
    ASSUME Context!HomeAssumption, ContextInv, NEW t \in Thread, Context!Persist(t)
    PROVE  ContextInv'
<1> USE DEF ContextInv
<1> DEFINE known == memory[Home[t]]
           a == job[t].of
           refs == Append(known.refs, a)
           state == [known EXCEPT !.refs = refs]
<1>1. job[t].at = "persist" /\ Len(refs) <= MaxRefs /\ Context!Save(t, state)
  BY DEF Context!Persist
<1>2. Stores(t) /\ a \in Artifact /\ artifact[a] = "complete" /\ known # Nothing
  BY <1>1 DEF Stores, StoreBook
<1>3. Home[t] \in Process
  BY DEF Context!HomeAssumption
<1>4. known \in Context!Session /\ Sound(known, Settled)
  BY <1>2, <1>3 DEF Context!TypeOK, SessionBook
<1> HIDE DEF known, a
<1>5. known.refs \in Seq(Artifact) /\ Len(known.refs) \in Nat
  BY <1>4 DEF Context!Session
<1>6. /\ refs \in Seq(Artifact) /\ DOMAIN refs = 1..(Len(known.refs) + 1)
      /\ \A i \in 1..Len(known.refs) : refs[i] = known.refs[i]
      /\ refs[Len(known.refs) + 1] = a
  BY <1>2, <1>5
<1> HIDE DEF refs
<1>7. state \in Context!Session /\ state.refs = refs
  BY <1>4, <1>6 DEF Context!Session
<1> HIDE DEF state
<1>8. a \notin Settled
  BY <1>2 DEF Settled, a
<1>9. Settled \cup {a} \subseteq Settled'
  <2>1. /\ artifact' = artifact /\ job'[t].at = "remember"
        /\ \A u \in Thread : u # t => job'[u] = job[u]
    BY <1>1 DEF Context!Save, Context!TypeOK, Context!Job
  <2>2. \A u \in Thread : Stores(u)' => u # t /\ Stores(u) /\ job'[u].of = job[u].of
    BY <2>1 DEF Stores
  <2>3. \A u \in Thread : u # t /\ Stores(u) => job[u].of # a
    BY <1>2 DEF StoreBook, a
  <2>4. QED BY <1>2, <2>1, <2>2, <2>3 DEF Settled
<1>10. Sound(state, Settled')
  <2>1. ASSUME NEW i \in DOMAIN refs
        PROVE  /\ refs[i] \in Settled'
               /\ i # Len(known.refs) + 1 => i \in 1..Len(known.refs) /\ refs[i] # a
    <3>1. CASE i = Len(known.refs) + 1
      BY <1>6, <1>9, <3>1
    <3>2. CASE i # Len(known.refs) + 1
      <4>1. i \in 1..Len(known.refs) /\ i \in DOMAIN known.refs
        BY <1>5, <1>6, <3>2
      <4>2. refs[i] \in Settled
        BY <1>4, <1>6, <4>1 DEF Sound
      <4>3. QED BY <1>8, <1>9, <4>1, <4>2
    <3>3. QED BY <3>1, <3>2
  <2>2. ASSUME NEW i \in DOMAIN refs, NEW j \in DOMAIN refs, refs[i] = refs[j]
        PROVE  i = j
    <3>1. CASE i = Len(known.refs) + 1 \/ j = Len(known.refs) + 1
      BY <1>6, <2>1, <2>2, <3>1
    <3>2. CASE i # Len(known.refs) + 1 /\ j # Len(known.refs) + 1
      <4>1. /\ i \in DOMAIN known.refs /\ j \in DOMAIN known.refs
            /\ refs[i] = known.refs[i] /\ refs[j] = known.refs[j]
        BY <1>5, <1>6, <2>1, <3>2
      <4>2. QED BY <1>4, <2>2, <4>1 DEF Sound
    <3>3. QED BY <3>1, <3>2
  <2>3. QED BY <1>1, <1>7, <2>1, <2>2 DEF Sound
<1>11. QED BY <1>1, <1>2, <1>7, <1>10, SaveKeeps DEF known

LEMMA RecordUsageKeeps ==
    ASSUME Context!HomeAssumption, ContextInv, NEW t \in Thread, Context!RecordUsage(t)
    PROVE  ContextInv'
<1> USE DEF ContextInv
<1> DEFINE known == memory[Home[t]]
           state == [known EXCEPT !.usage = @ + 1]
<1>1. /\ known # Nothing /\ job[t] = Context!Idle /\ known.usage < MaxUsage
      /\ Context!Save(t, state)
  BY DEF Context!RecordUsage, Context!Free
<1>2. known \in Context!Session /\ Sound(known, Settled)
  BY <1>1 DEF Context!TypeOK, SessionBook, Context!HomeAssumption
<1>3. job[t].at = "idle"
  BY <1>1 DEF Context!Idle
<1> HIDE DEF known
<1>4. state \in Context!Session /\ state.refs = known.refs
  BY <1>1, <1>2 DEF Context!Session, Context!HomeAssumption
<1> HIDE DEF state
<1>5. Sound(state, Settled)
  BY <1>2, <1>4 DEF Sound
<1>6. QED BY <1>1, <1>3, <1>4, <1>5, SaveKeeps DEF known

LEMMA RememberKeeps ==
    ASSUME Context!HomeAssumption, ContextInv, NEW t \in Thread, Context!Remember(t)
    PROVE  ContextInv'
<1> USE DEF ContextInv
<1>1. /\ job[t].at = "remember" /\ Context!Leave(t)
      /\ memory' = [memory EXCEPT ![Home[t]] = job[t].state]
      /\ UNCHANGED <<artifact, disk, storeIndex>>
  BY DEF Context!Remember
<1>2. job[t].state \in Context!Session /\ Sound(job[t].state, Settled)
  BY <1>1 DEF SessionBook
<1>3. /\ job' \in [Thread -> Context!Job] /\ job'[t].at = "idle"
      /\ \A u \in Thread : u # t => job'[u] = job[u]
  BY <1>1, LeaveIs
<1>4. /\ memory' \in [Process -> Context!Session \cup {Nothing}]
      /\ memory'[Home[t]] = job[t].state
      /\ \A p \in Process : p # Home[t] => memory'[p] = memory[p]
      /\ memory'[Home[t]] # Nothing
  BY <1>1, <1>2 DEF Context!TypeOK, Context!HomeAssumption
<1>5. Context!TypeOK'
  BY <1>1, <1>3, <1>4 DEF Context!TypeOK
<1>6. \A u \in Thread : Stores(u)' => Stores(u) /\ job'[u] = job[u]
  BY <1>3 DEF Stores
<1>7. Settled \subseteq Settled'
  BY <1>1, <1>6 DEF Settled
<1>8. SessionBook'
  <2>1. ASSUME disk' # Nothing PROVE Sound(disk', Settled')
    BY <1>1, <1>7, <2>1, SoundStays DEF SessionBook
  <2>2. ASSUME NEW p \in Process, memory'[p] # Nothing PROVE Sound(memory'[p], Settled')
    BY <1>2, <1>4, <1>7, <2>2, SoundStays DEF SessionBook
  <2>3. ASSUME NEW u \in Thread, job'[u].at = "remember"
        PROVE  job'[u].state \in Context!Session /\ Sound(job'[u].state, Settled')
    BY <1>3, <1>7, <2>3, SoundStays DEF SessionBook
  <2>4. QED BY <2>1, <2>2, <2>3 DEF SessionBook
<1>9. StoreBook'
  <2>1. \A u \in Thread : job'[u].at # "idle" => u # t /\ job'[u] = job[u]
    BY <1>3
  <2>2. \A u \in Thread : job'[u].at # "idle" => memory'[Home[u]] # Nothing
    BY <1>4, <2>1 DEF StoreBook, Context!HomeAssumption
  <2>3. QED BY <1>1, <1>6, <2>1, <2>2 DEF StoreBook
<1>10. IndexBook'
  BY <1>1 DEF IndexBook
<1>11. QED BY <1>5, <1>8, <1>9, <1>10

LEMMA OpenKeeps ==
    ASSUME Context!HomeAssumption, ContextInv, NEW p \in Process, Context!Open(p)
    PROVE  ContextInv'
<1> USE DEF ContextInv
<1>1. /\ disk' = (IF disk = Nothing THEN Context!EmptySession ELSE disk)
      /\ memory' = [memory EXCEPT ![p] = disk']
      /\ UNCHANGED <<artifact, storeIndex, job>>
  BY DEF Context!Open
<1>2. Settled' = Settled
  BY <1>1 DEF Settled, Stores
<1>3. disk' \in Context!Session /\ Sound(disk', Settled) /\ disk' # Nothing
  BY <1>1, EmptyIsSound DEF Context!TypeOK, SessionBook, Context!HomeAssumption
<1>4. /\ memory' \in [Process -> Context!Session \cup {Nothing}]
      /\ memory'[p] = disk' /\ \A q \in Process : q # p => memory'[q] = memory[q]
  BY <1>1, <1>3 DEF Context!TypeOK
<1>5. Context!TypeOK'
  BY <1>1, <1>3, <1>4 DEF Context!TypeOK
<1>6. SessionBook'
  BY <1>1, <1>2, <1>3, <1>4 DEF SessionBook
<1>7. StoreBook' /\ IndexBook'
  <2>1. \A u \in Thread : memory[Home[u]] # Nothing => memory'[Home[u]] # Nothing
    BY <1>3, <1>4 DEF Context!HomeAssumption
  <2>2. QED BY <1>1, <2>1 DEF StoreBook, IndexBook, Stores
<1>8. QED BY <1>5, <1>6, <1>7

(* A process dies: its memory and its jobs are gone, the files stay.        *)
LEMMA DiesKeeps ==
    ASSUME Context!HomeAssumption, ContextInv, NEW p \in Process, Context!Dies(p)
    PROVE  ContextInv'
<1> USE DEF ContextInv
<1>1. /\ memory' = [memory EXCEPT ![p] = Nothing]
      /\ storeIndex' = [storeIndex EXCEPT ![p] = {}]
      /\ job' = [t \in Thread |-> IF Home[t] = p THEN Context!Idle ELSE job[t]]
      /\ UNCHANGED <<artifact, disk>>
  BY DEF Context!Dies
<1>2. Context!Idle \in Context!Job /\ Context!Idle.at = "idle"
  BY DEF Context!Idle, Context!Job
<1>3. /\ job' \in [Thread -> Context!Job]
      /\ \A t \in Thread : job'[t].at = "idle" \/ (Home[t] # p /\ job'[t] = job[t])
  BY <1>1, <1>2 DEF Context!TypeOK
<1>4. /\ memory' \in [Process -> Context!Session \cup {Nothing}]
      /\ memory'[p] = Nothing /\ \A q \in Process : q # p => memory'[q] = memory[q]
      /\ storeIndex' \in [Process -> SUBSET Artifact]
      /\ \A q \in Process : storeIndex'[q] \subseteq storeIndex[q]
  BY <1>1 DEF Context!TypeOK
<1>5. Context!TypeOK'
  BY <1>1, <1>3, <1>4 DEF Context!TypeOK
<1>6. \A t \in Thread : Stores(t)' => Stores(t) /\ Home[t] # p /\ job'[t] = job[t]
  BY <1>3 DEF Stores
<1>7. Settled \subseteq Settled'
  BY <1>1, <1>6 DEF Settled
<1>8. SessionBook'
  <2>1. ASSUME disk' # Nothing PROVE Sound(disk', Settled')
    BY <1>1, <1>7, <2>1, SoundStays DEF SessionBook
  <2>2. ASSUME NEW q \in Process, memory'[q] # Nothing PROVE Sound(memory'[q], Settled')
    BY <1>4, <1>7, <2>2, SoundStays DEF SessionBook
  <2>3. ASSUME NEW u \in Thread, job'[u].at = "remember"
        PROVE  job'[u].state \in Context!Session /\ Sound(job'[u].state, Settled')
    BY <1>3, <1>7, <2>3, SoundStays DEF SessionBook
  <2>4. QED BY <2>1, <2>2, <2>3 DEF SessionBook
<1>9. StoreBook'
  <2>1. \A t \in Thread : job'[t].at # "idle" => memory'[Home[t]] # Nothing
    BY <1>3, <1>4 DEF StoreBook, Context!HomeAssumption
  <2>2. \A t \in Thread : job'[t].at \in {"chunk", "index", "persist"} =>
           artifact'[job'[t].of] = "complete"
    BY <1>1, <1>3 DEF StoreBook
  <2>3. \A t \in Thread : Stores(t)' => /\ job'[t].of \in Artifact
                                        /\ artifact'[job'[t].of] # "none"
    BY <1>1, <1>6 DEF StoreBook
  <2>4. \A t, u \in Thread : Stores(t)' /\ Stores(u)' /\ job'[t].of = job'[u].of => t = u
    BY <1>6 DEF StoreBook
  <2>5. QED BY <2>1, <2>2, <2>3, <2>4 DEF StoreBook
<1>10. IndexBook'
  BY <1>1, <1>4 DEF IndexBook
<1>11. QED BY <1>5, <1>8, <1>9, <1>10

LEMMA ContextKeeps ==
    ASSUME Context!HomeAssumption, ContextInv, [Context!Next]_(Context!vars)
    PROVE  ContextInv'
<1>1. CASE UNCHANGED Context!vars
  BY <1>1 DEF ContextInv, Context!TypeOK, SessionBook, StoreBook, IndexBook, Settled,
              Stores, Context!vars
<1>2. QED
  BY <1>1, OpenKeeps, DiesKeeps, MakeKeeps, WriteKeeps, JobStepKeeps, PersistKeeps,
     RecordUsageKeeps, RememberKeeps DEF Context!Next

LEMMA ContextAlways == Context!HomeAssumption => (Context!Spec => []ContextInv)
<1> SUFFICES ASSUME Context!HomeAssumption PROVE Context!Spec => []ContextInv
  OBVIOUS
<1>1. Context!Init => ContextInv
  BY ContextStart
<1>2. ContextInv /\ [Context!Next]_(Context!vars) => ContextInv'
  BY ContextKeeps
<1>3. QED BY <1>1, <1>2, PTL DEF Context!Spec

(* What a session file, a process's memory or its index names can be read   *)
(* in full and is named once, and no session is past its limit, for any     *)
(* number of processes, threads and artifacts, wherever a process dies or a *)
(* write fails.  (ContextEngine, ArtifactStore.put, SessionStateStore.)     *)
THEOREM NamedIsKept ==
    Context!HomeAssumption => (Context!Spec => []Context!NamedIsReadable)
<1> SUFFICES ASSUME Context!HomeAssumption
             PROVE  Context!Spec => []Context!NamedIsReadable
  OBVIOUS
<1>1. ContextInv => Context!NamedIsReadable
  <2> SUFFICES ASSUME ContextInv PROVE Context!NamedIsReadable
    OBVIOUS
  <2>1. \A p \in Process : \A a \in storeIndex[p] : Context!Complete(a)
    BY DEF ContextInv, IndexBook, Context!Complete
  <2>2. ASSUME NEW s, Sound(s, Settled)
        PROVE  /\ \A a \in Context!ToSet(s.refs) : Context!Complete(a)
               /\ Context!IsInjective(s.refs) /\ Len(s.refs) <= MaxRefs
    <3>1. \A a \in Context!ToSet(s.refs) : Context!Complete(a)
      BY <2>2 DEF Sound, Settled, Context!ToSet, Context!Complete
    <3>2. QED BY <2>2, <3>1 DEF Sound, Context!IsInjective
  <2>3. \A s \in ({disk} \cup {memory[p] : p \in Process}) \ {Nothing} :
           Sound(s, Settled)
    BY DEF ContextInv, SessionBook
  <2>4. QED BY <2>1, <2>2, <2>3 DEF Context!NamedIsReadable
<1>2. QED BY <1>1, ContextAlways, PTL

-----------------------------------------------------------------------------
(* The runtime.  A step of it is a step of the part that the behaviour      *)
(* belongs to, so that what holds of that part by itself holds here.        *)

LEMMA ModelBehaviour == RuntimeSpec => []~Runs("model") \/ Model!Spec
<1>1. RuntimeInit => ~Runs("model") \/ Model!Init
  BY DEF RuntimeInit, Runs
<1>2. [RuntimeNext]_runtime =>
        \/ ~Runs("model") /\ ~Runs("model")'
        \/ Runs("model") /\ Runs("model")' /\ [Model!Next]_(Model!modelRequestVars)
  BY OnePart DEF Runs
<1>3. QED BY <1>1, <1>2, PTL DEF RuntimeSpec, Model!Spec

LEMMA ChecksBehaviour == RuntimeSpec => []~Runs("checkpoints") \/ Checks!Spec
<1>1. RuntimeInit => ~Runs("checkpoints") \/ Checks!Init
  BY DEF RuntimeInit, Runs
<1>2. [RuntimeNext]_runtime =>
        \/ ~Runs("checkpoints") /\ ~Runs("checkpoints")'
        \/ Runs("checkpoints") /\ Runs("checkpoints")' /\ [Checks!Next]_(Checks!vars)
  BY OnePart DEF Runs
<1>3. QED BY <1>1, <1>2, PTL DEF RuntimeSpec, Checks!Spec

LEMMA ToolsBehaviour == RuntimeSpec => []~Runs("tools") \/ Tools!Spec
<1>1. RuntimeInit => ~Runs("tools") \/ Tools!Init
  BY DEF RuntimeInit, Runs
<1>2. [RuntimeNext]_runtime =>
        \/ ~Runs("tools") /\ ~Runs("tools")'
        \/ Runs("tools") /\ Runs("tools")' /\ [Tools!Next]_(Tools!vars)
  BY OnePart DEF Runs
<1>3. QED BY <1>1, <1>2, PTL DEF RuntimeSpec, Tools!Spec

LEMMA BoardBehaviour == RuntimeSpec => []~Runs("board") \/ Board!Spec
<1>1. RuntimeInit => ~Runs("board") \/ Board!Init
  BY DEF RuntimeInit, Runs
<1>2. [RuntimeNext]_runtime =>
        \/ ~Runs("board") /\ ~Runs("board")'
        \/ Runs("board") /\ Runs("board")' /\ [Board!Next]_(Board!vars)
  BY OnePart DEF Runs
<1>3. QED BY <1>1, <1>2, PTL DEF RuntimeSpec, Board!Spec

LEMMA DelegatesBehaviour == RuntimeSpec => []~Runs("delegation") \/ Delegates!Spec
<1>1. RuntimeInit => ~Runs("delegation") \/ Delegates!Init
  BY DEF RuntimeInit, Runs
<1>2. [RuntimeNext]_runtime =>
        \/ ~Runs("delegation") /\ ~Runs("delegation")'
        \/ Runs("delegation") /\ Runs("delegation")' /\ [Delegates!Next]_(Delegates!delegationVars)
  BY OnePart DEF Runs
<1>3. QED BY <1>1, <1>2, PTL DEF RuntimeSpec, Delegates!Spec

LEMMA ContextBehaviour == RuntimeSpec => []~Runs("context") \/ Context!Spec
<1>1. RuntimeInit => ~Runs("context") \/ Context!Init
  BY DEF RuntimeInit, Runs
<1>2. [RuntimeNext]_runtime =>
        \/ ~Runs("context") /\ ~Runs("context")'
        \/ Runs("context") /\ Runs("context")' /\ [Context!Next]_(Context!vars)
  BY OnePart DEF Runs
<1>3. QED BY <1>1, <1>2, PTL DEF RuntimeSpec, Context!Spec

(* The terminal shows of an answer what is recorded of it, once, over stream *)
(* errors and retries of any number of agents; and only requests that are   *)
(* open have an indicator that turns.  (create_chat_completion_with_retry,  *)
(* TerminalEventConsumer.)                                                  *)
THEOREM AnswersAreShown == RuntimeSpec => []ShownIsTheAnswer
<1>1. Model!Spec => []Model!ShownIsTheAnswer /\ []Model!IndicatorsAreWaiting
  BY RuntimeAssumption, ShownAnswers, IndicatorsWait
<1>2. ~Runs("model") \/ (Model!ShownIsTheAnswer /\ Model!IndicatorsAreWaiting)
         => ShownIsTheAnswer
  BY DEF ShownIsTheAnswer, Runs
<1>3. QED BY <1>1, <1>2, ModelBehaviour, PTL

(* No step of a rollback writes over a file that is not what the tool of    *)
(* that checkpoint left, unless it was edited before its seal or since it   *)
(* was compared; for any files and number of checkpoints, tools at work at  *)
(* once, and crashes between any two steps.  (CheckpointManager.rollback.)  *)
THEOREM LaterEditsAreKept == RuntimeSpec => LaterEditsSurvive
<1>1. Checks!Spec => Checks!LaterEditsSurvive
  BY RuntimeAssumption, EditsAreKept
<1>2. UNCHANGED Checks!vars => Checks!EditsSurvive
  BY DEF Checks!vars, Checks!EditsSurvive
<1>3. \/ ~Runs("checkpoints")
      \/ [Checks!EditsSurvive]_(Checks!vars)
      => [part = "checkpoints" => Checks!EditsSurvive]_runtime
  BY <1>2 DEF Runs
<1>4. QED
  BY <1>1, <1>3, ChecksBehaviour, PTL DEF LaterEditsSurvive, Checks!LaterEditsSurvive

(* A tool call that is over has left no process, unless it was cancelled    *)
(* while the process was being stopped, and nothing that holds its pipes,   *)
(* unless a callback had failed.  (WorkspaceTools.execute_async.)           *)
THEOREM ProcessesAreOver == RuntimeSpec => []NoProcessIsLeft
<1>1. Tools!Spec => []Tools!NoProcessIsLeft
  BY RuntimeAssumption, NoProcessStays
<1>2. ~Runs("tools") \/ (Tools!NoProcessIsLeft)
         => NoProcessIsLeft
  BY DEF NoProcessIsLeft, Runs
<1>3. QED BY <1>1, <1>2, ToolsBehaviour, PTL

(* What the panel shows as running runs, over late events, three threads    *)
(* and any number of tools.  (TerminalTaskBoard.)                           *)
THEOREM PanelIsTrue == RuntimeSpec => []ShownRunningRuns
<1>1. Board!Spec => []Board!ShownRunningRuns
  BY ShownRuns
<1>2. ~Runs("board") \/ (Board!ShownRunningRuns)
         => ShownRunningRuns
  BY DEF ShownRunningRuns, Runs
<1>3. QED BY <1>1, <1>2, BoardBehaviour, PTL

(* A delegation that may mutate has at most one subagent at work, and none  *)
(* when it is over, and calls the agents it chose in order; a thread may    *)
(* outlive its subagent, but an answer with such a thread tells of a        *)
(* time-out.  For every registry of specialists and number of slots.        *)
(* (delegate_task.)                                                         *)
THEOREM MutatorsAreAlone == RuntimeSpec => []MutatorsWorkAlone
<1>1. Delegates!Spec => []Delegates!MutatorsWorkAlone
  BY RuntimeAssumption, WritersWorkAlone
<1>2. ~Runs("delegation") \/ (Delegates!MutatorsWorkAlone)
         => MutatorsWorkAlone
  BY DEF MutatorsWorkAlone, Runs
<1>3. QED BY <1>1, <1>2, DelegatesBehaviour, PTL

(* Every artifact that a session file, a memory or an index names can be    *)
(* read in full, over crashes between any two writes.  (ArtifactStore,      *)
(* ContextEngine.)                                                          *)
THEOREM NamedStaysReadable == RuntimeSpec => []NamedIsReadable
<1>1. Context!Spec => []Context!NamedIsReadable
  BY RuntimeAssumption, NamedIsKept
<1>2. ~Runs("context") \/ (Context!NamedIsReadable)
         => NamedIsReadable
  BY DEF NamedIsReadable, Runs
<1>3. QED BY <1>1, <1>2, ContextBehaviour, PTL

=============================================================================
