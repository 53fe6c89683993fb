---------------------------- MODULE ContextStore ----------------------------
(* Large inputs and what the session remembers of them: ContextEngine          *)
(* (runtime/context_engine.py) over the ArtifactStore (artifacts.py), the      *)
(* in-memory ChunkRetriever (retrieval.py) and the SessionStateStore           *)
(* (session_state.py).  Processes that work in the same workspace share the    *)
(* artifact directories and one session file; a process may die at any point,  *)
(* and memory dies with it.  Within a process the tools that read files run in *)
(* worker threads (asyncio.to_thread), several at a time, and nothing guards   *)
(* the engine they share.  A text is its artifact; its chunks are indexed and  *)
(* referenced together with it.                                                *)
EXTENDS Naturals, Sequences, SequencesExt, FiniteSets

CONSTANTS
  Process, Thread, Artifact,
  Home,       \* Thread -> the process it belongs to
  MaxRefs,    \* MAX_SESSION_ITEMS
  MaxUsage,   \* bound of the model: how many requests are counted
  Nothing

VARIABLES
  artifact,   \* Artifact -> how far its directory has been written
  disk,       \* the session file, or Nothing
  memory,     \* Process -> its SessionState, or Nothing while it is down
  index,      \* Process -> the artifacts its retriever has chunks of
  job         \* Thread -> the input it stores, the step it is at, the new state

vars == <<artifact, disk, memory, index, job>>

Session == [refs : Seq(Artifact), usage : 0..MaxUsage]
Job == [at : {"idle", "ingest", "externalize", "chunk", "index", "persist", "remember"},
        of : Artifact \cup {Nothing}, state : Session \cup {Nothing}]
Idle == [at |-> "idle", of |-> Nothing, state |-> Nothing]
EmptySession == [refs |-> <<>>, usage |-> 0]

HomeAssumption ==
  /\ Home \in [Thread -> Process] /\ MaxRefs \in Nat /\ MaxUsage \in Nat
  /\ Nothing \notin Session

TypeOK ==
  /\ artifact \in [Artifact -> {"none", "made", "payload", "described", "complete"}]
  /\ disk \in Session \cup {Nothing}
  /\ memory \in [Process -> Session \cup {Nothing}]
  /\ index \in [Process -> SUBSET Artifact]
  /\ job \in [Thread -> Job]

Init ==
  /\ artifact = [a \in Artifact |-> "none"] /\ disk = Nothing
  /\ memory = [p \in Process |-> Nothing]
  /\ index = [p \in Process |-> {}] /\ job = [t \in Thread |-> Idle]

Complete(a) == artifact[a] = "complete"
Continue(t, at) == job' = [job EXCEPT ![t].at = at]
Leave(t) == job' = [job EXCEPT ![t] = Idle]
Free(t) == memory[Home[t]] # Nothing /\ job[t] = Idle

-----------------------------------------------------------------------------
(* ContextEngine.__init__: load the session file or create it. *)
Open(p) ==
  /\ memory[p] = Nothing
  /\ disk' = IF disk = Nothing THEN EmptySession ELSE disk
  /\ memory' = [memory EXCEPT ![p] = disk']
  /\ UNCHANGED <<artifact, index, job>>

\* put under a fresh random identifier: for a large input of the operator or a
\* large file (ingest), or for a long result of a tool or of an MCP server.
Make(t, a, purpose) ==
  /\ Free(t) /\ artifact[a] = "none"
  /\ artifact' = [artifact EXCEPT ![a] = "made"]
  /\ job' = [job EXCEPT ![t] = [at |-> purpose, of |-> a, state |-> Nothing]]
  /\ UNCHANGED <<disk, memory, index>>

Putting(t) == job[t].at \in {"ingest", "externalize"}
NextPart == [made |-> "payload", payload |-> "described", described |-> "complete"]

\* payload.bin, metadata.json, then .complete, each replaced atomically.
WritePart(t) ==
  /\ Putting(t)
  /\ LET a == job[t].of IN
       /\ ~Complete(a)
       /\ artifact' = [artifact EXCEPT ![a] = NextPart[artifact[a]]]
  /\ UNCHANGED <<disk, memory, index, job>>

\* A write fails, or the preview or the metadata is refused: rmtree.
WriteFails(t) ==
  /\ Putting(t) /\ ~Complete(job[t].of)
  /\ artifact' = [artifact EXCEPT ![job[t].of] = "none"]
  /\ Leave(t) /\ UNCHANGED <<disk, memory, index>>

WrittenInPart(t) == Putting(t)         \* Faulty variant: does not wait for the marker
Written(t) == Putting(t) /\ Complete(job[t].of)

AfterPut(t) ==
  /\ Written(t)
  /\ IF job[t].at = "ingest" THEN Continue(t, "chunk") ELSE Leave(t)
  /\ UNCHANGED <<artifact, disk, memory, index>>

\* The structure is refused (IngestionLimitError): the artifact stays, unknown
\* to the session.
ChunkingFails(t) ==
  /\ job[t].at = "chunk" /\ Leave(t)
  /\ UNCHANGED <<artifact, disk, memory, index>>

Chunked(t) ==
  /\ job[t].at = "chunk" /\ Continue(t, "index")
  /\ UNCHANGED <<artifact, disk, memory, index>>

IndexChunks(t) ==
  /\ job[t].at = "index" /\ Continue(t, "persist")
  /\ index' = [index EXCEPT ![Home[t]] = @ \cup {job[t].of}]
  /\ UNCHANGED <<artifact, disk, memory>>

\* save(state) writes the file; only then does the engine keep the state.  Two
\* threads in between each build theirs on the same old one.
Save(t, state) ==
  /\ disk' = state
  /\ job' = [job EXCEPT ![t].at = "remember", ![t].state = state]
  /\ UNCHANGED <<artifact, memory, index>>

\* _persist_ingestion: reference, advance the turn, save.  The number of
\* references is only checked when the state is saved: past the limit the save
\* raises, and the artifact and its chunks stay where they are.
Persist(t) ==
  LET known == memory[Home[t]]
      refs == Append(known.refs, job[t].of) IN
  /\ job[t].at = "persist" /\ Len(refs) <= MaxRefs
  /\ Save(t, [known EXCEPT !.refs = refs])

SaveFails(t) ==
  /\ job[t].at = "persist" /\ Leave(t)
  /\ UNCHANGED <<artifact, disk, memory, index>>

RecordUsage(t) ==
  LET known == memory[Home[t]] IN
  /\ Free(t) /\ known.usage < MaxUsage
  /\ Save(t, [known EXCEPT !.usage = @ + 1])

Remember(t) ==
  /\ job[t].at = "remember" /\ Leave(t)
  /\ memory' = [memory EXCEPT ![Home[t]] = job[t].state]
  /\ UNCHANGED <<artifact, disk, index>>

Dies(p) ==
  /\ memory[p] # Nothing
  /\ memory' = [memory EXCEPT ![p] = Nothing]
  /\ index' = [index EXCEPT ![p] = {}]
  /\ job' = [t \in Thread |-> IF Home[t] = p THEN Idle ELSE job[t]]
  /\ UNCHANGED <<artifact, disk>>

Next ==
  \/ \E p \in Process : Open(p) \/ Dies(p)
  \/ \E t \in Thread :
       \/ \E a \in Artifact : Make(t, a, "ingest") \/ Make(t, a, "externalize")
       \/ WritePart(t) \/ WriteFails(t) \/ AfterPut(t)
       \/ ChunkingFails(t) \/ Chunked(t) \/ IndexChunks(t)
       \/ Persist(t) \/ SaveFails(t) \/ RecordUsage(t) \/ Remember(t)

Spec == Init /\ [][Next]_vars

-----------------------------------------------------------------------------
(* Whatever the session file, a process's memory or its index names can be     *)
(* read in full, at any time and after any crash: an incomplete directory is   *)
(* never referenced.  Nothing is referenced twice (the state would be refused  *)
(* on load by _unique_ids), and no saved session is past its limit.            *)
NamedIsReadable ==
  /\ \A p \in Process : \A a \in index[p] : Complete(a)
  /\ \A s \in ({disk} \cup {memory[p] : p \in Process}) \ {Nothing} :
       /\ \A a \in ToSet(s.refs) : Complete(a)
       /\ IsInjective(s.refs) /\ Len(s.refs) <= MaxRefs
=============================================================================
