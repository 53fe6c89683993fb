------------------------ MODULE LanguageServerProofs ------------------------
(***************************************************************************)
(* The two sides of a language server, proved for any number of callers,   *)
(* operations and documents.                                               *)
(*                                                                         *)
(* The client: what a request returns answers its own question, because no *)
(* two requests under way have one number, and neither a reply the server  *)
(* still owes nor a future that is answered disagrees with the request of  *)
(* its number.  Between starts and stops, that is with the lifecycle lock  *)
(* free, the client believes nothing this very process has not announced   *)
(* or registered; for that the lock must be held by whoever starts, stops, *)
(* terminates, clears or spawns.                                           *)
(*                                                                         *)
(* The documents: what is booked as synced is open in the server, or is    *)
(* known here to be misbooked, and what is open, not lost and not about to *)
(* be notified is booked; versions are never used for two texts.           *)
(***************************************************************************)
EXTENDS MCLanguageServer, FiniteSetTheorems, TLAPS

-----------------------------------------------------------------------------
(* The books of the client. *)

Asking(c) == step[c] \in {"sending", "waiting", "withdrawing"}

(* Between getting the lifecycle lock and giving it back.                   *)
Locked(c) ==
    \/ step[c] \in {"spawning", "notifying", "terminating", "clearing"}
    \/ Asking(c) /\ goal[c] # "call"

GoalBook ==
    \A c \in Caller :
        /\ Asking(c) => goal[c] \in {"call", "start", "stop"}
        /\ step[c] = "notifying" => goal[c] \in {"start", "stop"}
        /\ step[c] = "spawning" => goal[c] = "start" /\ process = "none"
        /\ step[c] \in {"terminating", "clearing"} /\ goal[c] = "start" => ~Running
        /\ Locked(c) => holder = c

NumberBook ==
    /\ pending \subseteq 1..nextId
    /\ \A c \in Caller : Asking(c) => number[c] \in 1..nextId
    /\ \A c, x \in Caller :
          Asking(c) /\ Asking(x) /\ number[c] = number[x] => c = x

AnswerBook ==
    /\ \A reply \in owed : reply[1] \in 1..nextId
    /\ \A c \in Caller : Asking(c) =>
          /\ \A reply \in owed : reply[1] = number[c] => reply[2] = question[c]
          /\ future[number[c]] \in Question => future[number[c]] = question[c]

(* Its process runs, and the client does not know yet what it can do.       *)
Unready(c) ==
    Locked(c) /\ goal[c] \in {"start", "abort"} /\ step[c] # "notifying"

AbilityBook ==
    /\ process = "none" => reader = "none"
    /\ dynamic \subseteq granted
    /\ Running /\ (\A c \in Caller : ~Unready(c)) =>
          base \subseteq announced /\ capabilities \subseteq announced \cup granted

ClientBook == GoalBook /\ NumberBook /\ AnswerBook /\ AbilityBook

ClientInv == TypeOK /\ ClientBook

-----------------------------------------------------------------------------
(* The books of the documents. *)

NoticeBook ==
    \A d \in Document :
        /\ notice[d] \in {"didOpen", "reopen", "didChange", "didSave"} => d \in open
        /\ notice[d] = "didClose" => d \notin open
        /\ notice[d] \in {"didChange", "didSave"} => d \in synced

SyncBook ==
    /\ \A d \in synced : serverHas[d] = 0 <=> d \in misbooked
    /\ \A d \in open \cap synced :
          d \notin lost \cup misbooked /\ notice[d] \in {"none", "didSave"} =>
              serverHas[d] = version[d]
    /\ \A d \in open : notice[d] = "none" /\ d \notin lost => d \in synced

TextBook ==
    \A d \in Document :
        /\ serverHas[d] <= version[d]
        /\ d \in open => version[d] # 0
        /\ diagnostics[d].stated <= version[d]
        /\ \A text \in known[d] :
              /\ text[1] <= version[d]
              /\ d \in open /\ text[1] = version[d] => text[2] = opening[d]

DocumentBook ==
    NoticeBook /\ SyncBook /\ TextBook /\ Documents!VersionNamesText

DocumentInv == Documents!TypeOK /\ DocumentBook

ServersInv == ClientInv /\ DocumentInv

-----------------------------------------------------------------------------
(* The documents. *)

LEMMA DocumentsStart == Documents!Init => DocumentInv
<1> SUFFICES ASSUME Documents!Init PROVE DocumentInv
  OBVIOUS
<1> USE DocumentsAssumption DEF Documents!Init, Documents!Version
<1>1. 0 \in 0..MaxVersion
  OBVIOUS
<1>2. diagnostics \in [Document -> Documents!Snapshot]
  BY <1>1 DEF Documents!Snapshot, Documents!Nothing
<1>3. Documents!TypeOK
  BY <1>1, <1>2 DEF Documents!TypeOK, Documents!Texts, Documents!Opening
<1>4. NoticeBook /\ SyncBook
  BY DEF NoticeBook, SyncBook
<1>5. TextBook /\ Documents!VersionNamesText
  BY DEF TextBook, Documents!VersionNamesText, Documents!Nothing
<1>6. QED BY <1>3, <1>4, <1>5 DEF DocumentInv, DocumentBook

LEMMA OpenDocumentKeeps ==
    ASSUME DocumentInv, NEW e \in Document, Documents!OpenDocument(e)
    PROVE  DocumentInv'
<1> USE DocumentsAssumption DEF Documents!Version
<1> USE DEF DocumentInv, Documents!OpenDocument, Documents!Notify,
            Documents!NextVersion, Documents!server
<1>1. Documents!TypeOK'
  BY DEF Documents!TypeOK, Documents!Texts, Documents!Opening
<1>2. NoticeBook'
  BY DEF DocumentBook, NoticeBook, Documents!TypeOK
<1>3. SyncBook'
  BY DEF DocumentBook, NoticeBook, SyncBook, Documents!TypeOK
<1>4. TextBook'
  BY DEF DocumentBook, TextBook, Documents!TypeOK, Documents!Snapshot
<1>5. Documents!VersionNamesText'
  BY DEF DocumentBook, TextBook, Documents!VersionNamesText, Documents!TypeOK,
         Documents!Snapshot
<1>6. QED BY <1>1, <1>2, <1>3, <1>4, <1>5 DEF DocumentBook

LEMMA ChangeDocumentKeeps ==
    ASSUME DocumentInv, NEW e \in Document, Documents!ChangeDocument(e)
    PROVE  DocumentInv'
<1> USE DocumentsAssumption DEF Documents!Version
<1> USE DEF DocumentInv, Documents!ChangeDocument, Documents!Notify,
            Documents!Unless, Documents!server
<1>1. Documents!TypeOK'
  BY DEF Documents!TypeOK, Documents!Texts, Documents!Opening
<1>2. NoticeBook'
  BY DEF DocumentBook, NoticeBook, Documents!TypeOK
<1>3. SyncBook'
  BY DEF DocumentBook, NoticeBook, SyncBook, Documents!TypeOK
<1>4. TextBook'
  BY DEF DocumentBook, TextBook, Documents!TypeOK, Documents!Snapshot
<1>5. Documents!VersionNamesText'
  BY DEF DocumentBook, TextBook, Documents!VersionNamesText, Documents!TypeOK,
         Documents!Snapshot
<1>6. QED BY <1>1, <1>2, <1>3, <1>4, <1>5 DEF DocumentBook

LEMMA SaveDocumentKeeps ==
    ASSUME DocumentInv, NEW e \in Document, Documents!SaveDocument(e)
    PROVE  DocumentInv'
<1> USE DEF DocumentInv, Documents!SaveDocument, Documents!Notify,
            Documents!Unless, Documents!server, Documents!registry
<1>1. Documents!TypeOK'
  BY DEF Documents!TypeOK, Documents!Texts, Documents!Opening
<1>2. NoticeBook'
  BY DEF DocumentBook, NoticeBook, Documents!TypeOK
<1>3. SyncBook'
  BY DEF DocumentBook, NoticeBook, SyncBook, Documents!TypeOK
<1>4. TextBook' /\ Documents!VersionNamesText'
  BY DEF DocumentBook, TextBook, Documents!VersionNamesText
<1>5. QED BY <1>1, <1>2, <1>3, <1>4 DEF DocumentBook

LEMMA CloseDocumentKeeps ==
    ASSUME DocumentInv, NEW e \in Document, Documents!CloseDocument(e)
    PROVE  DocumentInv'
<1> USE DocumentsAssumption DEF Documents!Version
<1> USE DEF DocumentInv, Documents!CloseDocument, Documents!Notify,
            Documents!server
<1>1. Documents!TypeOK'
  BY DEF Documents!TypeOK, Documents!Texts, Documents!Opening, Documents!Snapshot, Documents!Nothing
<1>2. NoticeBook'
  BY DEF DocumentBook, NoticeBook, Documents!TypeOK
<1>3. SyncBook'
  BY DEF DocumentBook, NoticeBook, SyncBook, Documents!TypeOK
<1>4. TextBook'
  BY DEF DocumentBook, TextBook, Documents!TypeOK, Documents!Nothing
<1>5. Documents!VersionNamesText'
  BY DEF DocumentBook, Documents!VersionNamesText, Documents!TypeOK
<1>6. QED BY <1>1, <1>2, <1>3, <1>4, <1>5 DEF DocumentBook

(* A notification that arrives: what the server then has is of this         *)
(* opening, and if the document was open it has it as it is.                *)
LEMMA ReceivedAsIs ==
    ASSUME DocumentInv, NEW e \in Document, Documents!Receive(e)
    PROVE  /\ serverHas' \in [Document -> Documents!Version]
           /\ \A d \in Document \ {e} : serverHas'[d] = serverHas[d] /\ known'[d] = known[d]
           /\ serverHas'[e] <= version[e]
           /\ known'[e] \subseteq known[e] \cup {<<serverHas'[e], opening[e]>>}
           /\ notice[e] \in {"didOpen", "reopen"} => serverHas'[e] = version[e]
           /\ notice[e] = "didChange" /\ serverHas[e] # 0 => serverHas'[e] = version[e]
           /\ notice[e] = "didClose" => serverHas'[e] = 0
           /\ notice[e] = "didChange" /\ serverHas[e] = 0 => serverHas'[e] = 0
           /\ notice[e] \in {"none", "didSave"} => serverHas'[e] = serverHas[e]
           /\ known' \in [Document ->
                            SUBSET (Documents!Version \X Documents!Version)]
<1> USE DocumentsAssumption DEF Documents!Version
<1>1. /\ serverHas \in [Document -> 0..MaxVersion]
      /\ version \in [Document -> 0..MaxVersion]
      /\ opening \in [Document -> 0..MaxVersion]
      /\ notice[e] \in {"none", "didOpen", "reopen", "didChange", "didSave", "didClose"}
      /\ serverHas[e] <= version[e]
      /\ known \in [Document -> SUBSET ((0..MaxVersion) \X (0..MaxVersion))]
  BY DEF DocumentInv, Documents!TypeOK, Documents!Texts, Documents!Opening,
         DocumentBook, TextBook
<1>2. /\ serverHas' \in [Document -> 0..MaxVersion]
      /\ \A d \in Document \ {e} : serverHas'[d] = serverHas[d]
      /\ serverHas'[e] <= version[e]
      /\ notice[e] \in {"didOpen", "reopen"} => serverHas'[e] = version[e]
      /\ notice[e] = "didChange" /\ serverHas[e] # 0 => serverHas'[e] = version[e]
      /\ notice[e] = "didClose" => serverHas'[e] = 0
      /\ notice[e] = "didChange" /\ serverHas[e] = 0 => serverHas'[e] = 0
      /\ notice[e] \in {"none", "didSave"} => serverHas'[e] = serverHas[e]
  BY <1>1 DEF Documents!Receive, Documents!Opening
<1>3. /\ \A d \in Document \ {e} : known'[d] = known[d]
      /\ known'[e] \subseteq known[e] \cup {<<serverHas'[e], opening[e]>>}
  <2>1. \A d \in Document : known'[d] =
           IF d = e
           THEN IF serverHas'[e] = 0 THEN known[e]
                ELSE known[e] \cup {<<serverHas'[e], opening[e]>>}
           ELSE known[d]
    BY <1>1 DEF Documents!Receive
  <2>2. QED BY <2>1
<1>4. known' \in [Document -> SUBSET ((0..MaxVersion) \X (0..MaxVersion))]
  <2>1. <<serverHas'[e], opening[e]>> \in (0..MaxVersion) \X (0..MaxVersion)
    BY <1>1, <1>2
  <2>2. \A d \in Document : known'[d] \subseteq (0..MaxVersion) \X (0..MaxVersion)
    BY <1>1, <1>3, <2>1
  <2>3. known' = [d \in Document |-> known'[d]]
    BY <1>1 DEF Documents!Receive
  <2>4. QED BY <2>2, <2>3
<1>5. QED BY <1>2, <1>3, <1>4

(* What the server has got of a text, whether or not that is confirmed.     *)
LEMMA ReceivedTexts ==
    ASSUME DocumentInv, NEW e \in Document, UNCHANGED <<version, open, opening>>,
           UNCHANGED <<serverHas, known>> \/ Documents!Receive(e)
    PROVE  /\ serverHas' \in [Document -> Documents!Version]
           /\ known' \in [Document -> SUBSET (Documents!Version \X Documents!Version)]
           /\ \A d \in Document : serverHas'[d] <= version[d]
           /\ \A d \in Document : \A text \in known'[d] :
                 /\ text[1] <= version[d]
                 /\ d \in open /\ text[1] = version[d] => text[2] = opening[d]
<1>1. CASE UNCHANGED <<serverHas, known>>
  BY <1>1 DEF DocumentInv, Documents!TypeOK, DocumentBook, TextBook
<1>2. CASE Documents!Receive(e)
  <2>1. ASSUME NEW d \in Document, NEW text \in known'[d]
        PROVE  /\ text[1] <= version[d]
               /\ d \in open /\ text[1] = version[d] => text[2] = opening[d]
    BY <1>2, ReceivedAsIs DEF DocumentInv, DocumentBook, TextBook
  <2>2. \A d \in Document : serverHas'[d] <= version[d]
    BY <1>2, ReceivedAsIs DEF DocumentInv, DocumentBook, TextBook
  <2>3. QED BY <1>2, <2>1, <2>2, ReceivedAsIs
<1>3. QED BY <1>1, <1>2

(* The end of an operation: its notice is gone, and a restart's diagnostics.*)
LEMMA DoneIs ==
    ASSUME DocumentInv, NEW e \in Document, Documents!Done(e),
           serverHas' \in [Document -> Documents!Version],
           known' \in [Document -> SUBSET (Documents!Version \X Documents!Version)],
           \A d \in Document : serverHas'[d] <= version[d],
           \A d \in Document : \A text \in known'[d] :
              /\ text[1] <= version[d]
              /\ d \in open /\ text[1] = version[d] => text[2] = opening[d]
    PROVE  /\ UNCHANGED <<version, open, opening>>
           /\ notice' = [notice EXCEPT ![e] = "none"]
           /\ diagnostics' \in [Document -> Documents!Snapshot]
           /\ TextBook' /\ Documents!VersionNamesText'
<1> USE DocumentsAssumption DEF Documents!Version
<1>1. /\ UNCHANGED <<version, open, opening>>
      /\ notice' = [notice EXCEPT ![e] = "none"]
      /\ diagnostics' \in {diagnostics, [diagnostics EXCEPT ![e] = Documents!Nothing]}
  BY DEF Documents!Done, Documents!registry
<1>2. diagnostics' \in [Document -> Documents!Snapshot]
  BY <1>1 DEF DocumentInv, Documents!TypeOK, Documents!Snapshot, Documents!Nothing
<1>3. \A d \in Document : diagnostics'[d] \in {diagnostics[d], Documents!Nothing}
  BY <1>1 DEF DocumentInv, Documents!TypeOK
<1>4. TextBook'
  <2>1. \A d \in Document : diagnostics'[d].stated <= version[d]
    BY <1>3 DEF DocumentInv, DocumentBook, TextBook, Documents!TypeOK, Documents!Nothing
  <2>2. \A d \in Document : d \in open => version[d] # 0
    BY DEF DocumentInv, DocumentBook, TextBook
  <2>3. QED BY <1>1, <2>1, <2>2 DEF TextBook
<1>5. Documents!VersionNamesText'
  <2>1. \A d \in open : d \in Document /\ version[d] # 0
    BY DEF DocumentInv, DocumentBook, TextBook, Documents!TypeOK
  <2>2. QED
    BY <1>1, <1>3, <2>1
       DEF DocumentInv, DocumentBook, Documents!VersionNamesText, Documents!Nothing
<1>6. QED BY <1>1, <1>2, <1>4, <1>5

LEMMA DeliverKeeps ==
    ASSUME DocumentInv, NEW e \in Document, Documents!Deliver(e)
    PROVE  DocumentInv'
<1> USE DEF Documents!Opening, Documents!Texts
<1>1. /\ notice[e] # "none"
      /\ lost' = IF notice[e] \in {"didOpen", "reopen", "didChange"} THEN lost \ {e} ELSE lost
      /\ misbooked' = IF notice[e] \in {"didOpen", "reopen", "didClose"}
                      THEN misbooked \ {e} ELSE misbooked
      /\ Documents!Sent(e) /\ Documents!Receive(e) /\ Documents!Done(e)
  BY DEF Documents!Deliver
<1>2. UNCHANGED <<version, open, opening>>
  BY <1>1 DEF Documents!Done, Documents!registry
<1>3. /\ notice' = [notice EXCEPT ![e] = "none"]
      /\ diagnostics' \in [Document -> Documents!Snapshot]
      /\ serverHas' \in [Document -> Documents!Version]
      /\ known' \in [Document -> SUBSET (Documents!Version \X Documents!Version)]
      /\ TextBook' /\ Documents!VersionNamesText'
  BY <1>1, <1>2, ReceivedTexts, DoneIs
<1>4. synced' = IF notice[e] \in {"didOpen", "reopen"} THEN synced \cup {e}
                ELSE IF notice[e] = "didClose" THEN synced \ {e} ELSE synced
  BY <1>1 DEF Documents!Sent
<1>5. Documents!TypeOK'
  BY <1>1, <1>2, <1>3, <1>4 DEF DocumentInv, Documents!TypeOK
<1>6. NoticeBook'
  BY <1>1, <1>2, <1>3, <1>4 DEF DocumentInv, DocumentBook, NoticeBook, Documents!TypeOK
<1>7. \A d \in Document \ {e} : serverHas'[d] = serverHas[d] /\ notice'[d] = notice[d]
  BY <1>1, <1>3, ReceivedAsIs DEF DocumentInv, Documents!TypeOK
<1>8. notice'[e] = "none"
  BY <1>3 DEF DocumentInv, Documents!TypeOK
<1>9. SyncBook'
  <2>1. ASSUME e \in synced'
        PROVE  /\ serverHas'[e] = 0 <=> e \in misbooked'
               /\ e \in open /\ e \notin lost' \cup misbooked' =>
                     serverHas'[e] = version[e]
    <3>1. notice[e] \in {"didOpen", "reopen", "didChange", "didSave"}
      BY <2>1, <1>1, <1>4 DEF DocumentInv, Documents!TypeOK
    <3>2. e \in open /\ version[e] # 0
      BY <3>1 DEF DocumentInv, DocumentBook, NoticeBook, TextBook
    <3>3. CASE notice[e] \in {"didOpen", "reopen"}
      BY <3>2, <3>3, <1>1, ReceivedAsIs
    <3>4. CASE notice[e] = "didChange"
      <4>1. e \in synced /\ misbooked' = misbooked
        BY <3>4, <1>1 DEF DocumentInv, DocumentBook, NoticeBook
      <4>2. serverHas[e] = 0 <=> e \in misbooked
        BY <4>1 DEF DocumentInv, DocumentBook, SyncBook
      <4>3. QED BY <3>2, <3>4, <4>1, <4>2, <1>1, ReceivedAsIs
    <3>5. CASE notice[e] = "didSave"
      <4>1. e \in synced /\ misbooked' = misbooked /\ lost' = lost
        BY <3>5, <1>1 DEF DocumentInv, DocumentBook, NoticeBook
      <4>2. serverHas'[e] = serverHas[e]
        BY <3>5, <1>1, ReceivedAsIs
      <4>3. QED BY <3>2, <3>5, <4>1, <4>2 DEF DocumentInv, DocumentBook, SyncBook
    <3>6. QED BY <3>1, <3>3, <3>4, <3>5
  <2>2. ASSUME NEW d \in Document \ {e}
        PROVE  /\ d \in synced' <=> d \in synced
               /\ d \in misbooked' <=> d \in misbooked
               /\ d \in lost' <=> d \in lost
    BY <1>1, <1>4
  <2>3. e \in open /\ e \notin lost' => e \in synced'
    BY <1>1, <1>4 DEF DocumentInv, DocumentBook, NoticeBook, Documents!TypeOK
  <2>4. \A d \in synced' : serverHas'[d] = 0 <=> d \in misbooked'
    BY <2>1, <2>2, <1>5, <1>7 DEF DocumentInv, DocumentBook, SyncBook, Documents!TypeOK
  <2>5. \A d \in open \cap synced' :
           d \notin lost' \cup misbooked' /\ notice'[d] \in {"none", "didSave"} =>
               serverHas'[d] = version[d]
    BY <2>1, <2>2, <1>5, <1>7 DEF DocumentInv, DocumentBook, SyncBook, Documents!TypeOK
  <2>6. \A d \in open : notice'[d] = "none" /\ d \notin lost' => d \in synced'
    BY <2>2, <2>3, <1>7 DEF DocumentInv, DocumentBook, SyncBook, Documents!TypeOK
  <2>7. QED BY <1>2, <2>4, <2>5, <2>6 DEF SyncBook
<1>10. QED BY <1>3, <1>5, <1>6, <1>9 DEF DocumentInv, DocumentBook

LEMMA FallbackKeeps ==
    ASSUME DocumentInv, NEW e \in Document, Documents!Fallback(e)
    PROVE  DocumentInv'
<1> USE DEF Documents!Opening, Documents!Texts
<1>1. /\ notice[e] # "none"
      /\ lost' = IF notice[e] \in {"didOpen", "reopen", "didChange"} THEN lost \cup {e} ELSE lost
      /\ synced' = synced /\ Documents!Done(e)
      /\ \/ UNCHANGED <<serverHas, known, misbooked>>
         \/ /\ Documents!Receive(e)
            /\ misbooked' = IF notice[e] \in {"didOpen", "reopen"} THEN misbooked \ {e}
                            ELSE IF notice[e] = "didClose" THEN misbooked \cup ({e} \cap synced)
                            ELSE misbooked
  BY DEF Documents!Fallback
<1>2. UNCHANGED <<version, open, opening>>
  BY <1>1 DEF Documents!Done, Documents!registry
<1>3. /\ notice' = [notice EXCEPT ![e] = "none"]
      /\ diagnostics' \in [Document -> Documents!Snapshot]
      /\ serverHas' \in [Document -> Documents!Version]
      /\ known' \in [Document -> SUBSET (Documents!Version \X Documents!Version)]
      /\ TextBook' /\ Documents!VersionNamesText'
  <2>1. UNCHANGED <<serverHas, known>> \/ Documents!Receive(e)
    BY <1>1
  <2>2. QED BY <1>1, <1>2, <2>1, ReceivedTexts, DoneIs
<1>4. Documents!TypeOK'
  BY <1>1, <1>2, <1>3 DEF DocumentInv, Documents!TypeOK
<1>5. NoticeBook'
  BY <1>1, <1>2, <1>3 DEF DocumentInv, DocumentBook, NoticeBook, Documents!TypeOK
<1>6. \A d \in Document \ {e} : serverHas'[d] = serverHas[d] /\ notice'[d] = notice[d]
  BY <1>1, <1>3, ReceivedAsIs DEF DocumentInv, Documents!TypeOK
<1>7. notice'[e] = "none"
  BY <1>3 DEF DocumentInv, Documents!TypeOK
<1>8. SyncBook'
  <2>1. e \in synced => (serverHas'[e] = 0 <=> e \in misbooked')
    <3>1. CASE UNCHANGED <<serverHas, known, misbooked>>
      BY <3>1 DEF DocumentInv, DocumentBook, SyncBook
    <3>2. CASE /\ Documents!Receive(e) /\ notice[e] \in {"didOpen", "reopen"}
               /\ misbooked' = misbooked \ {e}
      <4>1. version[e] # 0 /\ serverHas'[e] = version[e]
        BY <3>2, ReceivedAsIs DEF DocumentInv, DocumentBook, NoticeBook, TextBook
      <4>2. QED BY <3>2, <4>1
    <3>3. CASE /\ Documents!Receive(e) /\ notice[e] = "didClose"
               /\ misbooked' = misbooked \cup ({e} \cap synced)
      BY <3>3, ReceivedAsIs
    <3>4. CASE /\ Documents!Receive(e) /\ notice[e] \in {"didChange", "didSave"}
               /\ misbooked' = misbooked
      <4>1. version[e] # 0
        BY <3>4 DEF DocumentInv, DocumentBook, NoticeBook, TextBook
      <4>2. serverHas'[e] = 0 <=> serverHas[e] = 0
        BY <3>4, <4>1, ReceivedAsIs
      <4>3. QED BY <3>4, <4>2 DEF DocumentInv, DocumentBook, SyncBook
    <3>5. notice[e] \in {"didOpen", "reopen", "didChange", "didSave", "didClose"}
      BY <1>1 DEF DocumentInv, Documents!TypeOK
    <3>6. QED BY <1>1, <3>1, <3>2, <3>3, <3>4, <3>5
  <2>2. e \in open /\ e \notin lost' => notice[e] = "didSave" /\ e \in synced
    BY <1>1 DEF DocumentInv, DocumentBook, NoticeBook, Documents!TypeOK
  <2>3. e \in open /\ e \notin lost' \cup misbooked' => serverHas'[e] = version[e]
    <3>1. SUFFICES ASSUME e \in open, e \notin lost' \cup misbooked'
                   PROVE  serverHas'[e] = version[e]
      OBVIOUS
    <3>2. /\ notice[e] = "didSave" /\ e \in synced
          /\ lost' = lost /\ misbooked' = misbooked /\ serverHas'[e] = serverHas[e]
      BY <2>2, <3>1, <1>1, ReceivedAsIs
    <3>3. QED BY <3>1, <3>2 DEF DocumentInv, DocumentBook, SyncBook
  <2>4. ASSUME NEW d \in Document \ {e}
        PROVE  /\ d \in misbooked' <=> d \in misbooked
               /\ d \in lost' <=> d \in lost
    BY <1>1
  <2>5. \A d \in synced : serverHas'[d] = 0 <=> d \in misbooked'
    BY <2>1, <2>4, <1>6 DEF DocumentInv, DocumentBook, SyncBook, Documents!TypeOK
  <2>6. \A d \in open \cap synced :
           d \notin lost' \cup misbooked' /\ notice'[d] \in {"none", "didSave"} =>
               serverHas'[d] = version[d]
    BY <2>3, <2>4, <1>6 DEF DocumentInv, DocumentBook, SyncBook, Documents!TypeOK
  <2>7. \A d \in open : notice'[d] = "none" /\ d \notin lost' => d \in synced
    BY <2>2, <2>4, <1>6 DEF DocumentInv, DocumentBook, SyncBook, Documents!TypeOK
  <2>8. QED BY <1>1, <1>2, <2>5, <2>6, <2>7 DEF SyncBook
<1>9. QED BY <1>3, <1>4, <1>5, <1>8 DEF DocumentInv, DocumentBook

LEMMA DocumentServerExitsKeeps ==
    ASSUME DocumentInv, Documents!ServerExits
    PROVE  DocumentInv'
<1> USE DocumentsAssumption DEF Documents!Version
<1> USE DEF DocumentInv, Documents!ServerExits, Documents!registry
<1>1. Documents!TypeOK'
  <2>1. serverHas' \in [Document -> 0..MaxVersion]
    OBVIOUS
  <2>2. QED BY <2>1 DEF Documents!TypeOK
<1>2. NoticeBook'
  BY DEF DocumentBook, NoticeBook
<1>3. SyncBook'
  BY DEF DocumentBook, SyncBook, Documents!TypeOK
<1>4. TextBook'
  BY DEF DocumentBook, TextBook, Documents!TypeOK
<1>5. Documents!VersionNamesText'
  BY DEF DocumentBook, Documents!VersionNamesText
<1>6. QED BY <1>1, <1>2, <1>3, <1>4, <1>5 DEF DocumentBook

LEMMA RestartKeeps ==
    ASSUME DocumentInv, Documents!Restart
    PROVE  DocumentInv'
<1> USE DocumentsAssumption DEF Documents!Version
<1> USE DEF DocumentInv, Documents!Restart, Documents!registry
<1>0. /\ \A d \in Document : notice'[d] = IF d \in open THEN "reopen" ELSE notice[d]
      /\ \A d \in Document : serverHas'[d] = 0
  OBVIOUS
<1>1. Documents!TypeOK'
  <2>1. serverHas' \in [Document -> 0..MaxVersion]
    OBVIOUS
  <2>2. notice' \in [Document -> Documents!Texts \cup {"none", "didSave", "didClose"}]
    BY DEF Documents!TypeOK, Documents!Texts, Documents!Opening
  <2>3. QED BY <2>1, <2>2 DEF Documents!TypeOK
<1>2. NoticeBook'
  BY <1>0 DEF DocumentBook, NoticeBook
<1>3. SyncBook'
  BY <1>0 DEF SyncBook, Documents!TypeOK
<1>4. TextBook'
  BY <1>0 DEF DocumentBook, TextBook, Documents!TypeOK
<1>5. Documents!VersionNamesText'
  BY DEF DocumentBook, Documents!VersionNamesText
<1>6. QED BY <1>1, <1>2, <1>3, <1>4, <1>5 DEF DocumentBook

LEMMA PublishKeeps ==
    ASSUME DocumentInv, NEW e \in Document, Documents!Publish(e)
    PROVE  DocumentInv'
<1> USE DocumentsAssumption DEF Documents!Version
<1> USE DEF DocumentInv
<1>1. /\ UNCHANGED <<version, open, opening, synced, notice, serverHas, known, lost,
                     misbooked>>
      /\ \E text \in known[e], stated \in BOOLEAN :
            diagnostics' = [diagnostics EXCEPT ![e] =
               [ version |-> IF stated THEN text[1] ELSE version[e],
                 stated  |-> IF stated THEN text[1] ELSE 0,
                 opening |-> text[2] ]]
  BY DEF Documents!Publish, Documents!registry, Documents!server
<1>2. PICK text \in known[e], stated \in BOOLEAN :
         diagnostics' = [diagnostics EXCEPT ![e] =
            [ version |-> IF stated THEN text[1] ELSE version[e],
              stated  |-> IF stated THEN text[1] ELSE 0,
              opening |-> text[2] ]]
  BY <1>1
<1>3. text \in (0..MaxVersion) \X (0..MaxVersion)
  BY DEF Documents!TypeOK
<1>4. Documents!TypeOK'
  <2>1. diagnostics' \in [Document -> Documents!Snapshot]
    BY <1>2, <1>3 DEF Documents!TypeOK, Documents!Snapshot
  <2>2. QED BY <1>1, <2>1 DEF Documents!TypeOK
<1>5. NoticeBook' /\ SyncBook'
  BY <1>1 DEF DocumentBook, NoticeBook, SyncBook
<1>6. ASSUME NEW d \in Document
      PROVE  /\ diagnostics'[d].stated <= version[d]
             /\ d \in open /\ diagnostics'[d].stated = version[d] =>
                   diagnostics'[d].opening = opening[d]
  <2>1. CASE d = e
    BY <2>1, <1>2, <1>3 DEF DocumentBook, TextBook, Documents!TypeOK
  <2>2. CASE d # e
    BY <2>2, <1>2 DEF DocumentBook, TextBook, Documents!VersionNamesText, Documents!TypeOK
  <2>3. QED BY <2>1, <2>2
<1>7. TextBook'
  BY <1>1, <1>6 DEF DocumentBook, TextBook
<1>8. Documents!VersionNamesText'
  BY <1>1, <1>6 DEF Documents!VersionNamesText, Documents!TypeOK
<1>9. QED BY <1>4, <1>5, <1>7, <1>8 DEF DocumentBook

LEMMA DocumentsKeep == DocumentInv /\ [Documents!Next]_documents => DocumentInv'
<1> SUFFICES ASSUME DocumentInv, [Documents!Next]_documents
             PROVE  DocumentInv'
  OBVIOUS
<1>1. CASE UNCHANGED documents
  BY <1>1 DEF documents, DocumentInv, Documents!TypeOK, DocumentBook, NoticeBook,
              SyncBook, TextBook, Documents!VersionNamesText
<1>2. CASE Documents!Next
  BY <1>2, OpenDocumentKeeps, ChangeDocumentKeeps, SaveDocumentKeeps,
     CloseDocumentKeeps, DeliverKeeps, FallbackKeeps, PublishKeeps,
     DocumentServerExitsKeeps, RestartKeeps
     DEF Documents!Next
<1>3. QED BY <1>1, <1>2

(* What is booked is in the server as it is in the registry.                *)
LEMMA BookedIsInStep == DocumentInv => InStep
BY DEF DocumentInv, DocumentBook, NoticeBook, SyncBook, InStep, Documents!InStep,
       Documents!TypeOK

-----------------------------------------------------------------------------
(* The client. *)

LEMMA PendingFits ==
    ASSUME TypeOK, NEW P, P \subseteq pending
    PROVE  P \subseteq Id /\ IsFiniteSet(P) /\ Cardinality(P) <= MaxPending
<1> USE ClientAssumption
<1>1. IsFiniteSet(Id)
  BY FS_Interval DEF Id
<1>2. IsFiniteSet(pending)
  BY <1>1, FS_Subset DEF TypeOK
<1>3. IsFiniteSet(P) /\ Cardinality(P) <= Cardinality(pending)
  BY <1>2, FS_Subset
<1>4. /\ Cardinality(P) \in Nat /\ Cardinality(pending) \in Nat
      /\ Cardinality(pending) <= MaxPending
  BY <1>2, <1>3, FS_CardinalityType DEF TypeOK
<1>5. QED BY <1>3, <1>4 DEF TypeOK

(* The table has room for one more, under a number nobody has had.          *)
LEMMA RegisterIs ==
    ASSUME TypeOK, NEW c \in Caller, NEW q \in Question, Register(c, q)
    PROVE  /\ nextId + 1 \in Id /\ nextId' = nextId + 1
           /\ pending' = pending \cup {nextId'}
           /\ pending' \subseteq Id /\ Cardinality(pending') <= MaxPending
           /\ future' = [future EXCEPT ![nextId'] = "waiting"]
           /\ number' = [number EXCEPT ![c] = nextId']
           /\ question' = [question EXCEPT ![c] = q]
           /\ step' = [step EXCEPT ![c] = "sending"]
<1> USE ClientAssumption
<1>1. /\ ~(Cardinality(pending) >= MaxPending)
      /\ nextId + 1 \in Id /\ nextId' = nextId + 1
      /\ pending' = pending \cup {nextId'}
      /\ future' = [future EXCEPT ![nextId'] = "waiting"]
      /\ number' = [number EXCEPT ![c] = nextId']
      /\ question' = [question EXCEPT ![c] = q]
      /\ step' = [step EXCEPT ![c] = "sending"]
  BY DEF Register, Full, FreshId, GoTo
<1>2. IsFiniteSet(pending) /\ pending \subseteq Id
  BY PendingFits
<1>3. Cardinality(pending) \in Nat
  BY <1>2, FS_CardinalityType
<1>4. Cardinality(pending \cup {nextId'}) \in {Cardinality(pending), Cardinality(pending) + 1}
  BY <1>2, FS_AddElement
<1>5. Cardinality(pending') \in {Cardinality(pending), Cardinality(pending) + 1}
  BY <1>1, <1>4
<1>6. Cardinality(pending') <= MaxPending
  BY <1>1, <1>3, <1>5
<1>7. QED BY <1>1, <1>2, <1>6

(* Nothing an answer can be is a mark of the table.                         *)
LEMMA MarksAreNoAnswers ==
    Question \cap {"unused", "waiting", "failed", "cancelled"} = {}
BY ClientAssumption DEF Question

(* What makes a new request fit the books, whoever makes it.                *)
LEMMA RequestFits ==
    ASSUME ClientInv, NEW c \in Caller, NEW q \in Question, Register(c, q),
           ~Asking(c), owed' \in SUBSET owed
    PROVE  NumberBook' /\ AnswerBook'
<1>1. /\ nextId + 1 \in Id /\ nextId' = nextId + 1
      /\ pending' = pending \cup {nextId'}
      /\ future' = [future EXCEPT ![nextId'] = "waiting"]
      /\ number' = [number EXCEPT ![c] = nextId']
      /\ question' = [question EXCEPT ![c] = q]
      /\ step' = [step EXCEPT ![c] = "sending"]
  BY RegisterIs DEF ClientInv
<1>2. /\ nextId \in 0..MaxId /\ MaxId \in Nat
      /\ number \in [Caller -> 0..MaxId]
      /\ step \in [Caller -> {"idle", "sending", "waiting", "withdrawing", "locking",
                              "spawning", "notifying", "terminating", "clearing"}]
      /\ question \in [Caller -> Question]
      /\ future \in [Id -> Question \cup {"unused", "waiting", "failed", "cancelled"}]
      /\ NumberBook /\ AnswerBook
  BY ClientAssumption DEF ClientInv, TypeOK, ClientBook
<1>3. \A x \in Caller \ {c} :
         /\ step'[x] = step[x] /\ number'[x] = number[x] /\ question'[x] = question[x]
  BY <1>1, <1>2
<1>4. step'[c] = "sending" /\ number'[c] = nextId' /\ question'[c] = q
  BY <1>1, <1>2
<1>5. NumberBook'
  <2>1. pending' \subseteq 1..nextId'
    BY <1>1, <1>2 DEF NumberBook
  <2>2. ASSUME NEW x \in Caller, Asking(x)' PROVE number'[x] \in 1..nextId'
    BY <2>2, <1>1, <1>2, <1>3, <1>4 DEF NumberBook, Asking
  <2>3. ASSUME NEW x \in Caller, NEW y \in Caller, Asking(x)', Asking(y)',
               number'[x] = number'[y]
        PROVE  x = y
    <3>1. \A z \in Caller \ {c} : Asking(z)' => Asking(z) /\ number'[z] \in 1..nextId
      BY <1>3, <1>2 DEF NumberBook, Asking
    <3>2. ~(nextId' \in 1..nextId)
      BY <1>1, <1>2
    <3>3. QED BY <2>3, <3>1, <3>2, <1>3, <1>4, <1>2 DEF NumberBook
  <2>4. QED BY <2>1, <2>2, <2>3 DEF NumberBook
<1>6. AnswerBook'
  <2>1. \A reply \in owed' : reply[1] \in 1..nextId' /\ reply[1] # nextId'
    BY <1>1, <1>2 DEF AnswerBook
  <2>2. ASSUME NEW x \in Caller, Asking(x)'
        PROVE  /\ \A reply \in owed' : reply[1] = number'[x] => reply[2] = question'[x]
               /\ future'[number'[x]] \in Question => future'[number'[x]] = question'[x]
    <3>1. CASE x = c
      BY <3>1, <2>1, <1>1, <1>2, <1>4, MarksAreNoAnswers
    <3>2. CASE x # c
      <4>1. Asking(x) /\ number'[x] \in 1..nextId /\ number'[x] # nextId'
        BY <3>2, <2>2, <1>1, <1>2, <1>3 DEF Asking, NumberBook
      <4>2. QED BY <4>1, <3>2, <1>1, <1>2, <1>3 DEF AnswerBook
    <3>3. QED BY <3>1, <3>2
  <2>3. QED BY <2>1, <2>2 DEF AnswerBook
<1>7. QED BY <1>5, <1>6

(* A step in which nobody starts to ask, the server owes no more than what  *)
(* was asked, and every future stays or is no answer, or is the answer of a *)
(* reply.                                                                   *)
LEMMA NothingNewFits ==
    ASSUME ClientInv, nextId' = nextId, pending' \in SUBSET pending,
           \A reply \in owed' : reply \in owed \/
              \E c \in Caller : Asking(c) /\ reply = <<number[c], question[c]>>,
           \A x \in Caller : Asking(x)' =>
              Asking(x) /\ number'[x] = number[x] /\ question'[x] = question[x],
           \A x \in Caller : Asking(x)' =>
              \/ future'[number[x]] = future[number[x]]
              \/ future'[number[x]] \notin Question
              \/ <<number[x], future'[number[x]]>> \in owed
    PROVE  NumberBook' /\ AnswerBook'
<1>1. NumberBook /\ AnswerBook
  BY DEF ClientInv, ClientBook
<1>2. NumberBook'
  BY <1>1 DEF NumberBook
<1>3. ASSUME NEW reply \in owed'
      PROVE  /\ reply[1] \in 1..nextId'
             /\ \A x \in Caller : Asking(x) /\ reply[1] = number[x] => reply[2] = question[x]
  <2>1. CASE reply \in owed
    BY <1>1, <2>1 DEF AnswerBook
  <2>2. CASE \E c \in Caller : Asking(c) /\ reply = <<number[c], question[c]>>
    <3>1. PICK c \in Caller : Asking(c) /\ reply = <<number[c], question[c]>>
      BY <2>2
    <3>2. reply[1] = number[c] /\ reply[2] = question[c]
      BY <3>1
    <3>3. QED BY <1>1, <3>1, <3>2 DEF NumberBook
  <2>3. QED BY <2>1, <2>2
<1>4. ASSUME NEW x \in Caller, Asking(x)'
      PROVE  /\ \A reply \in owed' : reply[1] = number'[x] => reply[2] = question'[x]
             /\ future'[number'[x]] \in Question => future'[number'[x]] = question'[x]
  <2>1. /\ Asking(x) /\ number'[x] = number[x] /\ question'[x] = question[x]
        /\ \/ future'[number[x]] = future[number[x]]
           \/ future'[number[x]] \notin Question
           \/ <<number[x], future'[number[x]]>> \in owed
    BY <1>4
  <2>2. /\ \A reply \in owed : reply[1] = number[x] => reply[2] = question[x]
        /\ future[number[x]] \in Question => future[number[x]] = question[x]
    BY <1>1, <2>1 DEF AnswerBook
  <2>3. \A reply \in owed' : reply[1] = number'[x] => reply[2] = question'[x]
    BY <1>3, <2>1
  <2>4. future'[number'[x]] \in Question => future'[number'[x]] = question'[x]
    BY <2>1, <2>2
  <2>5. QED BY <2>3, <2>4
<1>5. QED BY <1>2, <1>3, <1>4 DEF AnswerBook

(* What a caller does after its request: back to idle after a call, on to   *)
(* tell the server, or on to take the process down; the latter two with the *)
(* lock it has.                                                             *)
LEMMA GoesOnIs ==
    ASSUME ClientInv, NEW c \in Caller, Asking(c), NEW answered \in BOOLEAN,
           GoesOn(c, answered)
    PROVE  /\ step' = [step EXCEPT ![c] = step'[c]]
           /\ goal' = [goal EXCEPT ![c] = goal'[c]]
           /\ \/ step'[c] = "idle" /\ goal'[c] = "call"
              \/ /\ step'[c] = "notifying" /\ goal'[c] \in {"start", "stop"}
                 /\ holder = c
              \/ /\ step'[c] = "terminating" /\ goal'[c] \in {"stop", "abort"}
                 /\ holder = c
           /\ \/ /\ UNCHANGED <<base, dynamic, capabilities>>
                 /\ goal[c] = "start" => step'[c] = "terminating" /\ goal'[c] = "abort"
              \/ base' = announced /\ capabilities' = announced /\ dynamic' = dynamic
<1> USE DEF GoTo, Leave, abilities
<1>1. /\ step \in [Caller -> {"idle", "sending", "waiting", "withdrawing", "locking",
                              "spawning", "notifying", "terminating", "clearing"}]
      /\ goal \in [Caller -> {"call", "start", "stop", "restart", "abort"}]
      /\ goal[c] # "call" => holder = c
  BY DEF ClientInv, TypeOK, ClientBook, GoalBook, Locked
<1>2. CASE goal[c] = "call" /\ Leave(c) /\ UNCHANGED abilities
  BY <1>1, <1>2
<1>3. CASE /\ goal[c] = "start" /\ base' = announced /\ capabilities' = announced
           /\ GoTo(c, "notifying") /\ UNCHANGED <<goal, dynamic>>
  BY <1>1, <1>3
<1>4. CASE /\ goal[c] = "start" /\ GoTo(c, "terminating")
           /\ goal' = [goal EXCEPT ![c] = "abort"]
           /\ UNCHANGED abilities
  BY <1>1, <1>4
<1>5. CASE /\ goal[c] = "stop"
           /\ GoTo(c, IF answered THEN "notifying" ELSE "terminating")
           /\ UNCHANGED <<goal, abilities>>
  <2>1. CASE answered
    BY <1>1, <1>5, <2>1
  <2>2. CASE ~answered
    BY <1>1, <1>5, <2>2
  <2>3. QED BY <2>1, <2>2
<1>6. QED BY <1>2, <1>3, <1>4, <1>5 DEF GoesOn

(* A caller whose request is over disturbs no book.                         *)
LEMMA EndsKeeps ==
    ASSUME ClientInv, NEW c \in Caller, Asking(c), NEW answered \in BOOLEAN,
           GoesOn(c, answered),
           number' = [number EXCEPT ![c] = 0],
           question' = [question EXCEPT ![c] = "initialize"],
           pending' \in SUBSET pending,
           future' \in [Id -> Question \cup {"unused", "waiting", "failed", "cancelled"}],
           \A i \in Id : future'[i] \in {future[i], "unused"},
           owed' \in {owed, Asked(c)},
           UNCHANGED <<process, reader, session, holder, nextId, deaf, heir, announced,
                       granted>>
    PROVE  ClientInv'
<1> USE DEF ClientInv
<1>1. /\ step' = [step EXCEPT ![c] = step'[c]]
      /\ goal' = [goal EXCEPT ![c] = goal'[c]]
      /\ \/ step'[c] = "idle" /\ goal'[c] = "call"
         \/ /\ step'[c] = "notifying" /\ goal'[c] \in {"start", "stop"}
            /\ holder = c
         \/ /\ step'[c] = "terminating" /\ goal'[c] \in {"stop", "abort"}
            /\ holder = c
      /\ \/ /\ UNCHANGED <<base, dynamic, capabilities>>
            /\ goal[c] = "start" => step'[c] = "terminating" /\ goal'[c] = "abort"
         \/ base' = announced /\ capabilities' = announced /\ dynamic' = dynamic
  BY GoesOnIs
<1>2. TypeOK'
  <2>1. pending' \subseteq Id /\ Cardinality(pending') <= MaxPending
    BY PendingFits
  <2>2. number' \in [Caller -> 0..MaxId] /\ question' \in [Caller -> Question]
    BY ClientAssumption DEF TypeOK, Question
  <2>3. owed' \subseteq Id \X Question
    <3>1. number[c] \in Id /\ question[c] \in Question
      BY ClientAssumption DEF ClientBook, NumberBook, TypeOK, Id
    <3>2. QED BY <3>1 DEF TypeOK, Asked
  <2>4. /\ step' \in [Caller -> {"idle", "sending", "waiting", "withdrawing", "locking",
                                "spawning", "notifying", "terminating", "clearing"}]
        /\ goal' \in [Caller -> {"call", "start", "stop", "restart", "abort"}]
    BY <1>1 DEF TypeOK
  <2>5. QED BY <1>1, <2>1, <2>2, <2>3, <2>4 DEF TypeOK
<1>3. \A x \in Caller \ {c} :
         /\ step'[x] = step[x] /\ goal'[x] = goal[x]
         /\ number'[x] = number[x] /\ question'[x] = question[x]
  BY <1>1 DEF TypeOK
<1>4. \A x \in Caller : Asking(x)' => x # c /\ Asking(x)
  BY <1>1, <1>3 DEF Asking
<1>5. GoalBook'
  <2>1. ASSUME NEW x \in Caller
        PROVE  /\ Asking(x)' => goal'[x] \in {"call", "start", "stop"}
               /\ step'[x] = "notifying" => goal'[x] \in {"start", "stop"}
               /\ step'[x] = "spawning" => goal'[x] = "start" /\ process' = "none"
               /\ step'[x] \in {"terminating", "clearing"} /\ goal'[x] = "start" => ~Running'
               /\ Locked(x)' => holder' = x
    <3>1. CASE x = c
      BY <1>1, <1>4, <3>1 DEF Locked
    <3>2. CASE x # c
      BY <1>3, <3>2 DEF ClientBook, GoalBook, Locked, Asking, Running
    <3>3. QED BY <3>1, <3>2
  <2>2. QED BY <2>1 DEF GoalBook
<1>6. NumberBook' /\ AnswerBook'
  <2>1. \A x \in Caller : Asking(x)' =>
           Asking(x) /\ number'[x] = number[x] /\ question'[x] = question[x]
    BY <1>3, <1>4
  <2>2. \A x \in Caller : Asking(x) => number[x] \in Id
    BY ClientAssumption DEF ClientBook, NumberBook, TypeOK, Id
  <2>3. \A x \in Caller : Asking(x)' =>
           \/ future'[number[x]] = future[number[x]]
           \/ future'[number[x]] \notin Question
           \/ <<number[x], future'[number[x]]>> \in owed
    BY <2>1, <2>2, MarksAreNoAnswers
  <2>4. \A reply \in owed' : reply \in owed \/
           \E x \in Caller : Asking(x) /\ reply = <<number[x], question[x]>>
    BY DEF Asked
  <2>5. QED BY <2>1, <2>3, <2>4, NothingNewFits
<1>7. AbilityBook'
  <2>1. CASE /\ UNCHANGED <<base, dynamic, capabilities>>
             /\ goal[c] = "start" => step'[c] = "terminating" /\ goal'[c] = "abort"
    <3>1. \A x \in Caller : Unready(x) => Unready(x)'
      <4>1. ASSUME Unready(c) PROVE Unready(c)'
        BY <2>1, <4>1 DEF Unready, Locked, ClientBook, GoalBook
      <4>2. ASSUME NEW x \in Caller \ {c}, Unready(x) PROVE Unready(x)'
        BY <1>3, <4>2 DEF Unready, Locked, Asking
      <4>3. QED BY <4>1, <4>2
    <3>2. QED BY <2>1, <3>1 DEF ClientBook, AbilityBook, Running
  <2>2. CASE base' = announced /\ capabilities' = announced /\ dynamic' = dynamic
    BY <2>2 DEF ClientBook, AbilityBook
  <2>3. QED BY <1>1, <2>1, <2>2
<1>8. QED BY <1>2, <1>5, <1>6, <1>7 DEF ClientBook

LEMMA CallerEndsKeep ==
    ASSUME ClientInv, NEW c \in Caller,
           \/ SendFails(c) \/ CancelledEarly(c) \/ CancelledWriting(c)
           \/ Return(c) \/ Withdraw(c)
    PROVE  ClientInv'
<1>1. /\ future \in [Id -> Question \cup {"unused", "waiting", "failed", "cancelled"}]
      /\ \A i \in Id : future[i] \in {future[i], "unused"}
  BY DEF ClientInv, TypeOK
<1>2. ASSUME Asking(c), NEW answered \in BOOLEAN, Ended(c, answered),
             owed' \in {owed, Asked(c)}
      PROVE  ClientInv'
  <2>1. /\ pending' \in SUBSET pending
        /\ future' \in [Id -> Question \cup {"unused", "waiting", "failed", "cancelled"}]
        /\ \A i \in Id : future'[i] \in {future[i], "unused"}
    BY <1>1, <1>2 DEF Ended
  <2>2. /\ GoesOn(c, answered)
        /\ number' = [number EXCEPT ![c] = 0]
        /\ question' = [question EXCEPT ![c] = "initialize"]
        /\ UNCHANGED <<process, reader, session, holder, nextId, deaf, heir, announced,
                       granted>>
    BY <1>2 DEF Ended
  <2>3. QED BY <1>2, <2>1, <2>2, EndsKeeps
<1>3. CASE SendFails(c)
  BY <1>2, <1>3 DEF SendFails, Asking
<1>4. CASE CancelledEarly(c)
  <2>1. /\ Asking(c) /\ GoesOn(c, FALSE)
        /\ number' = [number EXCEPT ![c] = 0]
        /\ question' = [question EXCEPT ![c] = "initialize"]
        /\ pending' \in SUBSET pending /\ future' = future /\ owed' \in {owed, Asked(c)}
        /\ UNCHANGED <<process, reader, session, holder, nextId, deaf, heir, announced,
                       granted>>
    BY <1>4 DEF CancelledEarly, Asking, table, server
  <2>2. QED BY <1>1, <2>1, EndsKeeps
<1>5. CASE CancelledWriting(c)
  <2>1. Asking(c) /\ Ended(c, FALSE) /\ owed' \in {owed, Asked(c)}
    BY <1>5 DEF CancelledWriting, Asking
  <2>2. QED BY <1>2, <2>1
<1>6. CASE Return(c)
  <2>1. (future[number[c]] # "failed") \in BOOLEAN
    OBVIOUS
  <2>2. /\ Asking(c) /\ Ended(c, future[number[c]] # "failed")
        /\ owed' \in {owed, Asked(c)}
    BY <1>6 DEF Return, Asking
  <2>3. QED BY <1>2, <2>1, <2>2
<1>7. CASE Withdraw(c)
  BY <1>2, <1>7 DEF Withdraw, Asking
<1>8. QED BY <1>3, <1>4, <1>5, <1>6, <1>7

LEMMA RequestKeeps ==
    ASSUME ClientInv, NEW c \in Caller, Request(c)
    PROVE  ClientInv'
<1> USE DEF ClientInv, server, abilities
<1>1. PICK op \in capabilities : Register(c, op)
  BY DEF Request
<1>2. /\ step[c] = "idle" /\ goal' = [goal EXCEPT ![c] = "call"]
      /\ UNCHANGED <<process, reader, session, holder, server, abilities>>
  BY DEF Request
<1>3. op \in Question
  BY DEF TypeOK, Question
<1>4. /\ nextId + 1 \in Id /\ nextId' = nextId + 1
      /\ pending' \subseteq Id /\ Cardinality(pending') <= MaxPending
      /\ future' = [future EXCEPT ![nextId'] = "waiting"]
      /\ number' = [number EXCEPT ![c] = nextId']
      /\ question' = [question EXCEPT ![c] = op]
      /\ step' = [step EXCEPT ![c] = "sending"]
  BY <1>1, <1>3, RegisterIs
<1>5. TypeOK'
  BY <1>2, <1>3, <1>4, ClientAssumption DEF TypeOK, Id
<1>6. GoalBook'
  BY <1>2, <1>4 DEF ClientBook, GoalBook, Locked, Asking, Running, TypeOK
<1>7. NumberBook' /\ AnswerBook'
  <2>1. ~Asking(c) /\ owed' \in SUBSET owed
    BY <1>2 DEF Asking
  <2>2. QED BY <1>1, <1>3, <2>1, RequestFits
<1>8. AbilityBook'
  <2>1. \A x \in Caller : Unready(x) => Unready(x)'
    BY <1>2, <1>4 DEF Unready, Locked, Asking, TypeOK
  <2>2. QED BY <1>2, <2>1 DEF ClientBook, AbilityBook, Running
<1>9. QED BY <1>5, <1>6, <1>7, <1>8 DEF ClientBook

LEMMA SendKeeps ==
    ASSUME ClientInv, NEW c \in Caller, Send(c) \/ GiveUp(c)
    PROVE  ClientInv'
<1> USE DEF ClientInv
<1>1. /\ step[c] \in {"sending", "waiting"}
      /\ step' \in {[step EXCEPT ![c] = "waiting"], [step EXCEPT ![c] = "withdrawing"]}
      /\ owed' \in {owed, Asked(c)}
      /\ future' \in {future, [future EXCEPT ![number[c]] = "cancelled"]}
      /\ UNCHANGED <<process, reader, session, holder, goal, number, question,
                     pending, nextId, deaf, heir, announced, granted,
                     base, dynamic, capabilities>>
  BY DEF Send, GiveUp, GoTo, table, server, abilities
<1>2. \A x \in Caller :
         /\ Asking(x)' <=> Asking(x)
         /\ Locked(x)' <=> Locked(x)
         /\ Unready(x)' <=> Unready(x)
         /\ step'[x] \in {"spawning", "notifying", "terminating", "clearing"} =>
               step'[x] = step[x]
  BY <1>1 DEF Asking, Locked, Unready, TypeOK
<1>3. Asking(c) /\ number[c] \in 1..nextId /\ number[c] \in Id /\ question[c] \in Question
  BY <1>1, ClientAssumption DEF ClientBook, NumberBook, Asking, TypeOK, Id
<1>4. TypeOK'
  BY <1>1, <1>3 DEF TypeOK, Asked
<1>5. GoalBook'
  BY <1>1, <1>2 DEF ClientBook, GoalBook, Running
<1>6. NumberBook' /\ AnswerBook'
  <2>1. \A i \in Id : future'[i] \in {future[i], "cancelled"}
    BY <1>1, <1>3 DEF TypeOK
  <2>2. \A x \in Caller : Asking(x) => number[x] \in Id
    BY ClientAssumption DEF ClientBook, NumberBook, TypeOK, Id
  <2>3. \A x \in Caller : Asking(x)' =>
           \/ future'[number[x]] = future[number[x]]
           \/ future'[number[x]] \notin Question
           \/ <<number[x], future'[number[x]]>> \in owed
    BY <1>2, <2>1, <2>2, MarksAreNoAnswers
  <2>4. \A reply \in owed' : reply \in owed \/
           \E x \in Caller : Asking(x) /\ reply = <<number[x], question[x]>>
    BY <1>1, <1>3 DEF Asked
  <2>5. \A x \in Caller : Asking(x)' =>
           Asking(x) /\ number'[x] = number[x] /\ question'[x] = question[x]
    BY <1>1, <1>2
  <2>6. nextId' = nextId /\ pending' \in SUBSET pending
    BY <1>1
  <2>7. QED BY <2>3, <2>4, <2>5, <2>6, NothingNewFits
<1>7. AbilityBook'
  BY <1>1, <1>2 DEF ClientBook, AbilityBook, Running
<1>8. QED BY <1>4, <1>5, <1>6, <1>7 DEF ClientBook

LEMMA AnswerKeeps ==
    ASSUME ClientInv, Answer
    PROVE  ClientInv'
<1> USE DEF ClientInv
<1>1. /\ UNCHANGED <<process, reader, session, holder, step, goal, number, question,
                     nextId, deaf, heir, announced, granted, base, dynamic, capabilities>>
      /\ \E reply \in owed, outcome \in Question \cup {"failed"} :
            /\ outcome \in {reply[2], "failed"}
            /\ owed' = owed \ {reply}
            /\ pending' = pending \ {reply[1]}
            /\ future' \in {future, [future EXCEPT ![reply[1]] = outcome]}
  BY DEF Answer, callers, abilities, TypeOK
<1>2. PICK reply \in owed, outcome \in Question \cup {"failed"} :
            /\ outcome \in {reply[2], "failed"}
            /\ owed' = owed \ {reply}
            /\ pending' = pending \ {reply[1]}
            /\ future' \in {future, [future EXCEPT ![reply[1]] = outcome]}
  BY <1>1
<1>3. reply = <<reply[1], reply[2]>> /\ reply[1] \in Id
  BY DEF TypeOK
<1>4. TypeOK'
  <2>1. pending' \subseteq Id /\ Cardinality(pending') <= MaxPending
    BY <1>2, PendingFits
  <2>2. QED BY <1>1, <1>2, <2>1 DEF TypeOK
<1>5. NumberBook' /\ AnswerBook'
  <2>1. \A x \in Caller : Asking(x)' =>
           Asking(x) /\ number'[x] = number[x] /\ question'[x] = question[x]
    BY <1>1 DEF Asking
  <2>2. ASSUME NEW i \in Id
        PROVE  \/ future'[i] = future[i]
               \/ future'[i] \notin Question
               \/ <<i, future'[i]>> \in owed
    <3>1. CASE i = reply[1] /\ future' # future
      <4>1. future'[i] = outcome
        BY <1>2, <3>1 DEF TypeOK
      <4>2. "failed" \notin Question
        BY MarksAreNoAnswers
      <4>3. QED BY <1>2, <1>3, <3>1, <4>1, <4>2
    <3>2. CASE i # reply[1] \/ future' = future
      BY <1>2, <3>2 DEF TypeOK
    <3>3. QED BY <3>1, <3>2
  <2>3. \A x \in Caller : Asking(x) => number[x] \in Id
    BY ClientAssumption DEF ClientBook, NumberBook, TypeOK, Id
  <2>4. /\ nextId' = nextId /\ pending' \in SUBSET pending
        /\ \A r \in owed' : r \in owed \/
              \E x \in Caller : Asking(x) /\ r = <<number[x], question[x]>>
        /\ \A x \in Caller : Asking(x)' =>
              \/ future'[number[x]] = future[number[x]]
              \/ future'[number[x]] \notin Question
              \/ <<number[x], future'[number[x]]>> \in owed
    BY <1>1, <1>2, <2>1, <2>2, <2>3
  <2>5. QED BY <2>1, <2>4, NothingNewFits
<1>6. GoalBook' /\ AbilityBook'
  BY <1>1 DEF ClientBook, GoalBook, AbilityBook, Unready, Locked, Asking, Running
<1>7. QED BY <1>4, <1>5, <1>6 DEF ClientBook

(* Futures that fail or are cancelled are no answers.                       *)
LEMMA NoAnswerFits ==
    ASSUME ClientInv, UNCHANGED <<step, goal, number, question, owed, nextId>>,
           pending' \in SUBSET pending,
           \A i \in Id : future'[i] \in {future[i], "failed", "cancelled"}
    PROVE  NumberBook' /\ AnswerBook'
<1>1. \A x \in Caller : Asking(x)' =>
         Asking(x) /\ number'[x] = number[x] /\ question'[x] = question[x]
  BY DEF Asking
<1>2. \A x \in Caller : Asking(x) => number[x] \in Id
  BY ClientAssumption DEF ClientInv, ClientBook, NumberBook, TypeOK, Id
<1>3. \A x \in Caller : Asking(x)' =>
         \/ future'[number[x]] = future[number[x]]
         \/ future'[number[x]] \notin Question
         \/ <<number[x], future'[number[x]]>> \in owed
  BY <1>1, <1>2, MarksAreNoAnswers
<1>4. QED BY <1>1, <1>3, NothingNewFits

LEMMA FailedIs ==
    ASSUME TypeOK, future' = Failed
    PROVE  /\ future' \in [Id -> Question \cup {"unused", "waiting", "failed", "cancelled"}]
           /\ \A i \in Id : future'[i] \in {future[i], "failed", "cancelled"}
BY DEF TypeOK, Failed

LEMMA ReaderKeeps ==
    ASSUME ClientInv,
           \/ ServerCancels \/ ServerRegisters \/ ServerGoesDeaf \/ ServerExits
           \/ ReaderFails \/ ReaderEnds
    PROVE  ClientInv'
<1> USE DEF ClientInv, callers, table, server, abilities
<1>0. \A i \in Id : future[i] \in {future[i], "failed", "cancelled"}
  OBVIOUS
<1>1. CASE ServerCancels
  <2>1. \A i \in Id : future'[i] \in {future[i], "failed", "cancelled"}
    BY <1>1 DEF ServerCancels, TypeOK
  <2>2. TypeOK'
    BY <1>1 DEF ServerCancels, TypeOK
  <2>3. NumberBook' /\ AnswerBook'
    BY <1>1, <2>1, NoAnswerFits DEF ServerCancels
  <2>4. GoalBook' /\ AbilityBook'
    BY <1>1 DEF ServerCancels, ClientBook, GoalBook, AbilityBook, Unready, Locked, Asking, Running
  <2>5. QED BY <2>2, <2>3, <2>4 DEF ClientBook
<1>2. CASE ServerRegisters
  <2>1. TypeOK' /\ AbilityBook'
    <3>1. /\ dynamic' \subseteq granted' /\ granted' \subseteq Operation
          /\ capabilities' = base \cup dynamic'
          /\ UNCHANGED <<process, reader, holder, base, announced>>
      BY <1>2 DEF ServerRegisters, Refresh, TypeOK, ClientBook, AbilityBook
    <3>2. \A x \in Caller : Unready(x)' <=> Unready(x)
      BY <1>2 DEF ServerRegisters, Unready, Locked, Asking
    <3>3. QED BY <1>2, <3>1, <3>2 DEF ServerRegisters, TypeOK, ClientBook, AbilityBook, Running
  <2>2. NumberBook' /\ AnswerBook'
    BY <1>0, <1>2, NoAnswerFits DEF ServerRegisters
  <2>3. GoalBook'
    BY <1>2 DEF ServerRegisters, ClientBook, GoalBook, Locked, Asking, Running
  <2>4. QED BY <2>1, <2>2, <2>3 DEF ClientBook
<1>3. CASE ServerExits
  <2>1. TypeOK'
    BY <1>3 DEF ServerExits, Gone, TypeOK
  <2>2. NumberBook' /\ AnswerBook'
    BY <1>0, <1>3, NoAnswerFits DEF ServerExits, Gone
  <2>3. GoalBook' /\ AbilityBook'
    BY <1>3 DEF ServerExits, Gone, ClientBook, GoalBook, AbilityBook, Unready, Locked, Asking, Running
  <2>4. QED BY <2>1, <2>2, <2>3 DEF ClientBook
<1>4. CASE ReaderFails
  <2>1. TypeOK'
    BY <1>4, FailedIs, FS_EmptySet, ClientAssumption DEF ReaderFails, TypeOK
  <2>2. NumberBook' /\ AnswerBook'
    BY <1>4, FailedIs, NoAnswerFits DEF ReaderFails
  <2>3. GoalBook' /\ AbilityBook'
    BY <1>4 DEF ReaderFails, ClientBook, GoalBook, AbilityBook, Unready, Locked, Asking, Running
  <2>4. QED BY <2>1, <2>2, <2>3 DEF ClientBook
<1>5. CASE ReaderEnds
  <2>1. TypeOK'
    BY <1>5 DEF ReaderEnds, Gone, TypeOK
  <2>2. NumberBook' /\ AnswerBook'
    BY <1>0, <1>5, NoAnswerFits DEF ReaderEnds, Gone
  <2>3. GoalBook' /\ AbilityBook'
    BY <1>5 DEF ReaderEnds, Gone, ClientBook, GoalBook, AbilityBook, Unready, Locked, Asking, Running
  <2>4. QED BY <2>1, <2>2, <2>3 DEF ClientBook
<1>6. CASE ServerGoesDeaf
  <2>1. TypeOK'
    BY <1>6 DEF ServerGoesDeaf, TypeOK
  <2>2. NumberBook' /\ AnswerBook'
    BY <1>0, <1>6, NoAnswerFits DEF ServerGoesDeaf
  <2>3. GoalBook' /\ AbilityBook'
    BY <1>6 DEF ServerGoesDeaf, ClientBook, GoalBook, AbilityBook, Unready, Locked, Asking,
                Running
  <2>4. QED BY <2>1, <2>2, <2>3 DEF ClientBook
<1>7. QED BY <1>1, <1>2, <1>3, <1>4, <1>5, <1>6

(* A caller on its way through the lifecycle, no request made nor answered. *)
LEMMA LifecycleFits ==
    ASSUME ClientInv, NEW c \in Caller, NEW to, to \notin {"sending", "waiting", "withdrawing"},
           step' = [step EXCEPT ![c] = to],
           UNCHANGED <<number, question, owed, nextId>>,
           pending' \in SUBSET pending,
           \A i \in Id : future'[i] \in {future[i], "failed", "cancelled"}
    PROVE  NumberBook' /\ AnswerBook'
<1>1. \A x \in Caller : Asking(x)' =>
         Asking(x) /\ number'[x] = number[x] /\ question'[x] = question[x]
  BY DEF Asking, ClientInv, TypeOK
<1>2. \A x \in Caller : Asking(x) => number[x] \in Id
  BY ClientAssumption DEF ClientInv, ClientBook, NumberBook, TypeOK, Id
<1>3. \A x \in Caller : Asking(x)' =>
         \/ future'[number[x]] = future[number[x]]
         \/ future'[number[x]] \notin Question
         \/ <<number[x], future'[number[x]]>> \in owed
  BY <1>1, <1>2, MarksAreNoAnswers
<1>4. QED BY <1>1, <1>3, NothingNewFits

LEMMA StartsKeep ==
    ASSUME ClientInv, NEW c \in Caller, Starts(c)
    PROVE  ClientInv'
<1> USE DEF ClientInv, table, server, abilities
<1>1. /\ step[c] \in {"idle", "locking"} /\ holder = Nobody
      /\ UNCHANGED <<process, reader, session, number, question, table, server,
                     abilities>>
      /\ \/ /\ step' = [step EXCEPT ![c] = "idle"]
            /\ goal' = [goal EXCEPT ![c] = "call"] /\ holder' = holder
         \/ /\ ~Running /\ process = "none" /\ step' = [step EXCEPT ![c] = "spawning"]
            /\ goal' = [goal EXCEPT ![c] = "start"] /\ holder' = c
         \/ /\ ~Running /\ step' = [step EXCEPT ![c] = "terminating"]
            /\ goal' = [goal EXCEPT ![c] = "start"] /\ holder' = c
  BY DEF Starts, GoTo, Leave
<1>2. TypeOK'
  BY <1>1 DEF TypeOK
<1>3. NumberBook' /\ AnswerBook'
  <2>1. \A i \in Id : future'[i] \in {future[i], "failed", "cancelled"}
    BY <1>1
  <2>2. QED BY <1>1, <2>1, LifecycleFits
<1>4. \A x \in Caller : ~Locked(x) /\ ~Unready(x)
  BY <1>1, ClientAssumption DEF ClientBook, GoalBook, Unready
<1>5. GoalBook'
  BY <1>1, <1>4 DEF ClientBook, GoalBook, Locked, Asking, Running, TypeOK
<1>6. AbilityBook'
  BY <1>1, <1>4 DEF ClientBook, AbilityBook, Running
<1>7. QED BY <1>2, <1>3, <1>5, <1>6 DEF ClientBook

LEMMA NothingToStopKeeps ==
    ASSUME ClientInv, NEW c \in Caller, NothingToStop(c)
    PROVE  ClientInv'
<1> USE DEF ClientInv, server, abilities
<1>1. /\ step[c] = "idle" /\ holder = Nobody /\ process = "none"
      /\ future' = Failed /\ pending' = {}
      /\ step' \in {step, [step EXCEPT ![c] = "locking"]}
      /\ goal' \in {[goal EXCEPT ![c] = goal[c]], [goal EXCEPT ![c] = "start"]}
      /\ UNCHANGED <<process, reader, session, holder, number, question, nextId, server,
                     abilities>>
  BY DEF NothingToStop
<1>2. step' = [step EXCEPT ![c] = step'[c]] /\ step'[c] \in {"idle", "locking"}
  BY <1>1 DEF TypeOK
<1>3. TypeOK'
  BY <1>1, FailedIs, FS_EmptySet, ClientAssumption DEF TypeOK
<1>4. NumberBook' /\ AnswerBook'
  BY <1>1, <1>2, FailedIs, LifecycleFits
<1>5. \A x \in Caller : ~Locked(x)
  BY <1>1, ClientAssumption DEF ClientBook, GoalBook
<1>6. GoalBook'
  BY <1>1, <1>2, <1>5 DEF ClientBook, GoalBook, Locked, Asking, TypeOK
<1>7. AbilityBook'
  BY <1>1 DEF ClientBook, AbilityBook, Running
<1>8. QED BY <1>3, <1>4, <1>6, <1>7 DEF ClientBook

LEMMA StopsKeep ==
    ASSUME ClientInv, NEW c \in Caller, Stops(c)
    PROVE  ClientInv'
<1> USE DEF ClientInv, table, server, abilities
<1>1. /\ step[c] = "idle" /\ holder = Nobody /\ holder' = c
      /\ UNCHANGED <<process, reader, session, server, abilities>>
  BY DEF Stops
<1>2. \A x \in Caller : ~Locked(x) /\ ~Unready(x)
  BY <1>1, ClientAssumption DEF ClientBook, GoalBook, Unready
<1>3. CASE Register(c, "shutdown") /\ goal' = [goal EXCEPT ![c] = "stop"]
  <2>1. /\ nextId + 1 \in Id /\ nextId' = nextId + 1
        /\ pending' \subseteq Id /\ Cardinality(pending') <= MaxPending
        /\ future' = [future EXCEPT ![nextId'] = "waiting"]
        /\ number' = [number EXCEPT ![c] = nextId']
        /\ question' = [question EXCEPT ![c] = "shutdown"]
        /\ step' = [step EXCEPT ![c] = "sending"]
    BY <1>3, RegisterIs DEF Question
  <2>2. TypeOK'
    BY <1>1, <1>3, <2>1, ClientAssumption DEF TypeOK, Id, Question
  <2>3. NumberBook' /\ AnswerBook'
    <3>1. ~Asking(c) /\ owed' \in SUBSET owed /\ "shutdown" \in Question
      BY <1>1 DEF Asking, Question
    <3>2. QED BY <1>3, <3>1, RequestFits
  <2>4. GoalBook'
    BY <1>1, <1>2, <1>3, <2>1 DEF ClientBook, GoalBook, Locked, Asking, Running, TypeOK
  <2>5. AbilityBook'
    BY <1>1, <1>2 DEF ClientBook, AbilityBook, Running
  <2>6. QED BY <2>2, <2>3, <2>4, <2>5 DEF ClientBook
<1>4. CASE /\ step' = [step EXCEPT ![c] = "terminating"]
           /\ \E g \in {"stop", "restart"} : goal' = [goal EXCEPT ![c] = g]
           /\ UNCHANGED <<number, question, table>>
  <2>1. TypeOK'
    BY <1>1, <1>4 DEF TypeOK
  <2>2. NumberBook' /\ AnswerBook'
    <3>1. \A i \in Id : future'[i] \in {future[i], "failed", "cancelled"}
      BY <1>4
    <3>2. QED BY <1>1, <1>4, <3>1, LifecycleFits
  <2>3. GoalBook'
    BY <1>1, <1>2, <1>4 DEF ClientBook, GoalBook, Locked, Asking, Running, TypeOK
  <2>4. AbilityBook'
    BY <1>1, <1>2 DEF ClientBook, AbilityBook, Running
  <2>5. QED BY <2>1, <2>2, <2>3, <2>4 DEF ClientBook
<1>5. QED BY <1>3, <1>4 DEF Stops, GoTo

(* The holder of the lock tells the server, or cannot.                      *)
LEMMA TellKeeps ==
    ASSUME ClientInv, NEW c \in Caller, Notified(c) \/ NotNotified(c)
    PROVE  ClientInv'
<1> USE DEF ClientInv, table, server, abilities
<1>1. /\ step[c] = "notifying" /\ holder = c
      /\ UNCHANGED <<process, reader, session, number, question, table, server,
                     abilities>>
      /\ \/ /\ step' = [step EXCEPT ![c] = "idle"]
            /\ goal' = [goal EXCEPT ![c] = "call"] /\ holder' = Nobody
         \/ /\ step' = [step EXCEPT ![c] = "terminating"] /\ goal[c] = "stop"
            /\ goal' \in {goal, [goal EXCEPT ![c] = goal[c]]} /\ holder' = holder
         \/ /\ step' = [step EXCEPT ![c] = "terminating"] /\ goal[c] = "start"
            /\ goal' = [goal EXCEPT ![c] = "abort"] /\ holder' = holder
  BY DEF Notified, NotNotified, GoTo, Leave, ClientBook, GoalBook, Locked
<1>2. TypeOK'
  BY <1>1 DEF TypeOK
<1>3. NumberBook' /\ AnswerBook'
  <2>1. \A i \in Id : future'[i] \in {future[i], "failed", "cancelled"}
    BY <1>1
  <2>2. QED BY <1>1, <2>1, LifecycleFits
<1>4. \A x \in Caller : (Locked(x) => x = c) /\ ~Unready(x)
  BY <1>1 DEF ClientBook, GoalBook, Unready
<1>5. GoalBook'
  BY <1>1, <1>4 DEF ClientBook, GoalBook, Locked, Asking, Running, TypeOK
<1>6. AbilityBook'
  BY <1>1, <1>4 DEF ClientBook, AbilityBook, Running
<1>7. QED BY <1>2, <1>3, <1>5, <1>6 DEF ClientBook

LEMMA TerminateKeeps ==
    ASSUME ClientInv, NEW c \in Caller, Terminate(c)
    PROVE  ClientInv'
<1> USE DEF ClientInv, table, abilities
<1>1. /\ step[c] = "terminating" /\ step' = [step EXCEPT ![c] = "clearing"]
      /\ process' = "exited" /\ deaf' = FALSE /\ heir' \in BOOLEAN
      /\ UNCHANGED <<reader, session, holder, goal, number, question, table, owed,
                     announced, granted, abilities>>
  BY DEF Terminate, Gone, GoTo, TypeOK
<1>2. TypeOK'
  BY <1>1 DEF TypeOK
<1>3. NumberBook' /\ AnswerBook'
  <2>1. \A i \in Id : future'[i] \in {future[i], "failed", "cancelled"}
    BY <1>1
  <2>2. QED BY <1>1, <2>1, LifecycleFits
<1>4. GoalBook'
  <2>1. \A x \in Caller : Locked(x) => x = c
    BY <1>1 DEF ClientBook, GoalBook, Locked
  <2>2. QED BY <1>1, <2>1 DEF ClientBook, GoalBook, Locked, Asking, Running, TypeOK
<1>5. AbilityBook'
  BY <1>1 DEF ClientBook, AbilityBook, Running
<1>6. QED BY <1>2, <1>3, <1>4, <1>5 DEF ClientBook

LEMMA ClearKeeps ==
    ASSUME ClientInv, NEW c \in Caller, Clear(c)
    PROVE  ClientInv'
<1> USE DEF ClientInv, server
<1>1. /\ step[c] = "clearing"
      /\ process' = "none" /\ reader' = "none"
      /\ future' = Failed /\ pending' = {}
      /\ dynamic' = {} /\ capabilities' = base
      /\ UNCHANGED <<session, number, question, nextId, server, base>>
      /\ \/ /\ goal[c] = "start" /\ holder' = c
            /\ step' = [step EXCEPT ![c] = "spawning"]
            /\ goal' = [goal EXCEPT ![c] = "start"]
         \/ /\ goal[c] = "restart" /\ holder' = Nobody
            /\ step' = [step EXCEPT ![c] = "locking"]
            /\ goal' = [goal EXCEPT ![c] = "start"]
         \/ /\ holder' = Nobody
            /\ step' = [step EXCEPT ![c] = "idle"]
            /\ goal' = [goal EXCEPT ![c] = "call"]
  BY DEF Clear, NoRegistrations, TypeOK
<1>2. PICK to \in {"spawning", "locking", "idle"} : step' = [step EXCEPT ![c] = to]
  BY <1>1
<1>3. TypeOK'
  BY <1>1, FailedIs, FS_EmptySet, ClientAssumption DEF TypeOK
<1>4. NumberBook' /\ AnswerBook'
  BY <1>1, <1>2, FailedIs, LifecycleFits
<1>5. GoalBook'
  <2>1. \A x \in Caller : Locked(x) => x = c
    BY <1>1 DEF ClientBook, GoalBook, Locked
  <2>2. QED BY <1>1, <2>1 DEF ClientBook, GoalBook, Locked, Asking, Running, TypeOK
<1>6. AbilityBook'
  BY <1>1 DEF AbilityBook, Running
<1>7. QED BY <1>3, <1>4, <1>5, <1>6 DEF ClientBook

LEMMA CancelledStoppingKeeps ==
    ASSUME ClientInv, NEW c \in Caller, CancelledStopping(c)
    PROVE  ClientInv'
<1> USE DEF ClientInv, table, abilities
<1>1. /\ step[c] \in {"terminating", "clearing"} /\ goal[c] # "abort" /\ holder = c
      /\ step' = [step EXCEPT ![c] = "idle"] /\ goal' = [goal EXCEPT ![c] = "call"]
      /\ holder' = Nobody /\ heir' \in BOOLEAN
      /\ UNCHANGED <<process, reader, session, number, question, table, owed, deaf,
                     announced, granted, abilities>>
  BY DEF CancelledStopping, GoTo, Leave, ClientBook, GoalBook, Locked
<1>2. TypeOK'
  BY <1>1 DEF TypeOK
<1>3. NumberBook' /\ AnswerBook'
  <2>1. \A i \in Id : future'[i] \in {future[i], "failed", "cancelled"}
    BY <1>1
  <2>2. QED BY <1>1, <2>1, LifecycleFits
<1>4. \A x \in Caller : Locked(x) => x = c
  BY <1>1 DEF ClientBook, GoalBook
<1>5. GoalBook'
  BY <1>1, <1>4 DEF ClientBook, GoalBook, Locked, Asking, Running, TypeOK
<1>6. AbilityBook'
  <2>1. Running => \A x \in Caller : ~Unready(x)
    BY <1>1, <1>4 DEF ClientBook, GoalBook, Unready
  <2>2. QED BY <1>1, <2>1 DEF ClientBook, AbilityBook, Running
<1>7. QED BY <1>2, <1>3, <1>5, <1>6 DEF ClientBook

LEMMA SpawnKeeps ==
    ASSUME ClientInv, NEW c \in Caller, Spawn(c)
    PROVE  ClientInv'
<1> USE DEF ClientInv
<1>1. /\ step[c] = "spawning" /\ goal[c] = "start" /\ holder = c
      /\ process' = "alive" /\ reader' = "reading"
      /\ session < MaxSession /\ session' = session + 1
      /\ announced' \subseteq Operation
      /\ owed' = {} /\ granted' = {} /\ dynamic' = {}
      /\ UNCHANGED <<holder, base, capabilities, deaf, heir>>
      /\ \/ Register(c, "initialize") /\ UNCHANGED goal
         \/ /\ step' = [step EXCEPT ![c] = "terminating"]
            /\ goal' = [goal EXCEPT ![c] = "abort"]
            /\ UNCHANGED <<number, question, pending, future, nextId>>
  BY DEF Spawn, NoRegistrations, GoTo, table, ClientBook, GoalBook, Locked
<1>2. \A x \in Caller : Locked(x) => x = c
  BY <1>1 DEF ClientBook, GoalBook
<1>3. session' \in 0..MaxSession
  BY <1>1, ClientAssumption DEF TypeOK
<1>4. CASE Register(c, "initialize") /\ UNCHANGED goal
  <2>1. /\ nextId + 1 \in Id /\ nextId' = nextId + 1
        /\ pending' \subseteq Id /\ Cardinality(pending') <= MaxPending
        /\ future' = [future EXCEPT ![nextId'] = "waiting"]
        /\ number' = [number EXCEPT ![c] = nextId']
        /\ question' = [question EXCEPT ![c] = "initialize"]
        /\ step' = [step EXCEPT ![c] = "sending"]
    BY <1>4, RegisterIs DEF Question
  <2>2. TypeOK'
    BY <1>1, <1>3, <1>4, <2>1, ClientAssumption DEF TypeOK, Id, Question
  <2>3. NumberBook' /\ AnswerBook'
    <3>1. ~Asking(c) /\ owed' \in SUBSET owed /\ "initialize" \in Question
      BY <1>1 DEF Asking, Question
    <3>2. QED BY <1>4, <3>1, RequestFits
  <2>4. GoalBook'
    BY <1>1, <1>2, <1>4, <2>1 DEF ClientBook, GoalBook, Locked, Asking, Running, TypeOK
  <2>5. Unready(c)'
    BY <1>1, <1>4, <2>1 DEF Unready, Locked, Asking, TypeOK
  <2>6. AbilityBook'
    BY <1>1, <2>5 DEF AbilityBook
  <2>7. QED BY <2>2, <2>3, <2>4, <2>6 DEF ClientBook
<1>5. CASE /\ step' = [step EXCEPT ![c] = "terminating"]
           /\ goal' = [goal EXCEPT ![c] = "abort"]
           /\ UNCHANGED <<number, question, pending, future, nextId>>
  <2>1. TypeOK'
    BY <1>1, <1>3, <1>5 DEF TypeOK
  <2>2. NumberBook' /\ AnswerBook'
    <3>1. \A i \in Id : future'[i] \in {future[i], "failed", "cancelled"}
      BY <1>5
    <3>2. \A x \in Caller : Asking(x)' =>
             Asking(x) /\ number'[x] = number[x] /\ question'[x] = question[x]
      BY <1>5 DEF Asking, TypeOK
    <3>3. /\ nextId' = nextId /\ pending' \in SUBSET pending
          /\ \A reply \in owed' : reply \in owed \/
                \E x \in Caller : Asking(x) /\ reply = <<number[x], question[x]>>
          /\ \A x \in Caller : Asking(x)' =>
                \/ future'[number[x]] = future[number[x]]
                \/ future'[number[x]] \notin Question
                \/ <<number[x], future'[number[x]]>> \in owed
      BY <1>1, <1>5
    <3>4. QED BY <3>2, <3>3, NothingNewFits
  <2>3. GoalBook'
    BY <1>1, <1>2, <1>5 DEF ClientBook, GoalBook, Locked, Asking, Running, TypeOK
  <2>4. Unready(c)'
    BY <1>1, <1>5 DEF Unready, Locked, TypeOK
  <2>5. AbilityBook'
    BY <1>1, <2>4 DEF AbilityBook
  <2>6. QED BY <2>1, <2>2, <2>3, <2>5 DEF ClientBook
<1>6. QED BY <1>1, <1>4, <1>5

LEMMA UnavailableKeeps ==
    ASSUME ClientInv, NEW c \in Caller, Unavailable(c)
    PROVE  ClientInv'
<1> USE DEF ClientInv, table, server, abilities
<1>1. /\ step[c] = "spawning" /\ step' = [step EXCEPT ![c] = "idle"]
      /\ goal' = [goal EXCEPT ![c] = "call"] /\ holder' = Nobody
      /\ UNCHANGED <<process, reader, session, number, question, table, server,
                     abilities>>
      /\ holder = c /\ process = "none"
  BY DEF Unavailable, GoTo, Leave, ClientBook, GoalBook, Locked
<1>2. TypeOK'
  BY <1>1 DEF TypeOK
<1>3. NumberBook' /\ AnswerBook'
  <2>1. \A i \in Id : future'[i] \in {future[i], "failed", "cancelled"}
    BY <1>1
  <2>2. QED BY <1>1, <2>1, LifecycleFits
<1>4. \A x \in Caller : Locked(x) => x = c
  BY <1>1 DEF ClientBook, GoalBook
<1>5. GoalBook'
  BY <1>1, <1>4 DEF ClientBook, GoalBook, Locked, Asking, Running, TypeOK
<1>6. AbilityBook'
  BY <1>1 DEF ClientBook, AbilityBook, Running
<1>7. QED BY <1>2, <1>3, <1>5, <1>6 DEF ClientBook

LEMMA ClientStart == Init => ClientInv
<1> SUFFICES ASSUME Init PROVE ClientInv
  OBVIOUS
<1> USE DEF Init
<1>1. TypeOK
  <2>1. pending \subseteq Id /\ Cardinality(pending) <= MaxPending
    BY FS_EmptySet, ClientAssumption
  <2>2. /\ number \in [Caller -> 0..MaxId] /\ nextId \in 0..MaxId
        /\ session \in 0..MaxSession
    BY ClientAssumption
  <2>3. question \in [Caller -> Question] /\ owed \subseteq Id \X Question
    BY DEF Question
  <2>4. deaf \in BOOLEAN /\ heir \in BOOLEAN
    OBVIOUS
  <2>5. QED BY <2>1, <2>2, <2>3, <2>4 DEF TypeOK
<1>2. ClientBook
  BY DEF ClientBook, GoalBook, NumberBook, AnswerBook, AbilityBook, Locked, Asking, Running
<1>3. QED BY <1>1, <1>2 DEF ClientInv

LEMMA ClientKeeps == ClientInv /\ [Next]_vars => ClientInv'
<1> SUFFICES ASSUME ClientInv, [Next]_vars
             PROVE  ClientInv'
  OBVIOUS
<1>1. CASE UNCHANGED vars
  BY <1>1 DEF vars, callers, table, server, abilities, ClientInv, TypeOK, ClientBook,
              GoalBook, NumberBook, AnswerBook, AbilityBook, Unready, Locked, Asking, Running
<1>2. CASE Next
  <2>1. ASSUME NEW c \in Caller, CallerStep(c) \/ Cancelled(c)
        PROVE  ClientInv'
    BY <2>1, SendKeeps, CallerEndsKeep, TellKeeps, TerminateKeeps, ClearKeeps,
       SpawnKeeps, UnavailableKeeps, CancelledStoppingKeeps
       DEF CallerStep, Cancelled
  <2>2. CASE ServerStep
    BY <2>2, AnswerKeeps, ReaderKeeps DEF ServerStep
  <2>3. QED
    BY <1>2, <2>1, <2>2, RequestKeeps, StartsKeep, NothingToStopKeeps, StopsKeep,
       ReaderKeeps
       DEF Next
<1>3. QED BY <1>1, <1>2

-----------------------------------------------------------------------------
(* Both sides. *)

LEMMA ServersAlways == Servers => []ServersInv
<1>1. ServersInit => ServersInv
  BY ClientStart, DocumentsStart DEF ServersInit, ServersInv
<1>2. ServersInv /\ [ServersNext]_<<part, vars, documents>> => ServersInv'
  <2> SUFFICES ASSUME ServersInv, [ServersNext]_<<part, vars, documents>>
               PROVE  ServersInv'
    OBVIOUS
  <2>1. [Next]_vars /\ [Documents!Next]_documents
    BY DEF ServersNext, ClientMoves, DocumentsMove
  <2>2. QED BY <2>1, ClientKeeps, DocumentsKeep DEF ServersInv
<1>3. QED BY <1>1, <1>2, PTL DEF Servers

(* Every variable of the client and of the documents stays within its type; *)
(* in particular the table never holds more than MaxPending requests.       *)
THEOREM ServersTypes == Servers => []ServersTypeOK
<1>1. ServersInv => ServersTypeOK
  BY DEF ServersInv, ClientInv, DocumentInv, ServersTypeOK
<1>2. QED BY <1>1, ServersAlways, PTL

(* A request that is answered is answered with the answer to its question,  *)
(* in whatever order the server answers and after whatever was given up.    *)
(* (LSPClient._request_raw, _reader_loop.)                                  *)
THEOREM AnswersAreRight == Servers => []RightAnswer
<1>1. ServersInv => RightAnswer
  BY DEF ServersInv, ClientInv, ClientBook, AnswerBook, Asking, RightAnswer
<1>2. QED BY <1>1, ServersAlways, PTL

(* Between starts and stops nothing is believed of a server that an earlier *)
(* process announced or registered.  (LSPClient.start, _stop_impl.)         *)
THEOREM CapabilitiesAreCurrent == Servers => []CapabilitiesOfThisServer
<1>1. ServersInv => CapabilitiesOfThisServer
  <2> SUFFICES ASSUME ServersInv, Running, holder = Nobody
               PROVE  capabilities \subseteq announced \cup granted
    BY DEF CapabilitiesOfThisServer
  <2>1. \A c \in Caller : ~Unready(c)
    BY ClientAssumption DEF ServersInv, ClientInv, ClientBook, GoalBook, Unready
  <2>2. QED BY <2>1 DEF ServersInv, ClientInv, ClientBook, AbilityBook
<1>2. QED BY <1>1, ServersAlways, PTL

(* After an operation, restart included, the server has every open document *)
(* as the registry has it, but for two exceptions: sending its text failed  *)
(* or was cut off, or the document is booked and the server, which died by  *)
(* itself or read an unconfirmed close, has nothing of it.  Diagnostics     *)
(* under the version of now are about the text of now.                      *)
(* (LSPManager._notify_document, restart; publish_diagnostics.)             *)
THEOREM DocumentsAreInStep == Servers => []InStep
<1>1. ServersInv => InStep
  BY BookedIsInStep DEF ServersInv
<1>2. QED BY <1>1, ServersAlways, PTL

=============================================================================
