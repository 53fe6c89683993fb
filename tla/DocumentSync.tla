---------------------------- MODULE DocumentSync ----------------------------
(***************************************************************************)
(* The documents a language server is told about: codeintel/documents.py   *)
(* (DocumentRegistry) and LSPManager in codeintel/lsp.py, for one language.*)
(*                                                                         *)
(* An operation changes the registry at once and then notifies the server, *)
(* starting it if it does not run; a notification may fail, or be cut off, *)
(* with or without the server having read it.  The files of one task are   *)
(* leased to it, so the operations on one document follow one another,     *)
(* while other documents change and the server publishes diagnostics.      *)
(* The server is external; LSPClient has its client.                       *)
(***************************************************************************)
EXTENDS Naturals

CONSTANTS
    Document,
    MaxVersion       \* bound: document versions 1..MaxVersion

VARIABLES
    version,         \* of each document, 0 before its first opening
    open,            \* the documents that are open
    opening,         \* how often each was opened
    synced,          \* _synced_documents
    notice,          \* the notification an operation is about to send
    serverHas,       \* the version the server has open; 0 if it runs not, too
    known,           \* <<version, opening>> of every text it ever received
    lost,            \* the server's having their last text is not confirmed
    misbooked,       \* booked as synced, but the server does not have them
    diagnostics      \* the snapshot of each document

registry == <<version, open, opening>>
server == <<serverHas, known, lost, misbooked>>
vars == <<registry, synced, notice, server, diagnostics>>

Version == 0..MaxVersion

(* version is what the snapshot is filed under; stated is the version the   *)
(* server gave, with the opening it belongs to, or 0 if it gave none.       *)
Snapshot == [version : Version, stated : Version, opening : Version]
Nothing == [version |-> 0, stated |-> 0, opening |-> 0]

Init ==
    /\ version = [d \in Document |-> 0]
    /\ open = {}
    /\ opening = [d \in Document |-> 0]
    /\ synced = {}
    /\ notice = [d \in Document |-> "none"]
    /\ serverHas = [d \in Document |-> 0]
    /\ known = [d \in Document |-> {}]
    /\ lost = {}
    /\ misbooked = {}
    /\ diagnostics = [d \in Document |-> Nothing]

Notify(d, what) == notice[d] = "none" /\ notice' = [notice EXCEPT ![d] = what]

-----------------------------------------------------------------------------
(* Operations *)

NextVersion(d) == version[d] + 1

OpenDocument(d) ==
    /\ d \notin open /\ opening[d] < MaxVersion /\ version[d] < MaxVersion
    /\ version' = [version EXCEPT ![d] = NextVersion(d)]
    /\ open' = open \cup {d}
    /\ opening' = [opening EXCEPT ![d] = @ + 1]
    /\ Notify(d, "didOpen")
    /\ UNCHANGED <<synced, server, diagnostics>>

(* The provider may have become available after a fallback.                 *)
Unless(d, what) == IF d \in synced THEN what ELSE "didOpen"

ChangeDocument(d) ==
    /\ d \in open /\ version[d] < MaxVersion
    /\ version' = [version EXCEPT ![d] = @ + 1]
    /\ Notify(d, Unless(d, "didChange"))
    /\ UNCHANGED <<open, opening, synced, server, diagnostics>>

(* The text is the one of the last change; a new one is changed first.      *)
SaveDocument(d) ==
    /\ d \in open
    /\ Notify(d, Unless(d, "didSave"))
    /\ UNCHANGED <<registry, synced, server, diagnostics>>

CloseDocument(d) ==
    /\ d \in open
    /\ open' = open \ {d}
    /\ diagnostics' = [diagnostics EXCEPT ![d] = Nothing]
    /\ Notify(d, IF d \in synced THEN "didClose" ELSE "none")
    /\ UNCHANGED <<version, opening, synced, server>>

-----------------------------------------------------------------------------
(* Notifications *)

(* Those that carry the whole text.                                         *)
Opening == {"didOpen", "reopen"}
Texts == Opening \cup {"didChange"}

Receive(d) ==
    /\ serverHas' = [serverHas EXCEPT ![d] =
           CASE notice[d] \in Opening -> version[d]
             [] notice[d] = "didChange" /\ @ # 0 -> version[d]
             [] notice[d] = "didClose" -> 0
             [] OTHER -> @]
    /\ known' = [known EXCEPT ![d] =
           IF serverHas'[d] = 0 THEN @ ELSE @ \cup {<<serverHas'[d], opening[d]>>}]

Sent(d) ==
    synced' = CASE notice[d] \in Opening -> synced \cup {d}
                [] notice[d] = "didClose" -> synced \ {d}
                [] OTHER -> synced

(* The operation is over.  One of a restart forgets the diagnostics first.  *)
Done(d) ==
    /\ notice' = [notice EXCEPT ![d] = "none"]
    /\ diagnostics' = IF notice[d] = "reopen"
                      THEN [diagnostics EXCEPT ![d] = Nothing] ELSE diagnostics
    /\ UNCHANGED registry

Deliver(d) ==
    /\ notice[d] # "none"
    /\ Receive(d)
    /\ Sent(d)
    /\ lost' = IF notice[d] \in Texts THEN lost \ {d} ELSE lost
    /\ misbooked' = IF notice[d] \in Opening \cup {"didClose"}
                    THEN misbooked \ {d} ELSE misbooked
    /\ Done(d)

(* Faulty variant: the document is booked before it was sent.               *)
BookedFirst(d) ==
    /\ notice[d] # "none"
    /\ Sent(d)
    /\ Done(d)
    /\ UNCHANGED server

(* The server cannot be started, the file cannot be read again, or sending  *)
(* fails or is cancelled: before the server got anything or after.  Nothing *)
(* is booked; a failure is reported, a cancellation raised.                 *)
Fallback(d) ==
    /\ notice[d] # "none"
    /\ \/ UNCHANGED <<serverHas, known, misbooked>>
       \/ /\ Receive(d)
          /\ misbooked' = CASE notice[d] \in Opening -> misbooked \ {d}
                            [] notice[d] = "didClose" -> misbooked \cup ({d} \cap synced)
                            [] OTHER -> misbooked
    /\ lost' = IF notice[d] \in Texts THEN lost \cup {d} ELSE lost
    /\ Done(d)
    /\ UNCHANGED synced

(* The next notification starts another process; nothing tells the manager. *)
ServerExits ==
    /\ serverHas' = [d \in Document |-> 0]
    /\ misbooked' = synced
    /\ UNCHANGED <<registry, synced, notice, known, lost, diagnostics>>

(* restart, once the new process runs: nothing is booked any more and every *)
(* open document is to be opened again, one await after the other, each of  *)
(* which may fail.  It is an operation on each of them, so none of their    *)
(* own is under way.  A restart that fails before is ServerExits.           *)
Restart ==
    /\ \A d \in open : notice[d] = "none"
    /\ synced' = {} /\ misbooked' = {}
    /\ serverHas' = [d \in Document |-> 0]
    /\ notice' = [d \in Document |-> IF d \in open THEN "reopen" ELSE notice[d]]
    /\ UNCHANGED <<registry, known, lost, diagnostics>>

(* publish_diagnostics: late, and with or without a version.  Without one,  *)
(* it is taken for the version the document has by now.                     *)
Publish(d) ==
    /\ \E text \in known[d], stated \in BOOLEAN :
          LET filed == IF stated THEN text[1] ELSE version[d]
          IN  /\ filed >= diagnostics[d].version
              /\ filed >= version[d]
              /\ diagnostics' = [diagnostics EXCEPT ![d] =
                    [ version |-> filed,
                      stated  |-> IF stated THEN text[1] ELSE 0,
                      opening |-> text[2] ]]
    /\ UNCHANGED <<registry, synced, notice, server>>

Next ==
    \/ \E d \in Document :
          \/ OpenDocument(d) \/ ChangeDocument(d) \/ SaveDocument(d) \/ CloseDocument(d)
          \/ Deliver(d) \/ Fallback(d) \/ Publish(d)
    \/ ServerExits
    \/ Restart

Spec == Init /\ [][Next]_vars

-----------------------------------------------------------------------------
TypeOK ==
    /\ version \in [Document -> Version] /\ opening \in [Document -> Version]
    /\ open \subseteq Document /\ synced \subseteq Document
    /\ lost \subseteq Document /\ misbooked \subseteq synced
    /\ notice \in [Document -> Texts \cup {"none", "didSave", "didClose"}]
    /\ serverHas \in [Document -> Version]
    /\ known \in [Document -> SUBSET (Version \X Version)]
    /\ diagnostics \in [Document -> Snapshot]

(* As soon as an operation on an open document is over, and unless the last *)
(* try to send its text failed or was cut off, the server has it at the     *)
(* version of the registry, after a restart too.  The exception: a server   *)
(* that died by itself, or read a close that was not confirmed, has not got *)
(* a document that is still booked; then it has none of it, never an older  *)
(* text.  (_notify_document books a document as opened once the server has  *)
(* it; change_document opens what is not booked; restart books nothing.)    *)
InStep ==
    \A d \in open :
        notice[d] = "none" /\ d \notin lost =>
            \/ serverHas[d] = version[d]
            \/ d \in misbooked /\ serverHas[d] = 0

(* Diagnostics that the server gave for the version a document has now are  *)
(* about its text of now: those of an earlier opening arrive late, are kept *)
(* for a closed document and are still there when it is opened again, but   *)
(* under a version the document has left behind.  (open_document counts on  *)
(* from the last opening; publish_diagnostics rejects older versions.)      *)
VersionNamesText ==
    \A d \in open :
        diagnostics[d].stated = version[d] => diagnostics[d].opening = opening[d]

=============================================================================
