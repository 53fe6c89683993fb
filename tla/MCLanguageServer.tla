-------------------------- MODULE MCLanguageServer --------------------------
(***************************************************************************)
(* A small instance of the two sides of a language server: LSPClient and   *)
(* DocumentSync.  They are checked side by side in one run and share no    *)
(* state: a behaviour is one of the client's or one of the documents'.     *)
(***************************************************************************)
EXTENDS LSPClient

CONSTANTS Document, MaxVersion

ASSUME DocumentsAssumption == MaxVersion \in Nat

VARIABLES
    part,            \* whose behaviour this is
    version, open, opening, synced, notice,
    serverHas, known, lost, misbooked, diagnostics

documents == <<version, open, opening, synced, notice,
               serverHas, known, lost, misbooked, diagnostics>>

Documents == INSTANCE DocumentSync

ServersInit == part \in {"client", "documents"} /\ Init /\ Documents!Init

ClientMoves == part = "client" /\ Next /\ UNCHANGED <<part, documents>>
DocumentsMove == part = "documents" /\ Documents!Next /\ UNCHANGED <<part, vars>>

ServersNext == ClientMoves \/ DocumentsMove

Servers ==
    ServersInit /\ [][ServersNext]_<<part, vars, documents>> /\ Fairness

-----------------------------------------------------------------------------
(* Both parts stay within their types.                                      *)
ServersTypeOK == TypeOK /\ Documents!TypeOK

(* After an operation, restart included, the server has every open document *)
(* as the registry has it, unless sending its text last failed or was cut   *)
(* off; or it has nothing of it, if the server died by itself or a close    *)
(* was not confirmed and the document is still booked.  And diagnostics     *)
(* given for the version a document has now are about its text of now,      *)
(* through failures and closed documents.                                   *)
(* (LSPManager._notify_document, restart; publish_diagnostics.)             *)
InStep == Documents!InStep /\ Documents!VersionNamesText

=============================================================================
