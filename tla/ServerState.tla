---------------------------- MODULE ServerState ----------------------------
(***************************************************************************)
(* What the language server keeps, in its parts: the documents, with the   *)
(* caches over them and one document's text (LspDocuments, which has as    *)
(* much of the host as it needs), the analysis host in full, over the same *)
(* files, texts and settings, and the ledger of what each document shows.  *)
(***************************************************************************)
EXTENDS LspDocuments

CONSTANTS Roots, NoRoot, MaxRevision \* see AnalysisHost

VARIABLES interned, disk, overlay, dialect, inputs, files, strictness, root, revision, held

H == INSTANCE AnalysisHost WITH
    DefaultDialect <- FirstManifest.dialect, InitialLevel <- FirstManifest.strictness, NoSnapshot <- None

CONSTANTS Checked, \* the files that have been checked
          Findings, Answers, Uris, PathToUri, ClientUri \* see ForeignLedger

VARIABLES own, contributions, workspace, panels

L == INSTANCE ForeignLedger WITH Paths <- Checked, shown <- panels

ASSUME PartsAssumption == H!HostAssumption /\ L!LedgerAssumption

hostVars   == <<interned, disk, overlay, dialect, inputs, files, strictness, root, revision, held>>
ledgerVars == <<own, contributions, workspace, panels>>

------------------------------------------------------------------------------
\* The query inputs are what the virtual file system says now (AnalysisHost,
\* host.rs sync_file).
InputsMirrorVfs == H!InputsMirrorVfs

\* Two snapshots of one revision saw the same inputs (AnalysisHost, host.rs
\* Analysis::revision).
EqualRevisionSameWorld == H!EqualRevisionSameWorld

\* The host is the versioned world its consumers cache by (AnalysisHost).
ImplementsVersionedInputs == H!ImplementsVersionedInputs

\* What an editor shows is what refreshing every document after every pass
\* would show (ForeignLedger, server.rs ForeignLedger).
ImplementsPanels == L!ImplementsPanels
=============================================================================
