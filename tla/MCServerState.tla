--------------------------- MODULE MCServerState ---------------------------
(***************************************************************************)
(* The state behind the language server, a part of it at a time: the parts *)
(* share no state here, so each behaviour is one's and the rest is where   *)
(* it starts.                                                              *)
(*                                                                         *)
(* The documents: two files, so that one can be open while the other       *)
(* moves, a text that differs from an empty one, and a manifest that       *)
(* leaves each of its settings or moves it.  MaxSteps messages and disk    *)
(* changes are enough for two documents to be open, one of them deleted    *)
(* underneath and then closed; delivering and handling the events they     *)
(* cause is not counted.                                                   *)
(*                                                                         *)
(* Or the text of one document: of up to four characters or line endings,  *)
(* edited twice anywhere, the changes arriving together or apart.          *)
(*                                                                         *)
(* Or the host, on the same files, texts and settings and two roots:       *)
(* enough for an overlay to shadow a different disk text, for a path to be *)
(* re-interned under another dialect, and for one edit to leave another    *)
(* path's input alone.  MaxRevision counted edits let a snapshot be taken, *)
(* outdated and compared again.                                            *)
(*                                                                         *)
(* Or the ledger: three checked files whose passes may find anything in    *)
(* each other, in a client that calls every file by the URI the server     *)
(* derives for it.                                                         *)
(***************************************************************************)
EXTENDS ServerState, TLC

CONSTANTS old, new, warn, strict, base, extended

First == [dialect |-> old, strictness |-> warn, defs |-> base]

OneSettingApart ==
    {First, [First EXCEPT !.dialect = new], [First EXCEPT !.strictness = strict],
     [First EXCEPT !.defs = extended]}

Pieces    == {<<"plain">>, <<"astral">>, <<"lf">>, <<"cr", "lf">>}
MCStarts  == {a \o b : a, b \in Pieces} \cup {<<"plain", "astral", "cr", "lf">>, <<>>}
MCInserts == {<<>>, <<"astral">>, <<"lf", "wide">>}

Derived == [p \in Checked |-> <<"file", p>>]
MCUris  == {"file"} \X Checked

\* A class cycle is reported in two files, or there is none.
Cycles == {<<>>} \cup UNION {[D -> (SUBSET Findings) \ {{}}] : D \in {S \in SUBSET Checked : Cardinality(S) = 2}}

\* Nothing tells the two files of the documents and the host apart.
Alike == Permutations(Paths)

------------------------------------------------------------------------------
VARIABLE subject

DocumentsAtRest == fs = [p \in Paths |-> Absent]
EditsAtRest     == shown = <<>> /\ sent = <<>> /\ served = <<>> /\ edits = 0

MCInit ==
    /\ Init /\ H!Init /\ L!Init
    /\ \/ subject = "documents" /\ EditsAtRest
       \/ subject = "edits" /\ E!Init /\ DocumentsAtRest
       \/ subject \in {"host", "ledger"} /\ DocumentsAtRest /\ EditsAtRest

\* Every edit has been made and has arrived.
EditsDone == edits = MaxEdits /\ sent = <<>> /\ UNCHANGED editVars

MCNext ==
    \/ subject = "documents" /\ Next /\ UNCHANGED <<editVars, hostVars, ledgerVars, subject>>
    \/ subject = "edits" /\ (E!Next \/ EditsDone) /\ UNCHANGED <<vars, hostVars, ledgerVars, subject>>
    \/ subject = "host" /\ H!Next /\ UNCHANGED <<vars, editVars, ledgerVars, subject>>
    \/ subject = "ledger" /\ L!Next /\ UNCHANGED <<vars, editVars, hostVars, subject>>

MCSpec == MCInit /\ [][MCNext]_<<vars, editVars, hostVars, ledgerVars, subject>>
=============================================================================
