---------------------------- MODULE LspDocuments ----------------------------
(***************************************************************************)
(* luabox-lsp: documents, disk and configuration in one language server    *)
(* (server.rs, over the host of module AnalysisHost).                      *)
(*                                                                         *)
(* The editor owns the text of open documents, the file system that of all *)
(* others, and luabox.toml the dialect, the strictness and the definition  *)
(* packages everything is checked under.  All three move on their own; the *)
(* server learns of the last two through watched-file events, which arrive *)
(* late and in batches, and answers from caches keyed on the host's change *)
(* counter.  One message is handled at a time, but the disk moves between  *)
(* the events of one batch.                                                *)
(*                                                                         *)
(* A handler applies several changes to the host and publishes from the    *)
(* result, so the server is one record and the handlers are built from     *)
(* functions on it; World is what AnalysisHost's inputs hold.              *)
(***************************************************************************)
EXTENDS Naturals, Sequences, FiniteSets

CONSTANTS Paths,          \* .lua files
          ProjectSources, \* those layout::is_project_source accepts
          Texts,          \* file contents
          EmptyText,      \* the contents of an empty file
          Manifests,      \* what luabox.toml can say
          FirstManifest,  \* what it says when the session starts
          Absent,         \* no text, no dialect, no file
          None,           \* nothing cached, checked or derived yet
          MaxSteps,       \* bound on what the client and the disk do
          Starts, Inserts, Past, MaxEdits \* see RangedEdits

Layer    == Texts \cup {Absent}
Dialects == {m.dialect : m \in Manifests}
Levels   == {m.strictness : m \in Manifests}
Packages == {m.defs : m \in Manifests}

\* What a pass reads out of the host, and what it looks at in all.
Worlds == [inputs : UNION {[S -> [text : Texts, dialect : Dialects]] : S \in SUBSET Paths},
           strictness : Levels]
Views  == [world : Worlds, defs : Packages, strictness : Levels]

VARIABLES fs,       \* the text of each file on disk
          manifest, \* luabox.toml on disk
          buffer,   \* the client's text of each open document
          edited,   \* files the client edited since they last moved on disk
          events,   \* watched-file events the client has still to report
          batch,    \* reported events the server has still to handle
          flags,    \* watched_files_changed: reload and republish_open
          before,   \* what a batch found the server looking at, None outside one
          indexing, \* files bootstrap has still to read
          server,   \* the Server
          steps,    \* what the client and the disk have done
          shown, sent, served, edits \* one document's text, see RangedEdits

\* DidChange takes a document's new text for the client's: how a text gets
\* there, as edits of parts of it, is a matter of its own.
E == INSTANCE RangedEdits

ASSUME DocumentsAssumption ==
    /\ IsFiniteSet(Paths) /\ ProjectSources \subseteq Paths
    /\ EmptyText \in Texts
    /\ FirstManifest \in Manifests
    /\ Absent \notin Texts \cup Dialects
    /\ None \notin Views
    /\ MaxSteps \in Nat
    /\ E!EditsAssumption

environment == <<fs, manifest, buffer, edited, events>>
editVars == <<shown, sent, served, edits>>
vars == <<environment, batch, flags, before, indexing, server, steps>>

------------------------------------------------------------------------------
(* The host inside the server, and its changes (module AnalysisHost).      *)

Known(s, p) == s.dialectOf[p] # Absent

\* Vfs::effective_text, and the empty text sync_file falls back to.
EffectiveText(s, p) ==
    IF s.overlay[p] # Absent THEN s.overlay[p]
    ELSE IF s.disk[p] # Absent THEN s.disk[p] ELSE EmptyText

\* Everything a pass reads out of the host.
World(s) ==
    [inputs |-> [p \in {q \in Paths : Known(s, q)} |->
                    [text |-> EffectiveText(s, p), dialect |-> s.dialectOf[p]]],
     strictness |-> s.hostStrictness]

\* apply_change: the counter moves when an input is written.
Counted(s, t) ==
    IF World(s) = World(t) THEN t ELSE [t EXCEPT !.revision = @ + 1]

SetFileText(s, p, text) ==
    Counted(s, [s EXCEPT !.disk[p] = text,
                         !.dialectOf[p] = IF Known(s, p) THEN @ ELSE s.config.dialect])

\* A new path is interned under AnalysisHost::default_dialect, which is the
\* dialect of the session's first manifest.
SetOverlay(s, p, text) ==
    Counted(s, [s EXCEPT !.overlay[p] = text,
                         !.dialectOf[p] = IF Known(s, p) THEN @ ELSE FirstManifest.dialect])

ClearOverlay(s, p) ==
    IF Known(s, p) THEN Counted(s, [s EXCEPT !.overlay[p] = Absent]) ELSE s

SetStrictness(s, level) == Counted(s, [s EXCEPT !.hostStrictness = level])

\* SetDialect of every known file, each write counted.
SetDialects(s, d) ==
    LET moved == {p \in Paths : Known(s, p) /\ s.dialectOf[p] # d} IN
    [s EXCEPT !.dialectOf = [p \in Paths |-> IF p \in moved THEN d ELSE @[p]],
              !.revision = @ + Cardinality(moved)]

------------------------------------------------------------------------------
(* Caches and publishing.                                                  *)

\* What a pass should be looking at now.
View(s) == [world |-> World(s), defs |-> s.config.defs, strictness |-> s.config.strictness]

Fresh(cache, s) == cache # None /\ cache.revision = s.revision

\* merged_ambient: definition packages and project types, rebuilt when the
\* counter has moved.
MergedAmbient(s) ==
    IF Fresh(s.merged, s) THEN s.merged
    ELSE [revision |-> s.revision, world |-> World(s), defs |-> s.config.defs]

\* cycle_pass: the class cycles of the workspace, on the same key.
CyclePass(s) ==
    IF Fresh(s.cycles, s) THEN s.cycles
    ELSE [revision |-> s.revision, world |-> World(s), strictness |-> s.config.strictness]

\* publish_lua of each of ps: a pass reads the two caches, and leaves the
\* ledger's workspace slot with the cycles it saw.
PublishLua(s, ps) ==
    LET merged == MergedAmbient(s)
        cycles == CyclePass(s)
        seen   == [world |-> merged.world, defs |-> merged.defs,
                   strictness |-> s.config.strictness]
    IN  IF ps = {} THEN s
        ELSE [s EXCEPT !.merged = merged,
                       !.cycles = cycles,
                       !.checked = [p \in Paths |-> IF p \in ps THEN seen ELSE @[p]],
                       !.slot = [world |-> cycles.world, strictness |-> cycles.strictness]]

RepublishOpenDocs(s) == PublishLua(s, s.openDocs)

------------------------------------------------------------------------------
(* Configuration.                                                          *)

\* Mutant: the merge is left to its key, which the definition packages do not
\* move (#59).
InstallConfigKeepingMerge(s, m) == [s EXCEPT !.config = m]

\* reload_config: the new settings and definition packages are installed, and
\* the merge built over the old ones is dropped by hand.
InstallConfig(s, m) == [s EXCEPT !.config = m, !.merged = None]

\* The host follows in lock-step, where a setting differs.
SyncHost(s, t, m) ==
    LET u == IF m.strictness # s.config.strictness THEN SetStrictness(t, m.strictness) ELSE t
    IN  IF m.dialect # s.config.dialect THEN SetDialects(u, m.dialect) ELSE u

ReloadConfig(s, m) == RepublishOpenDocs(SyncHost(s, InstallConfig(s, m), m))

------------------------------------------------------------------------------
Init ==
    /\ fs \in [Paths -> Layer]
    /\ manifest = FirstManifest
    /\ buffer = [p \in Paths |-> Absent]
    /\ edited = {}
    /\ events = <<>>
    /\ batch = <<>>
    /\ flags = {}
    /\ before = None
    /\ indexing = {p \in ProjectSources : fs[p] # Absent}
    /\ steps = 0
    /\ server = [disk |-> [p \in Paths |-> Absent],
                 overlay |-> [p \in Paths |-> Absent],
                 dialectOf |-> [p \in Paths |-> Absent],
                 hostStrictness |-> FirstManifest.strictness,
                 revision |-> 0,
                 config |-> FirstManifest,
                 openDocs |-> {},
                 merged |-> None, cycles |-> None, slot |-> None,
                 checked |-> [p \in Paths |-> None]]

Step == steps < MaxSteps /\ steps' = steps + 1

\* bootstrap: index one of the files the walk found, unless it cannot be read.
Bootstrap(p) ==
    /\ p \in indexing
    /\ indexing' = indexing \ {p}
    /\ server' = IF fs[p] = Absent THEN server ELSE SetFileText(server, p, fs[p])
    /\ UNCHANGED <<environment, batch, flags, before, steps>>

\* Another program writes or deletes a file; the client's watcher sees it.
DiskMoves(p, t) ==
    /\ Step
    /\ t # fs[p]
    /\ fs' = [fs EXCEPT ![p] = t]
    /\ edited' = edited \ {p}
    /\ events' = Append(events, [kind |-> IF t = Absent THEN "deleted" ELSE "changed",
                                 path |-> p])
    /\ UNCHANGED <<manifest, buffer, batch, flags, before, indexing, server>>

ManifestMoves(m) ==
    /\ Step
    /\ m # manifest
    /\ manifest' = m
    /\ events' = Append(events, [kind |-> "manifest", path |-> Absent])
    /\ UNCHANGED <<fs, buffer, edited, batch, flags, before, indexing, server>>

\* The loop takes the next message once the last one is handled.
Listening == indexing = {} /\ before = None

Message ==
    /\ Listening
    /\ Step
    /\ UNCHANGED <<fs, manifest, events, batch, flags, before, indexing>>

DidOpen(p, t) ==
    /\ Message
    /\ p \notin server.openDocs
    /\ buffer' = [buffer EXCEPT ![p] = t]
    /\ edited' = edited \cup {p}
    /\ server' = PublishLua(SetOverlay([server EXCEPT !.openDocs = @ \cup {p}], p, t), {p})

\* A full replacement is taken for a document the client never opened, too.
DidChange(p, t) ==
    /\ Message
    /\ buffer' = IF p \in server.openDocs THEN [buffer EXCEPT ![p] = t] ELSE buffer
    /\ edited' = edited \cup {p}
    /\ server' = PublishLua(SetOverlay(server, p, t), {p})

\* Mutant: the workspace answer is "not recomputed" (round 13, R13-A).
ClearedScratchSkipping(s, p) ==
    [ClearOverlay(s, p) EXCEPT !.checked[p] = None]

\* close of a buffer with no disk backing: nothing is left to check, but the
\* cycles it took part in are derived anew.
ClearedScratch(s, p) ==
    LET t      == ClearOverlay(s, p)
        cycles == CyclePass(t)
    IN  [t EXCEPT !.cycles = cycles,
                  !.checked[p] = None,
                  !.slot = [world |-> cycles.world, strictness |-> cycles.strictness]]

DidClose(p) ==
    /\ Message
    /\ p \in server.openDocs
    /\ buffer' = [buffer EXCEPT ![p] = Absent]
    /\ edited' = edited \ {p}
    /\ LET s == [server EXCEPT !.openDocs = @ \ {p}] IN
       server' = IF fs[p] = Absent THEN ClearedScratch(s, p)
                 ELSE PublishLua(ClearOverlay(SetFileText(s, p, fs[p]), p), {p})

\* didChangeConfiguration
DidChangeConfiguration ==
    /\ Message
    /\ UNCHANGED <<buffer, edited>>
    /\ server' = ReloadConfig(server, manifest)

\* didChangeWatchedFiles: the client reports what it saw, oldest first.
DidChangeWatchedFiles ==
    /\ Listening
    /\ events # <<>>
    /\ batch' = events
    /\ events' = <<>>
    /\ before' = View(server)
    /\ UNCHANGED <<fs, manifest, buffer, edited, flags, indexing, server, steps>>

\* Mutant: open documents are not spared.
RetireAnyOverlay(s, p) == ClearOverlay(s, p)

\* Mutant: an overlay nobody will close outlives the disk change (#83).
RetireNoOverlay(s, p) == s

\* retire_orphan_overlay
RetireOrphanOverlay(s, p) == IF p \in s.openDocs THEN s ELSE ClearOverlay(s, p)

\* An authoritative disk text arrives, and is published unless an open buffer
\* shadows it.
DiskText(s, p, t) ==
    LET u == RetireOrphanOverlay(SetFileText(s, p, t), p) IN
    PublishLua(u, {p} \ s.openDocs)

NextEvent ==
    /\ batch # <<>>
    /\ batch' = Tail(batch)
    /\ UNCHANGED <<environment, before, indexing, steps>>

ManifestEvent ==
    /\ NextEvent
    /\ Head(batch).kind = "manifest"
    /\ flags' = flags \cup {"reload"}
    /\ UNCHANGED server

\* Mutant: consumers are not told of a deletion (M58).
DeletedEventQuiet ==
    /\ NextEvent
    /\ Head(batch).kind = "deleted"
    /\ UNCHANGED flags
    /\ server' = DiskText(server, Head(batch).path, EmptyText)

\* There is no removal: a deleted file reads as an empty one.
DeletedEvent ==
    /\ NextEvent
    /\ Head(batch).kind = "deleted"
    /\ flags' = flags \cup {"republish"}
    /\ server' = DiskText(server, Head(batch).path, EmptyText)

ChangedEvent ==
    /\ NextEvent
    /\ Head(batch).kind = "changed"
    /\ LET p == Head(batch).path IN
       IF fs[p] # Absent
       THEN /\ flags' = flags \cup {"republish"}
            /\ server' = DiskText(server, p, fs[p])
       ELSE UNCHANGED <<flags, server>>

\* After the last event, one reload or one republish for the whole batch.
FinishBatch ==
    /\ batch = <<>> /\ before # None
    /\ flags' = {} /\ before' = None
    /\ server' = IF "reload" \in flags THEN ReloadConfig(server, manifest)
                 ELSE IF "republish" \in flags THEN RepublishOpenDocs(server)
                 ELSE server
    /\ UNCHANGED <<environment, batch, indexing, steps>>

Disk == \/ \E p \in Paths, t \in Layer : DiskMoves(p, t)
        \/ \E m \in Manifests : ManifestMoves(m)

Client ==
    \/ \E p \in Paths, t \in Texts : DidOpen(p, t) \/ DidChange(p, t)
    \/ \E p \in Paths : DidClose(p)
    \/ DidChangeConfiguration
    \/ DidChangeWatchedFiles

Handling == ManifestEvent \/ DeletedEvent \/ ChangedEvent \/ FinishBatch

\* Every step the bound allows is taken, and the server has caught up.
Quiet ==
    /\ Listening /\ events = <<>> /\ steps = MaxSteps
    /\ UNCHANGED vars

Next == Disk \/ Client \/ Handling \/ Quiet \/ \E p \in Paths : Bootstrap(p)

Spec == Init /\ [][Next]_vars

------------------------------------------------------------------------------
Events == [kind : {"changed", "deleted", "manifest"}, path : Paths \cup {Absent}]

Servers ==
    [disk : [Paths -> Layer], overlay : [Paths -> Layer], dialectOf : [Paths -> Dialects \cup {Absent}],
     hostStrictness : Levels, revision : Nat, config : Manifests, openDocs : SUBSET Paths,
     merged : [revision : Nat, world : Worlds, defs : Packages] \cup {None},
     cycles : [revision : Nat, world : Worlds, strictness : Levels] \cup {None},
     slot : [world : Worlds, strictness : Levels] \cup {None},
     checked : [Paths -> Views \cup {None}]]

\* The host holds text only for the paths it has interned.
KnownOnly(s) ==
    \A p \in Paths : ~Known(s, p) => s.disk[p] = Absent /\ s.overlay[p] = Absent

\* Every variable holds a value of its type.
TypeOK ==
    /\ fs \in [Paths -> Layer]
    /\ manifest \in Manifests
    /\ buffer \in [Paths -> Layer]
    /\ edited \subseteq Paths
    /\ events \in Seq(Events) /\ batch \in Seq(Events)
    /\ flags \subseteq {"reload", "republish"}
    /\ before \in Views \cup {None}
    /\ indexing \subseteq ProjectSources
    /\ steps \in 0..MaxSteps
    /\ server \in Servers /\ KnownOnly(server)

\* A merged ambient that would be served is the one that would be built: the
\* counter cannot see the definition packages move, so a reload must drop the
\* merge itself (merged_ambient; reload_config, "the one staleness the
\* revision key cannot see").
MergedAmbientFresh ==
    Fresh(server.merged, server) =>
        server.merged.world = World(server) /\ server.merged.defs = server.config.defs

\* The class-cycle pass needs no such care: "there is no staleness the key
\* cannot see", although it reads the server's strictness and not the host's
\* (class_cycles).
CyclePassFresh ==
    Fresh(server.cycles, server) =>
        /\ server.cycles.world = World(server)
        /\ server.cycles.strictness = server.config.strictness

\* No cache under the change counter is served stale.
CachesFresh == MergedAmbientFresh /\ CyclePassFresh

\* While anything is open, the workspace-derived findings on screen are those
\* of the workspace as it is: every way its declarations can move ends in a
\* pass, the close of a buffer with nothing on disk included (close, R13-A).
WorkspaceSlotCurrent ==
    Listening /\ server.openDocs # {} =>
        server.slot = [world |-> World(server), strictness |-> server.config.strictness]

\* An open document is what its client typed, whatever the disk does under it
\* (watched_files_changed; retire_orphan_overlay).
OpenTextIsTheClients ==
    \A p \in server.openDocs : EffectiveText(server, p) = buffer[p]

DiskTextOf(p) == IF fs[p] = Absent THEN EmptyText ELSE fs[p]

\* Once every event is handled, a file that is not open reads as it stands on
\* disk, a deleted one as empty, unless the client edited it since without
\* opening it (bootstrap, close, watched_files_changed; #83, N24).
QuietHostMatchesDisk ==
    Listening /\ events = <<>> =>
        \A p \in ProjectSources \ (server.openDocs \cup edited) :
            IF Known(server, p) THEN EffectiveText(server, p) = DiskTextOf(p)
                                ELSE fs[p] = Absent

\* A reload, and a batch that moved any file, leaves every open document
\* checked against the world as it then is: no consumer keeps a finding about
\* a dependency that moved (watched_files_changed, M58; reload_config).
OpenDocsRechecked ==
    [][(before # None /\ before' = None /\ View(server') # before) \/ DidChangeConfiguration
         => \A p \in server.openDocs : server'.checked[p] = View(server')]_vars

\* When every change has arrived, in whatever batches, the server holds the
\* client's text, and the places it names in it are those the client shows
\* (apply_content_changes; RangedEdits).
EditsArrive == E!EditsArrive

\* Every known file is parsed under the configured dialect (reload_config, "a
\* dialect change re-parses every known file under the new dialect").
KnownFilesUnderConfiguredDialect ==
    Listening => \A p \in Paths : Known(server, p) => server.dialectOf[p] = server.config.dialect

=============================================================================
