---------------------------- MODULE AnalysisHost ----------------------------
(***************************************************************************)
(* luabox-db: the virtual file system (vfs.rs) and the analysis host       *)
(* (host.rs) that keeps the salsa inputs in step with it.                  *)
(*                                                                         *)
(* The VFS interns a path once and keeps two layers of text for it, the    *)
(* disk text and an editor overlay that shadows it.  The host mirrors the  *)
(* effective text and dialect of every interned file into one salsa input  *)
(* per file, and counts the input writes: the counter is the key consumers *)
(* cache under.                                                            *)
(***************************************************************************)
EXTENDS Naturals, Sequences

CONSTANTS Paths,          \* file paths
          Texts,          \* file contents
          EmptyText,      \* the contents of an empty file
          Dialects,       \* Lua dialects
          DefaultDialect, \* AnalysisHost::default_dialect
          Levels,         \* strictness levels
          InitialLevel,
          Roots,          \* project roots
          NoRoot,         \* the empty root a new host starts with
          Absent,         \* None: no text in a layer, no input for a path
          NoSnapshot,     \* no snapshot is held
          MaxRevision     \* bound on the change counter

\* What the constants are.
HostAssumption ==
    /\ EmptyText \in Texts
    /\ DefaultDialect \in Dialects
    /\ InitialLevel \in Levels
    /\ NoRoot \in Roots
    /\ Absent \notin Texts
    /\ Absent \notin Dialects
    /\ Absent \notin [text: Texts, dialect: Dialects]
    /\ MaxRevision \in Nat

VARIABLES interned,   \* Vfs::paths, in interning order
          disk,       \* FileState::disk
          overlay,    \* FileState::overlay
          dialect,    \* FileState::dialect
          inputs,     \* AnalysisHost::inputs, the salsa SourceFile of a path
          files,      \* Project::files
          strictness, \* Project::strictness
          root,       \* Project::root
          revision,   \* AnalysisHost::revision
          held        \* an Analysis snapshot a consumer holds

vfs     == <<interned, disk, overlay, dialect>>
salsa   == <<inputs, files, strictness, root>>
vars    == <<vfs, salsa, revision, held>>

Layer     == Texts \cup {Absent}
Inputs    == [text: Texts, dialect: Dialects]
\* Everything a query can read: what two snapshots are compared on.
Worlds    == [inputs: [Paths -> Inputs \cup {Absent}], files: Seq(Paths),
              strictness: Levels, root: Roots]
Snapshots == [world: Worlds, revision: Nat]
World     == [inputs |-> inputs, files |-> files,
              strictness |-> strictness, root |-> root]
InitialWorld == [inputs |-> [p \in Paths |-> Absent], files |-> <<>>,
                 strictness |-> InitialLevel, root |-> NoRoot]

Known(p) == \E i \in 1..Len(interned) : interned[i] = p

Init ==
    /\ interned = <<>>
    /\ disk = [p \in Paths |-> Absent]
    /\ overlay = [p \in Paths |-> Absent]
    /\ dialect = [p \in Paths |-> Absent]
    /\ inputs = [p \in Paths |-> Absent]
    /\ files = <<>>
    /\ strictness = InitialLevel
    /\ root = NoRoot
    /\ revision = 0
    /\ held = NoSnapshot

------------------------------------------------------------------------------
\* Vfs::intern: a new path takes the next id and the given dialect; a known
\* one is left alone, whatever dialect is passed.
InternedWith(p) == IF Known(p) THEN interned ELSE Append(interned, p)

DialectSeed(p, d) == IF Known(p) THEN dialect[p] ELSE d

\* Vfs::effective_text of the two layers a change leaves behind.
EffectiveText(d, o) == IF o # Absent THEN o ELSE d

\* The salsa input sync_file derives: a file with no text reads as empty.
InputOf(d, o, dia) ==
    [text    |-> IF EffectiveText(d, o) = Absent THEN EmptyText
                                                ELSE EffectiveText(d, o),
     dialect |-> dia]

\* Mutant: a write of the dialect alone is not reported as a change.
SyncFileTextOnly(p, d, o, dia) ==
    LET input == InputOf(d, o, dia) IN
    /\ inputs' = [inputs EXCEPT ![p] = input]
    /\ files' = IF inputs[p] = Absent THEN Append(files, p) ELSE files
    /\ revision' = IF inputs[p] # Absent /\ inputs[p].text = input.text
                   THEN revision ELSE revision + 1
    /\ UNCHANGED <<strictness, root, held>>

\* AnalysisHost::sync_file after the layers of p became d, o and dia, and
\* apply_change's bump: the input is written, and the counter moves, only
\* when a field differs; a path seen for the first time joins the project.
SyncFile(p, d, o, dia) ==
    LET input == InputOf(d, o, dia) IN
    /\ inputs' = [inputs EXCEPT ![p] = input]
    /\ files' = IF inputs[p] = Absent THEN Append(files, p) ELSE files
    /\ revision' = IF inputs[p] = input THEN revision ELSE revision + 1
    /\ UNCHANGED <<strictness, root, held>>

\* One Change that rewrites the VFS state of p and syncs it.
Edit(p, d, o, dia) ==
    /\ revision < MaxRevision
    /\ interned' = InternedWith(p)
    /\ disk' = [disk EXCEPT ![p] = d]
    /\ overlay' = [overlay EXCEPT ![p] = o]
    /\ dialect' = [dialect EXCEPT ![p] = dia]
    /\ SyncFile(p, d, o, dia)

\* Change::SetFileText
SetFileText(p, d, t) == Edit(p, t, overlay[p], DialectSeed(p, d))

\* Change::SetOverlay: a new path is interned under the host's own default.
SetOverlay(p, t) == Edit(p, disk[p], t, DialectSeed(p, DefaultDialect))

\* Mutant: the overlay is dropped and the input left as it was.
ClearOverlayUnsynced(p) ==
    /\ Known(p)
    /\ overlay' = [overlay EXCEPT ![p] = Absent]
    /\ UNCHANGED <<interned, disk, dialect, salsa, revision, held>>

\* Change::ClearOverlay: a path never interned is not a change at all.
ClearOverlay(p) ==
    /\ Known(p)
    /\ Edit(p, disk[p], Absent, dialect[p])

\* Change::SetDialect interns an unknown path, which then has no text.
SetDialect(p, d) == Edit(p, disk[p], overlay[p], d)

\* Mutant: the new level is written and the counter left where it was.
SetStrictnessUncounted(s) ==
    /\ strictness' = s
    /\ UNCHANGED <<vfs, inputs, files, root, revision, held>>

\* Change::SetStrictness: written, and counted, only when it differs.
SetStrictness(s) ==
    /\ revision < MaxRevision
    /\ strictness' = s
    /\ revision' = IF strictness = s THEN revision ELSE revision + 1
    /\ UNCHANGED <<vfs, inputs, files, root, held>>

\* AnalysisHost::set_root counts every call, a repeated root included.
SetRoot(r) ==
    /\ revision < MaxRevision
    /\ root' = r
    /\ revision' = revision + 1
    /\ UNCHANGED <<vfs, inputs, files, strictness, held>>

\* AnalysisHost::snapshot: an immutable copy of every input and the counter.
Snapshot ==
    /\ held' = [world |-> World, revision |-> revision]
    /\ UNCHANGED <<vfs, salsa, revision>>

ApplyChange ==
    \/ \E p \in Paths, d \in Dialects, t \in Texts : SetFileText(p, d, t)
    \/ \E p \in Paths, t \in Texts : SetOverlay(p, t)
    \/ \E p \in Paths : ClearOverlay(p)
    \/ \E p \in Paths, d \in Dialects : SetDialect(p, d)
    \/ \E s \in Levels : SetStrictness(s)

Next ==
    \/ ApplyChange
    \/ \E r \in Roots : SetRoot(r)
    \/ Snapshot

Spec == Init /\ [][Next]_vars

------------------------------------------------------------------------------
\* Every variable holds a value of its type.
TypeOK ==
    /\ interned \in Seq(Paths)
    /\ disk \in [Paths -> Layer]
    /\ overlay \in [Paths -> Layer]
    /\ dialect \in [Paths -> Dialects \cup {Absent}]
    /\ inputs \in [Paths -> Inputs \cup {Absent}]
    /\ files \in Seq(Paths)
    /\ strictness \in Levels
    /\ root \in Roots
    /\ revision \in Nat
    /\ held \in Snapshots \cup {NoSnapshot}

\* The mirror is exact: whatever sequence of edits led here, the salsa input
\* of every interned path is what its two layers and its dialect say now, a
\* path that was never interned has no input, and the project lists the files
\* in interning order (host.rs sync_file: the only writer of both).
InputsMirrorVfs ==
    /\ files = interned
    /\ \A p \in Paths :
         inputs[p] = IF Known(p) THEN InputOf(disk[p], overlay[p], dialect[p])
                                 ELSE Absent

\* The cache key is sound: a snapshot taken at any earlier time whose
\* revision equals the host's now still describes every input there is
\* (host.rs: "Two snapshots with equal revisions saw identical inputs").
EqualRevisionSameWorld ==
    held # NoSnapshot /\ held.revision = revision => held.world = World

\* The host is a VersionedInputs whose world is everything a query reads.
Promise == INSTANCE VersionedInputs WITH world <- World
ImplementsVersionedInputs == Promise!Spec
=============================================================================
