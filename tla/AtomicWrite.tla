----------------------------- MODULE AtomicWrite -----------------------------
(***************************************************************************)
(* write_atomic (atomic_write.rs) under the two commands that rewrite a    *)
(* user's sources, fmt and lint --fix: one file, a symbolic link to it     *)
(* that the project walk collects as well, and runs of luabox whose        *)
(* workers rewrite either at the same time, while the user saves, changes  *)
(* the mode of or deletes the file.  Any call may fail, a run may be       *)
(* killed between two calls, and the machine may lose power, which leaves  *)
(* what was synced and what the journal had taken of the directory.        *)
(***************************************************************************)
EXTENDS Naturals

CONSTANTS Src, Link,   \* the source, and a symbolic link to it
          SymLink,     \* what a directory holds for a symbolic link
          NoFile,      \* what it holds for a name with no file
          Inodes,      \* the files there may be
          Runs, Jobs,  \* processes, and their workers
          RunOf,       \* the process of each worker
          PathOf,      \* the path it was handed: Src or Link
          Pids,        \* process ids, which are used again
          MaxSeq,      \* bound on the temporaries of one process
          MaxSaves,    \* bound on the user's moves
          MaxLosses    \* bound on power losses

ASSUME WriteAssumption ==
    /\ Src # Link
    /\ NoFile \notin Inodes /\ SymLink \notin Inodes /\ NoFile # SymLink
    /\ RunOf \in [Jobs -> Runs] /\ PathOf \in [Jobs -> {Src, Link}]
    /\ MaxSeq \in Nat /\ MaxSaves \in Nat /\ MaxLosses \in Nat
    /\ {Src, Link, NoFile} \cap (Pids \X (0..MaxSeq)) = {}

VARIABLES dir,     \* what every name in the directory is
          journal, \* what Src is in the directory the disk holds
          file,    \* what every inode holds: text, mode, whether synced
          run,     \* every process: alive, its id, TEMP_SEQUENCE
          job,     \* every worker: where it is, what it read, what it holds
          litter,  \* temporaries whose writer died or could not remove them
          moves,   \* the user's moves so far
          losses,  \* the power losses so far
          held     \* the texts Src has held: a history variable

fs   == <<dir, journal, file>>
user == <<moves, losses, held>>
vars == <<fs, run, job, litter, user>>

(***************************************************************************)
(* A text is the user's save it stems from, and its form: raw as saved,    *)
(* neat as the command leaves it, torn when it is part of a text only.     *)
(***************************************************************************)
Texts   == [save : 0..MaxSaves, form : {"raw", "neat", "torn"}]
Temps   == Pids \X (0..MaxSeq)
Names   == {Src, Link} \cup Temps
Modes   == {"users", "fresh"}
Neat(t) == [t EXCEPT !.form = "neat"]
Torn(t) == [t EXCEPT !.form = "torn"]
Absent  == [save |-> 0, form |-> "absent"]

TextAt(i) == IF i \in Inodes THEN file[i].text ELSE Absent
Idle == [pc |-> "idle", text |-> Absent, temp |-> NoFile, inode |-> NoFile]

Init ==
    \E i \in Inodes :
        /\ dir = [n \in Names |-> IF n = Src THEN i ELSE IF n = Link THEN SymLink ELSE NoFile]
        /\ journal = i
        /\ file = [x \in Inodes |-> [text |-> [save |-> 0, form |-> "raw"],
                                     mode |-> "users", synced |-> TRUE]]
        /\ run = [r \in Runs |-> [alive |-> FALSE, pid |-> NoFile, seq |-> 0]]
        /\ job = [j \in Jobs |-> Idle]
        /\ litter = {}
        /\ moves = 0
        /\ losses = 0
        /\ held = {[save |-> 0, form |-> "raw"]}

------------------------------------------------------------------------------
(***************************************************************************)
(* The file system.  Opening a path follows the link; renaming onto one    *)
(* would replace it.                                                       *)
(***************************************************************************)
Resolved(p) == IF dir[p] = SymLink THEN Src ELSE p
InUse  == {dir[n] : n \in Names} \cup {journal} \cup {job[j].inode : j \in Jobs}
Unused == Inodes \ InUse

\* Src after a step: the history takes it up.
Notes == held' = held \cup {IF dir'[Src] \in Inodes THEN file'[dir'[Src]].text ELSE Absent}

\* The journal reaches the disk, at a moment of the kernel's choosing.
Commit ==
    /\ journal # dir[Src]
    /\ journal' = dir[Src]
    /\ UNCHANGED <<dir, file, run, job, litter, user>>

------------------------------------------------------------------------------
(***************************************************************************)
(* The user, whose editor writes in place and syncs.                       *)
(***************************************************************************)
Save ==
    /\ moves < MaxSaves
    /\ moves' = moves + 1
    /\ dir[Src] \in Inodes
    /\ file' = [file EXCEPT ![dir[Src]] =
           [@ EXCEPT !.text = [save |-> moves + 1, form |-> "raw"], !.synced = TRUE]]
    /\ UNCHANGED <<dir, journal, run, job, litter, losses>>
    /\ Notes

Delete ==
    /\ moves < MaxSaves
    /\ moves' = moves + 1
    /\ dir[Src] \in Inodes
    /\ dir' = [dir EXCEPT ![Src] = NoFile]
    /\ UNCHANGED <<journal, file, run, job, litter, losses>>
    /\ Notes

------------------------------------------------------------------------------
(***************************************************************************)
(* A run of fmt or lint --fix starts, under an id nothing alive uses, with *)
(* its sequence at zero; and ends when its workers are through.            *)
(***************************************************************************)
Start(r) ==
    /\ ~run[r].alive
    /\ \E p \in Pids :
          /\ \A q \in Runs : run[q].alive => run[q].pid # p
          /\ run' = [run EXCEPT ![r] = [alive |-> TRUE, pid |-> p, seq |-> 0]]
    /\ job' = [j \in Jobs |-> IF RunOf[j] = r THEN [Idle EXCEPT !.pc = "read"] ELSE job[j]]
    /\ UNCHANGED <<fs, litter, user>>

Finish(r) ==
    /\ run[r].alive
    /\ \A j \in Jobs : RunOf[j] = r => job[j].pc \in {"done", "failed"}
    /\ run' = [run EXCEPT ![r].alive = FALSE]
    /\ job' = [j \in Jobs |-> IF RunOf[j] = r THEN Idle ELSE job[j]]
    /\ UNCHANGED <<fs, litter, user>>

\* What a dead process leaves: temporaries nobody will remove.
Left(r) == {job[j].temp : j \in {k \in Jobs : RunOf[k] = r}} \cap {t \in Temps : dir[t] \in Inodes}

Kill(r) ==
    /\ run[r].alive
    /\ run' = [run EXCEPT ![r].alive = FALSE]
    /\ job' = [j \in Jobs |-> IF RunOf[j] = r THEN Idle ELSE job[j]]
    /\ litter' = litter \cup Left(r)
    /\ UNCHANGED <<fs, user>>

PowerLoss ==
    /\ losses < MaxLosses
    /\ losses' = losses + 1
    /\ \E source \in {journal, dir[Src]}, kept \in SUBSET {t \in Temps : dir[t] \in Inodes} :
          /\ dir' = [n \in Names |-> IF n = Src THEN source
                                     ELSE IF n = Link \/ n \in kept THEN dir[n] ELSE NoFile]
          /\ journal' = source
          /\ litter' = kept
    /\ \E torn \in SUBSET {i \in Inodes : ~file[i].synced} :
          file' = [i \in Inodes |-> [file[i] EXCEPT
                     !.text = IF i \in torn THEN Torn(@) ELSE @, !.synced = TRUE]]
    /\ run' = [r \in Runs |-> [run[r] EXCEPT !.alive = FALSE]]
    /\ job' = [j \in Jobs |-> Idle]
    /\ UNCHANGED moves
    /\ Notes

------------------------------------------------------------------------------
(***************************************************************************)
(* One rewrite, call by call.                                              *)
(***************************************************************************)
At(j, pc) == job[j].pc = pc
Goes(j, pc) == job' = [job EXCEPT ![j].pc = pc]

\* read_to_string, and what the command makes of it.
Read(j) ==
    /\ At(j, "read")
    /\ LET i == dir[Resolved(PathOf[j])] IN
       IF i \notin Inodes THEN Goes(j, "failed")
       ELSE IF file[i].text.form # "raw" THEN Goes(j, "done")
       ELSE job' = [job EXCEPT ![j].pc = "name", ![j].text = file[i].text]
    /\ UNCHANGED <<fs, run, litter, user>>

\* canonicalize, and temp_file_name: the pid and the next of the sequence.
Name(j) ==
    /\ At(j, "name")
    /\ run[RunOf[j]].seq < MaxSeq
    /\ IF dir[Resolved(PathOf[j])] \notin Inodes
       THEN Goes(j, "failed") /\ UNCHANGED run
       ELSE /\ job' = [job EXCEPT ![j].pc = "create",
                                  ![j].temp = <<run[RunOf[j]].pid, run[RunOf[j]].seq>>]
            /\ run' = [run EXCEPT ![RunOf[j]].seq = @ + 1]
    /\ UNCHANGED <<fs, litter, user>>

\* File::create: a new file, or one a dead process of this id left, emptied.
Create(j) ==
    /\ At(j, "create")
    /\ \E i \in Inodes :
          /\ IF dir[job[j].temp] \in Inodes THEN i = dir[job[j].temp] ELSE i \in Unused
          /\ dir' = [dir EXCEPT ![job[j].temp] = i]
          /\ file' = [file EXCEPT ![i] =
                 [text |-> Torn(job[j].text), synced |-> FALSE,
                  mode |-> IF dir[job[j].temp] = i THEN @.mode ELSE "fresh"]]
          /\ job' = [job EXCEPT ![j].pc = "write", ![j].inode = i]
    /\ litter' = litter \ {job[j].temp}
    /\ UNCHANGED <<journal, run, user>>

\* write_all.
Write(j) ==
    /\ At(j, "write")
    /\ file' = [file EXCEPT ![job[j].inode].text = Neat(job[j].text)]
    /\ Goes(j, "sync")
    /\ UNCHANGED <<dir, journal, run, litter, user>>

\* Mutant: the staged file is not synced before it is renamed.
SyncSkipped(j) ==
    /\ At(j, "sync")
    /\ Goes(j, "mode")
    /\ UNCHANGED <<fs, run, litter, user>>

\* sync_all, and the handle is dropped.
Sync(j) ==
    /\ At(j, "sync")
    /\ file' = [file EXCEPT ![job[j].inode].synced = TRUE]
    /\ Goes(j, "mode")
    /\ UNCHANGED <<dir, journal, run, litter, user>>

\* copy_permissions, which fails when the target is gone.
CopyMode(j) ==
    /\ At(j, "mode")
    /\ dir[Src] \in Inodes
    /\ file' = [file EXCEPT ![job[j].inode].mode = file[dir[Src]].mode]
    /\ Goes(j, "rename")
    /\ UNCHANGED <<dir, journal, run, litter, user>>

\* Mutant: the path as it was given.
TargetUnresolved(j) == PathOf[j]

\* The name the rename lands on: canonicalize's answer.
TargetOf(j) == Resolved(PathOf[j])

\* rename, and write_atomic returns.
Rename(j) ==
    /\ At(j, "rename")
    /\ dir' = [dir EXCEPT ![TargetOf(j)] = dir[job[j].temp], ![job[j].temp] = NoFile]
    /\ job' = [job EXCEPT ![j].pc = "done", ![j].inode = NoFile, ![j].temp = NoFile]
    /\ UNCHANGED <<journal, file, run, litter, moves, losses>>
    /\ Notes

\* Any call of stage_and_rename fails; a write may have put down a part.
Fails(j) ==
    /\ job[j].pc \in {"create", "write", "sync", "mode", "rename"}
    /\ Goes(j, "clean")
    /\ UNCHANGED <<fs, run, litter, user>>

\* Mutant: the error is passed on at once.
CleanNothing(j) ==
    /\ At(j, "clean")
    /\ job' = [job EXCEPT ![j].pc = "failed", ![j].inode = NoFile, ![j].temp = NoFile]
    /\ UNCHANGED <<fs, run, litter, user>>

\* remove_file, whose own failure is ignored, and the error is passed on.
Clean(j) ==
    /\ At(j, "clean")
    /\ job' = [job EXCEPT ![j].pc = "failed", ![j].inode = NoFile, ![j].temp = NoFile]
    /\ \/ /\ dir' = [dir EXCEPT ![job[j].temp] = NoFile]
          /\ litter' = litter \ {job[j].temp}
       \/ /\ dir[job[j].temp] \in Inodes
          /\ litter' = litter \cup {job[j].temp}
          /\ UNCHANGED dir
    /\ UNCHANGED <<journal, file, run, user>>

Worker(j) ==
    \/ Read(j) \/ Name(j) \/ Create(j) \/ Write(j) \/ Sync(j) \/ CopyMode(j)
    \/ Rename(j) \/ Fails(j) \/ Clean(j)

Next ==
    \/ Save \/ Delete \/ Commit \/ PowerLoss
    \/ \E r \in Runs : Start(r) \/ Finish(r) \/ Kill(r)
    \/ \E j \in Jobs : Worker(j)

Spec == Init /\ [][Next]_vars

------------------------------------------------------------------------------
(***************************************************************************)
(* Properties                                                              *)
(***************************************************************************)
Pcs == {"idle", "read", "name", "create", "write", "sync", "mode", "rename",
        "clean", "done", "failed"}

TypeOK ==
    /\ dir \in [Names -> Inodes \cup {NoFile, SymLink}]
    /\ journal \in Inodes \cup {NoFile}
    /\ file \in [Inodes -> [text : Texts, mode : Modes, synced : BOOLEAN]]
    /\ run \in [Runs -> [alive : BOOLEAN, pid : Pids \cup {NoFile}, seq : 0..MaxSeq]]
    /\ job \in [Jobs -> [pc : Pcs, text : Texts \cup {Absent},
                         temp : Temps \cup {NoFile}, inode : Inodes \cup {NoFile}]]
    /\ litter \subseteq Temps
    /\ moves \in 0..MaxSaves /\ losses \in 0..MaxLosses
    /\ held \subseteq Texts \cup {Absent}

\* Whoever opens the source finds a whole text, and so does whoever opens it
\* after a loss of power (write_atomic: "a concurrent reader sees either every
\* old byte or every new byte, never a prefix, and a crash at any point leaves
\* one of those two states").
SourceIsWhole ==
    \A i \in {dir[Src], journal} \cap Inodes : file[i].synced /\ file[i].text.form # "torn"

\* Two rewrites under way never stage into one file (temp_file_name), the
\* workers of one process, two processes and a process that inherits a dead
\* one's id included.
StagingIsPrivate ==
    \A j \in Jobs :
        /\ job[j].inode \in Inodes => job[j].inode \notin {dir[Src], journal}
        /\ \A k \in Jobs \ {j} :
              /\ job[j].temp \in Temps => job[j].temp # job[k].temp
              /\ job[j].inode \in Inodes => job[j].inode # job[k].inode

\* The source never takes on the mode a staged file is created with, and a
\* link to it stays a link (copy_permissions; "Symlinks are followed, on
\* purpose").
ModeAndLinkKept ==
    /\ dir[Src] \in Inodes => file[dir[Src]].mode = "users"
    /\ dir[Link] = SymLink

\* Every temporary in the directory is being staged, or was left by a process
\* that died or could not remove it ("on any failure the temp file is removed").
NoUnexplainedTemporary ==
    \A t \in Temps : dir[t] \in Inodes => t \in litter \/ \E j \in Jobs : job[j].temp = t

\* Replacing is atomic whatever fails (the header of atomic_write.rs).
Register == INSTANCE AtomicText WITH
    Saved   <- [save : 0..MaxSaves, form : {"raw"}] \cup {Absent},
    NewForm <- [t \in [save : 0..MaxSaves, form : {"raw"}] |-> Neat(t)],
    text    <- TextAt(dir[Src])
ImplementsAtomicText == Register!Spec
=============================================================================
