------------------------------ MODULE Scaffold ------------------------------
(***************************************************************************)
(* luabox init and luabox new (scaffold.rs) in one directory: each looks   *)
(* before it starts and then writes the project's files one by one; any    *)
(* write may fail; and all the while the user makes the directory, writes  *)
(* and removes files of the same names.                                    *)
(***************************************************************************)
EXTENDS Naturals, Sequences

CONSTANTS Procs,    \* processes
          MaxMoves  \* bound on the user's moves

Written  == {"luabox.toml", "rockspec", "main.lua", "lib.lua", ".gitignore"}
Owners == {"nobody", "user", "luabox", "torn"}  \* a torn file is luabox's too

VARIABLES asked, \* every process: its command, init or new, and its layout
          dir,   \* whether the directory exists
          owner, \* who wrote each file of it
          there, \* the user's files each process started among, while the
                 \* user leaves them alone
          lost,  \* those of them it overwrote
          proc,  \* every process: where it is
          moves  \* the user's moves so far

vars == <<asked, dir, owner, there, lost, proc, moves>>

Init ==
    /\ asked \in [Procs -> [cmd : {"init", "new"}, entry : {"main.lua", "lib.lua"}]]
    /\ dir \in BOOLEAN
    /\ owner \in [Written -> IF dir THEN {"nobody", "user"} ELSE {"nobody"}]
    /\ there = [p \in Procs |-> {}]
    /\ lost = {}
    /\ proc = [p \in Procs |-> "start"]
    /\ moves = 0

Running(p) == proc[p] \notin {"start", "done", "failed"}

UserMoves ==
    /\ moves < MaxMoves
    /\ moves' = moves + 1
    /\ \/ ~dir /\ dir' = TRUE /\ UNCHANGED <<owner, there>>
       \/ /\ dir
          /\ \E f \in Written, o \in {"nobody", "user"} :
               /\ owner' = [owner EXCEPT ![f] = o]
               /\ there' = [p \in Procs |-> there[p] \ {f}]
          /\ UNCHANGED dir
    /\ UNCHANGED <<asked, lost, proc>>

------------------------------------------------------------------------------
Goes(p, pc) == proc' = [proc EXCEPT ![p] = pc]

Starts(p) == there' = [there EXCEPT ![p] = {f \in Written : owner[f] = "user"}]

\* Mutant: new into a directory that exists.
LookSeesNothing(p) ==
    /\ proc[p] = "start"
    /\ Goes(p, IF asked[p].cmd = "new" THEN "mkdir" ELSE "check")
    /\ Starts(p)
    /\ UNCHANGED <<asked, dir, owner, lost, moves>>

\* new: refuses a directory that exists.
Look(p) ==
    /\ proc[p] = "start"
    /\ IF asked[p].cmd = "new" THEN Goes(p, IF dir THEN "failed" ELSE "mkdir")
       ELSE dir /\ Goes(p, "check")
    /\ Starts(p)
    /\ UNCHANGED <<asked, dir, owner, lost, moves>>

\* create_dir_all, content with a directory another process made meanwhile.
MakeDir(p) ==
    /\ proc[p] = "mkdir"
    /\ dir' = TRUE
    /\ Goes(p, "check")
    /\ UNCHANGED <<asked, owner, there, lost, moves>>

\* init: refuses a directory with a manifest.
CheckManifest(p) ==
    /\ proc[p] = "check"
    /\ Goes(p, IF owner["luabox.toml"] # "nobody" THEN "failed" ELSE "manifest")
    /\ UNCHANGED <<asked, dir, owner, there, lost, moves>>

\* fs::write: the file is luabox's, whole or not.
Writes(p, f, next) ==
    /\ \/ owner' = [owner EXCEPT ![f] = "luabox"] /\ Goes(p, next)
       \/ owner' = [owner EXCEPT ![f] = "torn"] /\ Goes(p, "failed")
    /\ lost' = IF owner[f] = "user" /\ f \in there[p] THEN lost \cup {f} ELSE lost
    /\ UNCHANGED <<asked, dir, there, moves>>

Manifest(p)  == proc[p] = "manifest" /\ Writes(p, "luabox.toml", "rockspec")
Rockspec(p)  == proc[p] = "rockspec" /\ Writes(p, "rockspec", "entry")
EntryFile(p) == proc[p] = "entry" /\ Writes(p, asked[p].entry, "gitignore")

\* The .gitignore is written where there was none a moment before.
CheckGitignore(p) ==
    /\ proc[p] = "gitignore"
    /\ Goes(p, IF owner[".gitignore"] = "nobody" THEN "ignore" ELSE "done")
    /\ UNCHANGED <<asked, dir, owner, there, lost, moves>>

Gitignore(p) == proc[p] = "ignore" /\ Writes(p, ".gitignore", "done")

\* Any step may fail before it writes; so ends a process that is killed.
Fails(p) ==
    /\ Running(p)
    /\ Goes(p, "failed")
    /\ UNCHANGED <<asked, dir, owner, there, lost, moves>>

Next ==
    \/ UserMoves
    \/ \E p \in Procs : 
          \/ Look(p) \/ MakeDir(p) \/ CheckManifest(p) \/ Manifest(p) \/ Rockspec(p)
          \/ EntryFile(p) \/ CheckGitignore(p) \/ Gitignore(p) \/ Fails(p)

Spec == Init /\ [][Next]_vars

------------------------------------------------------------------------------
(***************************************************************************)
(* Properties                                                              *)
(***************************************************************************)
TypeOK ==
    /\ asked \in [Procs -> [cmd : {"init", "new"}, entry : {"main.lua", "lib.lua"}]]
    /\ dir \in BOOLEAN /\ owner \in [Written -> Owners] /\ lost \subseteq Written
    /\ there \in [Procs -> SUBSET Written]
    /\ proc \in [Procs -> {"start", "mkdir", "check", "manifest", "rockspec", "entry",
                      "gitignore", "ignore", "done", "failed"}]
    /\ moves \in Nat
    /\ ~dir => \A f \in Written : owner[f] = "nobody"

\* No manifest and no .gitignore that the user had when init or new began, and
\* has left alone since, is lost to it, failed and repeated as they may be,
\* side by side and with the user at work ("refusing to overwrite an existing
\* project"); and new loses no such file at all, not even to another new of
\* the same name.
UsersFilesSurvive ==
    /\ lost \cap {"luabox.toml", ".gitignore"} = {}
    /\ (\A p \in Procs : asked[p].cmd = "new") => lost = {}
=============================================================================
