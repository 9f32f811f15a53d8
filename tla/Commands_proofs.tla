-------------------------- MODULE Commands_proofs --------------------------
(***************************************************************************)
(* Proofs about the commands that end: upgrade, init and new, the exit     *)
(* status of any command, build, check's search for cyclic classes, and    *)
(* the bundle.  Each part has its own inductive invariant; the last but    *)
(* one section joins those of CommandLine, and the last is the bundle's.   *)
(***************************************************************************)
EXTENDS Bundler, CommandLine, Integers, Sequences, FiniteSetTheorems, WellFoundedInduction, TLAPS

------------------------------------------------------------------------------
(***************************************************************************)
(* Upgrades, for any number of processes, tags, builds and uploads.        *)
(***************************************************************************)
\* What is known of the constants.
LEMMA UpgradeConstants == Current \in Tags /\ NoBuild \notin Builds /\ MaxUploads \in Nat
BY CommandAssumption DEF U!UpgradeAssumption

\* What the server lists now, the history remembers.
ListingsRemembered == U!Listings \subseteq ever

\* A process that is to verify holds a listing of its own tag, and one that is
\* to replace the binary has made it executable.
Prepared ==
    \A p \in Procs :
        /\ proc[p].pc = "verify" => <<proc[p].tag, proc[p].sum>> \in ever
        /\ proc[p].pc \in {"sums", "verify"} => proc[p].archive \in Builds
        /\ proc[p].pc = "replace" => proc[p].exec

\* The inductive invariant of the upgrades.
UpgradeInv == U!TypeOK /\ U!InstalledWasListed /\ U!VerifiedIsInstalled /\ ListingsRemembered /\ Prepared

Upgrader == [pc : U!Pcs, tag : Tags, archive : Builds \cup {NoBuild}, sum : Builds \cup {NoBuild}, exec : BOOLEAN]

\* The invariant holds at the start.
LEMMA UpgradeInit == U!Init => UpgradeInv
<1> SUFFICES ASSUME U!Init PROVE UpgradeInv
  OBVIOUS
<1>1. U!Started \in Upgrader
  BY UpgradeConstants DEF U!Started, Upgrader, U!Pcs
<1>2. U!TypeOK
  BY <1>1, UpgradeConstants DEF U!Init, U!TypeOK, U!Listings, Upgrader
<1>3. U!InstalledWasListed /\ ListingsRemembered
  BY UpgradeConstants DEF U!Init, U!InstalledWasListed, ListingsRemembered, U!Listings
<1>4. U!VerifiedIsInstalled /\ Prepared
  BY DEF U!Init, U!VerifiedIsInstalled, Prepared, U!Started
<1>5. QED
  BY <1>2, <1>3, <1>4 DEF UpgradeInv

\* A step of one process that leaves the server and the binary alone keeps the
\* invariant when the process itself is as it should be.
LEMMA ProcessStep ==
    ASSUME UpgradeInv, NEW p \in Procs, NEW q \in Upgrader,
           proc' = [proc EXCEPT ![p] = q], UNCHANGED <<U!server, binary>>,
           q.pc = "verify" => <<q.tag, q.sum>> \in ever,
           q.pc \in {"sums", "verify"} => q.archive \in Builds,
           q.pc = "replace" => q.exec,
           q.pc \in {"extract", "chmod", "replace", "upgraded"} =>
               q.archive \in Builds /\ <<q.tag, q.archive>> \in ever
    PROVE  UpgradeInv'
<1>1. U!TypeOK'
  BY DEF UpgradeInv, U!TypeOK, U!server, Upgrader
<1>2. \A r \in Procs : proc'[r] = IF r = p THEN q ELSE proc[r]
  BY DEF UpgradeInv, U!TypeOK
<1>3. U!InstalledWasListed' /\ ListingsRemembered'
  BY DEF UpgradeInv, U!InstalledWasListed, ListingsRemembered, U!Listings, U!server
<1>4. U!VerifiedIsInstalled'
  BY <1>2 DEF UpgradeInv, U!VerifiedIsInstalled, U!server
<1>5. Prepared'
  BY <1>2 DEF UpgradeInv, Prepared, U!server
<1>6. QED
  BY <1>1, <1>3, <1>4, <1>5 DEF UpgradeInv

\* A failure is such a step.
LEMMA FailureStep ==
    ASSUME UpgradeInv, NEW p \in Procs, U!Fails(p), UNCHANGED <<U!server, binary>>
    PROVE  UpgradeInv'
<1> DEFINE q == [proc[p] EXCEPT !.pc = "failed"]
<1>1. proc' = [proc EXCEPT ![p] = q]
  BY DEF U!Fails, U!Goes
<1>2. q \in Upgrader /\ q.pc = "failed"
  BY DEF UpgradeInv, U!TypeOK, Upgrader, U!Pcs
<1>3. QED
  BY <1>1, <1>2, ProcessStep

\* Every step keeps the invariant.
LEMMA UpgradeNext == UpgradeInv /\ [U!Next]_(U!vars) => UpgradeInv'
<1> SUFFICES ASSUME UpgradeInv, [U!Next]_(U!vars) PROVE UpgradeInv'
  OBVIOUS
<1>1. CASE U!Upload
  <2>1. ever \subseteq ever' /\ U!Listings' \subseteq ever' /\ UNCHANGED <<binary, proc>>
    BY <1>1 DEF U!Upload, U!Listings
  <2>2. asset' \in [Tags -> Builds] /\ listed' \in [Tags -> Builds \cup {NoBuild}] /\ latest' \in Tags
    BY <1>1 DEF U!Upload, UpgradeInv, U!TypeOK
  <2>3. U!TypeOK'
    BY <1>1, <2>1, <2>2, UpgradeConstants DEF U!Upload, UpgradeInv, U!TypeOK
  <2>4. U!InstalledWasListed' /\ U!VerifiedIsInstalled' /\ Prepared'
    BY <2>1 DEF UpgradeInv, U!InstalledWasListed, U!VerifiedIsInstalled, Prepared
  <2>5. QED
    BY <2>1, <2>3, <2>4 DEF UpgradeInv, ListingsRemembered
<1>2. ASSUME NEW p \in Procs, U!Resolve(p) PROVE UpgradeInv'
  <2>1. ASSUME NEW t \in Tags, proc' = [proc EXCEPT ![p].pc = "archive", ![p].tag = t] PROVE UpgradeInv'
    <3> DEFINE q == [proc[p] EXCEPT !.pc = "archive", !.tag = t]
    <3>1. q \in Upgrader /\ q.pc = "archive" /\ proc' = [proc EXCEPT ![p] = q]
      BY <2>1 DEF UpgradeInv, U!TypeOK, Upgrader, U!Pcs
    <3>2. QED
      BY <1>2, <3>1, ProcessStep DEF U!Resolve
  <2>2. ASSUME U!Goes(p, "current") PROVE UpgradeInv'
    <3> DEFINE q == [proc[p] EXCEPT !.pc = "current"]
    <3>1. q \in Upgrader /\ q.pc = "current" /\ proc' = [proc EXCEPT ![p] = q]
      BY <2>2 DEF UpgradeInv, U!TypeOK, Upgrader, U!Pcs, U!Goes
    <3>2. QED
      BY <1>2, <3>1, ProcessStep DEF U!Resolve
  <2>3. latest \in Tags
    BY DEF UpgradeInv, U!TypeOK
  <2>4. QED
    BY <1>2, <2>1, <2>2, <2>3, FailureStep DEF U!Resolve
<1>3. ASSUME NEW p \in Procs, U!DownloadArchive(p) PROVE UpgradeInv'
  <2>1. ASSUME NEW b \in Builds, proc' = [proc EXCEPT ![p].pc = "sums", ![p].archive = b] PROVE UpgradeInv'
    <3> DEFINE q == [proc[p] EXCEPT !.pc = "sums", !.archive = b]
    <3>1. q \in Upgrader /\ q.pc = "sums" /\ q.archive = b /\ proc' = [proc EXCEPT ![p] = q]
      BY <2>1 DEF UpgradeInv, U!TypeOK, Upgrader, U!Pcs
    <3>2. QED
      BY <1>3, <3>1, ProcessStep DEF U!DownloadArchive
  <2>2. QED
    BY <1>3, <2>1, FailureStep DEF U!DownloadArchive
<1>4. ASSUME NEW p \in Procs, U!DownloadSums(p) PROVE UpgradeInv'
  <2>1. ASSUME proc' = [proc EXCEPT ![p].pc = "verify", ![p].sum = listed[proc[p].tag]] PROVE UpgradeInv'
    <3> DEFINE q == [proc[p] EXCEPT !.pc = "verify", !.sum = listed[proc[p].tag]]
    <3>1. proc[p].tag \in Tags /\ listed[proc[p].tag] \in Builds \cup {NoBuild}
      BY DEF UpgradeInv, U!TypeOK
    <3>2. q \in Upgrader /\ q.pc = "verify" /\ proc' = [proc EXCEPT ![p] = q]
      BY <2>1, <3>1 DEF UpgradeInv, U!TypeOK, Upgrader, U!Pcs
    <3>3. q.archive \in Builds
      BY <1>4 DEF U!DownloadSums, U!At, UpgradeInv, Prepared, U!TypeOK
    <3>4. <<q.tag, q.sum>> \in ever
      BY <3>1 DEF UpgradeInv, U!TypeOK, ListingsRemembered, U!Listings
    <3>5. QED
      BY <1>4, <3>2, <3>3, <3>4, ProcessStep DEF U!DownloadSums
  <2>2. QED
    BY <1>4, <2>1, FailureStep DEF U!DownloadSums
<1>5. ASSUME NEW p \in Procs, U!Verify(p) PROVE UpgradeInv'
  <2>1. ASSUME proc[p].sum = proc[p].archive, U!Goes(p, "extract") PROVE UpgradeInv'
    <3> DEFINE q == [proc[p] EXCEPT !.pc = "extract"]
    <3>1. q \in Upgrader /\ q.pc = "extract" /\ proc' = [proc EXCEPT ![p] = q]
      BY <2>1 DEF UpgradeInv, U!TypeOK, Upgrader, U!Pcs, U!Goes
    <3>2. q.archive \in Builds /\ <<q.tag, q.archive>> \in ever
      BY <1>5, <2>1 DEF U!Verify, U!At, UpgradeInv, Prepared, U!TypeOK
    <3>3. QED
      BY <1>5, <3>1, <3>2, ProcessStep DEF U!Verify
  <2>2. QED
    BY <1>5, <2>1, FailureStep DEF U!Verify
<1>6. ASSUME NEW p \in Procs, U!Extract(p) PROVE UpgradeInv'
  <2>1. ASSUME U!Goes(p, "chmod") PROVE UpgradeInv'
    <3> DEFINE q == [proc[p] EXCEPT !.pc = "chmod"]
    <3>1. q \in Upgrader /\ q.pc = "chmod" /\ proc' = [proc EXCEPT ![p] = q]
      BY <2>1 DEF UpgradeInv, U!TypeOK, Upgrader, U!Pcs, U!Goes
    <3>2. q.archive \in Builds /\ <<q.tag, q.archive>> \in ever
      BY <1>6 DEF U!Extract, U!At, UpgradeInv, U!VerifiedIsInstalled, U!TypeOK
    <3>3. QED
      BY <1>6, <3>1, <3>2, ProcessStep DEF U!Extract
  <2>2. QED
    BY <1>6, <2>1, FailureStep DEF U!Extract
<1>7. ASSUME NEW p \in Procs, U!SetExecutable(p) PROVE UpgradeInv'
  <2>1. ASSUME proc' = [proc EXCEPT ![p].pc = "replace", ![p].exec = TRUE] PROVE UpgradeInv'
    <3> DEFINE q == [proc[p] EXCEPT !.pc = "replace", !.exec = TRUE]
    <3>1. q \in Upgrader /\ q.pc = "replace" /\ q.exec /\ proc' = [proc EXCEPT ![p] = q]
      BY <2>1 DEF UpgradeInv, U!TypeOK, Upgrader, U!Pcs
    <3>2. q.archive \in Builds /\ <<q.tag, q.archive>> \in ever
      BY <1>7 DEF U!SetExecutable, U!At, UpgradeInv, U!VerifiedIsInstalled, U!TypeOK
    <3>3. QED
      BY <1>7, <3>1, <3>2, ProcessStep DEF U!SetExecutable
  <2>2. QED
    BY <1>7, <2>1, FailureStep DEF U!SetExecutable
<1>8. ASSUME NEW p \in Procs, U!SelfReplace(p) PROVE UpgradeInv'
  <2>1. ASSUME binary' = [tag |-> proc[p].tag, build |-> proc[p].archive, exec |-> proc[p].exec],
               U!Goes(p, "upgraded"), UNCHANGED U!server
        PROVE UpgradeInv'
    <3>1. /\ proc[p].archive \in Builds /\ <<proc[p].tag, proc[p].archive>> \in ever /\ proc[p].exec
          /\ proc[p].tag \in Tags
      BY <1>8 DEF U!SelfReplace, U!At, UpgradeInv, U!VerifiedIsInstalled, Prepared, U!TypeOK
    <3>2. proc' \in [Procs -> Upgrader]
      BY <2>1 DEF U!Goes, UpgradeInv, U!TypeOK, Upgrader, U!Pcs
    <3>3. U!TypeOK'
      BY <2>1, <3>1, <3>2 DEF UpgradeInv, U!TypeOK, Upgrader, U!server
    <3>4. U!InstalledWasListed' /\ ListingsRemembered'
      BY <2>1, <3>1 DEF U!InstalledWasListed, UpgradeInv, ListingsRemembered, U!Listings, U!server
    <3>5. /\ proc'[p].pc = "upgraded" /\ proc'[p].archive = proc[p].archive /\ proc'[p].tag = proc[p].tag
          /\ \A r \in Procs \ {p} : proc'[r] = proc[r]
      BY <2>1 DEF U!Goes, UpgradeInv, U!TypeOK
    <3>6. U!VerifiedIsInstalled' /\ Prepared'
      BY <2>1, <3>1, <3>5 DEF UpgradeInv, U!VerifiedIsInstalled, Prepared, U!server
    <3>7. QED
      BY <3>3, <3>4, <3>6 DEF UpgradeInv
  <2>2. QED
    BY <1>8, <2>1, FailureStep DEF U!SelfReplace
<1>9. ASSUME NEW p \in Procs, U!Kill(p) PROVE UpgradeInv'
  BY <1>9, FailureStep DEF U!Kill
<1>10. CASE UNCHANGED U!vars
  BY <1>10 DEF UpgradeInv, U!TypeOK, U!InstalledWasListed, U!VerifiedIsInstalled, ListingsRemembered, U!Listings, Prepared, U!vars, U!server
<1>11. QED
  BY <1>1, <1>2, <1>3, <1>4, <1>5, <1>6, <1>7, <1>8, <1>9, <1>10 DEF U!Next

\* The invariant is an invariant of the specification.
LEMMA UpgradeInductive == U!Spec => []UpgradeInv
<1>1. QED
  BY UpgradeInit, UpgradeNext, PTL DEF U!Spec

------------------------------------------------------------------------------
(***************************************************************************)
(* Scaffolding, for any number of processes and of the user's moves.       *)
(***************************************************************************)
\* What the user has left alone is still in its place, if not still the user's.
LeftInPlace == \A p \in Procs : \A f \in there[p] : owner[f] # "nobody"

\* A process about to write the manifest, or the .gitignore, has seen that there
\* is none: the user had none when it began, or has moved it since.
Unclaimed ==
    \A p \in Procs :
        /\ at[p] = "manifest" => "luabox.toml" \notin there[p]
        /\ at[p] = "ignore" => ".gitignore" \notin there[p]

\* A run of new that goes on has begun with no directory, and so among none of
\* the user's files.
NewBeganWithNothing ==
    \A p \in Procs : asked[p].cmd = "new" /\ S!Running(p) => there[p] = {}

\* The inductive invariant of the scaffolding.
ScaffoldInv == S!TypeOK /\ S!UsersFilesSurvive /\ LeftInPlace /\ Unclaimed /\ NewBeganWithNothing

\* The invariant holds at the start.
LEMMA ScaffoldInit == S!Init => ScaffoldInv
<1> SUFFICES ASSUME S!Init PROVE ScaffoldInv
  OBVIOUS
<1>1. S!TypeOK
  BY DEF S!Init, S!TypeOK, S!Owners
<1>2. S!UsersFilesSurvive /\ LeftInPlace /\ Unclaimed /\ NewBeganWithNothing
  BY DEF S!Init, S!UsersFilesSurvive, LeftInPlace, Unclaimed, NewBeganWithNothing
<1>3. QED
  BY <1>1, <1>2 DEF ScaffoldInv

\* A step that writes nothing, and sends one process on to where the invariant
\* lets it be, keeps the invariant.
LEMMA Moves ==
    ASSUME ScaffoldInv, NEW p \in Procs, NEW dir1 \in BOOLEAN,
           NEW pc \in {"check", "manifest", "ignore", "done", "failed"},
           at' = [at EXCEPT ![p] = pc], dir => dir1, dir' = dir1,
           UNCHANGED <<asked, owner, there, lost, moves>>, S!Running(p),
           pc = "manifest" => "luabox.toml" \notin there[p],
           pc = "ignore" => ".gitignore" \notin there[p]
    PROVE  ScaffoldInv'
<1>1. S!TypeOK'
  BY DEF ScaffoldInv, S!TypeOK
<1>2. S!UsersFilesSurvive' /\ LeftInPlace'
  BY DEF ScaffoldInv, S!UsersFilesSurvive, LeftInPlace
<1>3. \A q \in Procs : at'[q] = IF q = p THEN pc ELSE at[q]
  BY DEF ScaffoldInv, S!TypeOK
<1>4. Unclaimed'
  BY <1>3 DEF ScaffoldInv, Unclaimed
<1>5. NewBeganWithNothing'
  BY <1>3 DEF ScaffoldInv, NewBeganWithNothing, S!Running
<1>6. QED
  BY <1>1, <1>2, <1>4, <1>5 DEF ScaffoldInv

\* A write keeps the invariant when it spares the manifest and the .gitignore
\* the user had.
LEMMA WriteStep ==
    ASSUME ScaffoldInv, NEW p \in Procs, NEW f \in S!Written, NEW next \in {"rockspec", "entry", "gitignore", "done"},
           S!Running(p), S!Writes(p, f, next), dir,
           f \in {"luabox.toml", ".gitignore"} => f \notin there[p]
    PROVE  ScaffoldInv'
<1>1. PICK o \in {"luabox", "torn"}, pc \in {"rockspec", "entry", "gitignore", "done", "failed"} :
          owner' = [owner EXCEPT ![f] = o] /\ at' = [at EXCEPT ![p] = pc]
  BY DEF S!Writes, S!Goes
<1>2. /\ lost' = IF owner[f] = "user" /\ f \in there[p] THEN lost \cup {f} ELSE lost
      /\ UNCHANGED <<asked, dir, there, moves>>
  BY DEF S!Writes
<1>3. S!TypeOK'
  BY <1>1, <1>2 DEF ScaffoldInv, S!TypeOK, S!Owners
<1>4. /\ \A q \in Procs : at'[q] = IF q = p THEN pc ELSE at[q]
      /\ \A g \in S!Written : owner'[g] = IF g = f THEN o ELSE owner[g]
      /\ \A q \in Procs : there[q] \subseteq S!Written
  BY <1>1 DEF ScaffoldInv, S!TypeOK
<1>5. LeftInPlace' /\ Unclaimed'
  BY <1>2, <1>4 DEF ScaffoldInv, LeftInPlace, Unclaimed
<1>6. NewBeganWithNothing'
  BY <1>2, <1>4 DEF ScaffoldInv, NewBeganWithNothing, S!Running
<1>7. S!UsersFilesSurvive'
  BY <1>2 DEF ScaffoldInv, S!UsersFilesSurvive, NewBeganWithNothing
<1>8. QED
  BY <1>3, <1>5, <1>6, <1>7 DEF ScaffoldInv

\* A process that writes does so in a directory that exists.
WritesInADirectory == \A p \in Procs : at[p] \in {"check", "manifest", "rockspec", "entry", "gitignore", "ignore"} => dir

\* Nothing removes the directory.
LEMMA DirectoryStep == S!TypeOK /\ WritesInADirectory /\ [S!Next]_(S!vars) => WritesInADirectory'
<1> SUFFICES ASSUME S!TypeOK, WritesInADirectory, [S!Next]_(S!vars) PROVE WritesInADirectory'
  OBVIOUS
<1>1. CASE S!UserMoves
  BY <1>1 DEF S!UserMoves, WritesInADirectory
<1>2. ASSUME NEW p \in Procs, S!Look(p) PROVE WritesInADirectory'
  BY <1>2 DEF S!Look, S!Goes, WritesInADirectory, S!TypeOK
<1>3. ASSUME NEW p \in Procs, S!MakeDir(p) PROVE WritesInADirectory'
  BY <1>3 DEF S!MakeDir, S!Goes, WritesInADirectory, S!TypeOK
<1>4. ASSUME NEW p \in Procs, S!CheckManifest(p) PROVE WritesInADirectory'
  BY <1>4 DEF S!CheckManifest, S!Goes, WritesInADirectory, S!TypeOK
<1>5. ASSUME NEW p \in Procs, S!Manifest(p) \/ S!Rockspec(p) \/ S!EntryFile(p) \/ S!CheckGitignore(p) \/ S!Gitignore(p)
      PROVE  WritesInADirectory'
  BY <1>5 DEF S!Manifest, S!Rockspec, S!EntryFile, S!CheckGitignore, S!Gitignore, S!Writes, S!Goes, WritesInADirectory, S!TypeOK
<1>6. ASSUME NEW p \in Procs, S!Fails(p) PROVE WritesInADirectory'
  BY <1>6 DEF S!Fails, S!Goes, WritesInADirectory, S!TypeOK
<1>7. CASE UNCHANGED S!vars
  BY <1>7 DEF S!vars, WritesInADirectory
<1>8. QED
  BY <1>1, <1>2, <1>3, <1>4, <1>5, <1>6, <1>7 DEF S!Next

\* Every step keeps the invariant.
LEMMA ScaffoldNext == ScaffoldInv /\ WritesInADirectory /\ [S!Next]_(S!vars) => ScaffoldInv'
<1> SUFFICES ASSUME ScaffoldInv, WritesInADirectory, [S!Next]_(S!vars) PROVE ScaffoldInv'
  OBVIOUS
<1> USE DEF S!Goes
<1>1. CASE S!UserMoves
  <2> DEFINE Holdings == [S!Written -> S!Owners]
  <2>t. owner \in Holdings /\ there \in [Procs -> SUBSET S!Written] /\ moves \in Nat
    BY DEF ScaffoldInv, S!TypeOK
  <2>a. ASSUME dir' = TRUE, UNCHANGED <<owner, there>>
        PROVE  S!TypeOK'
    BY <1>1, <2>a DEF S!UserMoves, ScaffoldInv, S!TypeOK
  <2>b. ASSUME NEW f \in S!Written, NEW o \in {"nobody", "user"}, dir, UNCHANGED dir,
               owner' = [owner EXCEPT ![f] = o],
               there' = [p \in Procs |-> there[p] \ {f}]
        PROVE  S!TypeOK'
    <3>1. owner' \in Holdings
      BY <2>t, <2>b DEF S!Owners
    <3>2. there' \in [Procs -> SUBSET S!Written]
      BY <2>t, <2>b
    <3>3. QED
      BY <1>1, <2>b, <3>1, <3>2 DEF S!UserMoves, ScaffoldInv, S!TypeOK
  <2>1. S!TypeOK'
    BY <1>1, <2>a, <2>b, <2>t DEF S!UserMoves
  <2>2. UNCHANGED <<asked, lost, at>> /\ \A p \in Procs : there'[p] \subseteq there[p]
    BY <1>1 DEF S!UserMoves
  <2>3. LeftInPlace'
    BY <1>1, <2>2 DEF S!UserMoves, ScaffoldInv, S!TypeOK, LeftInPlace
  <2>4. S!UsersFilesSurvive' /\ Unclaimed' /\ NewBeganWithNothing'
    BY <2>2 DEF ScaffoldInv, S!UsersFilesSurvive, Unclaimed, NewBeganWithNothing, S!Running
  <2>5. QED
    BY <2>1, <2>3, <2>4 DEF ScaffoldInv
<1>2. ASSUME NEW p \in Procs, S!Look(p) PROVE ScaffoldInv'
  <2> DEFINE users == {f \in S!Written : owner[f] = "user"}
  <2>1. /\ UNCHANGED <<asked, dir, owner, lost, moves>> /\ there' = [there EXCEPT ![p] = users]
        /\ \E pc \in {"mkdir", "check", "failed"} :
             /\ at' = [at EXCEPT ![p] = pc]
             /\ pc = "failed" \/ (asked[p].cmd = "new" => ~dir)
    BY <1>2 DEF S!Look, S!Starts
  <2>2. PICK pc \in {"mkdir", "check", "failed"} :
           at' = [at EXCEPT ![p] = pc] /\ (pc = "failed" \/ (asked[p].cmd = "new" => ~dir))
    BY <2>1
  <2>3. S!TypeOK'
    BY <2>1, <2>2 DEF ScaffoldInv, S!TypeOK
  <2>4. /\ \A q \in Procs : at'[q] = IF q = p THEN pc ELSE at[q]
        /\ \A q \in Procs : there'[q] = IF q = p THEN users ELSE there[q]
    BY <2>1, <2>2 DEF ScaffoldInv, S!TypeOK
  <2>5. ~dir => users = {}
    BY DEF ScaffoldInv, S!TypeOK
  <2>6. LeftInPlace'
    BY <2>1, <2>4 DEF ScaffoldInv, LeftInPlace
  <2>7. S!UsersFilesSurvive'
    BY <2>1 DEF ScaffoldInv, S!UsersFilesSurvive
  <2> HIDE DEF users
  <2>8. Unclaimed'
    BY <2>4 DEF ScaffoldInv, Unclaimed
  <2>9. NewBeganWithNothing'
    BY <2>1, <2>2, <2>4, <2>5 DEF ScaffoldInv, NewBeganWithNothing, S!Running
  <2>10. QED
    BY <2>3, <2>6, <2>7, <2>8, <2>9 DEF ScaffoldInv
<1>3. ASSUME NEW p \in Procs, S!MakeDir(p) PROVE ScaffoldInv'
  BY <1>3, Moves DEF S!MakeDir, ScaffoldInv, S!TypeOK, S!Running
<1>4. ASSUME NEW p \in Procs, S!CheckManifest(p) PROVE ScaffoldInv'
  <2>1. owner["luabox.toml"] = "nobody" => "luabox.toml" \notin there[p]
    BY DEF ScaffoldInv, LeftInPlace
  <2>2. QED
    BY <1>4, <2>1, Moves DEF S!CheckManifest, ScaffoldInv, S!TypeOK, S!Running
<1>5. ASSUME NEW p \in Procs, S!Manifest(p) PROVE ScaffoldInv'
  <2>1. "luabox.toml" \notin there[p] /\ S!Running(p) /\ dir
    BY <1>5 DEF S!Manifest, ScaffoldInv, Unclaimed, S!Running, WritesInADirectory
  <2>2. QED
    BY <1>5, <2>1, WriteStep DEF S!Manifest, S!Written
<1>6. ASSUME NEW p \in Procs, S!Rockspec(p) PROVE ScaffoldInv'
  BY <1>6, WriteStep DEF S!Rockspec, S!Written, S!Running, WritesInADirectory
<1>7. ASSUME NEW p \in Procs, S!EntryFile(p) PROVE ScaffoldInv'
  <2>1. asked[p].entry \in {"main.lua", "lib.lua"}
    BY DEF ScaffoldInv, S!TypeOK
  <2>2. QED
    BY <1>7, <2>1, WriteStep DEF S!EntryFile, S!Written, S!Running, WritesInADirectory
<1>8. ASSUME NEW p \in Procs, S!CheckGitignore(p) PROVE ScaffoldInv'
  <2>1. owner[".gitignore"] = "nobody" => ".gitignore" \notin there[p]
    BY DEF ScaffoldInv, LeftInPlace
  <2>2. QED
    BY <1>8, <2>1, Moves DEF S!CheckGitignore, ScaffoldInv, S!TypeOK, S!Running
<1>9. ASSUME NEW p \in Procs, S!Gitignore(p) PROVE ScaffoldInv'
  <2>1. ".gitignore" \notin there[p] /\ S!Running(p) /\ dir
    BY <1>9 DEF S!Gitignore, ScaffoldInv, Unclaimed, S!Running, WritesInADirectory
  <2>2. QED
    BY <1>9, <2>1, WriteStep DEF S!Gitignore, S!Written
<1>10. ASSUME NEW p \in Procs, S!Fails(p) PROVE ScaffoldInv'
  BY <1>10, Moves DEF S!Fails, ScaffoldInv, S!TypeOK
<1>11. CASE UNCHANGED S!vars
  BY <1>11 DEF S!vars, ScaffoldInv, S!TypeOK, S!UsersFilesSurvive, LeftInPlace, Unclaimed,
             NewBeganWithNothing, S!Running
<1>12. QED
  BY <1>1, <1>2, <1>3, <1>4, <1>5, <1>6, <1>7, <1>8, <1>9, <1>10, <1>11 DEF S!Next

\* The invariant is an invariant of the specification.
LEMMA ScaffoldInductive == S!Spec => [](ScaffoldInv /\ WritesInADirectory)
<1>1. S!Init => WritesInADirectory
  BY DEF S!Init, WritesInADirectory
<1>2. ScaffoldInv => S!TypeOK
  BY DEF ScaffoldInv
<1>3. QED
  BY <1>1, <1>2, ScaffoldInit, ScaffoldNext, DirectoryStep, PTL DEF S!Spec

------------------------------------------------------------------------------
(***************************************************************************)
(* The exit status, for any of the commands, whatever their gates find,    *)
(* their calls and writes come to and their readers do.                    *)
(***************************************************************************)
Verdicts == {"check", "lint", "fmt", "lowering", "parse"}
Effects  == {"sources", "tree", "pages", "binary", "first", "second"}
Steps == {V!Try} \cup {V!Do(e) : e \in Effects} \cup {V!Record(g) : g \in Verdicts} \cup {V!BailOn(g) : g \in Verdicts}
             \cup {V!Report(s) : s \in V!Streams} \cup {V!Say(s) : s \in V!Streams}
Failing == <<[kind |-> "error", of |-> "stderr"]>>
Elements(s) == {s[k] : k \in DOMAIN s}

\* What is to come is part of the command, or its error message.
VerdictTypeOK ==
    /\ cmd \in Commands
    /\ rest = Failing \/ rest \in Seq(Steps)
    /\ recorded \in {0, 1} /\ failed \in BOOLEAN
    /\ readers \subseteq V!Streams /\ exit \in {V!Running, 0, 1}

\* Until the command fails, what has not been made or judged is to come.
Promises ==
    exit = V!Running =>
        IF rest = Failing THEN failed \/ problems # {}
        ELSE /\ ~failed
             /\ \A g \in problems : V!BailOn(g) \in Elements(rest)
             /\ V!Promised(cmd) = done \cup {s.of : s \in {t \in Elements(rest) : t.kind = "do"}}

\* The commands of one gate, which record its verdict before they write.
Judges == {"check", "lint_fix", "fmt_check"}
RecordsFirst(s) ==
    \E k \in DOMAIN s : /\ s[k].kind = "record"
                        /\ \A j \in DOMAIN s : j < k => s[j].kind \in {"try", "do"}
Recorded == recorded = 1 <=> problems # {}
RecordedInTime ==
    cmd \in Judges /\ exit = V!Running /\ ~failed =>
        /\ Recorded \/ (rest # Failing /\ RecordsFirst(rest))
        /\ \A s \in Elements(rest) : s.kind = "record" => problems \subseteq {s.of}

\* The inductive invariant of the exit status.
VerdictInv == VerdictTypeOK /\ Promises /\ RecordedInTime /\ AttendedVerdict /\ VerdictSurvives

\* The elements of a sequence, of its head and tail, and of two in a row.
LEMMA ElementsOfTail ==
    ASSUME NEW T, NEW s \in Seq(T), s # <<>>
    PROVE  /\ Head(s) \in T /\ Tail(s) \in Seq(T) /\ Head(s) = s[1]
           /\ DOMAIN s = 1..Len(s) /\ Len(s) \in Nat /\ Len(Tail(s)) = Len(s) - 1 /\ DOMAIN Tail(s) = 1..(Len(s) - 1)
           /\ \A k \in DOMAIN Tail(s) : Tail(s)[k] = s[k + 1]
           /\ Elements(s) = {Head(s)} \cup Elements(Tail(s))
<1>1. Head(s) \in T /\ Tail(s) \in Seq(T) /\ Head(s) = s[1]
  OBVIOUS
<1>2. Len(s) \in Nat /\ Len(s) # 0 /\ DOMAIN s = 1..Len(s)
  OBVIOUS
<1>3. Len(Tail(s)) = Len(s) - 1
  OBVIOUS
<1>4. DOMAIN Tail(s) = 1..(Len(s) - 1)
  BY <1>1, <1>2, <1>3
<1>5. \A k \in DOMAIN Tail(s) : Tail(s)[k] = s[k + 1]
  BY <1>2, <1>4
<1>6. ASSUME NEW k \in DOMAIN s, k # 1 PROVE s[k] \in Elements(Tail(s))
  <2>1. k - 1 \in 1..(Len(s) - 1) /\ k = k - 1 + 1
    BY <1>2, <1>6
  <2>2. Tail(s)[k - 1] = s[k]
    BY <1>4, <1>5, <2>1
  <2>3. QED
    BY <1>4, <2>1, <2>2 DEF Elements
<1>7. ASSUME NEW k \in DOMAIN Tail(s) PROVE Tail(s)[k] \in Elements(s)
  <2>1. k + 1 \in DOMAIN s
    BY <1>2, <1>4
  <2>2. QED
    BY <1>5, <2>1 DEF Elements
<1>8. 1 \in DOMAIN s
  BY <1>2
<1>9. Elements(s) = {Head(s)} \cup Elements(Tail(s))
  BY <1>1, <1>6, <1>7, <1>8 DEF Elements
<1>10. QED
  BY <1>1, <1>2, <1>3, <1>4, <1>5, <1>9

\* The elements of a sequence are of its set.
LEMMA ElementsAreOf == ASSUME NEW T, NEW s \in Seq(T) PROVE \A e \in Elements(s) : e \in T
BY DEF Elements

\* What a step may be.
LEMMA StepFacts ==
    ASSUME NEW s \in Steps
    PROVE  /\ s.kind \in {"try", "do", "record", "report", "say", "bail"}
           /\ s.kind \in {"report", "say"} => s.of \in V!Streams
           /\ s.kind = "bail" => s = V!BailOn(s.of)
<1> USE DEF V!Try, V!Do, V!Record, V!BailOn, V!Report, V!Say
<1>1. CASE s = V!Try
  BY <1>1
<1>2. ASSUME NEW e \in Effects, s = V!Do(e) PROVE s.kind = "do"
  BY <1>2
<1>3. ASSUME NEW g \in Verdicts, s = V!Record(g) PROVE s.kind = "record"
  BY <1>3
<1>4. ASSUME NEW g \in Verdicts, s = V!BailOn(g) PROVE s.kind = "bail" /\ s = V!BailOn(s.of)
  BY <1>4
<1>5. ASSUME NEW t \in V!Streams, s = V!Report(t) PROVE s.kind = "report" /\ s.of \in V!Streams
  BY <1>5
<1>6. ASSUME NEW t \in V!Streams, s = V!Say(t) PROVE s.kind = "say" /\ s.of \in V!Streams
  BY <1>6
<1>7. QED
  BY <1>1, <1>2, <1>3, <1>4, <1>5, <1>6 DEF Steps

\* The error message is no step of a command.
LEMMA FailingIsNoStep ==
    /\ Failing \notin Seq(Steps) /\ Failing # <<>>
    /\ Head(Failing).kind = "error" /\ Head(Failing).of = "stderr" /\ \A s \in Elements(Failing) : s.kind = "error"
<1> DEFINE e == [kind |-> "error", of |-> "stderr"]
<1>1. e.kind = "error" /\ e.of = "stderr"
  OBVIOUS
<1>2. Failing = <<e>>
  BY DEF Failing
<1> HIDE DEF e
<1>3. Failing # <<>> /\ DOMAIN Failing = {1} /\ Failing[1] = e /\ Head(Failing) = e
  BY <1>2
<1>4. e \notin Steps
  BY <1>1, StepFacts
<1>5. Failing \notin Seq(Steps)
  BY <1>3, <1>4, ElementsOfTail
<1>6. Elements(Failing) = {e}
  BY <1>3 DEF Elements
<1>7. QED
  BY <1>1, <1>3, <1>5, <1>6

\* A sequence that records first does so after its head too.
LEMMA RecordsLater ==
    ASSUME NEW s \in Seq(Steps), s # <<>>, RecordsFirst(s), Head(s).kind # "record"
    PROVE  Head(s).kind \in {"try", "do"} /\ RecordsFirst(Tail(s))
<1>1. /\ Head(s) = s[1] /\ DOMAIN s = 1..Len(s) /\ Len(s) \in Nat /\ DOMAIN Tail(s) = 1..(Len(s) - 1)
      /\ \A k \in DOMAIN Tail(s) : Tail(s)[k] = s[k + 1]
  BY ElementsOfTail
<1>2. PICK k \in DOMAIN s : s[k].kind = "record" /\ \A j \in DOMAIN s : j < k => s[j].kind \in {"try", "do"}
  BY DEF RecordsFirst
<1>3. k # 1 /\ 1 < k /\ 1 \in DOMAIN s
  BY <1>1, <1>2
<1>4. k - 1 \in DOMAIN Tail(s) /\ Tail(s)[k - 1] = s[k]
  <2>1. k - 1 \in 1..(Len(s) - 1) /\ k = k - 1 + 1
    BY <1>1, <1>3
  <2>2. QED
    BY <1>1, <2>1
<1>5. ASSUME NEW j \in DOMAIN Tail(s), j < k - 1 PROVE Tail(s)[j].kind \in {"try", "do"}
  <2>1. j + 1 \in DOMAIN s /\ j + 1 < k
    BY <1>1, <1>5
  <2>2. QED
    BY <1>1, <1>2, <2>1
<1>6. Head(s).kind \in {"try", "do"}
  BY <1>1, <1>2, <1>3
<1>7. QED
  BY <1>2, <1>4, <1>5, <1>6 DEF RecordsFirst


\* Every command is made of such steps.
LEMMA ProgramSteps == \A c \in DOMAIN V!Program : V!Program[c] \in Seq(Steps)
<1>1. /\ V!Try \in Steps
      /\ \A e \in Effects : V!Do(e) \in Steps
      /\ \A g \in Verdicts : V!Record(g) \in Steps /\ V!BailOn(g) \in Steps
      /\ V!Report("stdout") \in Steps /\ V!Report("stderr") \in Steps
      /\ V!Say("stdout") \in Steps /\ V!Say("stderr") \in Steps
  BY DEF Steps, V!Streams
<1>2. \A s, t \in Seq(Steps) : s \o t \in Seq(Steps)
  OBVIOUS
<1>3. \A g \in Verdicts : V!Render(g) \in Seq(Steps)
  BY <1>1 DEF V!Render
<1>4. \A g \in Verdicts : V!Finish(g) \in Seq(Steps)
  <2> TAKE g \in Verdicts
  <2>1. <<V!Say("stderr"), V!BailOn(g)>> \in Seq(Steps)
    BY <1>1
  <2>2. QED
    BY <1>2, <1>3, <2>1 DEF V!Finish
<1> USE DEF Verdicts, Effects
<1>5. V!CheckGate \in Seq(Steps) /\ V!Check \in Seq(Steps)
  <2>1. <<V!Try>> \in Seq(Steps)
    BY <1>1
  <2>2. QED
    BY <1>2, <1>4, <2>1 DEF V!CheckGate, V!Check
<1>6. V!LintFix \in Seq(Steps)
  <2>1. <<V!Try, V!Do("sources")>> \in Seq(Steps)
    BY <1>1
  <2>2. QED
    BY <1>2, <1>4, <2>1 DEF V!LintFix
<1>7. V!FmtCheck \in Seq(Steps) /\ V!Fmt \in Seq(Steps) /\ V!Upgrade \in Seq(Steps)
  BY <1>1 DEF V!FmtCheck, V!Fmt, V!Upgrade
<1>8. \A e \in Effects : V!BuildEntry(e) \in Seq(Steps)
  <2> TAKE e \in Effects
  <2>1. <<V!Try>> \in Seq(Steps) /\ <<V!BailOn("lowering"), V!Do(e), V!Say("stdout")>> \in Seq(Steps)
    BY <1>1
  <2>2. <<V!Try>> \o V!Render("lowering") \in Seq(Steps)
    BY <1>2, <1>3, <2>1
  <2>3. QED
    BY <1>2, <2>1, <2>2 DEF V!BuildEntry
<1>9. V!Build \in Seq(Steps)
  <2>1. <<V!Try>> \in Seq(Steps) /\ V!BuildEntry("first") \in Seq(Steps) /\ V!BuildEntry("second") \in Seq(Steps)
    BY <1>1, <1>8
  <2>2. <<V!Try>> \o V!CheckGate \in Seq(Steps)
    BY <1>2, <1>5, <2>1
  <2>3. <<V!Try>> \o V!CheckGate \o V!BuildEntry("first") \in Seq(Steps)
    BY <1>2, <2>1, <2>2
  <2>4. QED
    BY <1>2, <2>1, <2>3 DEF V!Build
<1>10. V!Tree \in Seq(Steps)
  <2>1. <<V!Try, V!Do("tree")>> \in Seq(Steps) /\ <<V!BailOn("lowering"), V!Say("stdout")>> \in Seq(Steps)
    BY <1>1
  <2>2. V!CheckGate \o <<V!Try, V!Do("tree")>> \in Seq(Steps)
    BY <1>2, <1>5, <2>1
  <2>3. V!CheckGate \o <<V!Try, V!Do("tree")>> \o V!Render("lowering") \in Seq(Steps)
    BY <1>2, <1>3, <2>2
  <2>4. QED
    BY <1>2, <2>1, <2>3 DEF V!Tree
<1>11. V!Doc \in Seq(Steps)
  <2>1. /\ <<V!Try, V!Report("stderr")>> \in Seq(Steps)
        /\ <<V!BailOn("parse"), V!Do("pages"), V!Say("stderr")>> \in Seq(Steps)
    BY <1>1
  <2>2. <<V!Try, V!Report("stderr")>> \o V!Render("parse") \in Seq(Steps)
    BY <1>2, <1>3, <2>1
  <2>3. QED
    BY <1>2, <2>1, <2>2 DEF V!Doc
<1>12. QED
  BY <1>5, <1>6, <1>7, <1>9, <1>10, <1>11 DEF V!Program

\* Two sequences in a row.
LEMMA InARow ==
    ASSUME NEW s \in Seq(Steps), NEW t \in Seq(Steps)
    PROVE  /\ Elements(s \o t) = Elements(s) \cup Elements(t)
           /\ RecordsFirst(t) /\ (\A e \in Elements(s) : e.kind \in {"try", "do"}) => RecordsFirst(s \o t)
           /\ RecordsFirst(s) => RecordsFirst(s \o t)
<1> DEFINE both == s \o t
           m == Len(s)
           n == Len(t)
<1>1. /\ DOMAIN both = 1..(m + n) /\ DOMAIN s = 1..m /\ DOMAIN t = 1..n /\ m \in Nat /\ n \in Nat
      /\ \A k \in 1..(m + n) : both[k] = IF k <= m THEN s[k] ELSE t[k - m]
  <2>1. Len(both) = m + n /\ m \in Nat /\ n \in Nat
    OBVIOUS
  <2>2. DOMAIN s = 1..m /\ DOMAIN t = 1..n
    OBVIOUS
  <2>3. both \in Seq(Steps)
    OBVIOUS
  <2>4. DOMAIN both = 1..(m + n)
    BY <2>1, <2>3
  <2>5. \A k \in 1..(m + n) : both[k] = IF k <= m THEN s[k] ELSE t[k - m]
    OBVIOUS
  <2>6. QED
    BY <2>1, <2>2, <2>4, <2>5
<1> HIDE DEF both, m, n
<1>2. \A k \in 1..m : k \in 1..(m + n) /\ both[k] = s[k]
  BY <1>1
<1>3. \A k \in 1..n : m + k \in 1..(m + n) /\ both[m + k] = t[k]
  <2> SUFFICES ASSUME NEW k \in 1..n PROVE m + k \in 1..(m + n) /\ both[m + k] = t[k]
    OBVIOUS
  <2>1. m + k \in 1..(m + n) /\ ~(m + k <= m) /\ m + k - m = k
    BY <1>1
  <2>2. QED
    BY <1>1, <2>1
<1>4. \A k \in 1..(m + n) : k \in 1..m \/ \E j \in 1..n : k = m + j
  <2> SUFFICES ASSUME NEW k \in 1..(m + n), ~(k \in 1..m) PROVE \E j \in 1..n : k = m + j
    OBVIOUS
  <2>1. k - m \in 1..n /\ k = m + (k - m)
    BY <1>1
  <2>2. QED
    BY <2>1
<1>5. Elements(both) = Elements(s) \cup Elements(t)
  <2>1. \A k \in DOMAIN s : s[k] \in Elements(both)
    BY <1>1, <1>2 DEF Elements
  <2>2. \A k \in DOMAIN t : t[k] \in Elements(both)
    BY <1>1, <1>3 DEF Elements
  <2>3. \A k \in DOMAIN both : both[k] \in Elements(s) \cup Elements(t)
    <3> SUFFICES ASSUME NEW k \in 1..(m + n) PROVE both[k] \in Elements(s) \cup Elements(t)
      BY <1>1
    <3>1. CASE k \in 1..m
      BY <1>1, <1>2, <3>1 DEF Elements
    <3>2. ASSUME NEW j \in 1..n, k = m + j PROVE both[k] \in Elements(t)
      BY <1>1, <1>3, <3>2 DEF Elements
    <3>3. QED
      BY <1>4, <3>1, <3>2
  <2>4. QED
    BY <2>1, <2>2, <2>3 DEF Elements
<1>6. ASSUME RecordsFirst(t), \A e \in Elements(s) : e.kind \in {"try", "do"} PROVE RecordsFirst(both)
  <2>1. PICK k \in 1..n : t[k].kind = "record" /\ \A j \in 1..n : j < k => t[j].kind \in {"try", "do"}
    BY <1>1, <1>6 DEF RecordsFirst
  <2>2. ASSUME NEW l \in 1..(m + n), l < m + k PROVE both[l].kind \in {"try", "do"}
    <3>1. CASE l \in 1..m
      BY <1>1, <1>2, <1>6, <3>1 DEF Elements
    <3>2. ASSUME NEW j \in 1..n, l = m + j PROVE both[l].kind \in {"try", "do"}
      <4>1. j < k
        BY <1>1, <2>2, <3>2
      <4>2. QED
        BY <1>3, <2>1, <3>2, <4>1
    <3>3. QED
      BY <1>4, <3>1, <3>2
  <2>3. QED
    BY <1>1, <1>3, <2>1, <2>2 DEF RecordsFirst
<1>7. ASSUME RecordsFirst(s) PROVE RecordsFirst(both)
  <2>1. PICK k \in 1..m : s[k].kind = "record" /\ \A j \in 1..m : j < k => s[j].kind \in {"try", "do"}
    BY <1>1, <1>7 DEF RecordsFirst
  <2>2. ASSUME NEW l \in 1..(m + n), l < k PROVE both[l].kind \in {"try", "do"}
    <3>1. l \in 1..m
      BY <1>1, <2>2
    <3>2. QED
      BY <1>2, <2>1, <2>2, <3>1
  <2>3. QED
    BY <1>1, <1>2, <2>1, <2>2 DEF RecordsFirst
<1>8. QED
  BY <1>5, <1>6, <1>7 DEF both

\* The gate of a command of one gate.
Gate(c) == CASE c = "check" -> "check" [] c = "lint_fix" -> "lint" [] c = "fmt_check" -> "fmt"
OfGate(s, g) == \A e \in Elements(s) : e.kind \in {"record", "bail"} => e.of = g

\* Those commands record the verdict of their one gate before they write.
LEMMA JudgesRecord == \A c \in Judges : RecordsFirst(V!Program[c]) /\ OfGate(V!Program[c], Gate(c))
<1>1. /\ V!Try \in Steps /\ V!Try.kind = "try" /\ V!Do("sources") \in Steps /\ V!Do("sources").kind = "do"
      /\ V!Report("stdout") \in Steps /\ V!Report("stdout").kind = "report"
      /\ V!Say("stdout") \in Steps /\ V!Say("stdout").kind = "say" /\ V!Say("stderr") \in Steps /\ V!Say("stderr").kind = "say"
      /\ \A g \in Verdicts : V!Record(g) \in Steps /\ V!Record(g).kind = "record" /\ V!Record(g).of = g
      /\ \A g \in Verdicts : V!BailOn(g) \in Steps /\ V!BailOn(g).kind = "bail" /\ V!BailOn(g).of = g
  <2>1. /\ V!Try.kind = "try" /\ V!Do("sources").kind = "do" /\ V!Report("stdout").kind = "report"
        /\ V!Say("stdout").kind = "say" /\ V!Say("stderr").kind = "say"
        /\ \A g \in Verdicts : V!Record(g).kind = "record" /\ V!Record(g).of = g
        /\ \A g \in Verdicts : V!BailOn(g).kind = "bail" /\ V!BailOn(g).of = g
    BY DEF V!Try, V!Do, V!Record, V!BailOn, V!Report, V!Say
  <2>2. QED
    BY <2>1 DEF Steps, Effects, V!Streams
<1>2. ASSUME NEW g \in Verdicts
      PROVE  /\ V!Finish(g) \in Seq(Steps) /\ RecordsFirst(V!Finish(g)) /\ OfGate(V!Finish(g), g)
             /\ \A s \in Seq(Steps) : (\A e \in Elements(s) : e.kind \in {"try", "do"}) =>
                   RecordsFirst(s \o V!Finish(g)) /\ OfGate(s \o V!Finish(g), g)
  <2> DEFINE first == V!Render(g)
             then == <<V!Say("stderr"), V!BailOn(g)>>
  <2>1. first \in Seq(Steps) /\ then \in Seq(Steps) /\ V!Finish(g) = first \o then
    BY <1>1 DEF V!Render, V!Finish
  <2>2. DOMAIN first = {1, 2} /\ first[1] = V!Record(g) /\ first[2] = V!Report("stdout")
    BY DEF V!Render
  <2>3. DOMAIN then = {1, 2} /\ then[1] = V!Say("stderr") /\ then[2] = V!BailOn(g)
    OBVIOUS
  <2> HIDE DEF first, then
  <2>4. RecordsFirst(first)
    BY <1>1, <2>2 DEF RecordsFirst
  <2>5. Elements(first) = {V!Record(g), V!Report("stdout")} /\ Elements(then) = {V!Say("stderr"), V!BailOn(g)}
    BY <2>2, <2>3 DEF Elements
  <2>6. V!Finish(g) \in Seq(Steps) /\ RecordsFirst(V!Finish(g)) /\ Elements(V!Finish(g)) = Elements(first) \cup Elements(then)
    BY <2>1, <2>4, InARow
  <2>7. OfGate(V!Finish(g), g)
    BY <1>1, <2>5, <2>6 DEF OfGate
  <2>8. ASSUME NEW s \in Seq(Steps), \A e \in Elements(s) : e.kind \in {"try", "do"}
        PROVE  RecordsFirst(s \o V!Finish(g)) /\ OfGate(s \o V!Finish(g), g)
    <3>1. RecordsFirst(s \o V!Finish(g)) /\ Elements(s \o V!Finish(g)) = Elements(s) \cup Elements(V!Finish(g))
      BY <2>6, <2>8, InARow
    <3>2. QED
      BY <2>7, <2>8, <3>1 DEF OfGate
  <2>9. QED
    BY <2>6, <2>7, <2>8
<1>3. <<V!Try>> \in Seq(Steps) /\ \A e \in Elements(<<V!Try>>) : e.kind \in {"try", "do"}
  BY <1>1 DEF Elements
<1>4. <<V!Try, V!Do("sources")>> \in Seq(Steps) /\ \A e \in Elements(<<V!Try, V!Do("sources")>>) : e.kind \in {"try", "do"}
  BY <1>1 DEF Elements
<1>5. RecordsFirst(V!Check) /\ OfGate(V!Check, "check")
  BY <1>2, <1>3 DEF V!Check, Verdicts
<1>6. RecordsFirst(V!LintFix) /\ OfGate(V!LintFix, "lint")
  BY <1>2, <1>4 DEF V!LintFix, Verdicts
<1>7. RecordsFirst(V!FmtCheck) /\ OfGate(V!FmtCheck, "fmt")
  <2>1. /\ DOMAIN V!FmtCheck = {1, 2, 3, 4} /\ V!FmtCheck[1] = V!Try /\ V!FmtCheck[2] = V!Record("fmt")
        /\ V!FmtCheck[3] = V!Say("stdout") /\ V!FmtCheck[4] = V!BailOn("fmt")
    BY DEF V!FmtCheck
  <2>2. RecordsFirst(V!FmtCheck)
    BY <1>1, <2>1 DEF RecordsFirst, Verdicts
  <2>3. OfGate(V!FmtCheck, "fmt")
    BY <1>1, <2>1 DEF OfGate, Elements, Verdicts
  <2>4. QED
    BY <2>2, <2>3
<1>8. V!Program["check"] = V!Check /\ V!Program["lint_fix"] = V!LintFix /\ V!Program["fmt_check"] = V!FmtCheck
  BY DEF V!Program
<1>9. QED
  BY <1>5, <1>6, <1>7, <1>8 DEF Judges, Gate

\* The invariant holds at the start.
LEMMA VerdictInit == V!Init => VerdictInv
<1> SUFFICES ASSUME V!Init PROVE VerdictInv
  OBVIOUS
<1>1. /\ cmd \in Commands /\ rest = V!Program[cmd] /\ problems \in SUBSET V!Gates(cmd) /\ recorded = 0 /\ done = {}
      /\ failed = FALSE /\ readers = V!Streams /\ exit = V!Running
  BY DEF V!Init
<1>2. cmd \in DOMAIN V!Program
  BY <1>1, CommandAssumption DEF V!VerdictAssumption
<1>3. rest \in Seq(Steps) /\ rest # Failing /\ Elements(rest) = V!StepsOf(cmd)
  BY <1>1, <1>2, ProgramSteps, FailingIsNoStep DEF V!StepsOf, Elements
<1>4. \A s \in Elements(rest) : s \in Steps
  BY <1>3, ElementsAreOf
<1>5. VerdictTypeOK
  BY <1>1, <1>3 DEF VerdictTypeOK
<1>6. \A g \in problems : V!BailOn(g) \in Elements(rest)
  BY <1>1, <1>3, <1>4, StepFacts DEF V!Gates
<1>7. Promises
  BY <1>1, <1>3, <1>6 DEF Promises, V!Promised
<1>8. RecordedInTime
  <2> SUFFICES ASSUME cmd \in Judges PROVE RecordedInTime
    BY DEF RecordedInTime
  <2>1. RecordsFirst(rest) /\ OfGate(rest, Gate(cmd))
    BY <1>1, JudgesRecord
  <2>2. \A g \in problems : g = Gate(cmd)
    BY <1>6, <2>1 DEF OfGate, V!BailOn
  <2>3. \A s \in Elements(rest) : s.kind = "record" => problems \subseteq {s.of}
    BY <2>1, <2>2 DEF OfGate
  <2>4. QED
    BY <1>3, <2>1, <2>3 DEF RecordedInTime
<1>9. AttendedVerdict /\ VerdictSurvives
  BY <1>1 DEF AttendedVerdict, VerdictSurvives, V!AttendedVerdict, V!VerdictSurvives, V!Running
<1>10. QED
  BY <1>5, <1>7, <1>8, <1>9 DEF VerdictInv

\* The step at hand, and what is left after it.
LEMMA AtHand ==
    ASSUME VerdictInv, exit = V!Running, rest # <<>>, Head(rest).kind # "error"
    PROVE  /\ rest \in Seq(Steps) /\ rest # Failing /\ Head(rest) \in Steps /\ Head(rest) \in Elements(rest)
           /\ Tail(rest) \in Seq(Steps) /\ Tail(rest) # Failing
           /\ Elements(rest) = {Head(rest)} \cup Elements(Tail(rest))
           /\ ~failed /\ \A g \in problems : V!BailOn(g) \in Elements(rest)
           /\ V!Promised(cmd) = done \cup {s.of : s \in {t \in Elements(rest) : t.kind = "do"}}
<1>1. rest # Failing
  BY FailingIsNoStep
<1>2. rest \in Seq(Steps)
  BY <1>1 DEF VerdictInv, VerdictTypeOK
<1>3. Head(rest) \in Steps /\ Tail(rest) \in Seq(Steps) /\ Elements(rest) = {Head(rest)} \cup Elements(Tail(rest))
  BY <1>2, ElementsOfTail
<1>4. QED
  BY <1>1, <1>2, <1>3, FailingIsNoStep DEF VerdictInv, Promises

\* A step that is done: the rest promises what it did.
LEMMA DoneStep ==
    ASSUME VerdictInv, exit = V!Running, rest # <<>>, Head(rest).kind # "error",
           rest' = Tail(rest), UNCHANGED <<cmd, problems, failed, readers, exit>>,
           recorded' = IF Head(rest).kind = "record" THEN IF Head(rest).of \in problems THEN 1 ELSE 0 ELSE recorded,
           done' = IF Head(rest).kind = "do" THEN done \cup {Head(rest).of} ELSE done,
           Head(rest).kind = "bail" => Head(rest).of \notin problems
    PROVE  VerdictInv'
<1> DEFINE h == Head(rest)
           t == Tail(rest)
<1>1. /\ rest \in Seq(Steps) /\ rest # Failing /\ h \in Steps /\ h \in Elements(rest)
      /\ t \in Seq(Steps) /\ t # Failing /\ Elements(rest) = {h} \cup Elements(t)
      /\ ~failed /\ \A g \in problems : V!BailOn(g) \in Elements(rest)
      /\ V!Promised(cmd) = done \cup {s.of : s \in {u \in Elements(rest) : u.kind = "do"}}
  BY AtHand
<1>2. VerdictTypeOK'
  BY <1>1 DEF VerdictInv, VerdictTypeOK
<1> HIDE DEF h, t
<1>3. \A g \in problems : V!BailOn(g) \in Elements(t)
  <2> SUFFICES ASSUME NEW g \in problems, V!BailOn(g) = h PROVE FALSE
    BY <1>1
  <2>1. h.kind = "bail" /\ h.of = g
    BY DEF V!BailOn
  <2>2. QED
    BY <2>1 DEF h
<1>4. V!Promised(cmd) = done' \cup {s.of : s \in {u \in Elements(t) : u.kind = "do"}}
  <2>1. CASE h.kind = "do"
    BY <1>1, <2>1 DEF h
  <2>2. CASE h.kind # "do"
    BY <1>1, <2>2 DEF h
  <2>3. QED
    BY <2>1, <2>2
<1>5. V!Promised(cmd)' = V!Promised(cmd)
  BY DEF V!Promised, V!StepsOf
<1>6. Elements(rest)' = Elements(t) /\ rest' = t
  BY DEF Elements, t
<1>7. Promises'
  BY <1>1, <1>3, <1>4, <1>5, <1>6 DEF Promises
<1>8. RecordedInTime'
  <2> SUFFICES ASSUME cmd \in Judges
               PROVE  (Recorded' \/ (t # Failing /\ RecordsFirst(t))) /\ \A s \in Elements(t) : s.kind = "record" => problems \subseteq {s.of}
    BY <1>6 DEF RecordedInTime, Recorded, RecordsFirst
  <2>1. /\ Recorded \/ RecordsFirst(rest)
        /\ \A s \in Elements(rest) : s.kind = "record" => problems \subseteq {s.of}
    BY <1>1 DEF VerdictInv, RecordedInTime
  <2>2. CASE h.kind = "record"
    <3>1. problems \subseteq {h.of}
      BY <1>1, <2>1, <2>2
    <3>2. recorded' = IF h.of \in problems THEN 1 ELSE 0
      BY <2>2 DEF h
    <3>3. Recorded'
      BY <3>1, <3>2 DEF Recorded
    <3>4. QED
      BY <1>1, <2>1, <3>3
  <2>3. CASE h.kind # "record"
    <3>1. recorded' = recorded
      BY <2>3 DEF h
    <3>2. RecordsFirst(rest) => RecordsFirst(t)
      BY <1>1, <2>3, RecordsLater DEF h, t
    <3>3. QED
      BY <1>1, <2>1, <3>1, <3>2 DEF Recorded
  <2>4. QED
    BY <2>2, <2>3
<1>9. AttendedVerdict' /\ VerdictSurvives'
  BY DEF AttendedVerdict, VerdictSurvives, V!AttendedVerdict, V!VerdictSurvives, V!Running
<1>10. QED
  BY <1>2, <1>7, <1>8, <1>9 DEF VerdictInv

\* A step that fails, or a gate that finds problems.
LEMMA FailStep ==
    ASSUME VerdictInv, exit = V!Running, V!Fail, UNCHANGED <<cmd, problems, recorded, readers>>,
           failed' = TRUE \/ (failed' = failed /\ problems # {} /\ (cmd \in Judges /\ ~failed => Recorded))
    PROVE  VerdictInv'
<1>1. rest' = Failing /\ exit' = exit
  BY DEF V!Fail, Failing
<1>2. VerdictTypeOK'
  BY <1>1 DEF VerdictInv, VerdictTypeOK
<1>3. Promises'
  BY <1>1 DEF Promises
<1>4. \A s \in Elements(rest)' : s.kind # "record"
  BY <1>1, FailingIsNoStep DEF Elements
<1>5. RecordedInTime'
  BY <1>1, <1>4 DEF RecordedInTime, Recorded
<1>6. AttendedVerdict' /\ VerdictSurvives'
  BY <1>1 DEF AttendedVerdict, VerdictSurvives, V!AttendedVerdict, V!VerdictSurvives, V!Running
<1>7. QED
  BY <1>2, <1>3, <1>5, <1>6 DEF VerdictInv

\* A step that ends the process.
LEMMA EndStep ==
    ASSUME VerdictInv, NEW status \in {0, 1}, exit' = status, UNCHANGED <<cmd, rest, problems, recorded, done, readers>>,
           failed' \in BOOLEAN,
           readers = V!Streams => (status = 0 <=> ~failed' /\ problems = {} /\ done = V!Promised(cmd)),
           cmd \in Judges /\ ~failed' => (status = 0 <=> problems = {})
    PROVE  VerdictInv'
<1>1. VerdictTypeOK'
  BY DEF VerdictInv, VerdictTypeOK
<1>2. exit' # V!Running
  BY DEF V!Running
<1>3. Promises' /\ RecordedInTime'
  BY <1>2 DEF Promises, RecordedInTime, V!Running
<1>4. V!Promised(cmd)' = V!Promised(cmd)
  BY DEF V!Promised, V!StepsOf
<1>5. AttendedVerdict'
  BY <1>4 DEF AttendedVerdict, V!AttendedVerdict, V!Streams
<1>6. VerdictSurvives'
  BY DEF VerdictSurvives, V!VerdictSurvives, Judges
<1>7. QED
  BY <1>1, <1>3, <1>5, <1>6 DEF VerdictInv

\* At a write, or at the error message, the verdict is recorded.
LEMMA RecordedByNow ==
    ASSUME VerdictInv, exit = V!Running, rest # <<>>, Head(rest).kind \in {"report", "say", "bail", "error"},
           cmd \in Judges, ~failed
    PROVE  Recorded
<1>1. Recorded \/ (rest # Failing /\ RecordsFirst(rest))
  BY DEF VerdictInv, RecordedInTime
<1>2. CASE rest # Failing
  <2>1. rest \in Seq(Steps)
    BY <1>2 DEF VerdictInv, VerdictTypeOK
  <2>2. ~RecordsFirst(rest)
    BY <2>1, RecordsLater
  <2>3. QED
    BY <1>1, <2>2
<1>3. QED
  BY <1>1, <1>2

\* A write that finds its reader gone, or fails, ends the process as it should.
LEMMA WriteEnds ==
    ASSUME VerdictInv, exit = V!Running, rest # <<>>, Head(rest).kind \in {"report", "say", "error"},
           UNCHANGED <<cmd, problems, recorded, done, readers>>,
           NEW s \in V!Streams, V!ReaderGone(s) \/ V!WriteFails
    PROVE  VerdictInv'
<1>1. CASE V!ReaderGone(s)
  <2>1. recorded \in {0, 1} /\ failed \in BOOLEAN
    BY DEF VerdictInv, VerdictTypeOK
  <2>2. exit' = recorded /\ readers # V!Streams /\ UNCHANGED <<rest, failed>>
    BY <1>1 DEF V!ReaderGone
  <2>3. cmd \in Judges /\ ~failed => (recorded = 0 <=> problems = {})
    BY <2>1, RecordedByNow DEF Recorded
  <2>4. QED
    BY <2>1, <2>2, <2>3, EndStep
<1>2. CASE V!WriteFails
  BY <1>2, EndStep DEF V!WriteFails
<1>3. QED
  BY <1>1, <1>2

\* Every step keeps the invariant.
LEMMA VerdictNext == VerdictInv /\ [V!Next]_(V!vars) => VerdictInv'
<1> SUFFICES ASSUME VerdictInv, [V!Next]_(V!vars) PROVE VerdictInv'
  OBVIOUS
<1>1. CASE V!Depart
  <2>1. readers' \subseteq V!Streams /\ exit = V!Running /\ UNCHANGED <<cmd, rest, problems, recorded, done, failed, exit>>
    BY <1>1 DEF V!Depart, VerdictInv, VerdictTypeOK
  <2>2. VerdictTypeOK'
    BY <2>1 DEF VerdictInv, VerdictTypeOK
  <2>3. V!Promised(cmd)' = V!Promised(cmd) /\ Elements(rest)' = Elements(rest) /\ RecordsFirst(rest)' = RecordsFirst(rest)
    BY <2>1 DEF V!Promised, V!StepsOf, Elements, RecordsFirst
  <2>4. Promises' /\ RecordedInTime'
    BY <2>1, <2>3 DEF VerdictInv, Promises, RecordedInTime, Recorded
  <2>5. AttendedVerdict' /\ VerdictSurvives'
    BY <2>1 DEF AttendedVerdict, VerdictSurvives, V!AttendedVerdict, V!VerdictSurvives, V!Running
  <2>6. QED
    BY <2>2, <2>4, <2>5 DEF VerdictInv
<1>2. CASE V!Tries
  <2>1. exit = V!Running /\ rest # <<>> /\ Head(rest).kind = "try" /\ UNCHANGED <<cmd, problems, recorded, done, readers>>
    BY <1>2 DEF V!Tries, V!Next1
  <2>2. CASE V!Goes /\ UNCHANGED failed
    BY <2>1, <2>2, DoneStep DEF V!Goes
  <2>3. CASE V!Fail /\ failed' = TRUE
    BY <2>1, <2>3, FailStep
  <2>4. QED
    BY <1>2, <2>2, <2>3 DEF V!Tries
<1>3. CASE V!Does
  <2>1. exit = V!Running /\ rest # <<>> /\ Head(rest).kind = "do" /\ UNCHANGED <<cmd, problems, recorded, readers>>
    BY <1>3 DEF V!Does, V!Next1
  <2>2. CASE V!Goes /\ done' = done \cup {Head(rest).of} /\ UNCHANGED failed
    BY <2>1, <2>2, DoneStep DEF V!Goes
  <2>3. CASE V!Fail /\ failed' = TRUE
    BY <2>1, <2>3, FailStep
  <2>4. QED
    BY <1>3, <2>2, <2>3 DEF V!Does
<1>4. CASE V!Records
  <2>1. exit = V!Running /\ rest # <<>> /\ Head(rest).kind = "record" /\ UNCHANGED <<cmd, problems, done, failed, readers>>
    BY <1>4 DEF V!Records, V!Next1
  <2>2. V!Goes /\ recorded' = IF Head(rest).of \in problems THEN 1 ELSE 0
    BY <1>4 DEF V!Records
  <2>3. QED
    BY <2>1, <2>2, DoneStep DEF V!Goes
<1>5. CASE V!Reports \/ V!Says
  <2>1. /\ exit = V!Running /\ rest # <<>> /\ Head(rest).kind \in {"report", "say"}
        /\ UNCHANGED <<cmd, problems, recorded, done, readers>>
    BY <1>5 DEF V!Reports, V!Says, V!Next1
  <2>2. Head(rest).of \in V!Streams
    BY <2>1, AtHand, StepFacts
  <2>3. CASE V!Goes /\ UNCHANGED failed
    BY <2>1, <2>3, DoneStep DEF V!Goes
  <2>4. CASE V!ReaderGone(Head(rest).of) \/ V!WriteFails
    BY <2>1, <2>2, <2>4, WriteEnds
  <2>5. QED
    BY <1>5, <2>3, <2>4 DEF V!Reports, V!Says, V!Write, V!Landed
<1>6. CASE V!Bails
  <2>1. /\ exit = V!Running /\ rest # <<>> /\ Head(rest).kind = "bail"
        /\ UNCHANGED <<cmd, problems, recorded, done, failed, readers>>
    BY <1>6 DEF V!Bails, V!Next1
  <2>2. CASE Head(rest).of \in problems
    <3>1. V!Fail
      BY <1>6, <2>2 DEF V!Bails
    <3>2. cmd \in Judges /\ ~failed => Recorded
      BY <2>1, RecordedByNow
    <3>3. QED
      BY <2>1, <2>2, <3>1, <3>2, FailStep
  <2>3. CASE Head(rest).of \notin problems
    BY <1>6, <2>1, <2>3, DoneStep DEF V!Bails, V!Goes
  <2>4. QED
    BY <2>2, <2>3
<1>7. CASE V!Succeeds
  <2>1. exit = V!Running /\ rest = <<>> /\ exit' = 0 /\ UNCHANGED <<cmd, rest, problems, recorded, done, failed, readers>>
    BY <1>7 DEF V!Succeeds
  <2>2. Elements(rest) = {} /\ rest # Failing
    BY <2>1, FailingIsNoStep DEF Elements
  <2>3. ~failed /\ problems = {} /\ V!Promised(cmd) = done
    <3>1. /\ ~failed /\ \A g \in problems : V!BailOn(g) \in Elements(rest)
          /\ V!Promised(cmd) = done \cup {s.of : s \in {t \in Elements(rest) : t.kind = "do"}}
      BY <2>1, <2>2 DEF VerdictInv, Promises
    <3>2. {s.of : s \in {t \in Elements(rest) : t.kind = "do"}} = {}
      BY <2>2
    <3>3. problems = {}
      BY <2>2, <3>1
    <3>4. QED
      BY <3>1, <3>2, <3>3
  <2>4. failed' \in BOOLEAN /\ ~failed'
    BY <2>1, <2>3 DEF VerdictInv, VerdictTypeOK
  <2>5. QED
    BY <2>1, <2>3, <2>4, EndStep
<1>8. CASE V!Errs
  <2>1. exit = V!Running /\ rest # <<>> /\ Head(rest).kind = "error" /\ UNCHANGED <<cmd, problems, recorded, done, readers>>
    BY <1>8 DEF V!Errs, V!Next1
  <2>2. rest = Failing
    <3>1. ASSUME rest \in Seq(Steps) PROVE FALSE
      BY <2>1, <3>1, ElementsOfTail, StepFacts
    <3>2. QED
      BY <3>1 DEF VerdictInv, VerdictTypeOK
  <2>3. (failed \/ problems # {}) /\ failed \in BOOLEAN
    BY <2>1, <2>2 DEF VerdictInv, Promises, VerdictTypeOK
  <2>4. CASE exit' = 1 /\ UNCHANGED <<rest, failed>>
    BY <2>1, <2>3, <2>4, EndStep
  <2>5. CASE V!ReaderGone("stderr") \/ V!WriteFails
    BY <2>1, <2>5, WriteEnds DEF V!Streams
  <2>6. QED
    BY <1>8, <2>4, <2>5 DEF V!Errs, V!Write, V!Landed
<1>9. CASE UNCHANGED V!vars
  <2>1. UNCHANGED <<cmd, rest, problems, recorded, done, failed, readers, exit>>
    BY <1>9 DEF V!vars
  <2>2. V!Promised(cmd)' = V!Promised(cmd) /\ Elements(rest)' = Elements(rest) /\ RecordsFirst(rest)' = RecordsFirst(rest)
    BY <2>1 DEF V!Promised, V!StepsOf, Elements, RecordsFirst
  <2>3. VerdictTypeOK' /\ Promises' /\ RecordedInTime'
    BY <2>1, <2>2 DEF VerdictInv, VerdictTypeOK, Promises, RecordedInTime, Recorded
  <2>4. AttendedVerdict' /\ VerdictSurvives'
    BY <2>1, <2>2 DEF VerdictInv, AttendedVerdict, VerdictSurvives, V!AttendedVerdict, V!VerdictSurvives
  <2>5. QED
    BY <2>3, <2>4 DEF VerdictInv
<1>10. QED
  BY <1>1, <1>2, <1>3, <1>4, <1>5, <1>6, <1>7, <1>8, <1>9 DEF V!Next

\* The invariant is an invariant of the exit status.
LEMMA VerdictInductive == V!Spec => []VerdictInv
BY VerdictInit, VerdictNext, PTL DEF V!Spec

------------------------------------------------------------------------------
(***************************************************************************)
(* Builds, of any entries and assets.                                      *)
(***************************************************************************)
\* No two entries are built to one file.
EntriesHaveNames == \A j, k \in DOMAIN Entries : O!Artifact(j) = O!Artifact(k) => j = k

Outs == [of : Nat, version : Nat, whole : BOOLEAN]
Runs == [pc : {"idle", "emit", "map", "end"}, left : SUBSET DOMAIN Entries, failed : BOOLEAN]
BuildTypeOK ==
    /\ mode \in {"plain", "love", "tree"} /\ source \in [DOMAIN Entries -> Nat]
    /\ wantsMap \in BOOLEAN /\ (wantsMap => mode = "plain")
    /\ out \in [O!Artifacts -> Outs] /\ map \in [O!Artifacts -> Outs]
    /\ build \in Runs /\ build.left \subseteq O!Asked

\* Where the run is: in order, unless each file is for itself; at the map of the
\* last it emitted; and at its end only with nothing left or with a failure.
InOrder ==
    /\ mode # "tree" => \A j \in O!Asked \ build.left, k \in build.left : j < k
    /\ build.pc = "map" => /\ mode = "plain" /\ wantsMap
                           /\ \E k \in DOMAIN Entries \ build.left : \A j \in DOMAIN Entries \ build.left : j <= k
    /\ build.pc = "end" /\ ~build.failed => build.left = {}

\* What a run that has not failed is done with is current, but for the map it
\* is at.
DoneIsCurrent ==
    build.pc # "idle" /\ ~build.failed => \A k \in O!Asked \ build.left :
        /\ out[O!Artifact(k)] = O!Built(k, TRUE)
        /\ wantsMap /\ ~(build.pc = "map" /\ k = O!JustEmitted) => map[O!Artifact(k)] = O!Built(k, TRUE)

\* The inductive invariant of the builds: what is done is current when no two
\* entries share a name.
BuildInv ==
    /\ BuildTypeOK /\ InOrder
    /\ EntriesHaveNames => DoneIsCurrent

\* Entries and their artifacts.
LEMMA EntryFacts ==
    /\ DOMAIN Entries = 1..Len(Entries) /\ Len(Entries) \in Nat /\ 1 \in DOMAIN Entries
    /\ \A k \in DOMAIN Entries : k \in Nat /\ O!Artifact(k) \in O!Artifacts
    /\ O!Asked \subseteq DOMAIN Entries /\ (mode # "love" => O!Asked = DOMAIN Entries)
<1>1. Entries \in Seq(DOMAIN NameOf) /\ Entries # <<>>
  BY CommandAssumption DEF O!BuildAssumption
<1>2. DOMAIN Entries = 1..Len(Entries) /\ Len(Entries) \in Nat /\ 1 \in DOMAIN Entries
  BY <1>1
<1>3. \A k \in DOMAIN Entries : k \in Nat /\ O!Artifact(k) \in O!Artifacts
  BY <1>2 DEF O!Artifact, O!Artifacts
<1>4. QED
  BY <1>2, <1>3 DEF O!Asked

\* What a build writes is of its type.
LEMMA BuiltType ==
    ASSUME BuildTypeOK, NEW k \in DOMAIN Entries, NEW w \in BOOLEAN
    PROVE  /\ O!Built(k, w) \in Outs
           /\ [out EXCEPT ![O!Artifact(k)] = O!Built(k, w)] \in [O!Artifacts -> Outs]
           /\ [map EXCEPT ![O!Artifact(k)] = O!Built(k, w)] \in [O!Artifacts -> Outs]
<1>1. k \in Nat /\ source[k] \in Nat
  BY EntryFacts DEF BuildTypeOK
<1>2. O!Built(k, w) \in Outs
  BY <1>1 DEF O!Built, Outs
<1>3. QED
  BY <1>2 DEF BuildTypeOK

\* The run, field by field.
RunIs(pc, left) == build' \in Runs /\ build'.pc = pc /\ build'.left = left

LEMMA EmittedFacts ==
    ASSUME BuildTypeOK, build.pc = "emit", NEW k \in DOMAIN Entries, build' = O!Emitted(k)
    PROVE  RunIs(IF wantsMap THEN "map" ELSE "emit", build.left \ {k}) /\ build'.failed = build.failed
<1>1. build \in Runs /\ build.left \ {k} \in SUBSET DOMAIN Entries /\ (wantsMap => mode = "plain") /\ wantsMap \in BOOLEAN
  BY DEF BuildTypeOK, Runs
<1>2. CASE wantsMap
  <2>1. build' = [build EXCEPT !.pc = "map", !.left = build.left \ {k}]
    BY <1>1, <1>2 DEF O!Emitted
  <2>2. QED
    BY <1>1, <1>2, <2>1 DEF Runs, RunIs
<1>3. CASE ~wantsMap
  <2>1. build' = [build EXCEPT !.left = build.left \ {k}]
    BY <1>1, <1>3 DEF O!Emitted
  <2>2. QED
    BY <1>1, <1>3, <2>1 DEF Runs, RunIs
<1>4. QED
  BY <1>1, <1>2, <1>3

LEMMA MissedFacts ==
    ASSUME BuildTypeOK, build.pc = "emit", NEW k \in DOMAIN Entries, build' = O!Missed(k)
    PROVE  /\ build'.failed
           /\ IF mode = "tree" THEN RunIs("emit", build.left \ {k}) ELSE RunIs("end", build.left)
<1>1. build \in Runs /\ build.left \ {k} \in SUBSET DOMAIN Entries
  BY DEF BuildTypeOK, Runs
<1>2. CASE mode = "tree"
  <2>1. build' = [build EXCEPT !.left = build.left \ {k}, !.failed = TRUE]
    BY <1>2 DEF O!Missed
  <2>2. QED
    BY <1>1, <1>2, <2>1 DEF Runs, RunIs
<1>3. CASE mode # "tree"
  <2>1. build' = [build EXCEPT !.pc = "end", !.failed = TRUE]
    BY <1>3 DEF O!Missed
  <2>2. QED
    BY <1>1, <1>3, <2>1 DEF Runs, RunIs
<1>4. QED
  BY <1>2, <1>3

\* Where the user does not move, what a build is asked for stays.
LEMMA UserStays ==
    ASSUME UNCHANGED O!user
    PROVE  /\ UNCHANGED <<mode, source, faulty, assets, wantsMap, moved>>
           /\ O!Asked' = O!Asked /\ \A k, w : O!Built(k, w)' = O!Built(k, w)
BY DEF O!user, O!Asked, O!Built

\* A run starts in order.
LEMMA OrderInit == O!Init => BuildTypeOK /\ InOrder
<1> SUFFICES ASSUME O!Init PROVE BuildTypeOK /\ InOrder
  OBVIOUS
<1>1. mode \in {"plain", "love", "tree"} /\ source \in [DOMAIN Entries -> Nat]
  BY DEF O!Init
<1>2. wantsMap \in BOOLEAN /\ (wantsMap => mode = "plain")
  BY DEF O!Init
<1>3. O!Nothing \in Outs
  BY DEF O!Nothing, Outs
<1>4. out \in [O!Artifacts -> Outs] /\ map \in [O!Artifacts -> Outs]
  BY <1>3 DEF O!Init
<1>5. build \in Runs /\ build.pc = "idle" /\ build.left = {}
  BY DEF O!Init, O!Idle, Runs
<1>6. BuildTypeOK
  BY <1>1, <1>2, <1>4, <1>5 DEF BuildTypeOK
<1>7. QED
  BY <1>5, <1>6 DEF InOrder

\* A run that is over, or has been killed, is in order.
LEMMA OrderAtRest ==
    ASSUME BuildTypeOK, InOrder, UNCHANGED O!user, build' \in Runs,
           build'.pc = "idle" \/ (build'.pc = "end" /\ build'.failed),
           build'.left = {} \/ build'.left = build.left,
           out' \in [O!Artifacts -> Outs], map' \in [O!Artifacts -> Outs]
    PROVE  BuildTypeOK' /\ InOrder'
<1>1. UNCHANGED <<mode, source, wantsMap>> /\ O!Asked' = O!Asked
  BY UserStays
<1>2. BuildTypeOK'
  BY <1>1 DEF BuildTypeOK
<1>3. mode # "tree" => \A j \in O!Asked \ build'.left, k \in build'.left : j < k
  BY DEF InOrder
<1>4. QED
  BY <1>1, <1>2, <1>3 DEF InOrder

\* A run keeps its order when it is done with the next.
LEMMA OrderAdvances ==
    ASSUME BuildTypeOK, InOrder, build.pc = "emit", NEW k \in O!Next1, k \in DOMAIN Entries, UNCHANGED O!user,
           mode # "love", build' \in Runs, build'.left = build.left \ {k},
           build'.pc = "emit" \/ (build'.pc = "map" /\ mode = "plain" /\ wantsMap),
           out' \in [O!Artifacts -> Outs], map' \in [O!Artifacts -> Outs]
    PROVE  BuildTypeOK' /\ InOrder'
<1>1. UNCHANGED <<mode, source, wantsMap>> /\ O!Asked' = O!Asked /\ O!Asked = DOMAIN Entries
  BY UserStays, EntryFacts
<1>2. BuildTypeOK'
  BY <1>1 DEF BuildTypeOK
<1>3. k \in build.left /\ build.left \subseteq DOMAIN Entries
  BY <1>1 DEF O!Next1, BuildTypeOK
<1>4. ASSUME mode # "tree"
      PROVE  /\ \A j \in DOMAIN Entries \ build'.left, i \in build'.left : j < i
             /\ \A j \in DOMAIN Entries \ build'.left : j <= k
  <2>1. \A j \in DOMAIN Entries \ build.left, i \in build.left : j < i
    BY <1>1, <1>4 DEF InOrder
  <2>2. \A i \in build.left : k <= i
    BY <1>4 DEF O!Next1
  <2>3. \A i \in DOMAIN Entries : i \in Nat
    BY EntryFacts
  <2>4. ASSUME NEW j \in DOMAIN Entries \ build'.left PROVE j <= k /\ \A i \in build'.left : j < i
    <3>1. CASE j = k
      BY <1>3, <2>2, <2>3, <3>1
    <3>2. CASE j # k
      BY <1>3, <2>1, <2>3, <3>2
    <3>3. QED
      BY <3>1, <3>2
  <2>5. QED
    BY <2>4
<1>5. mode # "tree" => \A j \in O!Asked' \ build'.left, i \in build'.left : j < i
  BY <1>1, <1>4
<1>6. build'.pc = "map" =>
        mode = "plain" /\ wantsMap /\ \E i \in DOMAIN Entries \ build'.left : \A j \in DOMAIN Entries \ build'.left : j <= i
  BY <1>4
<1>7. QED
  BY <1>1, <1>2, <1>5, <1>6 DEF InOrder

\* Every step keeps the types and the order of a run.
LEMMA OrderNext == BuildTypeOK /\ InOrder /\ [O!Next]_(O!vars) => BuildTypeOK' /\ InOrder'
<1> SUFFICES ASSUME BuildTypeOK, InOrder, [O!Next]_(O!vars) PROVE BuildTypeOK' /\ InOrder'
  OBVIOUS
<1> USE DEF O!At
<1>t. /\ build \in Runs /\ out \in [O!Artifacts -> Outs] /\ map \in [O!Artifacts -> Outs]
      /\ build.left \in SUBSET DOMAIN Entries
  BY DEF BuildTypeOK, Runs
<1>1. CASE O!Edits
  <2>1. build.pc = "idle" /\ UNCHANGED <<mode, out, map, build>> /\ O!Asked' = O!Asked
    BY <1>1 DEF O!Edits, O!outputs, O!Asked
  <2>2. source' \in [DOMAIN Entries -> Nat]
    BY <1>1 DEF O!Edits, BuildTypeOK
  <2>3. wantsMap' \in BOOLEAN /\ (wantsMap' => mode = "plain")
    <3>1. wantsMap' = wantsMap \/ (mode = "plain" /\ wantsMap' = ~wantsMap)
      BY <1>1 DEF O!Edits
    <3>2. wantsMap \in BOOLEAN /\ (wantsMap => mode = "plain")
      BY DEF BuildTypeOK
    <3>3. CASE wantsMap' = wantsMap
      BY <3>2, <3>3
    <3>4. CASE mode = "plain" /\ wantsMap' = ~wantsMap
      <4>1. wantsMap' = TRUE \/ wantsMap' = FALSE
        BY <3>2, <3>4
      <4>2. QED
        BY <3>4, <4>1
    <3>5. QED
      BY <3>1, <3>3, <3>4
  <2>4. BuildTypeOK'
    BY <2>1, <2>2, <2>3 DEF BuildTypeOK
  <2>5. QED
    BY <2>1, <2>4 DEF InOrder
<1>2. CASE O!Gate
  <2>1. UNCHANGED O!user /\ UNCHANGED <<out, map>> /\ O!Asked \subseteq DOMAIN Entries /\ O!Asked' = O!Asked
    BY <1>2, EntryFacts, UserStays DEF O!Gate, O!outputs
  <2>2. CASE faulty
    <3>1. build' \in Runs /\ build'.pc = "end" /\ build'.failed /\ build'.left = {}
      BY <1>2, <2>2 DEF O!Gate, O!Idle, Runs
    <3>2. QED
      BY <1>t, <2>1, <3>1, OrderAtRest
  <2>3. CASE ~faulty
    <3>1. build' \in Runs /\ build'.pc = "emit" /\ build'.left = O!Asked
      BY <1>2, <2>1, <2>3 DEF O!Gate, O!Idle, Runs
    <3>2. BuildTypeOK'
      BY <1>t, <2>1, <3>1, UserStays DEF BuildTypeOK
    <3>3. QED
      BY <2>1, <3>1, <3>2 DEF InOrder
  <2>4. QED
    BY <2>2, <2>3
<1>3. ASSUME NEW k \in DOMAIN Entries, O!Emit(k) PROVE BuildTypeOK' /\ InOrder'
  <2>1. build.pc = "emit" /\ mode # "love" /\ k \in O!Next1 /\ UNCHANGED O!user /\ UNCHANGED map
    BY <1>3 DEF O!Emit
  <2>2. out' \in [O!Artifacts -> Outs] /\ map' \in [O!Artifacts -> Outs]
    BY <1>3, <1>t, <2>1, BuiltType DEF O!Emit
  <2>3. CASE build' = O!Emitted(k)
    <3>1. RunIs(IF wantsMap THEN "map" ELSE "emit", build.left \ {k})
      BY <2>1, <2>3, EmittedFacts
    <3>2. wantsMap => mode = "plain"
      BY DEF BuildTypeOK
    <3>3. /\ build' \in Runs /\ build'.left = build.left \ {k}
          /\ build'.pc = "emit" \/ (build'.pc = "map" /\ mode = "plain" /\ wantsMap)
      BY <3>1, <3>2 DEF RunIs
    <3>4. QED
      BY <2>1, <2>2, <3>3, OrderAdvances
  <2>4. CASE build' = O!Missed(k)
    <3>1. build'.failed /\ (IF mode = "tree" THEN RunIs("emit", build.left \ {k}) ELSE RunIs("end", build.left))
      BY <2>1, <2>4, MissedFacts
    <3>2. CASE mode = "tree"
      <4>1. build' \in Runs /\ build'.left = build.left \ {k} /\ build'.pc = "emit"
        BY <3>1, <3>2 DEF RunIs
      <4>2. QED
        BY <2>1, <2>2, <4>1, OrderAdvances
    <3>3. CASE mode # "tree"
      <4>1. build' \in Runs /\ build'.left = build.left /\ build'.pc = "end" /\ build'.failed
        BY <3>1, <3>3 DEF RunIs
      <4>2. QED
        BY <1>t, <2>1, <2>2, <4>1, OrderAtRest
    <3>4. QED
      BY <3>2, <3>3
  <2>5. QED
    BY <1>3, <2>3, <2>4 DEF O!Emit
<1>4. CASE O!EmitMap
  <2>1. build.pc = "map" /\ UNCHANGED O!user /\ UNCHANGED out
    BY <1>4 DEF O!EmitMap
  <2>2. O!JustEmitted \in DOMAIN Entries
    BY <2>1 DEF InOrder, O!JustEmitted
  <2>3. map' \in [O!Artifacts -> Outs]
    BY <1>4, <2>2, BuiltType DEF O!EmitMap
  <2>4. CASE build' = [build EXCEPT !.pc = "emit"]
    <3>1. build' \in Runs /\ build'.pc = "emit" /\ build'.left = build.left
      BY <1>t, <2>4 DEF Runs
    <3>2. UNCHANGED <<mode, source, wantsMap>> /\ O!Asked' = O!Asked
      BY <2>1, UserStays
    <3>3. BuildTypeOK'
      BY <1>t, <2>1, <2>3, <3>1, <3>2 DEF BuildTypeOK
    <3>4. QED
      BY <3>1, <3>2, <3>3 DEF InOrder
  <2>5. CASE O!Fail
    <3>1. build' \in Runs /\ build'.pc = "end" /\ build'.failed /\ build'.left = build.left
      BY <1>t, <2>5 DEF O!Fail, Runs
    <3>2. QED
      BY <1>t, <2>1, <2>3, <3>1, OrderAtRest
  <2>6. QED
    BY <1>4, <2>4, <2>5 DEF O!EmitMap
<1>5. CASE O!Package
  <2>1. build.pc = "emit" /\ mode = "love" /\ UNCHANGED O!user /\ UNCHANGED map
    BY <1>5 DEF O!Package
  <2>2. out' \in [O!Artifacts -> Outs]
    <3>1. 1 \in DOMAIN Entries
      BY EntryFacts
    <3>2. \A w \in BOOLEAN : [out EXCEPT ![O!Artifact(1)] = O!Built(1, w)] \in [O!Artifacts -> Outs]
      BY <3>1, BuiltType
    <3>3. QED
      BY <1>5, <1>t, <3>2 DEF O!Package, O!Zips
  <2>3. CASE build' = [build EXCEPT !.left = {}]
    <3>1. build' \in Runs /\ build'.left = {} /\ build'.pc = "emit"
      BY <1>t, <2>1, <2>3 DEF Runs
    <3>2. BuildTypeOK'
      BY <1>t, <2>1, <2>2, <3>1, UserStays DEF BuildTypeOK
    <3>3. QED
      BY <3>1, <3>2 DEF InOrder
  <2>4. CASE O!Fail
    <3>1. build' \in Runs /\ build'.pc = "end" /\ build'.failed /\ build'.left = build.left
      BY <1>t, <2>4 DEF O!Fail, Runs
    <3>2. QED
      BY <1>t, <2>1, <2>2, <3>1, OrderAtRest
  <2>5. QED
    BY <1>5, <2>3, <2>4 DEF O!Package, O!Zips
<1>6. CASE O!Ends
  <2>1. build' = [build EXCEPT !.pc = "end"] /\ build.left = {} /\ UNCHANGED O!user /\ UNCHANGED <<out, map>>
    BY <1>6 DEF O!Ends, O!outputs
  <2>2. build' \in Runs /\ build'.pc = "end" /\ build'.left = {}
    BY <1>t, <2>1 DEF Runs
  <2>3. BuildTypeOK'
    BY <1>t, <2>1, <2>2, UserStays DEF BuildTypeOK
  <2>4. QED
    BY <2>2, <2>3 DEF InOrder
<1>7. CASE O!Exits \/ O!Kill
  <2>1. build' = O!Idle /\ UNCHANGED O!user /\ UNCHANGED map
    BY <1>7 DEF O!Exits, O!Kill, O!outputs
  <2>2. \A k \in O!Next1 : mode # "love" => k \in DOMAIN Entries
    BY <1>t DEF O!Next1
  <2>3. out' \in [O!Artifacts -> Outs] /\ map' \in [O!Artifacts -> Outs]
    <3>1. 1 \in DOMAIN Entries
      BY EntryFacts
    <3>2. UNCHANGED out \/ \E k \in DOMAIN Entries : out' = [out EXCEPT ![O!Artifact(k)] = O!Built(k, FALSE)]
      BY <1>7, <2>2, <3>1 DEF O!Exits, O!Kill, O!outputs
    <3>3. QED
      BY <1>t, <2>1, <3>2, BuiltType
  <2>4. build' \in Runs /\ build'.pc = "idle" /\ build'.left = {}
    BY <2>1 DEF O!Idle, Runs
  <2>5. QED
    BY <2>1, <2>3, <2>4, OrderAtRest
<1>8. CASE UNCHANGED O!vars
  <2>1. UNCHANGED <<mode, source, wantsMap, out, map, build>> /\ O!Asked' = O!Asked
    BY <1>8, UserStays DEF O!vars, O!user, O!outputs
  <2>2. QED
    BY <2>1 DEF BuildTypeOK, InOrder
<1>9. QED
  BY <1>1, <1>2, <1>3, <1>4, <1>5, <1>6, <1>7, <1>8 DEF O!Next

\* What was emitted last is the last that is done.
LEMMA EmittedIsLast ==
    ASSUME BuildTypeOK, InOrder, mode = "plain", NEW k \in O!Next1, build'.left = build.left \ {k}
    PROVE  O!JustEmitted' = k
<1>1. O!Asked = DOMAIN Entries /\ build.left \subseteq DOMAIN Entries
  BY EntryFacts DEF BuildTypeOK
<1>2. k \in build.left /\ \A j \in build.left : k <= j
  BY DEF O!Next1
<1>3. \A j \in DOMAIN Entries \ build.left, i \in build.left : j < i
  BY <1>1 DEF InOrder
<1>4. \A j \in DOMAIN Entries : j \in Nat
  BY EntryFacts
<1> DEFINE gone == DOMAIN Entries \ build'.left
<1>5. k \in gone /\ \A j \in gone : j <= k
  BY <1>1, <1>2, <1>3, <1>4
<1>6. \A i \in gone : (\A j \in gone : j <= i) => i = k
  BY <1>4, <1>5
<1>7. O!JustEmitted' = CHOOSE i \in gone : \A j \in gone : j <= i
  BY DEF O!JustEmitted
<1> HIDE DEF gone
<1>8. QED
  BY <1>5, <1>6, <1>7

\* Every step keeps current what is done.
LEMMA CurrentNext ==
    ASSUME EntriesHaveNames, BuildTypeOK, InOrder, DoneIsCurrent, [O!Next]_(O!vars)
    PROVE  DoneIsCurrent'
<1> USE DEF O!At
<1>t. /\ build \in Runs /\ out \in [O!Artifacts -> Outs] /\ map \in [O!Artifacts -> Outs]
      /\ build.left \subseteq O!Asked /\ O!Asked \subseteq DOMAIN Entries /\ build.failed \in BOOLEAN
      /\ (mode # "love" => O!Asked = DOMAIN Entries) /\ 1 \in DOMAIN Entries
  BY EntryFacts DEF BuildTypeOK, Runs
<1>f. ASSUME build'.pc = "idle" \/ build'.failed PROVE DoneIsCurrent'
  BY <1>f DEF DoneIsCurrent
<1>1. CASE O!Edits
  BY <1>1, <1>f DEF O!Edits
<1>2. CASE O!Gate
  <2>1. UNCHANGED O!user
    BY <1>2 DEF O!Gate
  <2>2. build'.failed \/ build'.left = O!Asked'
    BY <1>2, <2>1, UserStays DEF O!Gate, O!Idle
  <2>3. QED
    BY <1>f, <2>2 DEF DoneIsCurrent
<1>3. ASSUME NEW k \in DOMAIN Entries, O!Emit(k) PROVE DoneIsCurrent'
  <2>1. build.pc = "emit" /\ mode # "love" /\ k \in O!Next1 /\ UNCHANGED O!user /\ UNCHANGED map
    BY <1>3 DEF O!Emit
  <2>2. CASE out' = [out EXCEPT ![O!Artifact(k)] = O!Built(k, TRUE)] /\ build' = O!Emitted(k)
    <3>1. RunIs(IF wantsMap THEN "map" ELSE "emit", build.left \ {k}) /\ build'.failed = build.failed
      BY <2>1, <2>2, EmittedFacts
    <3>2. /\ UNCHANGED <<mode, source, wantsMap>> /\ O!Asked' = O!Asked
          /\ \A j, w : O!Built(j, w)' = O!Built(j, w)
      BY <2>1, UserStays
    <3>3. wantsMap => build'.pc = "map" /\ O!JustEmitted' = k
      <4>1. wantsMap => mode = "plain"
        BY DEF BuildTypeOK
      <4>2. QED
        BY <2>1, <3>1, <4>1, EmittedIsLast DEF RunIs
    <3>4. /\ out'[O!Artifact(k)] = O!Built(k, TRUE)
          /\ \A j \in DOMAIN Entries : j # k => out'[O!Artifact(j)] = out[O!Artifact(j)]
      BY <1>t, <2>2, EntryFacts DEF EntriesHaveNames
    <3>5. ASSUME ~build.failed, NEW j \in O!Asked \ build'.left
          PROVE  /\ out'[O!Artifact(j)] = O!Built(j, TRUE)
                 /\ wantsMap /\ ~(build'.pc = "map" /\ j = O!JustEmitted') => map[O!Artifact(j)] = O!Built(j, TRUE)
      <4>1. CASE j = k
        BY <3>3, <3>4, <4>1
      <4>2. CASE j # k
        <5>1. j \in O!Asked \ build.left /\ j \in DOMAIN Entries
          BY <1>t, <3>1, <3>5, <4>2 DEF RunIs
        <5>2. out[O!Artifact(j)] = O!Built(j, TRUE) /\ (wantsMap => map[O!Artifact(j)] = O!Built(j, TRUE))
          BY <2>1, <3>5, <5>1 DEF DoneIsCurrent
        <5>3. QED
          BY <3>4, <4>2, <5>1, <5>2
      <4>3. QED
        BY <4>1, <4>2
    <3>6. QED
      BY <2>1, <3>1, <3>2, <3>5 DEF DoneIsCurrent, O!Artifact
  <2>3. CASE build' = O!Missed(k)
    BY <1>f, <2>1, <2>3, MissedFacts
  <2>4. QED
    BY <1>3, <2>2, <2>3 DEF O!Emit
<1>4. CASE O!EmitMap
  <2> DEFINE e == O!JustEmitted
  <2>1. build.pc = "map" /\ UNCHANGED O!user /\ UNCHANGED out /\ e \in DOMAIN Entries
    BY <1>4 DEF O!EmitMap, InOrder, O!JustEmitted
  <2>2. CASE map' = [map EXCEPT ![O!Artifact(e)] = O!Built(e, TRUE)] /\ build' = [build EXCEPT !.pc = "emit"]
    <3>1. build'.left = build.left /\ build'.failed = build.failed /\ build'.pc = "emit"
      BY <1>t, <2>2 DEF Runs
    <3>2. /\ UNCHANGED <<mode, source, wantsMap>> /\ O!Asked' = O!Asked
          /\ \A j, w : O!Built(j, w)' = O!Built(j, w)
      BY <2>1, UserStays
    <3> HIDE DEF e
    <3>3. /\ map'[O!Artifact(e)] = O!Built(e, TRUE)
          /\ \A j \in DOMAIN Entries : j # e => map'[O!Artifact(j)] = map[O!Artifact(j)]
      BY <1>t, <2>1, <2>2, EntryFacts DEF EntriesHaveNames
    <3>4. ASSUME ~build.failed, NEW j \in O!Asked \ build.left
          PROVE  out[O!Artifact(j)] = O!Built(j, TRUE) /\ (wantsMap => map'[O!Artifact(j)] = O!Built(j, TRUE))
      <4>1. j \in DOMAIN Entries
        BY <1>t
      <4>2. out[O!Artifact(j)] = O!Built(j, TRUE) /\ (wantsMap /\ j # e => map[O!Artifact(j)] = O!Built(j, TRUE))
        BY <2>1, <3>4 DEF DoneIsCurrent, e
      <4>3. QED
        BY <3>3, <4>1, <4>2
    <3>5. QED
      BY <2>1, <3>1, <3>2, <3>4 DEF DoneIsCurrent, O!Artifact
  <2>3. CASE O!Fail
    BY <1>f, <1>t, <2>3 DEF O!Fail, Runs
  <2>4. QED
    BY <1>4, <2>2, <2>3 DEF O!EmitMap
<1>5. CASE O!Package
  <2>1. mode = "love" /\ UNCHANGED O!user /\ ~wantsMap /\ O!Asked = {1}
    BY <1>5 DEF O!Package, BuildTypeOK, O!Asked
  <2>2. CASE out' = [out EXCEPT ![O!Artifact(1)] = O!Built(1, TRUE)]
    <3>1. out'[O!Artifact(1)] = O!Built(1, TRUE)
      BY <1>t, <2>2, EntryFacts
    <3>2. O!Asked' = O!Asked /\ (\A j, w : O!Built(j, w)' = O!Built(j, w)) /\ ~wantsMap'
      BY <2>1, UserStays
    <3>3. QED
      BY <2>1, <3>1, <3>2 DEF DoneIsCurrent, O!Artifact
  <2>3. CASE O!Fail
    BY <1>f, <1>t, <2>3 DEF O!Fail, Runs
  <2>4. QED
    BY <1>5, <2>2, <2>3 DEF O!Package, O!Zips
<1>6. CASE O!Ends
  <2>1. build.pc = "emit" /\ build' = [build EXCEPT !.pc = "end"] /\ UNCHANGED O!user /\ UNCHANGED <<out, map>>
    BY <1>6 DEF O!Ends, O!outputs
  <2>2. build'.left = build.left /\ build'.failed = build.failed /\ build'.pc = "end"
    BY <1>t, <2>1 DEF Runs
  <2>3. /\ UNCHANGED <<mode, source, wantsMap>> /\ O!Asked' = O!Asked
        /\ \A j, w : O!Built(j, w)' = O!Built(j, w)
    BY <2>1, UserStays
  <2>4. QED
    BY <2>1, <2>2, <2>3 DEF DoneIsCurrent, O!Artifact
<1>7. CASE O!Exits \/ O!Kill
  <2>1. build' = O!Idle
    BY <1>7 DEF O!Exits, O!Kill
  <2>2. QED
    BY <1>f, <2>1 DEF O!Idle
<1>8. CASE UNCHANGED O!vars
  <2>1. UNCHANGED O!user /\ UNCHANGED <<out, map, build>>
    BY <1>8 DEF O!vars, O!outputs
  <2>2. /\ UNCHANGED wantsMap /\ O!Asked' = O!Asked /\ O!JustEmitted' = O!JustEmitted
        /\ \A j, w : O!Built(j, w)' = O!Built(j, w)
    BY <2>1, UserStays DEF O!JustEmitted
  <2>3. QED
    BY <2>1, <2>2 DEF DoneIsCurrent, O!Artifact
<1>9. QED
  BY <1>1, <1>2, <1>3, <1>4, <1>5, <1>6, <1>7, <1>8 DEF O!Next

\* The invariant of the builds is inductive.
LEMMA BuildInductive == O!Spec => []BuildInv
<1>1. O!Init => BuildInv
  <2> SUFFICES ASSUME O!Init PROVE BuildInv
    OBVIOUS
  <2>1. build.pc = "idle"
    BY DEF O!Init, O!Idle
  <2>2. DoneIsCurrent
    BY <2>1 DEF DoneIsCurrent
  <2>3. QED
    BY <2>2, OrderInit DEF BuildInv
<1>2. BuildInv /\ [O!Next]_(O!vars) => BuildInv'
  <2> SUFFICES ASSUME BuildInv, [O!Next]_(O!vars) PROVE BuildInv'
    OBVIOUS
  <2>1. BuildTypeOK /\ InOrder /\ (EntriesHaveNames => DoneIsCurrent)
    BY DEF BuildInv
  <2>2. BuildTypeOK' /\ InOrder'
    BY <2>1, OrderNext
  <2>3. EntriesHaveNames => DoneIsCurrent'
    BY <2>1, CurrentNext
  <2>4. EntriesHaveNames' = EntriesHaveNames
    BY DEF EntriesHaveNames, O!Artifact
  <2>5. QED
    BY <2>2, <2>3, <2>4 DEF BuildInv
<1>3. QED
  BY <1>1, <1>2, PTL DEF O!Spec

------------------------------------------------------------------------------
(***************************************************************************)
(* The search for cyclic classes, for any classes and any declarations.    *)
(* A walk that is over has told the cycles of the names apart, whatever    *)
(* order it went in: the invariant is that of a depth-first search with a  *)
(* low-link, and says what the frames, the component stack, the indices    *)
(* and the links have to do with ancestry.                                 *)
(***************************************************************************)
\* Among any numbers one is first.
LEMMA FirstIs ==
    ASSUME NEW T \in SUBSET Nat, T # {}
    PROVE  C!First(T) \in T /\ \A j \in T : C!First(T) <= j
<1> DEFINE Below(x) == {y \in T : y < x}
           F == {Below(x) : x \in T}
<1>0. \A x \in T : x \in Nat
  OBVIOUS
<1>1. ASSUME NEW x \in T PROVE Below(x) \in FiniteSubsetsOf(Nat)
  <2>1. Below(x) \in SUBSET Nat /\ x \in Nat
    BY <1>0
  <2>2. \A y \in Below(x) : y <= x
    BY <1>0
  <2> HIDE DEF Below
  <2>3. IsFiniteSet(Below(x))
    BY <2>1, <2>2, FS_BoundedSetOfNaturals
  <2>4. QED
    BY <2>1, <2>3 DEF FiniteSubsetsOf
<1>2. F \subseteq FiniteSubsetsOf(Nat) /\ F # {}
  BY <1>1
<1>3. PICK X \in F : \A Y \in F : <<Y, X>> \notin StrictSubsetOrdering(Nat)
  BY <1>2, FS_StrictSubsetOrderingWellFounded, WFMin
<1>4. PICK x \in T : X = Below(x)
  BY <1>3
<1>5. ASSUME NEW y \in T, ~(x <= y) PROVE FALSE
  <2>1. y < x /\ y \in Nat /\ x \in Nat
    BY <1>5
  <2>2. Below(y) \in SUBSET Nat /\ Below(x) \in SUBSET Nat
    OBVIOUS
  <2>3. ASSUME NEW z \in Below(y) PROVE z \in Below(x)
    BY <1>0, <2>1
  <2>4. y \in Below(x) /\ y \notin Below(y)
    BY <2>1
  <2>5. <<Below(y), Below(x)>> \in StrictSubsetOrdering(Nat)
    BY <2>2, <2>3, <2>4 DEF StrictSubsetOrdering
  <2>6. Below(y) \in F
    OBVIOUS
  <2>7. QED
    BY <1>3, <1>4, <2>5, <2>6
<1>6. QED
  BY <1>5 DEF C!First

------------------------------------------------------------------------------
(***************************************************************************)
(* The graph: parents and ancestors.                                       *)
(***************************************************************************)
\* Declarations name classes.
LEMMA ParentsAreClasses ==
    ASSUME decls \in Projects
    PROVE  /\ C!Declared \subseteq Classes /\ Classes \subseteq Nat
           /\ \A k \in DOMAIN decls : k \in Nat /\ decls[k].name \in Classes /\ decls[k].parents \in Seq(Classes)
           /\ \A n : C!ParentsOf(n) \subseteq Classes
<1> DEFINE D == [name : Classes, parents : Seq(Classes)]
<1>1. decls \in Seq(D) /\ Classes \subseteq Nat
  BY CommandAssumption DEF C!CycleAssumption
<1>2. \A k \in DOMAIN decls : k \in Nat /\ decls[k] \in D
  <2> HIDE DEF D
  <2> QED
    BY <1>1
<1>3. \A k \in DOMAIN decls : k \in Nat /\ decls[k].name \in Classes /\ decls[k].parents \in Seq(Classes)
  BY <1>2
<1>4. \A k \in DOMAIN decls : C!Listed(k) \subseteq Classes
  BY <1>3 DEF C!Listed
<1>5. \A n : C!ParentsOf(n) \subseteq Classes
  BY <1>4 DEF C!ParentsOf, C!DeclsOf
<1>6. QED
  BY <1>1, <1>3, <1>5 DEF C!Declared

\* The ancestors are closed under parents, and the least such set.
LEMMA AncestorsLeast ==
    ASSUME decls \in Projects
    PROVE  \A n : /\ C!Ancestors(n) \subseteq Classes /\ C!ParentsOf(n) \subseteq C!Ancestors(n)
                  /\ \A x \in C!Ancestors(n) : C!ParentsOf(x) \subseteq C!Ancestors(n)
                  /\ \A T : T \subseteq Classes /\ C!ParentsOf(n) \subseteq T /\ (\A x \in T : C!ParentsOf(x) \subseteq T)
                            => C!Ancestors(n) \subseteq T
<1> SUFFICES ASSUME NEW n
    PROVE  /\ C!Ancestors(n) \subseteq Classes /\ C!ParentsOf(n) \subseteq C!Ancestors(n)
           /\ \A x \in C!Ancestors(n) : C!ParentsOf(x) \subseteq C!Ancestors(n)
           /\ \A T : T \subseteq Classes /\ C!ParentsOf(n) \subseteq T /\ (\A x \in T : C!ParentsOf(x) \subseteq T)
                     => C!Ancestors(n) \subseteq T
  OBVIOUS
<1>1. C!Ancestors(n) \subseteq Classes
  BY DEF C!Ancestors
<1>2. C!ParentsOf(n) \subseteq C!Ancestors(n)
  BY ParentsAreClasses DEF C!Ancestors
<1>3. ASSUME NEW x \in C!Ancestors(n), NEW p \in C!ParentsOf(x) PROVE p \in C!Ancestors(n)
  <2>1. p \in Classes
    BY ParentsAreClasses
  <2>2. ASSUME NEW T \in SUBSET Classes, C!ParentsOf(n) \subseteq T, \A y \in T : C!ParentsOf(y) \subseteq T PROVE p \in T
    <3>1. x \in T
      BY <2>2 DEF C!Ancestors
    <3>2. QED
      BY <2>2, <3>1
  <2>3. QED
    BY <2>1, <2>2 DEF C!Ancestors
<1>4. ASSUME NEW T, T \subseteq Classes, C!ParentsOf(n) \subseteq T, \A x \in T : C!ParentsOf(x) \subseteq T
      PROVE  C!Ancestors(n) \subseteq T
  BY <1>4 DEF C!Ancestors
<1>5. QED
  BY <1>1, <1>2, <1>3, <1>4

\* An ancestor's ancestors are ancestors; an ancestor is a parent or a parent's
\* ancestor.
LEMMA AncestorsOfAncestors ==
    ASSUME decls \in Projects
    PROVE  /\ \A n : \A m \in C!Ancestors(n) : C!Ancestors(m) \subseteq C!Ancestors(n)
           /\ \A n : \A m \in C!Ancestors(n) : m \in C!ParentsOf(n) \/ (\E p \in C!ParentsOf(n) : m \in C!Ancestors(p))
<1>1. ASSUME NEW n, NEW m \in C!Ancestors(n) PROVE C!Ancestors(m) \subseteq C!Ancestors(n)
  BY AncestorsLeast
<1>2. ASSUME NEW n, NEW m \in C!Ancestors(n) PROVE m \in C!ParentsOf(n) \/ (\E p \in C!ParentsOf(n) : m \in C!Ancestors(p))
  <2> DEFINE T == C!ParentsOf(n) \cup UNION {C!Ancestors(p) : p \in C!ParentsOf(n)}
  <2>1. T \subseteq Classes
    BY AncestorsLeast, ParentsAreClasses
  <2>2. ASSUME NEW x \in T PROVE C!ParentsOf(x) \subseteq T
    <3>1. CASE x \in C!ParentsOf(n)
      BY <3>1, AncestorsLeast
    <3>2. CASE \E p \in C!ParentsOf(n) : x \in C!Ancestors(p)
      BY <3>2, AncestorsLeast
    <3>3. QED
      BY <3>1, <3>2
  <2>3. C!ParentsOf(n) \subseteq T
    OBVIOUS
  <2>4. C!Ancestors(n) \subseteq T
    <3> HIDE DEF T
    <3> QED
      BY <2>1, <2>2, <2>3, AncestorsLeast
  <2>5. QED
    BY <2>4
<1>3. QED
  BY <1>1, <1>2

\* A name reaches itself and its ancestors.
Reaches(n, m) == n = m \/ m \in C!Ancestors(n)

\* Reaching is transitive, and goes through an edge.
LEMMA ReachesOn ==
    ASSUME decls \in Projects
    PROVE  /\ \A l, m, n : Reaches(l, m) /\ Reaches(m, n) => Reaches(l, n)
           /\ \A l, m : \A n \in C!ParentsOf(m) : Reaches(l, m) => Reaches(l, n)
<1>1. ASSUME NEW l, NEW m, NEW n, Reaches(l, m), Reaches(m, n) PROVE Reaches(l, n)
  BY <1>1, AncestorsOfAncestors DEF Reaches
<1>2. ASSUME NEW l, NEW m, NEW n \in C!ParentsOf(m), Reaches(l, m) PROVE Reaches(l, n)
  BY <1>1, <1>2, AncestorsLeast DEF Reaches
<1>3. QED
  BY <1>1, <1>2

\* What the declarations alone determine stays with them.
LEMMA SameDeclarations ==
    ASSUME decls' = decls
    PROVE  /\ C!Declared' = C!Declared
           /\ \A n : C!ParentsOf(n)' = C!ParentsOf(n)
           /\ \A n : C!Ancestors(n)' = C!Ancestors(n)
           /\ \A n, m : Reaches(n, m)' = Reaches(n, m)
<1>1. C!Declared' = C!Declared
  BY DEF C!Declared
<1>2. \A n : C!ParentsOf(n)' = C!ParentsOf(n)
  BY DEF C!ParentsOf, C!DeclsOf, C!Listed
<1>3. \A n : C!Ancestors(n)' = C!Ancestors(n)
  BY <1>2 DEF C!Ancestors
<1>4. QED
  BY <1>1, <1>2, <1>3 DEF Reaches

\* The parent a turn of the loop visits is one that is left.
LEMMA ParentIsLeft ==
    ASSUME decls \in Projects, C!Left # {}
    PROVE  C!Parent \in C!Left
<1>1. \A k \in DOMAIN decls : k \in Nat /\ decls[k].parents \in Seq(Classes)
  BY ParentsAreClasses
<1> DEFINE Ks == {j \in C!DeclsOf(C!Top.name) : C!Listed(j) \cap C!Left # {}}
<1>2. Ks \subseteq Nat /\ Ks # {}
  BY <1>1 DEF C!Left, C!ParentsOf, C!DeclsOf
<1> DEFINE k == C!First(Ks)
<1>3. k \in Ks
  <2> HIDE DEF Ks
  <2> QED
    BY <1>2, FirstIs
<1>4. k \in DOMAIN decls /\ C!Listed(k) \cap C!Left # {}
  BY <1>3 DEF C!DeclsOf
<1> HIDE DEF k, Ks
<1> DEFINE Is == {j \in DOMAIN decls[k].parents : decls[k].parents[j] \in C!Left}
<1>5. Is \subseteq Nat /\ Is # {}
  <2>1. decls[k].parents \in Seq(Classes)
    BY <1>1, <1>4
  <2>2. \A j \in DOMAIN decls[k].parents : j \in Nat
    BY <2>1
  <2>3. QED
    BY <1>4, <2>2 DEF C!Listed
<1> DEFINE i == C!First(Is)
<1>6. i \in Is
  <2> HIDE DEF Is
  <2> QED
    BY <1>5, FirstIs
<1>7. decls[k].parents[i] \in C!Left
  BY <1>6
<1>8. C!Parent = decls[k].parents[i]
  BY DEF C!Parent, k, Ks
<1>9. QED
  BY <1>7, <1>8

------------------------------------------------------------------------------
(***************************************************************************)
(* The state of the search.                                                *)
(***************************************************************************)
Node  == [index : Nat, low : Nat, onStack : BOOLEAN]
PathFrame == [name : Classes, visited : SUBSET Classes]

SearchTypeOK ==
    /\ decls \in Projects
    /\ DOMAIN nodes \subseteq Classes /\ nodes \in [DOMAIN nodes -> Node]
    /\ component \in Seq(Classes) /\ frames \in Seq(PathFrame)
    /\ selfEdged \subseteq Classes /\ groups \subseteq SUBSET Classes

\* The names on the component stack and off it, their numbers, and the path of
\* the walk.
On  == {n \in DOMAIN nodes : nodes[n].onStack}
Off == DOMAIN nodes \ On
Idx(n) == nodes[n].index
Low(n) == nodes[n].low
Path  == DOMAIN frames
At(k) == frames[k].name

\* The parents of a name that the walk has visited from it.
Seen(n) == {p \in C!ParentsOf(n) : \A k \in Path : At(k) = n => p \in frames[k].visited}

\* The names that are above and below a name.
Cycle(n) == {m \in C!Ancestors(n) : n \in C!Ancestors(m)}

\* Names are numbered as they are entered.
Numbered ==
    /\ IsFiniteSet(DOMAIN nodes)
    /\ \A n \in DOMAIN nodes : Idx(n) < Cardinality(DOMAIN nodes) /\ Low(n) <= Idx(n)
    /\ \A n, m \in DOMAIN nodes : Idx(m) = Idx(n) => m = n

\* The component stack and the path are in that order.
Stacked ==
    /\ On = {component[k] : k \in DOMAIN component}
    /\ \A j, k \in DOMAIN component : j < k => Idx(component[j]) < Idx(component[k])
OnPath ==
    /\ \A k \in Path : At(k) \in On /\ frames[k].visited \subseteq C!ParentsOf(At(k))
    /\ \A j, k \in Path : j < k => Idx(At(j)) < Idx(At(k))

\* What has been visited has been entered, and no name off the stack leads back.
SeenEntered == \A n \in DOMAIN nodes : Seen(n) \subseteq DOMAIN nodes
OffClosed   == \A n \in Off : C!ParentsOf(n) \subseteq Off

\* Every name on the stack is above the path's names before it, and below one.
Down == \A k \in Path : \A m \in On : Idx(At(k)) <= Idx(m) => Reaches(At(k), m)
Up   == \A m \in On : \E k \in Path : Idx(At(k)) <= Idx(m) /\ Reaches(m, At(k))

\* A link leads to a name on the stack, and no edge visited from the names
\* entered under a path's name leads below its link.
LinkReached == \A k \in Path : \E w \in On : Idx(w) = Low(At(k)) /\ Reaches(At(k), w)
Segment(k) == {m \in On : Idx(At(k)) <= Idx(m) /\ (k = Len(frames) \/ Idx(m) < Idx(At(k + 1)))}
LinkLeast  == \A k \in Path : \A m \in Segment(k) : \A p \in Seen(m) \cap On : Low(At(k)) <= Idx(p)

\* The classes seen to be their own parents, and the groups of what is off the
\* stack.
SelfSeen == selfEdged = {n \in DOMAIN nodes : n \in Seen(n)}
Grouped  == groups = {Cycle(n) : n \in {m \in Off : m \in C!Ancestors(m)}}

\* The inductive invariant.
SearchInv ==
    /\ SearchTypeOK /\ Numbered /\ Stacked /\ OnPath /\ SeenEntered /\ OffClosed
    /\ Down /\ Up /\ LinkReached /\ LinkLeast /\ SelfSeen /\ Grouped

\* What typing and the order of the path say of names, numbers and places.
LEMMA SearchFacts ==
    ASSUME SearchInv
    PROVE  /\ On \subseteq DOMAIN nodes /\ Off \subseteq DOMAIN nodes /\ On \cap Off = {} /\ DOMAIN nodes = On \cup Off
           /\ DOMAIN nodes \subseteq Classes
           /\ \A n \in DOMAIN nodes : Idx(n) \in Nat /\ Low(n) \in Nat /\ nodes[n] \in Node
           /\ Cardinality(DOMAIN nodes) \in Nat
           /\ Path = 1..Len(frames) /\ Len(frames) \in Nat /\ (frames # <<>> <=> Len(frames) \in Path)
           /\ \A k \in Path : k \in Nat /\ At(k) \in On /\ frames[k] \in PathFrame
           /\ \A j, k \in Path : j <= k => Idx(At(j)) <= Idx(At(k))
           /\ \A j, k \in Path : At(j) = At(k) => j = k
           /\ \A j, k \in Path : Idx(At(j)) < Idx(At(k)) => j < k
<1> USE DEF SearchInv
<1>1. On \subseteq DOMAIN nodes /\ Off \subseteq DOMAIN nodes /\ On \cap Off = {} /\ DOMAIN nodes = On \cup Off
  BY DEF On, Off
<1>2. DOMAIN nodes \subseteq Classes /\ Cardinality(DOMAIN nodes) \in Nat
  BY FS_CardinalityType DEF SearchTypeOK, Numbered
<1>3. \A n \in DOMAIN nodes : nodes[n] \in Node
  BY DEF SearchTypeOK
<1>4. \A n \in DOMAIN nodes : Idx(n) \in Nat /\ Low(n) \in Nat
  BY <1>3 DEF Idx, Low, Node
<1>5. frames \in Seq(PathFrame)
  BY DEF SearchTypeOK
<1>6. Path = 1..Len(frames) /\ Len(frames) \in Nat /\ (frames # <<>> <=> Len(frames) \in Path)
  <2> HIDE DEF SearchInv
  <2>1. Path = 1..Len(frames) /\ Len(frames) \in Nat
    BY <1>5 DEF Path
  <2>2. frames # <<>> <=> Len(frames) # 0
    BY <1>5
  <2>3. QED
    BY <2>1, <2>2
<1>7. \A k \in Path : k \in Nat /\ frames[k] \in PathFrame
  BY <1>5, <1>6 DEF Path
<1>8. \A k \in Path : At(k) \in On
  BY DEF OnPath
<1>9. \A k \in Path : Idx(At(k)) \in Nat
  BY <1>1, <1>4, <1>8
<1>10. \A j, k \in Path : j < k => Idx(At(j)) < Idx(At(k))
  BY DEF OnPath
<1>11. \A j, k \in Path : j <= k => Idx(At(j)) <= Idx(At(k))
  <2> HIDE DEF SearchInv
  <2> SUFFICES ASSUME NEW j \in Path, NEW k \in Path, j <= k PROVE Idx(At(j)) <= Idx(At(k))
    OBVIOUS
  <2>1. CASE j = k
    BY <2>1, <1>9
  <2>2. CASE j # k
    <3>1. j < k
      BY <2>2, <1>7
    <3>2. QED
      BY <3>1, <1>9, <1>10
  <2>3. QED
    BY <2>1, <2>2
<1>12. \A j, k \in Path : At(j) = At(k) => j = k
  <2> HIDE DEF SearchInv
  <2> SUFFICES ASSUME NEW j \in Path, NEW k \in Path, At(j) = At(k), j # k PROVE FALSE
    OBVIOUS
  <2>1. j < k \/ k < j
    BY <1>7
  <2>2. Idx(At(j)) < Idx(At(k)) \/ Idx(At(k)) < Idx(At(j))
    BY <2>1, <1>10
  <2>3. QED
    BY <2>2, <1>9
<1>13. \A j, k \in Path : Idx(At(j)) < Idx(At(k)) => j < k
  <2> HIDE DEF SearchInv
  <2> SUFFICES ASSUME NEW j \in Path, NEW k \in Path, Idx(At(j)) < Idx(At(k)), ~(j < k) PROVE FALSE
    OBVIOUS
  <2>1. k <= j
    BY <1>7
  <2>2. Idx(At(k)) <= Idx(At(j))
    BY <2>1, <1>11
  <2>3. QED
    BY <2>2, <1>9
<1>14. QED
  BY <1>1, <1>2, <1>3, <1>4, <1>6, <1>7, <1>8, <1>11, <1>12, <1>13

\* The invariant holds at the start.
LEMMA SearchInit == C!Init => SearchInv
<1> SUFFICES ASSUME C!Init PROVE SearchInv
  OBVIOUS
<1>1. nodes = <<>> /\ component = <<>> /\ frames = <<>> /\ selfEdged = {} /\ groups = {} /\ decls \in Projects
  BY DEF C!Init
<1>2. DOMAIN nodes = {} /\ DOMAIN frames = {} /\ DOMAIN component = {} /\ Len(frames) = 0
  BY <1>1
<1>3. On = {} /\ Off = {} /\ Path = {}
  BY <1>2 DEF On, Off, Path
<1>4. SearchTypeOK
  <2>1. nodes \in [DOMAIN nodes -> Node]
    BY <1>1
  <2>2. QED
    BY <1>1, <1>2, <2>1 DEF SearchTypeOK
<1>5. Numbered /\ Stacked /\ OnPath /\ SeenEntered /\ OffClosed /\ Down /\ Up /\ LinkReached /\ LinkLeast
  BY <1>2, <1>3, FS_EmptySet DEF Numbered, Stacked, OnPath, SeenEntered, OffClosed, Down, Up, LinkReached, LinkLeast
<1>6. SelfSeen /\ Grouped
  BY <1>1, <1>2, <1>3 DEF SelfSeen, Grouped
<1>7. QED
  BY <1>4, <1>5, <1>6 DEF SearchInv

------------------------------------------------------------------------------
(***************************************************************************)
(* Entering a name: a root, or a parent not met before.                    *)
(***************************************************************************)
\* The search counts as the library does.
LEMMA CardinalityIsItself == \A T : C!Cardinality(T) = Cardinality(T)
BY DEF C!Cardinality, Cardinality, C!IsFiniteSet, IsFiniteSet

\* What entering does to the numbers and the stack.
LEMMA EnterFacts ==
    ASSUME SearchInv, NEW n \in Classes \ DOMAIN nodes, C!Enter(n)
    PROVE  /\ DOMAIN nodes' = DOMAIN nodes \cup {n} /\ On' = On \cup {n} /\ Off' = Off
           /\ \A m \in DOMAIN nodes : Idx(m)' = Idx(m) /\ Low(m)' = Low(m)
           /\ Idx(n)' = Cardinality(DOMAIN nodes) /\ Low(n)' = Cardinality(DOMAIN nodes)
           /\ nodes' \in [DOMAIN nodes' -> Node]
           /\ component' = Append(component, n)
<1> DEFINE index == Cardinality(DOMAIN nodes)
<1>1. nodes' = [m \in DOMAIN nodes \cup {n} |->
                    IF m = n THEN [index |-> index, low |-> index, onStack |-> TRUE] ELSE nodes[m]]
      /\ component' = Append(component, n)
  BY CardinalityIsItself DEF C!Enter
<1>2. index \in Nat /\ n \notin DOMAIN nodes /\ \A m \in DOMAIN nodes : nodes[m] \in Node
  BY SearchFacts
<1> HIDE DEF index
<1>3. DOMAIN nodes' = DOMAIN nodes \cup {n}
  BY <1>1
<1>4. nodes'[n] = [index |-> index, low |-> index, onStack |-> TRUE] /\ \A m \in DOMAIN nodes : nodes'[m] = nodes[m]
  BY <1>1, <1>2
<1>5. nodes'[n] \in Node
  BY <1>2, <1>4 DEF Node
<1>6. nodes' \in [DOMAIN nodes' -> Node]
  BY <1>1, <1>2, <1>3, <1>4, <1>5
<1>7. On' = On \cup {n}
  BY <1>3, <1>4 DEF On
<1>8. Off' = Off
  BY <1>2, <1>3, <1>7 DEF Off, On
<1>9. QED
  BY <1>1, <1>3, <1>4, <1>6, <1>7, <1>8 DEF Idx, Low, index

\* What it does to the path: the name at its end has visited the new one, which
\* comes after it and has visited none.
Pushed(n) ==
    /\ frames' \in Seq(PathFrame) /\ Len(frames') = Len(frames) + 1
    /\ \A k \in Path : /\ frames'[k].name = frames[k].name
                       /\ frames'[k].visited = IF k = Len(frames) THEN frames[k].visited \cup {n} ELSE frames[k].visited
    /\ frames'[Len(frames) + 1].name = n /\ frames'[Len(frames) + 1].visited = {}
    /\ frames # <<>> => n \in C!ParentsOf(C!Top.name)

\* The path, and what has been visited, after a push.
LEMMA PushFacts ==
    ASSUME SearchInv, NEW n \in Classes \ DOMAIN nodes, Pushed(n), decls' = decls
    PROVE  /\ Path' = Path \cup {Len(frames) + 1} /\ Len(frames)' = Len(frames) + 1
           /\ \A k \in Path : At(k)' = At(k)
           /\ frames'[Len(frames) + 1].name = n
           /\ \A m \in DOMAIN nodes : Seen(m)' = IF frames # <<>> /\ m = C!Top.name THEN Seen(m) \cup {n} ELSE Seen(m)
           /\ Seen(n)' = {}
<1> DEFINE L == Len(frames)
<1>1. Path = 1..L /\ L \in Nat /\ (frames # <<>> <=> L \in Path)
  BY SearchFacts
<1>2. Path' = Path \cup {L + 1}
  <2>1. Path' = 1..(L + 1)
    BY DEF Path, Pushed
  <2>2. QED
    BY <1>1, <2>1
<1>3. (\A k \in Path : At(k)' = At(k)) /\ frames'[L + 1].name = n
  BY DEF At, Pushed
<1>4. \A k \in Path : At(k) \in DOMAIN nodes
  BY SearchFacts
<1>5. \A x : C!ParentsOf(x)' = C!ParentsOf(x)
  BY SameDeclarations
<1>6. Seen(n)' = {}
  <2> SUFFICES ASSUME NEW p \in Seen(n)' PROVE FALSE
    OBVIOUS
  <2>1. p \in frames'[L + 1].visited
    BY <1>2, <1>3 DEF Seen, At
  <2>2. QED
    BY <2>1 DEF Pushed
<1>7. ASSUME NEW m \in DOMAIN nodes
      PROVE  Seen(m)' = IF frames # <<>> /\ m = C!Top.name THEN Seen(m) \cup {n} ELSE Seen(m)
  <2>1. m # n
    OBVIOUS
  <2>2. \A p : p \in Seen(m)' <=> p \in C!ParentsOf(m) /\ \A k \in Path : At(k) = m => p \in frames'[k].visited
    BY <1>2, <1>3, <1>5, <2>1 DEF Seen, At
  <2>3. CASE frames # <<>> /\ m = C!Top.name
    <3>1. m = At(L) /\ L \in Path /\ n \in C!ParentsOf(m)
      BY <1>1, <2>3 DEF C!Top, At, Pushed
    <3>2. \A k \in Path : At(k) = m => k = L
      BY <3>1, SearchFacts
    <3>3. \A p : p \in Seen(m)' <=> p \in C!ParentsOf(m) /\ p \in frames[L].visited \cup {n}
      BY <2>2, <3>1, <3>2 DEF Pushed
    <3>4. \A p : p \in Seen(m) <=> p \in C!ParentsOf(m) /\ p \in frames[L].visited
      BY <3>1, <3>2 DEF Seen
    <3>5. QED
      BY <2>3, <3>1, <3>3, <3>4
  <2>4. CASE ~(frames # <<>> /\ m = C!Top.name)
    <3>1. \A k \in Path : At(k) = m => k # L
      BY <1>1, <2>4 DEF C!Top, At
    <3>2. \A k \in Path : At(k) = m => frames'[k].visited = frames[k].visited
      BY <3>1 DEF Pushed
    <3>3. \A p : p \in Seen(m)' <=> p \in Seen(m)
      BY <2>2, <3>2 DEF Seen
    <3>4. QED
      BY <2>4, <3>3
  <2>5. QED
    BY <2>3, <2>4
<1>8. QED
  BY <1>2, <1>3, <1>6, <1>7 DEF Pushed

\* Entering keeps the invariant.
LEMMA EnterStep ==
    ASSUME SearchInv, NEW n \in Classes \ DOMAIN nodes, C!Enter(n), Pushed(n), UNCHANGED <<decls, selfEdged, groups>>
    PROVE  SearchInv'
<1> DEFINE N == DOMAIN nodes
           L == Len(frames)
           X == Cardinality(N)
<1>1. /\ On \subseteq N /\ Off \subseteq N /\ On \cap Off = {} /\ N \subseteq Classes /\ X \in Nat
      /\ \A m \in N : Idx(m) \in Nat /\ Low(m) \in Nat /\ Idx(m) < X /\ Low(m) <= Idx(m)
      /\ Path = 1..L /\ L \in Nat /\ (frames # <<>> <=> L \in Path)
      /\ \A k \in Path : k \in Nat /\ At(k) \in On /\ At(k) \in N /\ k < L + 1 /\ k # L + 1
  BY SearchFacts DEF SearchInv, Numbered
<1>2. n \notin N
  OBVIOUS
<1>3. /\ (DOMAIN nodes)' = N \cup {n} /\ On' = On \cup {n} /\ Off' = Off
      /\ \A m \in N : Idx(m)' = Idx(m) /\ Low(m)' = Low(m)
      /\ Idx(n)' = X /\ Low(n)' = X
      /\ nodes' \in [DOMAIN nodes' -> Node]
      /\ component' = Append(component, n)
  BY EnterFacts
<1>4. decls' = decls /\ decls \in Projects
  BY DEF SearchInv, SearchTypeOK
<1>5. /\ Path' = Path \cup {L + 1} /\ Len(frames)' = L + 1
      /\ \A k \in Path : At(k)' = At(k)
      /\ frames'[L + 1].name = n
      /\ \A m \in N : Seen(m)' = IF frames # <<>> /\ m = C!Top.name THEN Seen(m) \cup {n} ELSE Seen(m)
      /\ Seen(n)' = {}
  BY <1>4, PushFacts
<1>6. /\ \A x : C!ParentsOf(x)' = C!ParentsOf(x)
      /\ \A x : C!Ancestors(x)' = C!Ancestors(x)
      /\ \A x, y : Reaches(x, y)' = Reaches(x, y)
  BY <1>4, SameDeclarations
<1>7. \A m \in On' : m = n \/ (m \in On /\ m \in N /\ m # n)
  BY <1>1, <1>2, <1>3
<1>8. \A k \in Path' : k = L + 1 \/ k \in Path
  BY <1>5
<1> HIDE DEF N, L, X
<1>10. SearchTypeOK'
  <2>1. component \in Seq(Classes) /\ selfEdged \subseteq Classes /\ groups \subseteq SUBSET Classes
    BY DEF SearchInv, SearchTypeOK
  <2>2. component' \in Seq(Classes)
    BY <1>3, <2>1
  <2>3. QED
    BY <1>1, <1>3, <1>4, <2>1, <2>2 DEF SearchTypeOK, Pushed
<1>11. Numbered'
  <2>1. IsFiniteSet(N) /\ \A m, l \in N : Idx(m) = Idx(l) => m = l
    BY DEF SearchInv, Numbered, N
  <2>2. IsFiniteSet(N \cup {n}) /\ Cardinality(N \cup {n}) = X + 1
    BY <1>2, <2>1, FS_AddElement DEF X
  <2>3. ASSUME NEW m \in (DOMAIN nodes)' PROVE Idx(m)' < X + 1 /\ Low(m)' <= Idx(m)'
    BY <1>1, <1>3
  <2>4. ASSUME NEW m \in (DOMAIN nodes)', NEW l \in (DOMAIN nodes)', Idx(m)' = Idx(l)' PROVE m = l
    <3>1. CASE m \in N /\ l \in N
      BY <1>3, <2>1, <2>4, <3>1
    <3>2. CASE m \in N /\ l = n
      BY <1>1, <1>3, <2>4, <3>2
    <3>3. CASE m = n /\ l \in N
      BY <1>1, <1>3, <2>4, <3>3
    <3>4. QED
      BY <1>3, <2>4, <3>1, <3>2, <3>3
  <2>5. QED
    BY <1>3, <2>2, <2>3, <2>4 DEF Numbered
<1>12. Stacked'
  <2>1. component \in Seq(Classes) /\ On = {component[k] : k \in DOMAIN component}
        /\ \A j, k \in DOMAIN component : j < k => Idx(component[j]) < Idx(component[k])
    BY DEF SearchInv, SearchTypeOK, Stacked
  <2> DEFINE c == Len(component)
  <2>2. /\ DOMAIN component = 1..c /\ c \in Nat /\ DOMAIN component' = 1..(c + 1)
        /\ component'[c + 1] = n /\ \A k \in 1..c : component'[k] = component[k]
    BY <1>3, <2>1
  <2>3. \A k \in 1..c : component[k] \in N
    BY <1>1, <2>1, <2>2
  <2> HIDE DEF c
  <2>4. On' = {component'[k] : k \in DOMAIN component'}
    <3>1. \A k \in 1..(c + 1) : k = c + 1 \/ k \in 1..c
      BY <2>2
    <3>2. c + 1 \in 1..(c + 1) /\ 1..c \subseteq 1..(c + 1)
      BY <2>2
    <3>3. QED
      BY <1>3, <2>1, <2>2, <3>1, <3>2
  <2>5. ASSUME NEW j \in DOMAIN component', NEW k \in DOMAIN component', j < k
        PROVE  nodes'[component'[j]].index < nodes'[component'[k]].index
    <3>1. j \in 1..c /\ component'[j] \in N /\ component'[j] = component[j]
      BY <2>2, <2>3, <2>5
    <3>2. CASE k = c + 1
      <4>2. nodes'[component[j]].index < X
        BY <1>1, <1>3, <2>3, <3>1 DEF Idx
      <4>3. nodes'[component'[k]].index = X
        BY <1>3, <2>2, <3>2 DEF Idx
      <4>4. QED
        BY <3>1, <4>2, <4>3
    <3>3. CASE k # c + 1
      <4>1. k \in 1..c /\ component'[k] = component[k] /\ component[k] \in N
        BY <2>2, <2>3, <3>3
      <4>2. Idx(component[j]) < Idx(component[k])
        BY <2>1, <2>2, <2>5, <3>1, <4>1
      <4>3. nodes'[component[j]].index = Idx(component[j]) /\ nodes'[component[k]].index = Idx(component[k])
        BY <1>3, <2>3, <3>1, <4>1 DEF Idx
      <4>4. QED
        BY <3>1, <4>1, <4>2, <4>3
    <3>4. QED
      BY <3>2, <3>3
  <2>6. QED
    BY <2>4, <2>5 DEF Stacked, Idx
<1>13. /\ \A m \in N : nodes'[m].index = Idx(m) /\ nodes'[m].low = Low(m)
       /\ nodes'[n].index = X /\ nodes'[n].low = X /\ n \in On' /\ frames'[L + 1].name = n
       /\ \A k \in Path : frames'[k].name = At(k)
  <2>1. \A m \in N : nodes'[m].index = Idx(m) /\ nodes'[m].low = Low(m)
    BY <1>3 DEF Idx, Low
  <2>2. nodes'[n].index = X /\ nodes'[n].low = X /\ n \in On' /\ frames'[L + 1].name = n
    BY <1>3, <1>5 DEF Idx, Low
  <2>3. \A k \in Path : frames'[k].name = At(k)
    BY <1>5 DEF At
  <2>4. QED
    BY <2>1, <2>2, <2>3
<1>14. OnPath'
  <2>1. ASSUME NEW k \in Path' PROVE frames'[k].name \in On' /\ frames'[k].visited \subseteq C!ParentsOf(frames'[k].name)
    <3>1. CASE k = L + 1
      BY <1>13, <3>1 DEF Pushed, L
    <3>2. CASE k \in Path
      <4>1. frames'[k].name = At(k) /\ At(k) \in On' /\ frames[k].visited \subseteq C!ParentsOf(At(k))
        BY <1>1, <1>3, <1>13, <3>2 DEF SearchInv, OnPath
      <4>2. CASE k = L
        <5>1. frames # <<>> /\ n \in C!ParentsOf(At(k))
          BY <1>1, <3>2, <4>2 DEF Pushed, C!Top, At, L
        <5>2. frames'[k].visited = frames[k].visited \cup {n}
          BY <3>2, <4>2 DEF Pushed, L
        <5>3. QED
          BY <4>1, <5>1, <5>2
      <4>3. CASE k # L
        <5>1. frames'[k].visited = frames[k].visited
          BY <3>2, <4>3 DEF Pushed, L
        <5>2. QED
          BY <4>1, <5>1
      <4>4. QED
        BY <4>2, <4>3
    <3>3. QED
      BY <1>8, <3>1, <3>2
  <2>2. ASSUME NEW j \in Path', NEW k \in Path', j < k
        PROVE  nodes'[frames'[j].name].index < nodes'[frames'[k].name].index
    <3>1. j \in Path /\ frames'[j].name = At(j) /\ At(j) \in N /\ nodes'[At(j)].index = Idx(At(j)) /\ Idx(At(j)) < X
      <4>1. j \in Path
        BY <1>1, <1>8, <2>2
      <4>2. QED
        BY <1>1, <1>13, <4>1
    <3>2. CASE k = L + 1
      BY <1>13, <3>1, <3>2
    <3>3. CASE k \in Path
      <4>1. Idx(At(j)) < Idx(At(k))
        BY <2>2, <3>1, <3>3 DEF SearchInv, OnPath
      <4>2. frames'[k].name = At(k) /\ At(k) \in N /\ nodes'[At(k)].index = Idx(At(k))
        BY <1>1, <1>13, <3>3
      <4>3. QED
        BY <3>1, <4>1, <4>2
    <3>4. QED
      BY <1>8, <3>2, <3>3
  <2>3. QED
    BY <1>6, <2>1, <2>2 DEF OnPath, At, Idx
<1>15. SeenEntered'
  <2>1. ASSUME NEW m \in (DOMAIN nodes)' PROVE Seen(m)' \subseteq (DOMAIN nodes)'
    <3>1. CASE m = n
      BY <1>5, <3>1
    <3>2. CASE m \in N
      <4>1. Seen(m) \subseteq N
        BY <3>2 DEF SearchInv, SeenEntered, N
      <4>2. QED
        BY <1>3, <1>5, <3>2, <4>1
    <3>3. QED
      BY <1>3, <3>1, <3>2
  <2>2. QED
    BY <2>1 DEF SeenEntered
<1>16. OffClosed'
  BY <1>3, <1>6 DEF SearchInv, OffClosed
<1>17. Down'
  <2>1. ASSUME NEW k \in Path', NEW m \in On', nodes'[frames'[k].name].index <= nodes'[m].index
        PROVE  Reaches(frames'[k].name, m)
    <3>1. CASE k = L + 1 /\ m = n
      BY <1>13, <3>1 DEF Reaches
    <3>2. CASE k = L + 1 /\ m # n
      <4>1. m \in N /\ Idx(m) < X /\ Idx(m) \in Nat
        BY <1>1, <1>7, <3>2
      <4>2. X <= Idx(m)
        BY <1>13, <2>1, <3>2, <4>1
      <4>3. QED
        BY <1>1, <4>1, <4>2
    <3>3. CASE k \in Path /\ m = n
      <4>1. frames # <<>> /\ L \in Path /\ C!Top.name = At(L) /\ n \in C!ParentsOf(At(L))
        BY <1>1, <3>3 DEF Pushed, C!Top, At, L
      <4>2. k <= L
        BY <1>1, <3>3
      <4>3. Idx(At(k)) <= Idx(At(L))
        BY <3>3, <4>1, <4>2, SearchFacts
      <4>4. Reaches(At(k), At(L))
        BY <1>1, <3>3, <4>1, <4>3 DEF SearchInv, Down
      <4>5. Reaches(At(k), n)
        BY <1>4, <4>1, <4>4, ReachesOn
      <4>6. QED
        BY <1>13, <3>3, <4>5
    <3>4. CASE k \in Path /\ m # n
      <4>1. m \in On /\ m \in N
        BY <1>7, <3>4
      <4>2. frames'[k].name = At(k) /\ At(k) \in N
        BY <1>1, <1>13, <3>4
      <4>3. Idx(At(k)) <= Idx(m)
        BY <1>13, <2>1, <4>1, <4>2
      <4>4. QED
        BY <3>4, <4>1, <4>2, <4>3 DEF SearchInv, Down
    <3>5. QED
      BY <1>8, <3>1, <3>2, <3>3, <3>4
  <2>2. QED
    BY <1>6, <2>1 DEF Down, At, Idx
<1>18. Up'
  <2>1. ASSUME NEW m \in On'
        PROVE  \E k \in Path' : nodes'[frames'[k].name].index <= nodes'[m].index /\ Reaches(m, frames'[k].name)
    <3>1. CASE m = n
      <4>1. nodes'[frames'[L + 1].name].index <= nodes'[m].index /\ Reaches(m, frames'[L + 1].name)
        BY <1>1, <1>13, <3>1 DEF Reaches
      <4>2. QED
        BY <1>5, <4>1 DEF L
    <3>2. CASE m # n
      <4>1. m \in On /\ m \in N
        BY <1>7, <3>2
      <4>2. PICK k \in Path : Idx(At(k)) <= Idx(m) /\ Reaches(m, At(k))
        BY <4>1 DEF SearchInv, Up
      <4>3. frames'[k].name = At(k) /\ At(k) \in N /\ k \in Path'
        BY <1>1, <1>5, <1>13
      <4>4. QED
        BY <1>13, <4>1, <4>2, <4>3
    <3>3. QED
      BY <3>1, <3>2
  <2>2. QED
    BY <1>6, <2>1 DEF Up, At, Idx
<1>19. LinkReached'
  <2>1. ASSUME NEW k \in Path'
        PROVE  \E w \in On' : nodes'[w].index = nodes'[frames'[k].name].low /\ Reaches(frames'[k].name, w)
    <3>1. CASE k = L + 1
      BY <1>13, <3>1 DEF Reaches
    <3>2. CASE k \in Path
      <4>1. PICK w \in On : Idx(w) = Low(At(k)) /\ Reaches(At(k), w)
        BY <3>2 DEF SearchInv, LinkReached
      <4>2. w \in On' /\ w \in N /\ frames'[k].name = At(k) /\ At(k) \in N
        BY <1>1, <1>3, <1>13, <3>2
      <4>3. QED
        BY <1>13, <4>1, <4>2
    <3>3. QED
      BY <1>8, <3>1, <3>2
  <2>2. QED
    BY <1>6, <2>1 DEF LinkReached, At, Idx, Low
<1>20. LinkLeast'
  <2>1. ASSUME NEW k \in Path', NEW m \in On', NEW p \in Seen(m)' \cap On',
               nodes'[frames'[k].name].index <= nodes'[m].index,
               k = L + 1 \/ nodes'[m].index < nodes'[frames'[k + 1].name].index
        PROVE  nodes'[frames'[k].name].low <= nodes'[p].index
    <3>1. m \in On /\ m \in N /\ m # n
      BY <1>5, <1>7, <2>1
    <3>2. Idx(m) \in Nat /\ nodes'[m].index = Idx(m)
      BY <1>1, <1>13, <3>1
    <3>3. k \in Path
      <4>1. CASE k = L + 1
        <5>1. X <= Idx(m)
          BY <1>13, <2>1, <3>2, <4>1
        <5>2. QED
          BY <1>1, <3>1, <5>1
      <4>2. QED
        BY <1>8, <4>1
    <3>4. frames'[k].name = At(k) /\ At(k) \in N /\ nodes'[At(k)].index = Idx(At(k)) /\ nodes'[At(k)].low = Low(At(k))
      BY <1>1, <1>13, <3>3
    <3>5. CASE p = n
      <4>1. Low(At(k)) <= X
        BY <1>1, <3>4
      <4>2. QED
        BY <1>13, <3>4, <3>5, <4>1
    <3>6. CASE p # n
      <4>1. p \in On /\ p \in N /\ p \in Seen(m) /\ nodes'[p].index = Idx(p)
        <5>1. p \in On /\ p \in N
          BY <1>7, <2>1, <3>6
        <5>2. p \in Seen(m)
          BY <1>5, <2>1, <3>1, <3>6
        <5>3. QED
          BY <1>13, <5>1, <5>2
      <4>2. m \in Segment(k)
        <5>1. Idx(At(k)) <= Idx(m)
          BY <2>1, <3>2, <3>4
        <5>2. CASE k = L
          BY <3>1, <5>1, <5>2 DEF Segment, L
        <5>3. CASE k # L
          <6>1. k + 1 \in Path /\ k # L + 1
            BY <1>1, <3>3, <5>3
          <6>2. frames'[k + 1].name = At(k + 1) /\ At(k + 1) \in N
            BY <1>1, <1>13, <6>1
          <6>3. Idx(m) < Idx(At(k + 1))
            BY <1>13, <2>1, <3>2, <6>1, <6>2
          <6>4. QED
            BY <3>1, <5>1, <6>3 DEF Segment
        <5>4. QED
          BY <5>2, <5>3
      <4>3. Low(At(k)) <= Idx(p)
        BY <3>3, <4>1, <4>2 DEF SearchInv, LinkLeast
      <4>4. QED
        BY <3>4, <4>1, <4>3
    <3>7. QED
      BY <3>5, <3>6
  <2>2. QED
    BY <1>5, <2>1 DEF LinkLeast, Segment, At, Idx, Low, L
<1>21. SelfSeen'
  <2>1. \A m \in (DOMAIN nodes)' : m \in Seen(m)' <=> m \in N /\ m \in Seen(m)
    BY <1>2, <1>3, <1>5
  <2>2. selfEdged' = {m \in N : m \in Seen(m)}
    BY DEF SearchInv, SelfSeen, N
  <2>3. \A m : m \in {l \in DOMAIN nodes : l \in Seen(l)}' <=> m \in {l \in N : l \in Seen(l)}
    BY <1>3, <2>1
  <2>4. QED
    BY <2>2, <2>3 DEF SelfSeen
<1>22. Grouped'
  <2>1. \A x : Cycle(x)' = Cycle(x)
    BY <1>6 DEF Cycle
  <2>2. QED
    BY <1>3, <1>6, <2>1 DEF SearchInv, Grouped
<1>23. QED
  BY <1>10, <1>11, <1>12, <1>14, <1>15, <1>16, <1>17, <1>18, <1>19, <1>20, <1>21, <1>22 DEF SearchInv

\* The next root: the path is empty, and its name is the first of those left.
LEMMA NextRootStep == SearchInv /\ C!NextRoot => SearchInv'
<1> SUFFICES ASSUME SearchInv, C!NextRoot PROVE SearchInv'
  OBVIOUS
<1> DEFINE n == C!First(C!Declared \ DOMAIN nodes)
<1>1. /\ frames = <<>> /\ C!Declared \ DOMAIN nodes # {} /\ C!Enter(n)
      /\ frames' = <<[name |-> n, visited |-> {}]>> /\ UNCHANGED <<decls, selfEdged, groups>>
  BY DEF C!NextRoot
<1>2. n \in C!Declared \ DOMAIN nodes /\ n \in Classes
  <2>1. C!Declared \subseteq Classes /\ Classes \subseteq Nat
    BY ParentsAreClasses DEF SearchInv, SearchTypeOK
  <2>2. C!Declared \ DOMAIN nodes \in SUBSET Nat
    BY <2>1
  <2>3. n \in C!Declared \ DOMAIN nodes
    BY <1>1, <2>2, FirstIs
  <2>4. QED
    BY <2>1, <2>3
<1> HIDE DEF n
<1>3. Pushed(n)
  <2>1. [name |-> n, visited |-> {}] \in PathFrame
    BY <1>2 DEF PathFrame
  <2>2. frames' \in Seq(PathFrame) /\ Len(frames') = 1 /\ frames'[1] = [name |-> n, visited |-> {}]
    BY <1>1, <2>1
  <2>3. Path = {} /\ Len(frames) = 0
    BY <1>1 DEF Path
  <2>4. QED
    BY <1>1, <2>2, <2>3 DEF Pushed
<1>4. QED
  BY <1>1, <1>2, <1>3, EnterStep

\* The parent at hand, and what visiting it does to the path.
LEMMA SteppedFacts ==
    ASSUME SearchInv, C!Visiting
    PROVE  /\ Len(frames) \in Path /\ C!Top.name = At(Len(frames)) /\ C!Top.name \in On /\ C!Top.name \in DOMAIN nodes
           /\ C!Parent \in C!ParentsOf(C!Top.name) /\ C!Parent \notin C!Top.visited /\ C!Parent \in Classes
           /\ C!Stepped \in Seq(PathFrame) /\ Len(C!Stepped) = Len(frames)
           /\ \A k \in Path : /\ C!Stepped[k].name = frames[k].name
                              /\ C!Stepped[k].visited = IF k = Len(frames) THEN frames[k].visited \cup {C!Parent}
                                                      ELSE frames[k].visited
           /\ C!Parent \notin Seen(C!Top.name)
<1> DEFINE L == Len(frames)
<1>1. frames # <<>> /\ C!Left # {}
  BY DEF C!Visiting
<1>2. frames \in Seq(PathFrame) /\ decls \in Projects
  BY DEF SearchInv, SearchTypeOK
<1>3. L \in Path /\ L \in Nat /\ Path = 1..L /\ C!Top.name = At(L) /\ C!Top.name \in On /\ C!Top.name \in DOMAIN nodes
  BY <1>1, SearchFacts DEF C!Top, At
<1>4. C!Parent \in C!ParentsOf(C!Top.name) /\ C!Parent \notin C!Top.visited /\ C!Parent \in Classes
  BY <1>1, <1>2, ParentIsLeft, ParentsAreClasses DEF C!Left
<1>5. \A k \in Path : frames[k] \in PathFrame
  BY SearchFacts
<1>6. /\ C!Stepped \in Seq(PathFrame) /\ Len(C!Stepped) = L
      /\ \A k \in Path : C!Stepped[k] = IF k = L THEN [frames[k] EXCEPT !.visited = @ \cup {C!Parent}] ELSE frames[k]
  <2> DEFINE f == [frames[L] EXCEPT !.visited = @ \cup {C!Parent}]
  <2>1. frames[L] \in PathFrame
    BY <1>3, <1>5
  <2>2. f \in PathFrame
    BY <1>4, <2>1 DEF PathFrame
  <2>3. C!Stepped = [frames EXCEPT ![L] = f]
    BY DEF C!Stepped
  <2> HIDE DEF f
  <2>4. \A k \in Path : C!Stepped[k] = IF k = L THEN f ELSE frames[k]
    BY <1>3, <2>3 DEF Path
  <2>5. C!Stepped \in Seq(PathFrame) /\ Len(C!Stepped) = L
    BY <1>2, <1>3, <2>2, <2>3
  <2>6. QED
    BY <2>4, <2>5 DEF f
<1>7. \A k \in Path : /\ C!Stepped[k].name = frames[k].name
                      /\ C!Stepped[k].visited = IF k = L THEN frames[k].visited \cup {C!Parent} ELSE frames[k].visited
  <2> SUFFICES ASSUME NEW k \in Path
      PROVE /\ C!Stepped[k].name = frames[k].name
            /\ C!Stepped[k].visited = IF k = L THEN frames[k].visited \cup {C!Parent} ELSE frames[k].visited
    OBVIOUS
  <2>1. frames[k] \in PathFrame
    BY <1>5
  <2>2. C!Stepped[k] = IF k = L THEN [frames[k] EXCEPT !.visited = @ \cup {C!Parent}] ELSE frames[k]
    BY <1>6
  <2>3. QED
    BY <2>1, <2>2 DEF PathFrame
<1>8. C!Parent \notin Seen(C!Top.name)
  BY <1>3, <1>4 DEF Seen, C!Top
<1>9. QED
  BY <1>3, <1>4, <1>6, <1>7, <1>8

\* A parent not met before is entered.
LEMMA DescendStep == SearchInv /\ C!Descend => SearchInv'
<1> SUFFICES ASSUME SearchInv, C!Descend PROVE SearchInv'
  OBVIOUS
<1> DEFINE n == C!Parent
<1>1. /\ C!Visiting /\ n \notin DOMAIN nodes /\ C!Enter(n) /\ C!SelfEdge
      /\ frames' = Append(C!Stepped, [name |-> n, visited |-> {}]) /\ UNCHANGED <<decls, groups>>
  BY DEF C!Descend
<1>2. /\ Len(frames) \in Path /\ C!Top.name \in DOMAIN nodes
      /\ n \in C!ParentsOf(C!Top.name) /\ n \in Classes
      /\ C!Stepped \in Seq(PathFrame) /\ Len(C!Stepped) = Len(frames)
      /\ \A k \in Path : /\ C!Stepped[k].name = frames[k].name
                         /\ C!Stepped[k].visited = IF k = Len(frames) THEN frames[k].visited \cup {n}
                                                 ELSE frames[k].visited
  BY <1>1, SteppedFacts
<1>3. selfEdged' = selfEdged
  BY <1>1, <1>2 DEF C!SelfEdge
<1> HIDE DEF n
<1>4. Pushed(n)
  <2>1. [name |-> n, visited |-> {}] \in PathFrame
    BY <1>2 DEF PathFrame
  <2>2. /\ frames' \in Seq(PathFrame) /\ Len(frames') = Len(frames) + 1
        /\ frames'[Len(frames) + 1] = [name |-> n, visited |-> {}]
        /\ \A k \in 1..Len(frames) : frames'[k] = C!Stepped[k]
    BY <1>1, <1>2, <2>1
  <2>3. Path = 1..Len(frames)
    BY SearchFacts
  <2>4. \A k \in Path : /\ frames'[k].name = frames[k].name
                        /\ frames'[k].visited = IF k = Len(frames) THEN frames[k].visited \cup {n} ELSE frames[k].visited
    BY <1>2, <2>2, <2>3
  <2>5. frames'[Len(frames) + 1].name = n /\ frames'[Len(frames) + 1].visited = {}
    BY <2>2
  <2>6. frames' \in Seq(PathFrame) /\ Len(frames') = Len(frames) + 1 /\ n \in C!ParentsOf(C!Top.name)
    BY <1>2, <2>2
  <2>7. QED
    BY <2>4, <2>5, <2>6 DEF Pushed
<1>5. QED
  BY <1>1, <1>2, <1>3, <1>4, EnterStep

------------------------------------------------------------------------------
(***************************************************************************)
(* A back- or cross-edge.                                                  *)
(***************************************************************************)
\* What the walk of an edge to a name met before does.
LEMMA BackEdgeFacts ==
    ASSUME SearchInv, C!BackEdge
    PROVE  /\ DOMAIN nodes' = DOMAIN nodes /\ On' = On /\ Off' = Off /\ nodes' \in [DOMAIN nodes -> Node]
           /\ \A m \in DOMAIN nodes :
                 /\ nodes'[m].index = Idx(m)
                 /\ nodes'[m].low = IF m = C!Top.name /\ C!Parent \in On /\ Idx(C!Parent) < Low(m) THEN Idx(C!Parent) ELSE Low(m)
           /\ frames' \in Seq(PathFrame) /\ Path' = Path /\ Len(frames') = Len(frames)
           /\ \A k \in Path : frames'[k].name = At(k)
           /\ \A k \in Path : frames'[k].visited = IF k = Len(frames) THEN frames[k].visited \cup {C!Parent}
                                                   ELSE frames[k].visited
           /\ \A m \in DOMAIN nodes : Seen(m)' = IF m = C!Top.name THEN Seen(m) \cup {C!Parent} ELSE Seen(m)
<1> DEFINE p == C!Parent
           t == C!Top.name
           L == Len(frames)
<1>1. /\ C!Visiting /\ p \in DOMAIN nodes /\ frames' = C!Stepped /\ decls' = decls
      /\ nodes' = IF nodes[p].onStack THEN C!Lowered(t, nodes[p].index) ELSE nodes
  BY DEF C!BackEdge
<1>2. /\ L \in Path /\ t = At(L) /\ t \in DOMAIN nodes /\ p \in C!ParentsOf(t)
      /\ C!Stepped \in Seq(PathFrame) /\ Len(C!Stepped) = Len(frames)
      /\ \A k \in Path : /\ C!Stepped[k].name = frames[k].name
                         /\ C!Stepped[k].visited = IF k = Len(frames) THEN frames[k].visited \cup {p}
                                                 ELSE frames[k].visited
  BY <1>1, SteppedFacts
<1>3. /\ \A m \in DOMAIN nodes : nodes[m] \in Node /\ Idx(m) \in Nat /\ Low(m) \in Nat
      /\ nodes \in [DOMAIN nodes -> Node] /\ Path = 1..L /\ L \in Nat
  BY SearchFacts DEF SearchInv, SearchTypeOK
<1>4. p \in On <=> nodes[p].onStack
  BY <1>1 DEF On
<1> HIDE DEF p, t
<1>7. /\ DOMAIN nodes' = DOMAIN nodes /\ On' = On /\ Off' = Off /\ nodes' \in [DOMAIN nodes -> Node]
      /\ \A m \in DOMAIN nodes :
            /\ nodes'[m].index = Idx(m)
            /\ nodes'[m].low = IF m = t /\ p \in On /\ Idx(p) < Low(m) THEN Idx(p) ELSE Low(m)
  <2>1. CASE p \in On
    <3> DEFINE low == IF Idx(p) < Low(t) THEN Idx(p) ELSE Low(t)
    <3>1. nodes' = [nodes EXCEPT ![t].low = IF nodes[p].index < @ THEN nodes[p].index ELSE @]
      BY <1>1, <1>4, <2>1 DEF C!Lowered
    <3>2. low \in Nat
      BY <1>1, <1>2, <1>3
    <3>3. nodes' = [nodes EXCEPT ![t] = [nodes[t] EXCEPT !.low = low]]
      BY <1>2, <3>1 DEF Idx, Low
    <3> HIDE DEF low
    <3> DEFINE r == [nodes[t] EXCEPT !.low = low]
    <3>4. nodes[t] \in Node
      BY <1>2, <1>3
    <3>5. r \in Node /\ r.index = nodes[t].index /\ r.onStack = nodes[t].onStack /\ r.low = low
      BY <3>2, <3>4 DEF Node
    <3> HIDE DEF r
    <3>6. nodes' = [nodes EXCEPT ![t] = r]
      BY <3>3 DEF r
    <3>7. DOMAIN nodes' = DOMAIN nodes /\ \A m \in DOMAIN nodes : nodes'[m] = IF m = t THEN r ELSE nodes[m]
      BY <1>2, <1>3, <3>6
    <3>8. nodes' \in [DOMAIN nodes -> Node]
      BY <1>3, <3>5, <3>6
    <3>9. On' = On /\ Off' = Off
      BY <3>5, <3>7 DEF On, Off
    <3>10. \A m \in DOMAIN nodes :
              /\ nodes'[m].index = Idx(m)
              /\ nodes'[m].low = IF m = t /\ p \in On /\ Idx(p) < Low(m) THEN Idx(p) ELSE Low(m)
      BY <2>1, <3>5, <3>7 DEF Idx, Low, low
    <3>11. QED
      BY <3>7, <3>8, <3>9, <3>10
  <2>2. CASE p \notin On
    <3>1. nodes' = nodes
      BY <1>1, <1>4, <2>2
    <3>2. QED
      BY <1>3, <2>2, <3>1 DEF On, Off, Idx, Low
  <2>3. QED
    BY <2>1, <2>2
<1>8. /\ frames' \in Seq(PathFrame) /\ Path' = Path /\ Len(frames') = L
      /\ \A k \in Path : frames'[k].name = At(k)
      /\ \A k \in Path : frames'[k].visited = IF k = L THEN frames[k].visited \cup {p} ELSE frames[k].visited
  <2>1. frames' \in Seq(PathFrame) /\ Len(frames') = L
    BY <1>1, <1>2
  <2>2. Path' = Path
    BY <1>3, <2>1 DEF Path
  <2>3. QED
    BY <1>1, <1>2, <2>1, <2>2 DEF At
<1>9. \A x : C!ParentsOf(x)' = C!ParentsOf(x)
  BY <1>1, SameDeclarations
<1>10. ASSUME NEW m \in DOMAIN nodes PROVE Seen(m)' = IF m = t THEN Seen(m) \cup {p} ELSE Seen(m)
  <2>1. \A q : q \in Seen(m)' <=> q \in C!ParentsOf(m) /\ \A k \in Path : At(k) = m => q \in frames'[k].visited
    BY <1>8, <1>9 DEF Seen, At
  <2>2. \A k \in Path : At(k) = t => k = L
    BY <1>2, SearchFacts
  <2>3. CASE m = t
    <3>1. \A q : q \in Seen(m)' <=> q \in C!ParentsOf(m) /\ q \in frames[L].visited \cup {p}
      BY <1>2, <1>8, <2>1, <2>2, <2>3
    <3>2. \A q : q \in Seen(m) <=> q \in C!ParentsOf(m) /\ q \in frames[L].visited
      BY <1>2, <2>2, <2>3 DEF Seen
    <3>3. QED
      BY <1>2, <2>3, <3>1, <3>2
  <2>4. CASE m # t
    <3>1. \A k \in Path : At(k) = m => frames'[k].visited = frames[k].visited
      BY <1>2, <1>8, <2>4
    <3>2. \A q : q \in Seen(m)' <=> q \in Seen(m)
      BY <2>1, <3>1 DEF Seen
    <3>3. QED
      BY <2>4, <3>2
  <2>5. QED
    BY <2>3, <2>4
<1>11. QED
  BY <1>7, <1>8, <1>10 DEF p, t

\* Such an edge keeps the invariant.
LEMMA BackEdgeStep == SearchInv /\ C!BackEdge => SearchInv'
<1> SUFFICES ASSUME SearchInv, C!BackEdge PROVE SearchInv'
  OBVIOUS
<1> DEFINE N == DOMAIN nodes
           L == Len(frames)
           p == C!Parent
           t == C!Top.name
<1>1. /\ On \subseteq N /\ N \subseteq Classes /\ Off \subseteq N
      /\ \A m \in N : Idx(m) \in Nat /\ Low(m) \in Nat
      /\ Path = 1..L /\ L \in Nat
      /\ \A k \in Path : k \in Nat /\ At(k) \in On /\ At(k) \in N
  BY SearchFacts
<1>2. C!Visiting /\ p \in N /\ decls' = decls /\ component' = component /\ groups' = groups /\ C!SelfEdge
  BY DEF C!BackEdge
<1>3. L \in Path /\ t = At(L) /\ t \in On /\ t \in N /\ p \in C!ParentsOf(t)
  BY <1>2, SteppedFacts
<1>4. /\ (DOMAIN nodes)' = N /\ On' = On /\ Off' = Off /\ nodes' \in [N -> Node]
      /\ \A m \in N : /\ nodes'[m].index = Idx(m)
                      /\ nodes'[m].low = IF m = t /\ p \in On /\ Idx(p) < Low(m) THEN Idx(p) ELSE Low(m)
      /\ frames' \in Seq(PathFrame) /\ Path' = Path /\ Len(frames') = L
      /\ \A k \in Path : frames'[k].name = At(k)
      /\ \A k \in Path : frames'[k].visited = IF k = L THEN frames[k].visited \cup {p} ELSE frames[k].visited
      /\ \A m \in N : Seen(m)' = IF m = t THEN Seen(m) \cup {p} ELSE Seen(m)
  BY BackEdgeFacts
<1>5. /\ \A x : C!ParentsOf(x)' = C!ParentsOf(x)
      /\ \A x : C!Ancestors(x)' = C!Ancestors(x)
      /\ \A x, y : Reaches(x, y)' = Reaches(x, y)
  BY <1>2, SameDeclarations
<1>6. decls \in Projects /\ component \in Seq(Classes) /\ selfEdged \subseteq Classes /\ groups \subseteq SUBSET Classes
  BY DEF SearchInv, SearchTypeOK
<1> HIDE DEF N, L, p, t
<1>7. \A m \in N : nodes'[m].low \in Nat /\ nodes'[m].low <= Low(m)
  BY <1>1, <1>2, <1>4
<1>10. SearchTypeOK'
  <2>1. selfEdged' \subseteq Classes
    BY <1>1, <1>2, <1>6 DEF C!SelfEdge, p
  <2>2. QED
    BY <1>1, <1>2, <1>4, <1>6, <2>1 DEF SearchTypeOK
<1>11. Numbered'
  <2>1. /\ IsFiniteSet(N) /\ Cardinality(N) \in Nat
        /\ \A m \in N : Idx(m) < Cardinality(N) /\ Low(m) <= Idx(m)
        /\ \A m, l \in N : Idx(m) = Idx(l) => m = l
    BY SearchFacts DEF SearchInv, Numbered, N
  <2>2. \A m \in N : nodes'[m].index < Cardinality(N) /\ nodes'[m].low <= nodes'[m].index
    BY <1>1, <1>4, <1>7, <2>1
  <2>3. QED
    BY <1>4, <2>1, <2>2 DEF Numbered, Idx, Low
<1>12. Stacked'
  <2>1. On = {component[k] : k \in DOMAIN component}
        /\ \A j, k \in DOMAIN component : j < k => Idx(component[j]) < Idx(component[k])
    BY DEF SearchInv, Stacked
  <2>2. \A k \in DOMAIN component : component[k] \in N
    BY <1>1, <2>1
  <2>3. \A k \in DOMAIN component : nodes'[component[k]].index = Idx(component[k])
    BY <1>4, <2>2
  <2>4. QED
    BY <1>2, <1>4, <2>1, <2>3 DEF Stacked, Idx
<1>13. OnPath'
  <2>1. ASSUME NEW k \in Path PROVE frames'[k].name \in On /\ frames'[k].visited \subseteq C!ParentsOf(frames'[k].name)
    BY <1>1, <1>3, <1>4 DEF SearchInv, OnPath
  <2>2. ASSUME NEW j \in Path, NEW k \in Path, j < k
        PROVE  nodes'[frames'[j].name].index < nodes'[frames'[k].name].index
    BY <1>1, <1>4, <2>2 DEF SearchInv, OnPath
  <2>3. QED
    BY <1>4, <1>5, <2>1, <2>2 DEF OnPath, At, Idx
<1>14. SeenEntered'
  <2>1. \A m \in N : Seen(m) \subseteq N
    BY DEF SearchInv, SeenEntered, N
  <2>2. \A m \in N : Seen(m)' \subseteq N
    BY <1>2, <1>4, <2>1
  <2>3. QED
    BY <1>4, <2>2 DEF SeenEntered
<1>15. OffClosed'
  BY <1>4, <1>5 DEF SearchInv, OffClosed
<1>16. Down'
  <2>1. ASSUME NEW k \in Path, NEW m \in On, nodes'[frames'[k].name].index <= nodes'[m].index
        PROVE  Reaches(frames'[k].name, m)
    BY <1>1, <1>4, <2>1 DEF SearchInv, Down
  <2>2. QED
    BY <1>4, <1>5, <2>1 DEF Down, At, Idx
<1>17. Up'
  <2>1. ASSUME NEW m \in On
        PROVE  \E k \in Path : nodes'[frames'[k].name].index <= nodes'[m].index /\ Reaches(m, frames'[k].name)
    BY <1>1, <1>4 DEF SearchInv, Up
  <2>2. QED
    BY <1>4, <1>5, <2>1 DEF Up, At, Idx
<1>18. LinkReached'
  <2>1. ASSUME NEW k \in Path
        PROVE  \E w \in On : nodes'[w].index = nodes'[At(k)].low /\ Reaches(At(k), w)
    <3>1. PICK w \in On : Idx(w) = Low(At(k)) /\ Reaches(At(k), w)
      BY DEF SearchInv, LinkReached
    <3>2. CASE At(k) = t /\ p \in On /\ Idx(p) < Low(At(k))
      <4>1. nodes'[At(k)].low = Idx(p) /\ nodes'[p].index = Idx(p)
        BY <1>1, <1>2, <1>4, <3>2
      <4>2. Reaches(At(k), p)
        BY <1>3, <1>6, <3>2, AncestorsLeast DEF Reaches
      <4>3. QED
        BY <3>2, <4>1, <4>2
    <3>3. CASE ~(At(k) = t /\ p \in On /\ Idx(p) < Low(At(k)))
      <4>1. nodes'[At(k)].low = Low(At(k)) /\ nodes'[w].index = Idx(w)
        BY <1>1, <1>4, <3>3
      <4>2. QED
        BY <3>1, <4>1
    <3>4. QED
      BY <3>2, <3>3
  <2>2. QED
    BY <1>4, <1>5, <2>1 DEF LinkReached, At, Idx, Low
<1>19. LinkLeast'
  <2>1. ASSUME NEW k \in Path, NEW m \in On, NEW q \in Seen(m)' \cap On,
               nodes'[At(k)].index <= nodes'[m].index,
               k = L \/ nodes'[m].index < nodes'[frames'[k + 1].name].index
        PROVE  nodes'[At(k)].low <= nodes'[q].index
    <3>1. /\ m \in N /\ nodes'[m].index = Idx(m) /\ At(k) \in N /\ nodes'[At(k)].index = Idx(At(k))
          /\ q \in N /\ nodes'[q].index = Idx(q) /\ Idx(q) \in Nat /\ k \in Nat
      BY <1>1, <1>4
    <3>2. k # L => k + 1 \in Path /\ frames'[k + 1].name = At(k + 1) /\ At(k + 1) \in N
      BY <1>1, <1>4
    <3>3. m \in Segment(k)
      <4>1. k # L => Idx(m) < Idx(At(k + 1))
        BY <1>4, <2>1, <3>1, <3>2
      <4>2. QED
        BY <2>1, <3>1, <4>1 DEF Segment, L
    <3>4. CASE q \in Seen(m)
      <4>1. Low(At(k)) <= Idx(q)
        BY <2>1, <3>3, <3>4 DEF SearchInv, LinkLeast
      <4>2. QED
        BY <1>1, <1>7, <3>1, <4>1
    <3>5. CASE q \notin Seen(m)
      <4>1. m = t /\ q = p
        BY <1>4, <2>1, <3>1, <3>5
      <4>2. k = L
        <5>1. CASE k # L
          <6>1. Idx(m) < Idx(At(k + 1)) /\ k + 1 \in Path /\ k + 1 <= L
            BY <1>1, <3>2, <3>3, <5>1 DEF Segment, L
          <6>2. Idx(At(k + 1)) <= Idx(At(L))
            BY <1>3, <6>1, SearchFacts
          <6>3. Idx(At(k + 1)) \in Nat /\ Idx(At(L)) \in Nat
            BY <1>1, <1>3, <6>1
          <6>4. QED
            BY <1>1, <1>3, <3>1, <4>1, <6>1, <6>2, <6>3
        <5>2. QED
          BY <5>1
      <4>3. nodes'[At(k)].low <= Idx(p)
        <5>1. nodes'[t].low = IF p \in On /\ Idx(p) < Low(t) THEN Idx(p) ELSE Low(t)
          BY <1>3, <1>4
        <5>2. p \in On /\ Idx(p) \in Nat /\ Low(t) \in Nat /\ At(k) = t
          BY <1>1, <1>3, <2>1, <3>1, <4>1, <4>2
        <5>3. QED
          BY <5>1, <5>2
      <4>4. QED
        BY <3>1, <4>1, <4>3
    <3>6. QED
      BY <3>4, <3>5
  <2>2. QED
    BY <1>4, <2>1 DEF LinkLeast, Segment, At, Idx, Low
<1>20. SelfSeen'
  <2>1. selfEdged = {m \in N : m \in Seen(m)}
    BY DEF SearchInv, SelfSeen, N
  <2>2. selfEdged' = IF p = t THEN selfEdged \cup {p} ELSE selfEdged
    BY <1>2 DEF C!SelfEdge, p, t
  <2>3. \A m \in N : m \in selfEdged' <=> m \in Seen(m)'
    BY <1>4, <2>1, <2>2
  <2>4. selfEdged' \subseteq N
    BY <1>2, <2>1, <2>2
  <2>5. QED
    BY <1>4, <2>3, <2>4 DEF SelfSeen
<1>21. Grouped'
  <2>1. \A x : Cycle(x)' = Cycle(x)
    BY <1>5 DEF Cycle
  <2>2. QED
    BY <1>2, <1>4, <1>5, <2>1 DEF SearchInv, Grouped
<1>22. QED
  BY <1>10, <1>11, <1>12, <1>13, <1>14, <1>15, <1>16, <1>17, <1>18, <1>19, <1>20, <1>21 DEF SearchInv

------------------------------------------------------------------------------
(***************************************************************************)
(* A name whose parents have all been visited.                             *)
(***************************************************************************)
\* The names entered under the path's last one, and those that leave the stack
\* with it.
Under    == {m \in On : Idx(C!Top.name) <= Idx(m)}
TopGroup == IF Low(C!Top.name) = Idx(C!Top.name) THEN Under ELSE {}
From     == CHOOSE k \in DOMAIN component : component[k] = C!Top.name

\* They are the end of the component stack.
LEMMA UnderIsTheEnd ==
    ASSUME SearchInv, frames # <<>>
    PROVE  /\ From \in 1..Len(component) /\ Len(component) \in Nat /\ component \in Seq(Classes)
           /\ {component[k] : k \in From..Len(component)} = Under
           /\ {component[k] : k \in 1..(From - 1)} = On \ Under
<1> DEFINE c == Len(component)
           t == C!Top.name
<1>1. component \in Seq(Classes) /\ On = {component[k] : k \in DOMAIN component}
      /\ \A j, k \in DOMAIN component : j < k => Idx(component[j]) < Idx(component[k])
  BY DEF SearchInv, SearchTypeOK, Stacked
<1>2. DOMAIN component = 1..c /\ c \in Nat
  BY <1>1
<1>3. t \in On
  BY SearchFacts DEF C!Top, At
<1>4. From \in 1..c /\ component[From] = t
  BY <1>1, <1>2, <1>3 DEF From
<1>5. \A k \in 1..c : component[k] \in On /\ Idx(component[k]) \in Nat
  BY <1>1, <1>2, SearchFacts
<1> HIDE DEF t, c
<1>6. ASSUME NEW k \in 1..c PROVE Idx(t) <= Idx(component[k]) <=> From <= k
  <2>1. CASE k < From
    <3>1. Idx(component[k]) < Idx(component[From])
      BY <1>1, <1>2, <1>4, <2>1
    <3>2. QED
      BY <1>2, <1>4, <1>5, <2>1, <3>1
  <2>2. CASE k = From
    BY <1>4, <1>5, <2>2
  <2>3. CASE From < k
    <3>1. Idx(component[From]) < Idx(component[k])
      BY <1>1, <1>2, <1>4, <2>3
    <3>2. QED
      BY <1>2, <1>4, <1>5, <2>3, <3>1
  <2>4. QED
    BY <1>2, <1>4, <2>1, <2>2, <2>3
<1>7. {component[k] : k \in From..c} = Under
  <2>1. ASSUME NEW k \in From..c PROVE component[k] \in Under
    <3>1. k \in 1..c /\ From <= k
      BY <1>2, <1>4
    <3>2. QED
      BY <1>5, <1>6, <3>1 DEF Under, t
  <2>2. ASSUME NEW m \in Under PROVE \E k \in From..c : component[k] = m
    <3>1. PICK k \in 1..c : component[k] = m
      BY <1>1, <1>2 DEF Under
    <3>2. From <= k
      BY <1>6, <3>1 DEF Under, t
    <3>3. k \in From..c
      BY <1>2, <1>4, <3>2
    <3>4. QED
      BY <3>1, <3>3
  <2>3. QED
    BY <2>1, <2>2
<1>8. {component[k] : k \in 1..(From - 1)} = On \ Under
  <2>1. ASSUME NEW k \in 1..(From - 1) PROVE component[k] \in On \ Under
    <3>1. k \in 1..c /\ ~(From <= k)
      BY <1>2, <1>4
    <3>2. QED
      BY <1>5, <1>6, <3>1 DEF Under, t
  <2>2. ASSUME NEW m \in On \ Under PROVE \E k \in 1..(From - 1) : component[k] = m
    <3>1. PICK k \in 1..c : component[k] = m
      BY <1>1, <1>2
    <3>2. ~(From <= k)
      BY <1>6, <3>1 DEF Under, t
    <3>3. k \in 1..(From - 1)
      BY <1>2, <1>4, <3>2
    <3>4. QED
      BY <3>1, <3>3
  <2>3. QED
    BY <2>1, <2>2
<1>9. QED
  BY <1>1, <1>2, <1>4, <1>7, <1>8 DEF c

\* What finishing a name does.
LEMMA FinishFacts ==
    ASSUME SearchInv, C!Finish
    PROVE  /\ frames # <<>> /\ UNCHANGED <<decls, selfEdged>>
           /\ component' = IF Low(C!Top.name) = Idx(C!Top.name) THEN SubSeq(component, 1, From - 1) ELSE component
           /\ groups' = IF Cardinality(TopGroup) > 1 \/ TopGroup \cap {C!Top.name} \cap selfEdged # {}
                        THEN groups \cup {TopGroup} ELSE groups
           /\ frames' \in Seq(PathFrame) /\ Len(frames') = Len(frames) - 1 /\ DOMAIN frames' = 1..(Len(frames) - 1)
           /\ \A k \in 1..(Len(frames) - 1) : k \in Path /\ frames'[k] = frames[k] /\ frames'[k].name = At(k)
           /\ DOMAIN nodes' = DOMAIN nodes /\ nodes' \in [DOMAIN nodes -> Node]
           /\ \A m \in DOMAIN nodes :
                 /\ nodes'[m].index = Idx(m)
                 /\ nodes'[m].onStack <=> nodes[m].onStack /\ m \notin TopGroup
                 /\ nodes'[m].low = IF Len(frames) # 1 /\ m = At(Len(frames) - 1) /\ Low(C!Top.name) < Low(m)
                                    THEN Low(C!Top.name) ELSE Low(m)
           /\ C!ParentsOf(C!Top.name) = Seen(C!Top.name)
<1> DEFINE L == Len(frames)
           t == C!Top.name
           group == IF nodes[t].low = nodes[t].index THEN {component[k] : k \in From..Len(component)} ELSE {}
           off == [m \in DOMAIN nodes |-> [nodes[m] EXCEPT !.onStack = @ /\ m \notin group]]
           c == At(L - 1)
<1>1. /\ frames # <<>> /\ ~C!Visiting /\ UNCHANGED <<decls, selfEdged>>
      /\ component' = IF nodes[t].low = nodes[t].index THEN SubSeq(component, 1, From - 1) ELSE component
      /\ groups' = IF Cardinality(group) > 1 \/ group \cap {t} \cap selfEdged # {} THEN groups \cup {group} ELSE groups
      /\ frames' = SubSeq(frames, 1, L - 1)
      /\ nodes' = IF L = 1 THEN off ELSE [off EXCEPT ![c].low = IF nodes[t].low < @ THEN nodes[t].low ELSE @]
  BY CardinalityIsItself DEF C!Finish, From, At
<1>2. /\ L \in Path /\ L \in Nat /\ Path = 1..L
      /\ \A m \in DOMAIN nodes : nodes[m] \in Node /\ Idx(m) \in Nat /\ Low(m) \in Nat
      /\ \A k \in Path : At(k) \in DOMAIN nodes
  BY <1>1, SearchFacts
<1>3. t = At(L) /\ t \in DOMAIN nodes
  BY <1>2 DEF C!Top, At
<1>4. group = TopGroup
  BY <1>1, UnderIsTheEnd DEF TopGroup, Low, Idx
<1>5. frames \in Seq(PathFrame)
  BY DEF SearchInv, SearchTypeOK
<1>6. /\ frames' \in Seq(PathFrame) /\ Len(frames') = L - 1 /\ DOMAIN frames' = 1..(L - 1)
      /\ \A k \in 1..(L - 1) : k \in Path /\ frames'[k] = frames[k] /\ frames'[k].name = At(k)
  <2> HIDE DEF L
  <2>1. L - 1 \in Nat /\ L - 1 <= Len(frames) /\ L = Len(frames)
    BY <1>2 DEF L
  <2> DEFINE b == L - 1
  <2>2. b \in Nat /\ b <= Len(frames) /\ frames' = SubSeq(frames, 1, b)
    BY <1>1, <2>1
  <2>3. \A k \in 1..b : k \in Path
    BY <1>2, <2>1
  <2> HIDE DEF b
  <2>4. frames' \in Seq(PathFrame) /\ Len(frames') = b
    BY <1>5, <2>2, <2>3 DEF Path
  <2>5. DOMAIN frames' = 1..b
    BY <2>4
  <2>6. \A k \in 1..b : frames'[k] = frames[k]
    BY <1>5, <2>2, <2>3 DEF Path
  <2>7. QED
    BY <2>3, <2>4, <2>5, <2>6 DEF b, At
<1>7. C!ParentsOf(t) = Seen(t)
  <2>1. C!ParentsOf(t) \subseteq frames[L].visited
    BY <1>1 DEF C!Visiting, C!Left, C!Top
  <2>2. \A k \in Path : At(k) = t => k = L
    BY <1>2, <1>3, SearchFacts
  <2>3. QED
    BY <2>1, <2>2 DEF Seen
<1> HIDE DEF t, group, c
<1>8. /\ DOMAIN off = DOMAIN nodes
      /\ \A m \in DOMAIN nodes : /\ off[m] \in Node /\ off[m].index = Idx(m) /\ off[m].low = Low(m)
                                 /\ off[m].onStack <=> nodes[m].onStack /\ m \notin group
  <2>1. DOMAIN off = DOMAIN nodes
    OBVIOUS
  <2>2. ASSUME NEW m \in DOMAIN nodes
        PROVE  /\ off[m] \in Node /\ off[m].index = Idx(m) /\ off[m].low = Low(m)
               /\ off[m].onStack <=> nodes[m].onStack /\ m \notin group
    <3>1. off[m] = [nodes[m] EXCEPT !.onStack = @ /\ m \notin group] /\ nodes[m] \in Node
      BY <1>2
    <3> HIDE DEF off
    <3>2. off[m].index = nodes[m].index /\ off[m].low = nodes[m].low
      BY <3>1 DEF Node
    <3>3. off[m].onStack = (nodes[m].onStack /\ m \notin group)
      BY <3>1 DEF Node
    <3>4. off[m] \in Node
      BY <3>1 DEF Node
    <3>5. QED
      BY <3>2, <3>3, <3>4 DEF Idx, Low
  <2>3. QED
    BY <2>1, <2>2
<1>9. /\ DOMAIN nodes' = DOMAIN nodes /\ nodes' \in [DOMAIN nodes -> Node]
      /\ \A m \in DOMAIN nodes :
            /\ nodes'[m].index = Idx(m)
            /\ nodes'[m].onStack <=> nodes[m].onStack /\ m \notin group
            /\ nodes'[m].low = IF L # 1 /\ m = c /\ Low(t) < Low(m) THEN Low(t) ELSE Low(m)
  <2>1. CASE L = 1
    <3>1. nodes' = off
      BY <1>1, <2>1
    <3>2. nodes' \in [DOMAIN nodes -> Node]
      BY <1>8, <3>1
    <3> HIDE DEF off
    <3>3. QED
      BY <1>8, <2>1, <3>1, <3>2
  <2>2. CASE L # 1
    <3>1. c \in DOMAIN nodes
      <4> HIDE DEF L, off
      <4>1. L \in 1..L /\ L \in Nat /\ Path = 1..L
        BY <1>2
      <4>2. L - 1 \in Path
        BY <2>2, <4>1
      <4>3. QED
        BY <1>2, <4>2 DEF c
    <3> DEFINE low == IF Low(t) < Low(c) THEN Low(t) ELSE Low(c)
    <3>2. nodes' = [off EXCEPT ![c].low = IF nodes[t].low < @ THEN nodes[t].low ELSE @]
      BY <1>1, <2>2
    <3>3. off \in [DOMAIN nodes -> Node]
      BY <1>8
    <3> HIDE DEF off
    <3>4. nodes' = [off EXCEPT ![c] = [off[c] EXCEPT !.low = low]]
      BY <1>8, <3>1, <3>2 DEF Low
    <3>5. low \in Nat
      BY <1>2, <1>3, <3>1
    <3> HIDE DEF low
    <3> DEFINE r == [off[c] EXCEPT !.low = low]
    <3>6. r \in Node /\ r.index = off[c].index /\ r.onStack = off[c].onStack /\ r.low = low
      BY <1>8, <3>1, <3>5 DEF Node
    <3> HIDE DEF r
    <3>7. nodes' = [off EXCEPT ![c] = r]
      BY <3>4 DEF r
    <3>8. nodes' \in [DOMAIN nodes -> Node] /\ DOMAIN nodes' = DOMAIN nodes
          /\ \A m \in DOMAIN nodes : nodes'[m] = IF m = c THEN r ELSE off[m]
      BY <3>1, <3>3, <3>6, <3>7
    <3>9. \A m \in DOMAIN nodes :
            /\ nodes'[m].index = Idx(m)
            /\ nodes'[m].onStack <=> nodes[m].onStack /\ m \notin group
      BY <1>8, <3>6, <3>8
    <3>10. \A m \in DOMAIN nodes : nodes'[m].low = IF m = c /\ Low(t) < Low(m) THEN Low(t) ELSE Low(m)
      BY <1>8, <3>6, <3>8 DEF low
    <3>11. QED
      BY <2>2, <3>8, <3>9, <3>10
  <2>3. QED
    BY <2>1, <2>2
<1>10. nodes[t].low = Low(t) /\ nodes[t].index = Idx(t)
  BY DEF Low, Idx
<1>11. QED
  BY <1>1, <1>4, <1>6, <1>7, <1>9, <1>10 DEF t, c

\* The group a component's root takes off the stack is one cycle, or a name that
\* is no ancestor of itself; and its parents leave the stack with it or before.
LEMMA RootGroup ==
    ASSUME SearchInv, frames # <<>>, C!ParentsOf(C!Top.name) = Seen(C!Top.name), Low(C!Top.name) = Idx(C!Top.name)
    PROVE  /\ \A m \in Under : C!ParentsOf(m) \subseteq Off \cup Under
           /\ \A n \in Under : n \in C!Ancestors(n) => Cycle(n) = Under
           /\ (\E n \in Under : n \in C!Ancestors(n))
              <=> Cardinality(Under) > 1 \/ Under \cap {C!Top.name} \cap selfEdged # {}
<1> DEFINE L == Len(frames)
           t == C!Top.name
<1>1. /\ On \subseteq DOMAIN nodes /\ On \cap Off = {} /\ DOMAIN nodes = On \cup Off
      /\ \A n \in DOMAIN nodes : Idx(n) \in Nat
      /\ L \in Path /\ L \in Nat /\ Path = 1..L
      /\ \A k \in Path : k \in Nat /\ At(k) \in On
  BY SearchFacts
<1>2. t = At(L) /\ t \in On
  BY <1>1 DEF C!Top, At
<1>3. decls \in Projects
  BY DEF SearchInv, SearchTypeOK
<1>4. \A k \in Path : k <= L /\ Idx(At(k)) <= Idx(t) /\ (k # L => Idx(At(k)) < Idx(t))
  <2> SUFFICES ASSUME NEW k \in Path PROVE k <= L /\ Idx(At(k)) <= Idx(t) /\ (k # L => Idx(At(k)) < Idx(t))
    OBVIOUS
  <2>1. k \in Nat /\ k <= L /\ (k # L => k < L)
    BY <1>1
  <2>2. QED
    BY <1>1, <1>2, <2>1, SearchFacts DEF SearchInv, OnPath
<1>5. C!ParentsOf(t) = Seen(t) /\ Low(t) = Idx(t) /\ t \in Under
  BY <1>1, <1>2 DEF Under
<1> HIDE DEF L, t
<1>6. \A m \in Under : m \in On /\ m \in DOMAIN nodes /\ Idx(t) <= Idx(m)
  BY <1>1 DEF Under, t
<1>7. ASSUME NEW m \in Under PROVE C!ParentsOf(m) = Seen(m)
  <2>1. CASE m = t
    BY <1>5, <2>1
  <2>2. CASE m # t
    <3>1. \A k \in Path : At(k) # m
      <4> SUFFICES ASSUME NEW k \in Path, At(k) = m PROVE FALSE
        OBVIOUS
      <4>1. k # L /\ Idx(m) < Idx(t)
        BY <1>2, <1>4, <2>2
      <4>2. QED
        BY <1>1, <1>2, <1>6, <4>1
    <3>2. QED
      BY <3>1 DEF Seen
  <2>3. QED
    BY <2>1, <2>2
<1>8. ASSUME NEW m \in Under, NEW p \in C!ParentsOf(m) PROVE p \in Off \cup Under
  <2>1. p \in Seen(m) /\ p \in DOMAIN nodes
    BY <1>6, <1>7 DEF SearchInv, SeenEntered
  <2>2. CASE p \in On
    <3>1. m \in Segment(L)
      BY <1>2, <1>6 DEF Segment, L
    <3>2. Low(t) <= Idx(p)
      BY <1>1, <1>2, <2>1, <2>2, <3>1 DEF SearchInv, LinkLeast
    <3>3. QED
      BY <1>5, <2>2, <3>2 DEF Under, t
  <2>3. QED
    BY <1>1, <2>1, <2>2
<1>9. ASSUME NEW n \in Under, NEW m \in Under PROVE Reaches(n, m)
  <2>1. PICK k \in Path : Reaches(n, At(k))
    BY <1>6 DEF SearchInv, Up
  <2>2. Reaches(At(k), t)
    BY <1>2, <1>4 DEF SearchInv, Down
  <2>3. Reaches(t, m)
    BY <1>1, <1>2, <1>6 DEF SearchInv, Down
  <2>4. QED
    BY <1>3, <2>1, <2>2, <2>3, ReachesOn
<1>10. \A m \in Off : C!Ancestors(m) \subseteq Off
  <2>1. Off \subseteq Classes /\ \A m \in Off : C!ParentsOf(m) \subseteq Off
    BY SearchFacts DEF SearchInv, OffClosed
  <2>2. QED
    BY <1>3, <2>1, AncestorsLeast
<1>11. Off \cap Under = {}
  BY <1>1, <1>6
<1>12. \A n \in Under : C!Ancestors(n) \subseteq Off \cup Under
  <2> SUFFICES ASSUME NEW n \in Under PROVE C!Ancestors(n) \subseteq Off \cup Under
    OBVIOUS
  <2> DEFINE T == Off \cup Under
  <2>1. T \subseteq Classes
    BY <1>6, SearchFacts
  <2>2. \A x \in T : C!ParentsOf(x) \subseteq T
    BY <1>8 DEF SearchInv, OffClosed
  <2>3. C!ParentsOf(n) \subseteq T
    BY <2>2
  <2> HIDE DEF T
  <2>4. C!Ancestors(n) \subseteq T
    BY <1>3, <2>1, <2>2, <2>3, AncestorsLeast
  <2>5. QED
    BY <2>4 DEF T
<1>13. ASSUME NEW n \in Under, n \in C!Ancestors(n) PROVE Cycle(n) = Under
  <2>1. ASSUME NEW m \in Cycle(n) PROVE m \in Under
    <3>1. m \in C!Ancestors(n) /\ n \in C!Ancestors(m)
      BY DEF Cycle
    <3>2. m \notin Off
      BY <1>10, <1>11, <3>1
    <3>3. QED
      BY <1>12, <3>1, <3>2
  <2>2. ASSUME NEW m \in Under PROVE m \in Cycle(n)
    <3>1. Reaches(n, m) /\ Reaches(m, n)
      BY <1>9
    <3>2. QED
      BY <1>13, <3>1 DEF Reaches, Cycle
  <2>3. QED
    BY <2>1, <2>2
<1>14. IsFiniteSet(Under) /\ Cardinality(Under) \in Nat /\ Cardinality(Under) # 0
       /\ (Cardinality(Under) = 1 <=> Under = {t})
  <2>1. IsFiniteSet(DOMAIN nodes) /\ Under \in SUBSET (DOMAIN nodes)
    BY <1>6 DEF SearchInv, Numbered
  <2>2. IsFiniteSet(Under)
    BY <2>1, FS_Subset
  <2>3. Cardinality(Under) \in Nat /\ Cardinality(Under) # 0
    BY <1>5, <2>2, FS_CardinalityType, FS_EmptySet
  <2>4. Cardinality(Under) = 1 <=> Under = {t}
    <3>1. Cardinality(Under) = 1 <=> \E x : Under = {x}
      BY <2>2, FS_Singleton
    <3>2. QED
      BY <1>5, <3>1
  <2>5. QED
    BY <2>2, <2>3, <2>4
<1>15. ASSUME NEW n \in Under, n \in C!Ancestors(n), ~(Cardinality(Under) > 1) PROVE Under \cap {t} \cap selfEdged # {}
  <2>1. Under = {t} /\ n = t
    BY <1>14, <1>15
  <2>2. t \in C!ParentsOf(t) \/ \E p \in C!ParentsOf(t) : t \in C!Ancestors(p)
    BY <1>3, <1>15, <2>1, AncestorsOfAncestors
  <2>3. t \in C!ParentsOf(t)
    <3>1. CASE \E p \in C!ParentsOf(t) : t \in C!Ancestors(p)
      <4>1. PICK p \in C!ParentsOf(t) : t \in C!Ancestors(p)
        BY <3>1
      <4>2. p \in Off \/ p = t
        BY <1>8, <2>1
      <4>3. p \notin Off
        BY <1>10, <1>11, <2>1, <4>1
      <4>4. QED
        BY <4>1, <4>2, <4>3
    <3>2. QED
      BY <2>2, <3>1
  <2>4. t \in selfEdged
    BY <1>1, <1>2, <1>5, <2>3 DEF SearchInv, SelfSeen
  <2>5. QED
    BY <1>5, <2>4
<1>16. ASSUME Cardinality(Under) > 1 PROVE t \in C!Ancestors(t)
  <2>1. PICK m \in Under : m # t
    BY <1>5, <1>14, <1>16
  <2>2. Reaches(t, m) /\ Reaches(m, t)
    BY <1>5, <1>9
  <2>3. QED
    BY <1>3, <2>1, <2>2, AncestorsOfAncestors DEF Reaches
<1>17. ASSUME Under \cap {t} \cap selfEdged # {} PROVE t \in C!Ancestors(t)
  <2>1. t \in Seen(t)
    BY <1>17 DEF SearchInv, SelfSeen
  <2>2. QED
    BY <1>3, <1>5, <2>1, AncestorsLeast
<1>18. (\E n \in Under : n \in C!Ancestors(n)) <=> Cardinality(Under) > 1 \/ Under \cap {t} \cap selfEdged # {}
  BY <1>5, <1>15, <1>16, <1>17
<1>19. QED
  BY <1>8, <1>13, <1>18 DEF t

\* A name that is no root links to one before it on the path.
LEMMA LinksBack ==
    ASSUME SearchInv, frames # <<>>, Low(C!Top.name) # Idx(C!Top.name)
    PROVE  \E w \in On : \E k \in Path :
               /\ Idx(w) = Low(C!Top.name) /\ Reaches(C!Top.name, w)
               /\ k < Len(frames) /\ Idx(At(k)) <= Idx(w) /\ Reaches(C!Top.name, At(k)) /\ Idx(At(k)) < Idx(C!Top.name)
<1> DEFINE L == Len(frames)
           t == C!Top.name
<1>1. /\ On \subseteq DOMAIN nodes /\ decls \in Projects
      /\ \A n \in DOMAIN nodes : Idx(n) \in Nat /\ Low(n) \in Nat /\ Low(n) <= Idx(n)
      /\ L \in Path /\ L \in Nat /\ Path = 1..L
      /\ \A k \in Path : k \in Nat /\ At(k) \in On
      /\ \A j, k \in Path : Idx(At(j)) < Idx(At(k)) => j < k
  BY SearchFacts DEF SearchInv, SearchTypeOK, Numbered
<1>2. t = At(L) /\ t \in On
  BY <1>1 DEF C!Top, At
<1>3. PICK w \in On : Idx(w) = Low(t) /\ Reaches(t, w)
  BY <1>1, <1>2 DEF SearchInv, LinkReached
<1>4. Idx(w) < Idx(t)
  BY <1>1, <1>2, <1>3
<1>5. PICK k \in Path : Idx(At(k)) <= Idx(w) /\ Reaches(w, At(k))
  BY DEF SearchInv, Up
<1>6. Idx(At(k)) < Idx(t) /\ k < L
  <2>1. Idx(At(k)) \in Nat /\ Idx(w) \in Nat /\ Idx(t) \in Nat
    BY <1>1, <1>2
  <2>2. Idx(At(k)) < Idx(t)
    BY <1>4, <1>5, <2>1
  <2>3. QED
    BY <1>1, <1>2, <2>2
<1>7. Reaches(t, At(k))
  BY <1>1, <1>3, <1>5, ReachesOn
<1>8. QED
  BY <1>3, <1>5, <1>6, <1>7 DEF t, L

\* Finishing a name keeps the invariant.
LEMMA FinishStep == SearchInv /\ C!Finish => SearchInv'
<1> SUFFICES ASSUME SearchInv, C!Finish PROVE SearchInv'
  OBVIOUS
<1> DEFINE N == DOMAIN nodes
           L == Len(frames)
           t == C!Top.name
           root == Low(t) = Idx(t)
<1>1. /\ frames # <<>> /\ decls' = decls /\ selfEdged' = selfEdged
      /\ component' = IF root THEN SubSeq(component, 1, From - 1) ELSE component
      /\ groups' = IF Cardinality(TopGroup) > 1 \/ TopGroup \cap {t} \cap selfEdged # {}
                   THEN groups \cup {TopGroup} ELSE groups
      /\ frames' \in Seq(PathFrame) /\ Len(frames') = L - 1 /\ DOMAIN frames' = 1..(L - 1)
      /\ \A k \in 1..(L - 1) : k \in Path /\ frames'[k] = frames[k] /\ frames'[k].name = At(k)
      /\ (DOMAIN nodes)' = N /\ nodes' \in [N -> Node]
      /\ \A m \in N : /\ nodes'[m].index = Idx(m)
                      /\ nodes'[m].onStack <=> nodes[m].onStack /\ m \notin TopGroup
                      /\ nodes'[m].low = IF L # 1 /\ m = At(L - 1) /\ Low(t) < Low(m) THEN Low(t) ELSE Low(m)
      /\ C!ParentsOf(t) = Seen(t)
  BY FinishFacts
<1>2. /\ On \subseteq N /\ Off \subseteq N /\ N \subseteq Classes /\ On \cap Off = {} /\ N = On \cup Off
      /\ \A m \in N : Idx(m) \in Nat /\ Low(m) \in Nat
      /\ \A m \in N : Low(m) <= Idx(m)
      /\ Path = 1..L /\ L \in Nat /\ L \in Path
      /\ \A k \in Path : k \in Nat /\ At(k) \in On /\ At(k) \in N
      /\ \A j, k \in Path : At(j) = At(k) => j = k
      /\ \A j, k \in Path : Idx(At(j)) < Idx(At(k)) => j < k
  BY <1>1, SearchFacts DEF SearchInv, Numbered
<1>3. t = At(L) /\ t \in On /\ t \in N
  BY <1>2 DEF C!Top, At
<1>4. /\ decls \in Projects /\ component \in Seq(Classes) /\ selfEdged \subseteq Classes
      /\ groups \subseteq SUBSET Classes
  BY DEF SearchInv, SearchTypeOK
<1>5. /\ \A x : C!ParentsOf(x)' = C!ParentsOf(x)
      /\ \A x : C!Ancestors(x)' = C!Ancestors(x)
      /\ \A x, y : Reaches(x, y)' = Reaches(x, y)
      /\ \A x : Cycle(x)' = Cycle(x)
  <2>1. \A x : C!Ancestors(x)' = C!Ancestors(x)
    BY <1>1, SameDeclarations
  <2>2. QED
    BY <1>1, <2>1, SameDeclarations DEF Cycle
<1>6. /\ TopGroup \subseteq On /\ (root => TopGroup = Under) /\ (~root => TopGroup = {})
      /\ \A m \in On : m \in Under <=> Idx(t) <= Idx(m)
  BY DEF TopGroup, Under
<1>7. On' = On \ TopGroup /\ Off' = Off \cup TopGroup
  <2>1. On' = On \ TopGroup
    BY <1>1 DEF On
  <2>2. QED
    BY <1>1, <1>2, <1>6, <2>1 DEF Off
<1>8. Path' = 1..(L - 1)
  BY <1>1 DEF Path
<1>9. \A k \in Path' : /\ k \in Path /\ k \in Nat /\ k < L /\ frames'[k].name = At(k) /\ frames'[k].visited = frames[k].visited
                       /\ At(k) \in On /\ At(k) \in N /\ Idx(At(k)) < Idx(t) /\ At(k) # t
  <2> SUFFICES ASSUME NEW k \in Path'
      PROVE /\ k \in Path /\ k \in Nat /\ k < L /\ frames'[k].name = At(k) /\ frames'[k].visited = frames[k].visited
            /\ At(k) \in On /\ At(k) \in N /\ Idx(At(k)) < Idx(t) /\ At(k) # t
    OBVIOUS
  <2>1. k \in Path /\ k \in Nat /\ k < L /\ frames'[k].name = At(k) /\ frames'[k].visited = frames[k].visited
    <3> HIDE DEF L
    <3>1. k \in 1..(L - 1) /\ L \in Nat
      BY <1>2, <1>8
    <3>2. k \in Nat /\ k < L
      BY <3>1
    <3>3. QED
      BY <1>1, <3>1, <3>2 DEF L
  <2>2. Idx(At(k)) < Idx(At(L))
    BY <1>2, <2>1 DEF SearchInv, OnPath
  <2>3. At(k) # At(L)
    BY <1>2, <2>1
  <2>4. QED
    BY <1>2, <1>3, <2>1, <2>2, <2>3
<1>10. \A k \in Path : k # L => k \in Path'
  <2> HIDE DEF L
  <2> SUFFICES ASSUME NEW k \in Path, k # L PROVE k \in 1..(L - 1)
    BY <1>8
  <2>1. k \in 1..L /\ L \in Nat
    BY <1>2
  <2>2. QED
    BY <2>1
<1>11. \A m \in N : Seen(m)' = Seen(m)
  <2> SUFFICES ASSUME NEW m \in N PROVE Seen(m)' = Seen(m)
    OBVIOUS
  <2>1. \A q : q \in Seen(m)' <=> q \in C!ParentsOf(m) /\ \A k \in Path' : At(k) = m => q \in frames[k].visited
    BY <1>5, <1>9 DEF Seen, At
  <2>2. CASE m = t
    <3>1. \A q : q \in Seen(m)' <=> q \in C!ParentsOf(m)
      BY <1>9, <2>1, <2>2
    <3>2. QED
      BY <1>1, <2>2, <3>1
  <2>3. CASE m # t
    <3>1. \A k \in Path : At(k) = m => k \in Path'
      BY <1>3, <1>10, <2>3
    <3>2. \A q : q \in Seen(m)' <=> q \in Seen(m)
      BY <1>9, <2>1, <3>1 DEF Seen
    <3>3. QED
      BY <3>2
  <2>4. QED
    BY <2>2, <2>3
<1> DEFINE c == At(L - 1)
<1>12. \A k \in Path' : nodes'[At(k)].low = IF k = L - 1 /\ Low(t) < Low(At(k)) THEN Low(t) ELSE Low(At(k))
  <2> SUFFICES ASSUME NEW k \in Path'
      PROVE nodes'[At(k)].low = IF k = L - 1 /\ Low(t) < Low(At(k)) THEN Low(t) ELSE Low(At(k))
    OBVIOUS
  <2>1. k \in Path /\ k \in Nat /\ k < L /\ At(k) \in N /\ k \in 1..(L - 1)
    BY <1>8, <1>9
  <2>2. L # 1 /\ L - 1 \in Path
    <3> HIDE DEF L
    <3>1. k \in Nat /\ k < L /\ k \in 1..(L - 1) /\ L \in Nat /\ Path = 1..L
      BY <1>2, <2>1
    <3>2. L # 1 /\ L - 1 \in 1..L
      BY <3>1
    <3>3. QED
      BY <3>1, <3>2
  <2>3. At(k) = At(L - 1) <=> k = L - 1
    BY <1>2, <2>1, <2>2
  <2>4. QED
    BY <1>1, <2>1, <2>2, <2>3
<1> HIDE DEF N, L, t, c, root
<1>13. \A m \in N : nodes'[m].low \in Nat /\ nodes'[m].low <= Low(m)
  BY <1>1, <1>2, <1>3
<1>14. \A m \in On' : m \in On /\ m \in N /\ (root => Idx(m) < Idx(t))
  BY <1>2, <1>3, <1>6, <1>7
<1>15. \A k \in Path' : At(k) \in On'
  BY <1>2, <1>3, <1>6, <1>7, <1>9
<1>20. SearchTypeOK'
  <2>1. component' \in Seq(Classes)
    <3>1. CASE root
      <4>1. component' = SubSeq(component, 1, From - 1) /\ From \in 1..Len(component) /\ Len(component) \in Nat
        BY <1>1, <3>1, UnderIsTheEnd
      <4>2. QED
        BY <1>4, <4>1
    <3>2. CASE ~root
      BY <1>1, <1>4, <3>2
    <3>3. QED
      BY <3>1, <3>2
  <2>2. groups' \subseteq SUBSET Classes
    BY <1>1, <1>2, <1>4, <1>6
  <2>3. QED
    BY <1>1, <1>2, <1>4, <2>1, <2>2 DEF SearchTypeOK
<1>21. Numbered'
  <2>1. /\ IsFiniteSet(N) /\ Cardinality(N) \in Nat
        /\ \A m \in N : Idx(m) < Cardinality(N)
        /\ \A m, l \in N : Idx(m) = Idx(l) => m = l
    BY SearchFacts DEF SearchInv, Numbered, N
  <2>2. ASSUME NEW m \in N PROVE nodes'[m].index < Cardinality(N) /\ nodes'[m].low <= nodes'[m].index
    <3>1. nodes'[m].index = Idx(m)
      BY <1>1
    <3>2. nodes'[m].low \in Nat /\ nodes'[m].low <= Low(m) /\ Low(m) <= Idx(m) /\ Low(m) \in Nat /\ Idx(m) \in Nat
      BY <1>2, <1>13
    <3>3. QED
      BY <2>1, <3>1, <3>2
  <2>3. QED
    BY <1>1, <2>1, <2>2 DEF Numbered, Idx, Low
<1>22. Stacked'
  <2>1. On = {component[k] : k \in DOMAIN component} /\ DOMAIN component = 1..Len(component)
        /\ \A j, k \in DOMAIN component : j < k => Idx(component[j]) < Idx(component[k])
    BY <1>4 DEF SearchInv, Stacked
  <2>2. \A k \in DOMAIN component : component[k] \in N
    BY <1>2, <2>1
  <2>3. \A k \in DOMAIN component : nodes'[component[k]].index = Idx(component[k])
    BY <1>1, <2>2
  <2>4. CASE ~root
    BY <1>1, <1>6, <1>7, <2>1, <2>3, <2>4 DEF Stacked, Idx
  <2>5. CASE root
    <3>1. From \in 1..Len(component) /\ Len(component) \in Nat /\ {component[k] : k \in 1..(From - 1)} = On \ Under
      BY <1>1, UnderIsTheEnd
    <3>2. component' = SubSeq(component, 1, From - 1)
      BY <1>1, <2>5
    <3> DEFINE b == From - 1
    <3>3. b \in Nat /\ b <= Len(component) /\ \A k \in 1..b : k \in 1..Len(component)
      BY <3>1
    <3>4. component' = SubSeq(component, 1, b) /\ {component[k] : k \in 1..b} = On \ Under
      BY <3>1, <3>2
    <3> HIDE DEF b
    <3>5. Len(component') = b /\ DOMAIN component' = 1..b
      BY <1>4, <3>3, <3>4
    <3>6. \A k \in 1..b : component'[k] = component[k] /\ k \in DOMAIN component
      BY <1>4, <2>1, <3>3, <3>4
    <3>7. On' = {component'[k] : k \in DOMAIN component'}
      BY <1>6, <1>7, <2>5, <3>4, <3>5, <3>6
    <3>8. \A j, k \in DOMAIN component' : j < k => nodes'[component'[j]].index < nodes'[component'[k]].index
      BY <2>1, <2>3, <3>5, <3>6
    <3>9. QED
      BY <3>7, <3>8 DEF Stacked, Idx
  <2>6. QED
    BY <2>4, <2>5
<1>23. OnPath'
  <2>1. ASSUME NEW k \in Path' PROVE frames'[k].name \in On' /\ frames'[k].visited \subseteq C!ParentsOf(frames'[k].name)
    BY <1>9, <1>15 DEF SearchInv, OnPath
  <2>2. ASSUME NEW j \in Path', NEW k \in Path', j < k
        PROVE  nodes'[frames'[j].name].index < nodes'[frames'[k].name].index
    <3>1. Idx(At(j)) < Idx(At(k))
      BY <1>9, <2>2 DEF SearchInv, OnPath
    <3>2. QED
      BY <1>1, <1>9, <3>1
  <2>3. QED
    BY <1>5, <2>1, <2>2 DEF OnPath, At, Idx
<1>24. SeenEntered'
  BY <1>1, <1>11 DEF SearchInv, SeenEntered, N
<1>25. OffClosed'
  <2>1. ASSUME NEW m \in Off' PROVE C!ParentsOf(m) \subseteq Off'
    <3>1. CASE m \in Off
      BY <1>7, <3>1 DEF SearchInv, OffClosed
    <3>2. CASE m \in TopGroup
      <4>1. root /\ TopGroup = Under
        BY <1>6, <3>2
      <4>2. C!ParentsOf(m) \subseteq Off \cup Under
        BY <1>1, <3>2, <4>1, RootGroup DEF root, t
      <4>3. QED
        BY <1>7, <4>1, <4>2
    <3>3. QED
      BY <1>7, <3>1, <3>2
  <2>2. QED
    BY <1>5, <2>1 DEF OffClosed
<1>26. Down'
  <2>1. ASSUME NEW k \in Path', NEW m \in On', nodes'[frames'[k].name].index <= nodes'[m].index
        PROVE  Reaches(frames'[k].name, m)
    <3>1. Idx(At(k)) <= Idx(m)
      BY <1>1, <1>9, <1>14, <2>1
    <3>2. QED
      BY <1>9, <1>14, <3>1 DEF SearchInv, Down
  <2>2. QED
    BY <1>5, <2>1 DEF Down, At, Idx
<1>27. Up'
  <2>1. ASSUME NEW m \in On'
        PROVE  \E k \in Path' : nodes'[frames'[k].name].index <= nodes'[m].index /\ Reaches(m, frames'[k].name)
    <3>1. m \in On /\ m \in N /\ nodes'[m].index = Idx(m) /\ Idx(m) \in Nat
      BY <1>1, <1>2, <1>14
    <3>2. PICK k \in Path : Idx(At(k)) <= Idx(m) /\ Reaches(m, At(k))
      BY <3>1 DEF SearchInv, Up
    <3>3. CASE k # L
      <4>1. k \in Path' /\ frames'[k].name = At(k) /\ nodes'[At(k)].index = Idx(At(k))
        BY <1>1, <1>9, <1>10, <3>3
      <4>2. QED
        BY <3>1, <3>2, <4>1
    <3>4. CASE k = L
      <4>1. Idx(t) <= Idx(m) /\ Reaches(m, t)
        BY <1>3, <3>2, <3>4
      <4>2. ~root
        BY <1>2, <1>3, <1>14, <3>1, <4>1
      <4>3. PICK w \in On : \E j \in Path :
               /\ Idx(w) = Low(t) /\ Reaches(t, w)
               /\ j < L /\ Idx(At(j)) <= Idx(w) /\ Reaches(t, At(j)) /\ Idx(At(j)) < Idx(t)
        BY <1>1, <4>2, LinksBack DEF root, t, L
      <4>4. PICK j \in Path : j < L /\ Reaches(t, At(j)) /\ Idx(At(j)) < Idx(t)
        BY <4>3
      <4>5. j \in Path' /\ frames'[j].name = At(j) /\ nodes'[At(j)].index = Idx(At(j)) /\ Idx(At(j)) \in Nat
        <5>1. j # L
          BY <1>2, <4>4
        <5>2. QED
          BY <1>1, <1>2, <1>9, <1>10, <5>1
      <4>6. Reaches(m, At(j))
        BY <1>4, <4>1, <4>4, ReachesOn
      <4>7. Idx(At(j)) <= Idx(m)
        BY <1>2, <1>3, <3>1, <4>1, <4>4, <4>5
      <4>8. QED
        BY <3>1, <4>5, <4>6, <4>7
    <3>5. QED
      BY <3>3, <3>4
  <2>2. QED
    BY <1>5, <2>1 DEF Up, At, Idx
<1>28. LinkReached'
  <2>1. ASSUME NEW k \in Path'
        PROVE  \E w \in On' : nodes'[w].index = nodes'[At(k)].low /\ Reaches(At(k), w)
    <3>1. k \in Path /\ At(k) \in N /\ At(k) \in On /\ Idx(At(k)) < Idx(t) /\ Low(At(k)) <= Idx(At(k))
          /\ Idx(At(k)) \in Nat /\ Low(At(k)) \in Nat /\ Idx(t) \in Nat /\ Low(t) \in Nat
      BY <1>2, <1>3, <1>9
    <3>2. CASE nodes'[At(k)].low = Low(At(k))
      <4>1. PICK w \in On : Idx(w) = Low(At(k)) /\ Reaches(At(k), w)
        BY <3>1 DEF SearchInv, LinkReached
      <4>2. Idx(w) < Idx(t)
        BY <3>1, <4>1
      <4>3. w \notin TopGroup /\ nodes'[w].index = Idx(w)
        BY <1>1, <1>2, <1>6, <3>1, <4>1, <4>2
      <4>4. QED
        BY <1>7, <3>2, <4>1, <4>3
    <3>3. CASE nodes'[At(k)].low # Low(At(k))
      <4>1. nodes'[At(k)].low = Low(t) /\ Low(t) < Low(At(k))
        BY <1>12, <3>3
      <4>2. ~root
        BY <3>1, <4>1 DEF root
      <4>3. PICK w \in On : Idx(w) = Low(t) /\ Reaches(t, w)
        BY <1>2, <1>3 DEF SearchInv, LinkReached
      <4>4. Reaches(At(k), t)
        BY <1>3, <3>1 DEF SearchInv, Down
      <4>5. Reaches(At(k), w)
        BY <1>4, <4>3, <4>4, ReachesOn
      <4>6. w \in On' /\ nodes'[w].index = Idx(w)
        BY <1>1, <1>2, <1>6, <1>7, <4>2, <4>3
      <4>7. QED
        BY <4>1, <4>3, <4>5, <4>6
    <3>4. QED
      BY <3>2, <3>3
  <2>2. \A k \in Path' : frames'[k].name = At(k)
    BY <1>9
  <2>3. QED
    BY <1>5, <2>1, <2>2 DEF LinkReached, At, Idx, Low
<1>29. LinkLeast'
  <2>1. ASSUME NEW k \in Path', NEW m \in On', NEW q \in Seen(m)' \cap On',
               nodes'[At(k)].index <= nodes'[m].index,
               k = L - 1 \/ nodes'[m].index < nodes'[frames'[k + 1].name].index
        PROVE  nodes'[At(k)].low <= nodes'[q].index
    <3>1. /\ m \in On /\ m \in N /\ nodes'[m].index = Idx(m) /\ q \in On /\ q \in N /\ nodes'[q].index = Idx(q)
          /\ Idx(q) \in Nat /\ Idx(m) \in Nat /\ q \in Seen(m)
      BY <1>1, <1>2, <1>11, <1>14
    <3>2. /\ k \in Path /\ k \in Nat /\ k < L /\ At(k) \in N /\ nodes'[At(k)].index = Idx(At(k))
          /\ Idx(At(k)) \in Nat /\ Low(At(k)) \in Nat
      BY <1>1, <1>2, <1>9
    <3>3. k + 1 \in Path
      BY <1>2, <3>2
    <3>4. CASE m \in Segment(k)
      <4>1. Low(At(k)) <= Idx(q)
        BY <3>1, <3>2, <3>4 DEF SearchInv, LinkLeast
      <4>2. QED
        BY <1>13, <3>1, <3>2, <4>1
    <3>5. CASE m \notin Segment(k)
      <4>1. ~(Idx(m) < Idx(At(k + 1)))
        BY <2>1, <3>1, <3>2, <3>5 DEF Segment
      <4>2. k = L - 1
        <5>1. CASE k # L - 1
          <6>1. k + 1 # L
            BY <1>2, <3>2, <5>1
          <6>2. k + 1 \in Path' /\ frames'[k + 1].name = At(k + 1) /\ nodes'[At(k + 1)].index = Idx(At(k + 1))
            BY <1>1, <1>9, <1>10, <3>3, <6>1
          <6>3. QED
            BY <2>1, <3>1, <4>1, <5>1, <6>2
        <5>2. QED
          BY <5>1
      <4>3. k + 1 = L /\ Idx(t) <= Idx(m) /\ Idx(t) \in Nat
        <5>1. k + 1 = L
          BY <1>2, <4>2
        <5>2. Idx(t) \in Nat /\ At(k + 1) = t
          BY <1>2, <1>3, <5>1
        <5>3. QED
          BY <3>1, <4>1, <5>1, <5>2
      <4>4. m \in Segment(L)
        BY <1>3, <3>1, <4>3 DEF Segment, L
      <4>5. Low(t) <= Idx(q)
        BY <1>2, <1>3, <3>1, <4>4 DEF SearchInv, LinkLeast
      <4>6. nodes'[At(k)].low <= Low(t)
        <5>1. Low(t) \in Nat
          BY <1>2, <1>3
        <5>2. nodes'[At(k)].low = IF Low(t) < Low(At(k)) THEN Low(t) ELSE Low(At(k))
          BY <1>12, <4>2
        <5>3. QED
          BY <3>2, <5>1, <5>2
      <4>7. QED
        BY <1>2, <1>3, <1>13, <3>1, <3>2, <4>5, <4>6
    <3>6. QED
      BY <3>4, <3>5
  <2>2. \A k \in Path' : frames'[k].name = At(k)
    BY <1>9
  <2>3. QED
    BY <1>1, <2>1, <2>2 DEF LinkLeast, Segment, At, Idx, Low
<1>30. SelfSeen'
  BY <1>1, <1>11 DEF SearchInv, SelfSeen, N
<1>31. Grouped'
  <2>1. groups = {Cycle(n) : n \in {m \in Off : m \in C!Ancestors(m)}}
    BY DEF SearchInv, Grouped
  <2>2. groups' = {Cycle(n) : n \in {m \in Off' : m \in C!Ancestors(m)}}
    <3>1. CASE ~root
      <4>1. TopGroup = {} /\ Off' = Off
        BY <1>6, <1>7, <3>1
      <4>2. ~(Cardinality(TopGroup) > 1)
        BY <4>1, FS_EmptySet
      <4>3. groups' = groups
        BY <1>1, <4>1, <4>2
      <4>4. QED
        BY <2>1, <4>1, <4>3
    <3>2. CASE root
      <4>1. TopGroup = Under /\ Off' = Off \cup Under
        BY <1>6, <1>7, <3>2
      <4>2. /\ \A n \in Under : n \in C!Ancestors(n) => Cycle(n) = Under
            /\ (\E n \in Under : n \in C!Ancestors(n)) <=> Cardinality(Under) > 1 \/ Under \cap {t} \cap selfEdged # {}
        BY <1>1, <3>2, RootGroup DEF root, t
      <4>3. CASE \E n \in Under : n \in C!Ancestors(n)
        <5>1. groups' = groups \cup {Under}
          BY <1>1, <4>1, <4>2, <4>3
        <5>2. QED
          BY <2>1, <4>1, <4>2, <4>3, <5>1
      <4>4. CASE ~\E n \in Under : n \in C!Ancestors(n)
        <5>1. groups' = groups
          BY <1>1, <4>1, <4>2, <4>4
        <5>2. QED
          BY <2>1, <4>1, <4>4, <5>1
      <4>5. QED
        BY <4>3, <4>4
    <3>3. QED
      BY <3>1, <3>2
  <2>3. QED
    BY <1>5, <2>2 DEF Grouped
<1>40. QED
  BY <1>20, <1>21, <1>22, <1>23, <1>24, <1>25, <1>26, <1>27, <1>28, <1>29, <1>30, <1>31 DEF SearchInv

\* Every step keeps the invariant.
LEMMA SearchNext == SearchInv /\ [C!Next]_(C!vars) => SearchInv'
<1> SUFFICES ASSUME SearchInv, [C!Next]_(C!vars) PROVE SearchInv'
  OBVIOUS
<1>1. CASE C!NextRoot
  BY <1>1, NextRootStep
<1>2. CASE C!Descend
  BY <1>2, DescendStep
<1>3. CASE C!BackEdge
  BY <1>3, BackEdgeStep
<1>4. CASE C!Finish
  BY <1>4, FinishStep
<1>5. CASE UNCHANGED C!vars
  <2>1. decls' = decls /\ nodes' = nodes /\ component' = component /\ frames' = frames
        /\ selfEdged' = selfEdged /\ groups' = groups
    BY <1>5 DEF C!vars
  <2>2. /\ \A x : C!ParentsOf(x)' = C!ParentsOf(x)
        /\ \A x : C!Ancestors(x)' = C!Ancestors(x)
        /\ \A x, y : Reaches(x, y)' = Reaches(x, y)
    BY <2>1, SameDeclarations
  <2>3. On' = On /\ Off' = Off /\ Path' = Path
    BY <2>1 DEF On, Off, Path
  <2>4. \A n : Seen(n)' = Seen(n)
    BY <2>1, <2>2, <2>3 DEF Seen, At
  <2>5. SearchTypeOK' /\ Numbered' /\ Stacked' /\ OnPath' /\ SeenEntered' /\ OffClosed'
    BY <2>1, <2>2, <2>3, <2>4
       DEF SearchInv, SearchTypeOK, Numbered, Stacked, OnPath, SeenEntered, OffClosed, Idx, Low, At
  <2>6. Down' /\ Up' /\ LinkReached'
    BY <2>1, <2>2, <2>3 DEF SearchInv, Down, Up, LinkReached, Idx, Low, At
  <2>7. LinkLeast'
    BY <2>1, <2>3, <2>4 DEF SearchInv, LinkLeast, Segment, Idx, Low, At
  <2>8. SelfSeen' /\ Grouped'
    BY <2>1, <2>2, <2>3, <2>4 DEF SearchInv, SelfSeen, Grouped, Cycle
  <2>9. QED
    BY <2>5, <2>6, <2>7, <2>8 DEF SearchInv
<1>6. QED
  BY <1>1, <1>2, <1>3, <1>4, <1>5 DEF C!Next

\* The invariant holds in every state.
LEMMA SearchInductive == C!Spec => []SearchInv
  BY SearchInit, SearchNext, PTL DEF C!Spec

------------------------------------------------------------------------------
(***************************************************************************)
(* The report.                                                             *)
(***************************************************************************)
\* The members of a cycle have that cycle.
LEMMA CyclesAgree ==
    ASSUME decls \in Projects
    PROVE  \A n : \A m \in Cycle(n) : m \in C!Ancestors(m) /\ Cycle(m) = Cycle(n)
<1> SUFFICES ASSUME NEW n, NEW m \in Cycle(n) PROVE m \in C!Ancestors(m) /\ Cycle(m) = Cycle(n)
  OBVIOUS
<1>1. m \in C!Ancestors(n) /\ n \in C!Ancestors(m)
  BY DEF Cycle
<1>2. C!Ancestors(m) = C!Ancestors(n)
  <2>1. C!Ancestors(m) \subseteq C!Ancestors(n)
    BY <1>1, AncestorsOfAncestors
  <2>2. C!Ancestors(n) \subseteq C!Ancestors(m)
    BY <1>1, AncestorsOfAncestors
  <2>3. QED
    BY <2>1, <2>2
<1>3. m \in C!Ancestors(m)
  BY <1>1, <1>2
<1>4. \A x : m \in C!Ancestors(x) <=> n \in C!Ancestors(x)
  BY <1>1, AncestorsOfAncestors
<1>5. QED
  BY <1>2, <1>3, <1>4 DEF Cycle

\* When the search is done, its groups are the cycles of the classes.
LEMMA GroupsAreCycles ==
    ASSUME SearchInv, C!Done
    PROVE  /\ \A n \in C!Declared : n \in C!Ancestors(n) => Cycle(n) \in groups
           /\ \A g \in groups : \A n \in g : n \in C!Ancestors(n) /\ g = Cycle(n)
<1>1. frames = <<>> /\ C!Declared \subseteq DOMAIN nodes /\ decls \in Projects
  BY DEF C!Done, SearchInv, SearchTypeOK
<1>2. Path = {}
  BY <1>1 DEF Path
<1>3. Off = DOMAIN nodes
  BY <1>2 DEF SearchInv, Up, Off
<1>4. groups = {Cycle(n) : n \in {m \in DOMAIN nodes : m \in C!Ancestors(m)}}
  BY <1>3 DEF SearchInv, Grouped
<1>5. QED
  BY <1>1, <1>4, CyclesAgree

\* Every declaration of a class that is its own ancestor is found, with exactly
\* the classes both above and below it, and is reported exactly when it writes an
\* edge of the cycle.
LEMMA SearchIsExact == SearchInv => C!EveryCycleIsReported
<1> SUFFICES ASSUME SearchInv PROVE C!EveryCycleIsReported
  OBVIOUS
<1> DEFINE above == [n \in Classes |-> C!Ancestors(n)]
           Name(k) == decls[k].name
           Site(k, g) == [decl |-> k, others |-> g \ {Name(k)}, reports |-> C!Listed(k) \cap g # {}]
           Due(k) == [decl |-> k, others |-> {m \in above[Name(k)] \ {Name(k)} : Name(k) \in above[m]},
                      reports |-> \E p \in C!Listed(k) : Name(k) \in {p} \cup above[p]]
           Cyclic == {j \in DOMAIN decls : Name(j) \in above[Name(j)]}
           Pairs == {s \in (DOMAIN decls) \X groups : Name(s[1]) \in s[2]}
<1> SUFFICES ASSUME C!Done PROVE C!CycleSites = {Due(k) : k \in Cyclic}
  BY DEF C!EveryCycleIsReported
<1>1. decls \in Projects /\ \A k \in DOMAIN decls : Name(k) \in Classes /\ Name(k) \in C!Declared
  BY ParentsAreClasses DEF SearchInv, SearchTypeOK, C!Declared
<1>2. \A n \in Classes : above[n] = C!Ancestors(n)
  OBVIOUS
<1>3. ASSUME NEW k \in DOMAIN decls, Name(k) \in C!Ancestors(Name(k))
      PROVE  Site(k, Cycle(Name(k))) = Due(k)
  <2>1. C!Ancestors(Name(k)) \subseteq Classes /\ C!Listed(k) \subseteq C!Ancestors(Name(k))
    <3>1. C!Listed(k) \subseteq C!ParentsOf(Name(k))
      BY DEF C!ParentsOf, C!DeclsOf
    <3>2. QED
      BY <1>1, <3>1, AncestorsLeast
  <2>2. Cycle(Name(k)) \ {Name(k)} = {m \in above[Name(k)] \ {Name(k)} : Name(k) \in above[m]}
    BY <1>1, <1>2, <2>1 DEF Cycle
  <2>3. ASSUME NEW p \in C!Listed(k) PROVE p \in Cycle(Name(k)) <=> Name(k) \in {p} \cup above[p]
    BY <1>2, <1>3, <2>1 DEF Cycle
  <2>4. (C!Listed(k) \cap Cycle(Name(k)) # {}) <=> \E p \in C!Listed(k) : Name(k) \in {p} \cup above[p]
    BY <2>3
  <2>5. QED
    BY <2>2, <2>4
<1>4. C!CycleSites = {Site(s[1], s[2]) : s \in Pairs}
  BY DEF C!CycleSites
<1> HIDE DEF Site, Due, above, Name
<1>5. ASSUME NEW s \in Pairs PROVE \E k \in Cyclic : Site(s[1], s[2]) = Due(k)
  <2>1. s[1] \in DOMAIN decls /\ s[2] \in groups /\ Name(s[1]) \in s[2]
    OBVIOUS
  <2>2. Name(s[1]) \in C!Ancestors(Name(s[1])) /\ s[2] = Cycle(Name(s[1]))
    BY <2>1, GroupsAreCycles
  <2>3. s[1] \in Cyclic
    BY <1>1, <1>2, <2>1, <2>2
  <2>4. Site(s[1], s[2]) = Due(s[1])
    BY <1>3, <2>1, <2>2
  <2>5. QED
    BY <2>3, <2>4
<1>6. ASSUME NEW k \in Cyclic PROVE \E s \in Pairs : Site(s[1], s[2]) = Due(k)
  <2>1. k \in DOMAIN decls /\ Name(k) \in C!Ancestors(Name(k)) /\ Name(k) \in C!Declared
    BY <1>1, <1>2
  <2>2. Cycle(Name(k)) \in groups /\ Name(k) \in Cycle(Name(k))
    BY <2>1, GroupsAreCycles DEF Cycle
  <2>3. <<k, Cycle(Name(k))>> \in Pairs
    BY <2>1, <2>2
  <2>4. QED
    BY <1>3, <2>1, <2>3
<1>7. QED
  BY <1>4, <1>5, <1>6

------------------------------------------------------------------------------
(***************************************************************************)
(* The commands side by side.                                              *)
(***************************************************************************)
\* What any number of commands do is, of each kind, what it does alone.
LEMMA EachIsItself == CommandSpec => U!Spec /\ S!Spec /\ V!Spec /\ O!Spec /\ C!Spec
<1>1. CommandInit => U!Init /\ S!Init /\ V!Init /\ O!Init /\ C!Init
  BY DEF CommandInit
<1>2. UNCHANGED upgradeVars => UNCHANGED U!vars
  BY DEF upgradeVars, U!vars, U!server
<1>3. UNCHANGED scaffoldVars => UNCHANGED S!vars
  BY DEF scaffoldVars, S!vars
<1>4. UNCHANGED verdictVars => UNCHANGED V!vars
  BY DEF verdictVars, V!vars
<1>5. UNCHANGED buildVars => UNCHANGED O!vars
  BY DEF buildVars, O!vars, O!user, O!outputs
<1>6. UNCHANGED cycleVars => UNCHANGED C!vars
  BY DEF cycleVars, C!vars
<1>7. [CommandNext]_commandVars =>
          /\ U!Next \/ UNCHANGED upgradeVars
          /\ S!Next \/ UNCHANGED scaffoldVars
          /\ V!Next \/ UNCHANGED verdictVars
          /\ O!Next \/ UNCHANGED buildVars
          /\ C!Next \/ UNCHANGED cycleVars
  BY DEF CommandNext, commandVars, Upgrades, Scaffolds, Exits, Outputs, Searches
<1>8. [CommandNext]_commandVars =>
          [U!Next]_(U!vars) /\ [S!Next]_(S!vars) /\ [V!Next]_(V!vars) /\ [O!Next]_(O!vars) /\ [C!Next]_(C!vars)
  BY <1>2, <1>3, <1>4, <1>5, <1>6, <1>7
<1>9. QED
  BY <1>1, <1>8, PTL DEF CommandSpec, U!Spec, S!Spec, V!Spec, O!Spec, C!Spec

\* Every variable of upgrade, and of init and new, holds a value of its type;
\* so do those the exit status, the builds and the search are about.
THEOREM TypesCorrect == CommandSpec => [](U!TypeOK /\ S!TypeOK /\ VerdictTypeOK /\ BuildTypeOK /\ SearchTypeOK)
<1>1. UpgradeInv /\ ScaffoldInv /\ VerdictInv /\ BuildInv /\ SearchInv =>
          U!TypeOK /\ S!TypeOK /\ VerdictTypeOK /\ BuildTypeOK /\ SearchTypeOK
  BY DEF UpgradeInv, ScaffoldInv, VerdictInv, BuildInv, SearchInv
<1>2. QED
  BY <1>1, EachIsItself, UpgradeInductive, ScaffoldInductive, VerdictInductive, BuildInductive, SearchInductive, PTL

\* The installed program is executable, and a build that a SHA256SUMS of its
\* own tag has listed, whoever uploads, fails or is killed (verify).
THEOREM InstalledListed == CommandSpec => []InstalledWasListed
<1>1. UpgradeInv => InstalledWasListed
  BY DEF UpgradeInv, InstalledWasListed
<1>2. QED
  BY <1>1, EachIsItself, UpgradeInductive, PTL

\* What a process has verified is what it unpacks and installs (install).
THEOREM VerifiedInstalled == CommandSpec => []U!VerifiedIsInstalled
<1>1. UpgradeInv => U!VerifiedIsInstalled
  BY DEF UpgradeInv
<1>2. QED
  BY <1>1, EachIsItself, UpgradeInductive, PTL

\* No manifest and no .gitignore the user had is lost to any number of runs of
\* init and new at once, with the user at work among them, and runs of new lose
\* nothing that was there when they began (init, new).
THEOREM UsersFilesAreSafe == CommandSpec => []UsersFilesSurvive
<1>1. ScaffoldInv => UsersFilesSurvive
  BY DEF ScaffoldInv, UsersFilesSurvive
<1>2. QED
  BY <1>1, EachIsItself, ScaffoldInductive, PTL

\* To a reader that stays to the end, status 0 says that nothing was found and
\* everything was done, whatever fails and whenever the other reader goes
\* (main, term::write_or_exit).
THEOREM StatusIsTrue == CommandSpec => []AttendedVerdict
<1>1. VerdictInv => AttendedVerdict
  BY DEF VerdictInv
<1>2. QED
  BY <1>1, EachIsItself, VerdictInductive, PTL

\* What check, lint --fix and fmt --check found is in the status although the
\* reader of the report has gone (term::set_exit_code).
THEOREM StatusSurvivesReaders == CommandSpec => []VerdictSurvives
<1>1. VerdictInv => VerdictSurvives
  BY DEF VerdictInv
<1>2. QED
  BY <1>1, EachIsItself, VerdictInductive, PTL

\* When no two entries have one file name, a build that succeeds has every
\* artifact and map whole and of the sources as they are, whatever builds were
\* killed or failed before it (build_cmd::run).
THEOREM BuildsAreCurrent == CommandSpec => [](EntriesHaveNames => SuccessIsCurrent)
<1>1. BuildInv => (EntriesHaveNames => SuccessIsCurrent)
  <2> SUFFICES ASSUME BuildInv, EntriesHaveNames, O!Succeeded
               PROVE  \A k \in O!Asked : /\ out[O!Artifact(k)] = O!Built(k, TRUE)
                                         /\ wantsMap /\ mode = "plain" => map[O!Artifact(k)] = O!Built(k, TRUE)
    BY DEF SuccessIsCurrent, O!SuccessIsCurrent
  <2>1. build.pc = "end" /\ ~build.failed /\ build.left = {}
    BY DEF O!Succeeded, O!At, BuildInv, InOrder
  <2>2. QED
    BY <2>1 DEF BuildInv, DoneIsCurrent
<1>2. QED
  BY <1>1, EachIsItself, BuildInductive, PTL

\* A walk that is over has found every declaration of a class that is its own
\* ancestor, with exactly the others of its cycle, and reports those that write
\* an edge of it (class_cycles, cycle_sites).
THEOREM CyclesAreReported == CommandSpec => []EveryCycleIsReported
<1>1. SearchInv => EveryCycleIsReported
  BY SearchIsExact DEF EveryCycleIsReported
<1>2. QED
  BY <1>1, EachIsItself, SearchInductive, PTL

------------------------------------------------------------------------------
(***************************************************************************)
(* Bundles, for any files, names and programs: a bundle is exactly what    *)
(* its entry reaches, and runs as Lua runs the files.                      *)
(***************************************************************************)
Values == Returns \cup {"host", "true"}
Errors == {"parse", "unresolved", "entry_required", "dynamic"}
Modules == [file : Files, name : Names \cup {""}]
Frames  == [file : Files, name : Names \cup {""}, at : Nat \ {0}]

BundleTypeOK ==
    /\ prog \in Programs /\ broken \subseteq Files /\ strict \in BOOLEAN
    /\ modules \in Seq(Modules)
    /\ active \in [file : Files, next : Nat \ {0}]
    /\ pending \in Seq(Files)
    /\ rewrites \in [Files -> UNION {[D -> Names] : D \in SUBSET Names}]
    /\ dynamic \subseteq Files
    /\ phase \in {"discover", "run"} \cup Errors
    /\ loaded \in [Names -> Values]
    /\ stack \in Seq(Frames)

------------------------------------------------------------------------------
(***************************************************************************)
(* What discovery keeps.                                                   *)
(***************************************************************************)
Found == {modules[k].file : k \in DOMAIN modules}
IsModule(f, n) == \E k \in DOMAIN modules : k # 1 /\ modules[k] = [file |-> f, name |-> n]

\* The entry comes first and has no name; no file is found twice; a name that a
\* module has is one that some file requires it by.
Registry ==
    /\ modules # <<>> /\ modules[1] = [file |-> Entry, name |-> ""]
    /\ \A j, k \in DOMAIN modules : modules[j].file = modules[k].file => j = k
    /\ \A k \in DOMAIN modules \ {1} :
          /\ FileOf[modules[k].name] = modules[k].file
          /\ \E f \in Files : \E l \in DOMAIN prog[f].body : prog[f].body[l] = modules[k].name

\* What is found is reached, and where the walk stands is among it.
FoundIsReached ==
    /\ Found \subseteq Reachable
    /\ active.file \in Found /\ \A k \in DOMAIN pending : pending[k] \in Found
    /\ phase # "parse" => Found \cap broken = {}
    /\ dynamic = {f \in Found : prog[f].dynamic}

\* A call is rewritten to the name of the module its own name leads to.
RewrittenToModules ==
    \A f \in Files : \A n \in DOMAIN rewrites[f] : IsModule(FileOf[n], rewrites[f][n])

\* Every require of a file that is found waits for the walk, or has been
\* rewritten, or is left to the host.
Waits(f, k) ==
    \/ \E j \in DOMAIN pending : pending[j] = f
    \/ f = active.file /\ k >= active.next
Settled(f, k) ==
    LET n == prog[f].body[k] IN
    IF FileOf[n] = NoFile THEN strict => n \in Externals ELSE n \in DOMAIN rewrites[f]
EdgesWalked == \A f \in Found : \A k \in DOMAIN prog[f].body : Waits(f, k) \/ Settled(f, k)

\* The run begins when nothing waits.
RunIsLast ==
    phase = "run" => active.next > Len(prog[active.file].body) /\ pending = <<>> /\ dynamic = {}

\* What runs is the entry, first, and modules under their names.
StackOfModules ==
    /\ stack # <<>>
    /\ \A k \in DOMAIN stack : stack[k].file \in Found
    /\ \A k \in DOMAIN stack \ {1} : stack[k].name \in Names

\* The inductive invariant.
BundleInv == /\ BundleTypeOK /\ Registry /\ FoundIsReached /\ RewrittenToModules /\ EdgesWalked
        /\ RunIsLast /\ RefusalsAreJust /\ StackOfModules
------------------------------------------------------------------------------
(***************************************************************************)
(* What is reached, and the edge at hand.                                  *)
(***************************************************************************)
\* The entry is a file, and a name leads to a file or to none.
LEMMA BundleConstants ==
    Entry \in Files /\ NoFile \notin Files /\ "" \notin Names /\ \A n \in Names : FileOf[n] \in Files \cup {NoFile}
BY BundleAssumption

\* Reachable holds the entry, and what its files require.
LEMMA ReachableClosed ==
    ASSUME prog \in Programs
    PROVE  Entry \in Reachable /\ \A f \in Reachable : Requires(f) \ {NoFile} \subseteq Reachable
<1>1. Entry \in Reachable
  BY BundleConstants DEF Reachable, Closed
<1>2. ASSUME NEW f \in Reachable, NEW g \in Requires(f) \ {NoFile} PROVE g \in Reachable
  <2>1. f \in Files
    BY DEF Reachable
  <2>2. \A k \in DOMAIN prog[f].body : prog[f].body[k] \in Names
    BY <2>1 DEF Programs
  <2>3. g \in Files
    BY <2>2, BundleConstants DEF Requires
  <2>4. \A X \in SUBSET Files : Closed(X) => g \in X
    BY DEF Reachable, Closed
  <2>5. QED
    BY <2>3, <2>4 DEF Reachable
<1>3. QED
  BY <1>1, <1>2

\* The edge at hand is a name in the body of a file that is found.
LEMMA EdgeFacts ==
    ASSUME BundleTypeOK, FoundIsReached, Walking
    PROVE  /\ phase = "discover" /\ active.file \in Found /\ active.file \in Reachable /\ active.file \in Files
           /\ active.next \in DOMAIN prog[active.file].body /\ Edge = prog[active.file].body[active.next]
           /\ Edge \in Names /\ FileOf[Edge] \in Files \cup {NoFile}
           /\ FileOf[Edge] # NoFile => FileOf[Edge] \in Reachable
<1>1. phase = "discover" /\ active.file \in Found /\ active.file \in Reachable /\ active.file \in Files
  BY DEF Walking, FoundIsReached, BundleTypeOK
<1>2. prog[active.file].body \in Seq(Names) /\ active.next \in Nat \ {0}
  BY <1>1 DEF BundleTypeOK, Programs
<1>3. active.next \in DOMAIN prog[active.file].body /\ Edge = prog[active.file].body[active.next] /\ Edge \in Names
  BY <1>2 DEF Walking, Edge
<1>4. FileOf[Edge] \in Requires(active.file)
  BY <1>3 DEF Requires
<1>5. FileOf[Edge] # NoFile => FileOf[Edge] \in Reachable
  BY <1>1, <1>4, ReachableClosed DEF BundleTypeOK
<1>6. QED
  BY <1>1, <1>3, <1>5, BundleConstants

------------------------------------------------------------------------------
(***************************************************************************)
(* Discovery.                                                              *)
(***************************************************************************)
\* A sequence of one.
LEMMA OfOne ==
    ASSUME NEW X, NEW e \in X
    PROVE  <<e>> \in Seq(X) /\ Len(<<e>>) = 1 /\ <<e>>[1] = e /\ DOMAIN <<e>> = {1} /\ <<e>> # <<>>
OBVIOUS

\* The invariant holds at the start.
LEMMA InitIInv == Init => BundleInv
<1> SUFFICES ASSUME Init PROVE BundleInv
  OBVIOUS
<1>1. prog \in Programs /\ broken \subseteq Files /\ strict \in BOOLEAN
  BY BundleAssumption DEF Init
<1>2. modules = <<[file |-> Entry, name |-> ""]>> /\ stack = <<[file |-> Entry, name |-> "", at |-> 1]>>
  BY DEF Init, Lua!Init, Lua!Frame
<1>3. active = [file |-> Entry, next |-> 1] /\ pending = <<>> /\ rewrites = [f \in Files |-> [n \in {} |-> n]]
  BY DEF Init
<1>4. dynamic = {f \in {Entry} : prog[f].dynamic} /\ phase = IF Entry \in broken THEN "parse" ELSE "discover"
  BY DEF Init
<1>5. Entry \in Files /\ Entry \in Reachable
  BY <1>1, BundleConstants, ReachableClosed
<1>6. /\ modules \in Seq(Modules) /\ DOMAIN modules = {1} /\ modules # <<>>
      /\ modules[1] = [file |-> Entry, name |-> ""] /\ modules[1].file = Entry
  <2> DEFINE first == [file |-> Entry, name |-> ""]
  <2>1. first \in Modules /\ first.file = Entry
    BY <1>5 DEF Modules
  <2>2. modules = <<first>>
    BY <1>2
  <2>3. modules[1] = first
    BY <2>2
  <2> HIDE DEF first
  <2>4. /\ modules \in Seq(Modules) /\ DOMAIN modules = {1} /\ modules # <<>> /\ modules[1].file = Entry
    BY <2>1, <2>2, OfOne
  <2>5. QED
    BY <2>3, <2>4 DEF first
<1>7. stack \in Seq(Frames) /\ DOMAIN stack = {1} /\ stack[1].file = Entry /\ stack # <<>>
  <2> DEFINE bottom == [file |-> Entry, name |-> "", at |-> 1]
  <2>1. bottom \in Frames /\ bottom.file = Entry
    BY <1>5 DEF Frames
  <2>2. stack = <<bottom>>
    BY <1>2
  <2> HIDE DEF bottom
  <2>3. QED
    BY <2>1, <2>2, OfOne
<1>8. Found = {Entry}
  <2>1. DOMAIN modules = {1} /\ modules[1].file = Entry
    BY <1>6
  <2>2. QED
    BY <2>1 DEF Found
<1>9. BundleTypeOK
  <2>1. loaded \in [Names -> Values]
    BY DEF Init, Lua!Init, Values, Returns, Names
  <2>2. rewrites \in [Files -> UNION {[D -> Names] : D \in SUBSET Names}]
    <3>1. [n \in {} |-> n] \in [{} -> Names]
      OBVIOUS
    <3>2. QED
      BY <1>3, <3>1
  <2>3. active \in [file : Files, next : Nat \ {0}] /\ pending \in Seq(Files) /\ dynamic \subseteq Files
    BY <1>3, <1>4, <1>5
  <2>4. phase \in {"discover", "run"} \cup Errors
    BY <1>4 DEF Errors
  <2>5. QED
    BY <1>1, <1>6, <1>7, <2>1, <2>2, <2>3, <2>4 DEF BundleTypeOK
<1>10. Registry
  BY <1>6 DEF Registry
<1>11. FoundIsReached
  BY <1>3, <1>4, <1>5, <1>8 DEF FoundIsReached
<1>12. RewrittenToModules
  BY <1>3 DEF RewrittenToModules
<1>13. EdgesWalked
  <2>1. \A k \in DOMAIN prog[Entry].body : k >= 1
    BY <1>1, <1>5 DEF Programs
  <2>2. QED
    BY <1>3, <1>8, <2>1 DEF EdgesWalked, Waits
<1>14. RunIsLast /\ RefusalsAreJust
  BY <1>4, <1>5 DEF RunIsLast, RefusalsAreJust
<1>15. StackOfModules
  BY <1>7, <1>8 DEF StackOfModules
<1>16. QED
  BY <1>9, <1>10, <1>11, <1>12, <1>13, <1>14, <1>15 DEF BundleInv

\* A sequence with one more.
LEMMA OfOneMore ==
    ASSUME NEW X, NEW s \in Seq(X), NEW e \in X
    PROVE  /\ Append(s, e) \in Seq(X) /\ Append(s, e) # <<>>
           /\ DOMAIN Append(s, e) = DOMAIN s \cup {Len(s) + 1} /\ Len(s) + 1 \notin DOMAIN s
           /\ \A k \in DOMAIN s : Append(s, e)[k] = s[k]
           /\ Append(s, e)[Len(s) + 1] = e
OBVIOUS

\* One less than more than one.
LEMMA OneLess == ASSUME NEW n \in Nat, n > 1 PROVE n - 1 \in Nat /\ n - 1 # 0 /\ n = n - 1 + 1
OBVIOUS

\* A sequence without its last.
LEMMA WithoutTop ==
    ASSUME NEW X, NEW s \in Seq(X), NEW m \in Nat, m # 0, Len(s) = m + 1
    PROVE  /\ SubSeq(s, 1, m) \in Seq(X) /\ Len(SubSeq(s, 1, m)) = m /\ SubSeq(s, 1, m) # <<>>
           /\ \A k \in DOMAIN SubSeq(s, 1, m) : k \in DOMAIN s /\ SubSeq(s, 1, m)[k] = s[k]
<1>1. SubSeq(s, 1, m) \in Seq(X) /\ Len(SubSeq(s, 1, m)) = m
  OBVIOUS
<1>2. DOMAIN SubSeq(s, 1, m) = 1..m /\ DOMAIN s = 1..(m + 1)
  OBVIOUS
<1>3. \A k \in 1..m : SubSeq(s, 1, m)[k] = s[k]
  OBVIOUS
<1>4. SubSeq(s, 1, m) # <<>>
  BY <1>1
<1>5. QED
  BY <1>1, <1>2, <1>3, <1>4

\* A step along an edge keeps the invariant, when the files it finds are
\* reached, whole and wait, and the edge is settled.
LEMMA EdgeStep ==
    ASSUME BundleInv, Walking, Walked, UNCHANGED <<request, phase, runtime>>,
           NEW new \in SUBSET Reachable, new \cap broken = {},
           modules' \in Seq(Modules), Found' = Found \cup new, Registry',
           pending' \in Seq(Files),
           {pending'[k] : k \in DOMAIN pending'} = {pending[k] : k \in DOMAIN pending} \cup new,
           dynamic' = dynamic \cup {f \in new : prog[f].dynamic},
           rewrites' \in [Files -> UNION {[D -> Names] : D \in SUBSET Names}], RewrittenToModules',
           \A f \in Files : DOMAIN rewrites[f] \subseteq DOMAIN rewrites'[f],
           \A f, k : f = active.file /\ k = active.next => Settled(f, k)'
    PROVE  BundleInv'
<1>1. /\ active' = [active EXCEPT !.next = @ + 1] /\ active'.file = active.file /\ active'.next = active.next + 1
      /\ active.next \in Nat \ {0} /\ active.file \in Files
  BY DEF Walked, BundleInv, BundleTypeOK
<1>2. prog' = prog /\ broken' = broken /\ strict' = strict /\ phase' = phase /\ loaded' = loaded /\ stack' = stack
  BY DEF request, runtime
<1>3. Reachable' = Reachable
  BY <1>2 DEF Reachable, Closed, Requires
<1>4. phase = "discover"
  BY DEF Walking
<1>5. BundleTypeOK'
  <2>1. active' \in [file : Files, next : Nat \ {0}]
    <3>1. active \in [file : Files, next : Nat \ {0}]
      BY DEF BundleInv, BundleTypeOK
    <3>2. QED
      BY <1>1, <3>1
  <2>2. new \subseteq Files
    BY DEF Reachable
  <2>3. dynamic' \subseteq Files
    BY <2>2 DEF BundleInv, BundleTypeOK
  <2>4. broken' \subseteq Files /\ strict' \in BOOLEAN /\ phase' \in {"discover", "run"} \cup Errors
    BY <1>2 DEF BundleInv, BundleTypeOK
  <2>5. prog' \in Programs /\ loaded' \in [Names -> Values] /\ stack' \in Seq(Frames)
    BY <1>2 DEF BundleInv, BundleTypeOK
  <2>6. QED
    BY <2>1, <2>3, <2>4, <2>5 DEF BundleTypeOK
<1>6. FoundIsReached'
  <2>1. Found' \subseteq Reachable'
    BY <1>3 DEF BundleInv, FoundIsReached
  <2>2. active'.file \in Found'
    BY <1>1 DEF BundleInv, FoundIsReached
  <2>3. \A k \in DOMAIN pending' : pending'[k] \in Found'
    BY DEF BundleInv, FoundIsReached
  <2>4. Found' \cap broken' = {} /\ dynamic' = {f \in Found' : prog'[f].dynamic}
    BY <1>2, <1>4 DEF BundleInv, FoundIsReached
  <2>5. QED
    BY <2>1, <2>2, <2>3, <2>4 DEF FoundIsReached
<1>7. EdgesWalked'
  <2> SUFFICES ASSUME NEW f \in Found', NEW k \in DOMAIN prog[f].body PROVE Waits(f, k)' \/ Settled(f, k)'
    BY <1>2 DEF EdgesWalked
  <2>1. CASE f \in new
    BY <2>1 DEF Waits
  <2>2. CASE f \notin new
    <3>1. f \in Found /\ f \in Files
      BY <2>2, <1>6, <1>3 DEF FoundIsReached, Reachable
    <3>2. k \in Nat
      BY <3>1 DEF BundleInv, BundleTypeOK, Programs
    <3>3. Settled(f, k) => Settled(f, k)'
      <4>1. DOMAIN rewrites[f] \subseteq DOMAIN rewrites'[f]
        BY <3>1
      <4>2. QED
        BY <1>2, <4>1 DEF Settled
    <3>4. ASSUME NEW j \in DOMAIN pending, pending[j] = f PROVE Waits(f, k)'
      <4>1. f \in {pending'[l] : l \in DOMAIN pending'}
        BY <3>4
      <4>2. QED
        BY <4>1 DEF Waits
    <3>5. ASSUME f = active.file, k >= active.next PROVE Waits(f, k)' \/ Settled(f, k)'
      BY <1>1, <3>2, <3>5 DEF Waits
    <3>6. Waits(f, k) \/ Settled(f, k)
      BY <3>1 DEF BundleInv, EdgesWalked
    <3>7. QED
      BY <3>3, <3>4, <3>5, <3>6 DEF Waits
  <2>3. QED
    BY <2>1, <2>2
<1>8. RunIsLast' /\ RefusalsAreJust'
  BY <1>2, <1>4 DEF RunIsLast, RefusalsAreJust
<1>9. StackOfModules'
  BY <1>2 DEF BundleInv, StackOfModules
<1>10. QED
  BY <1>5, <1>6, <1>7, <1>8, <1>9 DEF BundleInv

\* A refusal keeps the invariant when it is just.
LEMMA ErrorStep ==
    ASSUME BundleInv, phase = "discover", NEW what \in Errors, Error(what), RefusalsAreJust'
    PROVE  BundleInv'
<1>1. UNCHANGED <<request, discovery, runtime>> /\ phase' = what
  BY DEF Error
<1>2. /\ prog' = prog /\ broken' = broken /\ strict' = strict /\ modules' = modules /\ active' = active
      /\ pending' = pending /\ rewrites' = rewrites /\ dynamic' = dynamic /\ loaded' = loaded /\ stack' = stack
  BY <1>1 DEF request, discovery, runtime
<1>3. BundleTypeOK'
  BY <1>1, <1>2 DEF BundleInv, BundleTypeOK
<1>4. Found' = Found /\ Reachable' = Reachable
  BY <1>2 DEF Found, Reachable, Closed, Requires
<1>5. FoundIsReached'
  BY <1>1, <1>2, <1>4 DEF BundleInv, FoundIsReached
<1>6. Registry' /\ RewrittenToModules' /\ StackOfModules'
  <2>1. Registry'
    BY <1>2 DEF BundleInv, Registry
  <2>2. RewrittenToModules'
    BY <1>2 DEF BundleInv, RewrittenToModules, IsModule
  <2>3. StackOfModules'
    BY <1>2, <1>4 DEF BundleInv, StackOfModules
  <2>4. QED
    BY <2>1, <2>2, <2>3
<1>7. EdgesWalked'
  BY <1>2, <1>4 DEF BundleInv, EdgesWalked, Waits, Settled
<1>8. RunIsLast'
  BY <1>1 DEF RunIsLast, Errors
<1>9. QED
  BY <1>3, <1>5, <1>6, <1>7, <1>8 DEF BundleInv

\* What a rewrite changes.
LEMMA Rewritten ==
    ASSUME BundleTypeOK, active.file \in Files, Edge \in Names, NEW key \in Names, Rewrite(key)
    PROVE  /\ rewrites' \in [Files -> UNION {[D -> Names] : D \in SUBSET Names}]
           /\ \A f \in Files \ {active.file} : rewrites'[f] = rewrites[f]
           /\ DOMAIN rewrites'[active.file] = DOMAIN rewrites[active.file] \cup {Edge}
           /\ \A n \in DOMAIN rewrites'[active.file] :
                 rewrites'[active.file][n] = IF n = Edge THEN key ELSE rewrites[active.file][n]
<1> DEFINE old == rewrites[active.file]
           new == [n \in DOMAIN old \cup {Edge} |-> IF n = Edge THEN key ELSE old[n]]
<1>1. old \in UNION {[D -> Names] : D \in SUBSET Names}
  BY DEF BundleTypeOK
<1>2. PICK D \in SUBSET Names : old \in [D -> Names]
  BY <1>1
<1>3. new = [n \in D \cup {Edge} |-> IF n = Edge THEN key ELSE old[n]]
  BY <1>2
<1> HIDE DEF new
<1>4. new \in [D \cup {Edge} -> Names]
  BY <1>2, <1>3
<1>5. new \in UNION {[E -> Names] : E \in SUBSET Names}
  BY <1>4
<1>6. rewrites' = [rewrites EXCEPT ![active.file] = new] /\ rewrites \in [Files -> UNION {[E -> Names] : E \in SUBSET Names}]
  BY DEF Rewrite, new, BundleTypeOK
<1>7. rewrites'[active.file] = new /\ \A f \in Files \ {active.file} : rewrites'[f] = rewrites[f]
  BY <1>6
<1>8. rewrites' \in [Files -> UNION {[E -> Names] : E \in SUBSET Names}]
  BY <1>5, <1>6
<1>9. QED
  BY <1>2, <1>3, <1>7, <1>8

\* The name a module has: it is the one the entry's file does not have.
LEMMA KeyOfModule ==
    ASSUME BundleInv, NEW f \in Files, f # Entry, Known(f)
    PROVE  KeyOf(f) \in Names /\ IsModule(f, KeyOf(f)) /\ FileOf[KeyOf(f)] = f
<1> DEFINE k == CHOOSE j \in DOMAIN modules : modules[j].file = f
<1>1. k \in DOMAIN modules /\ modules[k].file = f /\ KeyOf(f) = modules[k].name
  BY DEF Known, KeyOf
<1> HIDE DEF k
<1>2. modules[k] \in Modules
  BY <1>1 DEF BundleInv, BundleTypeOK
<1>3. modules[1].file = Entry
  <2> DEFINE first == [file |-> Entry, name |-> ""]
  <2>1. first.file = Entry
    OBVIOUS
  <2>2. modules[1] = first
    BY DEF BundleInv, Registry
  <2> HIDE DEF first
  <2>3. QED
    BY <2>1, <2>2
<1>4. k # 1
  BY <1>1, <1>3
<1>5. FileOf[KeyOf(f)] = f
  BY <1>1, <1>4 DEF BundleInv, Registry
<1>6. modules[k] = [file |-> f, name |-> KeyOf(f)]
  BY <1>1, <1>2 DEF Modules
<1>7. KeyOf(f) \in Names
  <2>1. PICK g \in Files : \E l \in DOMAIN prog[g].body : prog[g].body[l] = modules[k].name
    BY <1>1, <1>4 DEF BundleInv, Registry
  <2>2. prog[g].body \in Seq(Names)
    BY <2>1 DEF BundleInv, BundleTypeOK, Programs
  <2>3. QED
    BY <1>1, <2>1, <2>2
<1>8. IsModule(f, KeyOf(f))
  BY <1>1, <1>4, <1>6 DEF IsModule
<1>9. QED
  BY <1>5, <1>7, <1>8

\* Following a require that leads to no file, or to one that is known.
LEMMA WalkUnresolvedIInv == BundleInv /\ WalkUnresolved => BundleInv'
<1> SUFFICES ASSUME BundleInv, WalkUnresolved PROVE BundleInv'
  OBVIOUS
<1>1. Walking /\ FileOf[Edge] = NoFile
  BY DEF WalkUnresolved
<1>2. /\ phase = "discover" /\ active.file \in Reachable /\ Edge = prog[active.file].body[active.next]
      /\ active.next \in DOMAIN prog[active.file].body /\ active.file \in Files
  BY <1>1, EdgeFacts DEF BundleInv
<1>3. CASE strict /\ Edge \notin Externals
  <2>1. Error("unresolved")
    BY <1>3 DEF WalkUnresolved
  <2>2. UNCHANGED <<prog, broken, strict>> /\ phase' = "unresolved"
    BY <2>1 DEF Error, request
  <2>3. Reachable' = Reachable
    BY <2>2 DEF Reachable, Closed, Requires
  <2>4. RefusalsAreJust'
    BY <1>1, <1>2, <1>3, <2>2, <2>3 DEF RefusalsAreJust
  <2>5. QED
    BY <1>2, <2>1, <2>4, ErrorStep DEF Errors
<1>4. CASE ~(strict /\ Edge \notin Externals)
  <2>1. Walked /\ UNCHANGED <<request, modules, pending, rewrites, dynamic, phase, runtime>>
    BY <1>4 DEF WalkUnresolved
  <2>2. prog' = prog /\ strict' = strict
    BY <2>1 DEF request
  <2>3. Registry' /\ RewrittenToModules' /\ Found' = Found
    <3>1. Registry'
      BY <2>1, <2>2 DEF BundleInv, Registry
    <3>2. RewrittenToModules'
      BY <2>1 DEF BundleInv, RewrittenToModules, IsModule
    <3>3. QED
      BY <2>1, <3>1, <3>2 DEF Found
  <2>4. Settled(active.file, active.next)
    BY <1>1, <1>2, <1>4 DEF Settled
  <2>5. \A f, k : f = active.file /\ k = active.next => Settled(f, k)'
    BY <2>1, <2>2, <2>4 DEF Settled
  <2>6. modules' \in Seq(Modules) /\ pending' \in Seq(Files) /\ rewrites' \in [Files -> UNION {[D -> Names] : D \in SUBSET Names}]
    BY <2>1 DEF BundleInv, BundleTypeOK
  <2> DEFINE new == {}
  <2>7. {pending'[k] : k \in DOMAIN pending'} = {pending[k] : k \in DOMAIN pending} \cup new
    BY <2>1
  <2>8. dynamic' = dynamic \cup {f \in new : prog[f].dynamic}
    BY <2>1
  <2>9. new \in SUBSET Reachable /\ new \cap broken = {} /\ Found' = Found \cup new
    BY <2>3
  <2>10. \A f \in Files : DOMAIN rewrites[f] \subseteq DOMAIN rewrites'[f]
    BY <2>1
  <2>11. UNCHANGED <<request, phase, runtime>>
    BY <2>1
  <2> HIDE DEF new
  <2>12. QED
    BY <1>1, <2>1, <2>3, <2>5, <2>6, <2>7, <2>8, <2>9, <2>10, <2>11, EdgeStep
<1>5. QED
  BY <1>3, <1>4

\* A require of the entry is refused.
LEMMA WalkEntryIInv == BundleInv /\ WalkEntry => BundleInv'
<1> SUFFICES ASSUME BundleInv, WalkEntry PROVE BundleInv'
  OBVIOUS
<1>1. Walking /\ FileOf[Edge] = Entry /\ Error("entry_required")
  BY DEF WalkEntry
<1>2. /\ phase = "discover" /\ active.file \in Reachable /\ Edge = prog[active.file].body[active.next]
      /\ active.next \in DOMAIN prog[active.file].body
  BY <1>1, EdgeFacts DEF BundleInv
<1>3. prog' = prog /\ phase' = "entry_required"
  BY <1>1 DEF Error, request
<1>4. Reachable' = Reachable
  BY <1>3 DEF Reachable, Closed, Requires
<1>5. Entry \in Requires(active.file)
  BY <1>1, <1>2 DEF Requires
<1>7. \E f \in Reachable : Entry \in Requires(f)
  BY <1>2, <1>5
<1>8. RefusalsAreJust'
  BY <1>3, <1>4, <1>7 DEF RefusalsAreJust, Requires
<1>9. QED
  BY <1>1, <1>2, <1>8, ErrorStep DEF Errors

\* A require of a module that is known is rewritten to its name.
LEMMA WalkKnownIInv == BundleInv /\ WalkKnown => BundleInv'
<1> SUFFICES ASSUME BundleInv, WalkKnown PROVE BundleInv'
  OBVIOUS
<1> DEFINE to == FileOf[Edge]
           key == KeyOf(to)
           new == {}
<1>1. /\ Walking /\ to # NoFile /\ to # Entry /\ Known(to) /\ Rewrite(key) /\ Walked
      /\ UNCHANGED <<request, modules, pending, dynamic, phase, runtime>>
  BY DEF WalkKnown
<1>2. /\ phase = "discover" /\ active.file \in Files /\ Edge \in Names /\ to \in Files
      /\ Edge = prog[active.file].body[active.next] /\ active.next \in DOMAIN prog[active.file].body
  BY <1>1, EdgeFacts DEF BundleInv
<1>3. prog' = prog /\ strict' = strict
  BY <1>1 DEF request
<1>4. key \in Names /\ IsModule(to, key)
  BY <1>1, <1>2, KeyOfModule
<1>5. /\ rewrites' \in [Files -> UNION {[D -> Names] : D \in SUBSET Names}]
      /\ \A f \in Files \ {active.file} : rewrites'[f] = rewrites[f]
      /\ DOMAIN rewrites'[active.file] = DOMAIN rewrites[active.file] \cup {Edge}
      /\ \A n \in DOMAIN rewrites'[active.file] :
            rewrites'[active.file][n] = IF n = Edge THEN key ELSE rewrites[active.file][n]
  <2> HIDE DEF key
  <2>1. BundleTypeOK
    BY DEF BundleInv
  <2>2. QED
    BY <1>1, <1>2, <1>4, <2>1, Rewritten
<1> HIDE DEF key
<1>6. Registry'
  BY <1>1, <1>3 DEF BundleInv, Registry
<1>7. RewrittenToModules'
  <2> SUFFICES ASSUME NEW f \in Files, NEW n \in DOMAIN rewrites'[f] PROVE IsModule(FileOf[n], rewrites[f][n])'
    BY DEF RewrittenToModules
  <2>1. IsModule(FileOf[n], rewrites'[f][n])
    <3>1. CASE f = active.file /\ n = Edge
      BY <1>4, <1>5, <3>1
    <3>2. CASE ~(f = active.file /\ n = Edge)
      <4>1. n \in DOMAIN rewrites[f] /\ rewrites'[f][n] = rewrites[f][n]
        BY <1>5, <3>2
      <4>2. QED
        BY <4>1 DEF BundleInv, RewrittenToModules
    <3>3. QED
      BY <3>1, <3>2
  <2>2. QED
    BY <1>1, <2>1 DEF IsModule
<1>8. \A f, k : f = active.file /\ k = active.next => Settled(f, k)'
  BY <1>1, <1>2, <1>3, <1>5 DEF Settled
<1>9. modules' \in Seq(Modules) /\ pending' \in Seq(Files) /\ Found' = Found \cup new
  BY <1>1 DEF BundleInv, BundleTypeOK, Found
<1>10. {pending'[k] : k \in DOMAIN pending'} = {pending[k] : k \in DOMAIN pending} \cup new
  BY <1>1
<1>11. dynamic' = dynamic \cup {f \in new : prog[f].dynamic} /\ new \in SUBSET Reachable /\ new \cap broken = {}
  BY <1>1
<1>12. \A f \in Files : DOMAIN rewrites[f] \subseteq DOMAIN rewrites'[f]
  BY <1>5
<1>13. UNCHANGED <<request, phase, runtime>>
  BY <1>1
<1> HIDE DEF new
<1>14. QED
  BY <1>1, <1>5, <1>6, <1>7, <1>8, <1>9, <1>10, <1>11, <1>12, <1>13, EdgeStep

\* A module that is new joins the registry, under the name it is required by.
LEMMA Registered ==
    ASSUME BundleInv, Walking, NEW to, to = FileOf[Edge], to \in Files, to # Entry, ~Known(to),
           modules' = Append(modules, [file |-> to, name |-> Edge]), prog' = prog
    PROVE  /\ modules' \in Seq(Modules) /\ Found' = Found \cup {to} /\ Registry'
           /\ \A f, n : IsModule(f, n) => \E k \in DOMAIN modules' : k # 1 /\ modules'[k] = [file |-> f, name |-> n]
           /\ \E k \in DOMAIN modules' : k # 1 /\ modules'[k] = [file |-> to, name |-> Edge]
<1> DEFINE new == [file |-> to, name |-> Edge]
           top == Len(modules) + 1
<1>1. /\ Edge \in Names /\ active.file \in Files /\ active.next \in DOMAIN prog[active.file].body
      /\ Edge = prog[active.file].body[active.next]
  BY EdgeFacts DEF BundleInv
<1>2. new \in Modules /\ new.file = to /\ new.name = Edge
  BY <1>1 DEF Modules
<1>3. modules' = Append(modules, new) /\ modules \in Seq(Modules)
  BY DEF BundleInv, BundleTypeOK
<1> HIDE DEF new
<1>4. /\ modules' \in Seq(Modules) /\ modules' # <<>> /\ DOMAIN modules' = DOMAIN modules \cup {top} /\ top \notin DOMAIN modules
      /\ \A k \in DOMAIN modules : modules'[k] = modules[k]
      /\ modules'[top] = new
  BY <1>2, <1>3, OfOneMore
<1>5. 1 \in DOMAIN modules /\ top # 1
  <2>1. modules # <<>>
    BY DEF BundleInv, Registry
  <2>2. QED
    BY <1>3, <2>1
<1> HIDE DEF top
<1>6. Found' = Found \cup {to}
  BY <1>2, <1>4 DEF Found
<1>7. modules'[1] = [file |-> Entry, name |-> ""]
  <2>1. modules'[1] = modules[1]
    BY <1>4, <1>5
  <2>2. QED
    BY <2>1 DEF BundleInv, Registry
<1>8. \A j, k \in DOMAIN modules' : modules'[j].file = modules'[k].file => j = k
  <2>1. \A k \in DOMAIN modules : modules[k].file # to
    BY DEF Known
  <2>2. \A j, k \in DOMAIN modules : modules[j].file = modules[k].file => j = k
    BY DEF BundleInv, Registry
  <2>3. QED
    BY <1>2, <1>4, <2>1, <2>2
<1>9. ASSUME NEW k \in DOMAIN modules' \ {1}
      PROVE  /\ FileOf[modules'[k].name] = modules'[k].file
             /\ \E f \in Files : \E l \in DOMAIN prog'[f].body : prog'[f].body[l] = modules'[k].name
  <2>1. CASE k = top
    BY <1>1, <1>2, <1>4, <2>1
  <2>2. CASE k # top
    <3>1. k \in DOMAIN modules \ {1} /\ modules'[k] = modules[k]
      BY <1>4, <2>2
    <3>2. FileOf[modules[k].name] = modules[k].file /\ \E f \in Files : \E l \in DOMAIN prog[f].body : prog[f].body[l] = modules[k].name
      BY <3>1 DEF BundleInv, Registry
    <3>3. QED
      BY <3>1, <3>2
  <2>3. QED
    BY <2>1, <2>2
<1>10. Registry'
  <2>1. \A k \in DOMAIN modules' \ {1} :
           /\ FileOf[modules'[k].name] = modules'[k].file
           /\ \E f \in Files : \E l \in DOMAIN prog'[f].body : prog'[f].body[l] = modules'[k].name
    BY <1>9
  <2>2. modules' # <<>>
    BY <1>4
  <2>3. QED
    BY <1>7, <1>8, <2>1, <2>2 DEF Registry
<1>11. ASSUME NEW f, NEW n, IsModule(f, n) PROVE \E k \in DOMAIN modules' : k # 1 /\ modules'[k] = [file |-> f, name |-> n]
  BY <1>4, <1>11 DEF IsModule
<1>12. \E k \in DOMAIN modules' : k # 1 /\ modules'[k] = [file |-> to, name |-> Edge]
  BY <1>4, <1>5 DEF new
<1>13. QED
  BY <1>4, <1>6, <1>10, <1>11, <1>12

\* A require of a new module finds it; one of a broken file is refused.
LEMMA WalkNewIInv == BundleInv /\ WalkNew => BundleInv'
<1> SUFFICES ASSUME BundleInv, WalkNew PROVE BundleInv'
  OBVIOUS
<1> DEFINE to == FileOf[Edge]
           new == {to}
<1>1. Walking /\ to # NoFile /\ to # Entry /\ ~Known(to)
  BY DEF WalkNew
<1>2. /\ phase = "discover" /\ active.file \in Files /\ Edge \in Names /\ to \in Files /\ to \in Reachable
      /\ Edge = prog[active.file].body[active.next] /\ active.next \in DOMAIN prog[active.file].body
  BY <1>1, EdgeFacts DEF BundleInv
<1>3. CASE to \in broken
  <2>1. Error("parse")
    BY <1>3 DEF WalkNew
  <2>2. prog' = prog /\ broken' = broken /\ phase' = "parse"
    BY <2>1 DEF Error, request
  <2>3. Reachable' = Reachable
    BY <2>2 DEF Reachable, Closed, Requires
  <2>4. RefusalsAreJust'
    <3>1. Reachable' \cap broken' # {}
      BY <1>2, <1>3, <2>2, <2>3
    <3>2. QED
      BY <2>2, <3>1 DEF RefusalsAreJust
  <2>5. QED
    BY <1>2, <2>1, <2>4, ErrorStep DEF Errors
<1>4. CASE to \notin broken
  <2>1. /\ modules' = Append(modules, [file |-> to, name |-> Edge]) /\ pending' = Append(pending, to) /\ Rewrite(Edge) /\ Walked
        /\ dynamic' = IF prog[to].dynamic THEN dynamic \cup {to} ELSE dynamic
        /\ UNCHANGED <<request, phase, runtime>>
    BY <1>4 DEF WalkNew
  <2>2. prog' = prog
    BY <2>1 DEF request
  <2>3. /\ modules' \in Seq(Modules) /\ Found' = Found \cup new /\ Registry'
        /\ \A f, n : IsModule(f, n) => \E k \in DOMAIN modules' : k # 1 /\ modules'[k] = [file |-> f, name |-> n]
        /\ \E k \in DOMAIN modules' : k # 1 /\ modules'[k] = [file |-> to, name |-> Edge]
    BY <1>1, <1>2, <2>1, <2>2, Registered
  <2>4. /\ rewrites' \in [Files -> UNION {[D -> Names] : D \in SUBSET Names}]
        /\ \A f \in Files \ {active.file} : rewrites'[f] = rewrites[f]
        /\ DOMAIN rewrites'[active.file] = DOMAIN rewrites[active.file] \cup {Edge}
        /\ \A n \in DOMAIN rewrites'[active.file] :
              rewrites'[active.file][n] = IF n = Edge THEN Edge ELSE rewrites[active.file][n]
    <3>1. BundleTypeOK
      BY DEF BundleInv
    <3>2. QED
      BY <1>1, <1>2, <2>1, <3>1, Rewritten
  <2>5. RewrittenToModules'
    <3> SUFFICES ASSUME NEW f \in Files, NEW n \in DOMAIN rewrites'[f] PROVE IsModule(FileOf[n], rewrites[f][n])'
      BY DEF RewrittenToModules
    <3>1. \E k \in DOMAIN modules' : k # 1 /\ modules'[k] = [file |-> FileOf[n], name |-> rewrites'[f][n]]
      <4>1. CASE f = active.file /\ n = Edge
        BY <2>3, <2>4, <4>1
      <4>2. CASE ~(f = active.file /\ n = Edge)
        <5>1. n \in DOMAIN rewrites[f] /\ rewrites'[f][n] = rewrites[f][n]
          BY <2>4, <4>2
        <5>2. IsModule(FileOf[n], rewrites[f][n])
          BY <5>1 DEF BundleInv, RewrittenToModules
        <5>3. QED
          BY <2>3, <5>1, <5>2
      <4>3. QED
        BY <4>1, <4>2
    <3>2. QED
      BY <3>1 DEF IsModule
  <2>6. \A f, k : f = active.file /\ k = active.next => Settled(f, k)'
    BY <1>1, <1>2, <2>2, <2>4 DEF Settled
  <2>7. pending' \in Seq(Files) /\ {pending'[k] : k \in DOMAIN pending'} = {pending[k] : k \in DOMAIN pending} \cup new
    <3>1. pending \in Seq(Files) /\ pending' = Append(pending, to)
      BY <2>1 DEF BundleInv, BundleTypeOK
    <3>2. /\ pending' \in Seq(Files) /\ DOMAIN pending' = DOMAIN pending \cup {Len(pending) + 1}
          /\ \A k \in DOMAIN pending : pending'[k] = pending[k]
          /\ pending'[Len(pending) + 1] = to
      BY <1>2, <3>1, OfOneMore
    <3>3. QED
      BY <3>2
  <2>8. dynamic' = dynamic \cup {f \in new : prog[f].dynamic} /\ new \in SUBSET Reachable /\ new \cap broken = {}
    <3>1. prog[to].dynamic \in BOOLEAN
      BY <1>2 DEF BundleInv, BundleTypeOK, Programs
    <3>2. dynamic' = dynamic \cup {f \in new : prog[f].dynamic}
      BY <2>1, <3>1
    <3>3. QED
      BY <1>2, <1>4, <3>2
  <2>9. \A f \in Files : DOMAIN rewrites[f] \subseteq DOMAIN rewrites'[f]
    BY <2>4
  <2> HIDE DEF new
  <2>10. QED
    BY <1>1, <2>1, <2>3, <2>4, <2>5, <2>6, <2>7, <2>8, <2>9, EdgeStep
<1>5. QED
  BY <1>3, <1>4

\* The walk of another module's edges begins.
LEMMA PopIInv == BundleInv /\ Pop => BundleInv'
<1> SUFFICES ASSUME BundleInv, Pop PROVE BundleInv'
  OBVIOUS
<1> DEFINE n == Len(pending)
<1>1. /\ phase = "discover" /\ ~Walking /\ pending # <<>>
      /\ active' = [file |-> pending[n], next |-> 1] /\ pending' = SubSeq(pending, 1, n - 1)
      /\ UNCHANGED <<request, modules, rewrites, dynamic, phase, runtime>>
  BY DEF Pop
<1>2. prog' = prog /\ broken' = broken /\ strict' = strict /\ loaded' = loaded /\ stack' = stack
  BY <1>1 DEF request, runtime
<1>3. pending \in Seq(Files) /\ n \in DOMAIN pending /\ pending[n] \in Files
  BY <1>1 DEF BundleInv, BundleTypeOK
<1>4. /\ pending' \in Seq(Files) /\ DOMAIN pending' = DOMAIN pending \ {n}
      /\ \A k \in DOMAIN pending' : pending'[k] = pending[k]
  BY <1>1, <1>3
<1>5. active' \in [file : Files, next : Nat \ {0}] /\ active'.file = pending[n] /\ active'.next = 1
  BY <1>1, <1>3
<1> HIDE DEF n
<1>6. Found' = Found /\ Reachable' = Reachable
  BY <1>1, <1>2 DEF Found, Reachable, Closed, Requires
<1>7. BundleTypeOK'
  BY <1>1, <1>2, <1>4, <1>5 DEF BundleInv, BundleTypeOK
<1>8. FoundIsReached'
  <2>1. active'.file \in Found' /\ \A k \in DOMAIN pending' : pending'[k] \in Found'
    BY <1>3, <1>4, <1>5, <1>6 DEF BundleInv, FoundIsReached
  <2>2. QED
    BY <1>1, <1>2, <1>6, <2>1 DEF BundleInv, FoundIsReached
<1>9. Registry' /\ RewrittenToModules' /\ StackOfModules'
  <2>1. Registry'
    BY <1>1, <1>2 DEF BundleInv, Registry
  <2>2. RewrittenToModules'
    BY <1>1 DEF BundleInv, RewrittenToModules, IsModule
  <2>3. StackOfModules'
    BY <1>2, <1>6 DEF BundleInv, StackOfModules
  <2>4. QED
    BY <2>1, <2>2, <2>3
<1>10. EdgesWalked'
  <2> SUFFICES ASSUME NEW f \in Found, NEW k \in DOMAIN prog[f].body PROVE Waits(f, k)' \/ Settled(f, k)'
    BY <1>2, <1>6 DEF EdgesWalked
  <2>1. f \in Files
    BY DEF BundleInv, FoundIsReached, Reachable
  <2>2. k \in Nat \ {0} /\ k <= Len(prog[f].body)
    BY <2>1 DEF BundleInv, BundleTypeOK, Programs
  <2>3. Settled(f, k) => Settled(f, k)'
    BY <1>1, <1>2 DEF Settled
  <2>4. ASSUME NEW j \in DOMAIN pending, pending[j] = f PROVE Waits(f, k)'
    <3>1. CASE j = n
      BY <1>5, <2>2, <2>4, <3>1 DEF Waits
    <3>2. CASE j # n
      <4>1. j \in DOMAIN pending' /\ pending'[j] = f
        BY <1>4, <2>4, <3>2
      <4>2. QED
        BY <4>1 DEF Waits
    <3>3. QED
      BY <3>1, <3>2
  <2>5. ~(f = active.file /\ k >= active.next)
    <3>1. active.next \in Nat /\ ~(active.next <= Len(prog[active.file].body))
      BY <1>1 DEF Walking, BundleInv, BundleTypeOK
    <3>2. Len(prog[f].body) \in Nat
      BY <2>1 DEF BundleInv, BundleTypeOK, Programs
    <3>3. QED
      BY <2>2, <3>1, <3>2
  <2>6. Waits(f, k) \/ Settled(f, k)
    BY DEF BundleInv, EdgesWalked
  <2>7. QED
    BY <2>3, <2>4, <2>5, <2>6 DEF Waits
<1>11. RunIsLast' /\ RefusalsAreJust'
  BY <1>1 DEF RunIsLast, RefusalsAreJust
<1>12. QED
  BY <1>7, <1>8, <1>9, <1>10, <1>11 DEF BundleInv

\* A graph with a dynamic require is refused, any other is emitted.
LEMMA EmitIInv == BundleInv /\ Emit => BundleInv'
<1> SUFFICES ASSUME BundleInv, Emit PROVE BundleInv'
  OBVIOUS
<1>1. /\ phase = "discover" /\ ~Walking /\ pending = <<>>
      /\ phase' = IF dynamic # {} THEN "dynamic" ELSE "run"
      /\ UNCHANGED <<request, discovery, runtime>>
  BY DEF Emit
<1>2. /\ prog' = prog /\ broken' = broken /\ strict' = strict /\ modules' = modules /\ active' = active
      /\ pending' = pending /\ rewrites' = rewrites /\ dynamic' = dynamic /\ loaded' = loaded /\ stack' = stack
  BY <1>1 DEF request, discovery, runtime
<1>3. Found' = Found /\ Reachable' = Reachable
  BY <1>2 DEF Found, Reachable, Closed, Requires
<1>4. CASE dynamic # {}
  <2>1. Error("dynamic")
    BY <1>1, <1>4 DEF Error
  <2>2. PICK f \in dynamic : TRUE
    BY <1>4
  <2>3. f \in Reachable /\ prog[f].dynamic
    BY <2>2 DEF BundleInv, FoundIsReached
  <2>4. RefusalsAreJust'
    BY <1>1, <1>2, <1>3, <1>4, <2>3 DEF RefusalsAreJust
  <2>5. QED
    BY <1>1, <2>1, <2>4, ErrorStep DEF Errors
<1>5. CASE dynamic = {}
  <2>1. phase' = "run"
    BY <1>1, <1>5
  <2>2. BundleTypeOK'
    BY <1>2, <2>1 DEF BundleInv, BundleTypeOK
  <2>3. Registry' /\ RewrittenToModules' /\ StackOfModules'
    <3>1. Registry'
      BY <1>2 DEF BundleInv, Registry
    <3>2. RewrittenToModules'
      BY <1>2 DEF BundleInv, RewrittenToModules, IsModule
    <3>3. StackOfModules'
      BY <1>2, <1>3 DEF BundleInv, StackOfModules
    <3>4. QED
      BY <3>1, <3>2, <3>3
  <2>4. FoundIsReached'
    BY <1>1, <1>2, <1>3, <2>1 DEF BundleInv, FoundIsReached
  <2>5. EdgesWalked'
    BY <1>2, <1>3 DEF BundleInv, EdgesWalked, Waits, Settled
  <2>6. RunIsLast' /\ RefusalsAreJust'
    <3>1. active.next > Len(prog[active.file].body)
      <4>1. active.file \in Files /\ active.next \in Nat
        BY DEF BundleInv, BundleTypeOK
      <4>2. Len(prog[active.file].body) \in Nat
        BY <4>1 DEF BundleInv, BundleTypeOK, Programs
      <4>3. QED
        BY <1>1, <4>1, <4>2 DEF Walking
    <3>2. QED
      BY <1>1, <1>2, <1>5, <2>1, <3>1 DEF RunIsLast, RefusalsAreJust
  <2>7. QED
    BY <2>2, <2>3, <2>4, <2>5, <2>6 DEF BundleInv
<1>6. QED
  BY <1>4, <1>5

------------------------------------------------------------------------------
(***************************************************************************)
(* The run.                                                                *)
(***************************************************************************)
\* A step of the run keeps the invariant, when what it leaves on the stack are
\* modules under their names.
LEMMA RunStep ==
    ASSUME BundleInv, UNCHANGED <<request, discovery, phase>>,
           loaded' \in [Names -> Values], stack' \in Seq(Frames), StackOfModules'
    PROVE  BundleInv'
<1>1. /\ prog' = prog /\ broken' = broken /\ strict' = strict /\ modules' = modules /\ active' = active
      /\ pending' = pending /\ rewrites' = rewrites /\ dynamic' = dynamic /\ phase' = phase
  BY DEF request, discovery
<1>2. BundleTypeOK'
  BY <1>1 DEF BundleInv, BundleTypeOK
<1>3. Found' = Found /\ Reachable' = Reachable
  BY <1>1 DEF Found, Reachable, Closed, Requires
<1>4. Registry'
  BY <1>1 DEF BundleInv, Registry
<1>5. FoundIsReached'
  BY <1>1, <1>3 DEF BundleInv, FoundIsReached
<1>6. RewrittenToModules'
  BY <1>1 DEF BundleInv, RewrittenToModules, IsModule
<1>7. EdgesWalked'
  BY <1>1, <1>3 DEF BundleInv, EdgesWalked, Waits, Settled
<1>8. RunIsLast'
  BY <1>1 DEF BundleInv, RunIsLast
<1>9. RefusalsAreJust'
  BY <1>1, <1>3 DEF BundleInv, RefusalsAreJust, Requires
<1>10. QED
  BY <1>2, <1>4, <1>5, <1>6, <1>7, <1>8, <1>9 DEF BundleInv

\* The chunk on top, and the require it is at.
LEMMA TopFacts ==
    ASSUME BundleInv
    PROVE  /\ Len(stack) \in DOMAIN stack /\ Len(stack) \in Nat \ {0} /\ Lua!Top \in Frames
           /\ Lua!Top = stack[Len(stack)] /\ Lua!Top.file \in Found /\ Lua!Top.file \in Files
           /\ Lua!Running => Lua!Top.at \in DOMAIN prog[Lua!Top.file].body /\ Required \in Names
<1>1. stack \in Seq(Frames) /\ stack # <<>>
  BY DEF BundleInv, BundleTypeOK, StackOfModules
<1>2. Len(stack) \in DOMAIN stack /\ Len(stack) \in Nat \ {0}
  BY <1>1
<1>3. Lua!Top = stack[Len(stack)] /\ Lua!Top \in Frames
  BY <1>1, <1>2 DEF Lua!Top
<1>4. Lua!Top.file \in Found
  BY <1>2, <1>3 DEF BundleInv, StackOfModules
<1>5. Lua!Top.file \in Files /\ Lua!Top.at \in Nat \ {0}
  BY <1>3 DEF Frames
<1>6. prog[Lua!Top.file].body \in Seq(Names)
  BY <1>5 DEF BundleInv, BundleTypeOK, Programs
<1>7. Lua!Running => Lua!Top.at \in DOMAIN prog[Lua!Top.file].body /\ Required \in Names
  BY <1>5, <1>6 DEF Lua!Running, Required, Lua!Required
<1>8. QED
  BY <1>2, <1>3, <1>4, <1>5, <1>7

\* A chunk past its require.
LEMMA PastRequire ==
    ASSUME NEW c \in Frames
    PROVE  /\ [c EXCEPT !.at = @ + 1] \in Frames
           /\ [c EXCEPT !.at = @ + 1].file = c.file /\ [c EXCEPT !.at = @ + 1].name = c.name
<1>1. c = [file |-> c.file, name |-> c.name, at |-> c.at] /\ c.at \in Nat \ {0}
  BY DEF Frames
<1>2. [c EXCEPT !.at = @ + 1] = [file |-> c.file, name |-> c.name, at |-> c.at + 1]
  BY <1>1
<1>3. c.at + 1 \in Nat \ {0}
  BY <1>1
<1>4. QED
  BY <1>2, <1>3 DEF Frames

\* The chunk on top moves past its require.
LEMMA AdvancedStack ==
    ASSUME BundleInv, NEW s \in Seq(Frames), s # <<>>,
           \A k \in DOMAIN s : k \in DOMAIN stack /\ s[k] = stack[k],
           stack' = [s EXCEPT ![Len(s)].at = @ + 1], modules' = modules
    PROVE  stack' \in Seq(Frames) /\ StackOfModules'
<1> DEFINE n == Len(s)
           ahead == [s[n] EXCEPT !.at = @ + 1]
<1>1. n \in DOMAIN s /\ s[n] \in Frames /\ DOMAIN s = 1..n /\ n \in Nat
  OBVIOUS
<1>2. ahead \in Frames /\ ahead.file = s[n].file /\ ahead.name = s[n].name
  BY <1>1, PastRequire
<1>3. stack' = [s EXCEPT ![n] = ahead]
  OBVIOUS
<1> HIDE DEF ahead
<1>4. stack' \in Seq(Frames) /\ DOMAIN stack' = DOMAIN s /\ stack'[n] = ahead /\ \A k \in DOMAIN s : k # n => stack'[k] = s[k]
  BY <1>1, <1>2, <1>3
<1> HIDE DEF n
<1>5. ASSUME NEW k \in DOMAIN stack' PROVE stack'[k].file \in Found /\ (k # 1 => stack'[k].name \in Names)
  <2>1. stack'[k].file = stack[k].file /\ stack'[k].name = stack[k].name /\ k \in DOMAIN stack
    BY <1>1, <1>2, <1>4
  <2>2. QED
    BY <2>1 DEF BundleInv, StackOfModules
<1>6. Found' = Found
  BY DEF Found
<1>7. stack' # <<>>
  BY <1>1, <1>4
<1>8. QED
  BY <1>4, <1>5, <1>6, <1>7 DEF StackOfModules

\* A require that is skipped, or is answered without running a file.
LEMMA AnsweredIInv ==
    ASSUME BundleInv, UNCHANGED <<request, discovery, phase>>, Lua!Running,
           stack' = Lua!Advanced, loaded' \in [Names -> Values]
    PROVE  BundleInv'
<1>1. modules' = modules
  BY DEF discovery
<1>2. stack \in Seq(Frames) /\ stack # <<>> /\ stack' = [stack EXCEPT ![Len(stack)].at = @ + 1]
  BY DEF BundleInv, BundleTypeOK, StackOfModules, Lua!Advanced
<1>3. stack' \in Seq(Frames) /\ StackOfModules'
  BY <1>1, <1>2, AdvancedStack
<1>4. QED
  BY <1>3, RunStep

\* A name's value in package.loaded after any step.
LEMMA Loaded ==
    ASSUME BundleTypeOK, NEW n \in Names
    PROVE  /\ loaded[n] \in Values
           /\ \A v \in Values : [loaded EXCEPT ![n] = v] \in [Names -> Values]
BY DEF BundleTypeOK

\* The keys a rewritten call may have are modules' names, other than the
\* entry's; and its chunk is one file, the one its own name leads to.
LEMMA ShimmedFacts ==
    ASSUME BundleInv, Lua!Running, Shimmed
    PROVE  /\ Key \in Names /\ FileOf[Required] \in Files
           /\ Chunk(Key) = {FileOf[Required]} /\ FileOf[Required] \in Found
<1>1. Lua!Top.file \in Files /\ Required \in Names /\ Required \in DOMAIN rewrites[Lua!Top.file]
  BY TopFacts DEF Shimmed
<1>2. Key \in Names
  <2>1. rewrites[Lua!Top.file] \in UNION {[D -> Names] : D \in SUBSET Names}
    BY <1>1 DEF BundleInv, BundleTypeOK
  <2>2. QED
    BY <1>1, <2>1 DEF Key
<1>3. PICK k \in DOMAIN modules : k # 1 /\ modules[k] = [file |-> FileOf[Required], name |-> Key]
  BY <1>1 DEF BundleInv, RewrittenToModules, IsModule, Key
<1>4. modules[k].file = FileOf[Required] /\ modules[k].name = Key
  BY <1>3
<1>5. modules \in Seq(Modules)
  BY DEF BundleInv, BundleTypeOK
<1>6. FileOf[Required] \in Files /\ FileOf[Required] \in Found
  <2>1. modules[k] \in Modules
    BY <1>3, <1>5
  <2>2. QED
    BY <1>3, <1>4, <2>1 DEF Modules, Found
<1>7. ASSUME NEW j \in DOMAIN modules, modules[j].name = Key PROVE modules[j].file = FileOf[Required]
  <2>1. modules[1].name = ""
    <3> DEFINE first == [file |-> Entry, name |-> ""]
    <3>1. first.name = ""
      OBVIOUS
    <3>2. modules[1] = first
      BY DEF BundleInv, Registry
    <3> HIDE DEF first
    <3>3. QED
      BY <3>1, <3>2
  <2>2. j # 1
    BY <1>2, <1>7, <2>1, BundleConstants
  <2>3. FileOf[Key] = modules[j].file
    BY <1>7, <2>2 DEF BundleInv, Registry
  <2>4. FileOf[Key] = modules[k].file
    BY <1>3, <1>4 DEF BundleInv, Registry
  <2>5. QED
    BY <1>4, <2>3, <2>4
<1>8. Chunk(Key) = {FileOf[Required]}
  BY <1>3, <1>4, <1>7 DEF Chunk
<1>9. QED
  BY <1>2, <1>6, <1>8

\* A chunk at its first require.
LEMMA NewChunk ==
    ASSUME NEW f \in Files, NEW n \in Names
    PROVE  Lua!Frame(f, n) \in Frames /\ Lua!Frame(f, n).file = f /\ Lua!Frame(f, n).name = n
<1>1. 1 \in Nat \ {0}
  OBVIOUS
<1>2. n \in Names \cup {""}
  OBVIOUS
<1>3. [file |-> f, name |-> n, at |-> 1] \in [file : Files, name : Names \cup {""}, at : Nat \ {0}]
  BY <1>1, <1>2
<1>4. QED
  BY <1>3 DEF Lua!Frame, Frames

\* A chunk on top of the stack.
LEMMA ModulePushed ==
    ASSUME BundleInv, NEW f \in Found, f \in Files, NEW n \in Names,
           stack' = Append(stack, Lua!Frame(f, n)), modules' = modules
    PROVE  stack' \in Seq(Frames) /\ StackOfModules'
<1> DEFINE top == Lua!Frame(f, n)
<1>1. top \in Frames /\ top.file = f /\ top.name = n
  BY NewChunk
<1>2. stack' = Append(stack, top) /\ stack \in Seq(Frames) /\ stack # <<>>
  BY DEF BundleInv, BundleTypeOK, StackOfModules
<1> HIDE DEF top
<1>3. /\ stack' \in Seq(Frames) /\ stack' # <<>> /\ DOMAIN stack' = DOMAIN stack \cup {Len(stack) + 1}
      /\ \A k \in DOMAIN stack : stack'[k] = stack[k]
      /\ stack'[Len(stack) + 1] = top
  BY <1>1, <1>2, OfOneMore
<1>4. \A k \in DOMAIN stack' : stack'[k].file \in Found /\ (k # 1 => stack'[k].name \in Names)
  BY <1>1, <1>3 DEF BundleInv, StackOfModules
<1>5. Found' = Found
  BY DEF Found
<1>6. QED
  BY <1>3, <1>4, <1>5 DEF StackOfModules

\* Every step of the run keeps the invariant.
LEMMA RunIInv == BundleInv /\ Run => BundleInv'
<1> SUFFICES ASSUME BundleInv, Run PROVE BundleInv'
  OBVIOUS
<1> USE DEF Values, Returns
<1>1. BundleTypeOK /\ loaded \in [Names -> Values]
  BY DEF BundleInv, BundleTypeOK
<1>2. CASE Skip
  <2>1. UNCHANGED <<request, discovery, phase>> /\ Lua!Running /\ stack' = Lua!Advanced /\ loaded' = loaded
    BY <1>2 DEF Skip, Lua!Skip
  <2>2. QED
    BY <1>1, <2>1, AnsweredIInv
<1>3. CASE ShimHit
  <2>1. UNCHANGED <<request, discovery, phase>> /\ Lua!Running /\ stack' = Lua!Advanced /\ loaded' = loaded
    BY <1>3 DEF ShimHit, Running
  <2>2. QED
    BY <1>1, <2>1, AnsweredIInv
<1>4. CASE ShimLoad
  <2>1. Lua!Running /\ Shimmed /\ UNCHANGED <<request, discovery, phase>>
    BY <1>4 DEF ShimLoad, Running
  <2>2. PICK f \in Chunk(Key) : /\ stack' = Append(stack, Lua!Frame(f, Key))
                                /\ loaded' = IF prog[f].early THEN [loaded EXCEPT ![Key] = "table"] ELSE loaded
    BY <1>4 DEF ShimLoad
  <2>3. Key \in Names /\ f \in Files /\ f \in Found
    BY <2>1, <2>2, ShimmedFacts
  <2>4. loaded' \in [Names -> Values]
    BY <1>1, <2>2, <2>3
  <2>5. stack' \in Seq(Frames) /\ StackOfModules'
    BY <2>1, <2>2, <2>3, ModulePushed DEF discovery
  <2>6. QED
    BY <2>1, <2>4, <2>5, RunStep
<1>5. CASE PlainRequire
  <2>1. UNCHANGED <<request, discovery, phase>> /\ Lua!Running /\ stack' = Lua!Advanced
    BY <1>5 DEF PlainRequire, Running, Lua!Hit, Lua!Host
  <2>2. Required \in Names
    BY <2>1, TopFacts
  <2>3. loaded' \in [Names -> Values]
    BY <1>1, <1>5, <2>2 DEF PlainRequire, Lua!Hit, Lua!Host, Required
  <2>4. QED
    BY <2>1, <2>3, AnsweredIInv
<1>6. CASE ShimReturn
  <2> DEFINE n == Len(stack)
             under == SubSeq(stack, 1, n - 1)
             top == Lua!Top
  <2>1. /\ Len(stack) > 1 /\ stack' = [under EXCEPT ![n - 1].at = @ + 1] /\ UNCHANGED <<request, discovery, phase>>
        /\ loaded' = [loaded EXCEPT ![top.name] = Kept(prog[top.file].ret, @)]
    BY <1>6 DEF ShimReturn
  <2>2. top = stack[n] /\ n \in DOMAIN stack \ {1} /\ top.file \in Files /\ top.name \in Names
    <3>1. top = stack[n] /\ n \in DOMAIN stack /\ top.file \in Files
      BY TopFacts
    <3>2. n # 1
      BY <2>1, TopFacts
    <3>3. QED
      BY <3>1, <3>2 DEF BundleInv, StackOfModules
  <2>3. loaded' \in [Names -> Values]
    <3>1. prog[top.file].ret \in Returns /\ loaded[top.name] \in Values
      BY <1>1, <2>2 DEF BundleTypeOK, Programs
    <3>2. Kept(prog[top.file].ret, loaded[top.name]) \in Values
      BY <3>1 DEF Kept, Lua!Stored
    <3>3. QED
      BY <1>1, <2>1, <2>2, <3>2
  <2>4. stack' \in Seq(Frames) /\ StackOfModules'
    <3>1. stack \in Seq(Frames) /\ n > 1
      BY <2>1 DEF BundleInv, BundleTypeOK
    <3>2. /\ under \in Seq(Frames) /\ Len(under) = n - 1 /\ under # <<>>
          /\ \A k \in DOMAIN under : k \in DOMAIN stack /\ under[k] = stack[k]
      <4> DEFINE m == n - 1
      <4>1. n \in Nat /\ n > 1
        BY <2>1, TopFacts
      <4>2. m \in Nat /\ m # 0 /\ n = m + 1
        BY <4>1, OneLess
      <4> HIDE DEF m
      <4>3. /\ SubSeq(stack, 1, m) \in Seq(Frames) /\ Len(SubSeq(stack, 1, m)) = m /\ SubSeq(stack, 1, m) # <<>>
            /\ \A k \in DOMAIN SubSeq(stack, 1, m) : k \in DOMAIN stack /\ SubSeq(stack, 1, m)[k] = stack[k]
        BY <3>1, <4>2, WithoutTop
      <4>4. QED
        BY <4>3 DEF m
    <3>3. stack' = [under EXCEPT ![Len(under)].at = @ + 1] /\ modules' = modules
      BY <2>1, <3>2 DEF discovery
    <3> HIDE DEF under
    <3>4. QED
      BY <3>2, <3>3, AdvancedStack
  <2>5. QED
    BY <2>1, <2>3, <2>4, RunStep
<1>7. QED
  BY <1>2, <1>3, <1>4, <1>5, <1>6 DEF Run

\* Every step keeps the invariant.
LEMMA NextIInv == BundleInv /\ [Next]_vars => BundleInv'
<1> SUFFICES ASSUME BundleInv, [Next]_vars PROVE BundleInv'
  OBVIOUS
<1>1. CASE Discover
  BY <1>1, WalkUnresolvedIInv, WalkEntryIInv, WalkKnownIInv, WalkNewIInv, PopIInv, EmitIInv DEF Discover
<1>2. CASE Run
  BY <1>2, RunIInv
<1>3. CASE UNCHANGED vars
  <2>1. UNCHANGED <<request, discovery, phase>> /\ loaded' = loaded /\ stack' = stack /\ modules' = modules
    BY <1>3 DEF vars, discovery, runtime
  <2>2. Found' = Found
    BY <2>1 DEF Found
  <2>3. StackOfModules'
    BY <2>1, <2>2 DEF BundleInv, StackOfModules
  <2>4. loaded' \in [Names -> Values] /\ stack' \in Seq(Frames)
    BY <2>1 DEF BundleInv, BundleTypeOK
  <2>5. QED
    BY <2>1, <2>3, <2>4, RunStep
<1>4. QED
  BY <1>1, <1>2, <1>3 DEF Next

\* The inductive invariant is an invariant.
LEMMA BundleInductive == Spec => []BundleInv
BY InitIInv, NextIInv, PTL DEF Spec

------------------------------------------------------------------------------
(***************************************************************************)
(* What an emitted bundle is.                                              *)
(***************************************************************************)
\* When the run begins every require of every file found has been settled.
LEMMA AllSettled ==
    ASSUME BundleInv, phase = "run"
    PROVE  /\ \A f \in Found : f \in Files /\ \A k \in DOMAIN prog[f].body : Settled(f, k)
           /\ \A f \in Found : \A k \in DOMAIN prog[f].body :
                 FileOf[prog[f].body[k]] # NoFile => IsModule(FileOf[prog[f].body[k]], rewrites[f][prog[f].body[k]])
<1>1. ASSUME NEW f \in Found, NEW k \in DOMAIN prog[f].body
      PROVE  /\ f \in Files /\ Settled(f, k)
             /\ FileOf[prog[f].body[k]] # NoFile => IsModule(FileOf[prog[f].body[k]], rewrites[f][prog[f].body[k]])
  <2>1. f \in Files
    BY DEF BundleInv, FoundIsReached, Reachable
  <2>2. prog[f].body \in Seq(Names)
    BY <2>1 DEF BundleInv, BundleTypeOK, Programs
  <2>3. k \in Nat /\ k <= Len(prog[f].body) /\ Len(prog[f].body) \in Nat
    BY <2>2
  <2>4. ~(f = active.file /\ k >= active.next)
    <3>1. active.next > Len(prog[active.file].body) /\ active.next \in Nat
      BY DEF BundleInv, RunIsLast, BundleTypeOK
    <3>2. QED
      BY <2>3, <3>1
  <2>5. ~\E j \in DOMAIN pending : pending[j] = f
    BY DEF BundleInv, RunIsLast
  <2>6. Settled(f, k)
    BY <2>4, <2>5 DEF BundleInv, EdgesWalked, Waits
  <2>7. ASSUME FileOf[prog[f].body[k]] # NoFile PROVE IsModule(FileOf[prog[f].body[k]], rewrites[f][prog[f].body[k]])
    BY <2>1, <2>6, <2>7 DEF Settled, BundleInv, RewrittenToModules
  <2>8. QED
    BY <2>1, <2>6, <2>7
<1>2. \A f \in Found : f \in Files
  BY DEF BundleInv, FoundIsReached, Reachable
<1>3. QED
  BY <1>1, <1>2

\* And what is found is all that is reached.
LEMMA FoundIsReachable == ASSUME BundleInv, phase = "run" PROVE Found = Reachable
<1>1. Found \subseteq Reachable /\ Found \subseteq Files
  BY DEF BundleInv, FoundIsReached, Reachable
<1>2. Closed(Found)
  <2>1. Entry \in Found
    <3> DEFINE first == [file |-> Entry, name |-> ""]
    <3>1. first.file = Entry
      OBVIOUS
    <3>2. modules[1] = first /\ modules # <<>> /\ modules \in Seq(Modules)
      BY DEF BundleInv, Registry, BundleTypeOK
    <3> HIDE DEF first
    <3>3. 1 \in DOMAIN modules
      BY <3>2
    <3>4. QED
      BY <3>1, <3>2, <3>3 DEF Found
  <2>2. ASSUME NEW f \in Found, NEW g \in Requires(f) \ {NoFile} PROVE g \in Found
    <3>1. PICK k \in DOMAIN prog[f].body : g = FileOf[prog[f].body[k]]
      BY DEF Requires
    <3>2. IsModule(g, rewrites[f][prog[f].body[k]])
      BY <3>1, AllSettled
    <3>3. PICK j \in DOMAIN modules : modules[j] = [file |-> g, name |-> rewrites[f][prog[f].body[k]]]
      BY <3>2 DEF IsModule
    <3>4. modules[j].file = g
      BY <3>3
    <3>5. QED
      BY <3>4 DEF Found
  <2>3. QED
    BY <2>1, <2>2 DEF Closed
<1>3. QED
  BY <1>1, <1>2 DEF Reachable

\* No file is found twice.
LEMMA FoundOnce == ASSUME BundleInv PROVE IsFiniteSet(Found) /\ Len(modules) = Cardinality(Found)
<1> DEFINE n == Len(modules)
           file == [k \in 1..n |-> modules[k].file]
<1>1. n \in Nat /\ DOMAIN modules = 1..n
  BY DEF BundleInv, BundleTypeOK
<1> HIDE DEF n
<1>2. file \in [1..n -> Found]
  BY <1>1 DEF Found
<1>3. \A j, k \in 1..n : file[j] = file[k] => j = k
  BY <1>1 DEF BundleInv, Registry
<1>4. \A f \in Found : \E k \in 1..n : file[k] = f
  BY <1>1 DEF Found
<1> HIDE DEF file
<1>5. file \in Injection(1..n, Found)
  BY <1>2, <1>3 DEF Injection, IsInjective
<1>6. file \in Surjection(1..n, Found)
  BY <1>2, <1>4 DEF Surjection
<1>7. ExistsBijection(1..n, Found)
  BY <1>5, <1>6 DEF ExistsBijection, Bijection
<1>8. IsFiniteSet(1..n) /\ Cardinality(1..n) = n
  BY <1>1, FS_Interval
<1>9. QED
  BY <1>7, <1>8, FS_Bijection DEF n

\* A bundle that runs is what its entry reaches.
LEMMA EmittedIsReachable == BundleInv => BundleIsReachable
<1> SUFFICES ASSUME BundleInv, phase = "run" PROVE BundleIsReachable
  BY DEF BundleIsReachable
<1>1. Found = Reachable /\ Len(modules) = Cardinality(Found)
  BY FoundIsReachable, FoundOnce
<1>2. ASSUME NEW f \in Found PROVE f \notin broken /\ ~prog[f].dynamic /\ Entry \notin Requires(f)
  <2>1. f \notin broken
    BY DEF BundleInv, FoundIsReached
  <2>2. ~prog[f].dynamic
    BY DEF BundleInv, FoundIsReached, RunIsLast
  <2>3. ASSUME NEW k \in DOMAIN prog[f].body, FileOf[prog[f].body[k]] = Entry PROVE FALSE
    <3> DEFINE first == [file |-> Entry, name |-> ""]
               name == rewrites[f][prog[f].body[k]]
    <3>1. IsModule(Entry, name)
      BY <2>3, AllSettled, BundleConstants
    <3>2. PICK j \in DOMAIN modules : j # 1 /\ modules[j] = [file |-> Entry, name |-> name]
      BY <3>1 DEF IsModule
    <3> HIDE DEF name
    <3>3. modules[j].file = Entry
      BY <3>2
    <3>4. first.file = Entry
      OBVIOUS
    <3>5. modules[1] = first /\ modules # <<>> /\ modules \in Seq(Modules)
      BY DEF BundleInv, Registry, BundleTypeOK
    <3> HIDE DEF first
    <3>6. 1 \in DOMAIN modules
      BY <3>5
    <3>7. QED
      BY <3>2, <3>3, <3>4, <3>5, <3>6 DEF BundleInv, Registry
  <2>4. QED
    BY <2>1, <2>2, <2>3 DEF Requires
<1>3. strict => \A f \in Found : \A k \in DOMAIN prog[f].body :
         prog[f].body[k] \in Externals \/ FileOf[prog[f].body[k]] # NoFile
  BY AllSettled DEF Settled
<1>4. {modules[k].file : k \in DOMAIN modules} = Found
  BY DEF Found
<1>5. QED
  BY <1>1, <1>2, <1>3, <1>4 DEF BundleIsReachable

\* No call of a bundle that runs misses its module.
LEMMA NothingMissing == BundleInv => ~NotFound
<1> SUFFICES ASSUME BundleInv, NotFound PROVE FALSE
  OBVIOUS
<1>1. phase = "run" /\ Lua!Running
  BY DEF NotFound, Running
<1>2. CASE Shimmed
  BY <1>1, <1>2, ShimmedFacts DEF NotFound
<1>3. CASE ~Shimmed
  <2>1. FileOf[Required] # NoFile
    BY <1>3 DEF NotFound
  <2>2. Lua!Top.file \in Found /\ Lua!Top.at \in DOMAIN prog[Lua!Top.file].body
    BY <1>1, TopFacts
  <2>3. Settled(Lua!Top.file, Lua!Top.at)
    BY <1>1, <2>2, AllSettled
  <2>4. QED
    BY <1>3, <2>1, <2>3 DEF Settled, Shimmed, Required, Lua!Required
<1>4. QED
  BY <1>2, <1>3

\* Every state of a bundling, and of the bundle's run, has the types the code
\* declares; so no index, name or file it looks up is ever absent.
THEOREM BundleTypesCorrect == Spec => []BundleTypeOK
<1>1. BundleInv => BundleTypeOK
  BY DEF BundleInv
<1>2. QED
  BY BundleInductive, <1>1, PTL

\* For any project: a bundle is what its entry reaches, each file once, or it is
\* refused for something the entry reaches; and no require of a bundle that
\* runs, on any path, finds its module missing.
THEOREM BundlesAreExact == Spec => []BundleIsExact
<1>1. BundleInv => BundleIsExact
  BY EmittedIsReachable, NothingMissing DEF BundleIsExact, BundleInv
<1>2. QED
  BY BundleInductive, <1>1, PTL

------------------------------------------------------------------------------
(***************************************************************************)
(* The run is Lua's.                                                       *)
(***************************************************************************)
\* In a program that gives each file one name, a call is rewritten to the name
\* it already has.
LEMMA KeyIsRequired == ASSUME BundleInv, OneName, Lua!Running, Shimmed PROVE Key = Required
<1>1. /\ Lua!Top.file \in Files /\ Lua!Top.at \in DOMAIN prog[Lua!Top.file].body
      /\ Required = prog[Lua!Top.file].body[Lua!Top.at] /\ Required \in DOMAIN rewrites[Lua!Top.file]
  BY TopFacts DEF Shimmed, Required, Lua!Required
<1>2. PICK k \in DOMAIN modules : k # 1 /\ modules[k] = [file |-> FileOf[Required], name |-> Key]
  BY <1>1 DEF BundleInv, RewrittenToModules, IsModule, Key
<1>3. modules[k].file = FileOf[Required] /\ modules[k].name = Key
  BY <1>2
<1>4. FileOf[Key] = FileOf[Required]
  BY <1>2, <1>3 DEF BundleInv, Registry
<1>5. PICK f \in Files : \E l \in DOMAIN prog[f].body : prog[f].body[l] = Key
  BY <1>2, <1>3 DEF BundleInv, Registry
<1>6. PICK l \in DOMAIN prog[f].body : prog[f].body[l] = Key
  BY <1>5
<1>7. FileOf[Required] # NoFile
  BY ShimmedFacts, BundleConstants
<1>8. QED
  BY <1>1, <1>4, <1>6, <1>7 DEF OneName

\* A step of the bundle is one of the interpreter with the program's own files.
LEMMA StepIsLua == BundleInv /\ [Next]_vars => [OneName => Lua!Next]_<<prog, loaded, stack, last>>
<1> SUFFICES ASSUME BundleInv, [Next]_vars, OneName, ~UNCHANGED <<prog, loaded, stack, last>> PROVE Lua!Next
  OBVIOUS
<1>1. ~UNCHANGED vars
  BY DEF vars, request, runtime
<1>2. ~Discover
  <2>1. Discover => UNCHANGED <<request, runtime>>
    BY DEF Discover, WalkUnresolved, WalkEntry, WalkKnown, WalkNew, Pop, Emit, Error
  <2>2. QED
    BY <2>1 DEF request, runtime
<1>3. CASE Skip
  BY <1>3 DEF Skip, Lua!Next
<1>4. CASE ShimHit
  <2>1. Lua!Running /\ Shimmed /\ Key = Required /\ prog' = prog
    BY <1>4, KeyIsRequired DEF ShimHit, Running, request
  <2>2. Lua!Hit
    BY <1>4, <2>1 DEF ShimHit, Lua!Hit, Required
  <2>3. QED
    BY <2>2 DEF Lua!Next
<1>5. CASE ShimLoad
  <2>1. Lua!Running /\ Shimmed /\ Key = Required /\ prog' = prog
    BY <1>5, KeyIsRequired DEF ShimLoad, Running, request
  <2>2. Chunk(Key) = {FileOf[Required]} /\ FileOf[Required] # NoFile
    BY <2>1, ShimmedFacts, BundleConstants
  <2>3. Lua!Load
    BY <1>5, <2>1, <2>2 DEF ShimLoad, Lua!Load, Required
  <2>4. QED
    BY <2>3 DEF Lua!Next
<1>6. CASE PlainRequire
  BY <1>6 DEF PlainRequire, Lua!Next
<1>7. CASE ShimReturn
  <2>1. Lua!Return
    BY <1>7 DEF ShimReturn, Lua!Return, Kept, request
  <2>2. QED
    BY <2>1 DEF Lua!Next
<1>8. QED
  BY <1>1, <1>2, <1>3, <1>4, <1>5, <1>6, <1>7 DEF Next, Run

\* For any program that gives each file one name, what the bundle does is what
\* Lua's require does with the files.
THEOREM BundlesRunLikeLua == Spec => ImplementsLua
BY BundleInductive, StepIsLua, PTL DEF Spec, ImplementsLua
=============================================================================
