----------------------------- MODULE CommandLine -----------------------------
(***************************************************************************)
(* The luabox commands that end: upgrade, init and new, the builds of an   *)
(* output directory, the exit status of any of them, and the search for    *)
(* cyclic classes that check begins with.  They run side by side and touch *)
(* different things: the installed binary, a directory that becomes a      *)
(* project, an output directory, and processes of their own.               *)
(***************************************************************************)
EXTENDS Naturals

CONSTANTS Procs,      \* processes, of upgrade or of init and new
          Tags, Current, Builds, NoBuild, MaxUploads, \* see SelfUpgrade
          MaxMoves,   \* bound on the user's moves about init and new
          Commands,   \* the commands whose exit status is followed
          Entries, NameOf, Assets, ZipTools,          \* see BuildOutputs
          BuildMoves, \* bound on the user's moves about the builds
          Classes, Projects                           \* see ClassCycles

VARIABLES asset, listed, latest, ever, uploads, binary, proc,
          asked, dir, owner, there, lost, at, moves,
          cmd, rest, problems, recorded, done, failed, readers, exit,
          mode, source, faulty, assets, wantsMap, moved, out, map, archive, build,
          decls, nodes, component, selfEdged, frames, groups

U == INSTANCE SelfUpgrade
S == INSTANCE Scaffold WITH proc <- at
V == INSTANCE CommandVerdict
O == INSTANCE BuildOutputs WITH broken <- faulty, MaxMoves <- BuildMoves, moves <- moved
C == INSTANCE ClassCycles

ASSUME CommandAssumption ==
    U!UpgradeAssumption /\ V!VerdictAssumption /\ O!BuildAssumption /\ C!CycleAssumption

upgradeVars  == <<asset, listed, latest, ever, uploads, binary, proc>>
scaffoldVars == <<asked, dir, owner, there, lost, at, moves>>
verdictVars  == <<cmd, rest, problems, recorded, done, failed, readers, exit>>
buildVars    == <<mode, source, faulty, assets, wantsMap, moved, out, map, archive, build>>
cycleVars    == <<decls, nodes, component, selfEdged, frames, groups>>
commandVars  == <<upgradeVars, scaffoldVars, verdictVars, buildVars, cycleVars>>

CommandInit == U!Init /\ S!Init /\ V!Init /\ O!Init /\ C!Init

Upgrades  == U!Next /\ UNCHANGED <<scaffoldVars, verdictVars, buildVars, cycleVars>>
Scaffolds == S!Next /\ UNCHANGED <<upgradeVars, verdictVars, buildVars, cycleVars>>
Exits     == V!Next /\ UNCHANGED <<upgradeVars, scaffoldVars, buildVars, cycleVars>>
Outputs   == O!Next /\ UNCHANGED <<upgradeVars, scaffoldVars, verdictVars, cycleVars>>
Searches  == C!Next /\ UNCHANGED <<upgradeVars, scaffoldVars, verdictVars, buildVars>>

CommandNext == Upgrades \/ Scaffolds \/ Exits \/ Outputs \/ Searches

CommandSpec == CommandInit /\ [][CommandNext]_commandVars

------------------------------------------------------------------------------
(***************************************************************************)
(* Properties                                                              *)
(***************************************************************************)
\* The installed program is one its own release has listed (SelfUpgrade).
InstalledWasListed == U!InstalledWasListed

\* What the user wrote survives the commands init and new (Scaffold).
UsersFilesSurvive == S!UsersFilesSurvive

\* To a reader that stays, status 0 means that everything was found good and
\* everything was done (CommandVerdict).
AttendedVerdict == V!AttendedVerdict

\* What check, lint --fix and fmt --check found survives the departure of their
\* reader (CommandVerdict).
VerdictSurvives == V!VerdictSurvives

\* A build that succeeds has repaired and refreshed every artifact
\* (BuildOutputs).
SuccessIsCurrent == O!SuccessIsCurrent

\* Every declaration in a cycle of class ancestry is found and reported
\* (ClassCycles).
EveryCycleIsReported == C!EveryCycleIsReported
=============================================================================
