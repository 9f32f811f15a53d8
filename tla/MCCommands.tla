----------------------------- MODULE MCCommands -----------------------------
(***************************************************************************)
(* The commands: two runs of upgrade; or two of init and new; or builds of *)
(* two entry points under one out directory and two assets; or any of      *)
(* eight commands and its exit status; or the search for cycles among four *)
(* declarations of up to four classes; or the bundle of an entry and two   *)
(* modules, one with two names, beside names only the host can load.  They *)
(* share no state, so each behaviour is one or the other's, and the rest   *)
(* of it is where it starts.                                               *)
(***************************************************************************)
EXTENDS Bundler, CommandLine

CONSTANTS e1, e2, a1, a2, Main, A, B

VARIABLE subject

MCEntries == <<e1, e2>>
MCNameOf  == [e \in {e1, e2} |-> e]

MCClasses  == 1..4
MCProjects ==
    LET UpTo(names) == {<<>>} \cup {<<n>> : n \in names} IN
    {<<[name |-> 1, parents |-> a], [name |-> 2, parents |-> b], [name |-> 3, parents |-> c], [name |-> n, parents |-> d]>> :
        a \in {<<1>>, <<2, 3>>, <<3, 2>>, <<4>>, <<2>>}, b \in UpTo({1, 3, 4}),
        c \in {<<>>, <<1>>, <<2>>, <<4, 1>>, <<3, 2>>}, d \in UpTo({1, 2, 3}), n \in {1, 4}}

(***************************************************************************)
(* What is bundled.  The first requests exercise discovery: second names,  *)
(* cycles, dynamic requires, a require of the entry, a broken file.  The   *)
(* second exercise the run: every early publication and return value, with *)
(* and without cycles, in programs that give each file one name.           *)
(***************************************************************************)
MCFiles  == {Main, A, B}
MCFileOf == [n \in {"a", "a2", "b", "c", "d", "main"} |->
               CASE n \in {"a", "a2"} -> A [] n = "b" -> B [] n \in {"c", "d"} -> NoFile [] n = "main" -> Main]

File(bodies, earlies, rets) == [body : bodies, dynamic : {FALSE}, early : earlies, ret : rets]
Dynamic(body) == [body |-> body, dynamic |-> TRUE, early |-> FALSE, ret |-> "table"]
ProgramsOf(mains, as, bs) ==
    {[f \in MCFiles |-> CASE f = Main -> m [] f = A -> a [] f = B -> b] :
        m \in mains, a \in as, b \in bs}

Discovered ==
    [prog : ProgramsOf(File({<<"a">>, <<"b", "a">>, <<"a", "a2">>, <<"c", "a2">>, <<"main">>}, {FALSE}, {"nil"}),
                       File({<<>>, <<"b">>, <<"a2", "b">>, <<"c", "d">>}, {FALSE}, {"table"}) \cup {Dynamic(<<>>)},
                       File({<<>>, <<"a">>, <<"a2">>, <<"main">>}, {FALSE}, {"table"}) \cup {Dynamic(<<"c">>)}),
     broken : {{}, {A}, {B}, {Main}}, strict : BOOLEAN]
Ran ==
    [prog : ProgramsOf(File({<<"a">>, <<"a", "b">>, <<"b", "a">>, <<"a", "a">>, <<"c">>}, {FALSE}, {"nil"}),
                       File({<<>>, <<"b">>, <<"c", "b">>}, BOOLEAN, {"nil", "false", "table"}),
                       File({<<>>, <<"a">>}, BOOLEAN, {"nil", "false", "table"})),
     broken : {{}}, strict : {FALSE}]
MCRequests == Discovered \cup Ran

------------------------------------------------------------------------------
UpgradeAtRest ==
    /\ asset = [t \in Tags |-> CHOOSE b \in Builds : TRUE] /\ latest = Current
    /\ listed = asset /\ ever = U!Listings /\ uploads = 0
    /\ binary = [tag |-> Current, build |-> asset[Current], exec |-> TRUE]
    /\ proc = [p \in Procs |-> U!Started]

ScaffoldAtRest ==
    /\ asked = [p \in Procs |-> [cmd |-> "new", entry |-> "lib.lua"]]
    /\ dir = FALSE /\ owner = [f \in S!Written |-> "nobody"] /\ lost = {}
    /\ there = [p \in Procs |-> {}] /\ at = [p \in Procs |-> "start"] /\ moves = 0

VerdictAtRest ==
    /\ cmd = "check" /\ rest = V!Program[cmd] /\ problems = {} /\ recorded = 0
    /\ done = {} /\ failed = FALSE /\ readers = V!Streams /\ exit = V!Running

BuildAtRest ==
    /\ mode = "plain" /\ source = <<1, 1>> /\ faulty = FALSE /\ assets = {} /\ wantsMap = FALSE /\ moved = 0
    /\ out = [e \in O!Artifacts |-> O!Nothing] /\ map = out /\ archive = {} /\ build = O!Idle

CyclesAtRest ==
    /\ decls = <<>> /\ nodes = <<>> /\ component = <<>>
    /\ selfEdged = {} /\ frames = <<>> /\ groups = {}

BundleAtRest ==
    /\ prog = [f \in Files |-> [body |-> <<>>, dynamic |-> FALSE, early |-> FALSE, ret |-> "nil"]]
    /\ broken = {} /\ strict = FALSE
    /\ modules = <<>> /\ active = [file |-> Main, next |-> 1] /\ pending = <<>>
    /\ rewrites = <<>> /\ dynamic = {} /\ phase = "none" /\ loaded = <<>> /\ stack = <<>> /\ last = <<>>

MCInit ==
    \/ /\ subject = "upgrade" /\ U!Init
       /\ ScaffoldAtRest /\ VerdictAtRest /\ BuildAtRest /\ CyclesAtRest /\ BundleAtRest
    \/ /\ subject = "scaffold" /\ S!Init
       /\ UpgradeAtRest /\ VerdictAtRest /\ BuildAtRest /\ CyclesAtRest /\ BundleAtRest
    \/ /\ subject = "verdict" /\ V!Init
       /\ UpgradeAtRest /\ ScaffoldAtRest /\ BuildAtRest /\ CyclesAtRest /\ BundleAtRest
    \/ /\ subject = "build" /\ O!Init
       /\ UpgradeAtRest /\ ScaffoldAtRest /\ VerdictAtRest /\ CyclesAtRest /\ BundleAtRest
    \/ /\ subject = "cycles" /\ C!Init
       /\ UpgradeAtRest /\ ScaffoldAtRest /\ VerdictAtRest /\ BuildAtRest /\ BundleAtRest
    \/ /\ subject = "bundle" /\ Init
       /\ UpgradeAtRest /\ ScaffoldAtRest /\ VerdictAtRest /\ BuildAtRest /\ CyclesAtRest

MCNext ==
    \/ subject = "upgrade"  /\ Upgrades /\ UNCHANGED <<vars, subject>>
    \/ subject = "scaffold" /\ Scaffolds /\ UNCHANGED <<vars, subject>>
    \/ subject = "verdict"  /\ Exits /\ UNCHANGED <<vars, subject>>
    \/ subject = "build"    /\ Outputs /\ UNCHANGED <<vars, subject>>
    \/ subject = "cycles"   /\ Searches /\ UNCHANGED <<vars, subject>>
    \/ subject = "bundle"   /\ Next /\ UNCHANGED <<commandVars, subject>>

MCSpec == MCInit /\ [][MCNext]_<<commandVars, vars, subject>>
=============================================================================
