------------------------------ MODULE Bundler ------------------------------
(***************************************************************************)
(* luabox-bundle: the discovery of the require graph from the entry, the   *)
(* names its require calls are rewritten to, and the run of the bundle     *)
(* under the require shim it carries.                                      *)
(***************************************************************************)
EXTENDS Naturals, Sequences, FiniteSets

CONSTANTS Entry,     \* the entry file
          Files,     \* the project's files, the entry among them
          NoFile,    \* resolve's None
          FileOf,    \* resolve: the file of every module name, or NoFile
          Requests,  \* what to bundle: a program, its broken files, --strict-bundle
          Preloaded, \* names the host may have loaded already
          Externals, \* the names allowed to stay unresolved
          MaxDepth   \* the depth at which the interpreter's stack overflows

Names   == DOMAIN FileOf
Returns == {"nil", "false", "table"}

\* What load_module takes from every file: its requires of literal names, in
\* source order, and whether it has one of anything else; and for the run,
\* whether it publishes its table early, and what it returns.
Programs == [Files -> [body : Seq(Names), dynamic : BOOLEAN, early : BOOLEAN, ret : Returns]]

\* The name "" is the entry's, which has none.
ASSUME BundleAssumption ==
    /\ Entry \in Files /\ NoFile \notin Files
    /\ \A n \in Names : FileOf[n] \in Files \cup {NoFile}
    /\ "" \notin Names
    /\ \A r \in Requests : r.prog \in Programs /\ r.broken \subseteq Files /\ r.strict \in BOOLEAN
    /\ MaxDepth \in Nat

VARIABLES prog,     \* every file, as load_module finds it
          broken,   \* the files that do not parse or lower
          strict,   \* --strict-bundle
          modules,  \* the modules found: file and name, the entry first
          active,   \* the module whose edges are walked, and the next of them
          pending,  \* the modules whose edges wait
          rewrites, \* per file, the name each of its requires is rewritten to
          dynamic,  \* the files with a dynamic require
          phase,    \* "discover", an error, or "run"
          loaded,   \* the bundle's run: package.loaded,
          stack,    \* the chunks being run,
          last       \* the last thing the program did

request   == <<prog, broken, strict>>
discovery == <<modules, active, pending, rewrites, dynamic>>
runtime   == <<loaded, stack, last>>
vars      == <<request, discovery, phase, runtime>>

Lua == INSTANCE LuaRequire

Init ==
    /\ \E r \in Requests : prog = r.prog /\ broken = r.broken /\ strict = r.strict
    /\ modules = <<[file |-> Entry, name |-> ""]>>
    /\ active = [file |-> Entry, next |-> 1]
    /\ pending = <<>>
    /\ rewrites = [f \in Files |-> [n \in {} |-> n]]
    /\ dynamic = {f \in {Entry} : prog[f].dynamic}
    /\ phase = IF Entry \in broken THEN "parse" ELSE "discover"
    /\ Lua!Init

------------------------------------------------------------------------------
(***************************************************************************)
(* Discovery walks the edges of one module, in source order; a module they *)
(* lead to is loaded at once, and its own edges wait.                      *)
(***************************************************************************)
Known(f)  == \E k \in DOMAIN modules : modules[k].file = f
KeyOf(f)  == modules[CHOOSE k \in DOMAIN modules : modules[k].file = f].name
Walking   == phase = "discover" /\ active.next <= Len(prog[active.file].body)
Edge      == prog[active.file].body[active.next]
Walked    == active' = [active EXCEPT !.next = @ + 1]
Rewrite(key) ==
    rewrites' = [rewrites EXCEPT ![active.file] =
                     [n \in DOMAIN @ \cup {Edge} |-> IF n = Edge THEN key ELSE @[n]]]

Error(what) == /\ phase' = what
               /\ UNCHANGED <<request, discovery, runtime>>

\* Unresolved: an error under strict bundling, else a runtime require.
WalkUnresolved ==
    /\ Walking /\ FileOf[Edge] = NoFile
    /\ IF strict /\ Edge \notin Externals THEN Error("unresolved")
       ELSE Walked /\ UNCHANGED <<request, modules, pending, rewrites, dynamic, phase, runtime>>

WalkEntry == Walking /\ FileOf[Edge] = Entry /\ Error("entry_required")

WalkKnown ==
    /\ Walking /\ FileOf[Edge] \notin {NoFile, Entry} /\ Known(FileOf[Edge])
    /\ Rewrite(KeyOf(FileOf[Edge]))
    /\ Walked
    /\ UNCHANGED <<request, modules, pending, dynamic, phase, runtime>>

\* Mutant: the module's own requires are not walked.
WalkNewShallow ==
    /\ Walking /\ FileOf[Edge] \notin {NoFile, Entry} /\ ~Known(FileOf[Edge])
    /\ modules' = Append(modules, [file |-> FileOf[Edge], name |-> Edge])
    /\ Rewrite(Edge)
    /\ Walked
    /\ UNCHANGED <<request, pending, dynamic, phase, runtime>>

\* A module first met here is loaded at once; its own requires wait.
WalkNew ==
    /\ Walking /\ FileOf[Edge] \notin {NoFile, Entry} /\ ~Known(FileOf[Edge])
    /\ LET f == FileOf[Edge] IN
       IF f \in broken THEN Error("parse")
       ELSE /\ modules' = Append(modules, [file |-> f, name |-> Edge])
            /\ pending' = Append(pending, f)
            /\ Rewrite(Edge)
            /\ Walked
            /\ dynamic' = IF prog[f].dynamic THEN dynamic \cup {f} ELSE dynamic
            /\ UNCHANGED <<request, phase, runtime>>

Pop ==
    /\ phase = "discover" /\ ~Walking /\ pending # <<>>
    /\ active' = [file |-> pending[Len(pending)], next |-> 1]
    /\ pending' = SubSeq(pending, 1, Len(pending) - 1)
    /\ UNCHANGED <<request, modules, rewrites, dynamic, phase, runtime>>

Emit ==
    /\ phase = "discover" /\ ~Walking /\ pending = <<>>
    /\ phase' = IF dynamic # {} THEN "dynamic" ELSE "run"
    /\ UNCHANGED <<request, discovery, runtime>>

Discover == WalkUnresolved \/ WalkEntry \/ WalkKnown \/ WalkNew \/ Pop \/ Emit

------------------------------------------------------------------------------
(***************************************************************************)
(* The bundle's run.  A rewritten call goes through the shim, under the    *)
(* name it was rewritten to; any other is the interpreter's own require,   *)
(* which finds none of the project's files.                                *)
(***************************************************************************)
Required == Lua!Required
Shimmed  == Required \in DOMAIN rewrites[Lua!Top.file]
Key      == rewrites[Lua!Top.file][Required]
Chunk(key) == {modules[k].file : k \in {j \in DOMAIN modules : modules[j].name = key}}
Running  == phase = "run" /\ Lua!Running

Skip == phase = "run" /\ Lua!Skip /\ UNCHANGED <<request, discovery, phase>>

\* "if hit then return hit".
ShimHit ==
    /\ Running /\ Shimmed
    /\ Lua!Truthy(loaded[Key])
    /\ stack' = Lua!Advanced
    /\ last' = <<"got", Key, loaded[Key]>>
    /\ UNCHANGED <<request, discovery, phase, loaded>>

\* "chunk(name)".
ShimLoad ==
    /\ Running /\ Shimmed
    /\ ~Lua!Truthy(loaded[Key])
    /\ Len(stack) < MaxDepth
    /\ \E f \in Chunk(Key) :
          /\ stack' = Append(stack, Lua!Frame(f, Key))
          /\ loaded' = IF prog[f].early THEN [loaded EXCEPT ![Key] = "table"] ELSE loaded
    /\ last' = <<"runs", Key, "nil">>
    /\ UNCHANGED <<request, discovery, phase>>

\* The call at hand fails: "error(... is not in the bundle)", or the
\* interpreter's own not found, for a file that was not bundled.
NotFound ==
    /\ Running
    /\ IF Shimmed THEN ~Lua!Truthy(loaded[Key]) /\ Chunk(Key) = {}
       ELSE FileOf[Required] # NoFile /\ ~Lua!Truthy(loaded[Required])

PlainRequire ==
    /\ Running /\ ~Shimmed
    /\ Lua!Hit \/ Lua!Host
    /\ UNCHANGED <<request, discovery, phase>>

\* Mutant: a chunk that returns nothing leaves true, whatever it published.
Overwritten(v, was) == IF v # "nil" THEN v ELSE "true"

\* "if ret ~= nil then ... elseif __luabox_loaded[name] == nil then ... true".
Kept(v, was) == Lua!Stored(v, was)

ShimReturn ==
    /\ phase = "run" /\ Len(stack) > 1 /\ ~Lua!Running
    /\ LET top == Lua!Top
           kept == [loaded EXCEPT ![top.name] = Kept(prog[top.file].ret, @)] IN
       /\ loaded' = kept
       /\ last' = <<"got", top.name, kept[top.name]>>
    /\ stack' = [SubSeq(stack, 1, Len(stack) - 1) EXCEPT ![Len(stack) - 1].at = @ + 1]
    /\ UNCHANGED <<request, discovery, phase>>

Run == Skip \/ ShimHit \/ ShimLoad \/ PlainRequire \/ ShimReturn

Next == Discover \/ Run

Spec == Init /\ [][Next]_vars

------------------------------------------------------------------------------
\* The program the entry stands for: the least set of files that holds the
\* entry and what its files require.
Requires(f) == {FileOf[prog[f].body[k]] : k \in DOMAIN prog[f].body}
Closed(S)   == Entry \in S /\ \A f \in S : Requires(f) \ {NoFile} \subseteq S
Reachable   == {f \in Files : \A S \in SUBSET Files : Closed(S) => f \in S}

\* "Only files reachable from the entry are bundled": an emitted bundle holds
\* each file the entry reaches exactly once, under one name, however many
\* names lead to it; and there was no reason to refuse any of them.
BundleIsReachable ==
    phase = "run" =>
        /\ {modules[k].file : k \in DOMAIN modules} = Reachable
        /\ Len(modules) = Cardinality(Reachable)
        /\ \A f \in Reachable :
              f \notin broken /\ ~prog[f].dynamic /\ Entry \notin Requires(f)
        /\ strict => \A f \in Reachable : \A k \in DOMAIN prog[f].body :
              prog[f].body[k] \in Externals \/ FileOf[prog[f].body[k]] # NoFile

\* A bundle is refused for what the entry reaches, and for nothing else:
\* a broken file, a dynamic require or a require of the entry somewhere else in
\* the project stands in no program's way.
RefusalsAreJust ==
    /\ phase = "parse" => Reachable \cap broken # {}
    /\ phase = "dynamic" => \E f \in Reachable : prog[f].dynamic
    /\ phase = "entry_required" => \E f \in Reachable : Entry \in Requires(f)
    /\ phase = "unresolved" => strict /\ \E f \in Reachable :
          \E k \in DOMAIN prog[f].body : prog[f].body[k] \notin Externals /\ FileOf[prog[f].body[k]] = NoFile

\* A bundle is what its entry reaches, or is refused for what it reaches; and it
\* never misses a module at run time: no call of it, on any path the program
\* takes, asks the shim for a name that is not in the bundle or the host for a
\* file of the project.
BundleIsExact == BundleIsReachable /\ RefusalsAreJust /\ ~NotFound

\* In a program that gives each file one name, what the bundle does is what Lua
\* does with the files: the modules run in the same order under the same names,
\* each require returns the same value, and package.loaded holds the same,
\* through cycles, early publication, modules that return nothing or false, and
\* names the host has taken (the crate's "require semantics fidelity").  With
\* two names for a file Lua runs it twice and the bundle, by design, once.
OneName == \A f, g \in Files : \A k \in DOMAIN prog[f].body, l \in DOMAIN prog[g].body :
              LET m == prog[f].body[k]  n == prog[g].body[l] IN
              m # n => FileOf[m] # FileOf[n] \/ FileOf[m] = NoFile
ImplementsLua == [][OneName => Lua!Next]_<<prog, loaded, stack, last>>
=============================================================================
