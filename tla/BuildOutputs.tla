---------------------------- MODULE BuildOutputs ----------------------------
(***************************************************************************)
(* What luabox build (build_cmd.rs, modes.rs) leaves in its output         *)
(* directory, run after run: the check gate, then the artifacts of the     *)
(* mode, each of which may fail to be made or be written in part, while    *)
(* between runs the user edits the sources, adds and removes assets and    *)
(* drops or adds the flags.                                                *)
(***************************************************************************)
EXTENDS Naturals, Sequences

CONSTANTS Entries,  \* what is built, in order: entry points or source files
          NameOf,   \* the file name each is built to
          Assets,   \* files under assets/, and src/conf.lua
          ZipTools, \* what there is on the PATH from one build to the next, of
                    \* "zip", which updates an archive, and "python", which replaces it
          MaxMoves  \* bound on the user's moves

\* What the constants are.
BuildAssumption ==
    /\ Entries \in Seq(DOMAIN NameOf) /\ Entries # <<>>
    /\ ZipTools \subseteq {"zip", "python"} /\ MaxMoves \in Nat

Artifacts == {NameOf[Entries[k]] : k \in DOMAIN Entries}

VARIABLES mode,     \* "plain", "love" or "tree"
          source,   \* the version of each entry's sources
          broken,   \* whether check finds errors in them
          assets,   \* the assets there are
          wantsMap, \* whether --sourcemap is given
          moves,    \* the user's moves so far
          out,      \* the artifacts of the output directory
          map,      \* the source map beside each artifact
          archive,  \* the asset entries of the .love archive
          build     \* the run: where it is, what is left, whether anything failed

user    == <<mode, source, broken, assets, wantsMap, moves>>
outputs == <<out, map, archive>>
vars    == <<user, outputs, build>>

Nothing == [of |-> 0, version |-> 0, whole |-> FALSE]
Idle    == [pc |-> "idle", left |-> {}, failed |-> FALSE]

Init ==
    /\ mode \in {"plain", "love", "tree"}
    /\ source = [k \in DOMAIN Entries |-> 1]
    /\ broken = FALSE
    /\ assets \in IF mode = "love" THEN SUBSET Assets ELSE {{}}
    /\ wantsMap \in IF mode = "plain" THEN BOOLEAN ELSE {FALSE}
    /\ moves = 0
    /\ out = [a \in Artifacts |-> Nothing]
    /\ map = [a \in Artifacts |-> Nothing]
    /\ archive = {}
    /\ build = Idle

------------------------------------------------------------------------------
(***************************************************************************)
(* The user, between two runs.                                             *)
(***************************************************************************)
Edits ==
    /\ moves < MaxMoves /\ build.pc = "idle"
    /\ moves' = moves + 1 /\ UNCHANGED mode
    /\ \/ /\ \E k \in DOMAIN Entries : source' = [source EXCEPT ![k] = @ + 1]
          /\ broken' \in BOOLEAN
          /\ UNCHANGED <<assets, wantsMap>>
       \/ mode = "love" /\ assets' \in SUBSET Assets /\ UNCHANGED <<source, broken, wantsMap>>
       \/ mode = "plain" /\ wantsMap' = ~wantsMap /\ UNCHANGED <<source, broken, assets>>
    /\ UNCHANGED <<outputs, build>>

------------------------------------------------------------------------------
(***************************************************************************)
(* The run.                                                                *)
(***************************************************************************)
At(pc) == build.pc = pc
Asked  == IF mode = "love" THEN {1} ELSE DOMAIN Entries  \* .love takes one entry
Artifact(k) == NameOf[Entries[k]]
Built(k, whole) == [of |-> k, version |-> source[k], whole |-> whole]
Fail == build' = [build EXCEPT !.pc = "end", !.failed = TRUE]

\* check_gate: nothing is emitted while check reports errors.
Gate ==
    /\ At("idle")
    /\ build' = IF broken THEN [Idle EXCEPT !.pc = "end", !.failed = TRUE]
                ELSE [Idle EXCEPT !.pc = "emit", !.left = Asked]
    /\ UNCHANGED <<user, outputs>>

\* Bundling or lowering one artifact and writing it: in order, and the first
\* failure is the last step; in tree mode each file for itself.
Next1 == IF mode = "tree" THEN build.left
         ELSE {k \in build.left : \A j \in build.left : k <= j}
Emitted(k) == IF mode = "plain" /\ wantsMap THEN [build EXCEPT !.pc = "map", !.left = @ \ {k}]
              ELSE [build EXCEPT !.left = @ \ {k}]
Missed(k)  == IF mode = "tree" THEN [build EXCEPT !.left = @ \ {k}, !.failed = TRUE]
              ELSE [build EXCEPT !.pc = "end", !.failed = TRUE]

\* Mutant: an entry that cannot be bundled is left out.
EmitSkipping(k) ==
    /\ At("emit") /\ mode # "love" /\ k \in Next1
    /\ \/ out' = [out EXCEPT ![Artifact(k)] = Built(k, TRUE)] /\ build' = Emitted(k)
       \/ build' = [build EXCEPT !.left = @ \ {k}] /\ UNCHANGED out
    /\ UNCHANGED <<user, map, archive>>

Emit(k) ==
    /\ At("emit") /\ mode # "love" /\ k \in Next1
    /\ \/ out' = [out EXCEPT ![Artifact(k)] = Built(k, TRUE)] /\ build' = Emitted(k)
       \/ out' = [out EXCEPT ![Artifact(k)] = Built(k, FALSE)] /\ build' = Missed(k)
       \/ build' = Missed(k) /\ UNCHANGED out
    /\ UNCHANGED <<user, map, archive>>

\* The map of the bundle just written.
JustEmitted == CHOOSE k \in DOMAIN Entries \ build.left :
                  \A j \in DOMAIN Entries \ build.left : j <= k

EmitMap ==
    /\ At("map")
    /\ \/ /\ map' = [map EXCEPT ![Artifact(JustEmitted)] = Built(JustEmitted, TRUE)]
          /\ build' = [build EXCEPT !.pc = "emit"]
       \/ /\ map' = [map EXCEPT ![Artifact(JustEmitted)] = Built(JustEmitted, FALSE)]
          /\ Fail
    /\ UNCHANGED <<user, out, archive>>

\* The bundle and the assets are staged elsewhere and zipped: zip updates a
\* copy of the archive that was there, and has none of one cut short; python
\* writes the archive anew, in place.
Zips(tool) ==
    \/ /\ out' = [out EXCEPT ![Artifact(1)] = Built(1, TRUE)]
       /\ build' = [build EXCEPT !.left = {}]
       /\ \/ /\ tool = "zip" /\ (out[Artifact(1)].of = 0 \/ out[Artifact(1)].whole)
             /\ archive' = archive \cup assets
          \/ tool = "python" /\ archive' = assets
    \/ /\ tool = "python"
       /\ out' = [out EXCEPT ![Artifact(1)] = Built(1, FALSE)]
       /\ archive' = {}
       /\ Fail

\* emit_love: with the first tool there is, or with none.
Package ==
    /\ At("emit") /\ mode = "love" /\ build.left # {}
    /\ \/ \E tool \in ZipTools : Zips(tool)
       \/ Fail /\ UNCHANGED <<out, archive>>
    /\ UNCHANGED <<user, map>>

Ends ==
    /\ At("emit") /\ build.left = {}
    /\ build' = [build EXCEPT !.pc = "end"]
    /\ UNCHANGED <<user, outputs>>

\* The process exits.
Exits == At("end") /\ build' = Idle /\ UNCHANGED <<user, outputs>>

\* A signal, to the archiver too; a write under way may be cut short.
Kill ==
    /\ ~At("idle")
    /\ \/ UNCHANGED <<out, archive>>
       \/ /\ At("emit") /\ mode # "love"
          /\ \E k \in Next1 : out' = [out EXCEPT ![Artifact(k)] = Built(k, FALSE)]
          /\ UNCHANGED archive
       \/ /\ At("emit") /\ mode = "love" /\ build.left # {} /\ "python" \in ZipTools
          /\ out' = [out EXCEPT ![Artifact(1)] = Built(1, FALSE)]
          /\ archive' = {}
    /\ build' = Idle
    /\ UNCHANGED <<user, map>>

Next == \/ Edits \/ Gate \/ EmitMap \/ Package \/ Ends \/ Exits \/ Kill
        \/ \E k \in DOMAIN Entries : Emit(k)

Spec == Init /\ [][Next]_vars

------------------------------------------------------------------------------
(***************************************************************************)
(* Properties                                                              *)
(***************************************************************************)
Succeeded == At("end") /\ ~build.failed

\* Whatever earlier builds left half written, one that succeeds has every entry
\* in a file of its own, whole and of the sources as they are, with its map
\* when one is asked for ("a truncated artifact there is fixed by running the
\* command again"; "each entry point's static require graph is inlined into
\* one target-lowered file").
SuccessIsCurrent ==
    Succeeded => \A k \in Asked :
        /\ out[Artifact(k)] = Built(k, TRUE)
        /\ wantsMap /\ mode = "plain" => map[Artifact(k)] = Built(k, TRUE)

\* The archive a build leaves holds what the project has, src/conf.lua and the
\* assets, and nothing it had before ("when `src/conf.lua` exists it is bundled
\* separately"; "An `assets/` directory at the project root, if present, is
\* copied into the archive verbatim", modes.rs:21).
ArchiveIsTheProjects == Succeeded /\ mode = "love" => archive = assets
=============================================================================
