--------------------------- MODULE VersionedInputs ---------------------------
(***************************************************************************)
(* What the analysis host promises to whoever caches a value derived from  *)
(* a snapshot: an opaque world of inputs, a change counter, and snapshots  *)
(* that carry both.  Nothing is said of files, overlays or dialects: the   *)
(* concrete host (module AnalysisHost) implements this specification.      *)
(***************************************************************************)
EXTENDS Naturals

CONSTANTS Worlds,       \* every value the inputs can take together
          InitialWorld,
          NoSnapshot    \* no snapshot is held

VARIABLES world,      \* the inputs every query reads
          revision,   \* the change counter
          held        \* the snapshot a consumer derived its cached value from

vars == <<world, revision, held>>

Snapshots == [world: Worlds, revision: Nat]

Init ==
    /\ world = InitialWorld
    /\ revision = 0
    /\ held = NoSnapshot

\* An edit that changes what queries see always moves the counter.
Write ==
    /\ world' \in Worlds
    /\ revision' = revision + 1
    /\ UNCHANGED held

\* A consumer takes a snapshot and derives something from it.
Take ==
    /\ held' = [world |-> world, revision |-> revision]
    /\ UNCHANGED <<world, revision>>

Next == Write \/ Take

Spec == Init /\ [][Next]_vars
=============================================================================
