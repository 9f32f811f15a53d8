------------------------- MODULE AnalysisHost_proofs -------------------------
(***************************************************************************)
(* Proofs about the analysis host, for any paths, texts and dialects and   *)
(* any number of edits.                                                    *)
(***************************************************************************)
EXTENDS AnalysisHost, TLAPS

\* An interned path has a dialect.
KnownHasDialect == \A p \in Paths : Known(p) => dialect[p] \in Dialects

\* A held snapshot was taken at or before the present revision.
HeldNotNewer == held # NoSnapshot => held.revision <= revision

\* What one edit must find and leave: the mirror and what makes it typed.
Mirror == TypeOK /\ KnownHasDialect /\ InputsMirrorVfs

\* The inductive invariant.
IInv == Mirror /\ HeldNotNewer /\ EqualRevisionSameWorld

------------------------------------------------------------------------------
\* A derived input is a well-typed one, and so is never the None value.
LEMMA InputOfType ==
    ASSUME HostAssumption, NEW d \in Layer, NEW o \in Layer, NEW dia \in Dialects
    PROVE  InputOf(d, o, dia) \in Inputs /\ InputOf(d, o, dia) # Absent
BY DEF HostAssumption, InputOf, EffectiveText, Layer, Inputs

\* A path has an input exactly when it is interned.
LEMMA KnownHasInput ==
    ASSUME HostAssumption, Mirror, NEW p \in Paths
    PROVE  Known(p) <=> inputs[p] # Absent
<1>1. CASE Known(p)
  <2>1. InputOf(disk[p], overlay[p], dialect[p]) # Absent
    BY <1>1, InputOfType DEF Mirror, TypeOK, KnownHasDialect
  <2>2. QED
    BY <1>1, <2>1 DEF Mirror, InputsMirrorVfs
<1>2. CASE ~Known(p)
  BY <1>2 DEF Mirror, InputsMirrorVfs
<1>3. QED
  BY <1>1, <1>2

\* Every change other than a strictness change is an Edit of one path.
LEMMA ApplyChangeCases ==
    ASSUME HostAssumption, Mirror, ApplyChange
    PROVE  \/ \E p \in Paths, d \in Layer, o \in Layer, dia \in Dialects :
                 Edit(p, d, o, dia)
           \/ \E s \in Levels : SetStrictness(s)
<1> DEFINE AnEdit == \E p \in Paths, d \in Layer, o \in Layer, dia \in Dialects :
                        Edit(p, d, o, dia)
<1>1. ASSUME NEW p \in Paths, NEW d \in Dialects
      PROVE  DialectSeed(p, d) \in Dialects
  BY DEF DialectSeed, Mirror, KnownHasDialect
<1>2. \A p \in Paths : disk[p] \in Layer /\ overlay[p] \in Layer
  BY DEF Mirror, TypeOK
<1>3. ASSUME NEW p \in Paths, NEW d \in Dialects, NEW t \in Texts, SetFileText(p, d, t)
      PROVE  AnEdit
  <2>1. t \in Layer
    BY DEF Layer
  <2>2. QED
    BY <1>1, <1>2, <1>3, <2>1 DEF SetFileText
<1>4. ASSUME NEW p \in Paths, NEW t \in Texts, SetOverlay(p, t)
      PROVE  AnEdit
  <2>1. t \in Layer /\ DefaultDialect \in Dialects
    BY DEF HostAssumption, Layer
  <2>2. QED
    BY <1>1, <1>2, <1>4, <2>1 DEF SetOverlay
<1>5. ASSUME NEW p \in Paths, ClearOverlay(p)
      PROVE  AnEdit
  <2>1. Absent \in Layer /\ dialect[p] \in Dialects
    BY <1>5 DEF Layer, ClearOverlay, Mirror, KnownHasDialect
  <2>2. QED
    BY <1>2, <1>5, <2>1 DEF ClearOverlay
<1>6. ASSUME NEW p \in Paths, NEW d \in Dialects, SetDialect(p, d)
      PROVE  AnEdit
  BY <1>2, <1>6 DEF SetDialect
<1>7. QED
  BY <1>3, <1>4, <1>5, <1>6 DEF ApplyChange

\* Interning a path makes exactly that path known as well.
LEMMA KnownAfterIntern ==
    ASSUME interned \in Seq(Paths), NEW p \in Paths,
           interned' = InternedWith(p)
    PROVE  /\ interned' \in Seq(Paths)
           /\ \A q \in Paths : Known(q)' <=> (Known(q) \/ q = p)
<1>1. CASE Known(p)
  BY <1>1 DEF InternedWith, Known
<1>2. CASE ~Known(p)
  <2>1. interned' = Append(interned, p)
    BY <1>2 DEF InternedWith
  <2>2. /\ interned' \in Seq(Paths)
        /\ Len(interned') = Len(interned) + 1
        /\ interned'[Len(interned) + 1] = p
        /\ \A i \in 1..Len(interned) : interned'[i] = interned[i]
    BY <2>1
  <2>3. Len(interned) \in Nat
    OBVIOUS
  <2>4. 1..Len(interned') = (1..Len(interned)) \cup {Len(interned) + 1}
    BY <2>2, <2>3
  <2>5. QED
    BY <2>2, <2>4 DEF Known
<1>3. QED
  BY <1>1, <1>2

\* An edit keeps the mirror exact.
LEMMA EditKeepsMirror ==
    ASSUME HostAssumption, Mirror,
           NEW p \in Paths, NEW d \in Layer, NEW o \in Layer, NEW dia \in Dialects,
           Edit(p, d, o, dia)
    PROVE  Mirror'
<1> DEFINE input == InputOf(d, o, dia)
<1>1. input \in Inputs /\ input # Absent
  BY InputOfType
<1>2. /\ inputs' = [inputs EXCEPT ![p] = input]
      /\ disk' = [disk EXCEPT ![p] = d]
      /\ overlay' = [overlay EXCEPT ![p] = o]
      /\ dialect' = [dialect EXCEPT ![p] = dia]
      /\ interned' = InternedWith(p)
      /\ strictness' = strictness /\ root' = root /\ held' = held
  BY DEF Edit, SyncFile
<1>3. /\ interned' \in Seq(Paths)
      /\ \A q \in Paths : Known(q)' <=> (Known(q) \/ q = p)
  BY <1>2, KnownAfterIntern DEF Mirror, TypeOK
<1>4. files' = interned'
  BY <1>2, KnownHasInput DEF Edit, SyncFile, InternedWith, Mirror, InputsMirrorVfs
<1>5. revision' \in Nat
  BY DEF Edit, SyncFile, Mirror, TypeOK
<1>6. TypeOK'
  BY <1>1, <1>2, <1>3, <1>4, <1>5 DEF Mirror, TypeOK
<1>7. KnownHasDialect'
  BY <1>2, <1>3 DEF Mirror, TypeOK, KnownHasDialect
<1>8. ASSUME NEW q \in Paths
      PROVE  inputs'[q] = IF Known(q)' THEN InputOf(disk'[q], overlay'[q], dialect'[q])
                                       ELSE Absent
  <2>1. CASE q = p
    BY <2>1, <1>2, <1>3 DEF Mirror, TypeOK
  <2>2. CASE q # p
    BY <2>2, <1>2, <1>3 DEF Mirror, TypeOK, InputsMirrorVfs
  <2>3. QED
    BY <2>1, <2>2
<1>9. InputsMirrorVfs'
  BY <1>4, <1>8 DEF InputsMirrorVfs
<1>10. QED
  BY <1>6, <1>7, <1>9 DEF Mirror

\* The counter never goes back, and stands still only over an edit that
\* wrote no input: this is what makes it a cache key.
LEMMA EditCounted ==
    ASSUME HostAssumption, Mirror,
           NEW p \in Paths, NEW d \in Layer, NEW o \in Layer, NEW dia \in Dialects,
           Edit(p, d, o, dia)
    PROVE  \/ revision' = revision + 1
           \/ revision' = revision /\ World' = World
<1>1. CASE inputs[p] = InputOf(d, o, dia)
  <2>1. inputs[p] # Absent
    BY <1>1, InputOfType
  <2>2. inputs' = inputs /\ files' = files /\ revision' = revision
    BY <1>1, <2>1 DEF Edit, SyncFile, Mirror, TypeOK
  <2>3. QED
    BY <2>2 DEF Edit, SyncFile, World
<1>2. CASE inputs[p] # InputOf(d, o, dia)
  BY <1>2 DEF Edit, SyncFile
<1>3. QED
  BY <1>1, <1>2

\* Every step that is not a snapshot keeps the held one and is counted when
\* it changes the world.
LEMMA CountedKeepsKey ==
    ASSUME Mirror, HeldNotNewer, EqualRevisionSameWorld, held' = held,
           \/ revision' = revision + 1
           \/ revision' = revision /\ World' = World
    PROVE  HeldNotNewer' /\ EqualRevisionSameWorld'
<1>1. revision \in Nat
  BY DEF Mirror, TypeOK
<1>2. CASE held = NoSnapshot
  BY <1>2 DEF HeldNotNewer, EqualRevisionSameWorld
<1>3. CASE held # NoSnapshot
  <2>1. held.revision \in Nat /\ held.revision <= revision
    BY <1>3 DEF Mirror, TypeOK, Snapshots, HeldNotNewer
  <2>2. CASE revision' = revision + 1
    BY <1>1, <2>1, <2>2 DEF HeldNotNewer, EqualRevisionSameWorld
  <2>3. CASE revision' = revision /\ World' = World
    BY <1>1, <2>1, <2>3 DEF HeldNotNewer, EqualRevisionSameWorld
  <2>4. QED
    BY <2>2, <2>3
<1>4. QED
  BY <1>2, <1>3

\* A host that has just been created: nothing is interned, nobody holds a
\* snapshot, and the invariant has nothing to say.
LEMMA InitEstablishes ==
    ASSUME HostAssumption, Init
    PROVE  IInv
<1> USE DEF HostAssumption, Init
<1>1. TypeOK
  BY DEF TypeOK, Layer, Inputs
<1>2. \A p \in Paths : ~Known(p)
  <2>1. Len(interned) = 0
    OBVIOUS
  <2>2. 1..0 = {}
    OBVIOUS
  <2>3. QED
    BY <2>1, <2>2 DEF Known
<1>3. KnownHasDialect /\ InputsMirrorVfs
  BY <1>2 DEF KnownHasDialect, InputsMirrorVfs
<1>4. HeldNotNewer /\ EqualRevisionSameWorld
  BY DEF HeldNotNewer, EqualRevisionSameWorld
<1>5. QED
  BY <1>1, <1>3, <1>4 DEF IInv, Mirror

\* An edit that changes nothing leaves all as it was; one that does, a sync of
\* the project, taking a snapshot and dropping one each keep the invariant.
LEMMA StepPreserves ==
    ASSUME HostAssumption, IInv, [Next]_vars
    PROVE  IInv'
<1> USE DEF IInv
<1>1. ASSUME NEW p \in Paths, NEW d \in Layer, NEW o \in Layer, NEW dia \in Dialects,
             Edit(p, d, o, dia)
      PROVE  IInv'
  <2>1. held' = held
    BY <1>1 DEF Edit, SyncFile
  <2>2. QED
    BY <1>1, <2>1, EditKeepsMirror, EditCounted, CountedKeepsKey
<1>2. ASSUME NEW s \in Levels, SetStrictness(s)
      PROVE  IInv'
  <2>1. Mirror'
    BY <1>2 DEF SetStrictness, Mirror, TypeOK, KnownHasDialect, InputsMirrorVfs, Known, vfs
  <2>2. \/ revision' = revision + 1
        \/ revision' = revision /\ World' = World
    BY <1>2 DEF SetStrictness, World
  <2>3. QED
    BY <1>2, <2>1, <2>2, CountedKeepsKey DEF SetStrictness
<1>3. ASSUME NEW r \in Roots, SetRoot(r)
      PROVE  IInv'
  <2>1. Mirror'
    BY <1>3 DEF SetRoot, Mirror, TypeOK, KnownHasDialect, InputsMirrorVfs, Known, vfs
  <2>2. QED
    BY <1>3, <2>1, CountedKeepsKey DEF SetRoot
<1>4. ASSUME Snapshot
      PROVE  IInv'
  <2>1. World \in Worlds
    BY DEF Mirror, TypeOK, World, Worlds
  <2>2. Mirror'
    BY <1>4, <2>1 DEF Snapshot, Mirror, TypeOK, KnownHasDialect, InputsMirrorVfs,
                      Known, vfs, salsa, Snapshots
  <2>3. HeldNotNewer' /\ EqualRevisionSameWorld'
    BY <1>4 DEF Snapshot, Mirror, TypeOK, HeldNotNewer, EqualRevisionSameWorld,
                World, salsa
  <2>4. QED
    BY <2>2, <2>3
<1>5. CASE UNCHANGED vars
  BY <1>5 DEF vars, vfs, salsa, Mirror, TypeOK, KnownHasDialect, InputsMirrorVfs,
              Known, HeldNotNewer, EqualRevisionSameWorld, World
<1>6. QED
  BY <1>1, <1>2, <1>3, <1>4, <1>5, ApplyChangeCases DEF Next

\* Hence the inductive invariant holds throughout.
LEMMA Invariance ==
    ASSUME HostAssumption
    PROVE  Spec => []IInv
<1>1. Init => IInv
  BY InitEstablishes
<1>2. IInv /\ [Next]_vars => IInv'
  BY StepPreserves
<1>3. QED
  BY <1>1, <1>2, PTL DEF Spec

------------------------------------------------------------------------------
\* Whatever the edits, every variable of the host keeps its type
\* (vfs.rs FileState, host.rs AnalysisHost).
THEOREM TypeCorrect ==
    ASSUME HostAssumption
    PROVE  Spec => []TypeOK
<1>1. IInv => TypeOK
  BY DEF IInv, Mirror
<1>2. QED
  BY <1>1, Invariance, PTL

\* Whatever the edits, the salsa inputs are the VFS's effective contents
\* (host.rs sync_file).
THEOREM MirrorExact ==
    ASSUME HostAssumption
    PROVE  Spec => []InputsMirrorVfs
<1>1. IInv => InputsMirrorVfs
  BY DEF IInv, Mirror
<1>2. QED
  BY <1>1, Invariance, PTL

\* Two snapshots of one revision saw the same inputs, however many edits and
\* reverts lie between them (host.rs Analysis::revision).
THEOREM CacheKeySound ==
    ASSUME HostAssumption
    PROVE  Spec => []EqualRevisionSameWorld
<1>1. IInv => EqualRevisionSameWorld
  BY DEF IInv
<1>2. QED
  BY <1>1, Invariance, PTL

\* The host implements the versioned world the language server caches by:
\* initial states map to initial states, each step to a write, a take or a
\* stutter.
THEOREM HostImplementsVersionedInputs ==
    ASSUME HostAssumption
    PROVE  Spec => ImplementsVersionedInputs
<1>1. Init => Promise!Init
  BY DEF Init, Promise!Init, World, InitialWorld
<1>2. IInv /\ IInv' /\ [Next]_vars => [Promise!Next]_(Promise!vars)
  <2> SUFFICES ASSUME IInv, IInv', [Next]_vars
               PROVE  Promise!Write \/ Promise!Take \/ UNCHANGED <<World, revision, held>>
    BY DEF Promise!Next, Promise!vars
  <2>1. World' \in Worlds
    BY DEF IInv, Mirror, TypeOK, World, Worlds
  <2>2. ASSUME NEW p \in Paths, NEW d \in Layer, NEW o \in Layer, NEW dia \in Dialects,
               Edit(p, d, o, dia)
        PROVE  Promise!Write \/ UNCHANGED <<World, revision, held>>
    <3>1. held' = held
      BY <2>2 DEF Edit, SyncFile
    <3>2. QED
      BY <2>1, <2>2, <3>1, EditCounted DEF IInv, Promise!Write
  <2>3. ASSUME NEW s \in Levels, SetStrictness(s)
        PROVE  Promise!Write \/ UNCHANGED <<World, revision, held>>
    BY <2>1, <2>3 DEF SetStrictness, Promise!Write, World
  <2>4. ASSUME NEW r \in Roots, SetRoot(r)
        PROVE  Promise!Write
    BY <2>1, <2>4 DEF SetRoot, Promise!Write
  <2>5. ASSUME Snapshot
        PROVE  Promise!Take
    BY <2>5 DEF Snapshot, Promise!Take, World, salsa
  <2>6. CASE UNCHANGED vars
    BY <2>6 DEF vars, salsa, World
  <2>7. QED
    BY <2>2, <2>3, <2>4, <2>5, <2>6, ApplyChangeCases DEF IInv, Next
<1>3. QED
  BY <1>1, <1>2, Invariance, PTL DEF Spec, ImplementsVersionedInputs, Promise!Spec
=============================================================================
