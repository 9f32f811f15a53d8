------------------------ MODULE ForeignLedger_proofs ------------------------
(***************************************************************************)
(* Proofs about the ledger of cross-file diagnostics, for any files,       *)
(* findings and answers of the workspace pass, where the client calls a    *)
(* file by the URI the server derives for it.                              *)
(***************************************************************************)
EXTENDS ForeignLedger, TLAPS

\* The inductive invariant.
IInv == TypeOK /\ PanelsCurrent

\* One pass, recorded and published: whatever the pass found, the paths whose
\* share of the workspace's answer moved are among those it restates.
Recording(s, ownHalf, foreign, ws, moved) ==
    /\ ownHalf \in SUBSET Findings
    /\ IsMap(foreign, Nonempty) /\ s \notin DOMAIN foreign
    /\ IsMap(ws, Nonempty)
    /\ moved \subseteq Paths
    /\ \A p \in Paths \ moved : GroupOf(ws, p) = GroupOf(workspace, p)
    /\ PublishRecorded(s, ownHalf, foreign, ws, moved)

------------------------------------------------------------------------------
\* The empty map.
LEMMA EmptyMap == IsMap(<<>>, Nonempty) /\ DOMAIN <<>> = {}
BY DEF IsMap

\* A group of findings by file is a map.
LEMMA GroupsAreMaps == \A g \in Groups : IsMap(g, Nonempty)
BY DEF Groups, IsMap

\* What a map holds is a set of findings.
LEMMA GroupType == \A m, p : IsMap(m, Nonempty) => GroupOf(m, p) \in SUBSET Findings
BY DEF GroupOf, IsMap, Nonempty

\* What dropping an entry does to a map.
LEMMA WithoutEntry ==
    \A map, s :
        /\ DOMAIN Without(map, s) = DOMAIN map \ {s}
        /\ \A q \in DOMAIN map \ {s} : Without(map, s)[q] = map[q]
        /\ \A V : IsMap(map, V) => IsMap(Without(map, s), V)
BY DEF Without, IsMap

\* What replacing an entry does to a map.
LEMMA WithEntry ==
    \A map, v, s :
        /\ DOMAIN With(map, s, v) = DOMAIN map \cup {s}
        /\ With(map, s, v)[s] = v
        /\ \A q \in DOMAIN map \ {s} : With(map, s, v)[q] = map[q]
        /\ \A V : s \in Paths /\ IsMap(map, V) /\ v \in V => IsMap(With(map, s, v), V)
BY DEF With, IsMap

\* What a pass leaves in the own halves.
LEMMA OwnAfter ==
    ASSUME TypeOK, NEW s \in Paths, NEW ownHalf, NEW foreign, NEW ws, NEW moved,
           Recording(s, ownHalf, foreign, ws, moved)
    PROVE  /\ IsMap(own', Nonempty)
           /\ \A p \in Paths : GroupOf(own', p) = IF p = s THEN ownHalf ELSE GroupOf(own, p)
<1>1. IsMap(own, Nonempty)
  BY DEF TypeOK
<1>2. CASE ownHalf = {}
  <2>1. own' = Without(own, s)
    BY <1>2 DEF Recording, PublishRecorded, Stored
  <2>2. IsMap(own', Nonempty)
    BY <1>1, <2>1, WithoutEntry
  <2>3. DOMAIN own' = DOMAIN own \ {s} /\ \A q \in DOMAIN own \ {s} : own'[q] = own[q]
    BY <2>1, WithoutEntry
  <2>4. QED
    BY <1>2, <2>2, <2>3 DEF GroupOf
<1>3. CASE ownHalf # {}
  <2>1. own' = With(own, s, ownHalf) /\ ownHalf \in Nonempty
    BY <1>3 DEF Recording, PublishRecorded, Stored, Nonempty
  <2>2. IsMap(own', Nonempty)
    BY <1>1, <2>1, WithEntry
  <2>3. /\ DOMAIN own' = DOMAIN own \cup {s} /\ own'[s] = ownHalf
        /\ \A q \in DOMAIN own \ {s} : own'[q] = own[q]
    BY <2>1 DEF With
  <2>4. QED
    BY <2>2, <2>3 DEF GroupOf
<1>4. QED
  BY <1>2, <1>3

\* What a pass leaves in the contributions.
LEMMA ContributionsAfter ==
    ASSUME TypeOK, NEW s \in Paths, NEW ownHalf, NEW foreign, NEW ws, NEW moved,
           Recording(s, ownHalf, foreign, ws, moved)
    PROVE  /\ DOMAIN contributions' = IF DOMAIN foreign = {} THEN DOMAIN contributions \ {s}
                                                              ELSE DOMAIN contributions \cup {s}
           /\ DOMAIN foreign # {} => contributions'[s] = foreign
           /\ \A q \in DOMAIN contributions \ {s} : contributions'[q] = contributions[q]
<1>1. CASE DOMAIN foreign = {}
  <2>1. contributions' = Without(contributions, s)
    BY <1>1 DEF Recording, PublishRecorded, Stored
  <2>2. QED
    BY <1>1, <2>1, WithoutEntry
<1>2. CASE DOMAIN foreign # {}
  <2>1. contributions' = With(contributions, s, foreign)
    BY <1>2 DEF Recording, PublishRecorded, Stored
  <2>2. /\ DOMAIN With(contributions, s, foreign) = DOMAIN contributions \cup {s}
        /\ With(contributions, s, foreign)[s] = foreign
        /\ \A q \in DOMAIN contributions \ {s} : With(contributions, s, foreign)[q] = contributions[q]
    BY DEF With
  <2>3. QED
    BY <1>2, <2>1, <2>2
<1>3. QED
  BY <1>1, <1>2

\* What a set published for a path is made of.
LEMMA PublishedHas ==
    \A o, c, w, p, x : x \in PublishedSet(o, c, w, p) <=>
        \/ x \in {p} \X GroupOf(o, p)
        \/ x \in {"workspace"} \X GroupOf(w, p)
        \/ \E q \in DOMAIN c : x \in {q} \X GroupOf(c[q], p)
BY DEF PublishedSet

\* A path the pass does not restate has the same published set as before.
LEMMA UnaffectedKeepsItsSet ==
    ASSUME TypeOK, NEW s \in Paths, NEW ownHalf, NEW foreign, NEW ws, NEW moved,
           Recording(s, ownHalf, foreign, ws, moved),
           NEW p \in Paths, p \notin Affected(s, foreign, moved)
    PROVE  PublishedSet(own', contributions', workspace', p) = PublishedSet(own, contributions, workspace, p)
<1>1. p # s /\ p \notin DOMAIN ContributedBy(s) /\ p \notin DOMAIN foreign /\ p \notin moved
  BY DEF Affected
<1>2. GroupOf(own', p) = GroupOf(own, p)
  BY <1>1, OwnAfter
<1>3. GroupOf(workspace', p) = GroupOf(workspace, p)
  BY <1>1 DEF Recording, PublishRecorded
<1>4. s \in DOMAIN contributions => GroupOf(contributions[s], p) = {}
  BY <1>1 DEF ContributedBy, GroupOf
<1>5. s \in DOMAIN contributions' => GroupOf(contributions'[s], p) = {}
  BY <1>1, ContributionsAfter DEF GroupOf
<1>6. \A q : q # s =>
         /\ q \in DOMAIN contributions' <=> q \in DOMAIN contributions
         /\ q \in DOMAIN contributions => contributions'[q] = contributions[q]
  BY ContributionsAfter
<1>7. ASSUME NEW x
      PROVE  (\E q \in DOMAIN contributions' : x \in {q} \X GroupOf(contributions'[q], p)) <=>
             (\E q \in DOMAIN contributions : x \in {q} \X GroupOf(contributions[q], p))
  <2>1. ASSUME NEW q \in DOMAIN contributions', x \in {q} \X GroupOf(contributions'[q], p)
        PROVE  q \in DOMAIN contributions /\ x \in {q} \X GroupOf(contributions[q], p)
    <3>1. q # s
      BY <1>5, <2>1
    <3>2. QED
      BY <1>6, <2>1, <3>1
  <2>2. ASSUME NEW q \in DOMAIN contributions, x \in {q} \X GroupOf(contributions[q], p)
        PROVE  q \in DOMAIN contributions' /\ x \in {q} \X GroupOf(contributions'[q], p)
    <3>1. q # s
      BY <1>4, <2>2
    <3>2. QED
      BY <1>6, <2>2, <3>1
  <2>3. QED
    BY <2>1, <2>2, Zenon
<1>8. ASSUME NEW x
      PROVE  x \in PublishedSet(own', contributions', workspace', p) <=>
             x \in PublishedSet(own, contributions, workspace, p)
  BY <1>2, <1>3, <1>7, PublishedHas
<1>9. QED
  BY <1>8

\* A path the pass restates shows its published set, and another one shows
\* what it showed: under one spelling no two paths share a document.
LEMMA ShownAfter ==
    ASSUME LedgerAssumption, SameSpelling, TypeOK, NEW s \in Paths, NEW ownHalf, NEW foreign, NEW ws, NEW moved,
           Recording(s, ownHalf, foreign, ws, moved), NEW p \in Paths
    PROVE  shown'[ClientUri[p]] = IF p \in Affected(s, foreign, moved)
                                  THEN PublishedSet(own', contributions', workspace', p)
                                  ELSE shown[ClientUri[p]]
<1> DEFINE affected == Affected(s, foreign, moved)
<1>1. shown' = [u \in Uris |->
                  IF \E q \in affected : UriFor(s, q) = u
                  THEN PublishedSet(own', contributions', workspace', CHOOSE q \in affected : UriFor(s, q) = u)
                  ELSE shown[u]]
  BY DEF Recording, PublishRecorded
<1>2. ClientUri[p] \in Uris
  BY DEF LedgerAssumption
<1>3. \A q \in Paths : UriFor(s, q) = ClientUri[p] <=> q = p
  BY DEF LedgerAssumption, SameSpelling, UriFor
<1>4. affected \subseteq Paths
  BY DEF Affected, Recording, IsMap, ContributedBy, TypeOK
<1> HIDE DEF affected
<1>5. CASE p \in affected
  <2>1. (CHOOSE q \in affected : UriFor(s, q) = ClientUri[p]) = p
    BY <1>3, <1>4, <1>5
  <2>2. \E q \in affected : UriFor(s, q) = ClientUri[p]
    BY <1>3, <1>5
  <2>3. QED
    BY <1>1, <1>2, <1>5, <2>1, <2>2 DEF affected
<1>6. CASE p \notin affected
  <2>1. ~ \E q \in affected : UriFor(s, q) = ClientUri[p]
    BY <1>3, <1>4, <1>6
  <2>2. QED
    BY <1>1, <1>2, <1>6, <2>1 DEF affected
<1>7. QED
  BY <1>5, <1>6

\* Every step of the specification is one recorded pass.
LEMMA EveryStepRecords ==
    ASSUME LedgerAssumption, TypeOK, Next
    PROVE  \E s \in Paths : \E ownHalf, foreign, ws, moved :
              Recording(s, ownHalf, foreign, ws, moved)
<1>1. ASSUME NEW s \in Paths, NEW ownHalf \in SUBSET Findings, NEW foreign,
             IsMap(foreign, Nonempty), s \notin DOMAIN foreign, Recomputed(s, ownHalf, foreign)
      PROVE  \E ws, moved : Recording(s, ownHalf, foreign, ws, moved)
  <2>1. PICK answer \in Answers :
            PublishRecorded(s, ownHalf, foreign, answer, DOMAIN workspace \cup DOMAIN answer)
    BY <1>1 DEF Recomputed
  <2>2. IsMap(answer, Nonempty)
    BY GroupsAreMaps DEF LedgerAssumption
  <2>3. DOMAIN workspace \cup DOMAIN answer \subseteq Paths
    BY <2>2 DEF TypeOK, IsMap
  <2>4. Recording(s, ownHalf, foreign, answer, DOMAIN workspace \cup DOMAIN answer)
    BY <1>1, <2>1, <2>2, <2>3 DEF Recording, GroupOf
  <2>5. QED
    BY <2>4
<1>2. ASSUME NEW s \in Paths, Skipped(s)
      PROVE  \E ws, moved : Recording(s, {}, <<>>, ws, moved)
  <2>1. Recording(s, {}, <<>>, workspace, {})
    BY <1>2, EmptyMap DEF Recording, Skipped, TypeOK
  <2>2. QED
    BY <2>1
<1>3. ASSUME NEW s \in Paths, PublishLua(s)
      PROVE  \E ownHalf, foreign, ws, moved : Recording(s, ownHalf, foreign, ws, moved)
  <2>1. CASE Skipped(s)
    BY <1>2, <2>1
  <2>2. ASSUME NEW ownHalf \in SUBSET Findings, NEW foreign \in ForeignOf(s), Recomputed(s, ownHalf, foreign)
        PROVE  \E ws, moved : Recording(s, ownHalf, foreign, ws, moved)
    BY <1>1, <2>2, GroupsAreMaps DEF ForeignOf
  <2>3. QED
    BY <1>3, <2>1, <2>2 DEF PublishLua
<1>4. ASSUME NEW s \in Paths, Recomputed(s, {}, <<>>)
      PROVE  \E ws, moved : Recording(s, {}, <<>>, ws, moved)
  BY <1>1, <1>4, EmptyMap
<1>5. PICK s \in Paths : PublishLua(s) \/ CloseScratch(s)
  BY DEF Next
<1>6. QED
  BY <1>3, <1>4, <1>5 DEF CloseScratch

------------------------------------------------------------------------------
\* A pass keeps every variable's type.
LEMMA PassKeepsType ==
    ASSUME TypeOK,
           NEW s \in Paths, NEW ownHalf, NEW foreign, NEW ws, NEW moved,
           Recording(s, ownHalf, foreign, ws, moved)
    PROVE  TypeOK'
<1>1. IsMap(own', Nonempty) /\ IsMap(workspace', Nonempty)
  BY OwnAfter DEF Recording, PublishRecorded
<1>2. DOMAIN contributions' \subseteq Paths
  BY ContributionsAfter DEF TypeOK
<1>3. \A q \in DOMAIN contributions' :
        IsMap(contributions'[q], Nonempty) /\ DOMAIN contributions'[q] # {} /\ q \notin DOMAIN contributions'[q]
  <2>1. IsMap(foreign, Nonempty) /\ s \notin DOMAIN foreign
    BY DEF Recording
  <2>2. \A q \in DOMAIN contributions' : q # s => q \in DOMAIN contributions /\ contributions'[q] = contributions[q]
    BY ContributionsAfter
  <2>3. s \in DOMAIN contributions' => contributions'[s] = foreign /\ DOMAIN foreign # {}
    BY ContributionsAfter
  <2>4. QED
    BY <2>1, <2>2, <2>3 DEF TypeOK
<1>4. \A p \in Paths : PublishedSet(own', contributions', workspace', p)
                          \in SUBSET ((Paths \cup {"workspace"}) \X Findings)
  <2> SUFFICES ASSUME NEW p \in Paths, NEW x \in PublishedSet(own', contributions', workspace', p)
               PROVE  x \in (Paths \cup {"workspace"}) \X Findings
    OBVIOUS
  <2>1. GroupOf(own', p) \in SUBSET Findings /\ GroupOf(workspace', p) \in SUBSET Findings
    BY <1>1, GroupType
  <2>2. \A q \in DOMAIN contributions' : GroupOf(contributions'[q], p) \in SUBSET Findings
    BY <1>3, GroupType
  <2>3. CASE x \in {p} \X GroupOf(own', p)
    BY <2>1, <2>3
  <2>4. CASE x \in {"workspace"} \X GroupOf(workspace', p)
    BY <2>1, <2>4
  <2>5. ASSUME NEW q \in DOMAIN contributions', x \in {q} \X GroupOf(contributions'[q], p)
        PROVE  x \in (Paths \cup {"workspace"}) \X Findings
    BY <1>2, <2>2, <2>5
  <2>6. QED
    BY <2>3, <2>4, <2>5, PublishedHas
<1>5. shown' \in [Uris -> SUBSET ((Paths \cup {"workspace"}) \X Findings)]
  <2> DEFINE affected == Affected(s, foreign, moved)
  <2>1. affected \subseteq Paths
    BY DEF Affected, Recording, IsMap, ContributedBy, TypeOK
  <2> HIDE DEF affected
  <2>2. \A u \in Uris : (\E p \in affected : UriFor(s, p) = u) =>
            (CHOOSE p \in affected : UriFor(s, p) = u) \in Paths
    BY <2>1
  <2>3. shown' = [u \in Uris |->
                   IF \E p \in affected : UriFor(s, p) = u
                   THEN PublishedSet(own', contributions', workspace', CHOOSE p \in affected : UriFor(s, p) = u)
                   ELSE shown[u]]
    BY DEF Recording, PublishRecorded, affected
  <2>4. QED
    BY <1>4, <2>2, <2>3 DEF TypeOK
<1>6. QED
  BY <1>1, <1>2, <1>3, <1>5 DEF TypeOK

\* After a pass every document shows what the ledger holds for it.
LEMMA PassKeepsPanelsCurrent ==
    ASSUME LedgerAssumption, SameSpelling, IInv, NEW s \in Paths, NEW ownHalf, NEW foreign, NEW ws, NEW moved,
           Recording(s, ownHalf, foreign, ws, moved)
    PROVE  PanelsCurrent'
<1> SUFFICES ASSUME NEW p \in Paths
             PROVE  shown'[ClientUri[p]] = PublishedSet(own', contributions', workspace', p)
  BY DEF PanelsCurrent
<1>1. CASE p \in Affected(s, foreign, moved)
  BY <1>1, ShownAfter DEF IInv
<1>2. CASE p \notin Affected(s, foreign, moved)
  BY <1>2, ShownAfter, UnaffectedKeepsItsSet DEF IInv, PanelsCurrent
<1>3. QED
  BY <1>1, <1>2

\* The ledger's groups, as the panels see them.
Latest == [q \in Paths |-> [p \in Paths |->
             IF p = q THEN GroupOf(own, p) ELSE GroupOf(ContributedBy(q), p)]]
WorkspaceShare == [p \in Paths |-> GroupOf(workspace, p)]

\* What the ledger publishes for every path is the panel of it.
PublishedArePanels ==
    \A p \in Paths : PublishedSet(own, contributions, workspace, p) = Panels!PanelOf(Latest, WorkspaceShare, p)

\* A set published for a path is the panel of it.
LEMMA PublishedIsPanel == TypeOK => PublishedArePanels
<1> SUFFICES ASSUME TypeOK, NEW p \in Paths, NEW x
             PROVE  x \in PublishedSet(own, contributions, workspace, p) <=>
                    x \in Panels!PanelOf(Latest, WorkspaceShare, p)
  BY DEF PublishedArePanels
<1>1. x \in Panels!PanelOf(Latest, WorkspaceShare, p) <=>
        \/ x \in {"workspace"} \X GroupOf(workspace, p)
        \/ \E q \in Paths : x \in {q} \X Latest[q][p]
  BY DEF Panels!PanelOf, WorkspaceShare
<1>2. Latest[p][p] = GroupOf(own, p)
  BY DEF Latest
<1>3. \A q \in Paths \ {p} : Latest[q][p] = GroupOf(ContributedBy(q), p)
  BY DEF Latest
<1>4. \A q \in Paths \ DOMAIN contributions : GroupOf(ContributedBy(q), p) = {}
  BY EmptyMap DEF ContributedBy, GroupOf
<1>5. DOMAIN contributions \subseteq Paths /\ (p \in DOMAIN contributions => GroupOf(contributions[p], p) = {})
  BY DEF TypeOK, GroupOf
<1>6. ASSUME NEW q \in DOMAIN contributions, x \in {q} \X GroupOf(contributions[q], p)
      PROVE  x \in {q} \X Latest[q][p]
  <2>1. q \in Paths /\ q # p
    BY <1>5, <1>6
  <2>2. GroupOf(ContributedBy(q), p) = GroupOf(contributions[q], p)
    BY DEF ContributedBy
  <2>3. QED
    BY <1>3, <1>6, <2>1, <2>2
<1>7. ASSUME NEW q \in Paths, x \in {q} \X Latest[q][p]
      PROVE  x \in {p} \X GroupOf(own, p) \/
             \E r \in DOMAIN contributions : x \in {r} \X GroupOf(contributions[r], p)
  <2>1. CASE q = p
    BY <1>2, <1>7, <2>1
  <2>2. CASE q # p
    <3>1. x \in {q} \X GroupOf(ContributedBy(q), p)
      BY <1>3, <1>7, <2>2
    <3>2. q \in DOMAIN contributions
      BY <1>4, <3>1
    <3>3. QED
      BY <3>1, <3>2 DEF ContributedBy
  <2>3. QED
    BY <2>1, <2>2
<1>8. x \in {p} \X GroupOf(own, p) => \E q \in Paths : x \in {q} \X Latest[q][p]
  BY <1>2
<1>9. (\E q \in DOMAIN contributions : x \in {q} \X GroupOf(contributions[q], p)) =>
         \E q \in Paths : x \in {q} \X Latest[q][p]
  BY <1>5, <1>6
<1>10. (\E q \in Paths : x \in {q} \X Latest[q][p]) =>
          \/ x \in {p} \X GroupOf(own, p)
          \/ \E r \in DOMAIN contributions : x \in {r} \X GroupOf(contributions[r], p)
  BY <1>7
<1>11. QED
  BY <1>1, <1>8, <1>9, <1>10, PublishedHas

\* The same, after a step.
LEMMA PublishedIsPanelAfter == TypeOK' => PublishedArePanels'
BY PublishedIsPanel, PTL

------------------------------------------------------------------------------
\* The ledger starts empty.
LEMMA InitEstablishes ==
    ASSUME LedgerAssumption, Init
    PROVE  IInv
<1>1. TypeOK
  BY EmptyMap DEF Init, TypeOK
<1>2. PanelsCurrent
  BY EmptyMap DEF LedgerAssumption, Init, PanelsCurrent, PublishedSet, GroupOf
<1>3. QED
  BY <1>1, <1>2 DEF IInv

\* Every step keeps the types.
LEMMA StepKeepsType ==
    ASSUME LedgerAssumption, TypeOK, [Next]_vars
    PROVE  TypeOK'
<1>1. CASE Next
  BY <1>1, EveryStepRecords, PassKeepsType
<1>2. CASE UNCHANGED vars
  BY <1>2 DEF vars, TypeOK
<1>3. QED
  BY <1>1, <1>2

\* Every step leaves every document showing what the ledger holds for it.
LEMMA StepKeepsPanelsCurrent ==
    ASSUME LedgerAssumption, SameSpelling, IInv, [Next]_vars
    PROVE  PanelsCurrent'
<1>1. CASE Next
  BY <1>1, EveryStepRecords, PassKeepsPanelsCurrent DEF IInv
<1>2. CASE UNCHANGED vars
  BY <1>2 DEF vars, IInv, PanelsCurrent
<1>3. QED
  BY <1>1, <1>2

\* Whatever the passes find, the maps stay pruned: no file keeps an entry it
\* has nothing in, and no contributor lists itself (server.rs record).
THEOREM TypeCorrect ==
    ASSUME LedgerAssumption
    PROVE  Spec => []TypeOK
<1>1. Init => TypeOK
  BY InitEstablishes DEF IInv
<1>2. TypeOK /\ [Next]_vars => TypeOK'
  BY StepKeepsType
<1>3. QED
  BY <1>1, <1>2, PTL DEF Spec

\* For any files, findings and order of passes, every document shows exactly
\* what the ledger holds for it, although a pass republishes only what it
\* believes it moved (server.rs ForeignLedger).
THEOREM PanelsStayCurrent ==
    ASSUME LedgerAssumption, SameSpelling
    PROVE  Spec => []PanelsCurrent
<1>1. Init => IInv
  BY InitEstablishes
<1>2. IInv /\ [Next]_vars => IInv'
  BY StepKeepsType, StepKeepsPanelsCurrent DEF IInv
<1>3. IInv => PanelsCurrent
  BY DEF IInv
<1>4. QED
  BY <1>1, <1>2, <1>3, PTL DEF Spec

\* A recorded pass is a pass of the panels that are refreshed wholesale.
LEMMA RecordingIsPass ==
    ASSUME SameSpelling, IInv, TypeOK', PanelsCurrent',
           NEW s \in Paths, NEW ownHalf, NEW foreign, NEW ws, NEW moved,
           Recording(s, ownHalf, foreign, ws, moved)
    PROVE  Panels!Pass(s)
<1>1. Latest' \in [Paths -> [Paths -> SUBSET Findings]]
  <2>1. \A p \in Paths : GroupOf(own', p) \in SUBSET Findings
    BY GroupType DEF TypeOK
  <2>2. \A q \in DOMAIN contributions' : \A p \in Paths : GroupOf(contributions'[q], p) \in SUBSET Findings
    BY GroupType DEF TypeOK
  <2>3. \A q, p \in Paths : GroupOf(ContributedBy(q)', p) \in SUBSET Findings
    BY <2>2, EmptyMap, GroupType DEF ContributedBy
  <2>4. QED
    BY <2>1, <2>3 DEF Latest
<1>2. \A q \in Paths \ {s} : Latest'[q] = Latest[q]
  <2>1. \A q \in Paths \ {s} : ContributedBy(q)' = ContributedBy(q)
    BY ContributionsAfter DEF ContributedBy, IInv
  <2>2. \A q \in Paths \ {s} : GroupOf(own', q) = GroupOf(own, q)
    BY OwnAfter DEF IInv
  <2>3. QED
    BY <2>1, <2>2 DEF Latest
<1>3. WorkspaceShare' \in [Paths -> SUBSET Findings]
  BY GroupType DEF TypeOK, WorkspaceShare
<1>4. \A p \in Paths : shown'[ClientUri[p]] = Panels!PanelOf(Latest', WorkspaceShare', p)
  BY PublishedIsPanelAfter DEF PublishedArePanels, PanelsCurrent
<1>5. QED
  BY <1>1, <1>2, <1>3, <1>4 DEF Panels!Pass, Panels!Groups, Latest, WorkspaceShare

\* What an editor shows is a function of the last pass over each file: the
\* incremental ledger implements the panels that every pass refreshes whole
\* (server.rs ForeignLedger).
THEOREM LedgerImplementsPanels ==
    ASSUME LedgerAssumption, SameSpelling
    PROVE  Spec => ImplementsPanels
<1>1. Init => Panels!Init
  BY EmptyMap DEF LedgerAssumption, Init, Panels!Init, GroupOf, ContributedBy
<1>2. IInv /\ IInv' /\ [Next]_vars => [Panels!Next]_(Panels!vars)
  <2> SUFFICES ASSUME IInv, IInv', [Next]_vars
               PROVE  [Panels!Next]_(Panels!vars)
    OBVIOUS
  <2>1. CASE Next
    BY <2>1, EveryStepRecords, RecordingIsPass DEF IInv, Panels!Next
  <2>2. CASE UNCHANGED vars
    BY <2>2 DEF vars, Panels!vars, ContributedBy
  <2>3. QED
    BY <2>1, <2>2
<1>3. Init => IInv
  BY InitEstablishes
<1>4. IInv /\ [Next]_vars => IInv'
  BY StepKeepsType, StepKeepsPanelsCurrent DEF IInv
<1>5. QED
  BY <1>1, <1>2, <1>3, <1>4, PTL
  DEF Spec, ImplementsPanels, Panels!Spec
=============================================================================
