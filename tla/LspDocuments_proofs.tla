------------------------ MODULE LspDocuments_proofs ------------------------
(***************************************************************************)
(* Proofs about the documents, the disk and the configuration of a server, *)
(* for any number of files, texts and manifests and any number of moves,   *)
(* and what follows for its other parts from the proofs about each alone.  *)
(***************************************************************************)
EXTENDS ServerState, Integers, FiniteSetTheorems, WellFoundedInduction, TLAPS

\* What a cache holds under the counter as it stands is what a pass would find.
CachesTrue(s) ==
    /\ s.merged # None =>
          /\ s.merged.revision <= s.revision
          /\ s.merged.revision = s.revision =>
                s.merged.world = World(s) /\ s.merged.defs = s.config.defs
    /\ s.cycles # None =>
          /\ s.cycles.revision <= s.revision
          /\ s.cycles.revision = s.revision =>
                s.cycles.world = World(s) /\ s.cycles.strictness = s.config.strictness

\* The server between two of its handler's calls, and between two handlers.
Typed(s) == s \in Servers /\ KnownOnly(s)
Good(s)  == Typed(s) /\ CachesTrue(s) /\ s.hostStrictness = s.config.strictness

\* The workspace a slot should be derived from.
SlotOf(s) == [world |-> World(s), strictness |-> s.config.strictness]

\* An open document's overlay is its client's text.
OverlaysAreTheClients ==
    \A p \in server.openDocs : buffer[p] \in Texts /\ server.overlay[p] = buffer[p]

\* No document is open, and no event taken, before the index is read; a batch
\* that has moved anything will republish.
Phases ==
    /\ indexing # {} => server.openDocs = {} /\ before = None
    /\ \A p \in indexing : ~Known(server, p)
    /\ before = None => batch = <<>> /\ flags = {}
    /\ flags = {} /\ server.openDocs # {} => server.slot = SlotOf(server)
    /\ flags = {} /\ before # None => View(server) = before

\* The last event about a file tells whether it is there.
Names(e, p) == e.kind # "manifest" /\ e.path = p
Waits(q, p) == \E i \in 1..Len(q) : Names(q[i], p)
Last(q, i, p) == Names(q[i], p) /\ \A j \in (i + 1)..Len(q) : ~Names(q[j], p)
Tells(e, p) == e.kind = "deleted" <=> fs[p] = Absent

EventsTell ==
    /\ \A p \in Paths, i \in 1..Len(events) : Last(events, i, p) => Tells(events[i], p)
    /\ \A p \in Paths, i \in 1..Len(batch) : Last(batch, i, p) /\ ~Waits(events, p) => Tells(batch[i], p)
    /\ \A i \in 1..Len(events) : events[i].kind # "manifest" => events[i].path \in Paths
    /\ \A i \in 1..Len(batch) : batch[i].kind # "manifest" => batch[i].path \in Paths

\* A file the host has not read as it is on disk is still to be indexed, or
\* named by an event on its way; and so is an overlay that is nobody's.
Awaited(p) == Waits(events, p) \/ Waits(batch, p)
AsOnDisk(p) ==
    IF Known(server, p)
    THEN (IF server.disk[p] = Absent THEN EmptyText ELSE server.disk[p]) = DiskTextOf(p)
    ELSE fs[p] = Absent

DiskFollowed == \A p \in ProjectSources : p \in indexing \/ Awaited(p) \/ AsOnDisk(p)
OverlaysOwned ==
    \A p \in Paths : server.overlay[p] # Absent => p \in server.openDocs \cup edited \/ Awaited(p)

IInv == TypeOK /\ Good(server) /\ OverlaysAreTheClients /\ Phases
               /\ EventsTell /\ DiskFollowed /\ OverlaysOwned

------------------------------------------------------------------------------
(* The server's functions.                                                 *)

\* What a pass reads is made of four fields.
LEMMA SameWorld ==
    ASSUME NEW s, NEW t, s.disk = t.disk, s.overlay = t.overlay,
           s.dialectOf = t.dialectOf, s.hostStrictness = t.hostStrictness
    PROVE  World(s) = World(t)
BY DEF World, Known, EffectiveText

\* The text of a known file is a text.
LEMMA TextType ==
    ASSUME NEW s \in Servers, NEW p \in Paths
    PROVE  EffectiveText(s, p) \in Texts
BY DocumentsAssumption DEF Servers, EffectiveText, Layer

\* What a pass reads is a world, and what it looks at a view.
LEMMA WorldType ==
    ASSUME NEW s \in Servers
    PROVE  World(s) \in Worlds /\ View(s) \in Views
<1> DEFINE S == {q \in Paths : Known(s, q)}
           f == [p \in S |-> [text |-> EffectiveText(s, p), dialect |-> s.dialectOf[p]]]
<1>1. \A p \in S : EffectiveText(s, p) \in Texts /\ s.dialectOf[p] \in Dialects
  BY TextType DEF Servers, Known
<1>2. f \in [S -> [text : Texts, dialect : Dialects]] /\ S \in SUBSET Paths
  BY <1>1
<1>3. f \in UNION {[R -> [text : Texts, dialect : Dialects]] : R \in SUBSET Paths}
  BY <1>2
<1>4. World(s) \in Worlds
  BY <1>3 DEF World, Worlds, Servers
<1>5. QED
  BY <1>4 DEF View, Views, Servers, Levels, Packages

\* Writes to the host leave the rest of the server alone, and move the counter
\* if they move the world.
HostMoves(s, t) ==
    /\ Typed(t)
    /\ t.config = s.config /\ t.openDocs = s.openDocs
    /\ t.merged = s.merged /\ t.cycles = s.cycles /\ t.slot = s.slot /\ t.checked = s.checked
    /\ \/ t.revision = s.revision /\ World(t) = World(s)
       \/ t.revision > s.revision

\* The counter of a change.
LEMMA CountedMoves ==
    ASSUME NEW s \in Servers, NEW t \in Servers, t.revision = s.revision
    PROVE  /\ Counted(s, t) \in Servers
           /\ Counted(s, t).disk = t.disk /\ Counted(s, t).overlay = t.overlay
           /\ Counted(s, t).dialectOf = t.dialectOf /\ Counted(s, t).hostStrictness = t.hostStrictness
           /\ Counted(s, t).config = t.config /\ Counted(s, t).openDocs = t.openDocs
           /\ Counted(s, t).merged = t.merged /\ Counted(s, t).cycles = t.cycles
           /\ Counted(s, t).slot = t.slot /\ Counted(s, t).checked = t.checked
           /\ IF World(s) = World(t) THEN Counted(s, t).revision = s.revision
                                     ELSE Counted(s, t).revision = s.revision + 1
           /\ World(Counted(s, t)) = World(t)
<1> DEFINE r == Counted(s, t)
<1>1. /\ r \in Servers
      /\ r.disk = t.disk /\ r.overlay = t.overlay
      /\ r.dialectOf = t.dialectOf /\ r.hostStrictness = t.hostStrictness
      /\ r.config = t.config /\ r.openDocs = t.openDocs
      /\ r.merged = t.merged /\ r.cycles = t.cycles
      /\ r.slot = t.slot /\ r.checked = t.checked
      /\ IF World(s) = World(t) THEN r.revision = s.revision ELSE r.revision = s.revision + 1
  BY DEF Counted, Servers
<1> HIDE DEF r
<1>2. World(r) = World(t)
  BY <1>1, SameWorld
<1>3. QED
  BY <1>1, <1>2 DEF r

\* Change::SetFileText.
LEMMA SetFileTextMoves ==
    ASSUME NEW s, Typed(s), NEW p \in Paths, NEW x \in Layer
    PROVE  /\ HostMoves(s, SetFileText(s, p, x)) /\ Known(SetFileText(s, p, x), p)
           /\ SetFileText(s, p, x).disk = [s.disk EXCEPT ![p] = x]
           /\ SetFileText(s, p, x).overlay = s.overlay
           /\ SetFileText(s, p, x).hostStrictness = s.hostStrictness
           /\ \A q \in Paths : q # p => SetFileText(s, p, x).dialectOf[q] = s.dialectOf[q]
<1> DEFINE t == [s EXCEPT !.disk[p] = x, !.dialectOf[p] = IF Known(s, p) THEN @ ELSE s.config.dialect]
<1>1. s \in Servers /\ KnownOnly(s)
  BY DEF Typed
<1>2. s.config.dialect \in Dialects /\ Absent \notin Dialects
  BY <1>1, DocumentsAssumption DEF Servers, Dialects
<1>3. /\ t \in Servers /\ t.revision = s.revision
      /\ t.disk = [s.disk EXCEPT ![p] = x] /\ t.overlay = s.overlay
      /\ t.hostStrictness = s.hostStrictness /\ t.config = s.config /\ t.openDocs = s.openDocs
      /\ t.merged = s.merged /\ t.cycles = s.cycles /\ t.slot = s.slot /\ t.checked = s.checked
      /\ \A q \in Paths : q # p => t.dialectOf[q] = s.dialectOf[q]
      /\ t.dialectOf[p] # Absent
  BY <1>1, <1>2 DEF Servers, Known
<1>4. SetFileText(s, p, x) = Counted(s, t)
  BY DEF SetFileText
<1> HIDE DEF t
<1> DEFINE r == SetFileText(s, p, x)
<1>5. /\ r \in Servers /\ r.disk = t.disk /\ r.overlay = t.overlay
      /\ r.dialectOf = t.dialectOf /\ r.hostStrictness = t.hostStrictness
      /\ r.config = t.config /\ r.openDocs = t.openDocs
      /\ r.merged = t.merged /\ r.cycles = t.cycles /\ r.slot = t.slot /\ r.checked = t.checked
      /\ \/ r.revision = s.revision /\ World(r) = World(s)
         \/ r.revision > s.revision
  BY <1>1, <1>3, <1>4, CountedMoves DEF Servers
<1> HIDE DEF r
<1>6. KnownOnly(r)
  BY <1>1, <1>3, <1>5 DEF KnownOnly, Known, Servers
<1>7. QED
  BY <1>3, <1>5, <1>6 DEF HostMoves, Typed, Known, r

\* Change::SetOverlay.
LEMMA SetOverlayMoves ==
    ASSUME NEW s, Typed(s), NEW p \in Paths, NEW x \in Texts
    PROVE  /\ HostMoves(s, SetOverlay(s, p, x)) /\ Known(SetOverlay(s, p, x), p)
           /\ SetOverlay(s, p, x).disk = s.disk
           /\ SetOverlay(s, p, x).overlay = [s.overlay EXCEPT ![p] = x]
           /\ SetOverlay(s, p, x).hostStrictness = s.hostStrictness
           /\ \A q \in Paths : q # p => SetOverlay(s, p, x).dialectOf[q] = s.dialectOf[q]
<1> DEFINE t == [s EXCEPT !.overlay[p] = x,
                          !.dialectOf[p] = IF Known(s, p) THEN @ ELSE FirstManifest.dialect]
<1>1. s \in Servers /\ KnownOnly(s)
  BY DEF Typed
<1>2. FirstManifest.dialect \in Dialects /\ Absent \notin Dialects
  BY DocumentsAssumption DEF Dialects
<1>3. /\ t \in Servers /\ t.revision = s.revision
      /\ t.disk = s.disk /\ t.overlay = [s.overlay EXCEPT ![p] = x]
      /\ t.hostStrictness = s.hostStrictness /\ t.config = s.config /\ t.openDocs = s.openDocs
      /\ t.merged = s.merged /\ t.cycles = s.cycles /\ t.slot = s.slot /\ t.checked = s.checked
      /\ \A q \in Paths : q # p => t.dialectOf[q] = s.dialectOf[q]
      /\ t.dialectOf[p] # Absent
  BY <1>1, <1>2 DEF Servers, Known, Layer
<1>4. SetOverlay(s, p, x) = Counted(s, t)
  BY DEF SetOverlay
<1> HIDE DEF t
<1> DEFINE r == SetOverlay(s, p, x)
<1>5. /\ r \in Servers /\ r.disk = t.disk /\ r.overlay = t.overlay
      /\ r.dialectOf = t.dialectOf /\ r.hostStrictness = t.hostStrictness
      /\ r.config = t.config /\ r.openDocs = t.openDocs
      /\ r.merged = t.merged /\ r.cycles = t.cycles /\ r.slot = t.slot /\ r.checked = t.checked
      /\ \/ r.revision = s.revision /\ World(r) = World(s)
         \/ r.revision > s.revision
  BY <1>1, <1>3, <1>4, CountedMoves DEF Servers
<1> HIDE DEF r
<1>6. KnownOnly(r)
  BY <1>1, <1>3, <1>5 DEF KnownOnly, Known, Servers
<1>7. QED
  BY <1>3, <1>5, <1>6 DEF HostMoves, Typed, Known, r

\* Change::ClearOverlay.
LEMMA ClearOverlayMoves ==
    ASSUME NEW s, Typed(s), NEW p \in Paths
    PROVE  /\ HostMoves(s, ClearOverlay(s, p))
           /\ ClearOverlay(s, p).disk = s.disk
           /\ ClearOverlay(s, p).overlay = [s.overlay EXCEPT ![p] = Absent]
           /\ ClearOverlay(s, p).hostStrictness = s.hostStrictness
           /\ ClearOverlay(s, p).dialectOf = s.dialectOf
<1>1. s \in Servers /\ KnownOnly(s)
  BY DEF Typed
<1>2. CASE ~Known(s, p)
  <2>1. ClearOverlay(s, p) = s
    BY <1>2 DEF ClearOverlay
  <2>2. s.overlay = [s.overlay EXCEPT ![p] = Absent]
    BY <1>1, <1>2 DEF KnownOnly, Servers
  <2>3. QED
    BY <1>1, <2>1, <2>2 DEF HostMoves, Typed
<1>3. CASE Known(s, p)
  <2> DEFINE t == [s EXCEPT !.overlay[p] = Absent]
  <2>1. /\ t \in Servers /\ t.revision = s.revision
        /\ t.disk = s.disk /\ t.overlay = [s.overlay EXCEPT ![p] = Absent]
        /\ t.dialectOf = s.dialectOf
        /\ t.hostStrictness = s.hostStrictness /\ t.config = s.config /\ t.openDocs = s.openDocs
        /\ t.merged = s.merged /\ t.cycles = s.cycles /\ t.slot = s.slot /\ t.checked = s.checked
    BY <1>1 DEF Servers, Layer
  <2>2. ClearOverlay(s, p) = Counted(s, t)
    BY <1>3 DEF ClearOverlay
  <2> HIDE DEF t
  <2> DEFINE r == ClearOverlay(s, p)
  <2>3. /\ r \in Servers /\ r.disk = t.disk /\ r.overlay = t.overlay
        /\ r.dialectOf = t.dialectOf /\ r.hostStrictness = t.hostStrictness
        /\ r.config = t.config /\ r.openDocs = t.openDocs
        /\ r.merged = t.merged /\ r.cycles = t.cycles /\ r.slot = t.slot /\ r.checked = t.checked
        /\ \/ r.revision = s.revision /\ World(r) = World(s)
           \/ r.revision > s.revision
    BY <1>1, <2>1, <2>2, CountedMoves DEF Servers
  <2> HIDE DEF r
  <2>4. KnownOnly(r)
    BY <1>1, <2>1, <2>3 DEF KnownOnly, Known, Servers
  <2>5. QED
    BY <2>1, <2>3, <2>4 DEF HostMoves, Typed, r
<1>4. QED
  BY <1>2, <1>3

\* Change::SetStrictness: the counter moves with the level.
LEMMA SetStrictnessMoves ==
    ASSUME NEW s, Typed(s), NEW level \in Levels
    PROVE  /\ HostMoves(s, SetStrictness(s, level))
           /\ SetStrictness(s, level).disk = s.disk
           /\ SetStrictness(s, level).overlay = s.overlay
           /\ SetStrictness(s, level).dialectOf = s.dialectOf
           /\ SetStrictness(s, level).hostStrictness = level
           /\ level # s.hostStrictness => SetStrictness(s, level).revision > s.revision
<1> DEFINE t == [s EXCEPT !.hostStrictness = level]
<1>1. s \in Servers /\ KnownOnly(s)
  BY DEF Typed
<1>2. /\ t \in Servers /\ t.revision = s.revision
      /\ t.disk = s.disk /\ t.overlay = s.overlay /\ t.dialectOf = s.dialectOf
      /\ t.hostStrictness = level /\ t.config = s.config /\ t.openDocs = s.openDocs
      /\ t.merged = s.merged /\ t.cycles = s.cycles /\ t.slot = s.slot /\ t.checked = s.checked
  BY <1>1 DEF Servers
<1>3. SetStrictness(s, level) = Counted(s, t)
  BY DEF SetStrictness
<1> HIDE DEF t
<1>4. level # s.hostStrictness => World(s) # World(t)
  BY <1>2 DEF World
<1> DEFINE r == SetStrictness(s, level)
<1>5. /\ r \in Servers /\ r.disk = t.disk /\ r.overlay = t.overlay
      /\ r.dialectOf = t.dialectOf /\ r.hostStrictness = t.hostStrictness
      /\ r.config = t.config /\ r.openDocs = t.openDocs
      /\ r.merged = t.merged /\ r.cycles = t.cycles /\ r.slot = t.slot /\ r.checked = t.checked
      /\ \/ r.revision = s.revision /\ World(r) = World(s) /\ World(s) = World(t)
         \/ r.revision > s.revision
  BY <1>1, <1>2, <1>3, CountedMoves DEF Servers
<1> HIDE DEF r
<1>6. KnownOnly(r)
  BY <1>1, <1>2, <1>5 DEF KnownOnly, Known, Servers
<1>7. QED
  BY <1>2, <1>4, <1>5, <1>6 DEF HostMoves, Typed, r

\* Change::SetDialect of every known file.
LEMMA SetDialectsMoves ==
    ASSUME NEW s, Typed(s), NEW d \in Dialects
    PROVE  /\ HostMoves(s, SetDialects(s, d))
           /\ SetDialects(s, d).disk = s.disk
           /\ SetDialects(s, d).overlay = s.overlay
           /\ \A p \in Paths : Known(SetDialects(s, d), p) <=> Known(s, p)
           /\ SetDialects(s, d).hostStrictness = s.hostStrictness
<1> DEFINE moved == {p \in Paths : Known(s, p) /\ s.dialectOf[p] # d}
           r == SetDialects(s, d)
<1>1. s \in Servers /\ KnownOnly(s) /\ d # Absent
  BY DocumentsAssumption DEF Typed
<1>2. IsFiniteSet(moved)
  BY DocumentsAssumption, FS_Subset
<1>3. Cardinality(moved) \in Nat /\ (Cardinality(moved) = 0 <=> moved = {})
  BY <1>2, FS_CardinalityType, FS_EmptySet
<1> DEFINE now == [p \in Paths |-> IF p \in moved THEN d ELSE s.dialectOf[p]]
           count == s.revision + Cardinality(moved)
<1>4. r = [s EXCEPT !.dialectOf = now, !.revision = count]
  BY DEF SetDialects
<1>5. moved \subseteq Paths /\ \A p \in moved : Known(s, p)
  OBVIOUS
<1> HIDE DEF moved, r
<1>6. /\ now \in [Paths -> Dialects \cup {Absent}]
      /\ \A p \in Paths : now[p] = IF p \in moved THEN d ELSE s.dialectOf[p]
      /\ count \in Nat
  BY <1>1, <1>3 DEF Servers
<1> HIDE DEF now, count
<1>7. /\ r \in Servers /\ r.revision = count /\ r.dialectOf = now
      /\ r.disk = s.disk /\ r.overlay = s.overlay
      /\ r.hostStrictness = s.hostStrictness /\ r.config = s.config /\ r.openDocs = s.openDocs
      /\ r.merged = s.merged /\ r.cycles = s.cycles /\ r.slot = s.slot /\ r.checked = s.checked
  BY <1>1, <1>4, <1>6 DEF Servers
<1>8. \A p \in Paths : Known(r, p) <=> Known(s, p)
  BY <1>1, <1>5, <1>6, <1>7 DEF Known
<1>9. KnownOnly(r)
  BY <1>1, <1>6, <1>7, <1>8 DEF KnownOnly
<1>10. CASE moved = {}
  <2>1. r.dialectOf = s.dialectOf
    BY <1>1, <1>6, <1>7, <1>10 DEF Servers
  <2>2. World(r) = World(s) /\ r.revision = s.revision
    BY <1>1, <1>3, <1>7, <1>10, <2>1, SameWorld DEF Servers, count
  <2>3. QED
    BY <1>6, <1>7, <1>8, <1>9, <2>2 DEF HostMoves, Typed, r
<1>11. CASE moved # {}
  <2>1. r.revision > s.revision
    BY <1>1, <1>3, <1>7, <1>11 DEF Servers, count
  <2>2. QED
    BY <1>6, <1>7, <1>8, <1>9, <2>1 DEF HostMoves, Typed, r
<1>12. QED
  BY <1>10, <1>11

\* Writes to the host may follow one another, and no cache survives one that
\* moves the world.
LEMMA MovesCompose ==
    ASSUME NEW s, NEW t, NEW u, s \in Servers, HostMoves(s, t), HostMoves(t, u)
    PROVE  HostMoves(s, u)
BY DEF HostMoves, Typed, Servers

\* No cache survives a write that moves the world, and the others stay true.
LEMMA MovesKeepCaches ==
    ASSUME NEW s, NEW t, s \in Servers, CachesTrue(s), HostMoves(s, t)
    PROVE  CachesTrue(t)
BY DEF HostMoves, Typed, Servers, CachesTrue

\* Between two writes the server is what a handler may find.
LEMMA MovesKeepGood ==
    ASSUME NEW s, NEW t, Good(s), HostMoves(s, t), t.hostStrictness = s.hostStrictness
    PROVE  Good(t)
BY MovesKeepCaches DEF Good, Typed, HostMoves

------------------------------------------------------------------------------
(* Passes and reloads.                                                     *)

\* Nothing but the host and its counter tells a pass what to look at.
SameHost(s, t) ==
    /\ t.disk = s.disk /\ t.overlay = s.overlay /\ t.dialectOf = s.dialectOf
    /\ t.hostStrictness = s.hostStrictness /\ t.revision = s.revision
    /\ t.config = s.config /\ t.openDocs = s.openDocs

\* So two servers with one host look at one thing.
LEMMA SameHostSameView ==
    ASSUME NEW s, NEW t, SameHost(s, t)
    PROVE  World(t) = World(s) /\ View(t) = View(s) /\ SlotOf(t) = SlotOf(s)
<1>1. World(t) = World(s)
  BY SameWorld DEF SameHost
<1>2. QED
  BY <1>1 DEF SameHost, View, SlotOf

\* A cache that is served, or built, holds what there is.
LEMMA CachesServeTheWorld ==
    ASSUME NEW s, Good(s)
    PROVE  /\ MergedAmbient(s) \in [revision : Nat, world : Worlds, defs : Packages]
           /\ MergedAmbient(s).revision = s.revision
           /\ MergedAmbient(s).world = World(s) /\ MergedAmbient(s).defs = s.config.defs
           /\ CyclePass(s) \in [revision : Nat, world : Worlds, strictness : Levels]
           /\ CyclePass(s).revision = s.revision
           /\ CyclePass(s).world = World(s) /\ CyclePass(s).strictness = s.config.strictness
<1>1. s \in Servers /\ World(s) \in Worlds
  BY WorldType DEF Good, Typed
<1>2. s.config.defs \in Packages /\ s.config.strictness \in Levels
  BY <1>1 DEF Servers, Packages, Levels
<1>3. /\ MergedAmbient(s) \in [revision : Nat, world : Worlds, defs : Packages]
      /\ MergedAmbient(s).revision = s.revision
      /\ MergedAmbient(s).world = World(s) /\ MergedAmbient(s).defs = s.config.defs
  BY <1>1, <1>2 DEF Good, CachesTrue, MergedAmbient, Fresh, Servers
<1>4. /\ CyclePass(s) \in [revision : Nat, world : Worlds, strictness : Levels]
      /\ CyclePass(s).revision = s.revision
      /\ CyclePass(s).world = World(s) /\ CyclePass(s).strictness = s.config.strictness
  BY <1>1, <1>2 DEF Good, CachesTrue, CyclePass, Fresh, Servers
<1>5. QED
  BY <1>3, <1>4

\* Passes leave the caches true, the slot and every file they checked current.
LEMMA PublishFacts ==
    ASSUME NEW s, Good(s), NEW ps \in SUBSET Paths
    PROVE  /\ Good(PublishLua(s, ps)) /\ SameHost(s, PublishLua(s, ps))
           /\ ps = {} => PublishLua(s, ps) = s
           /\ ps # {} => PublishLua(s, ps).slot = SlotOf(s)
           /\ \A p \in ps : PublishLua(s, ps).checked[p] = View(s)
<1>1. CASE ps = {}
  BY <1>1 DEF PublishLua, SameHost
<1>2. CASE ps # {}
  <2> DEFINE m    == MergedAmbient(s)
             c    == CyclePass(s)
             seen == [world |-> m.world, defs |-> m.defs, strictness |-> s.config.strictness]
             slot == [world |-> c.world, strictness |-> c.strictness]
             all  == [p \in Paths |-> IF p \in ps THEN seen ELSE s.checked[p]]
             t    == [s EXCEPT !.merged = m, !.cycles = c, !.checked = all, !.slot = slot]
  <2>1. s \in Servers /\ KnownOnly(s) /\ View(s) \in Views
    BY WorldType DEF Good, Typed
  <2>2. PublishLua(s, ps) = t
    BY <1>2 DEF PublishLua
  <2>3. seen = View(s) /\ slot = SlotOf(s)
    BY CachesServeTheWorld DEF View, SlotOf
  <2>4. all \in [Paths -> Views \cup {None}] /\ \A p \in ps : all[p] = View(s)
    BY <2>1, <2>3 DEF Servers
  <2>5. slot \in [world : Worlds, strictness : Levels]
    BY <2>1, <2>3 DEF SlotOf, View, Views
  <2>6. /\ m \in [revision : Nat, world : Worlds, defs : Packages]
        /\ m.revision = s.revision /\ m.world = World(s) /\ m.defs = s.config.defs
        /\ c \in [revision : Nat, world : Worlds, strictness : Levels]
        /\ c.revision = s.revision /\ c.world = World(s) /\ c.strictness = s.config.strictness
    BY CachesServeTheWorld
  <2> HIDE DEF m, c, seen, slot, all
  <2>7. /\ t \in Servers /\ SameHost(s, t)
        /\ t.merged = m /\ t.cycles = c /\ t.checked = all /\ t.slot = slot
    BY <2>1, <2>4, <2>5, <2>6 DEF Servers, SameHost
  <2> HIDE DEF t
  <2>8. World(t) = World(s)
    BY <2>7, SameHostSameView
  <2>9. Good(t)
    BY <2>1, <2>6, <2>7, <2>8 DEF Good, Typed, KnownOnly, Known, CachesTrue, SameHost, Servers
  <2>10. QED
    BY <1>2, <2>2, <2>3, <2>4, <2>7, <2>9
<1>3. QED
  BY <1>1, <1>2

\* The close of a buffer with no file behind it.
LEMMA ClearedScratchFacts ==
    ASSUME NEW s, Good(s), NEW p \in Paths
    PROVE  /\ Good(ClearedScratch(s, p)) /\ SameHost(ClearOverlay(s, p), ClearedScratch(s, p))
           /\ ClearedScratch(s, p).slot = SlotOf(ClearedScratch(s, p))
<1> DEFINE t == ClearOverlay(s, p)
           c == CyclePass(t)
           slot == [world |-> c.world, strictness |-> c.strictness]
           r == [t EXCEPT !.cycles = c, !.checked[p] = None, !.slot = slot]
<1>1. HostMoves(s, t) /\ t.hostStrictness = s.hostStrictness
  BY ClearOverlayMoves DEF Good
<1>2. Good(t)
  BY <1>1, MovesKeepGood
<1>3. /\ c \in [revision : Nat, world : Worlds, strictness : Levels]
      /\ c.revision = t.revision /\ c.world = World(t) /\ c.strictness = t.config.strictness
  BY <1>2, CachesServeTheWorld
<1>4. slot = SlotOf(t) /\ slot \in [world : Worlds, strictness : Levels]
  BY <1>3 DEF SlotOf
<1>5. ClearedScratch(s, p) = r
  BY DEF ClearedScratch
<1>6. t \in Servers /\ KnownOnly(t)
  BY <1>2 DEF Good, Typed
<1> HIDE DEF t, c, slot
<1>7. /\ r \in Servers /\ SameHost(t, r)
      /\ r.merged = t.merged /\ r.cycles = c /\ r.slot = slot
  BY <1>3, <1>4, <1>6 DEF Servers, SameHost
<1> HIDE DEF r
<1>8. World(r) = World(t) /\ SlotOf(r) = SlotOf(t)
  BY <1>7, SameHostSameView
<1>9. Good(r)
  BY <1>2, <1>3, <1>6, <1>7, <1>8 DEF Good, Typed, KnownOnly, Known, CachesTrue, SameHost, Servers
<1>10. QED
  BY <1>4, <1>5, <1>7, <1>8, <1>9 DEF t

\* A reload leaves the texts alone and the caches true, though it moves what
\* the counter cannot see.
LEMMA ReloadFacts ==
    ASSUME NEW s, Good(s), NEW m \in Manifests
    PROVE  /\ Good(ReloadConfig(s, m))
           /\ ReloadConfig(s, m).disk = s.disk /\ ReloadConfig(s, m).overlay = s.overlay
           /\ ReloadConfig(s, m).openDocs = s.openDocs
           /\ \A p \in Paths : Known(ReloadConfig(s, m), p) <=> Known(s, p)
           /\ s.openDocs # {} => ReloadConfig(s, m).slot = SlotOf(ReloadConfig(s, m))
           /\ \A p \in s.openDocs : ReloadConfig(s, m).checked[p] = View(ReloadConfig(s, m))
<1> DEFINE t == InstallConfig(s, m)
           u == IF m.strictness # s.config.strictness THEN SetStrictness(t, m.strictness) ELSE t
           v == IF m.dialect # s.config.dialect THEN SetDialects(u, m.dialect) ELSE u
           r == ReloadConfig(s, m)
<1>1. s \in Servers /\ KnownOnly(s) /\ CachesTrue(s) /\ s.hostStrictness = s.config.strictness
  BY DEF Good, Typed
<1>2. m.dialect \in Dialects /\ m.strictness \in Levels
  BY DEF Dialects, Levels
<1>3. r = PublishLua(v, v.openDocs)
  BY DEF ReloadConfig, RepublishOpenDocs, SyncHost
<1>4. /\ t \in Servers
      /\ t.disk = s.disk /\ t.overlay = s.overlay /\ t.dialectOf = s.dialectOf
      /\ t.hostStrictness = s.hostStrictness /\ t.revision = s.revision
      /\ t.openDocs = s.openDocs /\ t.config = m /\ t.merged = None /\ t.cycles = s.cycles
  BY <1>1 DEF InstallConfig, Servers
<1> HIDE DEF t
<1>5. World(t) = World(s) /\ Typed(t)
  BY <1>1, <1>4, SameWorld DEF Typed, KnownOnly, Known
<1>6. /\ HostMoves(t, u) /\ u.hostStrictness = m.strictness
      /\ u.disk = s.disk /\ u.overlay = s.overlay /\ u.dialectOf = s.dialectOf
      /\ m.strictness # s.config.strictness => u.revision > t.revision
  <2>1. CASE m.strictness # s.config.strictness
    BY <1>1, <1>2, <1>4, <1>5, <2>1, SetStrictnessMoves
  <2>2. CASE m.strictness = s.config.strictness
    BY <1>1, <1>4, <1>5, <2>2 DEF HostMoves
  <2>3. QED
    BY <2>1, <2>2
<1> HIDE DEF u
<1>7. /\ HostMoves(u, v) /\ v.hostStrictness = m.strictness
      /\ v.disk = s.disk /\ v.overlay = s.overlay
      /\ \A p \in Paths : Known(v, p) <=> Known(s, p)
  <2>1. Typed(u)
    BY <1>6 DEF HostMoves
  <2>2. \A p \in Paths : Known(u, p) <=> Known(s, p)
    BY <1>6 DEF Known
  <2>3. CASE m.dialect # s.config.dialect
    <3>1. /\ HostMoves(u, v) /\ v.hostStrictness = u.hostStrictness
          /\ v.disk = u.disk /\ v.overlay = u.overlay
          /\ \A p \in Paths : Known(v, p) <=> Known(u, p)
      BY <1>2, <2>1, <2>3, SetDialectsMoves
    <3>2. QED
      BY <1>6, <2>2, <3>1
  <2>4. CASE m.dialect = s.config.dialect
    BY <1>6, <2>1, <2>2, <2>4 DEF HostMoves
  <2>5. QED
    BY <2>3, <2>4
<1> HIDE DEF v
<1>8. CachesTrue(u)
  BY <1>1, <1>4, <1>5, <1>6 DEF CachesTrue, HostMoves, Typed, Servers
<1>9. Good(v) /\ v.openDocs = s.openDocs
  <2>1. CachesTrue(v)
    BY <1>6, <1>7, <1>8, MovesKeepCaches DEF HostMoves, Typed
  <2>2. QED
    BY <1>4, <1>6, <1>7, <2>1 DEF Good, HostMoves
<1>10. v.openDocs \in SUBSET Paths
  BY <1>9 DEF Good, Typed, Servers
<1>11. /\ Good(r) /\ SameHost(v, r)
       /\ v.openDocs # {} => r.slot = SlotOf(v)
       /\ \A p \in v.openDocs : r.checked[p] = View(v)
  BY <1>3, <1>9, <1>10, PublishFacts
<1> HIDE DEF r
<1>12. View(r) = View(v) /\ SlotOf(r) = SlotOf(v)
  BY <1>11, SameHostSameView
<1>13. QED
  BY <1>7, <1>9, <1>11, <1>12 DEF SameHost, Known, r

\* An authoritative text from the disk.
LEMMA DiskTextFacts ==
    ASSUME NEW s, Good(s), NEW p \in Paths, NEW x \in Texts
    PROVE  /\ Good(DiskText(s, p, x)) /\ Known(DiskText(s, p, x), p)
           /\ DiskText(s, p, x).disk = [s.disk EXCEPT ![p] = x]
           /\ DiskText(s, p, x).overlay = IF p \in s.openDocs THEN s.overlay
                                          ELSE [s.overlay EXCEPT ![p] = Absent]
           /\ DiskText(s, p, x).openDocs = s.openDocs
           /\ \A q \in Paths : q # p => (Known(DiskText(s, p, x), q) <=> Known(s, q))
<1> DEFINE t == SetFileText(s, p, x)
           u == RetireOrphanOverlay(t, p)
           r == DiskText(s, p, x)
<1>1. x \in Layer /\ Typed(s)
  BY DEF Layer, Good
<1>2. /\ HostMoves(s, t) /\ Known(t, p) /\ t.disk = [s.disk EXCEPT ![p] = x]
      /\ t.overlay = s.overlay /\ t.hostStrictness = s.hostStrictness
      /\ \A q \in Paths : q # p => t.dialectOf[q] = s.dialectOf[q]
  BY <1>1, SetFileTextMoves
<1>3. Good(t)
  BY <1>2, MovesKeepGood
<1>4. r = PublishLua(u, {p} \ s.openDocs)
  BY DEF DiskText
<1> HIDE DEF t
<1>5. /\ Good(u) /\ u.disk = t.disk /\ u.openDocs = t.openDocs /\ u.dialectOf = t.dialectOf
      /\ u.overlay = IF p \in t.openDocs THEN t.overlay ELSE [t.overlay EXCEPT ![p] = Absent]
  <2>1. CASE p \in t.openDocs
    BY <1>3, <2>1 DEF RetireOrphanOverlay
  <2>2. CASE p \notin t.openDocs
    <3>1. /\ HostMoves(t, u) /\ u.disk = t.disk /\ u.hostStrictness = t.hostStrictness
          /\ u.overlay = [t.overlay EXCEPT ![p] = Absent] /\ u.dialectOf = t.dialectOf
      BY <1>3, <2>2, ClearOverlayMoves DEF RetireOrphanOverlay, Good
    <3>2. Good(u)
      BY <1>3, <3>1, MovesKeepGood
    <3>3. QED
      BY <2>2, <3>1, <3>2 DEF HostMoves
  <2>3. QED
    BY <2>1, <2>2
<1> HIDE DEF u
<1>6. {p} \ s.openDocs \in SUBSET Paths
  OBVIOUS
<1>7. Good(r) /\ SameHost(u, r)
  BY <1>4, <1>5, <1>6, PublishFacts
<1>8. QED
  BY <1>2, <1>5, <1>7 DEF SameHost, HostMoves, Known, r

------------------------------------------------------------------------------
(* Events.                                                                 *)

\* A further event, and one less.
LEMMA Appending ==
    ASSUME NEW q \in Seq(Events), NEW e \in Events, NEW p
    PROVE  /\ Waits(Append(q, e), p) <=> Waits(q, p) \/ Names(e, p)
           /\ \A i \in 1..Len(Append(q, e)) :
                 Last(Append(q, e), i, p) =>
                    IF i = Len(q) + 1 THEN Append(q, e)[i] = e /\ Names(e, p)
                    ELSE i \in 1..Len(q) /\ Append(q, e)[i] = q[i] /\ Last(q, i, p) /\ ~Names(e, p)
<1> DEFINE r == Append(q, e)
<1>1. /\ r \in Seq(Events) /\ Len(r) = Len(q) + 1 /\ Len(q) \in Nat
      /\ \A i \in 1..Len(q) : r[i] = q[i]
      /\ r[Len(q) + 1] = e
  OBVIOUS
<1> HIDE DEF r
<1>2. Waits(r, p) <=> Waits(q, p) \/ Names(e, p)
  <2>1. ASSUME Waits(r, p) PROVE Waits(q, p) \/ Names(e, p)
    BY <1>1, <2>1 DEF Waits
  <2>2. ASSUME Waits(q, p) PROVE Waits(r, p)
    BY <1>1, <2>2 DEF Waits
  <2>3. ASSUME Names(e, p) PROVE Waits(r, p)
    BY <1>1, <2>3 DEF Waits
  <2>4. QED
    BY <2>1, <2>2, <2>3
<1>3. ASSUME NEW i \in 1..Len(r), Last(r, i, p)
      PROVE  IF i = Len(q) + 1 THEN r[i] = e /\ Names(e, p)
             ELSE i \in 1..Len(q) /\ r[i] = q[i] /\ Last(q, i, p) /\ ~Names(e, p)
  <2>1. CASE i = Len(q) + 1
    BY <1>1, <1>3, <2>1 DEF Last
  <2>2. CASE i # Len(q) + 1
    BY <1>1, <1>3, <2>2 DEF Last
  <2>3. QED
    BY <2>1, <2>2
<1>4. QED
  BY <1>2, <1>3 DEF r

\* The first event is taken: the others keep their order, and the last of them
\* is the last.
LEMMA TakingTheFirst ==
    ASSUME NEW q \in Seq(Events), q # <<>>, NEW p
    PROVE  /\ Waits(q, p) <=> Names(Head(q), p) \/ Waits(Tail(q), p)
           /\ \A i \in 1..Len(Tail(q)) :
                 i + 1 \in 1..Len(q) /\ Tail(q)[i] = q[i + 1] /\ (Last(Tail(q), i, p) => Last(q, i + 1, p))
           /\ Names(Head(q), p) /\ ~Waits(Tail(q), p) => Last(q, 1, p)
<1> DEFINE r == Tail(q)
<1>1. /\ r \in Seq(Events) /\ Len(q) = Len(r) + 1 /\ Len(r) \in Nat
      /\ \A i \in 1..Len(r) : r[i] = q[i + 1]
      /\ Head(q) = q[1]
  OBVIOUS
<1> HIDE DEF r
<1>2. \A i \in 2..Len(q) : i - 1 \in 1..Len(r) /\ r[i - 1] = q[i]
  BY <1>1
<1>3. Waits(q, p) <=> Names(Head(q), p) \/ Waits(r, p)
  <2>1. ASSUME Waits(q, p) PROVE Names(Head(q), p) \/ Waits(r, p)
    <3>1. PICK i \in 1..Len(q) : Names(q[i], p)
      BY <2>1 DEF Waits
    <3>2. CASE i = 1
      BY <1>1, <3>1, <3>2
    <3>3. CASE i # 1
      BY <1>1, <1>2, <3>1, <3>3 DEF Waits
    <3>4. QED
      BY <3>2, <3>3
  <2>2. ASSUME Waits(r, p) PROVE Waits(q, p)
    BY <1>1, <2>2 DEF Waits
  <2>3. ASSUME Names(Head(q), p) PROVE Waits(q, p)
    BY <1>1, <2>3 DEF Waits
  <2>4. QED
    BY <2>1, <2>2, <2>3
<1>4. ASSUME NEW i \in 1..Len(r), Last(r, i, p)
      PROVE  Last(q, i + 1, p)
  <2>1. ASSUME NEW j \in (i + 2)..Len(q)
        PROVE  ~Names(q[j], p)
    <3>1. j - 1 \in (i + 1)..Len(r) /\ r[j - 1] = q[j]
      BY <1>1, <1>2
    <3>2. QED
      BY <1>4, <3>1 DEF Last
  <2>2. QED
    BY <1>1, <1>4, <2>1 DEF Last
<1>5. ASSUME Names(Head(q), p), ~Waits(r, p)
      PROVE  Last(q, 1, p)
  <2>1. ASSUME NEW j \in 2..Len(q)
        PROVE  ~Names(q[j], p)
    BY <1>1, <1>2, <1>5 DEF Waits
  <2>2. QED
    BY <1>1, <1>5, <2>1 DEF Last
<1>6. QED
  BY <1>1, <1>3, <1>4, <1>5 DEF r

------------------------------------------------------------------------------
\* A new session has read nothing.
LEMMA InitEstablishes == Init => IInv
<1> SUFFICES ASSUME Init
             PROVE  IInv
  OBVIOUS
<1>1. /\ fs \in [Paths -> Layer] /\ manifest = FirstManifest
      /\ buffer = [p \in Paths |-> Absent] /\ edited = {} /\ events = <<>> /\ batch = <<>>
      /\ flags = {} /\ before = None /\ steps = 0
      /\ indexing = {p \in ProjectSources : fs[p] # Absent}
  BY DEF Init
<1>2. /\ server.disk = [p \in Paths |-> Absent]
      /\ server.overlay = [p \in Paths |-> Absent]
      /\ server.dialectOf = [p \in Paths |-> Absent]
      /\ server.hostStrictness = FirstManifest.strictness
      /\ server.config = FirstManifest /\ server.openDocs = {}
      /\ server.merged = None /\ server.cycles = None
      /\ server \in Servers
  BY DocumentsAssumption DEF Init, Servers, Layer, Levels
<1>3. KnownOnly(server)
  BY <1>2 DEF KnownOnly
<1>4. TypeOK
  <2>1. events \in Seq(Events) /\ batch \in Seq(Events)
    BY <1>1
  <2>2. QED
    BY <1>1, <1>2, <1>3, <2>1, DocumentsAssumption DEF TypeOK, Layer
<1>5. Good(server)
  BY <1>2, <1>3 DEF Good, Typed, CachesTrue
<1>6. OverlaysAreTheClients /\ OverlaysOwned
  BY <1>2 DEF OverlaysAreTheClients, OverlaysOwned
<1>7. Phases
  BY <1>1, <1>2, DocumentsAssumption DEF Phases, Known
<1>8. EventsTell
  BY <1>1 DEF EventsTell
<1>9. DiskFollowed
  BY <1>1, <1>2, DocumentsAssumption DEF DiskFollowed, AsOnDisk, Known
<1>10. QED
  BY <1>4, <1>5, <1>6, <1>7, <1>8, <1>9 DEF IInv

------------------------------------------------------------------------------
(* The invariant survives every step.                                      *)

\* What the handlers rely on.
LEMMA Held ==
    IInv => /\ server \in Servers /\ KnownOnly(server) /\ Good(server) /\ Typed(server)
            /\ server.openDocs \subseteq Paths /\ indexing \subseteq Paths
            /\ fs \in [Paths -> Layer] /\ buffer \in [Paths -> Layer]
            /\ manifest \in Manifests
BY DocumentsAssumption DEF IInv, TypeOK, Good, Typed, Servers

\* A state in which neither the disk nor the events about it have moved.
LEMMA SameEvents ==
    ASSUME IInv, fs' = fs, events' = events, batch' = batch
    PROVE  EventsTell' /\ \A p \in Paths : Awaited(p)' <=> Awaited(p)
<1>1. EventsTell'
  BY DEF IInv, EventsTell, Tells
<1>2. QED
  BY <1>1 DEF Awaited

\* bootstrap.
LEMMA BootstrapKeeps ==
    ASSUME IInv, NEW p \in Paths, Bootstrap(p)
    PROVE  IInv'
<1>1. /\ p \in indexing /\ indexing' = indexing \ {p}
      /\ server' = IF fs[p] = Absent THEN server ELSE SetFileText(server, p, fs[p])
      /\ fs' = fs /\ manifest' = manifest /\ buffer' = buffer /\ edited' = edited /\ events' = events
      /\ batch' = batch /\ flags' = flags /\ before' = before /\ steps' = steps
  BY DEF Bootstrap, environment
<1>2. server.openDocs = {} /\ before = None /\ batch = <<>> /\ flags = {} /\ ~Known(server, p)
  BY <1>1 DEF IInv, Phases
<1>3. /\ Good(server') /\ server'.openDocs = {} /\ server'.overlay = server.overlay
      /\ \A q \in Paths : q # p => /\ server'.disk[q] = server.disk[q]
                                   /\ Known(server', q) <=> Known(server, q)
      /\ IF fs[p] = Absent THEN ~Known(server', p) ELSE Known(server', p) /\ server'.disk[p] = fs[p]
  <2>1. CASE fs[p] = Absent
    BY <1>1, <1>2, <2>1, Held
  <2>2. CASE fs[p] # Absent
    <3> DEFINE t == SetFileText(server, p, fs[p])
    <3>1. /\ HostMoves(server, t) /\ Known(t, p) /\ t.disk = [server.disk EXCEPT ![p] = fs[p]]
          /\ t.overlay = server.overlay /\ t.hostStrictness = server.hostStrictness
          /\ \A q \in Paths : q # p => t.dialectOf[q] = server.dialectOf[q]
      BY Held, SetFileTextMoves
    <3>2. Good(t)
      BY <3>1, Held, MovesKeepGood
    <3>3. server' = t
      BY <1>1, <2>2
    <3> HIDE DEF t
    <3>4. QED
      BY <1>2, <2>2, <3>1, <3>2, <3>3, Held DEF HostMoves, Known, Servers
  <2>3. QED
    BY <2>1, <2>2
<1>4. TypeOK'
  BY <1>1, <1>3 DEF IInv, TypeOK, Good, Typed
<1>5. Phases'
  BY <1>1, <1>2, <1>3, Held DEF IInv, Phases
<1>6. EventsTell' /\ \A q \in Paths : Awaited(q)' <=> Awaited(q)
  BY <1>1, SameEvents
<1>7. DiskFollowed'
  <2>1. ASSUME NEW q \in ProjectSources
        PROVE  (q \in indexing \/ Awaited(q) \/ AsOnDisk(q))'
    <3>1. q \in Paths
      BY DocumentsAssumption
    <3>2. CASE q = p
      BY <1>1, <1>3, <3>1, <3>2, DocumentsAssumption, Held DEF AsOnDisk, DiskTextOf
    <3>3. CASE q # p
      BY <1>1, <1>3, <1>6, <3>1, <3>3 DEF IInv, DiskFollowed, AsOnDisk, DiskTextOf
    <3>4. QED
      BY <3>2, <3>3
  <2>2. QED
    BY <2>1 DEF DiskFollowed
<1>8. OverlaysAreTheClients' /\ OverlaysOwned'
  BY <1>1, <1>2, <1>3, <1>6 DEF IInv, OverlaysAreTheClients, OverlaysOwned
<1>9. QED
  BY <1>3, <1>4, <1>5, <1>6, <1>7, <1>8 DEF IInv

\* The event of a move is the last of its file.
LEMMA MovedEvents ==
    ASSUME IInv, NEW e \in Events, events' = Append(events, e), batch' = batch,
           e.kind # "manifest" => e.path \in Paths /\ Tells(e, e.path)',
           \A p \in Paths : ~Names(e, p) => fs'[p] = fs[p]
    PROVE  /\ EventsTell'
           /\ \A p \in Paths : Awaited(p)' <=> Awaited(p) \/ Names(e, p)
<1>1. events \in Seq(Events) /\ batch \in Seq(Events)
  BY DEF IInv, TypeOK
<1>2. \A p : Waits(events', p) <=> Waits(events, p) \/ Names(e, p)
  BY <1>1, Appending
<1>3. \A p \in Paths : Awaited(p)' <=> Awaited(p) \/ Names(e, p)
  BY <1>2 DEF Awaited
<1>4. ASSUME NEW p \in Paths, NEW i \in 1..Len(events'), Last(events', i, p)
      PROVE  Tells(events[i], p)'
  <2>1. CASE i = Len(events) + 1
    <3>1. events'[i] = e /\ Names(e, p)
      BY <1>1, <1>4, <2>1, Appending
    <3>2. QED
      BY <3>1 DEF Names, Tells
  <2>2. CASE i # Len(events) + 1
    <3>1. i \in 1..Len(events) /\ events'[i] = events[i] /\ Last(events, i, p) /\ ~Names(e, p)
      BY <1>1, <1>4, <2>2, Appending
    <3>2. Tells(events[i], p) /\ fs'[p] = fs[p]
      BY <3>1 DEF IInv, EventsTell
    <3>3. QED
      BY <3>1, <3>2 DEF Tells
  <2>3. QED
    BY <2>1, <2>2
<1>5. ASSUME NEW p \in Paths, NEW i \in 1..Len(batch), Last(batch, i, p), ~Waits(events', p)
      PROVE  Tells(batch[i], p)'
  <2>1. ~Waits(events, p) /\ fs'[p] = fs[p]
    BY <1>2, <1>5
  <2>2. Tells(batch[i], p)
    BY <1>5, <2>1 DEF IInv, EventsTell
  <2>3. QED
    BY <2>1, <2>2 DEF Tells
<1>6. ASSUME NEW i \in 1..Len(events'), events'[i].kind # "manifest"
      PROVE  events'[i].path \in Paths
  <2>1. CASE i = Len(events) + 1
    BY <1>1, <1>6, <2>1
  <2>2. CASE i # Len(events) + 1
    BY <1>1, <1>6, <2>2 DEF IInv, EventsTell
  <2>3. QED
    BY <2>1, <2>2
<1>7. EventsTell'
  BY <1>4, <1>5, <1>6 DEF IInv, EventsTell
<1>8. QED
  BY <1>3, <1>7

\* Another program's move, and its event.
LEMMA DiskMovesKeeps ==
    ASSUME IInv, NEW p \in Paths, NEW t \in Layer, DiskMoves(p, t)
    PROVE  IInv'
<1> DEFINE e == [kind |-> IF t = Absent THEN "deleted" ELSE "changed", path |-> p]
<1>1. /\ steps < MaxSteps /\ steps' = steps + 1 /\ fs' = [fs EXCEPT ![p] = t]
      /\ edited' = edited \ {p} /\ events' = Append(events, e)
      /\ manifest' = manifest /\ buffer' = buffer
      /\ batch' = batch /\ flags' = flags /\ before' = before /\ indexing' = indexing /\ server' = server
  BY DEF DiskMoves, Step
<1>2. e \in Events /\ e.path = p /\ e.kind # "manifest" /\ (e.kind = "deleted" <=> t = Absent)
  BY DEF Events
<1> HIDE DEF e
<1>3. Names(e, p) /\ \A q \in Paths : ~Names(e, q) => fs'[q] = fs[q]
  BY <1>1, <1>2, Held DEF Names
<1>4. Tells(e, p)'
  BY <1>1, <1>2, Held DEF Tells
<1>5. EventsTell' /\ \A q \in Paths : Awaited(q)' <=> Awaited(q) \/ Names(e, q)
  BY <1>1, <1>2, <1>3, <1>4, MovedEvents
<1>6. TypeOK'
  <2>1. events' \in Seq(Events)
    BY <1>1, <1>2 DEF IInv, TypeOK
  <2>2. steps' \in 0..MaxSteps
    BY <1>1, DocumentsAssumption DEF IInv, TypeOK
  <2>3. QED
    BY <1>1, <2>1, <2>2 DEF IInv, TypeOK
<1>7. DiskFollowed'
  BY <1>1, <1>3, <1>5, DocumentsAssumption DEF IInv, DiskFollowed, AsOnDisk, DiskTextOf
<1>8. OverlaysAreTheClients' /\ OverlaysOwned'
  BY <1>1, <1>3, <1>5 DEF IInv, OverlaysAreTheClients, OverlaysOwned
<1>9. Phases'
  BY <1>1 DEF IInv, Phases
<1>10. QED
  BY <1>1, <1>5, <1>6, <1>7, <1>8, <1>9 DEF IInv

\* A move of luabox.toml, and its event.
LEMMA ManifestMovesKeeps ==
    ASSUME IInv, NEW m \in Manifests, ManifestMoves(m)
    PROVE  IInv'
<1> DEFINE e == [kind |-> "manifest", path |-> Absent]
<1>1. /\ steps < MaxSteps /\ steps' = steps + 1 /\ manifest' = m
      /\ events' = Append(events, e) /\ fs' = fs /\ buffer' = buffer /\ edited' = edited
      /\ batch' = batch /\ flags' = flags /\ before' = before /\ indexing' = indexing /\ server' = server
  BY DEF ManifestMoves, Step
<1>2. e \in Events /\ e.kind = "manifest"
  BY DEF Events
<1> HIDE DEF e
<1>3. EventsTell' /\ \A q \in Paths : Awaited(q)' <=> Awaited(q)
  BY <1>1, <1>2, MovedEvents DEF Names
<1>4. TypeOK'
  <2>1. events' \in Seq(Events)
    BY <1>1, <1>2 DEF IInv, TypeOK
  <2>2. steps' \in 0..MaxSteps
    BY <1>1, DocumentsAssumption DEF IInv, TypeOK
  <2>3. QED
    BY <1>1, <2>1, <2>2 DEF IInv, TypeOK
<1>5. DiskFollowed' /\ OverlaysAreTheClients' /\ OverlaysOwned' /\ Phases'
  BY <1>1, <1>3, DocumentsAssumption DEF IInv, DiskFollowed, AsOnDisk, DiskTextOf, OverlaysAreTheClients,
                                         OverlaysOwned, Phases
<1>6. QED
  BY <1>1, <1>3, <1>4, <1>5 DEF IInv

\* What a client's message leaves alone.
LEMMA Messages ==
    ASSUME IInv, Message
    PROVE  /\ indexing = {} /\ before = None /\ batch = <<>> /\ flags = {}
           /\ steps' \in 0..MaxSteps
           /\ fs' = fs /\ manifest' = manifest /\ events' = events /\ batch' = batch
           /\ flags' = flags /\ before' = before /\ indexing' = indexing
           /\ EventsTell' /\ \A q \in Paths : Awaited(q)' <=> Awaited(q)
<1>1. /\ indexing = {} /\ before = None /\ steps < MaxSteps /\ steps' = steps + 1
      /\ fs' = fs /\ manifest' = manifest /\ events' = events /\ batch' = batch
      /\ flags' = flags /\ before' = before /\ indexing' = indexing
  BY DEF Message, Listening, Step
<1>2. batch = <<>> /\ flags = {}
  BY <1>1 DEF IInv, Phases
<1>3. steps' \in 0..MaxSteps
  BY <1>1, DocumentsAssumption DEF IInv, TypeOK
<1>4. QED
  BY <1>1, <1>2, <1>3, SameEvents

\* What the rest of a message owes the invariant.
LEMMA MessageKeeps ==
    ASSUME IInv, Message, Good(server'), buffer' \in [Paths -> Layer], edited' \subseteq Paths,
           server'.openDocs # {} => server'.slot = SlotOf(server'),
           OverlaysAreTheClients', DiskFollowed', OverlaysOwned'
    PROVE  IInv'
<1>1. TypeOK'
  BY Messages DEF IInv, TypeOK, Good, Typed
<1>2. Phases'
  BY Messages DEF Phases
<1>3. QED
  BY <1>1, <1>2, Messages DEF IInv

\* An edit: an overlay, and a pass over its file.
Edited(s, p, t) == PublishLua(SetOverlay(s, p, t), {p})

\* It leaves the rest of the server as it was.
LEMMA EditFacts ==
    ASSUME NEW s, Good(s), NEW p \in Paths, NEW t \in Texts
    PROVE  /\ Good(Edited(s, p, t)) /\ Edited(s, p, t).slot = SlotOf(Edited(s, p, t))
           /\ Edited(s, p, t).openDocs = s.openDocs /\ Known(Edited(s, p, t), p)
           /\ Edited(s, p, t).disk = s.disk
           /\ Edited(s, p, t).overlay = [s.overlay EXCEPT ![p] = t]
           /\ \A q \in Paths : q # p => (Known(Edited(s, p, t), q) <=> Known(s, q))
<1> DEFINE u == SetOverlay(s, p, t)
           r == PublishLua(u, {p})
<1>1. /\ HostMoves(s, u) /\ Known(u, p) /\ u.disk = s.disk
      /\ u.overlay = [s.overlay EXCEPT ![p] = t] /\ u.hostStrictness = s.hostStrictness
      /\ \A q \in Paths : q # p => u.dialectOf[q] = s.dialectOf[q]
  BY SetOverlayMoves DEF Good
<1>2. Good(u)
  BY <1>1, MovesKeepGood
<1> HIDE DEF u
<1>3. Good(r) /\ SameHost(u, r) /\ r.slot = SlotOf(u)
  BY <1>2, PublishFacts
<1> HIDE DEF r
<1>4. SlotOf(r) = SlotOf(u)
  BY <1>3, SameHostSameView
<1>5. /\ Good(r) /\ r.slot = SlotOf(r) /\ r.openDocs = s.openDocs /\ Known(r, p)
      /\ r.disk = s.disk /\ r.overlay = [s.overlay EXCEPT ![p] = t]
      /\ \A q \in Paths : q # p => (Known(r, q) <=> Known(s, q))
  BY <1>1, <1>3, <1>4 DEF SameHost, HostMoves, Known
<1>6. QED
  BY <1>5 DEF r, u, Edited

\* didOpen.
LEMMA DidOpenKeeps ==
    ASSUME IInv, NEW p \in Paths, NEW t \in Texts, DidOpen(p, t)
    PROVE  IInv'
<1> DEFINE s == [server EXCEPT !.openDocs = @ \cup {p}]
<1>1. /\ Message /\ buffer' = [buffer EXCEPT ![p] = t] /\ edited' = edited \cup {p}
      /\ server' = PublishLua(SetOverlay(s, p, t), {p})
  BY DEF DidOpen
<1>2. /\ s \in Servers /\ s.openDocs = server.openDocs \cup {p}
      /\ s.disk = server.disk /\ s.overlay = server.overlay /\ s.dialectOf = server.dialectOf
      /\ s.hostStrictness = server.hostStrictness /\ s.revision = server.revision
      /\ s.config = server.config /\ s.merged = server.merged /\ s.cycles = server.cycles
      /\ s.slot = server.slot /\ s.checked = server.checked
  BY Held DEF Servers
<1> HIDE DEF s
<1>3. World(s) = World(server)
  BY <1>2, SameWorld
<1>4. Good(s)
  BY <1>2, <1>3, Held DEF Good, Typed, KnownOnly, Known, CachesTrue
<1>5. /\ Good(server') /\ server'.slot = SlotOf(server') /\ server'.openDocs = server.openDocs \cup {p}
      /\ Known(server', p) /\ server'.disk = server.disk
      /\ server'.overlay = [server.overlay EXCEPT ![p] = t]
      /\ \A q \in Paths : q # p => (Known(server', q) <=> Known(server, q))
  <2>1. server' = Edited(s, p, t)
    BY <1>1 DEF Edited
  <2>2. QED
    BY <1>2, <1>4, <2>1, EditFacts DEF Known
<1>6. buffer' \in [Paths -> Layer] /\ edited' \subseteq Paths
  BY <1>1, Held DEF IInv, TypeOK, Layer
<1>7. OverlaysAreTheClients'
  <2>1. buffer'[p] = t /\ server'.overlay[p] = t
    BY <1>1, <1>5, Held DEF Servers
  <2>2. \A q \in Paths : q # p => buffer'[q] = buffer[q] /\ server'.overlay[q] = server.overlay[q]
    BY <1>1, <1>5, Held DEF Servers
  <2>3. QED
    BY <1>5, <2>1, <2>2, Held DEF IInv, OverlaysAreTheClients
<1>8. DiskFollowed'
  BY <1>1, <1>5, Messages, Held, DocumentsAssumption
     DEF IInv, KnownOnly, DiskFollowed, AsOnDisk, DiskTextOf
<1>9. OverlaysOwned'
  BY <1>1, <1>5, Messages, Held DEF IInv, OverlaysOwned, Servers
<1>10. QED
  BY <1>1, <1>5, <1>6, <1>7, <1>8, <1>9, MessageKeeps

\* didChange with the whole text, of a document that may not be open.
LEMMA DidChangeKeeps ==
    ASSUME IInv, NEW p \in Paths, NEW t \in Texts, DidChange(p, t)
    PROVE  IInv'
<1>1. /\ Message /\ edited' = edited \cup {p}
      /\ buffer' = IF p \in server.openDocs THEN [buffer EXCEPT ![p] = t] ELSE buffer
      /\ server' = PublishLua(SetOverlay(server, p, t), {p})
  BY DEF DidChange
<1>2. /\ Good(server') /\ server'.slot = SlotOf(server') /\ server'.openDocs = server.openDocs
      /\ Known(server', p) /\ server'.disk = server.disk
      /\ server'.overlay = [server.overlay EXCEPT ![p] = t]
      /\ \A q \in Paths : q # p => (Known(server', q) <=> Known(server, q))
  <2>1. server' = Edited(server, p, t)
    BY <1>1 DEF Edited
  <2>2. QED
    BY <2>1, Held, EditFacts
<1>3. buffer' \in [Paths -> Layer] /\ edited' \subseteq Paths
  BY <1>1, Held DEF IInv, TypeOK, Layer
<1>4. OverlaysAreTheClients'
  BY <1>1, <1>2, Held DEF IInv, OverlaysAreTheClients, Servers
<1>5. DiskFollowed'
  BY <1>1, <1>2, Messages, Held, DocumentsAssumption
     DEF IInv, KnownOnly, DiskFollowed, AsOnDisk, DiskTextOf
<1>6. OverlaysOwned'
  BY <1>1, <1>2, Messages, Held DEF IInv, OverlaysOwned, Servers
<1>7. QED
  BY <1>1, <1>2, <1>3, <1>4, <1>5, <1>6, MessageKeeps

\* didClose: the disk takes over again.
LEMMA DidCloseKeeps ==
    ASSUME IInv, NEW p \in Paths, DidClose(p)
    PROVE  IInv'
<1> DEFINE s == [server EXCEPT !.openDocs = @ \ {p}]
<1>1. /\ Message /\ p \in server.openDocs
      /\ buffer' = [buffer EXCEPT ![p] = Absent] /\ edited' = edited \ {p}
      /\ server' = IF fs[p] = Absent THEN ClearedScratch(s, p)
                   ELSE PublishLua(ClearOverlay(SetFileText(s, p, fs[p]), p), {p})
  BY DEF DidClose
<1>2. /\ s \in Servers /\ s.openDocs = server.openDocs \ {p}
      /\ s.disk = server.disk /\ s.overlay = server.overlay /\ s.dialectOf = server.dialectOf
      /\ s.hostStrictness = server.hostStrictness /\ s.revision = server.revision
      /\ s.config = server.config /\ s.merged = server.merged /\ s.cycles = server.cycles
      /\ s.slot = server.slot /\ s.checked = server.checked
  BY Held DEF Servers
<1> HIDE DEF s
<1>3. World(s) = World(server)
  BY <1>2, SameWorld
<1>4. Good(s)
  BY <1>2, <1>3, Held DEF Good, Typed, KnownOnly, Known, CachesTrue
<1>5. /\ Good(server') /\ server'.slot = SlotOf(server') /\ server'.openDocs = server.openDocs \ {p}
      /\ server'.overlay = [server.overlay EXCEPT ![p] = Absent]
      /\ \A q \in Paths : q # p => (Known(server', q) <=> Known(server, q)) /\ server'.disk[q] = server.disk[q]
      /\ IF fs[p] = Absent THEN (Known(server', p) <=> Known(server, p)) /\ server'.disk[p] = server.disk[p]
         ELSE Known(server', p) /\ server'.disk[p] = fs[p]
  <2>1. CASE fs[p] = Absent
    <3>1. Good(server') /\ SameHost(ClearOverlay(s, p), server') /\ server'.slot = SlotOf(server')
      BY <1>1, <1>4, <2>1, ClearedScratchFacts
    <3>2. /\ HostMoves(s, ClearOverlay(s, p)) /\ ClearOverlay(s, p).disk = s.disk
          /\ ClearOverlay(s, p).overlay = [s.overlay EXCEPT ![p] = Absent]
          /\ ClearOverlay(s, p).dialectOf = s.dialectOf
      BY <1>4, ClearOverlayMoves DEF Good
    <3>3. QED
      BY <1>2, <2>1, <3>1, <3>2 DEF SameHost, HostMoves, Known
  <2>2. CASE fs[p] # Absent
    <3> DEFINE t == SetFileText(s, p, fs[p])
               u == ClearOverlay(t, p)
    <3>1. /\ HostMoves(s, t) /\ Known(t, p) /\ t.disk = [s.disk EXCEPT ![p] = fs[p]]
          /\ t.overlay = s.overlay /\ t.hostStrictness = s.hostStrictness
          /\ \A q \in Paths : q # p => t.dialectOf[q] = s.dialectOf[q]
      BY <1>4, Held, SetFileTextMoves DEF Good
    <3>2. Good(t)
      BY <1>4, <3>1, MovesKeepGood
    <3>3. server' = PublishLua(u, {p})
      BY <1>1, <2>2
    <3> HIDE DEF t
    <3>4. /\ HostMoves(t, u) /\ u.disk = t.disk /\ u.overlay = [t.overlay EXCEPT ![p] = Absent]
          /\ u.hostStrictness = t.hostStrictness /\ u.dialectOf = t.dialectOf
      BY <3>2, ClearOverlayMoves DEF Good
    <3>5. Good(u)
      BY <3>2, <3>4, MovesKeepGood
    <3> HIDE DEF u
    <3>6. Good(server') /\ SameHost(u, server') /\ server'.slot = SlotOf(u)
      BY <3>3, <3>5, PublishFacts
    <3>7. SlotOf(server') = SlotOf(u)
      BY <3>6, SameHostSameView
    <3>8. server'.disk = [server.disk EXCEPT ![p] = fs[p]] /\ server'.overlay = [server.overlay EXCEPT ![p] = Absent]
      BY <1>2, <3>1, <3>4, <3>6 DEF SameHost
    <3>9. server'.disk[p] = fs[p] /\ \A q \in Paths : q # p => server'.disk[q] = server.disk[q]
      BY <3>8, Held DEF Servers
    <3>10. QED
      BY <1>2, <2>2, <3>1, <3>4, <3>6, <3>7, <3>8, <3>9 DEF SameHost, HostMoves, Known
  <2>3. QED
    BY <2>1, <2>2
<1>6. buffer' \in [Paths -> Layer] /\ edited' \subseteq Paths
  BY <1>1, Held DEF IInv, TypeOK, Layer
<1>7. OverlaysAreTheClients'
  BY <1>1, <1>5, Held DEF IInv, OverlaysAreTheClients, Servers
<1>8. DiskFollowed'
  <2>1. ASSUME NEW q \in ProjectSources
        PROVE  (q \in indexing \/ Awaited(q) \/ AsOnDisk(q))'
    <3>1. q \in Paths /\ (q \in indexing \/ Awaited(q) \/ AsOnDisk(q))
      BY DocumentsAssumption DEF IInv, DiskFollowed
    <3>2. CASE fs[q] # Absent /\ q = p
      BY <1>1, <1>5, <3>2, Messages DEF AsOnDisk, DiskTextOf
    <3>3. CASE fs[q] = Absent \/ q # p
      BY <1>1, <1>5, <3>1, <3>3, Messages DEF AsOnDisk, DiskTextOf
    <3>4. QED
      BY <3>2, <3>3
  <2>2. QED
    BY <2>1 DEF DiskFollowed
<1>9. OverlaysOwned'
  BY <1>1, <1>5, Messages, Held DEF IInv, OverlaysOwned, Servers
<1>10. QED
  BY <1>1, <1>5, <1>6, <1>7, <1>8, <1>9, MessageKeeps

\* Every open document is checked against what there is.
Rechecked == \A p \in server.openDocs : server'.checked[p] = View(server')

\* didChangeConfiguration.
LEMMA DidChangeConfigurationKeeps ==
    ASSUME IInv, DidChangeConfiguration
    PROVE  IInv' /\ Rechecked
<1>1. /\ Message /\ buffer' = buffer /\ edited' = edited
      /\ server' = ReloadConfig(server, manifest)
  BY DEF DidChangeConfiguration
<1>2. /\ Good(server') /\ server'.disk = server.disk /\ server'.overlay = server.overlay
      /\ server'.openDocs = server.openDocs
      /\ \A p \in Paths : Known(server', p) <=> Known(server, p)
      /\ server.openDocs # {} => server'.slot = SlotOf(server')
      /\ Rechecked
  BY <1>1, Held, ReloadFacts DEF Rechecked
<1>3. buffer' \in [Paths -> Layer] /\ edited' \subseteq Paths
  BY <1>1 DEF IInv, TypeOK
<1>4. OverlaysAreTheClients' /\ OverlaysOwned'
  BY <1>1, <1>2, Messages DEF IInv, OverlaysAreTheClients, OverlaysOwned
<1>5. DiskFollowed'
  BY <1>1, <1>2, Messages, DocumentsAssumption DEF IInv, DiskFollowed, AsOnDisk, DiskTextOf
<1>6. QED
  BY <1>1, <1>2, <1>3, <1>4, <1>5, MessageKeeps

\* didChangeWatchedFiles: the events become a batch.
LEMMA DidChangeWatchedFilesKeeps ==
    ASSUME IInv, DidChangeWatchedFiles
    PROVE  IInv'
<1>1. /\ indexing = {} /\ before = None /\ batch' = events /\ events' = <<>> /\ before' = View(server)
      /\ fs' = fs /\ manifest' = manifest /\ buffer' = buffer /\ edited' = edited /\ flags' = flags
      /\ indexing' = indexing /\ server' = server /\ steps' = steps
  BY DEF DidChangeWatchedFiles, Listening
<1>2. batch = <<>> /\ flags = {}
  BY <1>1 DEF IInv, Phases
<1>3. View(server) \in Views /\ View(server) # None
  BY Held, WorldType, DocumentsAssumption
<1>4. TypeOK'
  <2>1. events' \in Seq(Events)
    BY <1>1
  <2>2. QED
    BY <1>1, <1>3, <2>1 DEF IInv, TypeOK
<1>5. Phases'
  BY <1>1, <1>2, <1>3 DEF IInv, Phases, SlotOf, View
<1>6. /\ EventsTell'
      /\ \A p \in Paths : Awaited(p)' <=> Awaited(p)
  BY <1>1, <1>2 DEF IInv, EventsTell, Tells, Awaited, Waits
<1>7. DiskFollowed' /\ OverlaysAreTheClients' /\ OverlaysOwned'
  BY <1>1, <1>6, DocumentsAssumption DEF IInv, DiskFollowed, AsOnDisk, DiskTextOf, OverlaysAreTheClients, OverlaysOwned
<1>8. QED
  BY <1>1, <1>4, <1>5, <1>6, <1>7 DEF IInv

\* What taking an event leaves alone, and what it leaves unsaid.
LEMMA NextEvents ==
    ASSUME IInv, NextEvent
    PROVE  /\ Head(batch) \in Events /\ batch' \in Seq(Events)
           /\ fs' = fs /\ manifest' = manifest /\ buffer' = buffer /\ edited' = edited /\ events' = events
           /\ before' = before /\ indexing' = indexing /\ steps' = steps
           /\ indexing = {} /\ before # None
           /\ Head(batch).kind # "manifest" => Head(batch).path \in Paths
           /\ EventsTell'
           /\ \A p \in Paths : Awaited(p) => Awaited(p)' \/ Names(Head(batch), p)
           /\ \A p \in Paths : Names(Head(batch), p) /\ ~Awaited(p)' => Tells(Head(batch), p)
<1>1. /\ batch # <<>> /\ batch' = Tail(batch)
      /\ fs' = fs /\ manifest' = manifest /\ buffer' = buffer /\ edited' = edited /\ events' = events
      /\ before' = before /\ indexing' = indexing /\ steps' = steps
  BY DEF NextEvent, environment
<1>2. batch \in Seq(Events) /\ Head(batch) \in Events /\ batch' \in Seq(Events) /\ Head(batch) = batch[1]
      /\ 1 \in 1..Len(batch)
  BY <1>1 DEF IInv, TypeOK
<1>3. indexing = {} /\ before # None
  BY <1>1 DEF IInv, Phases
<1>4. \A p : Waits(batch, p) <=> Names(Head(batch), p) \/ Waits(batch', p)
  BY <1>1, <1>2, TakingTheFirst
<1>5. \A p \in Paths : Awaited(p) => Awaited(p)' \/ Names(Head(batch), p)
  BY <1>1, <1>4 DEF Awaited
<1>6. ASSUME NEW p \in Paths, Names(Head(batch), p), ~Awaited(p)'
      PROVE  Tells(Head(batch), p)
  <2>1. ~Waits(events, p) /\ ~Waits(batch', p)
    BY <1>1, <1>6 DEF Awaited
  <2>2. Last(batch, 1, p)
    BY <1>1, <1>2, <1>6, <2>1, TakingTheFirst
  <2>3. QED
    BY <1>2, <2>1, <2>2 DEF IInv, EventsTell
<1>7. ASSUME NEW i \in 1..Len(batch')
      PROVE  i + 1 \in 1..Len(batch) /\ batch'[i] = batch[i + 1]
  BY <1>1, <1>2, <1>7, TakingTheFirst
<1>8. ASSUME NEW p \in Paths, NEW i \in 1..Len(batch'), Last(batch', i, p), ~Waits(events, p)
      PROVE  Tells(batch[i + 1], p)
  <2>1. Last(batch, i + 1, p)
    BY <1>1, <1>2, <1>8, TakingTheFirst
  <2>2. QED
    BY <1>7, <1>8, <2>1 DEF IInv, EventsTell
<1>9. EventsTell'
  BY <1>1, <1>7, <1>8 DEF IInv, EventsTell, Tells
<1>10. Head(batch).kind # "manifest" => Head(batch).path \in Paths
  BY <1>2 DEF IInv, EventsTell
<1>11. QED
  BY <1>1, <1>2, <1>3, <1>5, <1>6, <1>9, <1>10

\* luabox.toml has moved: the batch will reload.
LEMMA ManifestEventKeeps ==
    ASSUME IInv, ManifestEvent
    PROVE  IInv'
<1>1. NextEvent /\ Head(batch).kind = "manifest" /\ flags' = flags \cup {"reload"} /\ server' = server
  BY DEF ManifestEvent
<1>2. \A p \in Paths : Awaited(p) => Awaited(p)'
  BY <1>1, NextEvents DEF Names
<1>3. TypeOK'
  BY <1>1, NextEvents DEF IInv, TypeOK
<1>4. Phases'
  BY <1>1, NextEvents DEF Phases
<1>5. DiskFollowed' /\ OverlaysAreTheClients' /\ OverlaysOwned'
  BY <1>1, <1>2, NextEvents, DocumentsAssumption
     DEF IInv, DiskFollowed, AsOnDisk, DiskTextOf, OverlaysAreTheClients, OverlaysOwned
<1>6. QED
  BY <1>1, <1>3, <1>4, <1>5, NextEvents DEF IInv

\* A text arrives from the disk for the file an event names.
LEMMA ArrivalKeeps ==
    ASSUME IInv, NextEvent, NEW p \in Paths, Names(Head(batch), p), NEW x \in Texts,
           server' = DiskText(server, p, x), flags' = flags \cup {"republish"},
           ~Awaited(p)' => x = DiskTextOf(p)
    PROVE  IInv'
<1>1. /\ Good(server') /\ Known(server', p)
      /\ server'.disk = [server.disk EXCEPT ![p] = x]
      /\ server'.overlay = IF p \in server.openDocs THEN server.overlay
                           ELSE [server.overlay EXCEPT ![p] = Absent]
      /\ server'.openDocs = server.openDocs
      /\ \A q \in Paths : q # p => (Known(server', q) <=> Known(server, q))
  BY Held, DiskTextFacts
<1>2. \A q \in Paths : q # p => (Awaited(q) => Awaited(q)')
  BY NextEvents DEF Names
<1>3. /\ server'.disk[p] = x
      /\ \A q \in Paths : q # p => server'.disk[q] = server.disk[q]
      /\ \A q \in Paths : q # p \/ q \in server.openDocs => server'.overlay[q] = server.overlay[q]
      /\ p \notin server.openDocs => server'.overlay[p] = Absent
  BY <1>1, Held DEF Servers
<1>4. TypeOK'
  BY <1>1, NextEvents DEF IInv, TypeOK, Good, Typed
<1>5. Phases'
  BY NextEvents DEF Phases
<1>6. DiskFollowed'
  <2>1. ASSUME NEW q \in ProjectSources
        PROVE  (q \in indexing \/ Awaited(q) \/ AsOnDisk(q))'
    <3>1. q \in Paths /\ (q \in indexing \/ Awaited(q) \/ AsOnDisk(q)) /\ x # Absent
      BY DocumentsAssumption DEF IInv, DiskFollowed
    <3>2. CASE q = p
      BY <1>1, <1>3, <3>1, <3>2, NextEvents DEF AsOnDisk, DiskTextOf
    <3>3. CASE q # p
      BY <1>1, <1>2, <1>3, <3>1, <3>3, NextEvents DEF AsOnDisk, DiskTextOf
    <3>4. QED
      BY <3>2, <3>3
  <2>2. QED
    BY <2>1 DEF DiskFollowed
<1>7. OverlaysAreTheClients'
  BY <1>1, <1>3, NextEvents, Held DEF IInv, OverlaysAreTheClients
<1>8. OverlaysOwned'
  BY <1>1, <1>2, <1>3, NextEvents DEF IInv, OverlaysOwned
<1>9. QED
  BY <1>1, <1>4, <1>5, <1>6, <1>7, <1>8, NextEvents DEF IInv

\* A deletion.
LEMMA DeletedEventKeeps ==
    ASSUME IInv, DeletedEvent
    PROVE  IInv'
<1>1. /\ NextEvent /\ Head(batch).kind = "deleted" /\ flags' = flags \cup {"republish"}
      /\ server' = DiskText(server, Head(batch).path, EmptyText)
  BY DEF DeletedEvent
<1>2. PICK p \in Paths : p = Head(batch).path /\ Names(Head(batch), p)
  BY <1>1, NextEvents DEF Names
<1>3. ~Awaited(p)' => EmptyText = DiskTextOf(p)
  BY <1>1, <1>2, NextEvents DEF Tells, DiskTextOf
<1>4. QED
  BY <1>1, <1>2, <1>3, ArrivalKeeps, DocumentsAssumption

\* A creation or a change, if the file is still there to be read.
LEMMA ChangedEventKeeps ==
    ASSUME IInv, ChangedEvent
    PROVE  IInv'
<1>1. NextEvent /\ Head(batch).kind = "changed"
  BY DEF ChangedEvent
<1>2. PICK p \in Paths :
        /\ p = Head(batch).path /\ Names(Head(batch), p)
        /\ IF fs[p] # Absent THEN flags' = flags \cup {"republish"} /\ server' = DiskText(server, p, fs[p])
                             ELSE flags' = flags /\ server' = server
  BY <1>1, NextEvents DEF ChangedEvent, Names
<1>3. CASE fs[p] # Absent
  <2>1. fs[p] \in Texts /\ fs[p] = DiskTextOf(p)
    BY <1>2, <1>3, Held DEF Layer, DiskTextOf
  <2>2. QED
    BY <1>1, <1>2, <1>3, <2>1, ArrivalKeeps
<1>4. CASE fs[p] = Absent
  <2>1. Awaited(p)'
    BY <1>1, <1>2, <1>4, NextEvents DEF Tells
  <2>2. \A q \in Paths : Awaited(q) => Awaited(q)'
    BY <1>1, <1>2, <2>1, NextEvents DEF Names
  <2>3. TypeOK'
    BY <1>1, <1>2, <1>4, NextEvents DEF IInv, TypeOK
  <2>4. Phases'
    BY <1>1, <1>2, <1>4, NextEvents DEF IInv, Phases
  <2>5. DiskFollowed' /\ OverlaysAreTheClients' /\ OverlaysOwned'
    BY <1>1, <1>2, <1>4, <2>2, NextEvents, DocumentsAssumption
       DEF IInv, DiskFollowed, AsOnDisk, DiskTextOf, OverlaysAreTheClients, OverlaysOwned
  <2>6. QED
    BY <1>1, <1>2, <1>4, <2>3, <2>4, <2>5, NextEvents DEF IInv
<1>5. QED
  BY <1>3, <1>4

\* The batch reloads or republishes for all its events.
LEMMA FinishBatchKeeps ==
    ASSUME IInv, FinishBatch
    PROVE  IInv' /\ (View(server') # before => Rechecked)
<1>1. /\ batch = <<>> /\ before # None /\ flags' = {} /\ before' = None
      /\ server' = IF "reload" \in flags THEN ReloadConfig(server, manifest)
                   ELSE IF "republish" \in flags THEN RepublishOpenDocs(server)
                   ELSE server
      /\ fs' = fs /\ manifest' = manifest /\ buffer' = buffer /\ edited' = edited /\ events' = events
      /\ batch' = batch /\ indexing' = indexing /\ steps' = steps
  BY DEF FinishBatch, environment
<1>2. indexing = {}
  BY <1>1 DEF IInv, Phases
<1>3. /\ Good(server') /\ server'.disk = server.disk /\ server'.overlay = server.overlay
      /\ server'.openDocs = server.openDocs
      /\ \A p \in Paths : Known(server', p) <=> Known(server, p)
      /\ server'.openDocs # {} => server'.slot = SlotOf(server')
      /\ View(server') # before => Rechecked
  <2>1. CASE "reload" \in flags
    BY <1>1, <2>1, Held, ReloadFacts DEF Rechecked
  <2>2. CASE "reload" \notin flags /\ "republish" \in flags
    <3>1. server' = PublishLua(server, server.openDocs)
      BY <1>1, <2>2 DEF RepublishOpenDocs
    <3>2. /\ Good(server') /\ SameHost(server, server')
          /\ server.openDocs # {} => server'.slot = SlotOf(server)
          /\ \A p \in server.openDocs : server'.checked[p] = View(server)
      BY <3>1, Held, PublishFacts
    <3>3. SlotOf(server') = SlotOf(server) /\ View(server') = View(server)
      BY <3>2, SameHostSameView
    <3>4. QED
      BY <3>2, <3>3 DEF SameHost, Known, Rechecked
  <2>3. CASE flags = {}
    BY <1>1, <2>3, Held DEF IInv, Phases
  <2>4. QED
    BY <2>1, <2>2, <2>3 DEF IInv, TypeOK
<1>4. EventsTell' /\ \A p \in Paths : Awaited(p)' <=> Awaited(p)
  BY <1>1, SameEvents
<1>5. TypeOK'
  BY <1>1, <1>3 DEF IInv, TypeOK, Good, Typed
<1>6. Phases'
  BY <1>1, <1>2, <1>3 DEF Phases
<1>7. DiskFollowed' /\ OverlaysAreTheClients' /\ OverlaysOwned'
  BY <1>1, <1>3, <1>4, DocumentsAssumption
     DEF IInv, DiskFollowed, AsOnDisk, DiskTextOf, OverlaysAreTheClients, OverlaysOwned
<1>8. QED
  BY <1>3, <1>4, <1>5, <1>6, <1>7 DEF IInv

------------------------------------------------------------------------------
\* The invariant survives every step, and what a reload or a batch owes the
\* open documents is done.
LEMMA NextKeeps == IInv /\ [Next]_vars => IInv'
<1> SUFFICES ASSUME IInv, [Next]_vars
             PROVE  IInv'
  OBVIOUS
<1>1. CASE Disk
  BY <1>1, DiskMovesKeeps, ManifestMovesKeeps DEF Disk
<1>2. CASE Client
  BY <1>2, DidOpenKeeps, DidChangeKeeps, DidCloseKeeps, DidChangeConfigurationKeeps,
     DidChangeWatchedFilesKeeps DEF Client
<1>3. CASE Handling
  BY <1>3, ManifestEventKeeps, DeletedEventKeeps, ChangedEventKeeps, FinishBatchKeeps DEF Handling
<1>4. CASE \E p \in Paths : Bootstrap(p)
  BY <1>4, BootstrapKeeps
<1>5. CASE vars' = vars
  <2>1. /\ fs' = fs /\ manifest' = manifest /\ buffer' = buffer /\ edited' = edited /\ events' = events
        /\ batch' = batch /\ flags' = flags /\ before' = before /\ indexing' = indexing
        /\ server' = server /\ steps' = steps
    BY <1>5 DEF vars, environment
  <2>2. EventsTell' /\ \A p \in Paths : Awaited(p)' <=> Awaited(p)
    BY <2>1, SameEvents
  <2>3. TypeOK' /\ Phases'
    BY <2>1 DEF IInv, TypeOK, Phases
  <2>4. DiskFollowed' /\ OverlaysAreTheClients' /\ OverlaysOwned'
    BY <2>1, <2>2, DocumentsAssumption
       DEF IInv, DiskFollowed, AsOnDisk, DiskTextOf, OverlaysAreTheClients, OverlaysOwned
  <2>5. QED
    BY <2>1, <2>2, <2>3, <2>4 DEF IInv
<1>6. QED
  BY <1>1, <1>2, <1>3, <1>4, <1>5 DEF Next, Quiet

\* What every reachable state satisfies.
LEMMA Invariance == Spec => []IInv
BY InitEstablishes, NextKeeps, PTL DEF Spec

\* The documents, the events and the server's caches are of their types.
THEOREM TypeCorrect == Spec => []TypeOK
<1>1. IInv => TypeOK
  BY DEF IInv
<1>2. QED
  BY <1>1, Invariance, PTL

\* No cache keyed on the change counter is served stale, though reloads move
\* what the counter cannot see (merged_ambient, class_cycles, reload_config).
THEOREM CachesStayFresh == Spec => []CachesFresh
<1>1. IInv => CachesFresh
  BY DEF IInv, Good, CachesTrue, CachesFresh, MergedAmbientFresh, CyclePassFresh, Fresh
<1>2. QED
  BY <1>1, Invariance, PTL

\* The workspace-derived findings on screen are those of the workspace, however
\* its declarations move (publish_lua, close, watched_files_changed).
THEOREM WorkspaceStaysCurrent == Spec => []WorkspaceSlotCurrent
<1>1. IInv => WorkspaceSlotCurrent
  BY DEF IInv, Phases, WorkspaceSlotCurrent, Listening, SlotOf
<1>2. QED
  BY <1>1, Invariance, PTL

\* An open document is what its client typed, whatever the disk does under it
\* (watched_files_changed; retire_orphan_overlay).
THEOREM ClientsTextKept == Spec => []OpenTextIsTheClients
<1>1. IInv => OpenTextIsTheClients
  BY DocumentsAssumption DEF IInv, OverlaysAreTheClients, OpenTextIsTheClients, EffectiveText
<1>2. QED
  BY <1>1, Invariance, PTL

\* Once every event is handled, a file nobody has open reads as it stands on
\* disk (bootstrap, close, watched_files_changed).
THEOREM HostFollowsTheDisk == Spec => []QuietHostMatchesDisk
<1>1. ASSUME IInv, Listening, events = <<>>, NEW p \in ProjectSources \ (server.openDocs \cup edited)
      PROVE  IF Known(server, p) THEN EffectiveText(server, p) = DiskTextOf(p) ELSE fs[p] = Absent
  <2>1. p \in Paths /\ p \notin indexing /\ batch = <<>>
    BY <1>1, DocumentsAssumption DEF Listening, IInv, Phases
  <2>2. ~Awaited(p)
    BY <1>1, <2>1 DEF Awaited, Waits
  <2>3. AsOnDisk(p) /\ server.overlay[p] = Absent
    BY <1>1, <2>1, <2>2 DEF IInv, DiskFollowed, OverlaysOwned
  <2>4. QED
    BY <2>3 DEF AsOnDisk, EffectiveText
<1>2. IInv => QuietHostMatchesDisk
  BY <1>1 DEF QuietHostMatchesDisk
<1>3. QED
  BY <1>2, Invariance, PTL

\* A reload, and a batch that moved any file, leaves every open document
\* checked against the world as it then is (watched_files_changed,
\* reload_config).
THEOREM OpenDocumentsFollow == Spec => OpenDocsRechecked
<1>1. ASSUME IInv, [Next]_vars
      PROVE  [(before # None /\ before' = None /\ View(server') # before) \/ DidChangeConfiguration
                => \A p \in server.openDocs : server'.checked[p] = View(server')]_vars
  <2>1. CASE DidChangeConfiguration
    BY <1>1, <2>1, DidChangeConfigurationKeeps DEF Rechecked
  <2>2. CASE FinishBatch
    BY <1>1, <2>1, <2>2, FinishBatchKeeps DEF Rechecked
  <2>3. CASE before # None /\ before' = None
    <3>1. FinishBatch
      BY <1>1, <2>3 DEF Next, Disk, DiskMoves, ManifestMoves, Client, DidOpen, DidChange, DidClose,
         DidChangeConfiguration, DidChangeWatchedFiles, Message, Listening, Handling, ManifestEvent,
         DeletedEvent, ChangedEvent, NextEvent, Quiet, Bootstrap, vars
    <3>2. QED
      BY <2>2, <3>1
  <2>4. QED
    BY <2>1, <2>3
<1>2. QED
  BY <1>1, Invariance, PTL DEF Spec, OpenDocsRechecked

------------------------------------------------------------------------------
(***************************************************************************)
(* Induction on numbers, as a fact about sets, and functions defined by    *)
(* recursion on an index.                                                  *)
(***************************************************************************)
\* Among any numbers one is first.
LEMMA FirstIs ==
    ASSUME NEW T \in SUBSET Nat, T # {}
    PROVE  E!First(T) \in T /\ \A j \in T : E!First(T) <= j
<1> DEFINE Below(x) == {y \in T : y < x}
           F == {Below(x) : x \in T}
<1>0. \A x \in T : x \in Nat
  OBVIOUS
<1>1. ASSUME NEW x \in T PROVE Below(x) \in FiniteSubsetsOf(Nat)
  <2>1. Below(x) \in SUBSET Nat /\ x \in Nat
    BY <1>0
  <2>2. \A y \in Below(x) : y <= x
    BY <1>0
  <2> HIDE DEF Below
  <2>3. IsFiniteSet(Below(x))
    BY <2>1, <2>2, FS_BoundedSetOfNaturals
  <2>4. QED
    BY <2>1, <2>3 DEF FiniteSubsetsOf
<1>2. F \subseteq FiniteSubsetsOf(Nat) /\ F # {}
  BY <1>1
<1>3. PICK X \in F : \A Y \in F : <<Y, X>> \notin StrictSubsetOrdering(Nat)
  BY <1>2, FS_StrictSubsetOrderingWellFounded, WFMin
<1>4. PICK x \in T : X = Below(x)
  BY <1>3
<1>5. ASSUME NEW y \in T, ~(x <= y) PROVE FALSE
  <2>1. y < x /\ y \in Nat /\ x \in Nat
    BY <1>5
  <2>2. Below(y) \in SUBSET Nat /\ Below(x) \in SUBSET Nat
    OBVIOUS
  <2>3. ASSUME NEW z \in Below(y) PROVE z \in Below(x)
    BY <1>0, <2>1
  <2>4. y \in Below(x) /\ y \notin Below(y)
    BY <2>1
  <2>5. <<Below(y), Below(x)>> \in StrictSubsetOrdering(Nat)
    BY <2>2, <2>3, <2>4 DEF StrictSubsetOrdering
  <2>6. Below(y) \in F
    OBVIOUS
  <2>7. QED
    BY <1>3, <1>4, <2>5, <2>6
<1>6. QED
  BY <1>5 DEF E!First

\* What holds of 0, and of each number after one it holds of, holds of all of
\* them up to a bound.
LEMMA UpTo ==
    ASSUME NEW n \in Nat, NEW T, 0 \in T, \A k \in 1..n : k - 1 \in T => k \in T
    PROVE  0..n \subseteq T
<1> DEFINE M == (0..n) \ T
<1> SUFFICES ASSUME M # {} PROVE FALSE
  OBVIOUS
<1>1. M \in SUBSET Nat
  OBVIOUS
<1>2. PICK k \in M : \A j \in M : k <= j
  BY <1>1, FirstIs
<1>3. k \in 1..n /\ k - 1 \in 0..n /\ k - 1 \notin M
  BY <1>2
<1>4. QED
  BY <1>2, <1>3

\* A value, and what n steps make of it.
Iterated(X, n, F, first) == {a \in [0..n -> X] : a[0] = first /\ \A k \in 1..n : a[k] = F[k][a[k - 1]]}

LEMMA Iterates ==
    ASSUME NEW X, NEW n \in Nat, NEW F \in [1..n -> [X -> X]], NEW first \in X
    PROVE  Iterated(X, n, F, first) # {}
<1> DEFINE Reached(m) == \E a \in [0..m -> X] : a[0] = first /\ \A k \in 1..m : a[k] = F[k][a[k - 1]]
           T == {m \in 0..n : Reached(m)}
<1>1. 0 \in T
  <2> DEFINE b == [k \in 0..0 |-> first]
  <2>1. b \in [0..0 -> X] /\ b[0] = first
    OBVIOUS
  <2> HIDE DEF b
  <2>2. \A k \in 1..0 : b[k] = F[k][b[k - 1]]
    OBVIOUS
  <2>3. Reached(0)
    BY <2>1, <2>2
  <2> HIDE DEF Reached
  <2>4. QED
    BY <2>3
<1>2. ASSUME NEW m \in 1..n, m - 1 \in T PROVE m \in T
  <2>1. PICK a \in [0..(m - 1) -> X] : a[0] = first /\ \A k \in 1..(m - 1) : a[k] = F[k][a[k - 1]]
    BY <1>2
  <2> DEFINE b == [k \in 0..m |-> IF k = m THEN F[m][a[m - 1]] ELSE a[k]]
  <2>2. m - 1 \in 0..(m - 1) /\ a[m - 1] \in X /\ F[m] \in [X -> X]
    BY <2>1
  <2>3. F[m][a[m - 1]] \in X
    BY <2>2
  <2>4. b \in [0..m -> X]
    BY <2>3
  <2>5. \A k \in 0..(m - 1) : b[k] = a[k]
    OBVIOUS
  <2>6. b[m] = F[m][a[m - 1]] /\ b[m - 1] = a[m - 1]
    BY <2>5
  <2> HIDE DEF b
  <2>7. ASSUME NEW k \in 1..m PROVE b[k] = F[k][b[k - 1]]
    <3>1. CASE k = m
      BY <3>1, <2>6
    <3>2. CASE k # m
      <4>1. k \in 1..(m - 1) /\ k - 1 \in 0..(m - 1) /\ k \in 0..(m - 1)
        BY <3>2
      <4>2. QED
        BY <4>1, <2>1, <2>5
    <3>3. QED
      BY <3>1, <3>2
  <2>8. b[0] = first
    BY <2>1, <2>5
  <2>9. Reached(m)
    BY <2>4, <2>7, <2>8
  <2> HIDE DEF Reached
  <2>10. QED
    BY <2>9
<1> HIDE DEF T
<1>3. 0..n \subseteq T
  BY <1>1, <1>2, UpTo
<1>4. n \in T
  BY <1>3
<1>5. QED
  BY <1>4 DEF T, Iterated

------------------------------------------------------------------------------
(***************************************************************************)
(* Widths.                                                                 *)
(***************************************************************************)
AnyText == Seq(E!Chars)
Widths == [E!Chars -> Nat \ {0}]

\* The library's counting is the instance's.
LEMMA CountsAlike == \A T : E!Cardinality(T) = Cardinality(T)
BY DEF E!Cardinality, Cardinality, E!IsFiniteSet, IsFiniteSet

\* Characters have widths.
LEMMA WidthsAre == E!Bytes \in Widths /\ E!Units \in Widths /\ E!Bytes["lf"] = 1
BY DEF E!Bytes, E!Units, E!Chars, Widths

\* Upto adds them up.
LEMMA UptoAdds ==
    ASSUME NEW text \in AnyText, NEW width \in Widths
    PROVE  /\ E!Upto(width, text) \in [0..Len(text) -> Nat]
           /\ E!Upto(width, text)[0] = 0
           /\ \A k \in 1..Len(text) : E!Upto(width, text)[k] = E!Upto(width, text)[k - 1] + width[text[k]]
<1> DEFINE n == Len(text)
           F == [k \in 1..n |-> [x \in Nat |-> x + width[text[k]]]]
           Is(sum) == sum = [k \in 0..n |-> IF k = 0 THEN 0 ELSE sum[k - 1] + width[text[k]]]
           u == E!Upto(width, text)
<1>1. n \in Nat /\ \A k \in 1..n : text[k] \in E!Chars /\ width[text[k]] \in Nat
  BY DEF AnyText, Widths
<1>2. F \in [1..n -> [Nat -> Nat]]
  BY <1>1
<1> HIDE DEF F
<1>3. PICK a : a \in Iterated(Nat, n, F, 0)
  <2> DEFINE X == Nat
  <2>1. 0 \in X /\ n \in Nat /\ F \in [1..n -> [X -> X]]
    BY <1>1, <1>2
  <2> HIDE DEF n, X
  <2>2. Iterated(X, n, F, 0) # {}
    BY <2>1, Iterates
  <2>3. QED
    BY <2>2 DEF X
<1>4. ASSUME NEW k \in 1..n PROVE a[k] = a[k - 1] + width[text[k]]
  <2>1. a[k - 1] \in Nat
    BY <1>1, <1>3 DEF Iterated
  <2>2. F[k][a[k - 1]] = a[k - 1] + width[text[k]]
    BY <2>1 DEF F
  <2>3. QED
    BY <1>3, <2>2 DEF Iterated
<1>5. Is(a)
  <2> DEFINE b == [k \in 0..n |-> IF k = 0 THEN 0 ELSE a[k - 1] + width[text[k]]]
  <2>1. ASSUME NEW k \in 0..n PROVE a[k] = b[k]
    BY <1>1, <1>3, <1>4 DEF Iterated
  <2>2. a = [k \in 0..n |-> a[k]]
    BY <1>3 DEF Iterated
  <2> HIDE DEF n
  <2>3. QED
    BY <2>1, <2>2
<1>6. u = CHOOSE sum : Is(sum)
  BY DEF E!Upto
<1>7. Is(u)
  <2> HIDE DEF Is, u
  <2> QED
    BY <1>5, <1>6
<1> HIDE DEF u
<1>8. u[0] = 0 /\ \A k \in 1..n : u[k] = u[k - 1] + width[text[k]]
  BY <1>1, <1>7
<1>9. u \in [0..n -> Nat]
  <2> DEFINE T == {k \in 0..n : u[k] \in Nat}
  <2>1. 0 \in T
    BY <1>1, <1>8
  <2>2. \A k \in 1..n : k - 1 \in T => k \in T
    BY <1>1, <1>8
  <2> HIDE DEF T
  <2>3. 0..n \subseteq T
    BY <1>1, <2>1, <2>2, UpTo
  <2>4. \A k \in 0..n : u[k] \in Nat
    BY <2>3 DEF T
  <2>5. u = [k \in 0..n |-> u[k]]
    BY <1>7
  <2>6. QED
    BY <2>4, <2>5
<1>10. QED
  BY <1>8, <1>9 DEF u

\* So it grows.
LEMMA UptoGrows ==
    ASSUME NEW text \in AnyText, NEW width \in Widths
    PROVE  \A j, k \in 0..Len(text) :
               /\ j < k <=> E!Upto(width, text)[j] < E!Upto(width, text)[k]
               /\ j = k <=> E!Upto(width, text)[j] = E!Upto(width, text)[k]
<1> DEFINE n == Len(text)
           u == E!Upto(width, text)
<1>1. n \in Nat /\ \A k \in 1..n : width[text[k]] \in Nat \ {0}
  BY DEF AnyText, Widths
<1>2. u \in [0..n -> Nat] /\ \A k \in 1..n : u[k] = u[k - 1] + width[text[k]]
  BY UptoAdds
<1> HIDE DEF u
<1>3. ASSUME NEW j \in 0..n, NEW k \in 0..n, j < k PROVE u[j] < u[k]
  <2> DEFINE T == {m \in 0..n : j < m => u[j] < u[m]}
  <2>1. 0 \in T
    BY <1>1
  <2>2. ASSUME NEW m \in 1..n, m - 1 \in T PROVE m \in T
    <3>0. m - 1 \in 0..n
      BY <1>1
    <3>1. u[m] = u[m - 1] + width[text[m]] /\ width[text[m]] \in Nat \ {0} /\ u[m - 1] \in Nat /\ u[j] \in Nat
      BY <1>1, <1>2, <3>0
    <3>2. CASE j = m - 1
      BY <3>1, <3>2
    <3>3. CASE j < m - 1
      BY <3>1, <3>3, <2>2
    <3>4. QED
      BY <3>1, <3>2, <3>3, <2>2
  <2> HIDE DEF T
  <2>3. 0..n \subseteq T
    BY <1>1, <2>1, <2>2, UpTo
  <2>4. k \in T
    BY <2>3
  <2>5. QED
    BY <2>4, <1>3 DEF T
<1>4. ASSUME NEW j \in 0..n, NEW k \in 0..n
      PROVE (j < k <=> u[j] < u[k]) /\ (j = k <=> u[j] = u[k])
  <2>1. u[j] \in Nat /\ u[k] \in Nat /\ j \in Nat /\ k \in Nat
    BY <1>2
  <2>2. (j < k => u[j] < u[k]) /\ (k < j => u[k] < u[j])
    BY <1>3
  <2>3. QED
    BY <2>1, <2>2
<1>5. QED
  BY <1>4 DEF u

------------------------------------------------------------------------------
(***************************************************************************)
(* Offsets and lines.                                                      *)
(***************************************************************************)
Marks(text)  == {0} \cup {j \in DOMAIN text : text[j] = "lf"}
LFs(text, k) == {j \in 1..k : text[j] = "lf"}

LEMMA UpToCounts ==
    ASSUME NEW n \in Nat
    PROVE  IsFiniteSet(0..n) /\ IsFiniteSet(1..n) /\ Cardinality(1..n) = n
<1>1. 0 \in Int /\ 1 \in Int /\ n \in Int
  OBVIOUS
<1>2. IsFiniteSet(0..n) /\ IsFiniteSet(1..n) /\ Cardinality(1..n) = (IF 1 > n THEN 0 ELSE n - 1 + 1)
  BY <1>1, FS_Interval, Zenon
<1>3. QED
  BY <1>2

\* An offset falls at a character of the text, and one at the end of a
\* character at that.
LEMMA CharAtIs ==
    ASSUME NEW text \in AnyText
    PROVE  /\ \A o : E!CharAt(text, o) \in 0..Len(text)
           /\ \A k \in 0..Len(text) : E!CharAt(text, E!Upto(E!Bytes, text)[k]) = k
<1> DEFINE n == Len(text)
           b == E!Upto(E!Bytes, text)
           Before(o) == {j \in DOMAIN text : b[j] <= o}
<1>1. n \in Nat /\ DOMAIN text = 1..n
  BY DEF AnyText
<1>2. \A o : E!CharAt(text, o) = Cardinality(Before(o))
  BY CountsAlike DEF E!CharAt
<1>3. IsFiniteSet(1..n) /\ Cardinality(1..n) = n
  BY <1>1, UpToCounts
<1>4. ASSUME NEW o PROVE Cardinality(Before(o)) \in 0..n
  <2>1. Before(o) \in SUBSET (1..n)
    BY <1>1
  <2> HIDE DEF Before
  <2>2. IsFiniteSet(Before(o)) /\ Cardinality(Before(o)) <= n
    BY <1>3, <2>1, FS_Subset
  <2>3. QED
    BY <1>1, <2>2, FS_CardinalityType
<1>5. ASSUME NEW k \in 0..n PROVE Cardinality(Before(b[k])) = k
  <2>1. \A j \in 1..n : b[j] <= b[k] <=> j <= k
    <3>1. b \in [0..n -> Nat] /\ \A i, j \in 0..n : (i < j <=> b[i] < b[j]) /\ (i = j <=> b[i] = b[j])
      BY UptoGrows, UptoAdds, WidthsAre
    <3> HIDE DEF b
    <3>2. QED
      BY <1>1, <3>1
  <2>2. Before(b[k]) = 1..k
    <3> HIDE DEF b
    <3> QED
      BY <1>1, <2>1
  <2>3. k \in Nat
    BY <1>1
  <2> HIDE DEF Before, b
  <2>4. QED
    BY <2>2, <2>3, UpToCounts
<1>6. QED
  BY <1>2, <1>4, <1>5

\* As many offsets as characters they are of.
LEMMA OffsetsCount ==
    ASSUME NEW text \in AnyText, NEW M \in SUBSET (0..Len(text))
    PROVE  /\ IsFiniteSet(M) /\ Cardinality(M) \in Nat
           /\ Cardinality({E!Upto(E!Bytes, text)[k] : k \in M}) = Cardinality(M)
<1> DEFINE n == Len(text)
           b == E!Upto(E!Bytes, text)
           T == {b[k] : k \in M}
           f == [k \in M |-> b[k]]
<1>1. n \in Nat
  BY DEF AnyText
<1>2. IsFiniteSet(M)
  <2>1. IsFiniteSet(0..n) /\ M \in SUBSET (0..n)
    BY <1>1, UpToCounts
  <2>2. QED
    BY <2>1, FS_Subset
<1>3. \A j, k \in 0..n : j = k <=> b[j] = b[k]
  BY UptoGrows, WidthsAre
<1> HIDE DEF b
<1>4. f \in Bijection(M, T)
  <2>1. f \in [M -> T] /\ \A t \in T : \E j \in M : f[j] = t
    OBVIOUS
  <2>2. \A i, j \in M : f[i] = f[j] => i = j
    BY <1>3
  <2> HIDE DEF f, T
  <2>3. QED
    BY <2>1, <2>2 DEF Bijection, Injection, Surjection, IsInjective
<1>5. ExistsBijection(M, T)
  BY <1>4 DEF ExistsBijection
<1> HIDE DEF T
<1>6. Cardinality(T) = Cardinality(M)
  BY <1>2, <1>5, FS_Bijection
<1>7. QED
  BY <1>2, <1>6, FS_CardinalityType DEF T, b

\* The lines that start by some character are those its line feeds end, and one.
LEMMA LinesTo ==
    ASSUME NEW text \in AnyText, NEW k \in 0..Len(text)
    PROVE  /\ LFs(text, k) \in SUBSET (0..Len(text)) /\ Cardinality(LFs(text, k)) \in Nat
           /\ Cardinality({s \in E!LineStarts(text) : s <= E!Upto(E!Bytes, text)[k]}) = Cardinality(LFs(text, k)) + 1
           /\ k \in Marks(text) =>
                 Cardinality({s \in E!LineStarts(text) : s < E!Upto(E!Bytes, text)[k]}) = Cardinality(LFs(text, k))
<1> DEFINE n == Len(text)
           b == E!Upto(E!Bytes, text)
           M == {j \in Marks(text) : j <= k}
<1>1. n \in Nat /\ DOMAIN text = 1..n /\ Marks(text) \in SUBSET (0..n)
  BY DEF AnyText, Marks
<1>2. E!LineStarts(text) = {b[j] : j \in Marks(text)}
  BY DEF E!LineStarts, Marks
<1>3. b \in [0..n -> Nat] /\ \A i, j \in 0..n : (i < j <=> b[i] < b[j]) /\ (i = j <=> b[i] = b[j])
  BY UptoGrows, UptoAdds, WidthsAre
<1> HIDE DEF b
<1>4. {s \in E!LineStarts(text) : s <= b[k]} = {b[j] : j \in M}
  <2>1. \A j \in Marks(text) : b[j] <= b[k] <=> j <= k
    BY <1>1, <1>3
  <2>2. QED
    BY <1>2, <2>1
<1>5. {s \in E!LineStarts(text) : s < b[k]} = {b[j] : j \in M \ {k}}
  <2>1. \A j \in Marks(text) : b[j] < b[k] <=> j <= k /\ j # k
    BY <1>1, <1>3
  <2>2. QED
    BY <1>2, <2>1
<1>6. M = LFs(text, k) \cup {0} /\ 0 \notin LFs(text, k)
  BY <1>1 DEF Marks, LFs
<1>7. LFs(text, k) \in SUBSET (0..n)
  BY <1>1 DEF LFs
<1>8. IsFiniteSet(LFs(text, k)) /\ Cardinality(LFs(text, k)) \in Nat
  BY <1>7, OffsetsCount
<1>9. Cardinality(M) = Cardinality(LFs(text, k)) + 1 /\ IsFiniteSet(M)
  <2> HIDE DEF M
  <2> QED
    BY <1>6, <1>8, FS_AddElement
<1>10. M \in SUBSET (0..n) /\ M \ {k} \in SUBSET (0..n)
  BY <1>1
<1> HIDE DEF M
<1>11. Cardinality({b[j] : j \in M}) = Cardinality(M) /\ Cardinality({b[j] : j \in M \ {k}}) = Cardinality(M \ {k})
  BY <1>10, OffsetsCount DEF b
<1>12. ASSUME k \in Marks(text) PROVE Cardinality(M \ {k}) = Cardinality(LFs(text, k))
  <2>1. k \in M
    BY <1>1, <1>12 DEF M
  <2>2. Cardinality(M \ {k}) = Cardinality(M) - 1
    BY <1>9, <2>1, FS_RemoveElement
  <2>3. QED
    BY <1>8, <1>9, <2>2
<1>13. QED
  BY <1>4, <1>5, <1>7, <1>8, <1>9, <1>11, <1>12 DEF b

\* No more line feeds come before an earlier character, and fewer before one
\* with a line's start between.
LEMMA MoreLines ==
    ASSUME NEW text \in AnyText, NEW j \in 0..Len(text), NEW k \in 0..Len(text), j <= k
    PROVE  /\ Cardinality(LFs(text, j)) \in Nat /\ Cardinality(LFs(text, k)) \in Nat
           /\ Cardinality(LFs(text, j)) <= Cardinality(LFs(text, k))
           /\ (\E i \in (j + 1)..k : text[i] = "lf") => Cardinality(LFs(text, j)) < Cardinality(LFs(text, k))
           /\ (\A i \in (j + 1)..k : text[i] # "lf") => LFs(text, j) = LFs(text, k)
<1>0. Len(text) \in Nat
  BY DEF AnyText
<1>1. LFs(text, j) \subseteq LFs(text, k) /\ LFs(text, k) \in SUBSET (0..Len(text)) /\ LFs(text, j) \in SUBSET (0..Len(text))
  BY <1>0 DEF LFs
<1>2. IsFiniteSet(LFs(text, k)) /\ Cardinality(LFs(text, j)) \in Nat /\ Cardinality(LFs(text, k)) \in Nat
  BY <1>1, OffsetsCount
<1>3. /\ Cardinality(LFs(text, j)) <= Cardinality(LFs(text, k))
      /\ Cardinality(LFs(text, j)) = Cardinality(LFs(text, k)) => LFs(text, j) = LFs(text, k)
  BY <1>1, <1>2, FS_Subset
<1>4. ASSUME NEW i \in (j + 1)..k, text[i] = "lf" PROVE LFs(text, j) # LFs(text, k)
  BY <1>0, <1>4 DEF LFs
<1>5. (\A i \in (j + 1)..k : text[i] # "lf") => LFs(text, j) = LFs(text, k)
  BY <1>0 DEF LFs
<1>6. QED
  BY <1>2, <1>3, <1>4, <1>5

\* A line is found by its number.
LEMMA NthIs ==
    ASSUME NEW text \in AnyText, NEW m \in Marks(text)
    PROVE  E!Nth(E!LineStarts(text), Cardinality(LFs(text, m))) = E!Upto(E!Bytes, text)[m]
<1> DEFINE n == Len(text)
           b == E!Upto(E!Bytes, text)
           starts == E!LineStarts(text)
           Rank(s) == Cardinality({r \in starts : r < s})
<1>1. n \in Nat /\ Marks(text) \in SUBSET (0..n) /\ \A j \in Marks(text) : j # 0 => text[j] = "lf"
  BY DEF AnyText, Marks
<1>2. starts = {b[j] : j \in Marks(text)}
  BY DEF E!LineStarts, Marks
<1>3. \A j \in Marks(text) : Rank(b[j]) = Cardinality(LFs(text, j))
  BY <1>1, LinesTo
<1>4. E!Nth(starts, Cardinality(LFs(text, m))) = CHOOSE s \in starts : Rank(s) = Cardinality(LFs(text, m))
  BY CountsAlike DEF E!Nth
<1> HIDE DEF Rank
<1>5. ASSUME NEW j \in Marks(text), NEW k \in Marks(text), j < k
      PROVE  Cardinality(LFs(text, j)) # Cardinality(LFs(text, k))
  <2>1. text[k] = "lf" /\ k \in (j + 1)..k /\ j \in 0..n /\ k \in 0..n
    BY <1>1, <1>5
  <2>2. Cardinality(LFs(text, j)) < Cardinality(LFs(text, k)) /\ Cardinality(LFs(text, j)) \in Nat /\ Cardinality(LFs(text, k)) \in Nat
    BY <1>5, <2>1, MoreLines
  <2>3. QED
    BY <2>2
<1>6. \A j \in Marks(text) : Cardinality(LFs(text, j)) = Cardinality(LFs(text, m)) => j = m
  BY <1>1, <1>5
<1> HIDE DEF b, starts
<1>7. b[m] \in starts /\ Rank(b[m]) = Cardinality(LFs(text, m))
  BY <1>2, <1>3
<1>8. \A s \in starts : Rank(s) = Cardinality(LFs(text, m)) => s = b[m]
  BY <1>2, <1>3, <1>6
<1>9. QED
  BY <1>4, <1>7, <1>8 DEF b, starts

\* The last line's start before a character.
LEMMA LineStartIs ==
    ASSUME NEW text \in AnyText, NEW k \in 0..Len(text)
    PROVE  /\ E!LineStart(text, k) \in 0..k /\ E!LineStart(text, k) \in Marks(text)
           /\ \A i \in (E!LineStart(text, k) + 1)..k : text[i] # "lf"
<1> DEFINE Is(m, j) == (j = 0 \/ text[j] = "lf") /\ \A i \in (j + 1)..m : text[i] # "lf"
           T == {m \in 0..k : \E j \in 0..m : Is(m, j)}
<1>0. Len(text) \in Nat /\ DOMAIN text = 1..Len(text) /\ k \in Nat
  BY DEF AnyText
<1>1. 0 \in T
  BY <1>0
<1>2. ASSUME NEW m \in 1..k, m - 1 \in T PROVE m \in T
  <2>1. PICK j \in 0..(m - 1) : Is(m - 1, j)
    BY <1>2
  <2>2. CASE text[m] = "lf"
    <3>1. Is(m, m) /\ m \in 0..m
      BY <2>2
    <3>2. QED
      BY <3>1
  <2>3. CASE text[m] # "lf"
    <3>1. Is(m, j) /\ j \in 0..m
      BY <2>1, <2>3
    <3>2. QED
      BY <3>1
  <2>4. QED
    BY <2>2, <2>3
<1>3. k \in T
  <2> HIDE DEF T
  <2>1. 0..k \subseteq T
    BY <1>0, <1>1, <1>2, UpTo
  <2>2. QED
    BY <2>1, <1>0
<1>4. \E j \in 0..k : Is(k, j)
  BY <1>3
<1>5. E!LineStart(text, k) = CHOOSE j \in 0..k : Is(k, j)
  BY DEF E!LineStart
<1>6. E!LineStart(text, k) \in 0..k /\ Is(k, E!LineStart(text, k))
  <2> HIDE DEF Is
  <2>1. QED
    BY <1>4, <1>5
<1>7. QED
  BY <1>0, <1>6 DEF Marks

\* A place has the line's number, and the units since its start.
LEMMA PlaceIs ==
    ASSUME NEW text \in AnyText, NEW k \in 0..Len(text)
    PROVE  E!Place(text, k) = [line |-> Cardinality(LFs(text, k)),
                               character |-> E!Upto(E!Units, text)[k] - E!Upto(E!Units, text)[E!LineStart(text, k)]]
BY CountsAlike DEF E!Place, LFs

LEMMA LineStartCounts ==
    ASSUME NEW text \in AnyText, NEW k \in 0..Len(text)
    PROVE  LFs(text, E!LineStart(text, k)) = LFs(text, k) /\ E!LineStart(text, k) \in 0..Len(text)
<1>1. Len(text) \in Nat
  BY DEF AnyText
<1>2. E!LineStart(text, k) \in 0..k /\ \A i \in (E!LineStart(text, k) + 1)..k : text[i] # "lf"
  BY LineStartIs
<1>3. E!LineStart(text, k) \in 0..Len(text) /\ E!LineStart(text, k) <= k
  BY <1>1, <1>2
<1>4. QED
  BY <1>2, <1>3, MoreLines

\* The server names a character's place as the client shows it.
LEMMA PositionIsPlace ==
    ASSUME NEW text \in AnyText, NEW k \in 0..Len(text)
    PROVE  E!Position(text, E!Upto(E!Bytes, text)[k]) = E!Place(text, k)
<1> DEFINE b == E!Upto(E!Bytes, text)
           starts == E!LineStarts(text)
           l == Cardinality(LFs(text, k))
           s == E!LineStart(text, k)
<1>1. E!CharAt(text, b[k]) = k
  BY CharAtIs
<1>2. Cardinality({r \in starts : r <= b[k]}) - 1 = l
  <2>1. Cardinality({r \in starts : r <= b[k]}) = l + 1 /\ l \in Nat
    BY LinesTo
  <2> HIDE DEF b, starts, l
  <2>2. QED
    BY <2>1
<1>3. E!Cardinality({r \in starts : r <= b[k]}) - 1 = l
  BY <1>2, CountsAlike
<1>4. s \in Marks(text) /\ s \in 0..Len(text) /\ LFs(text, s) = LFs(text, k)
  BY LineStartIs, LineStartCounts
<1>5. E!Nth(starts, l) = b[s]
  BY <1>4, NthIs
<1>6. E!CharAt(text, E!Nth(starts, l)) = s
  BY <1>4, <1>5, CharAtIs
<1>7. E!Position(text, b[k]) = [line |-> l, character |-> E!Upto(E!Units, text)[k] - E!Upto(E!Units, text)[s]]
  <2>1. E!Position(text, b[k]) =
          [line |-> E!Cardinality({r \in starts : r <= b[E!CharAt(text, b[k])]}) - 1,
           character |-> E!Upto(E!Units, text)[E!CharAt(text, b[k])]
                           - E!Upto(E!Units, text)[E!CharAt(text, E!Nth(starts, E!Cardinality({r \in starts : r <= b[E!CharAt(text, b[k])]}) - 1))]]
    BY DEF E!Position
  <2> HIDE DEF b, starts, l, s
  <2>2. QED
    BY <2>1, <1>1, <1>3, <1>6
<1>8. QED
  BY <1>7, PlaceIs

\* There are as many lines as line feeds, and one.
LEMMA LinesCount ==
    ASSUME NEW text \in AnyText
    PROVE  E!Cardinality(E!LineStarts(text)) = Cardinality(LFs(text, Len(text))) + 1
<1> DEFINE n == Len(text)
           b == E!Upto(E!Bytes, text)
<1>1. n \in Nat /\ n \in 0..n /\ Marks(text) \in SUBSET (0..n)
  BY DEF AnyText, Marks
<1>2. E!LineStarts(text) = {b[j] : j \in Marks(text)}
  BY DEF E!LineStarts, Marks
<1>3. \A j \in 0..n : b[j] <= b[n]
  <2>1. b \in [0..n -> Nat] /\ \A i, j \in 0..n : (i < j <=> b[i] < b[j]) /\ (i = j <=> b[i] = b[j])
    BY UptoGrows, UptoAdds, WidthsAre
  <2> HIDE DEF b
  <2>2. QED
    BY <1>1, <2>1
<1>4. {s \in E!LineStarts(text) : s <= b[n]} = E!LineStarts(text)
  <2> HIDE DEF b
  <2> QED
    BY <1>1, <1>2, <1>3
<1>5. QED
  BY <1>1, <1>4, LinesTo, CountsAlike

\* The end of the line a character is on: before the next line feed, or the end
\* of the text.
LineEnd(text, k, t) ==
    /\ t \in k..Len(text)
    /\ \A i \in (k + 1)..t : text[i] # "lf"
    /\ t = Len(text) \/ (t + 1 \in DOMAIN text /\ text[t + 1] = "lf")

LEMMA LineEnds ==
    ASSUME NEW text \in AnyText, NEW k \in 0..Len(text)
    PROVE  \E t \in k..Len(text) : LineEnd(text, k, t)
<1> DEFINE n == Len(text)
           T == {j \in (k + 1)..n : text[j] = "lf"}
<1>0. n \in Nat /\ DOMAIN text = 1..n /\ k \in Nat /\ k <= n
  BY DEF AnyText
<1>1. CASE T = {}
  <2>1. LineEnd(text, k, n)
    BY <1>0, <1>1 DEF LineEnd
  <2>2. QED
    BY <1>0, <2>1
<1>2. CASE T # {}
  <2>1. T \in SUBSET Nat
    BY <1>0
  <2>2. PICK j \in T : \A i \in T : j <= i
    BY <1>2, <2>1, FirstIs
  <2>3. j \in (k + 1)..n /\ text[j] = "lf" /\ \A i \in (k + 1)..n : text[i] = "lf" => j <= i
    BY <2>2
  <2>4. j - 1 \in k..n /\ (j - 1) + 1 \in DOMAIN text /\ (j - 1) + 1 = j
    BY <1>0, <2>3
  <2>5. \A i \in (k + 1)..(j - 1) : text[i] # "lf"
    BY <1>0, <2>3
  <2>6. LineEnd(text, k, j - 1)
    BY <2>3, <2>4, <2>5 DEF LineEnd
  <2>7. QED
    BY <2>4, <2>6
<1>3. QED
  BY <1>1, <1>2

\* The offset of a line's end, as offset() computes it.
LEMMA EndIs ==
    ASSUME NEW text \in AnyText, NEW k \in 0..Len(text), NEW t, LineEnd(text, k, t)
    PROVE  LET l == Cardinality(LFs(text, k))
               starts == E!LineStarts(text)
           IN  /\ l < E!Cardinality(starts)
               /\ E!Upto(E!Bytes, text)[t] =
                    (IF l + 1 < E!Cardinality(starts) THEN E!Nth(starts, l + 1) - 1
                     ELSE E!Upto(E!Bytes, text)[Len(text)])
<1> DEFINE n == Len(text)
           b == E!Upto(E!Bytes, text)
           l == Cardinality(LFs(text, k))
           starts == E!LineStarts(text)
           lines == E!Cardinality(starts)
           next == E!Nth(starts, l + 1)
           Goal == l < lines /\ b[t] = (IF l + 1 < lines THEN next - 1 ELSE b[n])
<1>0. n \in Nat /\ DOMAIN text = 1..n /\ k \in Nat /\ k <= n /\ n \in 0..n
  BY DEF AnyText
<1> SUFFICES Goal
  OBVIOUS
<1>1. lines = Cardinality(LFs(text, n)) + 1
  BY LinesCount
<1>2. l \in Nat /\ Cardinality(LFs(text, n)) \in Nat /\ l <= Cardinality(LFs(text, n))
  BY <1>0, MoreLines
<1>3. CASE t = n
  <2>1. LFs(text, k) = LFs(text, n)
    BY <1>0, <1>3, MoreLines DEF LineEnd
  <2> HIDE DEF starts, b, lines, next
  <2>2. l + 1 = lines
    BY <1>1, <2>1
  <2> HIDE DEF l
  <2>3. QED
    BY <1>2, <1>3, <2>2
<1>4. CASE t # n
  <2> DEFINE j == t + 1
  <2>1. t \in k..n /\ j \in (k + 1)..n /\ text[j] = "lf" /\ j \in 0..n /\ k <= j /\ t \in 0..n /\ j \in 1..n /\ j - 1 = t /\ k <= t
    <3>1. t \in k..n /\ t + 1 \in 1..n /\ text[t + 1] = "lf"
      BY <1>0, <1>4 DEF LineEnd
    <3> HIDE DEF n
    <3>2. QED
      BY <1>0, <3>1
  <2>2. j \in Marks(text)
    BY <1>0, <2>1 DEF Marks
  <2>3. LFs(text, t) = LFs(text, k)
    BY <2>1, MoreLines DEF LineEnd
  <2>4. LFs(text, j) = LFs(text, t) \cup {j} /\ j \notin LFs(text, t)
    BY <2>1 DEF LFs
  <2>5. LFs(text, t) \in SUBSET (0..n)
    BY <2>1, LinesTo
  <2>6. IsFiniteSet(LFs(text, t))
    BY <2>5, OffsetsCount
  <2>7. Cardinality(LFs(text, j)) = l + 1
    BY <2>3, <2>4, <2>6, FS_AddElement
  <2>8. E!Nth(starts, l + 1) = b[j]
    BY <2>2, <2>7, NthIs
  <2>9. b[j] = b[t] + 1 /\ b[t] \in Nat
    <3>1. b[j] = b[j - 1] + E!Bytes[text[j]] /\ b \in [0..n -> Nat]
      BY <2>1, UptoAdds, WidthsAre
    <3> HIDE DEF b, j
    <3>2. QED
      BY <2>1, <3>1, WidthsAre
  <2>10. Cardinality(LFs(text, j)) <= Cardinality(LFs(text, n))
    BY <1>0, <2>1, MoreLines
  <2> HIDE DEF starts, b, l, j, lines, next
  <2>11. l + 1 < lines /\ lines \in Nat
    BY <1>1, <1>2, <2>7, <2>10
  <2>12. b[t] = next - 1
    BY <2>8, <2>9 DEF next
  <2>13. QED
    BY <1>2, <2>11, <2>12
<1>5. QED
  BY <1>3, <1>4

\* The position of a cut, or one past the end of its line or of the text, is
\* mapped to it.
LEMMA OffsetIsCut ==
    ASSUME NEW text \in AnyText, E!WellEnded(text), E!EditsAssumption,
           NEW k \in E!Cuts(text), NEW p \in E!Positions(text, k)
    PROVE  E!Offset(text, p) = E!Upto(E!Bytes, text)[k]
<1> DEFINE n == Len(text)
           b == E!Upto(E!Bytes, text)
           u == E!Upto(E!Units, text)
           starts == E!LineStarts(text)
           lines == E!Cardinality(starts)
           l == Cardinality(LFs(text, k))
           s == E!LineStart(text, k)
           last(p1) == IF p1.line + 1 < lines THEN E!Nth(starts, p1.line + 1) - 1 ELSE b[n]
           stops(from, to, c) == {i \in (from + 1)..to : (i = to /\ text[i] = "cr") \/ u[i] - u[from] > c}
           Cut == E!AtEnd(text, k)
<1> SUFFICES E!Offset(text, p) = b[k]
  OBVIOUS
<1>0. n \in Nat /\ DOMAIN text = 1..n /\ k \in 0..n /\ k \in Nat /\ (k \in 1..n => text[k] # "cr")
  BY DEF AnyText, E!Cuts
<1>1. Past \subseteq Nat \ {0}
  BY DEF E!EditsAssumption
<1>2. E!Place(text, k) = [line |-> l, character |-> u[k] - u[s]]
  BY <1>0, PlaceIs
<1>3. s \in 0..k /\ s \in 0..n /\ s \in Marks(text) /\ LFs(text, s) = LFs(text, k)
  BY <1>0, LineStartIs, LineStartCounts
<1>4. u \in [0..n -> Nat] /\ \A i, j \in 0..n : (i < j <=> u[i] < u[j]) /\ (i = j <=> u[i] = u[j])
  BY UptoGrows, UptoAdds, WidthsAre
<1>5. \/ p.line = l /\ p.character \in Int /\ p.character >= u[k] - u[s] /\ (p.character # u[k] - u[s] => Cut)
      \/ k = n /\ \E d \in Past : p.line = l + d
  <2>1. u[k] - u[s] \in Int
    BY <1>0, <1>3, <1>4
  <2> HIDE DEF u, l, s, Cut
  <2>2. \/ p = E!Place(text, k)
        \/ Cut /\ \E d \in Past : p = [E!Place(text, k) EXCEPT !.character = @ + d]
        \/ k = n /\ \E d \in Past : \E c : p = [line |-> E!Place(text, k).line + d, character |-> c]
    BY DEF E!Positions, Cut
  <2>3. CASE p = E!Place(text, k)
    BY <1>2, <2>1, <2>3
  <2>4. ASSUME Cut, NEW d \in Past, p = [E!Place(text, k) EXCEPT !.character = @ + d]
        PROVE  p.line = l /\ p.character \in Int /\ p.character >= u[k] - u[s]
    <3>1. p.line = l /\ p.character = (u[k] - u[s]) + d /\ d \in Nat
      BY <1>1, <1>2, <2>4
    <3>2. QED
      BY <2>1, <3>1
  <2>5. ASSUME k = n, NEW d \in Past, NEW c, p = [line |-> E!Place(text, k).line + d, character |-> c]
        PROVE  p.line = l + d
    BY <1>2, <2>5
  <2>6. QED
    BY <2>2, <2>3, <2>4, <2>5
<1>6. lines = Cardinality(LFs(text, n)) + 1 /\ Cardinality(LFs(text, n)) \in Nat
  <2>1. n \in 0..n
    BY <1>0
  <2>2. Cardinality(LFs(text, n)) \in Nat
    BY <2>1, LinesTo
  <2>3. QED
    BY <2>2, LinesCount
<1>7. E!Offset(text, p) =
        IF p.line >= lines THEN b[n]
        ELSE IF stops(E!CharAt(text, E!Nth(starts, p.line)), E!CharAt(text, last(p)), p.character) = {} THEN last(p)
        ELSE b[E!First(stops(E!CharAt(text, E!Nth(starts, p.line)), E!CharAt(text, last(p)), p.character)) - 1]
  BY DEF E!Offset
<1>8. CASE k = n /\ \E d \in Past : p.line = l + d
  <2> HIDE DEF starts, stops, last, b, lines
  <2>1. p.line >= lines /\ k = n
    <3>1. PICK d \in Past : p.line = l + d
      BY <1>8
    <3>2. d \in Nat /\ d # 0 /\ l = Cardinality(LFs(text, n))
      BY <1>1, <1>8
    <3> HIDE DEF l
    <3>3. QED
      BY <1>6, <1>8, <3>1, <3>2
  <2>2. QED
    BY <1>7, <2>1
<1>9. CASE p.line = l /\ p.character \in Int /\ p.character >= u[k] - u[s] /\ (p.character # u[k] - u[s] => Cut)
  <2>1. PICK t \in k..n : LineEnd(text, k, t)
    BY <1>0, LineEnds
  <2>2. l < lines /\ b[t] = last(p)
    BY <1>0, <1>9, <2>1, EndIs
  <2>3. E!CharAt(text, E!Nth(starts, p.line)) = s
    <3>1. E!Nth(starts, l) = b[s]
      BY <1>3, NthIs
    <3>2. QED
      BY <1>3, <1>9, <3>1, CharAtIs
  <2>4. t \in 0..n /\ t \in Nat /\ k <= t
    BY <1>0, <2>1
  <2>5. E!CharAt(text, b[t]) = t
    BY <2>4, CharAtIs
  <2> DEFINE stopped == stops(s, t, p.character)
  <2>6. E!Offset(text, p) = IF stopped = {} THEN b[t] ELSE b[E!First(stopped) - 1]
    <3>1. l \in Nat
      BY <1>0, LinesTo
    <3>2. E!CharAt(text, last(p)) = t
      BY <2>2, <2>5
    <3> HIDE DEF starts, stops, last, b, lines, l, s
    <3>3. ~(p.line >= lines)
      BY <1>6, <1>9, <2>2, <3>1
    <3>4. QED
      BY <1>7, <2>2, <2>3, <3>2, <3>3
  <2>7. stopped \subseteq (k + 1)..t
    <3>1. ASSUME NEW i \in stopped PROVE i \in (k + 1)..t
      <4>0. i \in 0..n /\ i \in 1..n /\ i <= t
        BY <1>0, <1>3, <2>4
      <4>1. CASE i = t /\ text[i] = "cr"
        BY <1>0, <4>0, <4>1, <2>4
      <4>2. CASE u[i] - u[s] > p.character
        <5> HIDE DEF u, s
        <5>1. u[i] > u[k]
          BY <1>0, <1>3, <1>4, <1>9, <4>0, <4>2
        <5>2. k < i
          BY <1>0, <1>4, <4>0, <5>1
        <5>3. QED
          BY <1>0, <2>4, <4>0, <5>2
      <4>3. QED
        BY <4>1, <4>2
    <3>2. QED
      BY <3>1
  <2>8. ASSUME k < t PROVE k + 1 \in stopped
    <3>1. k + 1 \in (s + 1)..t /\ k + 1 \in 0..n /\ k + 1 \in 1..n
      BY <1>0, <1>3, <2>4, <2>8
    <3>2. CASE p.character = u[k] - u[s]
      <4> HIDE DEF u, s
      <4>1. u[k + 1] > u[k]
        BY <1>0, <1>4, <3>1
      <4>2. u[k + 1] - u[s] > p.character
        BY <1>0, <1>3, <1>4, <3>1, <3>2, <4>1
      <4>3. QED
        BY <3>1, <4>2 DEF stops
    <3>3. CASE Cut
      <4>1. text[k + 1] \in {"cr", "lf"} /\ text[k + 1] # "lf"
        <5>1. k + 1 \in (k + 1)..t
          BY <1>0, <2>4, <2>8
        <5>2. QED
          BY <1>0, <2>1, <3>1, <3>3, <5>1 DEF LineEnd, E!AtEnd
      <4>2. k + 2 \in 1..n /\ text[k + 2] = "lf"
        BY <1>0, <3>1, <4>1 DEF E!WellEnded
      <4>3. t = k + 1
        <5>1. k + 2 \notin (k + 1)..t
          BY <2>1, <4>2 DEF LineEnd
        <5>2. QED
          BY <1>0, <2>4, <2>8, <5>1
      <4>4. QED
        BY <3>1, <4>1, <4>3
    <3>4. QED
      BY <1>9, <3>2, <3>3
  <2> HIDE DEF stopped, b
  <2>9. CASE k < t
    <3>1. stopped \in SUBSET Nat /\ stopped # {}
      BY <1>0, <2>4, <2>7, <2>8, <2>9
    <3>2. E!First(stopped) \in stopped /\ E!First(stopped) <= k + 1
      BY <2>8, <2>9, <3>1, FirstIs
    <3>3. E!First(stopped) = k + 1
      <4> DEFINE i == E!First(stopped)
      <4>1. i \in (k + 1)..t /\ i <= k + 1
        BY <2>7, <3>2
      <4> HIDE DEF i
      <4>2. i = k + 1
        BY <1>0, <2>4, <4>1
      <4>3. QED
        BY <4>2 DEF i
    <3>4. E!First(stopped) - 1 = k
      BY <1>0, <3>3
    <3>5. QED
      BY <2>6, <3>1, <3>4
  <2>10. CASE k = t
    <3>1. stopped = {}
      BY <1>0, <2>4, <2>7, <2>10
    <3>2. QED
      BY <2>6, <2>10, <3>1
  <2>11. QED
    BY <1>0, <2>4, <2>9, <2>10
<1>10. QED
  BY <1>5, <1>8, <1>9

------------------------------------------------------------------------------
(***************************************************************************)
(* Changes.                                                                *)
(***************************************************************************)
\* What a concatenation is.
LEMMA Joined ==
    ASSUME NEW T, NEW a \in Seq(T), NEW c \in Seq(T)
    PROVE  /\ a \o c \in Seq(T) /\ Len(a \o c) = Len(a) + Len(c)
           /\ \A i \in 1..Len(a) : (a \o c)[i] = a[i]
           /\ \A i \in 1..Len(c) : (a \o c)[Len(a) + i] = c[i]
OBVIOUS

\* What is left of a sequence after its first parts.
LEMMA After ==
    ASSUME NEW T, NEW a \in Seq(T), NEW m \in 0..Len(a)
    PROVE  LET rest == SubSeq(a, m + 1, Len(a))
           IN  rest \in Seq(T) /\ Len(rest) = Len(a) - m /\ \A i \in 1..(Len(a) - m) : rest[i] = a[m + i]
<1> DEFINE n == Len(a)
           d == n - m
           rest == SubSeq(a, m + 1, n)
<1>0. n \in Nat /\ m \in Nat /\ d \in Nat /\ n = m + d
  OBVIOUS
<1>1. \A i \in (m + 1)..n : i \in 1..n /\ a[i] \in T
  BY <1>0
<1>2. rest = [i \in 1..d |-> a[m + i]]
  <2>1. n - (m + 1) + 1 = d
    BY <1>0
  <2>2. rest = [i \in 1..(n - (m + 1) + 1) |-> a[i + (m + 1) - 1]]
    BY <1>0
  <2>3. \A i \in 1..d : i + (m + 1) - 1 = m + i
    BY <1>0
  <2> HIDE DEF d, rest, n
  <2>4. QED
    BY <2>1, <2>2, <2>3
<1>3. \A i \in 1..d : a[m + i] \in T
  BY <1>0, <1>1
<1> HIDE DEF d, rest, n
<1>4. rest \in [1..d -> T]
  BY <1>2, <1>3
<1>5. rest \in Seq(T) /\ Len(rest) = d
  BY <1>0, <1>4
<1>6. QED
  BY <1>2, <1>5 DEF d, rest, n

\* An edited text is what came before, the new part, and what came after.
LEMMA EditedIs ==
    ASSUME NEW text \in AnyText, NEW new \in AnyText,
           NEW from \in 0..Len(text), NEW to \in 0..Len(text)
    PROVE  LET e == E!Edited(text, from, to, new)
               m == Len(new)
           IN  /\ e \in AnyText /\ DOMAIN e = 1..Len(e) /\ Len(e) \in Nat
               /\ Len(e) = from + m + (Len(text) - to)
               /\ \A i \in 1..from : e[i] = text[i]
               /\ \A i \in 1..m : e[from + i] = new[i]
               /\ \A i \in 1..(Len(text) - to) : e[from + m + i] = text[to + i]
<1> DEFINE A == SubSeq(text, 1, from)
           C == SubSeq(text, to + 1, Len(text))
           n == Len(text)
           m == Len(new)
           e == E!Edited(text, from, to, new)
<1>0. n \in Nat /\ m \in Nat /\ text \in Seq(E!Chars) /\ new \in Seq(E!Chars) /\ from \in Nat /\ to \in Nat
  BY DEF AnyText
<1>1. A \in Seq(E!Chars) /\ Len(A) = from /\ \A i \in 1..from : A[i] = text[i]
  BY <1>0
<1>2. C \in Seq(E!Chars) /\ Len(C) = n - to /\ \A i \in 1..(n - to) : C[i] = text[to + i]
  BY <1>0, After
<1>3. e = (A \o new) \o C
  BY DEF E!Edited
<1> HIDE DEF A, C, e, n, m
<1> DEFINE B == A \o new
<1>4. B \in Seq(E!Chars) /\ Len(B) = from + m
  BY <1>0, <1>1, Joined DEF m
<1>5. (\A i \in 1..from : B[i] = text[i]) /\ (\A i \in 1..m : B[from + i] = new[i])
  <2>1. (\A i \in 1..Len(A) : B[i] = A[i]) /\ (\A i \in 1..Len(new) : B[Len(A) + i] = new[i])
    BY <1>0, <1>1, Joined
  <2>2. QED
    BY <1>1, <2>1 DEF m
<1> HIDE DEF B
<1>6. e = B \o C
  BY <1>3 DEF B
<1>7. e \in Seq(E!Chars) /\ Len(e) = from + m + (n - to)
  BY <1>2, <1>4, <1>6, Joined
<1>8. (\A i \in 1..(from + m) : e[i] = B[i]) /\ (\A i \in 1..(n - to) : e[from + m + i] = C[i])
  <2>0. (\A i \in 1..Len(B) : (B \o C)[i] = B[i]) /\ (\A i \in 1..Len(C) : (B \o C)[Len(B) + i] = C[i])
    <3>1. C \in Seq(E!Chars) /\ B \in Seq(E!Chars)
      BY <1>2, <1>4
    <3>2. QED
      BY ONLY <3>1, Joined
  <2>1. (\A i \in 1..Len(B) : e[i] = B[i]) /\ (\A i \in 1..Len(C) : e[Len(B) + i] = C[i])
    BY <2>0, <1>6, Zenon
  <2>2. \A i \in 1..(from + m) : e[i] = B[i]
    BY <1>4, <2>1
  <2>3. Len(B) = from + m /\ Len(C) = n - to
    BY <1>2, <1>4
  <2>4. \A i \in 1..(n - to) : e[from + m + i] = C[i]
    BY <2>1, <2>3
  <2>5. QED
    BY <2>2, <2>4
<1>10. Len(e) \in Nat /\ DOMAIN e = 1..Len(e) /\ e \in AnyText
  BY <1>7 DEF AnyText
<1>11. \A i \in 1..from : e[i] = text[i]
  BY <1>0, <1>5, <1>8
<1>12. \A i \in 1..m : e[from + i] = new[i]
  <2>1. \A i \in 1..m : from + i \in 1..(from + m)
    BY <1>0
  <2>2. QED
    BY <2>1, <1>5, <1>8
<1>13. QED
  BY <1>2, <1>7, <1>8, <1>10, <1>11, <1>12 DEF n, m, e

\* An edit between two cuts leaves no lone carriage return.
LEMMA EditedWellEnded ==
    ASSUME NEW text \in AnyText, NEW new \in AnyText, E!WellEnded(text), E!WellEnded(new),
           NEW from \in E!Cuts(text), NEW to \in E!Cuts(text)
    PROVE  E!WellEnded(E!Edited(text, from, to, new))
<1> DEFINE e == E!Edited(text, from, to, new)
           n == Len(text)
           m == Len(new)
           r == n - to
<1>0. /\ n \in Nat /\ m \in Nat /\ DOMAIN text = 1..n /\ DOMAIN new = 1..m
      /\ from \in 0..n /\ to \in 0..n /\ r \in Nat
      /\ (from \in 1..n => text[from] # "cr")
  BY DEF AnyText, E!Cuts
<1>1. /\ DOMAIN e = 1..(from + m + r)
      /\ \A i \in 1..from : e[i] = text[i]
      /\ \A i \in 1..m : e[from + i] = new[i]
      /\ \A i \in 1..r : e[from + m + i] = text[to + i]
  <2>1. from \in 0..Len(text) /\ to \in 0..Len(text)
    BY <1>0
  <2>2. /\ DOMAIN e = 1..Len(e) /\ Len(e) = from + m + r
        /\ \A i \in 1..from : e[i] = text[i]
        /\ \A i \in 1..m : e[from + i] = new[i]
        /\ \A i \in 1..r : e[from + m + i] = text[to + i]
    BY <2>1, EditedIs
  <2>3. QED
    BY <2>2
<1>2. /\ \A i \in 1..n : text[i] = "cr" => i + 1 \in 1..n /\ text[i + 1] = "lf"
      /\ \A i \in 1..m : new[i] = "cr" => i + 1 \in 1..m /\ new[i + 1] = "lf"
  BY <1>0 DEF E!WellEnded
<1> SUFFICES \A i \in 1..(from + m + r) : e[i] = "cr" => i + 1 \in 1..(from + m + r) /\ e[i + 1] = "lf"
  BY <1>1 DEF E!WellEnded
<1> HIDE DEF e
<1>3. ASSUME NEW i \in 1..from, text[i] = "cr" PROVE i + 1 \in 1..from /\ text[i + 1] = "lf"
  BY <1>0, <1>2, <1>3
<1>4. ASSUME NEW i \in 1..r, text[to + i] = "cr" PROVE i + 1 \in 1..r /\ text[to + (i + 1)] = "lf"
  <2>1. to + i \in 1..n /\ (to + i) + 1 = to + (i + 1)
    BY <1>0
  <2>2. to + (i + 1) \in 1..n /\ text[to + (i + 1)] = "lf"
    BY <1>2, <1>4, <2>1
  <2>3. QED
    BY <1>0, <2>2
<1> SUFFICES ASSUME NEW i \in 1..(from + m + r), e[i] = "cr"
             PROVE  i + 1 \in 1..(from + m + r) /\ e[i + 1] = "lf"
  OBVIOUS
<1>5. CASE i \in 1..from
  <2>1. i + 1 \in 1..from /\ e[i + 1] = "lf"
    BY <1>1, <1>3, <1>5
  <2> HIDE DEF n, m, r
  <2>2. QED
    BY <1>0, <2>1
<1>6. ASSUME NEW j \in 1..m, i = from + j PROVE i + 1 \in 1..(from + m + r) /\ e[i + 1] = "lf"
  <2>1. new[j] = "cr"
    BY <1>1, <1>6
  <2>2. j + 1 \in 1..m /\ new[j + 1] = "lf"
    BY <1>2, <2>1
  <2>3. e[from + (j + 1)] = "lf"
    BY <1>1, <2>2
  <2> HIDE DEF n, m, r
  <2>4. from + (j + 1) = i + 1 /\ i + 1 \in 1..(from + m + r)
    BY <1>0, <1>6, <2>2
  <2>5. QED
    BY <2>3, <2>4
<1>7. ASSUME NEW j \in 1..r, i = from + m + j PROVE i + 1 \in 1..(from + m + r) /\ e[i + 1] = "lf"
  <2>1. text[to + j] = "cr"
    BY <1>1, <1>7
  <2>2. j + 1 \in 1..r /\ text[to + (j + 1)] = "lf"
    BY <1>4, <2>1
  <2>3. e[from + m + (j + 1)] = "lf"
    BY <1>1, <2>2
  <2> HIDE DEF n, m, r
  <2>4. from + m + (j + 1) = i + 1 /\ i + 1 \in 1..(from + m + r)
    BY <1>0, <1>7, <2>2
  <2>5. QED
    BY <2>3, <2>4
<1>8. i \in 1..from \/ (\E j \in 1..m : i = from + j) \/ (\E j \in 1..r : i = from + m + j)
  <2> HIDE DEF n, m, r
  <2>1. CASE i <= from
    BY <1>0, <2>1
  <2>2. CASE i > from /\ i <= from + m
    <3>1. i - from \in 1..m /\ i = from + (i - from)
      BY <1>0, <2>2
    <3>2. QED
      BY <3>1
  <2>3. CASE i > from + m
    <3>1. i - (from + m) \in 1..r /\ i = from + m + (i - (from + m))
      BY <1>0, <2>3
    <3>2. QED
      BY <3>1
  <2>4. QED
    BY <1>0, <2>1, <2>2, <2>3
<1>9. QED
  BY <1>5, <1>6, <1>7, <1>8


\* What a client sends.
Spots   == [line : Nat, character : Int]
Changes == [ranged : {TRUE}, start : Spots, end : Spots, text : AnyText]
             \cup [ranged : {FALSE}, text : AnyText]

LEMMA PositionsAre ==
    ASSUME NEW text \in AnyText, E!EditsAssumption, NEW k \in E!Cuts(text)
    PROVE  E!Positions(text, k) \subseteq Spots
<1> DEFINE u == E!Upto(E!Units, text)
           s == E!LineStart(text, k)
           l == Cardinality(LFs(text, k))
<1>0. Past \subseteq Nat /\ k \in 0..Len(text)
  BY DEF E!EditsAssumption, E!Cuts
<1>1. E!Place(text, k) = [line |-> l, character |-> u[k] - u[s]]
  BY <1>0, PlaceIs
<1>2. l \in Nat /\ u[k] - u[s] \in Int
  <2>1. l \in Nat /\ s \in 0..Len(text)
    BY <1>0, LinesTo, LineStartCounts
  <2>2. u \in [0..Len(text) -> Nat]
    BY UptoAdds, WidthsAre
  <2> HIDE DEF l, u, s
  <2>3. QED
    BY <1>0, <2>1, <2>2
<1> HIDE DEF l, u, s
<1> SUFFICES ASSUME NEW p \in E!Positions(text, k) PROVE p \in Spots
  OBVIOUS
<1>3. \/ p = E!Place(text, k)
      \/ \E d \in Past : p = [E!Place(text, k) EXCEPT !.character = @ + d]
      \/ \E d, c \in Past : p = [line |-> E!Place(text, k).line + d, character |-> c]
  BY DEF E!Positions
<1>4. CASE p = E!Place(text, k)
  BY <1>1, <1>2, <1>4 DEF Spots
<1>5. ASSUME NEW d \in Past, p = [E!Place(text, k) EXCEPT !.character = @ + d] PROVE p \in Spots
  <2>1. p = [line |-> l, character |-> (u[k] - u[s]) + d] /\ d \in Nat
    BY <1>0, <1>1, <1>5
  <2>2. QED
    BY <1>2, <2>1 DEF Spots
<1>6. ASSUME NEW d \in Past, NEW c \in Past, p = [line |-> E!Place(text, k).line + d, character |-> c]
      PROVE  p \in Spots
  <2>1. p = [line |-> l + d, character |-> c] /\ d \in Nat /\ c \in Int
    BY <1>0, <1>1, <1>6
  <2>2. QED
    BY <1>2, <2>1 DEF Spots
<1>7. QED
  BY <1>3, <1>4, <1>5, <1>6

\* A change leaves a text.
LEMMA Splices ==
    ASSUME NEW text \in AnyText, NEW change \in Changes
    PROVE  E!Splice(text, text, change) \in AnyText
<1> DEFINE start == E!Offset(text, change.start)
           stop == E!Offset(text, change.end)
           end == IF stop < start THEN start ELSE stop
           i == E!CharAt(text, start)
           j == E!CharAt(text, end)
<1>1. i \in 0..Len(text) /\ j \in 0..Len(text) /\ change.text \in AnyText
  BY CharAtIs DEF Changes
<1>2. E!Edited(text, i, j, change.text) \in AnyText
  <2> HIDE DEF i, j
  <2>1. QED
    BY <1>1, EditedIs
<1>3. E!Splice(text, text, change) = IF ~change.ranged THEN change.text ELSE E!Edited(text, i, j, change.text)
  BY DEF E!Splice, E!Edited
<1>4. QED
  BY <1>1, <1>2, <1>3, Zenon

\* What a list of changes makes of a text, one by one.
Steps(text, changes) ==
    {a \in [0..Len(changes) -> AnyText] :
        a[0] = text /\ \A k \in 1..Len(changes) : a[k] = E!Splice(a[k - 1], a[k - 1], changes[k])}

LEMMA Applies ==
    ASSUME NEW text \in AnyText, NEW changes \in Seq(Changes)
    PROVE  /\ Steps(text, changes) # {}
           /\ \A a \in Steps(text, changes) : E!ApplyContentChanges(text, changes) = a[Len(changes)]
<1> DEFINE n == Len(changes)
           F == [k \in 1..n |-> [x \in AnyText |-> E!Splice(x, x, changes[k])]]
           Is(after) == after = [k \in 0..n |-> IF k = 0 THEN text ELSE E!Splice(after[k - 1], after[k - 1], changes[k])]
           u == CHOOSE after : Is(after)
<1>1. n \in Nat /\ \A k \in 1..n : changes[k] \in Changes
  OBVIOUS
<1>2. F \in [1..n -> [AnyText -> AnyText]]
  BY <1>1, Splices
<1>3. PICK a : a \in Iterated(AnyText, n, F, text)
  <2> HIDE DEF F, n
  <2>1. QED
    BY <1>1, <1>2, Iterates
<1>4. a \in [0..n -> AnyText] /\ a[0] = text /\ \A k \in 1..n : a[k] = F[k][a[k - 1]]
  BY <1>3 DEF Iterated
<1>5. ASSUME NEW k \in 1..n PROVE a[k] = E!Splice(a[k - 1], a[k - 1], changes[k])
  <2>1. k - 1 \in 0..n
    BY <1>1
  <2>2. a[k - 1] \in AnyText
    BY <1>4, <2>1
  <2> HIDE DEF n
  <2>3. F[k][a[k - 1]] = E!Splice(a[k - 1], a[k - 1], changes[k])
    BY <2>2
  <2>4. QED
    BY <1>4, <2>3
<1>6. a \in Steps(text, changes)
  BY <1>4, <1>5 DEF Steps
<1>7. ASSUME NEW c \in Steps(text, changes) PROVE Is(c)
  <2> DEFINE d == [k \in 0..n |-> IF k = 0 THEN text ELSE E!Splice(c[k - 1], c[k - 1], changes[k])]
  <2>1. c \in [0..n -> AnyText] /\ c[0] = text /\ \A k \in 1..n : c[k] = E!Splice(c[k - 1], c[k - 1], changes[k])
    BY <1>7 DEF Steps
  <2>2. ASSUME NEW k \in 0..n PROVE c[k] = d[k]
    <3>1. CASE k = 0
      BY <2>1, <3>1
    <3>2. CASE k # 0
      <4>1. k \in 1..n
        BY <1>1, <3>2
      <4> HIDE DEF n
      <4>2. QED
        BY <2>1, <3>2, <4>1
    <3>3. QED
      BY <3>1, <3>2
  <2>3. c = [k \in 0..n |-> c[k]] /\ d = [k \in 0..n |-> d[k]]
    BY <2>1
  <2>4. c = d
    <3> HIDE DEF d, n
    <3> QED
      BY <2>2, <2>3
  <2>5. QED
    BY <2>4
<1>8. Is(u)
  <2>1. Is(a)
    BY <1>6, <1>7
  <2> HIDE DEF Is
  <2>2. QED
    BY <2>1
<1>9. E!ApplyContentChanges(text, changes) = u[n]
  BY DEF E!ApplyContentChanges
<1> HIDE DEF u
<1>10. \A k \in 0..n : u[k] = IF k = 0 THEN text ELSE E!Splice(u[k - 1], u[k - 1], changes[k])
  <2> HIDE DEF n
  <2>1. QED
    BY <1>8
<1>11. ASSUME NEW c \in Steps(text, changes) PROVE u[n] = c[n]
  <2> DEFINE T == {k \in 0..n : u[k] = c[k]}
  <2>0. c[0] = text /\ \A k \in 1..n : c[k] = E!Splice(c[k - 1], c[k - 1], changes[k])
    BY <1>11 DEF Steps
  <2>1. 0 \in T
    BY <1>1, <1>10, <2>0
  <2>2. ASSUME NEW k \in 1..n, k - 1 \in T PROVE k \in T
    <3>1. k \in 0..n /\ k # 0
      BY <1>1
    <3>2. u[k - 1] = c[k - 1]
      BY <2>2
    <3> HIDE DEF n
    <3>3. u[k] = E!Splice(u[k - 1], u[k - 1], changes[k])
      BY <1>10, <3>1
    <3>4. u[k] = c[k]
      BY <2>0, <3>2, <3>3
    <3>5. QED
      BY <3>1, <3>4
  <2> HIDE DEF T, n
  <2>3. 0..n \subseteq T
    BY <1>1, <2>1, <2>2, UpTo
  <2>4. n \in T
    BY <1>1, <2>3
  <2>5. QED
    BY <2>4 DEF T
<1>12. QED
  BY <1>6, <1>9, <1>11

\* One change more is one splice more.
LEMMA AppliesMore ==
    ASSUME NEW text \in AnyText, NEW changes \in Seq(Changes), NEW change \in Changes
    PROVE  E!ApplyContentChanges(text, Append(changes, change)) =
             LET now == E!ApplyContentChanges(text, changes) IN E!Splice(now, now, change)
<1> DEFINE n == Len(changes)
           more == Append(changes, change)
<1>1. n \in Nat /\ more \in Seq(Changes) /\ Len(more) = n + 1 /\ more[n + 1] = change /\ \A k \in 1..n : more[k] = changes[k]
  OBVIOUS
<1> HIDE DEF more
<1>2. PICK a : a \in Steps(text, more)
  BY <1>1, Applies
<1>3. /\ a \in [0..(n + 1) -> AnyText] /\ a[0] = text
      /\ \A k \in 1..(n + 1) : a[k] = E!Splice(a[k - 1], a[k - 1], more[k])
  BY <1>1, <1>2 DEF Steps
<1> DEFINE c == [k \in 0..n |-> a[k]]
<1>4. c \in Steps(text, changes)
  <2>1. 0..n \subseteq 0..(n + 1) /\ 0 \in 0..n
    BY <1>1
  <2>2. c \in [0..n -> AnyText] /\ c[0] = text
    BY <1>3, <2>1
  <2>3. ASSUME NEW k \in 1..n PROVE c[k] = E!Splice(c[k - 1], c[k - 1], changes[k])
    <3>1. k \in 0..n /\ k - 1 \in 0..n /\ k \in 1..(n + 1)
      BY <1>1
    <3>2. c[k] = a[k] /\ c[k - 1] = a[k - 1] /\ more[k] = changes[k]
      BY <1>1, <3>1
    <3> HIDE DEF c, n
    <3>3. QED
      BY <1>3, <3>1, <3>2
  <2> HIDE DEF c
  <2>4. QED
    BY <2>2, <2>3 DEF Steps
<1>5. E!ApplyContentChanges(text, changes) = c[n]
  <2> HIDE DEF c
  <2>1. QED
    BY <1>4, Applies
<1>6. c[n] = a[n]
  BY <1>1
<1>7. E!ApplyContentChanges(text, more) = a[n + 1]
  BY <1>1, <1>2, Applies
<1>8. a[n + 1] = E!Splice(a[n], a[n], change)
  <2>1. n + 1 \in 1..(n + 1) /\ (n + 1) - 1 = n
    BY <1>1
  <2> HIDE DEF n
  <2>2. QED
    BY <1>1, <1>3, <2>1
<1>9. QED
  BY <1>5, <1>6, <1>7, <1>8 DEF more

\* The first changes, and then the others, come to the same.
LEMMA AppliesInParts ==
    ASSUME NEW text \in AnyText, NEW changes \in Seq(Changes), NEW m \in 0..Len(changes)
    PROVE  LET first == SubSeq(changes, 1, m)
               rest == SubSeq(changes, m + 1, Len(changes))
           IN  /\ first \in Seq(Changes) /\ rest \in Seq(Changes)
               /\ E!ApplyContentChanges(text, first) \in AnyText
               /\ E!ApplyContentChanges(E!ApplyContentChanges(text, first), rest) = E!ApplyContentChanges(text, changes)
<1> DEFINE n == Len(changes)
           first == SubSeq(changes, 1, m)
           rest == SubSeq(changes, m + 1, Len(changes))
           r == n - m
<1>0. n \in Nat /\ m \in Nat /\ m <= n /\ r \in Nat
  OBVIOUS
<1>1. first \in Seq(Changes) /\ Len(first) = m /\ \A k \in 1..m : first[k] = changes[k]
  BY <1>0
<1>2. rest \in Seq(Changes) /\ Len(rest) = r /\ \A k \in 1..r : rest[k] = changes[m + k]
  BY <1>0, After
<1> HIDE DEF first, rest
<1>3. PICK a : a \in Steps(text, changes)
  BY Applies
<1>4. /\ a \in [0..n -> AnyText] /\ a[0] = text
      /\ \A k \in 1..n : a[k] = E!Splice(a[k - 1], a[k - 1], changes[k])
  BY <1>3 DEF Steps
<1>5. E!ApplyContentChanges(text, changes) = a[n] /\ a[m] \in AnyText
  BY <1>0, <1>3, <1>4, Applies
<1> HIDE DEF n
<1> DEFINE c == [k \in 0..m |-> a[k]]
           d == [k \in 0..r |-> a[m + k]]
<1>6. c \in Steps(text, first)
  <2>1. 0..m \subseteq 0..n /\ 0 \in 0..m
    BY <1>0
  <2>2. c \in [0..m -> AnyText] /\ c[0] = text
    BY <1>4, <2>1
  <2>3. ASSUME NEW k \in 1..m PROVE c[k] = E!Splice(c[k - 1], c[k - 1], first[k])
    <3>1. k \in 0..m /\ k - 1 \in 0..m /\ k \in 1..n
      BY <1>0
    <3>2. c[k] = a[k] /\ c[k - 1] = a[k - 1] /\ first[k] = changes[k]
      BY <1>1, <3>1
    <3> HIDE DEF c
    <3>3. QED
      BY <1>4, <3>1, <3>2
  <2> HIDE DEF c
  <2>4. QED
    BY <1>1, <2>2, <2>3 DEF Steps
<1>7. d \in Steps(a[m], rest)
  <2>1. \A k \in 0..r : m + k \in 0..n
    BY <1>0
  <2>2. d \in [0..r -> AnyText]
    BY <1>4, <2>1
  <2>3. d[0] = a[m]
    BY <1>0
  <2>4. ASSUME NEW k \in 1..r PROVE d[k] = E!Splice(d[k - 1], d[k - 1], rest[k])
    <3>1. k \in 0..r /\ k - 1 \in 0..r /\ m + k \in 1..n /\ m + (k - 1) = (m + k) - 1
      BY <1>0
    <3>2. d[k] = a[m + k] /\ d[k - 1] = a[(m + k) - 1] /\ rest[k] = changes[m + k]
      BY <1>2, <3>1
    <3> HIDE DEF d, r
    <3>3. QED
      BY <1>4, <3>1, <3>2
  <2> HIDE DEF d, r
  <2>5. QED
    BY <1>2, <2>2, <2>3, <2>4 DEF Steps
<1>8. c[m] = a[m] /\ d[r] = a[n]
  <2>1. m \in 0..m /\ r \in 0..r /\ m + r = n
    BY <1>0
  <2> HIDE DEF r
  <2>2. QED
    BY <2>1
<1> HIDE DEF c, d, r
<1>9. E!ApplyContentChanges(text, first) = a[m]
  BY <1>1, <1>6, <1>8, Applies
<1>10. E!ApplyContentChanges(a[m], rest) = a[n]
  BY <1>2, <1>5, <1>7, <1>8, Applies
<1>11. QED
  BY <1>1, <1>2, <1>5, <1>9, <1>10 DEF first, rest

\* No changes change nothing.
LEMMA AppliesNone ==
    ASSUME NEW text \in AnyText
    PROVE  E!ApplyContentChanges(text, <<>>) = text
<1>1. <<>> \in Seq(Changes) /\ Len(<<>>) = 0
  OBVIOUS
<1>2. PICK a : a \in Steps(text, <<>>)
  BY <1>1, Applies
<1>3. E!ApplyContentChanges(text, <<>>) = a[0]
  BY <1>1, <1>2, Applies
<1>4. QED
  BY <1>2, <1>3 DEF Steps

\* An edit, as it is sent, makes of the client's text what the client made of it.
LEMMA EditIsSent ==
    ASSUME NEW text \in AnyText, E!WellEnded(text), E!EditsAssumption, NEW new \in AnyText,
           NEW from \in E!Cuts(text), NEW to \in E!Cuts(text), from <= to,
           NEW start \in E!Positions(text, from), NEW end \in E!Positions(text, to)
    PROVE  LET change == [ranged |-> TRUE, start |-> start, end |-> end, text |-> new]
           IN  change \in Changes /\ E!Splice(text, text, change) = E!Edited(text, from, to, new)
<1> DEFINE change == [ranged |-> TRUE, start |-> start, end |-> end, text |-> new]
           b == E!Upto(E!Bytes, text)
<1>0. from \in 0..Len(text) /\ to \in 0..Len(text)
  BY DEF E!Cuts
<1>1. change \in Changes
  BY PositionsAre DEF Changes
<1>2. E!Offset(text, start) = b[from] /\ E!Offset(text, end) = b[to]
  BY OffsetIsCut
<1>3. ~(b[to] < b[from])
  <2>1. to < from <=> b[to] < b[from]
    BY <1>0, UptoGrows, WidthsAre
  <2> HIDE DEF b
  <2>2. Len(text) \in Nat
    BY DEF AnyText
  <2>3. QED
    BY <1>0, <2>1, <2>2
<1>4. E!CharAt(text, b[from]) = from /\ E!CharAt(text, b[to]) = to
  BY <1>0, CharAtIs
<1>5. E!Splice(text, text, change) =
        LET s == E!Offset(text, start)
            t == E!Offset(text, end)
            e == IF t < s THEN s ELSE t
        IN  E!Edited(text, E!CharAt(text, s), E!CharAt(text, e), new)
  BY DEF E!Splice, E!Edited
<1> HIDE DEF b, change
<1>6. E!Splice(text, text, change) = E!Edited(text, E!CharAt(text, b[from]), E!CharAt(text, b[to]), new)
  BY <1>2, <1>3, <1>5
<1>7. QED
  BY <1>1, <1>4, <1>6 DEF change

------------------------------------------------------------------------------
\* The changes on their way make the client's text of the server's.
EditsCorrect ==
    /\ shown \in AnyText /\ E!WellEnded(shown)
    /\ served \in AnyText
    /\ sent \in Seq(Changes)
    /\ E!ApplyContentChanges(served, sent) = shown

LEMMA EditsInit == E!EditsAssumption /\ E!Init => EditsCorrect
<1> SUFFICES ASSUME E!EditsAssumption, E!Init PROVE EditsCorrect
  OBVIOUS
<1>1. shown \in AnyText /\ E!WellEnded(shown) /\ served = shown /\ sent = <<>>
  BY DEF E!EditsAssumption, E!Init, AnyText
<1>2. E!ApplyContentChanges(served, sent) = shown
  BY <1>1, AppliesNone
<1>3. QED
  BY <1>1, <1>2 DEF EditsCorrect

LEMMA EditsStep == E!EditsAssumption /\ EditsCorrect /\ [E!Next]_(E!vars) => EditsCorrect'
<1> SUFFICES ASSUME E!EditsAssumption, EditsCorrect, [E!Next]_(E!vars) PROVE EditsCorrect'
  OBVIOUS
<1>1. CASE E!Edit
  <2>1. PICK from \in E!Cuts(shown), to \in E!Cuts(shown), new \in Inserts :
          \E start \in E!Positions(shown, from), end \in E!Positions(shown, to) :
            /\ from <= to
            /\ sent' = Append(sent, [ranged |-> TRUE, start |-> start, end |-> end, text |-> new])
            /\ shown' = E!Edited(shown, from, to, new)
    BY <1>1 DEF E!Edit
  <2>2. PICK start \in E!Positions(shown, from), end \in E!Positions(shown, to) :
            /\ from <= to
            /\ sent' = Append(sent, [ranged |-> TRUE, start |-> start, end |-> end, text |-> new])
            /\ shown' = E!Edited(shown, from, to, new)
    BY <2>1
  <2> DEFINE change == [ranged |-> TRUE, start |-> start, end |-> end, text |-> new]
  <2>3. new \in AnyText /\ E!WellEnded(new)
    BY DEF E!EditsAssumption, AnyText
  <2>4. shown \in AnyText /\ E!WellEnded(shown) /\ served \in AnyText /\ sent \in Seq(Changes) /\ E!ApplyContentChanges(served, sent) = shown
    BY DEF EditsCorrect
  <2>5. change \in Changes /\ E!Splice(shown, shown, change) = E!Edited(shown, from, to, new)
    BY <2>2, <2>3, <2>4, EditIsSent
  <2>6. from \in 0..Len(shown) /\ to \in 0..Len(shown)
    BY DEF E!Cuts
  <2>7. E!Edited(shown, from, to, new) \in AnyText /\ E!WellEnded(E!Edited(shown, from, to, new))
    BY <2>3, <2>4, <2>6, EditedIs, EditedWellEnded
  <2> HIDE DEF change
  <2>8. E!ApplyContentChanges(served, Append(sent, change)) = E!Splice(shown, shown, change)
    BY <2>4, <2>5, AppliesMore
  <2>9. sent' = Append(sent, change) /\ served' = served
    BY <1>1, <2>2 DEF E!Edit, change
  <2>10. E!ApplyContentChanges(served', sent') = shown'
    BY <2>2, <2>5, <2>8, <2>9
  <2>11. sent' \in Seq(Changes)
    BY <2>4, <2>5, <2>9
  <2>12. QED
    BY <2>2, <2>4, <2>7, <2>9, <2>10, <2>11 DEF EditsCorrect, E!WellEnded
<1>2. CASE E!Replace
  <2>1. PICK new \in Inserts :
            /\ sent' = Append(sent, [ranged |-> FALSE, text |-> new])
            /\ shown' = new
    BY <1>2 DEF E!Replace
  <2> DEFINE change == [ranged |-> FALSE, text |-> new]
  <2>2. new \in AnyText /\ E!WellEnded(new)
    BY DEF E!EditsAssumption, AnyText
  <2>3. shown \in AnyText /\ served \in AnyText /\ sent \in Seq(Changes) /\ E!ApplyContentChanges(served, sent) = shown
    BY DEF EditsCorrect
  <2>4. change \in Changes /\ E!Splice(shown, shown, change) = new
    BY <2>2 DEF Changes, E!Splice
  <2> HIDE DEF change
  <2>5. E!ApplyContentChanges(served, Append(sent, change)) = E!Splice(shown, shown, change)
    BY <2>3, <2>4, AppliesMore
  <2>6. sent' = Append(sent, change) /\ served' = served
    BY <1>2, <2>1 DEF E!Replace, change
  <2>7. E!ApplyContentChanges(served', sent') = shown'
    BY <2>1, <2>4, <2>5, <2>6
  <2>8. sent' \in Seq(Changes)
    BY <2>3, <2>4, <2>6
  <2>9. QED
    BY <2>1, <2>2, <2>3, <2>6, <2>7, <2>8 DEF EditsCorrect, E!WellEnded
<1>3. CASE E!DidChange
  <2>1. PICK n \in 1..Len(sent) :
            /\ served' = E!ApplyContentChanges(served, SubSeq(sent, 1, n))
            /\ sent' = SubSeq(sent, n + 1, Len(sent))
    BY <1>3 DEF E!DidChange
  <2>2. served \in AnyText /\ sent \in Seq(Changes) /\ E!ApplyContentChanges(served, sent) = shown
    BY DEF EditsCorrect
  <2>3. n \in 0..Len(sent)
    OBVIOUS
  <2>4. /\ SubSeq(sent, n + 1, Len(sent)) \in Seq(Changes)
        /\ E!ApplyContentChanges(served, SubSeq(sent, 1, n)) \in AnyText
        /\ E!ApplyContentChanges(E!ApplyContentChanges(served, SubSeq(sent, 1, n)), SubSeq(sent, n + 1, Len(sent))) =
             E!ApplyContentChanges(served, sent)
    BY <2>2, <2>3, AppliesInParts
  <2>5. shown' = shown /\ E!WellEnded(shown) /\ shown \in AnyText
    BY <1>3 DEF E!DidChange, EditsCorrect
  <2>6. sent' \in Seq(Changes) /\ served' \in AnyText /\ E!ApplyContentChanges(served', sent') = shown'
    BY <2>1, <2>2, <2>4, <2>5
  <2>7. QED
    BY <2>5, <2>6 DEF EditsCorrect, E!WellEnded
<1>4. CASE UNCHANGED E!vars
  BY <1>4 DEF E!vars, EditsCorrect, E!WellEnded
<1>5. QED
  BY <1>1, <1>2, <1>3, <1>4 DEF E!Next

THEOREM EditsAreServed == E!Spec => []EditsArrive
<1>0. E!EditsAssumption
  BY DocumentsAssumption
<1>1. EditsCorrect => EditsArrive
  <2> SUFFICES ASSUME EditsCorrect, sent = <<>>
               PROVE  /\ served = shown
                      /\ \A k \in 0..Len(shown) : E!Position(served, E!Upto(E!Bytes, served)[k]) = E!Place(shown, k)
    BY DEF EditsArrive, E!EditsArrive
  <2>1. served \in AnyText /\ served = shown
    BY AppliesNone DEF EditsCorrect
  <2>2. QED
    BY <2>1, PositionIsPlace
<1>2. QED
  BY <1>0, <1>1, EditsInit, EditsStep, PTL DEF E!Spec

------------------------------------------------------------------------------
(* The host and the ledger among the parts of the server.  What is proved  *)
(* of them by themselves, for any files, holds of them here.               *)

HF == INSTANCE AnalysisHost_proofs WITH
    DefaultDialect <- FirstManifest.dialect, InitialLevel <- FirstManifest.strictness, NoSnapshot <- None

LF == INSTANCE ForeignLedger_proofs WITH Paths <- Checked, shown <- panels

\* The host here is the one those facts are about.
LEMMA HostIsTheHost == H!Spec <=> HF!Spec
<1>1. H!Init <=> HF!Init
  BY DEF H!Init, HF!Init
<1>2. H!vars = HF!vars
  BY DEF H!vars, H!vfs, H!salsa, HF!vars, HF!vfs, HF!salsa
<1>3. H!Next <=> HF!Next
  BY DEF H!Known, H!InternedWith, H!DialectSeed, H!EffectiveText, H!InputOf, H!SyncFile,
      H!Edit, H!SetFileText, H!SetOverlay, H!ClearOverlay, H!SetDialect, H!SetStrictness,
      H!SetRoot, H!World, H!Snapshot, H!ApplyChange, H!Next, H!vars, H!vfs, H!salsa,
      HF!Known, HF!InternedWith, HF!DialectSeed, HF!EffectiveText, HF!InputOf, HF!SyncFile,
      HF!Edit, HF!SetFileText, HF!SetOverlay, HF!ClearOverlay, HF!SetDialect,
      HF!SetStrictness, HF!SetRoot, HF!World, HF!Snapshot, HF!ApplyChange, HF!Next, HF!vars,
      HF!vfs, HF!salsa
<1>4. [H!Next]_(H!vars) <=> [HF!Next]_(HF!vars)
  BY <1>2, <1>3 DEF H!vars, H!vfs, H!salsa, HF!vars, HF!vfs, HF!salsa
<1>5. QED
  BY <1>1, <1>4, PTL DEF H!Spec, HF!Spec

\* The ledger here is the one those facts are about.
LEMMA LedgerIsTheLedger == L!Spec <=> LF!Spec
<1>1. L!Init <=> LF!Init
  BY DEF L!Init, LF!Init
<1>2. L!vars = LF!vars
  BY DEF L!vars, LF!vars
<1>3. L!Next <=> LF!Next
  BY DEF L!Nonempty, L!Groups, L!GroupOf, L!Without, L!With, L!ContributedBy, L!Stored,
      L!Affected, L!PublishedSet, L!UriFor, L!PublishRecorded, L!ForeignOf, L!Recomputed,
      L!Skipped, L!PublishLua, L!CloseScratch, L!Next, LF!Nonempty, LF!Groups, LF!GroupOf,
      LF!Without, LF!With, LF!ContributedBy, LF!Stored, LF!Affected, LF!PublishedSet,
      LF!UriFor, LF!PublishRecorded, LF!ForeignOf, LF!Recomputed, LF!Skipped, LF!PublishLua,
      LF!CloseScratch, LF!Next
<1>4. [L!Next]_(L!vars) <=> [LF!Next]_(LF!vars)
  BY <1>2, <1>3 DEF L!vars, LF!vars
<1>5. QED
  BY <1>1, <1>4, PTL DEF L!Spec, LF!Spec

\* The constants of the server are a host's.
LEMMA HostAssumed == HF!HostAssumption
BY PartsAssumption DEF H!HostAssumption, HF!HostAssumption

\* Whatever the edits, the salsa inputs are the VFS's effective contents
\* (host.rs sync_file; AnalysisHost_proofs MirrorExact).
THEOREM HostMirrorsVfs == H!Spec => []InputsMirrorVfs
<1>1. HF!Spec => []HF!InputsMirrorVfs
  BY HostAssumed, HF!MirrorExact
<1>2. HF!InputsMirrorVfs => InputsMirrorVfs
  BY DEF InputsMirrorVfs, H!InputsMirrorVfs, H!Known, H!InputOf, H!EffectiveText, HF!InputsMirrorVfs, HF!Known,
      HF!InputOf, HF!EffectiveText
<1>3. QED
  BY <1>1, <1>2, HostIsTheHost, PTL

\* Two snapshots of one revision saw the same inputs, however many edits and
\* reverts lie between them (host.rs Analysis::revision; AnalysisHost_proofs
\* CacheKeySound).
THEOREM HostKeySound == H!Spec => []EqualRevisionSameWorld
<1>1. HF!Spec => []HF!EqualRevisionSameWorld
  BY HostAssumed, HF!CacheKeySound
<1>2. HF!EqualRevisionSameWorld => EqualRevisionSameWorld
  BY DEF EqualRevisionSameWorld, H!EqualRevisionSameWorld, H!World, HF!EqualRevisionSameWorld, HF!World
<1>3. QED
  BY <1>1, <1>2, HostIsTheHost, PTL

\* The host is the versioned world that merged_ambient and cycle_pass cache by
\* (host.rs; AnalysisHost_proofs HostImplementsVersionedInputs).
THEOREM HostIsVersioned == H!Spec => ImplementsVersionedInputs
<1>1. HF!Spec => HF!ImplementsVersionedInputs
  BY HostAssumed, HF!HostImplementsVersionedInputs
<1>2. HF!Promise!Init => H!Promise!Init
  BY DEF H!Promise!Init, H!World, H!InitialWorld, HF!Promise!Init, HF!World, HF!InitialWorld
<1>3. [HF!Promise!Next]_(HF!Promise!vars) => [H!Promise!Next]_(H!Promise!vars)
  BY DEF H!Promise!Next, H!Promise!Write, H!Promise!Take, H!Promise!vars, H!World, H!Worlds,
      H!Inputs, HF!Promise!Next, HF!Promise!Write, HF!Promise!Take, HF!Promise!vars,
      HF!World, HF!Worlds, HF!Inputs
<1>4. QED
  BY <1>1, <1>2, <1>3, HostIsTheHost, PTL
  DEF ImplementsVersionedInputs, H!ImplementsVersionedInputs, H!Promise!Spec, HF!ImplementsVersionedInputs,
      HF!Promise!Spec

\* Where the client spells a document's URI as the server does, what an editor
\* shows is what refreshing every document after every pass would show
\* (server.rs ForeignLedger; ForeignLedger_proofs LedgerImplementsPanels).
THEOREM LedgerIsPanels ==
    ASSUME L!SameSpelling
    PROVE  L!Spec => ImplementsPanels
<1>1. LF!LedgerAssumption /\ LF!SameSpelling
  BY PartsAssumption DEF L!LedgerAssumption, L!SameSpelling, L!Groups, L!Nonempty, LF!LedgerAssumption,
      LF!SameSpelling, LF!Groups, LF!Nonempty
<1>2. LF!Spec => LF!ImplementsPanels
  BY <1>1, LF!LedgerImplementsPanels
<1>3. LF!Panels!Init => L!Panels!Init
  BY DEF L!Panels!Init, L!GroupOf, L!ContributedBy, LF!Panels!Init, LF!GroupOf,
      LF!ContributedBy
<1>4. [LF!Panels!Next]_(LF!Panels!vars) => [L!Panels!Next]_(L!Panels!vars)
  BY DEF L!Panels!Next, L!Panels!Pass, L!Panels!PanelOf, L!Panels!Groups, L!Panels!vars,
      L!GroupOf, L!ContributedBy, LF!Panels!Next, LF!Panels!Pass, LF!Panels!PanelOf,
      LF!Panels!Groups, LF!Panels!vars, LF!GroupOf, LF!ContributedBy
<1>5. QED
  BY <1>2, <1>3, <1>4, LedgerIsTheLedger, PTL
  DEF ImplementsPanels, L!ImplementsPanels, L!Panels!Spec, LF!ImplementsPanels, LF!Panels!Spec
=============================================================================
