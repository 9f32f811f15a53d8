---------------------------- MODULE ForeignLedger ----------------------------
(***************************************************************************)
(* luabox-lsp: the bookkeeping behind cross-file diagnostics (server.rs,   *)
(* ForeignLedger, publish_lua, publish_recorded).                          *)
(*                                                                         *)
(* publishDiagnostics replaces the whole set of one URI, so a pass over    *)
(* one file that finds something in another must restate everything the    *)
(* other shows.  The ledger keeps the last pass over each file in three    *)
(* maps, and each pass republishes only the documents it may have moved.   *)
(* A map holds no empty entry: an absent key is an empty group.            *)
(***************************************************************************)
EXTENDS FiniteSets

CONSTANTS Paths,     \* files
          Findings,  \* diagnostics
          Answers,   \* what the workspace pass can answer
          Uris,      \* document URIs
          PathToUri, \* uri::path_to_uri
          ClientUri  \* the URI the client calls each file by

VARIABLES own,           \* ForeignLedger::own
          contributions, \* ForeignLedger::contributions
          workspace,     \* ForeignLedger::workspace
          shown          \* what the client shows under each URI

vars == <<own, contributions, workspace, shown>>

Nonempty == (SUBSET Findings) \ {{}}

\* The groups of findings a pass can produce, by the file they belong to.
Groups == UNION {[D -> Nonempty] : D \in SUBSET Paths}

\* What the constants are.
LedgerAssumption ==
    /\ "workspace" \notin Paths
    /\ Answers \subseteq Groups
    /\ PathToUri \in [Paths -> Uris]
    /\ ClientUri \in [Paths -> Uris]
    /\ \A p, q \in Paths : p # q => ClientUri[p] # ClientUri[q]
    /\ \A p, q \in Paths : p # q => ClientUri[p] # PathToUri[q]

\* The client's name for every file is the server's.
SameSpelling == \A p \in Paths : ClientUri[p] = PathToUri[p]

IsMap(m, V) == DOMAIN m \subseteq Paths /\ m \in [DOMAIN m -> V]

\* The group under a key, none when the key is absent.
GroupOf(map, p) == IF p \in DOMAIN map THEN map[p] ELSE {}

Without(map, p) == [q \in DOMAIN map \ {p} |-> map[q]]
With(map, p, v) == [q \in DOMAIN map \cup {p} |-> IF q = p THEN v ELSE map[q]]

\* What source s contributed to other files in its last pass.
ContributedBy(s) == IF s \in DOMAIN contributions THEN contributions[s] ELSE <<>>

Init ==
    /\ own = <<>>
    /\ contributions = <<>>
    /\ workspace = <<>>
    /\ shown = [u \in Uris |-> {}]

------------------------------------------------------------------------------
\* record: a pass replaces the whole entry of its source, and an empty one is
\* not stored.
Stored(map, s, v, empty) == IF empty THEN Without(map, s) ELSE With(map, s, v)

\* Mutant: what the source contributed before is forgotten ("never cleared").
AffectedNow(s, foreign, moved) == {s} \cup DOMAIN foreign \cup moved

\* record: every path whose published set may have moved.
Affected(s, foreign, moved) ==
    {s} \cup DOMAIN ContributedBy(s) \cup DOMAIN foreign \cup moved

\* published_set: p's own half, the workspace's share, every contributor's
\* group.
PublishedSet(own1, contributions1, workspace1, p) ==
    ({p} \X GroupOf(own1, p)) \cup ({"workspace"} \X GroupOf(workspace1, p))
        \cup UNION {{s} \X GroupOf(contributions1[s], p) : s \in DOMAIN contributions1}

\* publish_recorded: the source under the URI at hand, which is the client's
\* own, and every other path under the one derived from it.
UriFor(s, p) == IF p = s THEN ClientUri[p] ELSE PathToUri[p]

\* ForeignLedger::record and the publishes that follow it.
PublishRecorded(s, ownHalf, foreign, workspace1, moved) ==
    LET affected == Affected(s, foreign, moved) IN
    /\ own' = Stored(own, s, ownHalf, ownHalf = {})
    /\ contributions' = Stored(contributions, s, foreign, DOMAIN foreign = {})
    /\ workspace' = workspace1
    /\ shown' = [u \in Uris |->
                   IF \E p \in affected : UriFor(s, p) = u
                   THEN PublishedSet(own', contributions', workspace',
                                     CHOOSE p \in affected : UriFor(s, p) = u)
                   ELSE shown[u]]

\* Findings of a pass over s that belong to other files.
ForeignOf(s) == {g \in Groups : s \notin DOMAIN g}

\* WorkspaceScan::Recomputed: the answer replaces the stored one, and the
\* targets of both are republished.
Recomputed(s, ownHalf, foreign) ==
    \E answer \in Answers :
        PublishRecorded(s, ownHalf, foreign, answer, DOMAIN workspace \cup DOMAIN answer)

\* WorkspaceScan::Skipped, for a path the analysis does not know.
Skipped(s) == PublishRecorded(s, {}, <<>>, workspace, {})

\* publish_lua: one diagnostics pass over s, after didOpen, didChange, the
\* didClose of a file on disk, a watched-file event or in a batch republish.
PublishLua(s) ==
    \/ \E ownHalf \in SUBSET Findings, foreign \in ForeignOf(s) :
           Recomputed(s, ownHalf, foreign)
    \/ Skipped(s)

\* didClose of a buffer with no disk backing: only the workspace answer is
\* derived anew, and the file contributes no more.
CloseScratch(s) == Recomputed(s, {}, <<>>)

Next == \E s \in Paths : PublishLua(s) \/ CloseScratch(s)

Spec == Init /\ [][Next]_vars

------------------------------------------------------------------------------
\* Every variable holds a value of its type, and the maps stay pruned: no
\* contributor, target or file keeps an entry it has nothing in ("contributions
\* never grows an entry per file in the workspace").
TypeOK ==
    /\ IsMap(own, Nonempty)
    /\ DOMAIN contributions \subseteq Paths
    /\ \A s \in DOMAIN contributions :
         /\ IsMap(contributions[s], Nonempty)
         /\ DOMAIN contributions[s] # {}
         /\ s \notin DOMAIN contributions[s]
    /\ IsMap(workspace, Nonempty)
    /\ shown \in [Uris -> SUBSET ((Paths \cup {"workspace"}) \X Findings)]

\* Every document shows exactly what the ledger holds for it, although a pass
\* republishes only the documents it believes it moved: nothing stays painted
\* and nothing vanishes (ForeignLedger, the four failures).
PanelsCurrent ==
    \A p \in Paths :
        shown[ClientUri[p]] = PublishedSet(own, contributions, workspace, p)

\* The incremental ledger implements the panels that are refreshed wholesale.
Panels == INSTANCE CrossFilePanels WITH
    latest    <- [q \in Paths |-> [p \in Paths |->
                    IF p = q THEN GroupOf(own, p) ELSE GroupOf(ContributedBy(q), p)]],
    workspace <- [p \in Paths |-> GroupOf(workspace, p)],
    panels    <- [p \in Paths |-> shown[ClientUri[p]]]

\* What an editor shows is a function of the last pass over each file and of
\* nothing else, above all not of the order the passes ran in (ForeignLedger,
\* "the merge is a function of the workspace and nothing else").
ImplementsPanels == Panels!Spec
=============================================================================
