--------------------------- MODULE CrossFilePanels ---------------------------
(***************************************************************************)
(* What cross-file diagnostics promise an editor: the panel of a document  *)
(* shows the findings the last pass over that document made in it, those   *)
(* the last pass over each other document made in it, and its share of the *)
(* newest answer for the workspace, and nothing else.  Here every pass     *)
(* refreshes every panel at once.                                          *)
(***************************************************************************)
CONSTANTS Paths, Findings

VARIABLES latest,    \* what the last pass over each file found in each file
          workspace, \* the newest workspace-derived findings of each file
          panels     \* what each document shows

vars == <<latest, workspace, panels>>

Groups == [Paths -> SUBSET Findings]

\* Findings keep their origin: two passes that report the same one against
\* one file show it twice.
PanelOf(lat, ws, p) ==
    ({"workspace"} \X ws[p]) \cup UNION {{q} \X lat[q][p] : q \in Paths}

Init ==
    /\ latest = [q \in Paths |-> [p \in Paths |-> {}]]
    /\ workspace = [p \in Paths |-> {}]
    /\ panels = [p \in Paths |-> {}]

\* A pass over s found anything anywhere and derived any workspace answer.
Pass(s) ==
    /\ latest' \in [Paths -> Groups]
    /\ \A q \in Paths \ {s} : latest'[q] = latest[q]
    /\ workspace' \in Groups
    /\ panels' = [p \in Paths |-> PanelOf(latest', workspace', p)]

Next == \E s \in Paths : Pass(s)

Spec == Init /\ [][Next]_vars
=============================================================================
