---------------------------- MODULE ClassCycles ----------------------------
(***************************************************************************)
(* Cyclic class ancestry (luabox-types, class_graph.rs): the project's     *)
(* ---@class declarations, the depth-first search for the strongly         *)
(* connected components of their names, with frames of its own in place of *)
(* recursion, and the declarations that are told of a cycle.  One action   *)
(* per turn of the search's loop.                                          *)
(***************************************************************************)
EXTENDS Naturals, Sequences, FiniteSets

CONSTANTS Classes,  \* class names, numbered in the order of their text
          Projects  \* sequences of declarations: [name, parents]

\* What the constants are.
CycleAssumption ==
    Classes \subseteq Nat /\ Projects \subseteq Seq([name : Classes, parents : Seq(Classes)])

VARIABLES decls,     \* the declarations, by file and place in it
          nodes,     \* the names entered: index, low, onStack
          component, \* the component stack
          selfEdged, \* the names seen to be their own parent
          frames,    \* the path of the walk: name, and the parents visited
          groups     \* the components found to be cyclic

vars == <<decls, nodes, component, selfEdged, frames, groups>>

Declared == {decls[k].name : k \in DOMAIN decls}
DeclsOf(n) == {k \in DOMAIN decls : decls[k].name = n}
Listed(k) == {decls[k].parents[i] : i \in DOMAIN decls[k].parents}

\* parents: the union over a name's declarations.
ParentsOf(n) == UNION {Listed(k) : k \in DeclsOf(n)}

Init ==
    /\ decls \in Projects
    /\ nodes = <<>> /\ component = <<>> /\ selfEdged = {} /\ frames = <<>> /\ groups = {}

------------------------------------------------------------------------------
First(S) == CHOOSE k \in S : \A j \in S : k <= j

\* enter
Enter(n) ==
    LET index == Cardinality(DOMAIN nodes) IN
    /\ nodes' = [m \in DOMAIN nodes \cup {n} |->
                     IF m = n THEN [index |-> index, low |-> index, onStack |-> TRUE] ELSE nodes[m]]
    /\ component' = Append(component, n)

\* The next root: the first declared name not walked yet.
NextRoot ==
    LET roots == Declared \ DOMAIN nodes IN
    /\ frames = <<>> /\ roots # {}
    /\ Enter(First(roots))
    /\ frames' = <<[name |-> First(roots), visited |-> {}]>>
    /\ UNCHANGED <<decls, selfEdged, groups>>

Top      == frames[Len(frames)]
Left     == ParentsOf(Top.name) \ Top.visited
Visiting == frames # <<>> /\ Left # {}

\* The next parent, in the order of first mention.
Parent ==
    LET k == First({j \in DeclsOf(Top.name) : Listed(j) \cap Left # {}})
        i == First({j \in DOMAIN decls[k].parents : decls[k].parents[j] \in Left})
    IN  decls[k].parents[i]

Stepped  == [frames EXCEPT ![Len(frames)].visited = @ \cup {Parent}]
SelfEdge == selfEdged' = IF Parent = Top.name THEN selfEdged \cup {Parent} ELSE selfEdged

\* A parent not met before.
Descend ==
    /\ Visiting /\ Parent \notin DOMAIN nodes
    /\ Enter(Parent)
    /\ frames' = Append(Stepped, [name |-> Parent, visited |-> {}])
    /\ SelfEdge
    /\ UNCHANGED <<decls, groups>>

Lowered(n, low) == [nodes EXCEPT ![n].low = IF low < @ THEN low ELSE @]

\* Mutant: a finished component's node lowers the link as well.
BackEdgeToAnyone ==
    /\ Visiting /\ Parent \in DOMAIN nodes
    /\ nodes' = Lowered(Top.name, nodes[Parent].index)
    /\ frames' = Stepped
    /\ SelfEdge
    /\ UNCHANGED <<decls, component, groups>>

\* A back- or cross-edge: only a node still on the component stack lowers this
\* one's link.
BackEdge ==
    /\ Visiting /\ Parent \in DOMAIN nodes
    /\ nodes' = IF nodes[Parent].onStack THEN Lowered(Top.name, nodes[Parent].index) ELSE nodes
    /\ frames' = Stepped
    /\ SelfEdge
    /\ UNCHANGED <<decls, component, groups>>

\* Every parent visited.  A component's root takes everything above it off the
\* component stack; the caller's link is lowered to this one's.
Finish ==
    LET n == Top.name
        isRoot == nodes[n].low = nodes[n].index
        from == CHOOSE k \in DOMAIN component : component[k] = n
        group == IF isRoot THEN {component[k] : k \in from..Len(component)} ELSE {}
        off == [m \in DOMAIN nodes |-> [nodes[m] EXCEPT !.onStack = @ /\ m \notin group]]
    IN
    /\ frames # <<>> /\ ~Visiting
    /\ component' = IF isRoot THEN SubSeq(component, 1, from - 1) ELSE component
    /\ groups' = IF Cardinality(group) > 1 \/ group \cap {n} \cap selfEdged # {}
                 THEN groups \cup {group} ELSE groups
    /\ frames' = SubSeq(frames, 1, Len(frames) - 1)
    /\ nodes' = IF Len(frames) = 1 THEN off
                ELSE LET c == frames[Len(frames) - 1].name IN
                     [off EXCEPT ![c].low = IF nodes[n].low < @ THEN nodes[n].low ELSE @]
    /\ UNCHANGED <<decls, selfEdged>>

Next == NextRoot \/ Descend \/ BackEdge \/ Finish

Spec == Init /\ [][Next]_vars

Done == frames = <<>> /\ Declared \subseteq DOMAIN nodes

\* cycle_sites: every declaration of a name in a cycle, in file order, with the
\* others of the cycle, and whether it is one that writes an edge of it.
CycleSites ==
    {[decl |-> s[1], others |-> s[2] \ {decls[s[1]].name}, reports |-> Listed(s[1]) \cap s[2] # {}] :
        s \in {t \in (DOMAIN decls) \X groups : decls[t[1]].name \in t[2]}}

------------------------------------------------------------------------------
\* The names n's ancestry leads to, the least set that holds its parents, theirs,
\* and so on.
Ancestors(n) ==
    {m \in Classes : \A S \in SUBSET Classes :
        ParentsOf(n) \subseteq S /\ (\A x \in S : ParentsOf(x) \subseteq S) => m \in S}

\* Whatever the order of the declarations and of the walk, every declaration of
\* a class that is its own ancestor is found, with exactly the classes that are
\* both above and below it, and is reported exactly when it writes an edge of
\* the cycle itself ("an innocent second declaration of a cyclic class is not a
\* site").
EveryCycleIsReported ==
    LET above == [n \in Classes |-> Ancestors(n)]  Above(k) == above[decls[k].name] IN
    Done => CycleSites =
        {[decl |-> k,
          others |-> {m \in Above(k) \ {decls[k].name} : decls[k].name \in above[m]},
          reports |-> \E p \in Listed(k) : decls[k].name \in {p} \cup above[p]] :
            k \in {j \in DOMAIN decls : decls[j].name \in Above(j)}}
=============================================================================
