----------------------------- MODULE ClassShape -----------------------------
(***************************************************************************)
(* What a class inherits (luabox-types, env.rs): the fold of its ancestry  *)
(* into one shape under the diamond guard, and the walk over its           *)
(* ancestors' names.  An environment gives each declared class            *)
(*   [generic, fields, indexers, parents]                                  *)
(* with fields and indexers as functions from keys to types and parents in *)
(* the order written, [name, args].  A type is a model value, or Param for *)
(* the class's own parameter.                                              *)
(***************************************************************************)
EXTENDS Integers, Sequences, FiniteSets, SequencesExt

Param == "T"

\* subst_ty, for a class given these arguments: its parameter stays free when
\* there is none.
Bind(class, args, ty) == IF class.generic /\ args # <<>> /\ ty = Param THEN args[1] ELSE ty

\* MAX_ANCESTRY_DEPTH and MAX_ANCESTRY_RESOLUTIONS.
Caps(depth, cost) == [depth |-> depth, cost |-> cost]

\* DiamondGuard, and the shape under way.
NewGuard == [path |-> {}, resolved |-> <<>>, generation |-> 0, resolutions |-> 0,
             tripped |-> "no", cyclic |-> {}, fields |-> <<>>, indexers |-> <<>>]

\* Mutant: a repeat is skipped whatever was bound since.
SettledForGood(g, name, args) == args \in DOMAIN g.resolved[name]

\* A binding recorded when nothing else had been bound since.
Settled(g, name, args) == args \in DOMAIN g.resolved[name] /\ g.resolved[name][args] = g.generation

\* should_apply: whether the visit's body runs, and whether it is the name's
\* first binding.
ShouldApply(caps, g, name, args) ==
    LET No(h)   == [guard |-> h, run |-> FALSE, first |-> FALSE]
        Yes(h, first) == [guard |-> [h EXCEPT !.path = @ \cup {name}], run |-> TRUE, first |-> first]
    IN  CASE name \in g.path -> No([g EXCEPT !.cyclic = @ \cup {name}])
          [] g.tripped # "no" -> No(g)
          [] Cardinality(g.path) >= caps.depth -> No([g EXCEPT !.tripped = "depth"])
          [] name \notin DOMAIN g.resolved -> Yes(g, TRUE)
          [] Settled(g, name, args) -> No(g)
          [] args \notin DOMAIN g.resolved[name] -> Yes([g EXCEPT !.generation = @ + 1], FALSE)
          [] g.resolutions = caps.cost -> No([g EXCEPT !.resolutions = @ + 1, !.tripped = "cost"])
          [] OTHER -> Yes([g EXCEPT !.resolutions = @ + 1], FALSE)

\* member_wins, key by key: a first binding keeps what is there, a later one
\* of the same class replaces it.
Fold(into, own, first) == IF first THEN into @@ own ELSE own @@ into

Own(env, name, args, part) ==
    [key \in DOMAIN part |-> [ty |-> Bind(env[name], args, part[key]), owner |-> name]]

\* DiamondGuard::visit's way out.
Leave(g, name, args) ==
    LET was == IF name \in DOMAIN g.resolved THEN g.resolved[name] ELSE <<>> IN
    [g EXCEPT !.path = @ \ {name}, !.resolved = (name :> ((args :> g.generation) @@ was)) @@ @]

\* collect_class: own fields, then the parents, then own indexers.
RECURSIVE Collect(_, _, _, _, _)
Collect(caps, env, g, name, args) ==
    LET a == ShouldApply(caps, g, name, args)
        own == [a.guard EXCEPT !.fields = Fold(@, Own(env, name, args, env[name].fields), a.first)]
        Up(h, p) == Collect(caps, env, h, p.name, [k \in DOMAIN p.args |-> Bind(env[name], args, p.args[k])])
        parents == FoldLeft(Up, own, env[name].parents)
        all == [parents EXCEPT !.indexers = Fold(@, Own(env, name, args, env[name].indexers), a.first)]
    IN  IF ~a.run THEN a.guard ELSE Leave(IF name \in DOMAIN env THEN all ELSE a.guard, name, args)

\* class_shape_bound: the shape, and what note_limit_trip and note_cyclic read.
Shape(caps, env, root) == Collect(caps, env, NewGuard, root, <<>>)

------------------------------------------------------------------------------
\* One turn of walk_ancestor_names: what is too deep leaves no mark, what was
\* expanded from here or nearer is done.
Pop(caps, env, w, top, rest) ==
    LET done == top.name \in DOMAIN w.expanded /\ w.expanded[top.name] <= top.depth
        above == IF top.name \in DOMAIN env THEN env[top.name].parents ELSE <<>>
    IN  IF top.depth >= caps.depth \/ done THEN [w EXCEPT !.stack = rest]
        ELSE [stack |-> rest \o Reverse([k \in DOMAIN above |-> [name |-> above[k].name, depth |-> top.depth + 1]]),
              expanded |-> (top.name :> top.depth) @@ w.expanded,
              visited |-> IF Contains(w.visited, top.name) THEN w.visited ELSE Append(w.visited, top.name)]

RECURSIVE Walk(_, _, _)
Walk(caps, env, w) ==
    IF w.stack = <<>> THEN w.visited ELSE Walk(caps, env, Pop(caps, env, w, Last(w.stack), Front(w.stack)))

\* walk_ancestor_names: the names in the order they are visited.
AncestorNames(caps, env, root) ==
    Walk(caps, env, [stack |-> <<[name |-> root, depth |-> 0]>>, expanded |-> <<>>, visited |-> <<>>])

\* is_subclass
IsSubclass(caps, env, class, ancestor) == Contains(AncestorNames(caps, env, class), ancestor)

------------------------------------------------------------------------------
(***************************************************************************)
(* What these must come to, with no guard: every path up from a class, in  *)
(* the order of the text.                                                  *)
(***************************************************************************)
Above(env, name) == IF name \in DOMAIN env THEN env[name].parents ELSE <<>>

\* The names within a number of steps.
Within(env, root, steps) ==
    LET Near[k \in 0..steps] == IF k = 0 THEN {root}
            ELSE Near[k - 1] \cup UNION {{p.name : p \in ToSet(Above(env, n))} : n \in Near[k - 1]}
    IN  Near[steps]

\* Every visit of the plain recursion that only stops at a name on its path.
RECURSIVE Visits(_, _, _, _)
Visits(env, path, name, args) ==
    IF Contains(path, name) THEN <<>>
    ELSE LET Up(acc, p) == acc \o Visits(env, Append(path, name), p.name,
                                [k \in DOMAIN p.args |-> Bind(env[name], args, p.args[k])])
         IN  FoldLeft(Up, <<[name |-> name, args |-> args, depth |-> Len(path)]>>, Above(env, name))

\* A class's ancestry agrees with itself however it is asked: the walk reaches
\* the names near enough by some path, whatever the order of the parents; the
\* fold, unless it reports a limit, has met the same names, and a limit of
\* depth is a path that deep; a cycle is noticed when there is one.  A field
\* belongs to the first class in the order of the text that declares it, and
\* with several bindings of that class (and none but it declaring the field),
\* has the last one's type; only disagreeing bindings cost resolutions.
AncestryAgrees(caps, env, root) ==
    LET shape  == Shape(caps, env, root)
        visits == Visits(env, <<>>, root, <<>>)
        names  == AncestorNames(caps, env, root)
        Bindings(n) == {v.args : v \in {w \in ToSet(visits) : w.name = n}}
        agreed == \A n \in Within(env, root, Cardinality(DOMAIN env)) : Cardinality(Bindings(n)) <= 1
        Declaring(f) == SelectSeq(visits, LAMBDA v : v.name \in DOMAIN env /\ f \in DOMAIN env[v.name].fields)
        Type(v, f) == [ty |-> Bind(env[v.name], v.args, env[v.name].fields[f]), owner |-> v.name]
        whole  == shape.tripped = "no"
    IN
    /\ ToSet(names) = Within(env, root, caps.depth - 1)
    /\ whole => DOMAIN shape.resolved = ToSet(names)
    /\ shape.tripped = "depth" => \E v \in ToSet(visits) : v.depth >= caps.depth
    /\ agreed => shape.resolutions = 0 /\ shape.tripped # "cost"
    /\ whole => (shape.cyclic # {} <=>
                    \E n \in ToSet(names) : \E p \in ToSet(Above(env, n)) :
                        n \in Within(env, p.name, Cardinality(DOMAIN env)))
    /\ whole => DOMAIN shape.fields = {f \in UNION {DOMAIN env[n].fields : n \in DOMAIN env} : Declaring(f) # <<>>}
    /\ whole => \A f \in DOMAIN shape.fields :
         LET by == Declaring(f) IN
         /\ agreed => shape.fields[f] = Type(by[1], f)
         /\ (shape.cyclic = {} /\ \A v \in ToSet(by) : v.name = by[1].name) => shape.fields[f] = Type(Last(by), f)
=============================================================================
