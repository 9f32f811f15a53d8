------------------------------ MODULE Lowering ------------------------------
(***************************************************************************)
(* Lowering a Lua 5.4 file to an older target (luabox-lower): goto and     *)
(* labels to 5.1 (gotos.rs), <close> to any of them (attribs.rs), each a   *)
(* set of edits of the text, applied together (edit.rs), of a program the  *)
(* control-flow check accepts (luabox-hir, validate.rs).  A statement is   *)
(* its path: the block Front(p) and the place Last(p) in it; a block's     *)
(* owner is its Front.                                                     *)
(***************************************************************************)
EXTENDS LuaText

Stmts(ts)   == {ts[k].at : k \in DOMAIN ts}
First(ts, p) == Min({k \in DOMAIN ts : ts[k].at = p})
Final(ts, p) == Max({k \in DOMAIN ts : IsPrefix(p, ts[k].at)})
Kind(ts, p)  == ts[First(ts, p)].t
Name(ts, p)  == ts[First(ts, p)].name
OfKind(ts, kind) == {p \in Stmts(ts) : Kind(ts, p) = kind}
In(ts, block) == {p \in Stmts(ts) : Front(p) = block}
Size(ts, block) == Cardinality(In(ts, block))
Inside(p, q) == IsStrictPrefix(q, p)

\* Some statements, in the order of the text.
InOrder(ts, ps) ==
    LET firsts == SelectSeq([k \in DOMAIN ts |-> k], LAMBDA k : ts[k].at \in ps /\ k = First(ts, ts[k].at))
    IN  [k \in DOMAIN firsts |-> ts[firsts[k]].at]

LoopStmts == {"while", "repeat"}
LoopBetween(ts, p, top) == \E q \in Stmts(ts) : Kind(ts, q) \in LoopStmts /\ IsPrefix(top, q) /\ Inside(p, q)

\* resolve_label: from the goto's block outwards.
LabelOf(ts, g) ==
    LET seen == {l \in OfKind(ts, "label") : Name(ts, l) = Name(ts, g) /\ IsPrefix(Front(l), g)}
    IN  IF seen = {} THEN <<>> ELSE CHOOSE l \in seen : \A m \in seen : Len(m) <= Len(l)

\* control_flow: what luabox check refuses of 5.4.
CheckRefuses(ts) ==
    \/ \E g \in OfKind(ts, "goto") : LabelOf(ts, g) = <<>>
    \/ \E b \in OfKind(ts, "break") : ~LoopBetween(ts, b, <<>>)
    \/ \E l, m \in OfKind(ts, "label") :
          /\ Name(ts, l) = Name(ts, m) /\ First(ts, l) < First(ts, m)
          /\ IsPrefix(Front(l), m)

------------------------------------------------------------------------------
\* gotos.rs.  Where a goto is anchored in its label's block: itself, or the if
\* whose branch it ends.
Anchor(ts, g, block) ==
    LET owner == Front(Front(g)) IN
    CASE Front(g) = block -> g
      [] Len(g) >= 3 /\ Kind(ts, owner) = "if" /\ Front(owner) = block /\ Last(g) = Size(ts, Front(g)) -> owner
      [] OTHER -> <<>>

Plan(ts, g) ==
    LET l == LabelOf(ts, g)  a == Anchor(ts, g, Front(l)) IN
    [goto |-> g, label |-> l, anchor |-> a, branch |-> a # g, block |-> Front(l),
     min |-> IF Last(a) < Last(l) THEN Last(a) ELSE Last(l),
     max |-> IF Last(a) < Last(l) THEN Last(l) ELSE Last(a),
     backward |-> Last(a) > Last(l)]

Plans(ts) == {Plan(ts, g) : g \in OfKind(ts, "goto")}

PlansInOrder(ts) ==
    LET gs == InOrder(ts, OfKind(ts, "goto")) IN [k \in DOMAIN gs |-> Plan(ts, gs[k])]

\* backward_shape_error
FitsALoop(ts, p) ==
    IF p.branch THEN Append(p.anchor, 2) \notin {Front(q) : q \in Stmts(ts)}
                     /\ "else" \notin {ts[k].t : k \in {j \in DOMAIN ts : ts[j].at = p.anchor}}
                     /\ Size(ts, Front(p.goto)) = 1
    ELSE Last(p.anchor) = Size(ts, p.block)

\* check_region_breaks: a break below a statement of the region, in no loop of it.
BreaksOut(ts, p) ==
    \E b \in OfKind(ts, "break"), s \in In(ts, p.block) :
        Last(s) \in p.min + 1..p.max - 1 /\ Inside(b, s) /\ ~LoopBetween(ts, b, s)

Apart(a, b)  == a.max < b.min \/ b.max < a.min
Inner(a, b)  == b.min < a.min /\ a.max < b.max

\* compatible
Compatible(a, b) ==
    IF a.backward \/ b.backward THEN Apart(a, b) \/ Inner(a, b) \/ Inner(b, a)
    ELSE \/ a.max <= b.min \/ b.max <= a.min
         \/ (a.min <= b.min /\ b.max <= a.max) \/ (b.min <= a.min /\ a.max <= b.max)

\* LB0601
GotosRefused(ts) ==
    \/ \E g \in OfKind(ts, "goto") : LabelOf(ts, g) = <<>> \/ Anchor(ts, g, Front(LabelOf(ts, g))) = <<>>
    \/ \E p \in Plans(ts) :
          p.backward /\ (~FitsALoop(ts, p) \/ BreaksOut(ts, p) \/ \E q \in Plans(ts) \ {p} : q.label = p.label)
    \/ \E p, q \in Plans(ts) : p.goto # q.goto /\ p.block = q.block /\ ~Compatible(p, q)

\* An edit: the text between two places, and what is put there.  A word's own
\* place is even, the place after it odd.
Edit(from, to, put) == [from |-> from, to |-> to, put |-> put]
Before(ts, p) == 2 * First(ts, p)
Behind(ts, p) == 2 * Final(ts, p) + 1
Replace(ts, p, put) == Edit(Before(ts, p), Behind(ts, p), put)

\* Mutant: gotos of one if are opened nearest label first.
ForwardsNearestFirst(ts) ==
    SortSeq(SelectSeq(PlansInOrder(ts), LAMBDA p : ~p.backward),
            LAMBDA p, q : LET a == First(ts, p.anchor)  b == First(ts, q.anchor) IN
                a < b \/ (a = b /\ (p.max < q.max \/ (p.max = q.max /\ First(ts, p.goto) < First(ts, q.goto)))))

\* Farther labels first among the gotos of one if.
Forwards(ts) ==
    SortSeq(SelectSeq(PlansInOrder(ts), LAMBDA p : ~p.backward),
            LAMBDA p, q : LET a == First(ts, p.anchor)  b == First(ts, q.anchor) IN
                a < b \/ (a = b /\ (p.max > q.max \/ (p.max = q.max /\ First(ts, p.goto) < First(ts, q.goto)))))

\* rewrite_forward: a flag, and an if over what the goto skips.
ForwardEdits(ts) ==
    LET ps == Forwards(ts)
        Edits(p, flag) ==
            (IF p.branch THEN <<Edit(Before(ts, p.anchor), Before(ts, p.anchor), <<Tok("local flag = false", p.anchor, flag)>>),
                                Replace(ts, p.goto, <<Tok("flag = true", p.goto, flag)>>)>>
             ELSE <<Replace(ts, p.goto, <<Tok("local flag = true", p.goto, flag)>>)>>)
            \o <<Edit(Behind(ts, p.anchor), Behind(ts, p.anchor), <<Tok("if not flag", p.goto, flag)>>)>>
    IN  FoldLeftDomain(LAMBDA acc, k : acc \o Edits(ps[k], k), <<>>, ps)

\* A label becomes an end for each goto it ends; one with no goto is deleted.
LabelEdits(ts) ==
    LET labels == InOrder(ts, OfKind(ts, "label"))
        Ends(l) == [k \in 1..Cardinality({p \in Plans(ts) : p.label = l}) |-> Tok("end", l, 0)]
        plain == SelectSeq(labels, LAMBDA l : ~\E p \in Plans(ts) : p.label = l /\ p.backward)
    IN  [k \in DOMAIN plain |-> Replace(ts, plain[k], Ends(plain[k]))]

\* rewrite_backward: a loop from the label to the goto.
BackwardEdits(ts) ==
    LET ps == SelectSeq(PlansInOrder(ts), LAMBDA p : p.backward)
        Edits(p) ==
            IF p.branch
            THEN <<Replace(ts, p.label, <<Tok("repeat", p.label, 0)>>),
                   Replace(ts, p.anchor, <<Tok("until not", p.anchor, Name(ts, p.anchor))>>)>>
            ELSE <<Replace(ts, p.label, <<Tok("while true", p.label, 0)>>),
                   Replace(ts, p.goto, <<Tok("end", p.goto, 0)>>)>>
    IN  FoldLeft(LAMBDA acc, p : acc \o Edits(p), <<>>, ps)

------------------------------------------------------------------------------
\* attribs.rs.  The statements after a to-be-closed variable's, in its block.
TailOf(ts, d) == {s \in In(ts, Front(d)) : Last(s) > Last(d)}

\* check_tail_stmt and the straddle check: LB0603.
CloseRefused(ts, d, gotos) ==
    \/ \E s \in TailOf(ts, d), p \in Stmts(ts) :
          /\ IsPrefix(s, p)
          /\ \/ Kind(ts, p) = "return"
             \/ Kind(ts, p) = "break" /\ ~LoopBetween(ts, p, s)
             \/ Kind(ts, p) = "goto" /\ ~\E t \in TailOf(ts, d) : IsPrefix(t, LabelOf(ts, p))
    \/ gotos /\ \E p \in Plans(ts) : p.block = Front(d) /\ p.min <= Last(d) /\ Last(d) < p.max

\* The attribute goes; then, last variable first, the tail becomes the body of
\* a function given to close_scope.
CloseEdits(ts) ==
    LET ds == InOrder(ts, OfKind(ts, "close"))
        plain == [k \in DOMAIN ds |-> Replace(ts, ds[k], <<Tok("local", ds[k], Name(ts, ds[k]))>>)]
        EndOf(d) == Max({Behind(ts, s) : s \in TailOf(ts, d) \cup {d}})
        Wrap(d) == <<Edit(Behind(ts, d), Behind(ts, d), <<Tok("close_scope", d, 0)>>),
                     Edit(EndOf(d), EndOf(d), <<Tok("end)", d, 0)>>)>>
    IN  plain \o FoldRight(LAMBDA d, acc : acc \o Wrap(d), ds, <<>>)

\* edit::apply: in order of place, and of making where the places are the
\* same; one that overlaps what was done is dropped.
Apply(ts, edits) ==
    LET Earlier(i, j) == LET e == edits[i]  f == edits[j] IN
            e.from < f.from \/ (e.from = f.from /\ (e.to < f.to \/ (e.to = f.to /\ i < j)))
        order == SortSeq([i \in DOMAIN edits |-> i], Earlier)
        Words(a, b) == SelectSeq([k \in DOMAIN ts |-> [k |-> k, tok |-> ts[k]]], LAMBDA w : a <= 2 * w.k /\ 2 * w.k < b)
        Copy(a, b) == LET ws == Words(a, b) IN [k \in DOMAIN ws |-> ws[k].tok]
        Do(acc, i) == LET e == edits[i] IN
            IF e.from < acc.last THEN acc
            ELSE [out |-> acc.out \o Copy(acc.last, e.from) \o e.put, last |-> e.to]
        all == FoldLeft(Do, [out |-> <<>>, last |-> 0], order)
    IN  all.out \o Copy(all.last, 2 * Len(ts) + 2)

\* lower: for 5.1 (gotos) both rules, for 5.2 and 5.3 the second.
LowerRefuses(ts, gotos) ==
    (gotos /\ GotosRefused(ts)) \/ \E d \in OfKind(ts, "close") : CloseRefused(ts, d, gotos)

Lowered(ts, gotos) ==
    Apply(ts, (IF gotos THEN LabelEdits(ts) \o ForwardEdits(ts) \o BackwardEdits(ts) ELSE <<>>) \o CloseEdits(ts))

------------------------------------------------------------------------------
\* Lua's own: a goto does not enter the scope of a local, which ends where only
\* labels follow in the block; return ends its block.
LuaRefuses(ts) ==
    \/ \E g \in OfKind(ts, "goto"), d \in OfKind(ts, "local") \cup OfKind(ts, "close") :
        LET l == LabelOf(ts, g)  block == Front(l) IN
        /\ l # <<>> /\ Front(d) = block
        /\ g[Len(l)] < Last(d) /\ Last(d) < Last(l)
        /\ \/ \E s \in In(ts, block) : Last(s) > Last(l) /\ Kind(ts, s) # "label"
           \/ block # <<>> /\ Kind(ts, Front(block)) = "repeat"
    \/ \E r \in OfKind(ts, "return") : Last(r) # Size(ts, Front(r))

\* What the rules do not keep, and do not refuse: a local of a loop's region
\* used after it; a break in a region itself; a variable to close in a repeat,
\* whose until is left outside; a label in the tail with gotos from before it.
KnownLimit(ts, gotos) ==
    LET sh == Shape(ts) IN
    \/ gotos /\ \E p \in Plans(ts) :
          /\ p.backward
          /\ \/ \E k \in DOMAIN ts : LET d == Means(ts, sh, k) IN
                    /\ ts[k].t \in Tests \cup {"use"} /\ d # <<>> /\ Front(d) = p.block
                    /\ Last(d) \in p.min..p.max /\ ts[k].at[Len(d)] > p.max
             \/ \E b \in OfKind(ts, "break") : Front(b) = p.block /\ Last(b) \in p.min..p.max
    \/ \E d \in OfKind(ts, "close") :
          \/ Front(d) # <<>> /\ Kind(ts, Front(Front(d))) = "repeat"
          \/ ~gotos /\ \E g \in OfKind(ts, "goto") :
                LET l == LabelOf(ts, g) IN Front(l) = Front(d) /\ g[Len(l)] < Last(d) /\ Last(d) < Last(l)

\* A program Lua and luabox check accept, lowered, compiles for the target and
\* does what it did, whatever its conditions answer.
LoweringKeepsTheRun(ts, gotos, Answers, Events) ==
    \/ CheckRefuses(ts) \/ LuaRefuses(ts) \/ LowerRefuses(ts, gotos) \/ KnownLimit(ts, gotos)
    \/ LET out == Lowered(ts, gotos)  was == Shape(ts)  is == Shape(out) IN
       /\ Compiles(out, is)
       /\ gotos => \A k \in DOMAIN out : out[k].t \notin {"goto", "label"}
       /\ \A answers \in Answers : Run(out, is, answers, Events) = Run(ts, was, answers, Events)
=============================================================================
