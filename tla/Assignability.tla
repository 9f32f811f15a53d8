--------------------------- MODULE Assignability ---------------------------
(***************************************************************************)
(* May a value of one type flow into a slot of another (luabox-types,      *)
(* assign.rs)?  A type is a record of its kind; an environment is          *)
(* ClassShape's, each field [ty, optional].  What the code asks of one pair *)
(* of types is a goal, an and-or tree over further questions in the order  *)
(* they are asked; Answer is the code's search through it with its list of *)
(* pairs seen, Fits the coinductive relation the list stands for.          *)
(***************************************************************************)
EXTENDS ClassShape

Ty(kind) == [kind |-> kind]
Named(name) == [kind |-> "named", name |-> name]
\* A number literal; in lit, whether it is whole.
NumberLit(whole) == [kind |-> "lit", whole |-> whole]
UnionTy(members) == [kind |-> "union", of |-> members]
\* Fields by name; at most one array element type; indexers [key, value].
TableTy(fields, array, indexers) == [kind |-> "table", fields |-> fields, array |-> array, indexers |-> indexers]
\* Parameters [ty, optional], at most one vararg type, returns.
FunctionTy(params, varargs, returns, open, annotated, overloads) ==
    [kind |-> "function", params |-> params, varargs |-> varargs, returns |-> returns,
     returns_vararg |-> open, annotated |-> annotated, overloads |-> overloads]

\* Ty::optional, for a member of no duplicates.
Optional(ty) == CASE ty.kind = "nil" -> ty
                  [] ty.kind = "union" -> IF Contains(ty.of, Ty("nil")) THEN ty ELSE UnionTy(Append(ty.of, Ty("nil")))
                  [] OTHER -> UnionTy(<<ty, Ty("nil")>>)

RECURSIVE AdmitsNil(_)
AdmitsNil(ty) == \/ ty.kind \in {"nil", "any", "unknown"}
                 \/ ty.kind = "union" /\ \E m \in ToSet(ty.of) : AdmitsNil(m)

LenientParam(ty) == ty.kind \in {"unknown", "any"}

\* resolve_named, for a class: its merged shape.
Resolved(caps, env, name) ==
    LET shape == Shape(caps, env, name)
    IN  TableTy([f \in DOMAIN shape.fields |-> shape.fields[f].ty], <<>>, <<>>)

------------------------------------------------------------------------------
\* Goals.
Ask(value, target) == [op |-> "ask", value |-> value, target |-> target]
AllOf(goals) == [op |-> "all", of |-> goals]
AnyOf(goals) == [op |-> "any", of |-> goals]
When(key, goal) == [op |-> "when", of |-> <<key, goal>>]
Holds(b) == IF b THEN AllOf(<<>>) ELSE AnyOf(<<>>)

Rest(list, from) == SubSeq(list, from, Len(list))

\* check_function_sig: parameters from target to value, nothing required that
\* the target does not supply, what a vararg absorbs, returns.
FunctionSig(v, t) ==
    LET Parameter(i) ==
            IF i > Len(t.params) /\ t.varargs = <<>> THEN Holds(TRUE)
            ELSE LET ty == IF i <= Len(t.params) THEN t.params[i].ty ELSE t.varargs[1]
                 IN  IF LenientParam(ty) \/ LenientParam(v.params[i].ty) THEN Holds(TRUE) ELSE Ask(ty, v.params[i].ty)
        supplied == t.varargs # <<>> \/ \A p \in ToSet(Rest(v.params, Len(t.params) + 1)) : p.optional \/ AdmitsNil(p.ty)
        absorbed == IF v.varargs = <<>> \/ LenientParam(v.varargs[1]) THEN <<>> ELSE Rest(t.params, Len(v.params) + 1)
        Return(i) == IF i <= Len(v.returns) THEN Ask(v.returns[i], t.returns[i])
                     ELSE Holds(t.returns_vararg \/ AdmitsNil(t.returns[i]))
    IN  AllOf([i \in DOMAIN v.params |-> Parameter(i)] \o <<Holds(supplied)>>
            \o [i \in DOMAIN absorbed |-> Ask(absorbed[i].ty, v.varargs[1])]
            \o IF v.annotated THEN [i \in DOMAIN t.returns |-> Return(i)] ELSE <<>>)

\* check_function: the primary signature or an overload.
Function_(v, t) == AnyOf(<<FunctionSig(v, t)>> \o [k \in DOMAIN v.overloads |-> FunctionSig(v.overloads[k], t)])

\* check_table: every target field, array elements, and each target indexer a
\* value indexer's keys can reach.
Table(v, t) ==
    LET fields == SetToSortSeq(DOMAIN t.fields, <)
        Field(f) == LET field == t.fields[f] IN
            IF f \in DOMAIN v.fields THEN Ask(v.fields[f].ty, IF field.optional THEN Optional(field.ty) ELSE field.ty)
            ELSE Holds(field.optional \/ AdmitsNil(field.ty))
        Reach(i) == AllOf([k \in DOMAIN v.indexers |->
            When(Ask(v.indexers[k].key, t.indexers[i].key), Ask(v.indexers[k].value, t.indexers[i].value))])
    IN  AllOf([k \in DOMAIN fields |-> Field(fields[k])]
            \o (IF v.array # <<>> /\ t.array # <<>> THEN <<Ask(v.array[1], t.array[1])>> ELSE <<>>)
            \o [i \in DOMAIN t.indexers |-> Reach(i)])

\* Ctx::check, past the pairs of names: what one question comes down to.
Rule(caps, env, strict, v, t) ==
    CASE v.kind = "any" \/ t.kind \in {"any", "unknown"} -> Holds(TRUE)
      [] v.kind = "unknown" -> Holds(~strict)
      [] v.kind = "union" -> AllOf([k \in DOMAIN v.of |-> Ask(v.of[k], t)])
      [] t.kind = "union" -> AnyOf([k \in DOMAIN t.of |-> Ask(v, t.of[k])])
      [] v.kind = "named" -> IF v.name \in DOMAIN env THEN Ask(Resolved(caps, env, v.name), t) ELSE Holds(~strict)
      [] t.kind = "named" -> IF t.name \in DOMAIN env THEN Ask(v, Resolved(caps, env, t.name)) ELSE Holds(TRUE)
      [] v.kind = t.kind /\ v.kind \in {"function", "table"} /\ v = t -> Holds(TRUE)
      [] v.kind = "function" /\ t.kind = "function" -> Function_(v, t)
      [] v.kind = "table" /\ t.kind = "table" -> Table(v, t)
      [] v.kind = "lit" -> Holds(t.kind = "number" \/ (t.kind = "integer" /\ v.whole) \/ v = t)
      [] OTHER -> Holds(v.kind = t.kind \/ (v.kind = "integer" /\ t.kind = "number"))

------------------------------------------------------------------------------
\* Ctx, and the answer it last came to.  In suspect, the pairs whose presence
\* in the list no longer means anything: refuted, or found while one refuted
\* since was being assumed.  In leaned, whether one of those was used.
NewCtx == [seen |-> <<>>, suspect |-> {}, leaned |-> FALSE, fits |-> TRUE]

\* Mutant: a pair of the same value counts as seen.
KnownByValue(seen, pair) == \E p \in ToSet(seen) : p[1] = pair[1]

\* The guard for a pair of names.
Known(seen, pair) == Contains(seen, pair)

RECURSIVE Answer(_, _, _, _, _)
Answer(caps, env, strict, ctx, goal) ==
    LET Both(c, g)   == IF c.fits THEN Answer(caps, env, strict, c, g) ELSE c
        Either(c, g) == IF c.fits THEN c ELSE Answer(caps, env, strict, c, g)
        pair == <<goal.value.name, goal.target.name>>
        Deep(c) == Answer(caps, env, strict, c, Rule(caps, env, strict, goal.value, goal.target))
        Closed(c) == IF c.fits THEN c
                     ELSE [c EXCEPT !.suspect = @ \cup ToSet(Rest(c.seen, Len(ctx.seen) + 1))]
    IN
    CASE goal.op = "all"  -> FoldLeft(Both, [ctx EXCEPT !.fits = TRUE], goal.of)
      [] goal.op = "any"  -> FoldLeft(Either, [ctx EXCEPT !.fits = FALSE], goal.of)
      [] goal.op = "when" -> LET key == Answer(caps, env, strict, ctx, goal.of[1]) IN
                             IF key.fits THEN Answer(caps, env, strict, key, goal.of[2]) ELSE [key EXCEPT !.fits = TRUE]
      [] goal.value.kind # "named" \/ goal.target.kind # "named" -> Deep(ctx)
      [] goal.value.name = goal.target.name -> [ctx EXCEPT !.fits = TRUE]
      [] Known(ctx.seen, pair) -> [ctx EXCEPT !.fits = TRUE, !.leaned = @ \/ pair \in ctx.suspect]
      [] IsSubclass(caps, env, pair[1], pair[2]) -> [ctx EXCEPT !.fits = TRUE]
      [] OTHER -> Closed(Deep([ctx EXCEPT !.seen = Append(@, pair)]))

\* assignable
Assignable(caps, env, strict, v, t) == Answer(caps, env, strict, NewCtx, Ask(v, t))

------------------------------------------------------------------------------
(***************************************************************************)
(* The relation itself, without the list: the greatest set of pairs of     *)
(* names each of which fits if those of the set do.                        *)
(***************************************************************************)
RECURSIVE FitsGiven(_, _, _, _, _)
FitsGiven(caps, env, strict, granted, goal) ==
    LET Sub(g) == FitsGiven(caps, env, strict, granted, g) IN
    CASE goal.op = "all"  -> \A g \in ToSet(goal.of) : Sub(g)
      [] goal.op = "any"  -> \E g \in ToSet(goal.of) : Sub(g)
      [] goal.op = "when" -> Sub(goal.of[1]) => Sub(goal.of[2])
      [] goal.value.kind = "named" /\ goal.target.kind = "named" -> <<goal.value.name, goal.target.name>> \in granted
      [] OTHER -> Sub(Rule(caps, env, strict, goal.value, goal.target))

RECURSIVE Greatest(_, _, _, _)
Greatest(caps, env, strict, granted) ==
    LET fit == {p \in granted : \/ p[1] = p[2]
                                \/ IsSubclass(caps, env, p[1], p[2])
                                \/ FitsGiven(caps, env, strict, granted, Rule(caps, env, strict, Named(p[1]), Named(p[2])))}
    IN  IF fit = granted THEN granted ELSE Greatest(caps, env, strict, fit)

Fits(caps, env, strict, names, v, t) ==
    FitsGiven(caps, env, strict, Greatest(caps, env, strict, names \X names), Ask(v, t))

\* The search refuses nothing the relation accepts, and accepts more only when
\* it leaned on a pair that no longer meant anything.
SearchIsCoinductive(caps, env, strict, names, v, t) ==
    LET found == Assignable(caps, env, strict, v, t)
    IN  IF Fits(caps, env, strict, names, v, t) THEN found.fits ELSE ~found.fits \/ found.leaned
=============================================================================
