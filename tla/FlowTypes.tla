------------------------------ MODULE FlowTypes ------------------------------
(***************************************************************************)
(* Flow-sensitive inference (luabox-types, infer.rs and infer/narrow.rs):  *)
(* the type state of the variables as a body is walked, narrowed by        *)
(* conditions and merged where branches join; and runs of the same         *)
(* programs, which the types have to cover.                                *)
(*                                                                         *)
(*   local x: ty = e    if conds and bodies, orelse   closure body         *)
(*   assign x = e       while cond body               do body              *)
(*   read e             repeat body cond              return               *)
(*                      for body                      break                *)
(*                                                                         *)
(* Expressions are literals, names, not, and, or, comparisons, type tests, *)
(* and unknown, which nothing is known of.  All variables are the chunk's, *)
(* so that a closure's names of them are upvalues.                         *)
(*                                                                         *)
(* A Ty is a set of atoms, with more than one for a union, declared or     *)
(* left of an unknown that was falsy.  An ITy is a set of Tys, the members *)
(* of an inferred union.                                                   *)
(***************************************************************************)
EXTENDS Naturals, Sequences, FiniteSets, SequencesExt

Unknown == {{"unknown"}}
IsUnion(ty) == Cardinality(ty) > 1

\* ity_union: members of its own are flattened, and unknown is dropped beside
\* anything else ("optimistic").  A union that is one Ty stays one member.
ItyUnion(members) == IF members \subseteq Unknown THEN Unknown ELSE members \ Unknown

------------------------------------------------------------------------------
\* Predicates.
Pred(is, of) == [is |-> is, of |-> of]
Truthy == Pred("truthy", "")
Falsy  == Pred("falsy", "")
Nil    == Pred("nil", "")
NonNil == Pred("non_nil", "")

\* type_base, and the atoms each type() result covers.
TypeBase(tag) == {tag}
AtomsOf ==
    [nil |-> {"nil"}, boolean |-> {"boolean", "true", "false"}, number |-> {"number", "one"},
     string |-> {"string", "a"}, table |-> {"table"}, function |-> {"function"}]

\* narrow_type_is: what is left of a member; a union that is one is no match.
NarrowTypeIs(ty, tag) ==
    IF ty = {"unknown"} THEN {TypeBase(tag)}
    ELSE IF \E atom \in AtomsOf[tag] : ty = {atom} THEN {ty} ELSE {}

Filtered(ty, atoms) == IF ty \subseteq atoms THEN {} ELSE {ty \ atoms}

\* Whether a literal is assignable to a Ty.
Assignable(lit, ty) == \E atom \in ty : atom = lit \/ (atom \in DOMAIN AtomsOf /\ lit \in AtomsOf[atom])

\* Mutant: a boolean that was falsy is gone.
KeptOfFalsyLosing(ty) ==
    CASE ty \in {{"nil"}, {"false"}} -> {ty}
      [] ty = {"unknown"} -> {{"nil", "false"}}
      [] IsUnion(ty) -> {{atom} : atom \in ty \cap {"nil", "false"}}
      [] OTHER -> {}

KeptOfFalsy(ty) ==
    CASE ty \in {{"nil"}, {"false"}} -> {ty}
      [] ty = {"boolean"} -> {{"false"}}
      [] ty = {"unknown"} -> {{"nil", "false"}}
      [] IsUnion(ty) -> {{"nil"} : atom \in ty \cap {"nil"}} \cup {{"false"} : atom \in ty \cap {"false", "boolean"}}
      [] OTHER -> {}

\* What a predicate leaves of one member.
Kept(ty, pred) ==
    CASE pred.is = "truthy" -> IF ty = {"boolean"} THEN {{"true"}} ELSE Filtered(ty, {"nil", "false"})
      [] pred.is = "falsy" -> KeptOfFalsy(ty)
      [] pred.is = "nil" -> IF ty \cap {"nil", "unknown"} # {} THEN {{"nil"}} ELSE {}
      [] pred.is = "non_nil" -> Filtered(ty, {"nil"})
      [] pred.is = "type_is" -> NarrowTypeIs(ty, pred.of)
      [] pred.is = "not_type_is" -> IF ty = {"unknown"} \/ NarrowTypeIs(ty, pred.of) = {} THEN {ty} ELSE {}
      [] pred.is = "lit" -> IF ty = {"unknown"} \/ Assignable(pred.of, ty) THEN {{pred.of}} ELSE {}
      [] pred.is = "not_lit" -> IF ty = {pred.of} THEN {} ELSE {ty}

\* narrow: a predicate that leaves nothing degrades.
Narrow(ity, pred) ==
    LET kept == UNION {Kept(ty, pred) : ty \in ity}
    IN  IF kept # {} THEN ItyUnion(kept)
        ELSE CASE pred.is = "nil" -> {{"nil"}}
               [] pred.is = "type_is" -> {TypeBase(pred.of)}
               [] OTHER -> Unknown

\* eq_narrows: a name against a literal.
EqNarrows(subject, probe, holds) ==
    IF subject.is # "name" \/ probe.is # "value" THEN <<>>
    ELSE <<[x |-> subject.x,
            pred |-> IF probe.v = "nil" THEN (IF holds THEN Nil ELSE NonNil)
                     ELSE Pred(IF holds THEN "lit" ELSE "not_lit", probe.v)]>>

\* cond_narrows: what a condition tells when it held, or did not.
RECURSIVE CondNarrows(_, _)
CondNarrows(e, positive) ==
    CASE e.is = "name" -> <<[x |-> e.x, pred |-> IF positive THEN Truthy ELSE Falsy]>>
      [] e.is = "not" -> CondNarrows(e.of, ~positive)
      [] e.is = "and" /\ positive -> CondNarrows(e.l, TRUE) \o CondNarrows(e.r, TRUE)
      [] e.is = "or" /\ ~positive -> CondNarrows(e.l, FALSE) \o CondNarrows(e.r, FALSE)
      [] e.is = "eq" -> LET holds == e.pos = positive
                        IN  EqNarrows(e.l, e.r, holds) \o EqNarrows(e.r, e.l, holds)
      [] e.is = "type_is" -> <<[x |-> e.x, pred |-> Pred(IF e.pos = positive THEN "type_is" ELSE "not_type_is", e.tag)]>>
      [] OTHER -> <<>>

RECURSIVE Eval(_, _)
Eval(ty, e) ==
    CASE e.is = "value"   -> {{e.v}}
      [] e.is = "unknown" -> Unknown
      [] e.is = "name"    -> ty[e.x]
      [] e.is = "and"     -> ItyUnion(Narrow(Eval(ty, e.l), Falsy) \cup Eval(ty, e.r))
      [] e.is = "or"      -> ItyUnion(Narrow(Eval(ty, e.l), Truthy) \cup Eval(ty, e.r))
      [] OTHER            -> {{"boolean"}}

RECURSIVE NamesIn(_)
NamesIn(e) ==
    CASE e.is \in {"name", "type_is"} -> {e.x}
      [] e.is = "not" -> NamesIn(e.of)
      [] e.is \in {"and", "or", "eq"} -> NamesIn(e.l) \cup NamesIn(e.r)
      [] OTHER -> {}

------------------------------------------------------------------------------
(***************************************************************************)
(* The walk.  Its state is the type of each variable, the declared types,  *)
(* the types published for the names read at each place, and, for the      *)
(* property alone, the limits the walk has run into.                       *)
(***************************************************************************)
Entry == [ty |-> <<>>, declared |-> <<>>, reads |-> {}, limits |-> {}]

Reading(st, e, at) == [st EXCEPT !.reads = @ \cup {[at |-> at, x |-> x, ty |-> st.ty[x]] : x \in NamesIn(e)}]
Limit(st, P, what) == IF P THEN [st EXCEPT !.limits = @ \cup {what}] ELSE st
Set(st, x, ity)    == [st EXCEPT !.ty = (x :> ity) @@ @]

\* A union drops an unknown that something may have put there.
Optimistic(itys) == Unknown \in itys /\ itys # {Unknown}

\* A type test sees a union that is one Ty beside another member.
Mixed(ity, pred) == pred.is = "type_is" /\ Cardinality(ity) > 1 /\ \E ty \in ity : IsUnion(ty)

\* apply_narrows.
ApplyNarrows(st, e, positive) ==
    FoldLeft(LAMBDA acc, n :
                 IF n.x \in DOMAIN acc.ty
                 THEN Limit(Set(acc, n.x, Narrow(acc.ty[n.x], n.pred)), Mixed(acc.ty[n.x], n.pred), "mixed")
                 ELSE acc,
             st, CondNarrows(e, positive))

\* merge_states: of the arms that go on; with none, the state stays.
MergeStates(st, outs) ==
    LET Itys(x) == {outs[k][x] : k \in {j \in DOMAIN outs : x \in DOMAIN outs[j]}}
    IN  IF outs = <<>> THEN st
        ELSE LET names == UNION {DOMAIN outs[k] : k \in DOMAIN outs}
             IN  Limit([st EXCEPT !.ty = [x \in names |->
                                             LET itys == Itys(x) IN IF Cardinality(itys) = 1 THEN CHOOSE i \in itys : TRUE
                                                                    ELSE ItyUnion(UNION itys)]],
                       \E x \in names : Optimistic(Itys(x)), "optimistic")

BlockTerminates(b) == b # <<>> /\ Last(b).is \in {"return", "break"}

RECURSIVE WalkBlock(_, _, _, _)

\* walk_if: every arm starts from what the conditions before it left.
WalkIf(st, s, at, up) ==
    LET Arm(acc, k) ==
            LET cond == s.arms[k].cond
                body == WalkBlock(ApplyNarrows(Reading(acc.st, cond, Append(at, k)), cond, TRUE),
                                  s.arms[k].body, Append(at, k), up)
            IN  [st   |-> ApplyNarrows([body EXCEPT !.ty = acc.st.ty], cond, FALSE),
                 outs |-> IF BlockTerminates(s.arms[k].body) THEN acc.outs ELSE Append(acc.outs, body.ty)]
        fall == FoldLeftDomain(Arm, [st |-> st, outs |-> <<>>], s.arms)
        else == WalkBlock(fall.st, s.orelse, Append(at, 0), up)
    IN  MergeStates(else, IF BlockTerminates(s.orelse) THEN fall.outs ELSE Append(fall.outs, else.ty))

\* assign_into: a declared variable is left as it is; through a closure, the
\* value joins what was there.
Assign(st, s, up) ==
    LET value == Eval(st.ty, s.e)
    IN  CASE s.x \in DOMAIN st.declared -> Limit(st, st.ty[s.x] # {st.declared[s.x]}, "declared")
          [] s.x \notin DOMAIN st.declared /\ up ->
                Limit(Set(st, s.x, ItyUnion(st.ty[s.x] \cup value)), Optimistic({st.ty[s.x], value}), "optimistic")
          [] OTHER -> Set(st, s.x, value)

\* walk_local: a declared type is the state.
Local(st, s) ==
    IF s.ty = {} THEN Set(st, s.x, Eval(st.ty, s.e))
    ELSE Set([st EXCEPT !.declared = (s.x :> s.ty) @@ @], s.x, {s.ty})

\* The body of a loop is walked once, and what it leaves joins what it found.
Loop(st, entered, s, at, up) ==
    LET body == WalkBlock(entered, s.body, at, up) IN MergeStates(body, <<body.ty, st.ty>>)

\* walk_body of a nested function: in the state of where it is written, and
\* what it leaves is the state of what follows.
Closure(st, s, at) ==
    LET body == WalkBlock(st, s.body, at, TRUE)
    IN  Limit(body, \E x \in DOMAIN st.ty : ~(st.ty[x] \subseteq body.ty[x]), "closure")

\* Of the expressions, and and or make unions of their own.
WalkStmt(before, s, at, up) ==
    LET st == IF s.is \in {"local", "assign", "read"}
              THEN Limit(Reading(before, s.e, at), s.e.is \in {"and", "or"}, "optimistic") ELSE before
    IN  CASE s.is = "local"   -> Local(st, s)
          [] s.is = "assign"  -> Assign(st, s, up)
          [] s.is = "if"      -> WalkIf(st, s, at, up)
          [] s.is = "while"   -> LET read == Reading(st, s.cond, at)
                                 IN  Loop(read, ApplyNarrows(read, s.cond, TRUE), s, at, up)
          [] s.is = "for"     -> Loop(st, st, s, at, up)
          [] s.is = "repeat"  -> Reading(WalkBlock(st, s.body, at, up), s.cond, at)
          [] s.is = "do"      -> WalkBlock(st, s.body, at, up)
          [] s.is = "closure" -> Closure(st, s, at)
          [] OTHER            -> st

WalkBlock(st, b, at, up) ==
    FoldLeftDomain(LAMBDA acc, k : WalkStmt(acc, b[k], Append(at, k), up), st, b)

Walk(program) == WalkBlock(Entry, program, <<>>, FALSE)

------------------------------------------------------------------------------
(***************************************************************************)
(* Runs, of the kind the walk is made for: a loop's body runs at most      *)
(* once, no loop is left by break, a closure is called where it is made or *)
(* never, and a declared variable holds a value of its type.  A value is   *)
(* wild when it came from unknown.                                         *)
(***************************************************************************)
Value(v)  == [v |-> v, wild |-> FALSE]
Wild      == {[v |-> v, wild |-> TRUE] : v \in {"nil", "false", "two", "b"}}
Bool(P)   == Value(IF P THEN "true" ELSE "false")
IsTrue(w) == w.v \notin {"nil", "false"}

\* The values an atom stands for: it stands for itself, as a literal, or for
\* a type.
Denotes(atom) ==
    CASE atom = "boolean" -> {"true", "false"}
      [] atom = "number"  -> {"one", "two"}
      [] atom = "string"  -> {"a", "b"}
      [] OTHER            -> {atom}
ValuesOf(ty) == UNION {Denotes(atom) : atom \in ty}
TypeOf(v)    == CASE v \in {"true", "false"} -> "boolean"
                  [] v \in {"one", "two"}    -> "number"
                  [] v \in {"a", "b"}        -> "string"
                  [] OTHER                   -> v

RECURSIVE Results(_, _)
Results(env, e) ==
    CASE e.is = "value"   -> {Value(e.v)}
      [] e.is = "unknown" -> Wild
      [] e.is = "name"    -> {env[e.x]}
      [] e.is = "not"     -> {Bool(~IsTrue(w)) : w \in Results(env, e.of)}
      [] e.is = "eq"      -> {Bool((p[1].v = p[2].v) = e.pos) : p \in Results(env, e.l) \X Results(env, e.r)}
      [] e.is = "type_is" -> {Bool((TypeOf(env[e.x].v) = e.tag) = e.pos)}
      [] e.is = "and"     -> {IF IsTrue(p[1]) THEN p[2] ELSE p[1] : p \in Results(env, e.l) \X Results(env, e.r)}
      [] e.is = "or"      -> {IF IsTrue(p[1]) THEN p[1] ELSE p[2] : p \in Results(env, e.l) \X Results(env, e.r)}

Seen(run, e, at) == [run EXCEPT !.reads = @ \cup {[at |-> at, x |-> x, value |-> run.env[x]] : x \in NamesIn(e)}]
Gets(run, x, w)  == [run EXCEPT !.env = (x :> w) @@ @]
Holds(run, e)    == \E w \in Results(run.env, e) : IsTrue(w)
Fails(run, e)    == \E w \in Results(run.env, e) : ~IsTrue(w)

RECURSIVE RunBlock(_, _, _)

RunIf(run, s, at) ==
    LET From(k) == {r \in {run} : \A j \in 1..k : Fails(run, s.arms[j].cond)}
        Upto(k) == FoldLeft(LAMBDA acc, j : Seen(acc, s.arms[j].cond, Append(at, j)), run, [j \in 1..k |-> j])
    IN  UNION {RunBlock(Upto(k), s.arms[k].body, Append(at, k)) :
                  k \in {j \in DOMAIN s.arms : From(j - 1) # {} /\ Holds(run, s.arms[j].cond)}}
        \cup (IF From(Len(s.arms)) = {} THEN {} ELSE RunBlock(Upto(Len(s.arms)), s.orelse, Append(at, 0)))

\* The types hold for what a declared variable is given only if it may be.
RunStmt(run, s, at) ==
    LET saw  == IF s.is \in {"local", "assign", "read"} THEN Seen(run, s.e, at) ELSE run
        Body == RunBlock(saw, s.body, at)
    IN  CASE s.is = "local" /\ s.ty # {} -> {[Gets(saw, s.x, Value(v)) EXCEPT !.declared = (s.x :> s.ty) @@ @] : v \in ValuesOf(s.ty)}
          [] s.is = "local" /\ s.ty = {} -> {Gets(saw, s.x, w) : w \in Results(saw.env, s.e)}
          [] s.is = "assign" -> {Gets(saw, s.x, w) : w \in {v \in Results(saw.env, s.e) :
                                    s.x \in DOMAIN saw.declared => v.v \in ValuesOf(saw.declared[s.x])}}
          [] s.is = "if" -> RunIf(run, s, at)
          [] s.is = "while" ->
                LET read == Seen(run, s.cond, at)
                IN  (IF Fails(run, s.cond) THEN {read} ELSE {})
                    \cup {r \in (IF Holds(run, s.cond) THEN RunBlock(read, s.body, at) ELSE {}) :
                             r.returned \/ Fails(r, s.cond)}
          [] s.is = "for" -> {saw} \cup Body
          [] s.is = "repeat" -> {IF r.returned THEN r ELSE Seen(r, s.cond, at) : r \in {q \in Body : q.returned \/ Holds(q, s.cond)}}
          [] s.is = "do" -> Body
          [] s.is = "closure" -> {saw} \cup {[r EXCEPT !.returned = FALSE] : r \in Body}
          [] s.is = "return" -> {[saw EXCEPT !.returned = TRUE]}
          [] s.is = "break" -> {}
          [] OTHER -> {saw}

RunBlock(run, b, at) ==
    FoldLeftDomain(LAMBDA runs, k : UNION {IF r.returned THEN {r} ELSE RunStmt(r, b[k], Append(at, k)) : r \in runs},
                   {run}, b)

Runs(program) == RunBlock([env |-> <<>>, declared |-> <<>>, returned |-> FALSE, reads |-> {}], program, <<>>)

------------------------------------------------------------------------------
Covers(ity, v) == ity = Unknown \/ v \in UNION {ValuesOf(ty) : ty \in ity}

\* Every value a run reads is of the type published where it is read, unless
\* the walk has run into one of the given limits; a wild value may be outside
\* a type that unknown was dropped from.
TypesCover(program, limits) ==
    LET walk == Walk(program)
    IN  walk.limits \cap limits # {} \/
        \A run \in Runs(program) : \A read \in run.reads : \A p \in walk.reads :
            p.at = read.at /\ p.x = read.x =>
                Covers(p.ty, read.value.v) \/ (read.value.wild /\ "optimistic" \in walk.limits)

\* A union that is one Ty is never one of several members of an ITy.
UnionsAreFlat(program) ==
    \A p \in Walk(program).reads : Cardinality(p.ty) > 1 => \A ty \in p.ty : ~IsUnion(ty)
=============================================================================
