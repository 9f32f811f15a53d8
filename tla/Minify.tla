------------------------------- MODULE Minify -------------------------------
(***************************************************************************)
(* The renaming of --minify (luabox-bundle, minify.rs) by the resolver's   *)
(* answers, and what it must keep: Lua's visibility rules, stated without  *)
(* a resolver.                                                             *)
(***************************************************************************)
EXTENDS NameResolution

Text(program) == Words(program, <<>>)

\* What is written where.
SpellingOf(words) == [q \in {w.site : w \in words} |-> (CHOOSE w \in words : w.site = q).name]

Spelling(program) == SpellingOf(ToSet(Text(program)))

------------------------------------------------------------------------------
\* Mutant: fresh names keep clear of the names of locals only.
ForbiddenLocals(program) ==
    {Self} \cup {d.name : d \in ToSet(Lower(program).declared)}

\* NameGen::new: every identifier in the module, and self.
Forbidden(program) == {Self} \cup {w.name : w \in ToSet(Text(program))}

\* The first n names that are not forbidden.
FreshOutside(taken, n) == SubSeq(SetToSortSeq(1..(n + Cardinality(taken)) \ taken, <), 1, n)

Fresh(program, n) == FreshOutside(Forbidden(program), n)

\* A binding, with its declaration and every name expression resolved to it.
BindingsOf(low) ==
    LET spelt == SelectSeq(low.declared, LAMBDA d : Last(d.site) # Tag.self)
    IN  [k \in DOMAIN spelt |-> {spelt[k].site} \cup {r.use : r \in {q \in low.resolved : q.to = spelt[k].site}}]

Bindings(program) == BindingsOf(Lower(program))

\* label_edits: a label and its gotos; one whose gotos are not all plain is
\* left alone.
LabelSites(program) ==
    LET labels == SelectSeq(Text(program), LAMBDA w : w.is = "label")
        To(l)  == {g \in Gotos(program) : g.to = l.site}
        plain  == SelectSeq(labels, LAMBDA l : \A g \in To(l) : g.plain)
    IN  [k \in DOMAIN plain |-> {plain[k].site} \cup {g.goto : g \in To(plain[k])}]

Edits(groups, fresh) ==
    [q \in UNION ToSet(groups) |-> fresh[CHOOSE k \in DOMAIN groups : q \in groups[k]]]

\* rename: one fresh name for each, and every other site as it was.
Rename(program) ==
    LET groups == Bindings(program) \o LabelSites(program)
    IN  Edits(groups, Fresh(program, Len(groups))) @@ Spelling(program)

------------------------------------------------------------------------------
(***************************************************************************)
(* Lua's rules (manual 3.5): a local's scope begins after the statement    *)
(* that declares it, a local function's with its body, a parameter's and a *)
(* loop variable's is the body, and until sees the body's locals; a name   *)
(* means the declaration of it written last among those in scope.          *)
(***************************************************************************)
UsesIn(words) == {w.site : w \in {v \in ToSet(words) : v.is = "use"}}

\* The declarations of a block, in the order of the text, each with the uses
\* in its scope; rest are the uses that follow the block and still see it.
RECURSIVE Scopes(_, _, _)
Scopes(b, path, rest) ==
    LET In(s, p, after) ==
            LET body == p \o (IF s.kind \in Functions THEN <<Tag.fn>>
                              ELSE IF s.kind = "if" THEN <<Tag.then>> ELSE <<>>)
                below == UsesIn(Words(s.body, body))
                Each(names, q, scope) == [k \in DOMAIN names |-> [site |-> q \o <<Tag.name, k>>, scope |-> scope]]
            IN  CASE s.kind = "local" -> Each(s.names, p, after)
                  [] s.kind = "for" -> Each(s.names, p, below) \o Scopes(s.body, body, {})
                  [] s.kind \in Functions ->
                        (IF s.kind = "localfn" THEN Each(s.names, p, below \cup after)
                         ELSE IF s.kind = "localis" THEN Each(s.names, p, after)
                         ELSE IF s.method THEN <<[site |-> body \o <<Tag.self>>, scope |-> below]>> ELSE <<>>)
                            \o Each(s.params, body, below) \o Scopes(s.body, body, {})
                  [] s.kind = "repeat" -> Scopes(s.body, body, {p \o <<Tag.use, k>> : k \in DOMAIN s.cond})
                  [] s.kind = "if" -> Scopes(s.body, body, {}) \o Scopes(s.orelse, p \o <<Tag.else>>, {})
                  [] s.kind \in {"do", "while"} -> Scopes(s.body, body, {})
                  [] OTHER -> <<>>
        After(k) == rest \cup {u \in UsesIn(Words(b, path)) : u[Len(path) + 1] > k}
    IN  FoldLeftDomain(LAMBDA acc, k : acc \o In(b[k], Append(path, k), After(k)), <<>>, b)

Global(name) == <<Tag.global, name>>

\* What a use means when the program is spelt so.
Meaning(scopes, spelt, use) ==
    LET seen == {k \in DOMAIN scopes : use \in scopes[k].scope /\ spelt[scopes[k].site] = spelt[use]}
    IN  IF seen = {} THEN Global(spelt[use]) ELSE scopes[CHOOSE k \in seen : \A j \in seen : j <= k].site

\* Where a goto goes: the label of its name in the innermost block around it
\* that has one, in its own function.
Destination(words, spelt, goto) ==
    LET labels == {w.site : w \in {v \in words : v.is = "label"}}
        around == {l \in labels : /\ spelt[l] = spelt[goto]
                                  /\ IsPrefix(Front(l), goto)
                                  /\ Tag.fn \notin ToSet(SubSeq(goto, Len(l), Len(goto)))}
    IN  IF around = {} THEN <<>> ELSE CHOOSE l \in around : \A m \in around : Len(m) <= Len(l)

\* The resolver finds what each use means.
Lexical(resolved, words, scopes) ==
    /\ \A r \in resolved :
          Meaning(scopes, SpellingOf(words), r.use) = IF r.to = <<>> THEN Global(r.name) ELSE r.to
    /\ {w.site : w \in {v \in words : v.is = "use"}} = {r.use : r \in resolved}

ResolutionIsLexical(program) ==
    Lexical(Lower(program).resolved, ToSet(Text(program)), Scopes(program, <<>>, {}))

\* And means the same when the program is spelt as --minify spells it.
SameMeaning(words, scopes, was, is) ==
    \A w \in words :
        /\ w.is = "use"  => Meaning(scopes, is, w.site) = Meaning(scopes, was, w.site)
        /\ w.is = "goto" => Destination(words, is, w.site) = Destination(words, was, w.site)
        /\ w.is = "self" => is[w.site] = was[w.site]

RenamingKeepsMeaning(program) ==
    SameMeaning(ToSet(Text(program)), Scopes(program, <<>>, {}), Spelling(program), Rename(program))
=============================================================================
