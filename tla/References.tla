----------------------------- MODULE References -----------------------------
(***************************************************************************)
(* Find references and rename (luabox-lsp, references.rs and rename.rs)    *)
(* over the files of a workspace, each a program of NameResolution in      *)
(* which a use may go on to a member, x.m or x:m(), and a function         *)
(* statement may be dotted or a method, function x.m() or function x:m().  *)
(* There is one member name.  The annotations of classes, whose @field     *)
(* lines are references of a member too, are left out.                     *)
(***************************************************************************)
EXTENDS Minify

Member == -1

\* node.descendants(): every statement and where it stands.
RECURSIVE Descendants(_, _)
Descendants(b, path) ==
    LET Below(s, p) ==
            CASE s.kind \in Functions -> Descendants(s.body, p \o <<Tag.fn>>)
              [] s.kind \in {"do", "while", "repeat", "for"} -> Descendants(s.body, p)
              [] s.kind = "if" -> Descendants(s.body, p \o <<Tag.then>>) \cup Descendants(s.orelse, p \o <<Tag.else>>)
              [] OTHER -> {}
    IN  UNION {{[stmt |-> b[k], at |-> Append(path, k)]} \cup Below(b[k], Append(path, k)) : k \in DOMAIN b}

\* The identifiers of a file: the names of NameResolution, and the members.
\* A method's name stands where its implicit self is declared.
Tokens(words, nodes) ==
    LET Of(kind, Has(_)) == {n \in nodes : n.stmt.kind = kind /\ Has(n.stmt)}
        Token(site, is)  == [site |-> site, name |-> Member, is |-> is]
    IN  {w \in words : w.is \in {"use", "name"}}
        \cup {Token(n.at \o <<Tag.use>>, "access") : n \in Of("use", LAMBDA s : s.member)}
        \cup {Token(n.at \o <<Tag.fn>>, "dotted") : n \in Of("assignfn", LAMBDA s : s.dotted)}
        \cup {Token(n.at \o <<Tag.fn, Tag.self>>, "method") : n \in Of("assignfn", LAMBDA s : s.method)}

\* FileSema: what the queries answer about a file.
FileSema(file) ==
    LET words == ToSet(Text(file))
        nodes == Descendants(file, <<>>)
    IN  [resolved |-> Lower(file).resolved, nodes |-> nodes, words |-> words,
         tokens |-> Tokens(words, nodes), scopes |-> Scopes(file, <<>>, {})]

------------------------------------------------------------------------------
\* What is at the cursor: a binding of its own file, or a global's or a
\* member's name in every file.
OfLocal(site)  == [is |-> "local", site |-> site]
OfGlobal(name) == [is |-> "global", name |-> name]
OfMember       == [is |-> "member"]

\* classify: a member access before anything else, then what a use resolves
\* to, the binding declared there, and last a function statement's own name.
Classify(sema, t) ==
    CASE t.is = "access" -> OfMember
      [] t.is = "use" -> LET to == (CHOOSE r \in sema.resolved : r.use = t.site).to
                         IN  IF to = <<>> THEN OfGlobal(t.name) ELSE OfLocal(to)
      [] t.is \in {"name", "method"} -> OfLocal(t.site)
      [] t.is = "dotted" -> OfMember

\* Mutant: an upvalue's uses are not the binding's.
CollectLocalOwn(sema, site) ==
    {site} \cup {r.use : r \in {q \in sema.resolved : q.to = site /\ q.up = 0}}

\* collect_local: the binding, and the uses resolved to it.
CollectLocal(sema, site) ==
    {site} \cup {r.use : r \in {q \in sema.resolved : q.to = site}}

\* The statements of some kinds whose first name is this one.
Naming(sema, kinds, name) == {n \in sema.nodes : n.stmt.kind \in kinds /\ n.stmt.names[1] = name}

\* functions(): local function f and local f = function count with function f.
FunctionsNamed(sema, name) ==
    {n.at \o <<Tag.name, 1>> : n \in Naming(sema, {"localfn", "localis"}, name)}
    \cup {n.at \o <<Tag.use, 1>> : n \in {m \in Naming(sema, {"assignfn"}, name) : ~m.stmt.dotted /\ ~m.stmt.method}}

\* global_defs(): the first segment of a function statement's name, and what is
\* assigned to, whatever it resolves to.
GlobalDefs(sema, name) == {n.at \o <<Tag.use, 1>> : n \in Naming(sema, {"assignfn"}, name)}

DefinitionsOf(sema, name) == FunctionsNamed(sema, name) \cup GlobalDefs(sema, name)

\* collect_cross.
CollectGlobal(sema, name) ==
    {r.use : r \in {q \in sema.resolved : q.to = <<>> /\ q.name = name}} \cup DefinitionsOf(sema, name)

CollectMember(sema) == {t.site : t \in {u \in sema.tokens : u.is \in {"access", "dotted", "method"}}}

\* references, the declaration included: the sites in each file.
Found(semas, f, t) ==
    LET target == Classify(semas[f], t)
    IN  CASE target.is = "local"  -> [g \in {f} |-> CollectLocal(semas[f], target.site)]
          [] target.is = "global" -> [g \in DOMAIN semas |-> CollectGlobal(semas[g], target.name)]
          [] target.is = "member" -> [g \in DOMAIN semas |-> CollectMember(semas[g])]

\* rename: of what was found, the tokens that are spelt as the cursor's is.
Renamed(semas, f, t) ==
    LET found == Found(semas, f, t)
    IN  UNION {{<<g, u>> : u \in {v \in semas[g].tokens : v.site \in found[g] /\ v.name = t.name}} : g \in DOMAIN found}

------------------------------------------------------------------------------
\* What a token stands for by Lua's rules: a declaration, a global or a member.
StandsFor(sema, f, t) ==
    CASE t.is = "name" -> <<f, t.site>>
      [] t.is = "use"  -> LET means == Meaning(sema.scopes, SpellingOf(sema.words), t.site)
                          IN  IF means = Global(t.name) THEN means ELSE <<f, means>>
      [] OTHER -> <<Member>>

\* Every token of the workspace, with what it stands for.
Standing(semas) ==
    UNION {{[at |-> <<f, t>>, for |-> StandsFor(semas[f], f, t)] : t \in semas[f].tokens} : f \in DOMAIN semas}

\* What is found for a global although a local of its name stands there.
Strays(semas, standing, name) ==
    {s.at : s \in {r \in standing : /\ r.at[2].site \in DefinitionsOf(semas[r.at[1]], name)
                                    /\ r.for # Global(name)}}

\* A rename edits what stands for what the cursor is on, in every file that can
\* name it, and nothing else: but a global's also takes the strays, and a
\* method's declaration, whose place is its self's too, is renamed alone.
RenameIsExact(files) ==
    LET semas    == [f \in DOMAIN files |-> FileSema(files[f])]
        standing == Standing(semas)
    IN  \A s \in standing :
            LET t == s.at[2]
            IN  Renamed(semas, s.at[1], t) =
                    IF t.is = "method" THEN {s.at}
                    ELSE {r.at : r \in {q \in standing : q.for = s.for}}
                            \cup (IF s.for = Global(t.name) THEN Strays(semas, standing, t.name) ELSE {})

\* "Both are declarations, never shadowing locals": what is found for a global
\* stands for that global.
DefinitionsAreGlobal(files) ==
    LET semas    == [f \in DOMAIN files |-> FileSema(files[f])]
        standing == Standing(semas)
    IN  \A s \in standing :
            s.for = Global(s.at[2].name) => Strays(semas, standing, s.at[2].name) = {}
=============================================================================
