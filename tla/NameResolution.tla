--------------------------- MODULE NameResolution ---------------------------
(***************************************************************************)
(* Name resolution (luabox-hir, lower.rs) and the renaming --minify makes  *)
(* from it (luabox-bundle, minify.rs), over programs abstracted to what    *)
(* scopes are made of:                                                     *)
(*                                                                         *)
(*   local  names = init       localfn  local function name(params) body   *)
(*   use    names              localis  local name = function(params) body *)
(*   do     body               assignfn name = function(params) body, and  *)
(*   while  cond body                   function name:m(params) body       *)
(*   repeat body cond          label    ::name::                           *)
(*   for    names = init body  goto     goto name, plain or with a comment *)
(*   if     cond body orelse            inside                             *)
(*                                                                         *)
(* init and cond are sequences of the names an expression mentions.  A     *)
(* site, the path to where a name is written, stands for a BindingId, a    *)
(* LabelId or a HirId.                                                     *)
(***************************************************************************)
EXTENDS Integers, Sequences, FiniteSets, SequencesExt

\* The turns of a path that are not a statement's number.
Tag == [fn |-> -1, then |-> -2, else |-> -3, use |-> -4, name |-> -5, self |-> -6, global |-> -7]

\* Names are numbers: "self", and those NameGen makes in the order it makes them.
Self == 0

Functions == {"localfn", "localis", "assignfn"}
IsMethod(s) == s.kind = "assignfn" /\ s.method

------------------------------------------------------------------------------
\* The resolver: the scopes that are open, what was declared, in order, and
\* what each name expression was resolved to.
Start == [scopes |-> <<(<<>>)>>, declared |-> <<>>, resolved |-> {}]

Push(st) == [st EXCEPT !.scopes = Append(@, <<>>)]
Pop(st)  == [st EXCEPT !.scopes = Front(@)]

\* declare_binding: the innermost scope gains the name, or loses its earlier
\* binding of it.
Declare(st, name, site) ==
    [st EXCEPT !.scopes = Front(@) \o <<(name :> site) @@ Last(@)>>,
               !.declared = Append(@, [name |-> name, site |-> site])]

\* The sites of a list of names below a path.
DeclareAll(st, names, path) ==
    FoldLeftDomain(LAMBDA acc, k : Declare(acc, names[k], path \o <<Tag.name, k>>), st, names)

FunctionsOn(path) == Cardinality({k \in DOMAIN path : path[k] = Tag.fn})

\* resolve_name: the innermost scope that has the name, and how many functions
\* up its binding is; a name no scope has is a global.
ResolveName(st, name, site) ==
    LET has   == {k \in DOMAIN st.scopes : name \in DOMAIN st.scopes[k]}
        found == st.scopes[CHOOSE k \in has : \A j \in has : j <= k][name]
    IN  [st EXCEPT !.resolved = @ \cup
            {[use |-> site, name |-> name,
              to  |-> IF has = {} THEN <<>> ELSE found,
              up  |-> IF has = {} THEN 0 ELSE FunctionsOn(site) - FunctionsOn(found)]}]

UseAll(st, names, path) ==
    FoldLeftDomain(LAMBDA acc, k : ResolveName(acc, names[k], path \o <<Tag.use, k>>), st, names)

RECURSIVE LowerBlock(_, _, _)

LowerRepeat(st, s, path) == Pop(UseAll(LowerBlock(Push(st), s.body, path), s.cond, path))

LowerFor(st, s, path) ==
    Pop(LowerBlock(DeclareAll(Push(UseAll(st, s.init, path)), s.names, path), s.body, path))

LowerScoped(st, s, path) == Pop(LowerBlock(Push(UseAll(st, s.cond, path)), s.body, path))

LowerIf(st, s, path) ==
    LET then == Pop(LowerBlock(Push(UseAll(st, s.cond, path)), s.body, path \o <<Tag.then>>))
    IN  Pop(LowerBlock(Push(then), s.orelse, path \o <<Tag.else>>))

\* lower_function: the parameters' scope is the body's, and a method has an
\* implicit one before those it writes.
LowerFunction(st, s, path) ==
    LET fn   == path \o <<Tag.fn>>
        self == IF IsMethod(s) THEN Declare(Push(st), Self, fn \o <<Tag.self>>) ELSE Push(st)
    IN  Pop(LowerBlock(DeclareAll(self, s.params, fn), s.body, fn))

\* The initializer is lowered before the names come into scope.
LowerLocal(st, s, path) ==
    DeclareAll(IF s.kind = "localis" THEN LowerFunction(st, s, path) ELSE UseAll(st, s.init, path), s.names, path)

LowerLocalFunction(st, s, path) == LowerFunction(DeclareAll(st, s.names, path), s, path)

LowerFunctionDecl(st, s, path) == UseAll(LowerFunction(st, s, path), s.names, path)

LowerStmt(st, s, path) ==
    CASE s.kind \in {"local", "localis"} -> LowerLocal(st, s, path)
      [] s.kind = "use"      -> UseAll(st, s.names, path)
      [] s.kind = "localfn"  -> LowerLocalFunction(st, s, path)
      [] s.kind = "assignfn" -> LowerFunctionDecl(st, s, path)
      [] s.kind = "repeat"   -> LowerRepeat(st, s, path)
      [] s.kind = "for"      -> LowerFor(st, s, path)
      [] s.kind = "if"       -> LowerIf(st, s, path)
      [] s.kind \in {"do", "while"} -> LowerScoped(st, s, path)
      [] OTHER -> st

LowerBlock(st, b, path) ==
    FoldLeftDomain(LAMBDA acc, k : LowerStmt(acc, b[k], Append(path, k)), st, b)

Lower(program) == LowerBlock(Start, program, <<>>)

\* Everything that is written in a block, in the order the text has it: where,
\* the name, and what it is there.
RECURSIVE Words(_, _)
Words(b, path) ==
    LET List(names, p, tag) == [k \in DOMAIN names |-> [site |-> p \o <<Tag[tag], k>>, name |-> names[k], is |-> tag]]
        Word(p, n, is) == <<[site |-> p, name |-> n, is |-> is]>>
        In(s, p) ==
            CASE s.kind = "local" -> List(s.names, p, "name") \o List(s.init, p, "use")
              [] s.kind = "for" -> List(s.names, p, "name") \o List(s.init, p, "use") \o Words(s.body, p)
              [] s.kind = "use" -> List(s.names, p, "use")
              [] s.kind \in {"label", "goto"} -> Word(p, s.name, s.kind)
              [] s.kind \in {"localfn", "localis"} ->
                    List(s.names, p, "name") \o List(s.params, p \o <<Tag.fn>>, "name")
                        \o Words(s.body, p \o <<Tag.fn>>)
              [] s.kind = "assignfn" ->
                    List(s.names, p, "use") \o (IF s.method THEN Word(p \o <<Tag.fn, Tag.self>>, Self, "self") ELSE <<>>)
                        \o List(s.params, p \o <<Tag.fn>>, "name") \o Words(s.body, p \o <<Tag.fn>>)
              [] s.kind = "if" -> List(s.cond, p, "use") \o Words(s.body, p \o <<Tag.then>>)
                                    \o Words(s.orelse, p \o <<Tag.else>>)
              [] s.kind = "repeat" -> Words(s.body, p) \o List(s.cond, p, "use")
              [] OTHER -> List(s.cond, p, "use") \o Words(s.body, p)
    IN  FoldLeftDomain(LAMBDA acc, k : acc \o In(b[k], Append(path, k)), <<>>, b)

\* collect_goto_fixes: every goto with the label it jumps to, from the labels
\* of its block and of the blocks around it in its function.
RECURSIVE GotoFixes(_, _, _)
GotoFixes(b, stack, path) ==
    LET labels == [n \in {b[k].name : k \in {j \in DOMAIN b : b[j].kind = "label"}} |->
                      path \o <<CHOOSE k \in DOMAIN b :
                                  /\ b[k].kind = "label" /\ b[k].name = n
                                  /\ \A j \in k + 1..Len(b) : b[j].kind = "label" => b[j].name # n>>]
        inner  == Append(stack, labels)
        Target(n) == LET has == {k \in DOMAIN inner : n \in DOMAIN inner[k]}
                     IN  IF has = {} THEN <<>> ELSE inner[CHOOSE k \in has : \A j \in has : j <= k][n]
        In(s, p) == CASE s.kind = "goto" -> {[goto |-> p, plain |-> s.plain, to |-> Target(s.name)]}
                      [] s.kind \in Functions -> GotoFixes(s.body, <<>>, p \o <<Tag.fn>>)
                      [] s.kind \in {"do", "while", "repeat", "for"} -> GotoFixes(s.body, inner, p)
                      [] s.kind = "if" -> GotoFixes(s.body, inner, p \o <<Tag.then>>)
                                          \cup GotoFixes(s.orelse, inner, p \o <<Tag.else>>)
                      [] OTHER -> {}
    IN  UNION {In(b[k], Append(path, k)) : k \in DOMAIN b}

Gotos(program) == GotoFixes(program, <<>>, <<>>)
=============================================================================
