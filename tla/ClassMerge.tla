----------------------------- MODULE ClassMerge -----------------------------
(***************************************************************************)
(* The declarations of one class, folded into one (luabox-types, env.rs):  *)
(* the blocks of a file, and the files of a project over its definitions.  *)
(* A file is a sequence of                                                 *)
(*   [is |-> "class", params, parents, members]   a ---@class block        *)
(*   [is |-> "method", name, ty, scope]           a function on its table  *)
(* and a member of a block                                                 *)
(*   [is |-> "field", name, ty, scope]    [is |-> "indexer", key, ty]      *)
(*   [is |-> "operator", input, ty]                                        *)
(* A type is [name, tagged]: number, a parameter's name, or a function,    *)
(* which may be tagged (deprecated, async, of a version).  A type          *)
(* parameter is only named under a block that declares it, and a file      *)
(* writes a method once.                                                   *)
(***************************************************************************)
EXTENDS Integers, Sequences, FiniteSets, SequencesExt, TLC

Named(name) == [name |-> name, tagged |-> FALSE]
Unknown     == Named("unknown")
Function    == "fun"

\* ClassDef; a class no source has declared is NoClass.
Empty   == [params |-> <<>>, parents |-> <<>>, fields |-> <<>>, methods |-> <<>>,
            indexers |-> <<>>, operators |-> <<>>, visibility |-> <<>>]
NoClass == <<>>

------------------------------------------------------------------------------
\* adopt_params_if_unset.
Adopt(existing, incoming) == IF existing = <<>> THEN incoming ELSE existing

\* Mutant: a surplus parameter keeps the name its own declaration gives it.
RenameKeepingSurplus(own, canonical) ==
    IF own = <<>> \/ own = canonical THEN <<>>
    ELSE [p \in ToSet(own) |-> LET i == CHOOSE k \in DOMAIN own : own[k] = p IN
                               IF i \in DOMAIN canonical THEN Named(canonical[i]) ELSE Named(p)]

\* class_param_unification: by position, where the two lists differ.
Rename(own, canonical) ==
    IF own = <<>> \/ own = canonical THEN <<>>
    ELSE [p \in ToSet(own) |-> LET i == CHOOSE k \in DOMAIN own : own[k] = p IN
                               IF i \in DOMAIN canonical THEN Named(canonical[i]) ELSE Unknown]

\* subst_ty.
Subst(map, ty) == IF ty.name \in DOMAIN map THEN map[ty.name] ELSE ty

SubstParent(map, parent) == [parent EXCEPT !.args = [k \in DOMAIN @ |-> Subst(map, @[k])]]

\* push_parent_ref: one edge for each name, the first.
PushParents(into, parents) ==
    LET Push(acc, p) == IF \E k \in DOMAIN acc : acc[k].name = p.name THEN acc ELSE Append(acc, p)
    IN  FoldLeft(Push, into, parents)

\* IndexerIndex::absorb, of a duplicate: one value for each key, the first.
PushIndexer(into, key, ty) ==
    IF \E k \in DOMAIN into : into[k].key = key THEN into ELSE Append(into, [key |-> key, ty |-> ty])

\* push_operator_overload: every overload, once.
PushOperator(into, sig) == IF Contains(into, sig) THEN into ELSE Append(into, sig)

\* with_carrier_tags: a declared function takes over a method's tags.
WithCarrierTags(declared, method) ==
    [declared EXCEPT !.tagged = @ \/ (declared.name = Function /\ method.name = Function /\ method.tagged)]

\* A method that arrives: a field of its name keeps its type and gains its
\* tags, and of two methods the first stays.
Attach(def, name, ty) ==
    IF name \in DOMAIN def.fields THEN [def EXCEPT !.fields[name] = WithCarrierTags(@, ty)]
    ELSE [def EXCEPT !.methods = @ @@ (name :> ty)]

------------------------------------------------------------------------------
\* absorb_block: a field with its scope, both the first declaration's.
AbsorbField(def, map, f) ==
    IF f.name \in DOMAIN def.fields THEN def
    ELSE [def EXCEPT !.fields = @ @@ (f.name :> Subst(map, f.ty)),
                     !.visibility = IF f.scope = "public" THEN [m \in DOMAIN @ \ {f.name} |-> @[m]]
                                    ELSE (f.name :> f.scope) @@ @]

AbsorbMember(def, map, m) ==
    CASE m.is = "field"    -> AbsorbField(def, map, m)
      [] m.is = "indexer"  -> [def EXCEPT !.indexers = PushIndexer(@, Subst(map, m.key), Subst(map, m.ty))]
      [] m.is = "operator" ->
            [def EXCEPT !.operators = PushOperator(@, [input |-> Subst(map, m.input), ty |-> Subst(map, m.ty)])]

\* A block after the file's first: what it declares is in its own parameters.
Redeclare(def, block) ==
    LET params == Adopt(def.params, block.params)
        map    == Rename(block.params, params)
        raised == [k \in DOMAIN block.parents |-> SubstParent(map, block.parents[k])]
        joined == [def EXCEPT !.params = params, !.parents = PushParents(@, PushParents(<<>>, raised))]
    IN  FoldLeft(LAMBDA acc, m : AbsorbMember(acc, map, m), joined, block.members)

\* A file's first block replaces the class the definitions declare, but for
\* its methods.
Declare(seed, block) ==
    LET fresh == [Empty EXCEPT !.params = block.params, !.parents = PushParents(<<>>, block.parents),
                               !.methods = IF seed = NoClass THEN <<>> ELSE seed.methods]
    IN  FoldLeft(LAMBDA acc, m : AbsorbMember(acc, <<>>, m), fresh, block.members)

Blocks(file)  == SelectSeq(file, LAMBDA item : item.is = "class")
Methods(file) == SelectSeq(file, LAMBDA item : item.is = "method")

\* absorb_standalone_visibility.
AbsorbScopes(def, file) ==
    FoldLeft(LAMBDA acc, m : IF m.scope = "public" THEN acc ELSE [acc EXCEPT !.visibility = @ @@ (m.name :> m.scope)],
             def, Methods(file))

\* The class as one file's blocks make it.
Absorbed(seed, blocks) == FoldLeft(Redeclare, Declare(seed, Head(blocks)), Tail(blocks))

WithMethods(def, file) == FoldLeft(LAMBDA acc, m : Attach(acc, m.name, m.ty), def, Methods(file))

\* FileTypes::collect: what a file that declares the class publishes of it.
Collect(seed, file) == WithMethods(AbsorbScopes(Absorbed(seed, Blocks(file)), file), file)

------------------------------------------------------------------------------
\* merge_file_types: a file's class joins the one that stands.
Joined(existing, def) ==
    LET params == Adopt(existing.params, def.params)
        map    == Rename(def.params, params)
        fields == [f \in DOMAIN def.fields |-> Subst(map, def.fields[f])]
        shaped ==
            [existing EXCEPT
                !.params    = params,
                !.parents   = PushParents(@, [k \in DOMAIN def.parents |-> SubstParent(map, def.parents[k])]),
                !.fields    = @ @@ fields,
                !.indexers  = FoldLeft(LAMBDA acc, i : PushIndexer(acc, Subst(map, i.key), Subst(map, i.ty)), @, def.indexers),
                !.operators = FoldLeft(LAMBDA acc, o : PushOperator(acc, [input |-> Subst(map, o.input), ty |-> Subst(map, o.ty)]),
                                       @, def.operators),
                !.visibility = @ @@ def.visibility]
    IN  FoldLeft(LAMBDA acc, name : Attach(acc, name, def.methods[name]), shaped, SetToSeq(DOMAIN def.methods))

Merge(existing, def) == IF existing = NoClass THEN def ELSE Joined(existing, def)

\* with_project_types, over what each file has collected above the definitions.
Project(defs, files) == FoldLeft(LAMBDA acc, file : Merge(acc, Collect(defs, file)), defs, files)

\* build_ambient: the first definition file that declares the class; a scope
\* above a method is not read.
Definition(files) == IF files = <<>> THEN NoClass ELSE WithMethods(Absorbed(NoClass, Blocks(Head(files))), Head(files))

------------------------------------------------------------------------------
TypesOf(def) ==
    {def.fields[f] : f \in DOMAIN def.fields} \cup {def.methods[m] : m \in DOMAIN def.methods}
        \cup UNION {ToSet(p.args) : p \in ToSet(def.parents)}
        \cup UNION {{i.key, i.ty} : i \in ToSet(def.indexers)} \cup UNION {{o.input, o.ty} : o \in ToSet(def.operators)}

\* No member names a parameter the class has not got.
NoParameterLeaks(def, parameters) == {ty.name : ty \in TypesOf(def)} \cap parameters \subseteq ToSet(def.params)

Fields(file)  == UNION {{m \in ToSet(b.members) : m.is = "field"} : b \in ToSet(Blocks(file))}
Members(file) == {m.name : m \in Fields(file) \cup ToSet(Methods(file))}

\* Known differences.  A file gives a member its field's scope before a
\* method's, and a public field hides a later one's scope; between files the
\* first scope there is stands.
Rescoped(first, second) == {f.name : f \in {g \in Fields(second) : g.scope # "public"}} \cap Members(first)

\* A field that arrives in a later file than the method it types is without
\* the method's tags, and the method is still there beneath it.
Untagged(first, second) ==
    {f.name : f \in Fields(second)} \cap ({m.name : m \in ToSet(Methods(first))} \ {f.name : f \in Fields(first)})

\* The parameters a file's second block adds are erased in the file itself.
Grows(file) ==
    LET lists == SelectSeq([k \in DOMAIN Blocks(file) |-> Blocks(file)[k].params], LAMBDA params : params # <<>>)
    IN  \E k \in DOMAIN lists : Len(lists[k]) > Len(lists[1])

Without(f, names) == [n \in DOMAIN f \ names |-> f[n]]

\* But for those, the file boundary does not change the merge.
SameMerge(split, whole, rescoped, untagged) ==
    /\ split.params = whole.params /\ split.parents = whole.parents
    /\ split.indexers = whole.indexers /\ split.operators = whole.operators
    /\ Without(split.methods, untagged) = Without(whole.methods, untagged)
    /\ Without(split.fields, untagged) = Without(whole.fields, untagged)
    /\ \A f \in untagged : split.fields[f].name = whole.fields[f].name
    /\ Without(split.visibility, rescoped) = Without(whole.visibility, rescoped)

BoundaryKeepsTheMerge(definitions, first, second, parameters) ==
    LET defs  == Definition(definitions)
        split == Project(defs, <<first, second>>)
    IN  /\ NoParameterLeaks(split, parameters)
        /\ ~Grows(second) =>
              SameMerge(split, Project(defs, <<first \o second>>), Rescoped(first, second), Untagged(first, second))
=============================================================================
