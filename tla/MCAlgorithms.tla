---------------------------- MODULE MCAlgorithms ----------------------------
(***************************************************************************)
(* The pure algorithms, each over all of a bounded set of inputs: a        *)
(* behaviour chooses a subject and the outline of an input, and asks once. *)
(* An invariant compares the answer with what it stands for.  And the      *)
(* parser, a step at a time: its subject is a text, and it asks nothing.   *)
(***************************************************************************)
EXTENDS Parsing, TLC

VARIABLES subject, outline, input, asked

M == INSTANCE Minify
R == INSTANCE References
T == INSTANCE FlowTypes
L == INSTANCE Lowering
A == INSTANCE Assignability
G == INSTANCE ClassMerge
P == INSTANCE LuaGrammar

UpTo(n, S) == UNION {[1..k -> S] : k \in 0..n}

------------------------------------------------------------------------------
(***************************************************************************)
(* names: a statement that may declare or use, a scope over one, and a use *)
(* that follows; with two names, a second spelling of each being fresh.    *)
(* Or a function over gotos, among labels inside and around it.            *)
(***************************************************************************)
Local(n, init) == [kind |-> "local", names |-> <<n>>, init |-> init]
Use(n)         == [kind |-> "use", names |-> <<n>>, member |-> FALSE]
Label(n)       == [kind |-> "label", name |-> n]
Goto(n, plain) == [kind |-> "goto", name |-> n, plain |-> plain]
Enclosed(b)    == [kind |-> "do", cond |-> <<>>, body |-> b]
Assign(n, method, dotted, params, b) ==
    [kind |-> "assignfn", names |-> <<n>>, method |-> method, dotted |-> dotted, params |-> params, body |-> b]
LocalFn(n, params, b) == [kind |-> "localfn", names |-> <<n>>, params |-> params, body |-> b]
LocalIs(n, params, b) == [LocalFn(n, params, b) EXCEPT !.kind = "localis"]
Function(b)    == Assign(1, FALSE, FALSE, <<>>, b)

Words == {Local(n, <<m>>) : n, m \in {1, 2}} \cup {Use(n) : n \in {1, 2}}

Scopes(b) ==
    {[kind |-> "repeat", cond |-> <<2>>, body |-> b],
     [kind |-> "for", names |-> <<1>>, init |-> <<1>>, body |-> b],
     LocalFn(2, <<1>>, b), LocalIs(1, <<2>>, b), Assign(1, TRUE, FALSE, <<2>>, b), Assign(2, FALSE, FALSE, <<0>>, b),
     [kind |-> "if", cond |-> <<1>>, body |-> b, orelse |-> <<Use(2)>>], Enclosed(b)}

Jumps(b) == {<<Enclosed(b), Label(1)>>, <<Function(b), Label(2)>>, <<Enclosed(<<Enclosed(b), Label(2)>>), Label(1)>>}

NamePrograms(first) ==
    {<<first, scope, Use(n)>> : scope \in UNION {Scopes(b) : b \in {<<w>> : w \in Words} \cup {<<w, Use(1)>> : w \in Words}},
                                n \in {1, 2}}
    \cup UNION {Jumps(<<first, Goto(n, p), Label(m), Goto(1, TRUE)>>) : n \in {1, 3}, p \in BOOLEAN, m \in {3, 4}}

------------------------------------------------------------------------------
(***************************************************************************)
(* rename: a file of a statement, a scope over a use of a name, of a       *)
(* member or of self, and a use, and one of a statement, or a member of    *)
(* either form, and a use; and the cursor on every token of both.          *)
(***************************************************************************)
Access(n) == [Use(n) EXCEPT !.member = TRUE]
Small == {Local(1, <<2>>), LocalFn(1, <<2>>, <<Use(1)>>), LocalIs(1, <<>>, <<Use(1)>>), Assign(1, FALSE, FALSE, <<>>, <<>>)}

RenameInputs(first) ==
    {<< <<first, scope, Use(1)>>, <<second, Use(n)>> >> :
        scope \in UNION {Scopes(b) : b \in {<<w>> : w \in Small \cup {Use(1), Access(0)}} \cup {<<w, Access(1)>> : w \in Small}},
        second \in Small \cup {Assign(1, FALSE, TRUE, <<1>>, <<Use(1)>>), Assign(1, TRUE, FALSE, <<>>, <<Use(0)>>), Access(2)},
        n \in {1, 2}}

------------------------------------------------------------------------------
(***************************************************************************)
(* lowering: four statements, in a loop or before a use of what they       *)
(* declare, with jumps that skip and repeat them, for a target that has    *)
(* goto and for one that has not.                                          *)
(***************************************************************************)
Stmt(kind, name, blocks) == [kind |-> kind, name |-> name, blocks |-> blocks]
Act     == Stmt("act", 0, <<>>)
Jump(n) == Stmt("goto", n, <<>>)

Commands ==
    {Act, Stmt("label", 1, <<>>), Stmt("label", 2, <<>>), Jump(1), Stmt("local", 1, <<>>), Stmt("close", 2, <<>>),
     Stmt("if", 0, << <<Jump(1)>> >>), Stmt("if", 0, << <<Act, Jump(2)>> >>),
     Stmt("if", 0, << <<Jump(1)>>, <<Jump(2)>> >>), Stmt("if", 0, << <<Stmt("break", 0, <<>>)>> >>)}

Around(b) == {<<Stmt("while", 0, <<b>>)>>, Append(b, Stmt("use", 1, <<>>))}

LoweringInputs(first) ==
    {[text |-> text, gotos |-> gotos] :
        text \in {t \in {L!TextOf(p, <<>>) : p \in UNION {Around(first \o b) : b \in [1..2 -> Commands]}} :
                    ~L!CheckRefuses(t)},
        gotos \in BOOLEAN}

------------------------------------------------------------------------------
(***************************************************************************)
(* ancestry: five classes, three of them generic, with parents that bind   *)
(* one parameter several ways, cycles and an undeclared parent; walks cut  *)
(* off at depths of three and six, and at no or many repeats.              *)
(***************************************************************************)
Up(n, args) == [name |-> n, args |-> args]
Class(generic, fields, parents) == [generic |-> generic, fields |-> fields, indexers |-> <<>>, parents |-> parents]

Parents(one, two, three) == [one |-> one, two |-> two, three |-> three]
RootParents == {<<p, q>> : p \in {Up(2, <<>>), Up(3, <<>>)}, q \in {Up(3, <<>>), Up(4, <<"num">>), Up(4, <<"str">>), Up(4, <<>>)}}
    \cup {<<Up(2, <<>>), Up(3, <<>>), Up(4, <<"num">>)>>}

AncestryInputs(root) ==
    {[env |-> 1 :> Class(FALSE, <<>>, root) @@ 2 :> Class(TRUE, x, b) @@ 3 :> Class(g, <<>>, c)
              @@ 4 :> Class(TRUE, "x" :> A!Param, d) @@ 5 :> Class(TRUE, "y" :> A!Param @@ f, <<>>),
      caps |-> caps] :
        x \in {<<>>, "x" :> "own"}, f \in {<<>>, "x" :> "five"}, g \in BOOLEAN,
        b \in UpTo(1, {Up(4, <<"num">>), Up(4, <<A!Param>>), Up(3, <<A!Param>>), Up(1, <<>>)}),
        c \in UpTo(1, {Up(4, <<"str">>), Up(4, <<A!Param>>), Up(2, <<>>), Up(6, <<>>)}),
        d \in {<<>>, <<Up(5, <<A!Param>>)>>, <<Up(2, <<>>)>>},
        caps \in {A!Caps(3, 5), A!Caps(6, 0), A!Caps(6, 5)}}

------------------------------------------------------------------------------
(***************************************************************************)
(* flow: four classes that mention one another, through unions, functions, *)
(* optional fields and a parent, and questions about two of them.          *)
(***************************************************************************)
Field(ty)    == [ty |-> ty, optional |-> FALSE]
OptField(ty) == [ty |-> ty, optional |-> TRUE]
Sig(p, r)    == A!FunctionTy(<<Field(p)>>, <<>>, <<r>>, FALSE, TRUE, <<>>)
N(n) == A!Named(n)
Num  == A!Ty("number")

FieldTypes ==
    {Field(Num), Field(N(1)), OptField(N(3)), Field(A!UnionTy(<<N(2), N(3)>>)), Field(A!UnionTy(<<N(4), A!Ty("nil")>>)),
     Field(Sig(N(2), N(1))), Field(Sig(N(1), Num))}
FewTypes == {Field(Num), Field(N(1)), OptField(N(4))}

FlowInputs(first) ==
    {[env |-> 1 :> Class(FALSE, 1 :> first, <<>>) @@ 2 :> Class(FALSE, 1 :> b, <<>>)
              @@ 3 :> Class(FALSE, 1 :> c, up) @@ 4 :> Class(FALSE, 1 :> d, <<>>),
      value |-> q[1], target |-> q[2]] :
        b \in FieldTypes, c \in FewTypes, d \in FewTypes, up \in {<<>>, <<Up(1, <<>>)>>},
        q \in {<<N(1), N(2)>>, <<N(3), N(2)>>, <<N(1), A!UnionTy(<<N(2), N(3)>>)>>, <<Sig(N(2), N(1)), Sig(N(1), N(3))>>}}

------------------------------------------------------------------------------
(***************************************************************************)
(* types: a variable of each kind, a condition on it over a branch, a loop *)
(* or a closure, another condition behind it, and a read; and the same of  *)
(* a variable that is assigned another one under a condition.              *)
(***************************************************************************)
X        == [is |-> "name", x |-> "x"]
Val(v)   == [is |-> "value", v |-> v]
Ext      == [is |-> "unknown"]
Eq(e, v, pos)    == [is |-> "eq", l |-> e, r |-> v, pos |-> pos]
Is(tag, pos)     == [is |-> "type_is", x |-> "x", tag |-> tag, pos |-> pos]
Joined(is, l, r) == [is |-> is, l |-> l, r |-> r]
Not(e)   == [is |-> "not", of |-> e]
Bind(ty, e) == [is |-> "local", x |-> "x", ty |-> ty, e |-> e]
Store(e) == [is |-> "assign", x |-> "x", e |-> e]
Read     == [is |-> "read", e |-> X]
Quit     == [is |-> "return"]
Branch(c, b, e) == [is |-> "if", arms |-> <<[cond |-> c, body |-> b]>>, orelse |-> e]
Elseif(c, d, b) == [is |-> "if", arms |-> <<[cond |-> c, body |-> b], [cond |-> d, body |-> <<Read>>]>>, orelse |-> <<Read>>]
Over(is, c, b)  == [is |-> is, cond |-> c, body |-> b]

Variables ==
    {Bind(ty, Ext) : ty \in {{"nil", "string"}, {"boolean", "number"}, {"nil", "false", "table"}, {"number"}}}
        \cup {Bind({}, e) : e \in {Val("nil"), Val("true"), Val("one"), Ext, Eq(Ext, Val("nil"), TRUE)}}

Bare == {X, Eq(X, Val("nil"), FALSE), Eq(Val("a"), X, TRUE), Is("string", TRUE), Is("number", FALSE), Is("boolean", TRUE), Ext}
Conds == Bare \cup {Not(X), Eq(X, Val("true"), TRUE), Joined("and", X, Eq(X, Val("one"), FALSE)),
                     Joined("or", Is("nil", TRUE), Not(Is("table", FALSE))), Not(Joined("or", X, Ext))}

Blocks == {<<Read>>, <<Store(Val("a"))>>, <<Store(Joined("or", X, Val("one")))>>, <<Quit>>}

Branches == {Branch(c, b, e) : c \in Conds, b \in Blocks, e \in {<<>>, <<Store(Val("false"))>>, <<Quit>>}}
Tests == {X, Is("string", TRUE), Eq(X, Val("nil"), FALSE)}
Uses == {Branch(c, <<Read>>, <<Read>>) : c \in Bare} \cup {Elseif(c, d, b) : c, d \in Tests, b \in {<<Read>>, <<Quit>>}}

TypePrograms(first) ==
    {<<first, s, u, Read>> : s \in Branches, u \in Uses}
        \cup {<<first, Over(is, c, <<s>>), Read>> : is \in {"while", "for", "repeat", "closure", "do"}, c \in {X, Ext, Is("number", FALSE)}, s \in Branches}

------------------------------------------------------------------------------
(***************************************************************************)
(* merge: two files that declare a class once or twice each, with their    *)
(* own names for one or two parameters, a member of each kind and two of   *)
(* one name, over definitions that declare it or not.                      *)
(***************************************************************************)
FieldTag(name, ty, scope) == [is |-> "field", name |-> name, ty |-> ty, scope |-> scope]
Method(name, tagged, scope) ==
    [is |-> "method", name |-> name, ty |-> [name |-> "fun", tagged |-> tagged], scope |-> scope]
Block(params, parents, members) == [is |-> "class", params |-> params, parents |-> parents, members |-> members]

Own(params) == IF params = <<>> THEN G!Named("num") ELSE G!Named(params[Len(params)])
ParamLists  == {<<>>, <<"T">>, <<"U">>, <<"T", "U">>, <<"U", "T">>}

MembersOf(params) ==
    {<<FieldTag("x", Own(params), "public")>>, <<FieldTag("x", G!Named("num"), "private"), FieldTag("x", Own(params), "protected")>>,
     <<FieldTag("m", G!Named("fun"), "public")>>, <<FieldTag("m", G!Named("fun"), "private")>>,
     <<[is |-> "indexer", key |-> Own(params), ty |-> G!Named("num")], [is |-> "indexer", key |-> G!Named("num"), ty |-> Own(params)]>>,
     <<[is |-> "operator", input |-> Own(params), ty |-> G!Named("num")]>>}

ParentsOf(params) == {<<>>, <<Up("p", <<Own(params)>>), Up("q", <<>>), Up("p", <<G!Named("num")>>)>>}

BlocksOf(lists, members(_)) ==
    UNION {{Block(params, parents, m) : m \in members(params), parents \in ParentsOf(params)} : params \in lists}
One(params) == {<<FieldTag("x", Own(params), "private")>>}
None(params) == {<<>>}

ClassFiles ==
    {<<b>> : b \in BlocksOf(ParamLists, MembersOf)}
        \cup {<<b, Method("m", tagged, scope)>> : b \in BlocksOf({<<>>, <<"U">>}, One), tagged \in BOOLEAN, scope \in {"public", "private"}}
        \cup {<<b, c>> : b \in BlocksOf({<<>>, <<"T">>}, None), c \in BlocksOf({<<"U">>, <<"U", "T">>}, One)}

MergeInputs(first) ==
    {[first |-> first, second |-> second, definitions |-> d] :
        second \in ClassFiles,
        d \in {<<>>, << <<Block(<<"V">>, <<>>, <<FieldTag("y", G!Named("V"), "public")>>), Method("m", TRUE, "private")>> >>}}

------------------------------------------------------------------------------
(***************************************************************************)
(* parser: nine programs that hold every production between them, and all  *)
(* that one token changed, put in or taken out makes of them; and every    *)
(* expression of three operators and operands behind one.                  *)
(***************************************************************************)
Programs ==
    {<<"local", "name", "<", "name", ">", ",", "name", "=", "num", ";", "for", "name", "=", "num", ",", "name", "do", "break", "end">>,
     <<"for", "name", ",", "name", "in", "name", "do", "goto", "name", "end", "::", "name", "::">>,
     <<"if", "name", "then", "elseif", "name", "then", "name", "(", ")", "else", "end", "return", "name", ";">>,
     <<"local", "function", "name", "(", "name", ",", "...", ")", "return", "end">>,
     <<"function", "name", ".", "name", ":", "name", "(", ")", "end", "name", ".", "name", "=", "...">>,
     <<"name", "[", "name", "]", ",", "name", "=", "{", "name", "=", "num", ";", "[", "num", "]", "=", "name", ",", "name", "}">>,
     <<"while", "not", "name", "do", "end", "repeat", "until", "name", "{", "}">>,
     <<"name", "(", "function", "(", ")", "name", ":", "name", "str", "end", ")">>,
     <<"do", "end", "(", "name", ")", "(", ")", ".", "name", "=", "-", "name", "^", "name", "..", "name", "..", "name">>}
AllKinds == {"name", "=", ",", "end", "(", ")", "else", "elseif", ";", "return", "function", "{", "..", "then", "?"}
FewKinds == {"name", "=", ",", "end", "(", ")", "else", "function", "{", "..", "?", " "}
Expressions == {<<"return", k>> : k \in {"name", "-", "not"}}

OneTokenAway(text, kinds) ==
    {[text EXCEPT ![i] = k] : i \in DOMAIN text, k \in kinds}
        \cup {SubSeq(text, 1, i) \o <<k>> \o SubSeq(text, i + 1, Len(text)) : i \in 0..Len(text), k \in kinds}
        \cup {SubSeq(text, 1, i - 1) \o SubSeq(text, i + 1, Len(text)) : i \in DOMAIN text}

ParserInputs(text) ==
    IF text \in Programs THEN {text} \cup OneTokenAway(text, AllKinds)
    ELSE {text \o rest : rest \in UpTo(4, {"name", "-", "^", "..", "+"})}

RECURSIVE Times(_, _)
Times(n, tokens) == IF n = 0 THEN <<>> ELSE tokens \o Times(n - 1, tokens)

\* One construct inside another, to a twentieth of what lparser.c takes.
Nestings == {"table", "paren", "call", "not", "if", "do", "callback"}
Nested(construct, n) ==
    CASE construct = "table"    -> <<"name", "=">> \o Times(n, <<"{">>) \o Times(n, <<"}">>)
      [] construct = "paren"    -> <<"name", "=">> \o Times(n, <<"(">>) \o <<"num">> \o Times(n, <<")">>)
      [] construct = "call"     -> <<"name", "=">> \o Times(n, <<"name", "(">>) \o Times(n, <<")">>)
      [] construct = "not"      -> <<"name", "=">> \o Times(n, <<"not">>) \o <<"name">>
      [] construct = "if"       -> Times(n, <<"if", "name", "then">>) \o Times(n, <<"end">>)
      [] construct = "do"       -> Times(n, <<"do">>) \o Times(n, <<"end">>)
      [] construct = "callback" -> Times(n, <<"name", "(", "function", "(", ")">>) \o Times(n, <<"end", ")">>)

------------------------------------------------------------------------------
(***************************************************************************)
(* text: two programs in which nodes are wrapped, chains opened and both   *)
(* budgets overrun, with white space where trivia is flushed, and all that *)
(* one token changed, put in or taken out makes of them.                   *)
(***************************************************************************)
SpacedPrograms ==
    {<<" ", "local", "name", "<", "name", ">", " ", "=", "name", "[", "num", "]", "..", "name", "(", ")", "..", " ", "str", " ">>,
     <<"if", "name", "then", "name", ".", "name", "=", "{", "-", "num", "}", "else", " ", "return", " ", "end">>}

MCTexts == SpacedPrograms \cup UNION {OneTokenAway(text, FewKinds) : text \in SpacedPrograms}

------------------------------------------------------------------------------
Outline ==
    [names    |-> Words,
     types    |-> Variables,
     rename   |-> Small \cup {Use(1)},
     lowering |-> [1..2 -> Commands],
     ancestry |-> RootParents,
     flow     |-> FieldTypes,
     merge    |-> ClassFiles,
     parser   |-> Programs \cup Expressions,
     nesting  |-> Nestings]

Inputs(of, first) ==
    CASE of = "names"    -> NamePrograms(first)
      [] of = "rename"   -> RenameInputs(first)
      [] of = "types"    -> TypePrograms(first)
      [] of = "lowering" -> LoweringInputs(first)
      [] of = "ancestry" -> AncestryInputs(first)
      [] of = "flow"     -> FlowInputs(first)
      [] of = "merge"    -> MergeInputs(first)
      [] of = "parser"   -> ParserInputs(first)
      [] of = "nesting"  -> {Nested(first, n) : n \in 1..(IF first = "callback" THEN 4 ELSE 9)}

Init ==
    /\ asked = FALSE /\ input = <<>>
    /\ \/ subject = "text" /\ outline = "" /\ ParserInit
       \/ /\ subject \in DOMAIN Outline /\ outline \in Outline[subject]
          /\ parser = New(<<>>, DepthLimit, HeightLimit, SourceFile)

Ask ==
    /\ subject # "text" /\ ~asked
    /\ asked' = TRUE
    /\ input' \in Inputs(subject, outline)
    /\ UNCHANGED <<subject, outline, parser>>

ParserStep == subject = "text" /\ TakeStep /\ UNCHANGED <<subject, outline, input, asked>>

Next == Ask \/ ParserStep

Spec == Init /\ [][Next]_<<subject, outline, input, asked, parser>>

Asked(of) == asked /\ subject = of

------------------------------------------------------------------------------
\* A name means the declaration Lua's scopes give it, and still does when
\* --minify has renamed it (Minify).
NamesKeepTheirMeaning ==
    Asked("names") => M!ResolutionIsLexical(input) /\ M!RenamingKeepsMeaning(input)

\* A rename edits what stands for the symbol at the cursor, in every file, and
\* nothing else but what References lists.
RenameIsExact == Asked("rename") => R!RenameIsExact(input)

\* "Both are declarations, never shadowing locals": the definitions found for a
\* global are definitions of that global.
DefinitionsAreGlobal == Asked("rename") => R!DefinitionsAreGlobal(input)

\* A file lowered to an older target compiles there, and does what it did,
\* whatever its conditions answer (Lowering).
LoweringKeepsTheRun ==
    Asked("lowering") => L!LoweringKeepsTheRun(input.text, input.gotos, [1..3 -> BOOLEAN], 6)

\* The walk over a class's ancestors and the fold of their members agree, with
\* each other and with the paths of the declarations (ClassShape).
AncestryAgrees ==
    Asked("ancestry") => A!AncestryAgrees(input.caps, input.env, 1)

\* What a run reads is of the type the walk published for it, but where
\* FlowTypes says so.
TypesCoverTheRun == Asked("types") => T!TypesCover(input, {"mixed", "declared", "closure"})

\* "A flattened, deduplicated union (at least two members, no nested unions)":
\* no type that is published is a union with a union among its members.
UnionsAreFlat == Asked("types") => T!UnionsAreFlat(input)

\* Assignability never refuses what recursive types allow, and allows more only
\* by a pair it has refuted itself (Assignability).
SearchIsCoinductive ==
    Asked("flow") => A!SearchIsCoinductive(A!Caps(6, 6), input.env, TRUE, 1..4, input.value, input.target)

\* "Named-vs-named comparisons are coinductive": the answer is the relation's.
VerdictIsCoinductive ==
    Asked("flow") =>
        A!Assignable(A!Caps(6, 6), input.env, TRUE, input.value, input.target).fits =
            A!Fits(A!Caps(6, 6), input.env, TRUE, 1..4, input.value, input.target)

\* "The file boundary does not change the merge" of a class's declarations, but
\* where ClassMerge says so, and no member names a parameter the class has not
\* got (ClassMerge).
BoundaryKeepsTheMerge ==
    Asked("merge") => G!BoundaryKeepsTheMerge(input.definitions, input.first, input.second, {"T", "U", "V"})

\* The parser ends, with the tree's heights in its budget, takes every program
\* of Lua's grammar with Lua's grouping, and nothing else but what LuaGrammar
\* lists; and what nests 9 levels in lparser.c, where the limits are a
\* twentieth of the real ones, is within 11 here, but for functions in calls.
ParserIsFaithful ==
    /\ Asked("parser") => P!EndsWithTheText(P!SpacedOut(input, {",", "name"}), 4, 6) /\ P!ParsesLua(input)
    /\ Asked("nesting") => P!EndsWithTheText(input, 6, 9) /\ P!ParsesLua(input)
    /\ Asked("nesting") /\ outline # "callback" => P!NestingIsWithin(input, 9, 11, 25)
=============================================================================
