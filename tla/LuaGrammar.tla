----------------------------- MODULE LuaGrammar -----------------------------
(***************************************************************************)
(* The reference the parser is compared with: the grammar of the Lua 5.4   *)
(* manual (9) over token kinds, its precedences (3.4.8), and the levels    *)
(* lparser.c counts against LUAI_MAXCCALLS.                                *)
(***************************************************************************)
EXTENDS Parser

\* Two to the n steps, or as many as there are to do.
RECURSIVE Steps(_, _)
Steps(p, n) ==
    IF p.todo = <<>> THEN p
    ELSE IF n = 0 THEN Step([p EXCEPT !.todo = Tail(@)], Head(p.todo)) ELSE Steps(Steps(p, n - 1), n - 1)
Run(p) == Steps(p, 12)
Parse(tokens, maxDepth, maxHeight) == Run(New(tokens, maxDepth, maxHeight, SourceFile))

------------------------------------------------------------------------------
Star(item, self) == {<<>>, <<item, self>>}
\* Symbols that stand for one token of several kinds.
Classes ==
    [binop |-> {"or", "and", "<", ">", "<=", ">=", "~=", "==", "|", "~", "&", "<<", ">>", "..", "+", "-", "*", "/", "//", "%", "^"},
     unop  |-> UnaryOps,
     value |-> Literals \cup {"..."}]

\* Of each symbol, the sequences it stands for.
Lua ==
    [CHUNK   |-> {<<"BODYSTATS">>},
     BODYSTATS |-> {<<>>, <<"STAT", "BODYSTATS">>, <<"return", "RESULTS", "ENDRET">>},
     RESULTS |-> {<<>>, <<"EXPS">>},
     ENDRET  |-> {<<>>, <<";">>},
     STAT    |-> {<<";">>, <<"name", "ENDSVAR">>, <<"(", "EXP", ")", "CHAIN">>, <<"::", "name", "::">>, <<"break">>, <<"goto", "name">>,
                  <<"do", "BODYSTATS", "end">>, <<"while", "EXP", "do", "BODYSTATS", "end">>,
                  <<"repeat", "BODYSTATS", "until", "EXP">>,
                  <<"if", "EXP", "then", "BODYSTATS", "ELSEIFS", "OTHERWISE", "end">>,
                  <<"for", "name", "=", "EXP", ",", "EXP", "STEP", "do", "BODYSTATS", "end">>,
                  <<"for", "NAMELIST", "in", "EXPS", "do", "BODYSTATS", "end">>,
                  <<"function", "name", "DOTTED", "METHOD", "FUNC">>, <<"local", "function", "name", "FUNC">>,
                  <<"local", "ATTRIBS", "INIT">>},
     ELSEIFS |-> {<<>>, <<"elseif", "EXP", "then", "BODYSTATS", "ELSEIFS">>},
     OTHERWISE |-> {<<>>, <<"else", "BODYSTATS">>},
     STEP    |-> {<<>>, <<",", "EXP">>},
     NAMELIST |-> {<<"name">>, <<"name", ",", "NAMELIST">>},
     DOTTED  |-> {<<>>, <<".", "name", "DOTTED">>},
     METHOD  |-> {<<>>, <<":", "name">>},
     INIT    |-> {<<>>, <<"=", "EXPS">>},
     ATTRIBS |-> {<<"name", "ATTRIB", "ATTRREST">>},
     ATTRREST |-> {<<>>, <<",", "ATTRIBS">>},
     ATTRIB  |-> {<<>>, <<"<", "name", ">">>},
     CHAIN   |-> {<<"INDEX", "ENDSVAR">>, <<"CALLED", "ENDSCALL">>},
     ENDSVAR |-> {<<"VARS", "=", "EXPS">>, <<"CHAIN">>},
     ENDSCALL |-> {<<>>, <<"CHAIN">>},
     VARS    |-> {<<>>, <<",", "VAR", "VARS">>},
     VAR     |-> {<<"name">>, <<"PRIMARY", "SUFFIXES", "INDEX">>},
     PRIMARY |-> {<<"name">>, <<"(", "EXP", ")">>},
     SUFFIXES |-> {<<>>, <<"INDEX", "SUFFIXES">>, <<"CALLED", "SUFFIXES">>},
     INDEX   |-> {<<".", "name">>, <<"[", "EXP", "]">>},
     CALLED  |-> {<<"ARGS">>, <<":", "name", "ARGS">>},
     ARGS    |-> {<<"str">>, <<"TABLE">>, <<"(", "RESULTS", ")">>},
     EXPS    |-> {<<"EXP", "EXPREST">>},
     EXPREST |-> {<<>>, <<",", "EXPS">>},
     EXP     |-> {<<"OPERAND", "MORE">>},
     MORE    |-> {<<>>, <<"binop", "EXP">>},
     OPERAND |-> {<<"value">>, <<"unop", "OPERAND">>, <<"PRIMARY", "SUFFIXES">>, <<"TABLE">>, <<"function", "FUNC">>},
     FUNC    |-> {<<"(", "PARAMS", ")", "BODYSTATS", "end">>},
     PARAMS  |-> {<<>>, <<"...">>, <<"NAMELIST">>, <<"NAMELIST", ",", "...">>},
     TABLE   |-> {<<"{", "}">>, <<"{", "FIELDS", "}">>},
     FIELDS  |-> {<<"FIELD", "FIELDREST">>},
     FIELDREST |-> {<<>>, <<"SEP">>, <<"SEP", "FIELDS">>},
     SEP     |-> {<<",">>, <<";">>},
     FIELD   |-> {<<"EXP">>, <<"name", "=", "EXP">>, <<"[", "EXP", "]", "=", "EXP">>}]

\* As the comments of grammar.rs have it: "tolerant of stray separators",
\* and the position of "..." is left for later.
Documented ==
    [Lua EXCEPT !.TABLE = {<<"{", "SEPS", "}">>, <<"{", "SEPS", "FIELDS", "}">>},
                !.FIELDREST = {<<"SEPS">>, <<"SEP", "SEPS", "FIELDS">>},
                !.PARAMS = {<<>>, <<"PARAMLIST">>}]
    @@ [SEPS |-> Star("SEP", "SEPS"), PARAM |-> {<<"name">>, <<"...">>}, PARAMLIST |-> {<<"PARAM">>, <<"PARAM", ",", "PARAMLIST">>}]

\* What the parser takes without a word besides: any expression for a
\* variable (expr_stmt), a comma after the last parameter (param_list), an
\* elseif after the else (if_stmt), and statements that are empty after a
\* return (block).
Tolerated ==
    [Documented EXCEPT !.STAT = @ \cup {<<"EXPS", "=", "EXPS">>},
                       !.PARAMLIST = @ \cup {<<"PARAM", ",">>},
                       !.OTHERWISE = {<<>>, <<"else", "BODYSTATS", "ELSEIFS">>},
                       !.ENDRET = Star(";", "ENDRET")]

\* What may be left to derive, with a token in front of each.
RECURSIVE Predicted(_, _)
Predicted(grammar, rests) ==
    LET symbols == {r \in rests : r # <<>> /\ Head(r) \in DOMAIN grammar}
    IN  IF symbols = {} THEN rests
        ELSE Predicted(grammar, (rests \ symbols) \cup UNION {{p \o Tail(r) : p \in grammar[Head(r)]} : r \in symbols})

Stands(symbol, token) == IF symbol \in DOMAIN Classes THEN token \in Classes[symbol] ELSE token = symbol

RECURSIVE Rests(_, _, _)
\* What may be left when the tokens have been derived.
Rests(grammar, tokens, rests) ==
    IF tokens = <<>> \/ rests = {} THEN rests
    ELSE Rests(grammar, Tail(tokens),
               Predicted(grammar, {Tail(r) : r \in {q \in rests : q # <<>> /\ Stands(Head(q), Head(tokens))}}))

Derives(grammar, tokens) == <<>> \in Rests(grammar, tokens, Predicted(grammar, {<<"CHUNK">>}))

------------------------------------------------------------------------------
RECURSIVE Leaves(_), Height(_), Nodes(_), Levels(_, _)
Leaves(node) == IF node.kids = <<>> THEN (IF node.at = 0 THEN <<>> ELSE <<node.at>>)
                ELSE FoldLeft(LAMBDA acc, kid : acc \o Leaves(kid), <<>>, node.kids)
Height(node) == 1 + Max({0} \cup {Height(node.kids[i]) : i \in DOMAIN node.kids})
Nodes(node)  == {node} \cup UNION {Nodes(node.kids[i]) : i \in DOMAIN node.kids}

\* The children that are not trivia.
Parts(node) == SelectSeq(node.kids, LAMBDA kid : kid.kind # Trivia)

\* No operator has an operand that binds less tightly, or as tightly on the
\* side it does not associate to.
Grouped(node) ==
    LET parts == Parts(node)
        op(k) == Power(Parts(parts[k])[2].kind)[1]
        own   == Power(parts[2].kind)[1]
    IN  CASE node.kind = "BIN_EXPR" ->
               /\ parts[1].kind = "BIN_EXPR" => op(1) > own \/ (op(1) = own /\ ~RightAssoc(parts[2].kind))
               /\ parts[3].kind = "BIN_EXPR" => op(3) > own \/ (op(3) = own /\ RightAssoc(parts[2].kind))
               /\ parts[1].kind = "PREFIX_EXPR" => UnaryPower > own
          [] node.kind = "PREFIX_EXPR" -> parts[2].kind = "BIN_EXPR" => op(2) > UnaryPower
          [] OTHER -> TRUE

\* The deepest level of lparser.c inside a node: it enters one for a statement
\* and one for a call of subexpr, which takes all the left operands of a
\* spine, and none for an expression that is a statement.
ExprKinds == {"BIN_EXPR", "PREFIX_EXPR", "LITERAL_EXPR", "VARARG_EXPR", "FUNCTION_EXPR", "TABLE_EXPR", "NAME_EXPR",
              "PAREN_EXPR", "FIELD_EXPR", "INDEX_EXPR", "CALL_EXPR", "METHOD_CALL_EXPR"}
StmtKinds == {"LOCAL_STMT", "LOCAL_FUNCTION_STMT", "IF_STMT", "WHILE_STMT", "DO_STMT", "NUMERIC_FOR_STMT", "GENERIC_FOR_STMT",
              "REPEAT_STMT", "FUNCTION_DECL_STMT", "RETURN_STMT", "BREAK_STMT", "GOTO_STMT", "LABEL_STMT", "ASSIGN_STMT", "CALL_STMT"}
SuffixKinds == {"FIELD_EXPR", "INDEX_EXPR", "CALL_EXPR", "METHOD_CALL_EXPR"}

\* Whether the i-th part of a node is parsed by the call that parses the node.
SameCall(node, i) ==
    \/ node.kind \in {"BIN_EXPR"} \cup SuffixKinds /\ i = 1
    \/ node.kind = "ARG_LIST" /\ i = 1
    \/ node.kind \in {"CALL_STMT", "TARGETS"}

Levels(node, level) ==
    LET parts == Parts(node)
        kidOf(i) == IF node.kind = "ASSIGN_STMT" /\ i = 1 THEN [parts[1] EXCEPT !.kind = "TARGETS"] ELSE parts[i]
        enters(i) == parts[i].kind \in StmtKinds \cup ExprKinds /\ ~SameCall(node, i)
    IN  Max({level} \cup {Levels(kidOf(i), IF enters(i) THEN level + 1 ELSE level) : i \in DOMAIN parts})

\* The tokens with white space before those of some kinds.
SpacedOut(tokens, kinds) ==
    FoldLeft(LAMBDA acc, k : acc \o (IF k \in kinds THEN <<Trivia, k>> ELSE <<k>>), <<>>, tokens)

------------------------------------------------------------------------------
\* Whatever the tokens and the budgets, the parser ends, its tree holds every
\* token once and in order, no node but the root begins with trivia, and the
\* heights the budget is kept by are the tree's ("the tree stays lossless"; "pending trivia is
\* flushed first so it stays outside").
EndsWithTheText(tokens, maxDepth, maxHeight) ==
    LET p == Parse(tokens, maxDepth, maxHeight) root == p.built[1] IN
    /\ p.todo = <<>> /\ p.open = <<>> /\ Len(p.built) = 1 /\ p.depth = 0
    /\ Leaves(root) = [i \in DOMAIN tokens |-> i]
    /\ \A node \in Nodes(root) \ {root} : node.kids # <<>> => node.kids[1].kind # Trivia
    /\ p.heights = <<Height(root)>>

\* Within its budgets the parser takes every program of the grammar without an
\* error, groups its operators as Lua does and nests at most half as deep
\* again as lparser.c; and it takes nothing else but what is tolerated.
Accepted(p, kinds, lua) ==
    /\ lua => /\ p.errors = {}
              /\ \A node \in Nodes(p.built[1]) : Grouped(node)
              /\ 2 * p.deepest <= 3 * Levels(p.built[1], 0) + 1
    /\ p.errors = {} => lua \/ Derives(Tolerated, kinds)
AcceptedKinds(p, kinds) == Accepted(p, kinds, Derives(Lua, kinds))
ParsesLua(tokens) == AcceptedKinds(Parse(tokens, 220, 512), SelectSeq(tokens, LAMBDA k : k # Trivia))

\* "Anything reference Lua accepts, luabox parses": what lparser.c parses in so
\* many levels is no deeper than the nesting budget.
NestingIsWithin(tokens, levels, maxDepth, maxHeight) ==
    LET p == Parse(tokens, maxDepth, maxHeight) IN
    p.errors = {} \/ ~Derives(Lua, tokens) \/ Levels(Parse(tokens, 2 * maxDepth, 2 * maxHeight).built[1], 0) > levels
=============================================================================
