------------------------------- MODULE Parser -------------------------------
(***************************************************************************)
(* luabox-syntax's parser (lua/parser.rs, lua/grammar.rs): a recursive     *)
(* descent over the kinds of a file's tokens that builds a lossless tree,  *)
(* whatever the tokens, under a budget of nesting and one of height.       *)
(*                                                                         *)
(* A parser p is a record: the tokens and the next one, the finished       *)
(* children of all open nodes with the height of each, the open nodes,     *)
(* what was reported, the kind of the expression last completed, and what  *)
(* is left to do.  A rule of the grammar is a sequence of steps: a step in *)
(* capitals, with what it is given, or a token kind that is expected.      *)
(***************************************************************************)
EXTENDS Integers, Sequences, SequencesExt, FiniteSetsExt

Trivia == " "
Eof    == "eof"

UnaryOps  == {"not", "#", "-", "~"}
BlockEnds == {"end", "else", "elseif", "until"}
Literals  == {"num", "str", "nil", "true", "false"}
CanStartExpr == Literals \cup UnaryOps \cup {"name", "...", "function", "(", "{"}
CanStartStmt == CanStartExpr \cup {"local", "if", "while", "do", "for", "repeat", "return", "break", "goto", "::", ";"}

\* Binding powers, left and right; of anything else, none.
Power(k) ==
    CASE k = "or" -> <<1, 1>>
      [] k = "and" -> <<2, 2>>
      [] k \in {"<", ">", "<=", ">=", "~=", "=="} -> <<3, 3>>
      [] k = "|" -> <<4, 4>>
      [] k = "~" -> <<5, 5>>
      [] k = "&" -> <<6, 6>>
      [] k \in {"<<", ">>"} -> <<7, 7>>
      [] k = ".." -> <<9, 8>>
      [] k \in {"+", "-"} -> <<10, 10>>
      [] k \in {"*", "/", "//", "%"} -> <<11, 11>>
      [] k = "^" -> <<14, 13>>
      [] OTHER -> <<0, 0>>
UnaryPower    == 12
RightAssoc(k) == Power(k)[2] < Power(k)[1]

------------------------------------------------------------------------------
(***************************************************************************)
(* The machine: tokens, nodes, the two budgets and the steps to do.        *)
(***************************************************************************)
New(tokens, maxDepth, maxHeight, steps) ==
    [tokens |-> tokens, pos |-> 1, built |-> <<>>, heights |-> <<>>, open |-> <<>>, errors |-> {}, got |-> "none",
     depth |-> 0, deepest |-> 0, maxDepth |-> maxDepth, depthReported |-> FALSE,
     maxHeight |-> maxHeight, heightReported |-> FALSE, todo |-> steps]

Do(p, steps) == [p EXCEPT !.todo = steps \o @]
Plain(names) == [i \in DOMAIN names |-> <<names[i]>>]
Finish       == << <<"FINISH">> >>
Within(kind, steps) == << <<"START", kind>> >> \o steps \o Finish
Rule(kind, names)   == Within(kind, Plain(names))
Node(kind, names)   == Rule(kind, names) \o << <<"GOT", kind>> >>

SkipTriviaFrom(tokens, i) == Min({j \in i..(Len(tokens) + 1) : j = Len(tokens) + 1 \/ tokens[j] # Trivia} \cup {Len(tokens) + 1})
NthFrom(tokens, i) == IF i <= Len(tokens) THEN tokens[i] ELSE Eof
After(tokens, i)   == SkipTriviaFrom(tokens, SkipTriviaFrom(tokens, i) + 1)
Current(p) == NthFrom(p.tokens, SkipTriviaFrom(p.tokens, p.pos))
Second(p)  == NthFrom(p.tokens, After(p.tokens, p.pos))
Third(p)   == NthFrom(p.tokens, After(p.tokens, After(p.tokens, p.pos)))
At(p, k)   == Current(p) = k

\* push_token, of each up to a place.
PushUntil(p, end) ==
    [p EXCEPT !.pos = end,
              !.built = @ \o [i \in 1..(end - p.pos) |-> [kind |-> p.tokens[p.pos + i - 1], at |-> p.pos + i - 1, kids |-> <<>>]],
              !.heights = @ \o [i \in 1..(end - p.pos) |-> 1]]
FlushTrivia(p) == PushUntil(p, SkipTriviaFrom(p.tokens, p.pos))
Bump(p) == PushUntil(p, Min({SkipTriviaFrom(p.tokens, p.pos) + 1, Len(p.tokens) + 1}))

\* error: what is said twice of one token is said once.
Error(p, what) == [p EXCEPT !.errors = @ \cup {<<SkipTriviaFrom(p.tokens, p.pos), what>>}]
Expect(p, k)   == IF At(p, k) THEN Bump(p) ELSE Error(p, k)

\* A marker is the number of children finished before it.
StartNodeAt(p, marker, kind) == [p EXCEPT !.open = Append(@, [kind |-> kind, first |-> marker])]

StartFlushed(p, kind) == StartNodeAt(p, Len(p.built), kind)
StartNode(p, kind)    == StartFlushed(IF p.open = <<>> THEN p ELSE FlushTrivia(p), kind)

SubtreeHeight(p, marker) == Max({0} \cup {p.heights[i] : i \in (marker + 1)..Len(p.heights)})
FinishAs(p, node) ==
    [p EXCEPT !.open = Front(@),
              !.built = Append(SubSeq(@, 1, node.first), [kind |-> node.kind, at |-> 0, kids |-> SubSeq(@, node.first + 1, Len(@))]),
              !.heights = Append(SubSeq(@, 1, node.first), SubtreeHeight(p, node.first) + 1)]
FinishNode(p) == FinishAs(p, Last(p.open))

CanWrap(p, marker, levels) == SubtreeHeight(p, marker) + levels <= p.maxHeight
\* The height budget is reported when it first runs out.
TooComplex(p) == IF p.heightReported THEN p ELSE [Error(p, "tooComplex") EXCEPT !.heightReported = TRUE]

BumpIntoErrorNode(p) == IF At(p, Eof) THEN p ELSE FinishNode(Bump(StartNode(p, "ERROR_NODE")))
ErrorAndBump(p)      == BumpIntoErrorNode(Error(p, "unexpected"))
DepthError(p) ==
    BumpIntoErrorNode(IF p.depthReported THEN p ELSE [Error(p, "nestingLimit") EXCEPT !.depthReported = TRUE])

TooDeep(p) == p.depth >= p.maxDepth
Enter(p) == [p EXCEPT !.depth = @ + 1, !.deepest = Max({@, p.depth + 1})]
Leave(p) == [p EXCEPT !.depth = @ - 1]
Got(p, kind) == [p EXCEPT !.got = kind]

------------------------------------------------------------------------------
(***************************************************************************)
(* Statements.                                                             *)
(***************************************************************************)
BlockOf(topLevel) == Within("BLOCK", << <<"STATEMENTS", topLevel, FALSE>> >>)

\* block, given whether the statement before was a return.
Statements(p, topLevel, afterReturn) ==
    CASE At(p, Eof) -> p
      [] Current(p) \in BlockEnds -> IF topLevel THEN Do(ErrorAndBump(p), << <<"STATEMENTS", topLevel, afterReturn>> >>) ELSE p
      [] At(p, ";") -> Do(Bump(p), << <<"STATEMENTS", topLevel, afterReturn>> >>)
      [] OTHER -> Do(IF afterReturn THEN Error(p, "afterReturn") ELSE p,
                     << <<"STATEMENT">>, <<"STATEMENTS", topLevel, At(p, "return") /\ ~TooDeep(p)>> >>)

Recover(p) == IF Current(p) \in CanStartStmt \cup BlockEnds \cup {Eof} THEN p ELSE Do(Bump(p), << <<"RECOVER">> >>)

LocalName(p) == IF Second(p) = "<"
                THEN Within("LOCAL_NAME", << <<"BUMP">> >> \o Rule("NAME_ATTRIB", <<"BUMP", "name", ">">>))
                ELSE Rule("LOCAL_NAME", <<"BUMP">>)
LocalNames(p) == IF At(p, "name") THEN Do(p, LocalName(p) \o << <<"NEXTLOCAL">> >>) ELSE Error(p, "name")

Clauses(p, seenElse) ==
    CASE At(p, "elseif") -> Do(p, Rule("ELSEIF_CLAUSE", <<"BUMP", "EXPR", "then", "BLOCK">>) \o << <<"CLAUSES", seenElse>> >>)
      [] At(p, "else") -> Do(IF seenElse THEN Error(p, "duplicateElse") ELSE p,
                             Rule("ELSE_CLAUSE", <<"BUMP", "BLOCK">>) \o << <<"CLAUSES", TRUE>> >>)
      [] OTHER -> p

\* Names after the first, each behind a separator.
Names(p, separator) == IF At(p, separator) THEN Do(Bump(p), << <<"name">>, <<"NAMES", separator>> >>) ELSE p

ParamList(p) == IF At(p, "(") THEN Do(StartNode(p, "PARAM_LIST"), << <<"BUMP">>, <<"PARAMS">> >> \o Finish)
                ELSE FinishNode(Error(StartNode(p, "PARAM_LIST"), "("))
Params(p) ==
    CASE At(p, ")") -> Bump(p)
      [] Current(p) \in {"name", "..."} -> Do(p, Rule("PARAM", <<"BUMP">>) \o << <<"NEXTPARAM">> >>)
      [] OTHER -> Error(p, "parameter")
NextParam(p) == IF At(p, ",") THEN Do(Bump(p), << <<"PARAMS">> >>) ELSE Expect(p, ")")

\* Steps that are taken when the token for them is there.
If(p, k, names) == IF At(p, k) THEN Do(Bump(p), Plain(names)) ELSE p

ExprStmt(p) == Do(p, << <<"EXPRBP", 0>>, <<"AFTERFIRST", Len(p.built)>> >>)

\* expr_stmt, once the first expression is parsed.
AfterFirst(p, marker) ==
    IF Current(p) \in {"=", ","}
    THEN Do(StartNodeAt(StartNodeAt(p, marker, "ASSIGN_STMT"), marker, "EXPR_LIST"),
            << <<"TARGETS">>, <<"FINISH">>, <<"=">>, <<"EXPRS">>, <<"FINISH">> >>)
    ELSE FinishNode(IF p.got \in {"CALL_EXPR", "METHOD_CALL_EXPR"} THEN StartNodeAt(p, marker, "CALL_STMT")
                    ELSE Error(StartNodeAt(p, marker, "CALL_STMT"), "assignmentOrCall"))
AfterTarget(p) == IF p.got = "none" THEN Error(p, "expression") ELSE Do(p, << <<"TARGETS">> >>)

LocalFunctionStmt == Rule("LOCAL_FUNCTION_STMT", <<"BUMP", "BUMP", "name", "BODY">>)
LocalStmt == Rule("LOCAL_STMT", <<"BUMP", "LOCALNAMES", "INIT">>)
IfStmt    == Within("IF_STMT", << <<"BUMP">>, <<"EXPR">>, <<"then">>, <<"BLOCK">>, <<"CLAUSES", FALSE>>, <<"end">> >>)
WhileStmt == Rule("WHILE_STMT", <<"BUMP", "EXPR", "do", "BLOCK", "end">>)
DoStmt    == Rule("DO_STMT", <<"BUMP", "BLOCK", "end">>)
NumericForStmt == Rule("NUMERIC_FOR_STMT", <<"BUMP", "BUMP", "BUMP", "EXPR", ",", "EXPR", "STEP", "do", "BLOCK", "end">>)
GenericForStmt == Within("GENERIC_FOR_STMT", << <<"BUMP">>, <<"name">>, <<"NAMES", ",">> >>
                                                 \o Plain(<<"in", "EXPRS", "do", "BLOCK", "end">>))
RepeatStmt == Rule("REPEAT_STMT", <<"BUMP", "BLOCK", "until", "EXPR">>)
FunctionDeclStmt ==
    Within("FUNCTION_DECL_STMT", << <<"BUMP">> >>
       \o Within("FUNCTION_NAME", << <<"name">>, <<"NAMES", ".">>, <<"METHODNAME">> >>) \o << <<"BODY">> >>)
FunctionBody == Plain(<<"PARAMLIST", "BLOCK", "end">>)
ReturnStmt   == Rule("RETURN_STMT", <<"BUMP", "RESULTS", "SEMICOLON">>)
BreakStmt    == Rule("BREAK_STMT", <<"BUMP">>)
GotoStmt     == Rule("GOTO_STMT", <<"BUMP", "name">>)
LabelStmt    == Rule("LABEL_STMT", <<"BUMP", "name", "::">>)
RecoverStmt  == << <<"ERROR", "unexpected">> >> \o Rule("ERROR_NODE", <<"RECOVER">>)

StatementInner(p) ==
    CASE At(p, "local") -> IF Second(p) = "function" THEN LocalFunctionStmt ELSE LocalStmt
      [] At(p, "if") -> IfStmt
      [] At(p, "while") -> WhileStmt
      [] At(p, "do") -> DoStmt
      [] At(p, "for") -> IF Second(p) = "name" /\ Third(p) = "=" THEN NumericForStmt ELSE GenericForStmt
      [] At(p, "repeat") -> RepeatStmt
      [] At(p, "function") -> FunctionDeclStmt
      [] At(p, "return") -> ReturnStmt
      [] At(p, "break") -> BreakStmt
      [] At(p, "goto") -> GotoStmt
      [] At(p, "::") -> LabelStmt
      [] Current(p) \in CanStartExpr \ {"function"} -> << <<"EXPRSTMT">> >>
      [] OTHER -> RecoverStmt

\* Mutant: what the budget refuses is not given back.
StatementKeepingDepth(p) ==
    IF TooDeep(p) THEN DepthError(Enter(p)) ELSE Do(Enter(p), StatementInner(p) \o << <<"LEAVE">> >>)

Statement(p) ==
    IF TooDeep(p) THEN Leave(DepthError(Enter(p))) ELSE Do(Enter(p), StatementInner(p) \o << <<"LEAVE">> >>)

------------------------------------------------------------------------------
(***************************************************************************)
(* Expressions.                                                            *)
(***************************************************************************)
\* expr_bp, whose callers report that no expression could start.
ExprFrom(p, limit) ==
    Do(p, (IF Current(p) \in UnaryOps
           THEN Within("PREFIX_EXPR", << <<"BUMP">>, <<"EXPRBP", UnaryPower>>, <<"REQUIRED">> >>) \o << <<"GOT", "PREFIX_EXPR">> >>
           ELSE << <<"SIMPLE">> >>)
          \o << <<"CLIMB", Len(p.built), limit, TRUE>>, <<"LEAVE">> >>)
ExprBp(p, limit) == IF TooDeep(p) THEN Leave(Got(DepthError(Enter(p)), "none")) ELSE ExprFrom(FlushTrivia(Enter(p)), limit)
Required(p) == IF p.got = "none" THEN Error(p, "expression") ELSE p

ExprList(p)  == Do(StartNode(p, "EXPR_LIST"), << <<"NEXTEXPR">> >> \o Finish)
NextExpr(p)  == Do(p, << <<"EXPRBP", 0>>, <<"AFTEREXPR">> >>)
AfterExpr(p) == IF p.got = "none" THEN Error(p, "expression") ELSE If(p, ",", <<"NEXTEXPR">>)

\* The rest of an expression whose left operand starts at the marker, while
\* what follows binds tighter than the limit; past the height budget operator
\* and operand lie flat.
Wrapped(p, marker, limit, fits) ==
    IF fits
    THEN Do(StartNodeAt(p, marker, "BIN_EXPR"),
            << <<"BUMP">>, <<"EXPRBP", Power(Current(p))[2]>>, <<"REQUIRED">>, <<"FINISH">>, <<"GOT", "BIN_EXPR">>,
               <<"CLIMB", marker, limit, TRUE>> >>)
    ELSE Do(TooComplex(p),
            << <<"BUMP">>, <<"EXPRBP", Power(Current(p))[2]>>, <<"REQUIRED">>, <<"GOT", p.got>>, <<"CLIMB", marker, limit, FALSE>> >>)
Climb(p, marker, limit, budget) ==
    CASE p.got = "none" \/ Power(Current(p))[1] <= limit -> p
      [] p.got # "none" /\ Power(Current(p))[1] > limit /\ RightAssoc(Current(p)) ->
             Do(p, << <<"CHAIN", <<marker>>, Current(p), TRUE>>, <<"CLIMB", marker, limit, budget>> >>)
      [] OTHER -> Wrapped(p, marker, limit, budget /\ CanWrap(p, marker, 1))

\* right_assoc_chain: one operator, given where the operands of the chain so
\* far start; its levels are opened when it ends, outermost first.
Closed(p, starts) ==
    [p EXCEPT !.open = @ \o [i \in DOMAIN starts |-> [kind |-> "BIN_EXPR", first |-> starts[i]]],
              !.todo = [i \in DOMAIN starts |-> <<"FINISH">>] \o << <<"GOT", "BIN_EXPR">> >> \o @]
Linked(p, starts, operand, op, fits) ==
    Do(IF fits THEN p ELSE TooComplex(p), << <<"CHAIN", IF fits THEN Append(starts, operand) ELSE starts, op, fits>> >>)

\* Mutant: a chain ends at its first operand.
LinkNever(p, starts, operand, op, budget) == Closed(p, starts)

\* right_assoc_chain: the same operator again is a level more.
Link(p, starts, operand, op, budget) ==
    IF Power(Current(p)) = Power(op) THEN Linked(p, starts, operand, op, budget /\ CanWrap(p, starts[1], Len(starts) + 1))
    ELSE Closed(p, starts)
Operand(p, starts, op, budget) ==
    Do(p, << <<"EXPRBP", Power(op)[1]>>, <<"REQUIRED">>, <<"LINK", starts, Len(p.built), op, budget>> >>)
Chain(p, starts, op, budget) == Operand(FlushTrivia(Bump(p)), starts, op, budget)

SimpleFlushed(p) ==
    Do(p, CASE Current(p) \in Literals -> Node("LITERAL_EXPR", <<"BUMP">>)
            [] At(p, "...") -> Node("VARARG_EXPR", <<"BUMP">>)
            [] At(p, "function") -> Node("FUNCTION_EXPR", <<"BUMP", "BODY">>)
            [] At(p, "{") -> << <<"TABLE">>, <<"GOT", "TABLE_EXPR">> >>
            [] At(p, "name") -> Node("NAME_EXPR", <<"BUMP">>) \o << <<"SUFFIXES", Len(p.built), TRUE>> >>
            [] At(p, "(") -> Node("PAREN_EXPR", <<"BUMP", "EXPR", ")">>) \o << <<"SUFFIXES", Len(p.built), TRUE>> >>
            [] OTHER -> << <<"GOT", "none">> >>)
SimpleExpr(p) == SimpleFlushed(IF Current(p) \in {"name", "("} THEN FlushTrivia(p) ELSE p)

SuffixOf == [k \in {".", "[", ":", "(", "str", "{"} |->
    CASE k = "." -> "FIELD_EXPR" [] k = "[" -> "INDEX_EXPR" [] k = ":" -> "METHOD_CALL_EXPR" [] OTHER -> "CALL_EXPR"]
Suffix(k) ==
    CASE k = "." -> Plain(<<"BUMP", "name">>)
      [] k = "[" -> Plain(<<"BUMP", "EXPR", "]">>)
      [] k = ":" -> Plain(<<"BUMP", "name", "ARGS">>)
      [] OTHER -> Plain(<<"ARGS">>)
Suffixed(p, marker, k, fits) ==
    IF fits THEN Do(StartNodeAt(p, marker, SuffixOf[k]), Suffix(k) \o << <<"FINISH">>, <<"GOT", SuffixOf[k]>>, <<"SUFFIXES", marker, TRUE>> >>)
    ELSE Do(TooComplex(p), Suffix(k) \o << <<"GOT", p.got>>, <<"SUFFIXES", marker, FALSE>> >>)
SuffixLoop(p, marker, budget) ==
    IF Current(p) \in DOMAIN SuffixOf THEN Suffixed(p, marker, Current(p), budget /\ CanWrap(p, marker, 1)) ELSE p

CallArgs(p) ==
    Do(StartNode(p, "ARG_LIST"),
       (CASE At(p, "str") -> Plain(<<"BUMP">>)
          [] At(p, "{") -> Plain(<<"TABLE">>)
          [] At(p, "(") -> Plain(<<"BUMP", "RESULTS", ")">>)
          [] OTHER -> << <<"ERROR", "arguments">> >>) \o Finish)

TableExpr      == Within("TABLE_EXPR", << <<"BUMP">>, <<"FIELDS", FALSE>> >>)
TableKeyField  == Rule("TABLE_KEY_FIELD", <<"BUMP", "EXPR", "]", "=", "EXPR">>)
TableNameField == Rule("TABLE_NAME_FIELD", <<"BUMP", "BUMP", "EXPR">>)
TableItemField == Rule("TABLE_ITEM_FIELD", <<"EXPR">>)

\* table_expr's loop, given whether a field has just ended.
AddField(p, needsSeparator, rule) ==
    Do(IF needsSeparator THEN Error(p, "separator") ELSE p, rule \o << <<"FIELDS", TRUE>> >>)
Fields(p, needsSeparator) ==
    CASE At(p, "}") -> Bump(p)
      [] Current(p) \in {",", ";"} -> Do(Bump(p), << <<"FIELDS", FALSE>> >>)
      [] At(p, "[") -> AddField(p, needsSeparator, TableKeyField)
      [] At(p, "name") /\ Second(p) = "=" -> AddField(p, needsSeparator, TableNameField)
      [] Current(p) \in CanStartExpr /\ ~(At(p, "name") /\ Second(p) = "=") ->
             AddField(p, needsSeparator, TableItemField)
      [] Current(p) \in (BlockEnds \cup CanStartStmt \cup {Eof}) \ (CanStartExpr \cup {";"}) -> Error(p, "}")
      [] OTHER -> Do(ErrorAndBump(p), << <<"FIELDS", needsSeparator>> >>)

------------------------------------------------------------------------------
Step(p, step) ==
    CASE step[1] = "BUMP" -> Bump(p)
      [] step[1] = "START" -> StartNode(p, step[2])
      [] step[1] = "FINISH" -> FinishNode(p)
      [] step[1] = "GOT" -> Got(p, step[2])
      [] step[1] = "LEAVE" -> Leave(p)
      [] step[1] = "ERROR" -> Error(p, step[2])
      [] step[1] = "TRIVIA" -> FlushTrivia(p)
      [] step[1] = "BLOCK" -> Do(p, BlockOf(FALSE))
      [] step[1] = "BODY" -> Do(p, FunctionBody)
      [] step[1] = "STATEMENTS" -> Statements(p, step[2], step[3])
      [] step[1] = "STATEMENT" -> Statement(p)
      [] step[1] = "RECOVER" -> Recover(p)
      [] step[1] = "LOCALNAMES" -> LocalNames(p)
      [] step[1] = "NEXTLOCAL" -> If(p, ",", <<"LOCALNAMES">>)
      [] step[1] = "INIT" -> If(p, "=", <<"EXPRS">>)
      [] step[1] = "CLAUSES" -> Clauses(p, step[2])
      [] step[1] = "NAMES" -> Names(p, step[2])
      [] step[1] = "STEP" -> If(p, ",", <<"EXPR">>)
      [] step[1] = "METHODNAME" -> If(p, ":", <<"name">>)
      [] step[1] = "PARAMLIST" -> ParamList(p)
      [] step[1] = "PARAMS" -> Params(p)
      [] step[1] = "NEXTPARAM" -> NextParam(p)
      [] step[1] = "RESULTS" -> IF Current(p) \in CanStartExpr THEN ExprList(p) ELSE p
      [] step[1] = "SEMICOLON" -> If(p, ";", <<>>)
      [] step[1] = "EXPRSTMT" -> ExprStmt(FlushTrivia(p))
      [] step[1] = "AFTERFIRST" -> AfterFirst(p, step[2])
      [] step[1] = "TARGETS" -> IF At(p, ",") THEN Do(Bump(p), << <<"EXPRBP", 0>>, <<"AFTERTARGET">> >>) ELSE p
      [] step[1] = "AFTERTARGET" -> AfterTarget(p)
      [] step[1] = "EXPR" -> Do(p, << <<"EXPRBP", 0>>, <<"REQUIRED">> >>)
      [] step[1] = "EXPRBP" -> ExprBp(p, step[2])
      [] step[1] = "REQUIRED" -> Required(p)
      [] step[1] = "EXPRS" -> ExprList(p)
      [] step[1] = "NEXTEXPR" -> NextExpr(p)
      [] step[1] = "AFTEREXPR" -> AfterExpr(p)
      [] step[1] = "SIMPLE" -> SimpleExpr(p)
      [] step[1] = "CLIMB" -> Climb(p, step[2], step[3], step[4])
      [] step[1] = "CHAIN" -> Chain(p, step[2], step[3], step[4])
      [] step[1] = "LINK" -> Link(p, step[2], step[3], step[4], step[5])
      [] step[1] = "SUFFIXES" -> SuffixLoop(p, step[2], step[3])
      [] step[1] = "ARGS" -> CallArgs(p)
      [] step[1] = "TABLE" -> Do(p, TableExpr)
      [] step[1] = "FIELDS" -> Fields(p, step[2])
      [] OTHER -> Expect(p, step[1])

\* source_file
SourceFile == Within("SOURCE_FILE", BlockOf(TRUE) \o << <<"TRIVIA">> >>)
=============================================================================
