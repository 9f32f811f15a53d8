------------------------------- MODULE Parsing -------------------------------
(***************************************************************************)
(* The parser at work (luabox-syntax, lua/parser.rs "Invariants"): one     *)
(* text, a step at a time, under the two budgets.                          *)
(***************************************************************************)
EXTENDS Parser

CONSTANTS Texts,       \* the texts, each as the kinds of its tokens
          DepthLimit,  \* MAX_DEPTH
          HeightLimit  \* MAX_HEIGHT

VARIABLE parser

ASSUME ParsingAssumption ==
    Texts \subseteq Seq(STRING \ {Eof}) /\ DepthLimit \in Nat /\ HeightLimit \in Nat

ParserInit == parser \in {New(text, DepthLimit, HeightLimit, SourceFile) : text \in Texts}

TakeStep ==
    /\ parser.todo # <<>>
    /\ parser' = Step([parser EXCEPT !.todo = Tail(@)], Head(parser.todo))

ParserSpec == ParserInit /\ [][TakeStep]_parser

------------------------------------------------------------------------------
(***************************************************************************)
(* Properties                                                              *)
(***************************************************************************)
\* The markers a step has been given, to wrap at now or later.
MarkersOf(step) ==
    CASE step[1] \in {"AFTERFIRST", "CLIMB", "SUFFIXES"} -> {step[2]}
      [] step[1] = "CHAIN" -> ToSet(step[2])
      [] step[1] = "LINK"  -> ToSet(step[2]) \cup {step[3]}
      [] OTHER -> {}

Innermost(p) == IF p.open = <<>> THEN 0 ELSE Last(p.open).first

\* "Never panics on any input": a node is finished only while one is open and
\* wrapped only at a marker that is still in the innermost one (rowan's
\* assertions), the levels of a chain are opened outermost first, the depth is
\* given back only when it was taken, nesting stays within the limit, and at
\* the end every node is finished and every token consumed.
NeverPanics ==
    /\ parser.todo # <<>> =>
         LET step == Head(parser.todo) IN
         /\ step[1] = "FINISH" => parser.open # <<>>
         /\ step[1] = "LEAVE" => parser.depth > 0
         /\ \A m \in MarkersOf(step) : Innermost(parser) <= m /\ m <= Len(parser.built)
         /\ step[1] \in {"CHAIN", "LINK"} => \A i, j \in DOMAIN step[2] : i <= j => step[2][i] <= step[2][j]
    /\ parser.deepest <= DepthLimit + 1
    /\ parser.todo = <<>> => /\ parser.open = <<>> /\ parser.depth = 0 /\ Len(parser.built) = 1
                             /\ parser.pos = Len(parser.tokens) + 1

\* The nodes and tokens so many levels below a node; those at most so many; and
\* of these the tokens.
Below(node) ==
    LET level[n \in Nat] == IF n = 0 THEN {node} ELSE UNION {ToSet(u.kids) : u \in level[n - 1]} IN level
Under(node, height) == UNION {Below(node)[n] : n \in 0..height}
TokensOf(node, height) == {u \in Under(node, height) : u.at # 0}

\* "parse(text, d).syntax().text() == text for every input": at the end there
\* is one tree, no higher than the budget took it for, whose leaves are the
\* tokens of the text, each once and in order, and no node but the root begins
\* with trivia ("pending trivia is flushed first so it stays outside").
TreeIsTheText ==
    parser.todo = <<>> =>
        LET root == parser.built[1] height == parser.heights[1] IN
        /\ Below(root)[height] = {}
        /\ {u.at : u \in TokensOf(root, height)} = DOMAIN parser.tokens
        /\ \A u \in TokensOf(root, height) : u.kids = <<>> /\ u.kind = parser.tokens[u.at]
        /\ \A u \in Under(root, height) : \A i, j \in DOMAIN u.kids :
             i < j => \A x \in TokensOf(u.kids[i], height), y \in TokensOf(u.kids[j], height) : x.at < y.at
        /\ \A u \in Under(root, height) \ {root} : u.kids # <<>> => u.kids[1].kind # Trivia

\* What the parser promises of any text, under any budget (parser.rs,
\* "Invariants").
ParsesAnyText == NeverPanics /\ TreeIsTheText
=============================================================================
